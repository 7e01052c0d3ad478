CONSTANTS
    d1 = d1  d2 = d2
    Deposit = {d1, d2}
    GAP = 1
    MainBundle <- MCMainBundle
    MaxHeight = 3
    MaxEvents = 5
    MaxDisconnects = 2
CHECK_DEADLOCK FALSE
SPECIFICATION Spec
INVARIANTS
    UtxoStxoDisjoint
    PendingKnown
    BundleOwnership
    PendingSpendable
    ConnectPanicFree
    DisconnectSucceeds
PROPERTY
    RestoresUpToLeak
