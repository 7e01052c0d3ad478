\* Three scenarios; blocks of up to two transactions.
SPECIFICATION Spec
CONSTANTS
    MaxAmount = 1000
    U64 = 1000
    U32 = 1000
    Byte = 256
    Field = {f1, f2}
    Scenario <- MCScenario
    MaxTxs = 2
    MaxBlocks = 5
INVARIANTS
    DisconnectExact
    PathsAgree
    SeqExact
    HistoryExact
    SupplyBacked
    AuctionSound
    PanicsKnown
PROPERTIES
    NotDiluted
CHECK_DEADLOCK FALSE
