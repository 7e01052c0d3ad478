SPECIFICATION Spec
CONSTANTS
    Addr = {"a", "f", "u", "v"}
    Foreign = {"f"}
    Invalid = {"v"}
    Unspecified = {"u"}
    Seeds = {"a"}
    Host <- MCHost
    RECONNECT_DELAY = 1
    MIN_DELAY = 2
    MAX_DELAY = 4
    MaxFaults = 3
    MaxArrivals = 2
CHECK_DEADLOCK FALSE
INVARIANT KnownDialable
PROPERTY KeepsDialing
