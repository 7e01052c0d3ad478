SPECIFICATION Spec
CONSTANTS
    MainBlock <- MCMain
    ZeroHash = "zero"
    prev_block_hash <- MCprev_block_hash
    work <- MCwork
    bmm_commitment <- MCbmm_commitment
    SideBlock <- MCSide
    None = "none"
    prev_side_hash <- MCprev_side_hash
    prev_main_hash <- MCprev_main_hash
    Peer = {"p"}
    course <- MCcourse
    MAX_BLOCK_REQUESTS = 2
    Unwanted = {"a2"}
    FirstMain = "m4"
    FirstTip = "g"
    MaxFaults = 1
CHECK_DEADLOCK FALSE
INVARIANTS
    NetTaskRuns
PROPERTIES
    ImplementsTipOffers
    Synced
