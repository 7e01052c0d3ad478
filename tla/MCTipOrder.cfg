SPECIFICATION Spec
CONSTANTS
    MainBlock <- MCMain
    ZeroHash = "zero"
    prev_block_hash <- MCprev_block_hash
    work <- MCwork
    bmm_commitment <- MCbmm_commitment
    SideBlock <- MCSide
    None = "none"
    prev_side_hash <- MCprev_side_hash
    prev_main_hash <- MCprev_main_hash
    Node = {p, q}
CHECK_DEADLOCK FALSE
INVARIANTS
    PeerCheckAgrees
    NoReturn
    Agreement
