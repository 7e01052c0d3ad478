SPECIFICATION Spec
CONSTANTS
    MainBlock <- MCMain
    ZeroHash = "zero"
    prev_block_hash <- MCprev_block_hash
    work <- MCwork
    bmm_commitment <- MCbmm_commitment
    SideBlock <- MCSide
    None = "none"
    prev_side_hash <- MCprev_side_hash
    prev_main_hash <- MCprev_main_hash
    Txid = {"x", "y"}
    body_of <- MCbody_of
    Forged = {{"y"}}
    Unwanted = {"a1"}
INVARIANTS
    BmmExact
    OrderedSound
    AncestorsKept
