SPECIFICATION NodeSpec
CONSTANTS
    MainBlock <- MCMain
    ZeroHash = "zero"
    prev_block_hash <- MCprev_block_hash
    work <- MCwork
    bmm_commitment <- MCbmm_commitment
    SideBlock <- MCSide
    None = "none"
    prev_side_hash <- MCprev_side_hash
    prev_main_hash <- MCprev_main_hash
    Txid = {"x"}
    body_of <- MCbody_of
    Forged = {{"x"}}
    Unwanted = {"a1", "b1"}
    peg_events <- MCpeg_events
INVARIANTS
    PegExact
    TipKnown
PROPERTY
    NeverWorse
    PanicsOnlyWhen
