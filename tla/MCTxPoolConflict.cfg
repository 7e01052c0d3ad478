SPECIFICATION Spec
CONSTANTS
    Txid = {"t1", "t3"}
    OutPoint = {"d", "o1"}
    Address = {}
    inputs <- MCinputs
    outputs <- MCoutputs
    relevant_addresses <- MCrelevant
    Node = {"n", "m"}
    Genesis = {"d"}
    Block = {"b1", "c1", "c2"}
    NoBlock = "none"
    parent <- MCparent
    body <- MCbody
    MaxFaults = 2
INVARIANT PeerTransactionConflictsDoNotStopNetTask
