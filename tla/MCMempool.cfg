CONSTANTS
    t1 = t1  t2 = t2  t3 = t3  t4 = t4  t5 = t5  t6 = t6  t7 = t7
    d1 = d1  d2 = d2  o11 = o11  o12 = o12  o21 = o21  o31 = o31  o41 = o41  o51 = o51
    alice = alice  bob = bob  carol = carol
    Txid <- MCTxid
    OutPoint <- MCOutPoint
    Address <- MCAddress
    inputs <- MCInputs
    outputs <- MCOutputs
    relevant_addresses <- MCRelevant
SPECIFICATION Spec
INVARIANTS
    SpentUtxosExact
    AddressIndexExact
PROPERTY
    DeleteRemovesClosure
