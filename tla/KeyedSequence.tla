----------------------------- MODULE KeyedSequence -----------------------------
(***************************************************************************)
(* deposit_blocks and withdrawal_bundle_event_blocks of lib/state, which   *)
(* connect and disconnect of two_way_peg_data.rs use as stacks.  Are they? *)
(***************************************************************************)
EXTENDS SequentialKeys, Sequences, FiniteSets

CONSTANTS
    MaxHeight,   \* bound: blocks of the chain
    MaxEntries   \* bound: entries in one database

Kind == {"deposit", "bundle"}

VARIABLES
    db,    \* for each kind of event, key -> the height that applied it
    chain  \* the kinds of events in each block of the chain

vars == <<db, chain>>

Init == db = [d \in Kind |-> [k \in {} |-> 0]] /\ chain = <<>>

-----------------------------------------------------------------------------
\* connect, of a block with events of the kinds K.
Connect(K) ==
    /\ Len(chain) < MaxHeight
    /\ \A d \in K : Cardinality(DOMAIN db[d]) < MaxEntries
    /\ chain' = Append(chain, K)
    /\ db' = [d \in Kind |->
                LET k == next_key(db[d])
                IN  IF d \notin K THEN db[d]
                    ELSE [j \in DOMAIN db[d] \cup {k} |->
                            IF j = k THEN Len(chain') ELSE db[d][j]]]

\* disconnect; its assertions keep it from deleting an entry of another block.
Disconnect ==
    LET K == chain[Len(chain)]
    IN  /\ chain # <<>>
        /\ \A d \in K : DOMAIN db[d] # {} /\ db[d][last(db[d])] = Len(chain)
        /\ chain' = SubSeq(chain, 1, Len(chain) - 1)
        /\ db' = [d \in Kind |->
                    IF d \notin K THEN db[d]
                    ELSE [j \in DOMAIN db[d] \ {last(db[d])} |-> db[d][j]]]

Next == (\E K \in SUBSET Kind : Connect(K)) \/ Disconnect

Spec == Init /\ [][Next]_vars

-----------------------------------------------------------------------------
\* The heights of the blocks of the chain that have such an event.
Heights(d) == {h \in DOMAIN chain : d \in chain[h]}

\* "keyed sequentially": one entry for every block with such events, and the
\* last is that of the newest, which connect counts on and disconnect deletes.
Sequential ==
    \A d \in Kind :
        /\ {db[d][k] : k \in DOMAIN db[d]} = Heights(d)
        /\ Heights(d) # {} => \A h \in Heights(d) : h <= db[d][last(db[d])]
=============================================================================
