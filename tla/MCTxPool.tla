------------------------------- MODULE MCTxPool -------------------------------
(***************************************************************************)
(* t1 and t3 compete for a deposit.  Block b1 has t1, and its rivals       *)
(* c1 - c2 have t3 and nothing.                                            *)
(***************************************************************************)
EXTENDS TxPool, TLC

MCinputs == "t1" :> <<"d">> @@ "t3" :> <<"d">>
MCoutputs == "t1" :> {"o1"} @@ "t3" :> {}
MCrelevant == [t \in {"t1", "t3"} |-> {}]
MCparent == "b1" :> "none" @@ "c1" :> "none" @@ "c2" :> "c1"
MCbody == "b1" :> <<"t1">> @@ "c1" :> <<"t3">> @@ "c2" :> <<>>
=============================================================================
