------------------------------- MODULE MCNodeTip -------------------------------
(***************************************************************************)
(* Mainchain m1 - m2 - m3 - m4 with a fork n3 - n4 - n5 after m2.  m2      *)
(* commits to the genesis block g, m3 and m4 to a1 and its child a2, n4    *)
(* and n5 to b1 and its child b2.  b2 is better than a1, and a2 than b2.   *)
(* A peer may send a wrong body for a2, which a reorg meets before its     *)
(* first commit when it comes from b2, and after one when it comes from g. *)
(* The last deposit and the last bundle event that come with b1 are in two *)
(* mainchain blocks.                                                       *)
(***************************************************************************)
EXTENDS NodeTip, TLC

MCMain == {"m1", "m2", "m3", "m4", "n3", "n4", "n5"}
MCSide == {"g", "a1", "a2", "b1", "b2"}
MCprev_block_hash ==
    "m1" :> "zero" @@ "m2" :> "m1" @@ "m3" :> "m2" @@ "m4" :> "m3" @@ "n3" :> "m2"
    @@ "n4" :> "n3" @@ "n5" :> "n4"
MCwork == "m4" :> 3 @@ [m \in MCMain |-> 1]
MCbmm_commitment ==
    "m2" :> "g" @@ "m3" :> "a1" @@ "m4" :> "a2" @@ "n4" :> "b1" @@ "n5" :> "b2"
    @@ [m \in MCMain |-> "none"]
MCprev_side_hash ==
    "g" :> "none" @@ "a1" :> "g" @@ "a2" :> "a1" @@ "b1" :> "g" @@ "b2" :> "b1"
MCprev_main_hash ==
    "g" :> "m1" @@ "a1" :> "m2" @@ "a2" :> "m3" @@ "b1" :> "n3" @@ "b2" :> "n4"
MCbody_of == "a2" :> {} @@ [b \in MCSide |-> {"x"}]

MCpeg_events ==
    "m1" :> {"bundle"} @@ "m2" :> {"deposit", "bundle"} @@ "m3" :> {"deposit"}
    @@ "n3" :> {"bundle"} @@ [m \in MCMain |-> {}]

\* m3 and n3 both commit to a1, and n3 has more work than m3 and m4 together.
MCTwiceMain == MCMain \ {"n4", "n5"}
MCTwiceSide == {"g", "a1", "a2"}
MCtwice_work == "n3" :> 4 @@ [m \in MCTwiceMain |-> 1]
MCtwice_bmm_commitment == "n3" :> "a1" @@ [m \in MCTwiceMain |-> MCbmm_commitment[m]]
MCtwice_prev_block_hash == [m \in MCTwiceMain |-> MCprev_block_hash[m]]
MCtwice_prev_side_hash == [b \in MCTwiceSide |-> MCprev_side_hash[b]]
MCtwice_prev_main_hash == [b \in MCTwiceSide |-> MCprev_main_hash[b]]
MCtwice_body_of == [b \in MCTwiceSide |-> MCbody_of[b]]
MCtwice_peg_events == [m \in MCTwiceMain |-> MCpeg_events[m]]

\* The first instance is one that the theorems of NodeTipProofs speak of.
ASSUME MCNodeTipAssumption ==
    bmm_commitment = MCbmm_commitment => EqualWork /\ OneFork /\ Mixed("b1") /\ Clean("a2")
=============================================================================
