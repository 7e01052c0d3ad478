------------------------------ MODULE MCTipOrder ------------------------------
(***************************************************************************)
(* Mainchain m1 - m2 - m3 - m4 - m5 with a fork n3 - n4 - n5 after m2.     *)
(* Sidechain: g in m2; a1, b1 children of g in m3 and m4, b2 on b1 in m5;  *)
(* on the fork c1 in n3, its rival d1 in n4, and c2 on c1 in n5.           *)
(***************************************************************************)
EXTENDS TipOrder, TLC

MCMain == {"m1", "m2", "m3", "m4", "m5", "n3", "n4", "n5"}
MCSide == {"g", "a1", "b1", "b2", "c1", "c2", "d1"}

MCprev_block_hash ==
    "m1" :> "zero" @@ "m2" :> "m1" @@ "m3" :> "m2" @@ "m4" :> "m3" @@ "m5" :> "m4"
    @@ "n3" :> "m2" @@ "n4" :> "n3" @@ "n5" :> "n4"
MCwork == [m \in MCMain |-> IF m = "n4" THEN 4 ELSE IF m \in {"n3", "m4"} THEN 2 ELSE 1]
MCbmm_commitment ==
    "m1" :> "none" @@ "m2" :> "g" @@ "m3" :> "a1" @@ "m4" :> "b1" @@ "m5" :> "b2"
    @@ "n3" :> "c1" @@ "n4" :> "d1" @@ "n5" :> "c2"
MCprev_side_hash ==
    "g" :> "none" @@ "a1" :> "g" @@ "b1" :> "g" @@ "b2" :> "b1"
    @@ "c1" :> "g" @@ "d1" :> "g" @@ "c2" :> "c1"
MCprev_main_hash ==
    "g" :> "m1" @@ "a1" :> "m2" @@ "b1" :> "m3" @@ "b2" :> "m4"
    @@ "c1" :> "m2" @@ "d1" :> "n3" @@ "c2" :> "n4"

\* The block a1 has a second commitment, in n3.
MCsecond_commitment == [MCbmm_commitment EXCEPT !["n3"] = "a1"]
MCprev_side_second == [MCprev_side_hash EXCEPT !["c2"] = "a1"]
=============================================================================
