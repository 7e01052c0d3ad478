--------------------------- MODULE MCMainchainTask ----------------------------
(***************************************************************************)
(* Mainchain m1 - m2 - m3 with a fork n2 - n3 after m1.  m2 and n2 both    *)
(* commit to the genesis block g, m3 to a child a1 of it, and n3 to a      *)
(* child z2 of a1, to which the ancestors of n3 do not commit.             *)
(***************************************************************************)
EXTENDS MainchainTask, TLC

MCMain == {"m1", "m2", "m3", "n2", "n3"}
MCSide == {"g", "a1", "z2"}
MCprev_block_hash ==
    "m1" :> "zero" @@ "m2" :> "m1" @@ "m3" :> "m2" @@ "n2" :> "m1" @@ "n3" :> "n2"
MCwork == [m \in MCMain |-> 1]
MCbmm_commitment ==
    "m1" :> "none" @@ "m2" :> "g" @@ "m3" :> "a1" @@ "n2" :> "g" @@ "n3" :> "z2"
MCprev_side_hash == "g" :> "none" @@ "a1" :> "g" @@ "z2" :> "a1"
MCprev_main_hash == "g" :> "m1" @@ "a1" :> "m2" @@ "z2" :> "n2"
MCbody_of == "g" :> {} @@ "a1" :> {"x"} @@ "z2" :> {}
=============================================================================
