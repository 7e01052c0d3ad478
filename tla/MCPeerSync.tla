------------------------------ MODULE MCPeerSync ------------------------------
(***************************************************************************)
(* Mainchain m1 - ... - m5, with commitments to g in m2 and to the chain   *)
(* a1 - a2 - a3 after it in m3, m4 and m5.                                 *)
(***************************************************************************)
EXTENDS PeerSync

MCMain == {"m1", "m2", "m3", "m4", "m5"}
MCSide == {"g", "a1", "a2", "a3"}
MCprev_block_hash ==
    "m1" :> "zero" @@ "m2" :> "m1" @@ "m3" :> "m2" @@ "m4" :> "m3" @@ "m5" :> "m4"
MCwork == [m \in MCMain |-> 1]
MCbmm_commitment ==
    "m1" :> "none" @@ "m2" :> "g" @@ "m3" :> "a1" @@ "m4" :> "a2" @@ "m5" :> "a3"
MCprev_side_hash == "g" :> "none" @@ "a1" :> "g" @@ "a2" :> "a1" @@ "a3" :> "a2"
MCprev_main_hash == "g" :> "m1" @@ "a1" :> "m2" @@ "a2" :> "m3" @@ "a3" :> "m4"

\* A peer that goes from a2 to a3: a node at g asks for the bodies of a1 and a2
\* for the sake of either.
MCcourse == "p" :> <<TipAt("a2", "m4"), TipAt("a3", "m5")>>
=============================================================================
