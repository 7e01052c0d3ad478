------------------------------ MODULE MCMempool ------------------------------
(***************************************************************************)
(* Instance of Mempool: t1's outputs are spent by t2 and t3, an output of  *)
(* each of those by t4 (a diamond), t5 competes with t3 for the same       *)
(* output of t1, t6 competes with t1, and t7 lists an outpoint twice.      *)
(***************************************************************************)
EXTENDS Mempool, TLC

CONSTANTS t1, t2, t3, t4, t5, t6, t7,
          d1, d2, o11, o12, o21, o31, o41, o51,
          alice, bob, carol

MCTxid == {t1, t2, t3, t4, t5, t6, t7}
MCOutPoint == {d1, d2, o11, o12, o21, o31, o41, o51}
MCAddress == {alice, bob, carol}

MCInputs ==
    t1 :> <<d1>> @@ t2 :> <<o11>> @@ t3 :> <<d2, o12>> @@ t4 :> <<o21, o31>>
    @@ t5 :> <<o12>> @@ t6 :> <<d1>> @@ t7 :> <<d2, d2>>

MCOutputs ==
    t1 :> {o11, o12} @@ t2 :> {o21} @@ t3 :> {o31} @@ t4 :> {o41}
    @@ t5 :> {o51} @@ t6 :> {} @@ t7 :> {}

MCRelevant ==
    t1 :> {alice, bob} @@ t2 :> {bob} @@ t3 :> {bob, carol} @@ t4 :> {carol}
    @@ t5 :> {bob} @@ t6 :> {alice} @@ t7 :> {alice, carol}
=============================================================================
