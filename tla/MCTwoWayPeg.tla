---------------------------- MODULE MCTwoWayPeg ----------------------------
(***************************************************************************)
(* Instance of TwoWayPeg: the bundle that may be submitted on the          *)
(* mainchain without being known here.                                     *)
(***************************************************************************)
EXTENDS TwoWayPeg

CONSTANTS d1, d2

\* The m6id of what this chain collects at height 1 if d1 alone is withdrawn by
\* then, known to others from a branch that was reorged away.  With other bodies
\* no node of this chain collects it, and it is a foreign one throughout.
MCMainBundle == {[height |-> 1, spend_utxos |-> {withdrawal(d1)}]}
=============================================================================
