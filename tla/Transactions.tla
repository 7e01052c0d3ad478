---------------------------- MODULE Transactions ----------------------------
(***************************************************************************)
(* Transactions as the mempool and the node tell them apart: which         *)
(* outpoints a transaction spends, which it creates and which addresses it *)
(* concerns.  Amounts, asset data, authorizations and memos are left out.  *)
(***************************************************************************)
EXTENDS Naturals, Sequences

CONSTANTS
    Txid,       \* transaction ids
    OutPoint,   \* outpoints, opaque
    Address,    \* addresses
    inputs,     \* [Txid -> Seq(OutPoint)]: Transaction::inputs
    outputs,    \* [Txid -> SUBSET OutPoint]: OutPoint::Regular{txid, vout} of
                \* Transaction::outputs
    relevant_addresses  \* [Txid -> SUBSET Address]: of the authorizations and
                        \* of the outputs

\* An outpoint names the transaction that creates it.
ASSUME TransactionsAssumption ==
    /\ inputs \in [Txid -> Seq(OutPoint)]
    /\ outputs \in [Txid -> SUBSET OutPoint]
    /\ relevant_addresses \in [Txid -> SUBSET Address]
    /\ \A t, u \in Txid : t # u => outputs[t] \cap outputs[u] = {}

\* The outpoints t spends.
Inputs(t) == {inputs[t][vin] : vin \in DOMAIN inputs[t]}

\* t lists an outpoint twice.  Validation does not look for this.
RepeatsInput(t) ==
    \E i, j \in DOMAIN inputs[t] : i # j /\ inputs[t][i] = inputs[t][j]

\* u spends an output of t.
Spends(u, t) == Inputs(u) \cap outputs[t] # {}

\* Members of pool that spend an output of t.
Children(pool, t) == {u \in pool : Spends(u, t)}

\* S contains every member of pool that spends an output of a member of S.
Closed(pool, S) == \A t \in S : Children(pool, t) \subseteq S

(***************************************************************************)
(* What a deletion of t ought to remove from pool: t and, transitively,    *)
(* what spends its outputs -- the least closed set that contains t -- and  *)
(* nothing if t is not pooled.                                             *)
(***************************************************************************)
DeleteClosure(pool, t) ==
    {u \in pool : /\ t \in pool
                  /\ \A S \in SUBSET pool : t \in S /\ Closed(pool, S) => u \in S}
=============================================================================
