------------------------------- MODULE Mempool -------------------------------
(***************************************************************************)
(* lib/mempool.rs: the transactions waiting for a block, the index of the  *)
(* outpoints they spend and the index from addresses to them.              *)
(*                                                                         *)
(* Every operation runs in one LMDB write transaction, of which there is   *)
(* one at a time; on an error every caller drops it, so a failed put       *)
(* changes nothing even when it had already stored some of the inputs.     *)
(* delete() is a loop over a queue.  It is modelled one iteration per step *)
(* (DeleteStep), with the other operations excluded until the queue is     *)
(* empty; the queue is a set, since neither the order of the iterations    *)
(* nor a repeated entry changes what is left in the end.                   *)
(***************************************************************************)
EXTENDS Transactions

VARIABLES
    transactions,     \* keys of the `transactions` database
    spent_utxos,      \* [outpoint -> txid of the InPoint that spends it]
    address_to_txs,   \* [address -> set of txids]
    pending_deletes,  \* the queue of the delete() in progress
    \* what the delete() in progress started from (history, for the properties)
    root,             \* its argument
    pool_before       \* the pool it found

vars == <<transactions, spent_utxos, address_to_txs, pending_deletes,
          root, pool_before>>

\* The write transaction is free.
Idle == pending_deletes = {}

TypeOK ==
    /\ transactions \subseteq Txid
    /\ DOMAIN spent_utxos \subseteq OutPoint
    /\ \A o \in DOMAIN spent_utxos : spent_utxos[o] \in Txid
    /\ DOMAIN address_to_txs \subseteq Address
    /\ \A a \in DOMAIN address_to_txs : address_to_txs[a] \subseteq Txid
    /\ pending_deletes \subseteq Txid
    /\ root \in Txid
    /\ pool_before \subseteq Txid

Init ==
    /\ transactions = {}
    /\ spent_utxos = [o \in {} |-> {}]
    /\ address_to_txs = [a \in {} |-> {}]
    /\ pending_deletes = {}
    /\ root \in Txid
    /\ pool_before = {}

-----------------------------------------------------------------------------
\* put_stxos, delete_stxos: what the loops store once no input is refused.
put_stxos(t) ==
    [o \in DOMAIN spent_utxos \cup Inputs(t) |->
        IF o \in Inputs(t) THEN t ELSE spent_utxos[o]]

\* Mutant: the last input stays marked as spent.
delete_stxos_keeps_last(t) ==
    [o \in DOMAIN spent_utxos \ {inputs[t][i] : i \in 1..(Len(inputs[t]) - 1)} |->
        spent_utxos[o]]

delete_stxos(t) ==
    [o \in DOMAIN spent_utxos \ Inputs(t) |-> spent_utxos[o]]

\* put_stxos finds an input already spent, by another transaction or by an
\* earlier input of the same one.
UtxoDoubleSpent(t) ==
    \/ Inputs(t) \cap DOMAIN spent_utxos # {}
    \/ RepeatsInput(t)

associated(a) ==
    IF a \in DOMAIN address_to_txs THEN address_to_txs[a] ELSE {}

assoc_tx_with_relevant_addresses(t) ==
    [a \in DOMAIN address_to_txs \cup relevant_addresses[t] |->
        associated(a) \cup (IF a \in relevant_addresses[t] THEN {t} ELSE {})]

\* Mutant: a transaction is unassociated from one relevant address only.
unassoc_one_address(t) ==
    LET a1 == CHOOSE a \in relevant_addresses[t] : TRUE
    IN  [a \in DOMAIN address_to_txs \ {a \in {a1} : address_to_txs[a] = {t}} |->
            IF a = a1 THEN address_to_txs[a] \ {t} ELSE address_to_txs[a]]

\* An address whose set becomes empty is deleted.
unassoc_tx_with_relevant_addresses(t) ==
    LET without(a) == IF a \in relevant_addresses[t]
                      THEN address_to_txs[a] \ {t} ELSE address_to_txs[a]
        emptied == {a \in DOMAIN address_to_txs \cap relevant_addresses[t] :
                        without(a) = {}}
    IN  [a \in DOMAIN address_to_txs \ emptied |-> without(a)]

\* put(), when it succeeds.  A put that fails drops the write transaction.
Put(t) ==
    /\ Idle
    /\ ~UtxoDoubleSpent(t)
    /\ spent_utxos' = put_stxos(t)
    /\ transactions' = transactions \cup {t}
    /\ address_to_txs' = assoc_tx_with_relevant_addresses(t)
    /\ UNCHANGED <<pending_deletes, root, pool_before>>

\* delete(), up to the loop.
Delete(t) ==
    /\ Idle
    /\ pending_deletes' = {t}
    /\ root' = t
    /\ pool_before' = transactions
    /\ UNCHANGED <<transactions, spent_utxos, address_to_txs>>

\* Mutant: children are looked up for the argument of delete() only.
child_txids_of_root(t) ==
    IF t = root THEN {spent_utxos[o] : o \in DOMAIN spent_utxos \cap outputs[t]} ELSE {}

\* The transactions the index names as spenders of t's outputs, read once
\* t's own inputs have been deleted from it.
child_txids(t) ==
    {spent_utxos[o] : o \in (DOMAIN spent_utxos \ Inputs(t)) \cap outputs[t]}

\* One iteration of the loop in delete().
DeleteStep(t) ==
    /\ t \in pending_deletes
    /\ \/ /\ t \in transactions
          /\ spent_utxos' = delete_stxos(t)
          /\ address_to_txs' = unassoc_tx_with_relevant_addresses(t)
          /\ transactions' = transactions \ {t}
          /\ pending_deletes' = (pending_deletes \ {t}) \cup child_txids(t)
       \/ /\ t \notin transactions
          /\ pending_deletes' = pending_deletes \ {t}
          /\ UNCHANGED <<transactions, spent_utxos, address_to_txs>>
    /\ UNCHANGED <<root, pool_before>>

Next ==
    \E t \in Txid : Put(t) \/ Delete(t) \/ DeleteStep(t)

Spec == Init /\ [][Next]_vars

-----------------------------------------------------------------------------
\* get_txs_relevant_to_address(a): an entry of the index that is not pooled
\* makes it fail with MissingTransaction.
get_txids_relevant_to_address(a) == associated(a)

\* spent_utxos holds exactly the inputs of the pooled transactions, each under
\* the transaction that spends it.
SpentUtxosExact ==
    /\ DOMAIN spent_utxos = UNION {Inputs(t) : t \in transactions}
    /\ \A t \in transactions : \A o \in Inputs(t) : spent_utxos[o] = t

\* No two pooled transactions spend the same outpoint, at any point of the
\* loop of delete(): what put() checks through the index holds of the pool.
NoDoubleSpend ==
    \A t, u \in transactions : t # u => Inputs(t) \cap Inputs(u) = {}

\* The address index lists exactly the pooled transactions of each address and
\* keeps no empty entry, so get_txs_relevant_to_address never fails with
\* MissingTransaction.
AddressIndexExact ==
    /\ DOMAIN address_to_txs = UNION {relevant_addresses[t] : t \in transactions}
    /\ \A a \in Address :
          get_txids_relevant_to_address(a) =
              {t \in transactions : a \in relevant_addresses[t]}

\* When delete() returns it has removed its argument and, transitively, every
\* pooled transaction that spends an output of a removed one -- and nothing
\* else (mempool.rs:222, the queue of pending_deletes).
DeleteRemovesClosure ==
    [][Idle' /\ ~Idle
        => transactions' = pool_before \ DeleteClosure(pool_before, root)]_vars
=============================================================================
