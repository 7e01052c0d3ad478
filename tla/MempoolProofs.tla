---------------------------- MODULE MempoolProofs ----------------------------
(***************************************************************************)
(* The indices of the mempool agree with its contents, and delete()        *)
(* removes exactly the descendants of its argument, for every set of       *)
(* transactions.                                                           *)
(*                                                                         *)
(* SpentUtxosExact and AddressIndexExact are inductive with TypeOK.  The   *)
(* statement about delete() needs to know what holds in the middle of the  *)
(* loop: DeleteProgress.                                                   *)
(***************************************************************************)
EXTENDS Mempool, TLAPS

\* What the current delete() has removed so far.
Gone == pool_before \ transactions

\* The loop of delete() has removed only descendants of its argument, the
\* queue leads only to descendants, and a pooled spender of a removed
\* transaction is still in the queue.
DeleteProgress ==
    ~Idle =>
        /\ transactions \subseteq pool_before
        /\ Gone \subseteq DeleteClosure(pool_before, root)
        /\ pending_deletes \cap pool_before \subseteq DeleteClosure(pool_before, root)
        /\ \A t \in Gone : Children(transactions, t) \subseteq pending_deletes
        /\ root \in pool_before => root \in Gone \cup pending_deletes

IInv == TypeOK /\ SpentUtxosExact /\ AddressIndexExact /\ DeleteProgress

-----------------------------------------------------------------------------
\* An index that is exact leaves no room for a double spend in the pool.
LEMMA SpentExactNoDoubleSpend ==
    SpentUtxosExact => NoDoubleSpend
  BY DEF SpentUtxosExact, NoDoubleSpend

\* Inputs of a transaction are outpoints.
LEMMA InputsType ==
    ASSUME NEW t \in Txid
    PROVE  Inputs(t) \subseteq OutPoint
  BY TransactionsAssumption DEF Inputs

\* The argument of delete() is in its own closure, and so is whatever spends
\* an output of a member of the closure.
LEMMA ClosureFacts ==
    ASSUME NEW pool, NEW t \in pool
    PROVE  /\ t \in DeleteClosure(pool, t)
           /\ Closed(pool, DeleteClosure(pool, t))
           /\ \A S \in SUBSET pool :
                 t \in S /\ Closed(pool, S) => DeleteClosure(pool, t) \subseteq S
<1>1. t \in DeleteClosure(pool, t)
  BY DEF DeleteClosure
<1>2. Closed(pool, DeleteClosure(pool, t))
  <2> SUFFICES ASSUME NEW u \in DeleteClosure(pool, t), NEW c \in Children(pool, u)
               PROVE  c \in DeleteClosure(pool, t)
    BY DEF Closed
  <2>1. c \in pool
    BY DEF Children
  <2>2. ASSUME NEW S \in SUBSET pool, t \in S, Closed(pool, S)
        PROVE  c \in S
    <3>1. u \in S
      BY <2>2 DEF DeleteClosure
    <3> QED
      BY <2>2, <3>1 DEF Closed
  <2> QED
    BY <2>1, <2>2 DEF DeleteClosure
<1>3. \A S \in SUBSET pool :
         t \in S /\ Closed(pool, S) => DeleteClosure(pool, t) \subseteq S
  BY DEF DeleteClosure
<1> QED
  BY <1>1, <1>2, <1>3

\* The spenders that delete() finds through the index are the pooled
\* children of the transaction it removes.
LEMMA ChildTxids ==
    ASSUME SpentUtxosExact, NEW t \in transactions
    PROVE  child_txids(t) = Children(transactions \ {t}, t)
<1>1. ASSUME NEW u \in child_txids(t)
      PROVE  u \in Children(transactions \ {t}, t)
  <2>1. PICK o \in (DOMAIN spent_utxos \ Inputs(t)) \cap outputs[t] :
             u = spent_utxos[o]
    BY <1>1 DEF child_txids
  <2>2. PICK w \in transactions : o \in Inputs(w)
    BY <2>1 DEF SpentUtxosExact
  <2>3. u = w /\ w # t
    BY <2>1, <2>2 DEF SpentUtxosExact
  <2> QED
    BY <2>1, <2>2, <2>3 DEF Children, Spends
<1>2. ASSUME NEW u \in Children(transactions \ {t}, t)
      PROVE  u \in child_txids(t)
  <2>1. u \in transactions /\ u # t /\ Inputs(u) \cap outputs[t] # {}
    BY <1>2 DEF Children, Spends
  <2>2. PICK o : o \in Inputs(u) /\ o \in outputs[t]
    BY <2>1
  <2>3. o \in DOMAIN spent_utxos /\ o \notin Inputs(t) /\ spent_utxos[o] = u
    BY <2>1, <2>2 DEF SpentUtxosExact
  <2> QED
    BY <2>2, <2>3 DEF child_txids
<1> QED
  BY <1>1, <1>2

-----------------------------------------------------------------------------
\* The empty pool satisfies the invariant.
LEMMA InitIInv == Init => IInv
<1> SUFFICES ASSUME Init PROVE IInv
  OBVIOUS
<1> USE DEF Init
<1>1. TypeOK
  BY DEF TypeOK
<1>2. SpentUtxosExact
  BY DEF SpentUtxosExact
<1>3. AddressIndexExact
  BY DEF AddressIndexExact, get_txids_relevant_to_address, associated
<1>4. DeleteProgress
  BY DEF DeleteProgress, Idle
<1> QED
  BY <1>1, <1>2, <1>3, <1>4 DEF IInv

\* put() preserves the invariant: it adds a transaction none of whose inputs is
\* in the index.
LEMMA PutIInv ==
    ASSUME IInv, NEW t \in Txid, Put(t)
    PROVE  IInv'
<1> USE DEF IInv
<1>0. relevant_addresses[t] \subseteq Address /\ Inputs(t) \subseteq OutPoint
  BY TransactionsAssumption, InputsType
<1>1. TypeOK'
  <2>1. transactions' \subseteq Txid /\ pending_deletes' \subseteq Txid
        /\ root' \in Txid /\ pool_before' \subseteq Txid
    BY DEF TypeOK, Put
  <2>2. DOMAIN spent_utxos' \subseteq OutPoint
        /\ \A o \in DOMAIN spent_utxos' : spent_utxos'[o] \in Txid
    BY <1>0 DEF TypeOK, Put, put_stxos
  <2>3. DOMAIN address_to_txs' \subseteq Address
        /\ \A a \in DOMAIN address_to_txs' : address_to_txs'[a] \subseteq Txid
    BY <1>0 DEF TypeOK, Put, assoc_tx_with_relevant_addresses, associated
  <2> QED
    BY <2>1, <2>2, <2>3 DEF TypeOK
<1>2. SpentUtxosExact'
  <2>1. spent_utxos' = [o \in DOMAIN spent_utxos \cup Inputs(t) |->
                           IF o \in Inputs(t) THEN t ELSE spent_utxos[o]]
        /\ transactions' = transactions \cup {t}
        /\ Inputs(t) \cap DOMAIN spent_utxos = {}
    BY DEF Put, put_stxos, UtxoDoubleSpent
  <2>2. DOMAIN spent_utxos' = UNION {Inputs(u) : u \in transactions'}
    BY <2>1 DEF SpentUtxosExact
  <2>3. ASSUME NEW u \in transactions', NEW o \in Inputs(u)
        PROVE  spent_utxos'[o] = u
    <3>1. CASE u = t
      BY <2>1, <3>1
    <3>2. CASE u # t
      <4>1. u \in transactions /\ o \in DOMAIN spent_utxos /\ spent_utxos[o] = u
        BY <2>1, <3>2 DEF SpentUtxosExact
      <4> QED
        BY <2>1, <4>1
    <3> QED
      BY <3>1, <3>2
  <2> QED
    BY <2>2, <2>3 DEF SpentUtxosExact
<1>3. AddressIndexExact'
  <2>1. address_to_txs' =
            [a \in DOMAIN address_to_txs \cup relevant_addresses[t] |->
               associated(a) \cup (IF a \in relevant_addresses[t] THEN {t} ELSE {})]
        /\ transactions' = transactions \cup {t}
    BY DEF Put, assoc_tx_with_relevant_addresses
  <2>2. DOMAIN address_to_txs'
            = UNION {relevant_addresses[u] : u \in transactions'}
    BY <2>1 DEF AddressIndexExact
  <2>3. ASSUME NEW a \in Address
        PROVE  associated(a)' = {u \in transactions' : a \in relevant_addresses[u]}
    <3>1. associated(a) = {u \in transactions : a \in relevant_addresses[u]}
      BY DEF AddressIndexExact, get_txids_relevant_to_address
    <3>2. associated(a)' = IF a \in DOMAIN address_to_txs'
                           THEN address_to_txs'[a] ELSE {}
      BY DEF associated
    <3>3. CASE a \in DOMAIN address_to_txs'
      BY <2>1, <3>1, <3>2, <3>3
    <3>4. CASE a \notin DOMAIN address_to_txs'
      BY <2>1, <2>2, <3>2, <3>4
    <3> QED
      BY <3>3, <3>4
  <2> QED
    BY <2>2, <2>3 DEF AddressIndexExact, get_txids_relevant_to_address
<1>4. DeleteProgress'
  BY DEF Put, DeleteProgress, Idle
<1> QED
  BY <1>1, <1>2, <1>3, <1>4

\* delete() starts: its queue holds the argument, nothing is removed yet.
LEMMA DeleteIInv ==
    ASSUME IInv, NEW t \in Txid, Delete(t)
    PROVE  IInv'
<1> USE DEF IInv, Delete
<1>1. TypeOK'
  BY DEF TypeOK
<1>2. SpentUtxosExact'
  BY DEF SpentUtxosExact
<1>3. AddressIndexExact'
  BY DEF AddressIndexExact, get_txids_relevant_to_address, associated
<1>4. DeleteProgress'
  <2>1. Gone' = {}
    BY DEF Gone
  <2>2. CASE t \in transactions
    <3>1. t \in DeleteClosure(transactions, t)
      BY <2>2, ClosureFacts
    <3> QED
      BY <2>1, <3>1 DEF DeleteProgress, Idle
  <2>3. CASE t \notin transactions
    BY <2>1, <2>3 DEF DeleteProgress, Idle
  <2> QED
    BY <2>2, <2>3
<1> QED
  BY <1>1, <1>2, <1>3, <1>4

\* One iteration of the loop preserves the invariant.
LEMMA DeleteStepIInv ==
    ASSUME IInv, NEW t \in Txid, DeleteStep(t)
    PROVE  IInv'
<1> USE DEF IInv
<1>0. /\ t \in pending_deletes /\ ~Idle
      /\ root' = root /\ pool_before' = pool_before
  BY DEF DeleteStep, Idle
<1>1. CASE t \notin transactions
  <2>1. /\ pending_deletes' = pending_deletes \ {t}
        /\ UNCHANGED <<transactions, spent_utxos, address_to_txs>>
    BY <1>1 DEF DeleteStep
  <2>2. TypeOK'
    BY <1>0, <2>1 DEF TypeOK
  <2>3. SpentUtxosExact' /\ AddressIndexExact'
    BY <2>1 DEF SpentUtxosExact, AddressIndexExact,
                get_txids_relevant_to_address, associated
  <2>4. DeleteProgress'
    <3>1. \A g \in Gone : Children(transactions, g) \subseteq pending_deletes'
      BY <1>0, <1>1, <2>1 DEF DeleteProgress, Children
    <3>2. root \in pool_before => root \in Gone \cup pending_deletes'
      BY <1>0, <1>1, <2>1 DEF DeleteProgress, Gone
    <3> QED
      BY <1>0, <2>1, <3>1, <3>2 DEF DeleteProgress, Gone, Idle
  <2> QED
    BY <2>2, <2>3, <2>4
<1>2. CASE t \in transactions
  <2>1. /\ spent_utxos' = [o \in DOMAIN spent_utxos \ Inputs(t) |-> spent_utxos[o]]
        /\ address_to_txs' = unassoc_tx_with_relevant_addresses(t)
        /\ transactions' = transactions \ {t}
        /\ pending_deletes' = (pending_deletes \ {t}) \cup Children(transactions \ {t}, t)
    BY <1>2, ChildTxids DEF DeleteStep, delete_stxos
  <2>2. SpentUtxosExact'
    <3>1. ASSUME NEW u \in transactions'
          PROVE  Inputs(u) \cap Inputs(t) = {}
      BY <1>2, <2>1, SpentExactNoDoubleSpend DEF NoDoubleSpend
    <3>2. DOMAIN spent_utxos' = UNION {Inputs(u) : u \in transactions'}
      BY <2>1, <3>1 DEF SpentUtxosExact
    <3>3. \A u \in transactions' : \A o \in Inputs(u) : spent_utxos'[o] = u
      BY <2>1, <3>1 DEF SpentUtxosExact
    <3> QED
      BY <3>2, <3>3 DEF SpentUtxosExact
  <2>3. AddressIndexExact'
    <3> DEFINE without(a) == IF a \in relevant_addresses[t]
                             THEN address_to_txs[a] \ {t} ELSE address_to_txs[a]
               emptied == {a \in DOMAIN address_to_txs \cap relevant_addresses[t] :
                              without(a) = {}}
    <3>1. address_to_txs' = [a \in DOMAIN address_to_txs \ emptied |-> without(a)]
      BY <2>1 DEF unassoc_tx_with_relevant_addresses
    <3>2. \A u \in transactions : relevant_addresses[u] \subseteq Address
      BY TransactionsAssumption DEF TypeOK
    <3>3. ASSUME NEW a \in DOMAIN address_to_txs
          PROVE  /\ a \in Address
                 /\ address_to_txs[a] =
                       {u \in transactions : a \in relevant_addresses[u]}
                 /\ without(a) = {u \in transactions' : a \in relevant_addresses[u]}
      <4>1. a \in Address
        BY DEF TypeOK
      <4>2. address_to_txs[a] = {u \in transactions : a \in relevant_addresses[u]}
        BY <4>1 DEF AddressIndexExact, get_txids_relevant_to_address, associated
      <4>3. without(a) = {u \in transactions' : a \in relevant_addresses[u]}
        <5>1. CASE a \in relevant_addresses[t]
          BY <2>1, <4>2, <5>1
        <5>2. CASE a \notin relevant_addresses[t]
          BY <2>1, <4>2, <5>2
        <5> QED
          BY <5>1, <5>2
      <4> QED
        BY <4>1, <4>2, <4>3
    <3>4. DOMAIN address_to_txs' = UNION {relevant_addresses[u] : u \in transactions'}
      <4> HIDE DEF without
      <4>1. DOMAIN address_to_txs = UNION {relevant_addresses[u] : u \in transactions}
        BY DEF AddressIndexExact
      <4>2. DOMAIN address_to_txs' = DOMAIN address_to_txs \ emptied
        BY <3>1
      <4>3. ASSUME NEW a \in DOMAIN address_to_txs \ emptied
            PROVE  \E u \in transactions' : a \in relevant_addresses[u]
        <5>1. CASE a \in relevant_addresses[t]
          <6>1. without(a) # {}
            BY <4>3, <5>1
          <6> QED
            BY <3>3, <4>3, <6>1
        <5>2. CASE a \notin relevant_addresses[t]
          BY <2>1, <4>1, <4>3, <5>2
        <5> QED
          BY <5>1, <5>2
      <4>4. ASSUME NEW u \in transactions', NEW a \in relevant_addresses[u]
            PROVE  a \in DOMAIN address_to_txs \ emptied
        <5>1. a \in DOMAIN address_to_txs
          BY <2>1, <4>1, <4>4
        <5>2. u \in without(a)
          BY <3>3, <4>4, <5>1
        <5> QED
          BY <5>1, <5>2
      <4> QED
        BY <4>2, <4>3, <4>4
    <3>5. ASSUME NEW a \in Address
          PROVE  associated(a)' = {u \in transactions' : a \in relevant_addresses[u]}
      <4> HIDE DEF without, emptied
      <4>1. associated(a)' = IF a \in DOMAIN address_to_txs'
                             THEN address_to_txs'[a] ELSE {}
        BY DEF associated
      <4>2. CASE a \in DOMAIN address_to_txs'
        BY <3>1, <3>3, <4>1, <4>2
      <4>3. CASE a \notin DOMAIN address_to_txs'
        BY <3>4, <4>1, <4>3
      <4> QED
        BY <4>2, <4>3
    <3> QED
      BY <3>4, <3>5 DEF AddressIndexExact, get_txids_relevant_to_address
  <2>4. TypeOK'
    <3>1. DOMAIN spent_utxos' \subseteq OutPoint
          /\ \A o \in DOMAIN spent_utxos' : spent_utxos'[o] \in Txid
      BY <2>1 DEF TypeOK
    <3>2. DOMAIN address_to_txs' \subseteq Address
          /\ \A a \in DOMAIN address_to_txs' : address_to_txs'[a] \subseteq Txid
      BY <2>1 DEF TypeOK, unassoc_tx_with_relevant_addresses
    <3> QED
      BY <1>0, <2>1, <3>1, <3>2 DEF TypeOK, Children
  <2>5. DeleteProgress'
    <3>1. /\ transactions \subseteq pool_before
          /\ t \in pool_before
          /\ t \in DeleteClosure(pool_before, root)
      BY <1>0, <1>2 DEF DeleteProgress
    <3>2. Gone' = Gone \cup {t}
      BY <1>0, <2>1, <3>1 DEF Gone
    <3>3. root \in pool_before
      BY <3>1 DEF DeleteClosure
    <3>4. Children(pool_before, t) \subseteq DeleteClosure(pool_before, root)
      BY <3>1, <3>3, ClosureFacts DEF Closed
    <3>5. pending_deletes' \cap pool_before \subseteq DeleteClosure(pool_before, root)
      BY <1>0, <2>1, <3>1, <3>4 DEF DeleteProgress, Children
    <3>6. ASSUME NEW g \in Gone'
          PROVE  Children(transactions', g) \subseteq pending_deletes'
      BY <1>0, <2>1, <3>2 DEF DeleteProgress, Children
    <3>7. root \in Gone' \cup pending_deletes'
      BY <1>0, <2>1, <3>2, <3>3 DEF DeleteProgress
    <3> QED
      BY <1>0, <2>1, <3>1, <3>2, <3>5, <3>6, <3>7 DEF DeleteProgress
  <2> QED
    BY <2>2, <2>3, <2>4, <2>5
<1> QED
  BY <1>1, <1>2

\* The invariant is inductive.
LEMMA NextIInv == IInv /\ [Next]_vars => IInv'
<1> SUFFICES ASSUME IInv, [Next]_vars PROVE IInv'
  OBVIOUS
<1>1. CASE Next
  BY <1>1, PutIInv, DeleteIInv, DeleteStepIInv DEF Next
<1>2. CASE UNCHANGED vars
  BY <1>2 DEF vars, IInv, TypeOK, SpentUtxosExact, AddressIndexExact,
              get_txids_relevant_to_address, associated,
              DeleteProgress, Gone, Idle
<1> QED
  BY <1>1, <1>2

\* Every reachable state of the mempool satisfies the inductive invariant.
THEOREM Invariance == Spec => []IInv
  BY InitIInv, NextIInv, PTL DEF Spec

\* The databases of the mempool hold values of their types (mempool.rs:45).
THEOREM TypeCorrect == Spec => []TypeOK
<1>1. IInv => TypeOK
  BY DEF IInv
<1> QED
  BY <1>1, Invariance, PTL

\* spent_utxos is exactly the set of inputs of the pool, and so the pool never
\* holds two transactions that spend the same outpoint (put_stxos and
\* delete_stxos).
THEOREM SpentIndexCorrect == Spec => [](SpentUtxosExact /\ NoDoubleSpend)
<1>1. IInv => SpentUtxosExact /\ NoDoubleSpend
  BY SpentExactNoDoubleSpend DEF IInv
<1> QED
  BY <1>1, Invariance, PTL

\* The address index lists exactly the pooled transactions of each address
\* (assoc_txid_with_address and unassoc_txid_with_address).
THEOREM AddressIndexCorrect == Spec => []AddressIndexExact
<1>1. IInv => AddressIndexExact
  BY DEF IInv
<1> QED
  BY <1>1, Invariance, PTL

\* delete() removes its argument, what descends from it in the pool, and
\* nothing else.
THEOREM DeleteCorrect == Spec => DeleteRemovesClosure
<1>1. ASSUME IInv, IInv', [Next]_vars, Idle', ~Idle
      PROVE  transactions' = pool_before \ DeleteClosure(pool_before, root)
  <2>1. PICK t \in Txid : DeleteStep(t)
    BY <1>1 DEF Next, Put, Delete, vars, Idle
  <2>2. /\ t \in pending_deletes /\ pending_deletes' = {}
        /\ root' = root /\ pool_before' = pool_before
    BY <1>1, <2>1 DEF DeleteStep, Idle
  <2>3. /\ transactions \subseteq pool_before
        /\ Gone \subseteq DeleteClosure(pool_before, root)
        /\ \A g \in Gone : Children(transactions, g) \subseteq pending_deletes
    BY <1>1 DEF IInv, DeleteProgress
  <2>4. pending_deletes = {t} /\ transactions' = transactions \ {t}
    BY <2>1, <2>2 DEF DeleteStep
  <2>5. Gone' = Gone \cup ({t} \cap transactions)
    BY <2>2, <2>3, <2>4 DEF Gone
  <2>6. Gone' \subseteq DeleteClosure(pool_before, root)
    BY <1>1, <2>3, <2>4, <2>5 DEF IInv, DeleteProgress
  <2>7. t \in transactions => Children(transactions \ {t}, t) = {}
    <3> SUFFICES ASSUME t \in transactions
                 PROVE  Children(transactions \ {t}, t) = {}
      OBVIOUS
    <3>1. child_txids(t) = {}
      BY <2>1, <2>2 DEF DeleteStep
    <3> QED
      BY <1>1, <3>1, ChildTxids DEF IInv
  <2>8. Closed(pool_before, Gone')
    <3> SUFFICES ASSUME NEW g \in Gone', NEW c \in Children(pool_before, g)
                 PROVE  c \in Gone'
      BY DEF Closed
    <3>1. c \notin transactions'
      BY <2>3, <2>4, <2>5, <2>7 DEF Children
    <3> QED
      BY <2>2, <3>1 DEF Children, Gone
  <2>9. CASE root \in pool_before
    <3>1. root \in Gone'
      BY <1>1, <2>2, <2>4, <2>5, <2>9 DEF IInv, DeleteProgress, Gone
    <3>2. Gone' \subseteq pool_before
      BY <2>2 DEF Gone
    <3>3. DeleteClosure(pool_before, root) \subseteq Gone'
      BY <2>8, <2>9, <3>1, <3>2, ClosureFacts
    <3>4. Gone' = DeleteClosure(pool_before, root)
      BY <2>6, <3>3
    <3> QED
      BY <2>2, <2>3, <2>4, <3>4 DEF Gone
  <2>10. CASE root \notin pool_before
    <3>1. DeleteClosure(pool_before, root) = {}
      BY <2>10 DEF DeleteClosure
    <3> QED
      BY <2>2, <2>3, <2>4, <2>6, <3>1 DEF Gone
  <2> QED
    BY <2>9, <2>10
<1>2. IInv /\ IInv' /\ [Next]_vars
        => [Idle' /\ ~Idle
             => transactions' = pool_before \ DeleteClosure(pool_before, root)]_vars
  BY <1>1
<1> QED
  BY <1>2, Invariance, PTL DEF Spec, DeleteRemovesClosure
=============================================================================
