-------------------------------- MODULE TxPool --------------------------------
(***************************************************************************)
(* How the transactions of a network of nodes move between their pools and *)
(* the chain: broadcast_transaction, get_transactions and invalidate_block *)
(* of the node, handle_push_tx of a connection task, and the net task that *)
(* stores, relays and retries transactions and moves them out of and back  *)
(* into the pool with the blocks (connect_tip_, disconnect_tip_).          *)
(*                                                                         *)
(* A transaction is valid at a block when its inputs are unspent there;    *)
(* the other reasons do not depend on the block here.  A higher block is   *)
(* the better tip: reorg_to_tip commits as soon as it gets to a better     *)
(* one.  A pool and its index of spent outpoints are Mempool's.            *)
(***************************************************************************)
EXTENDS Transactions, FiniteSets, SequencesExt

CONSTANTS
    Node,
    Genesis,      \* the outpoints that deposits have made
    Block, NoBlock,
    parent,       \* [Block -> Block or NoBlock]
    body,         \* [Block -> Seq(Txid)]
    MaxFaults     \* bound on lost connections, and on orders of the operator

VARIABLES
    pool,         \* [Node -> set of txids]
    tip,          \* [Node -> Block or NoBlock]
    pushed,       \* [Node -> set of <<txid, peer>>]: PushTransaction requests on their way to it
    infos,        \* [Node -> set of <<txid, peer>>]: NewTransaction, validated and not yet stored
    connected,    \* [Node -> peers whose Connected the net task has not taken]
    net_task,     \* [Node -> "running" or "failed"]
    faults

vars == <<pool, tip, pushed, infos, connected, net_task, faults>>

-----------------------------------------------------------------------------
Txs(b) == Range(body[b])

Ancestors[b \in Block \cup {NoBlock}] ==
    IF b = NoBlock THEN {} ELSE {b} \cup Ancestors[parent[b]]
Height(b) == Cardinality(Ancestors[b])

utxos[b \in Block \cup {NoBlock}] ==
    IF b = NoBlock THEN Genesis
    ELSE (utxos[parent[b]] \ UNION {Inputs(t) : t \in Txs(b)}) \cup UNION {outputs[t] : t \in Txs(b)}

\* The blocks are valid: transactions spend what the parent has, once.
ASSUME TxPoolAssumption ==
    /\ parent \in [Block -> Block \cup {NoBlock}] /\ body \in [Block -> Seq(Txid)]
    /\ \A b \in Block : \A t, u \in Txs(b) :
        Inputs(t) \subseteq utxos[parent[b]] /\ (t # u => Inputs(t) \cap Inputs(u) = {})
    /\ MaxFaults \in Nat

\* validate_transaction, NoUtxo.
Valid(n, t) == Inputs(t) \subseteq utxos[tip[n]]

\* MemPool::put is refused, and MemPool::delete.
UtxoDoubleSpent(P, t) == \E u \in P : Inputs(u) \cap Inputs(t) # {}
delete(P, t) == P \ DeleteClosure(P, t)

\* push_tx: to every peer that is not excluded.  An error of a closed queue is
\* one of the connections that ConnectionLost breaks; the relay goes on to the
\* other peers, and broadcast_transaction, which has committed, does not.
push_tx(n, T, exclude) ==
    pushed' = [m \in Node |-> IF m \in exclude \cup {n} THEN pushed[m]
                              ELSE pushed[m] \cup (T \X {n})]

Running(n) == net_task[n] = "running"

-----------------------------------------------------------------------------
\* broadcast_transaction: a transaction that is pooled is only sent again.
BroadcastTransaction(n, t) ==
    /\ faults < MaxFaults /\ faults' = faults + 1
    /\ Valid(n, t)
    /\ t \notin pool[n] => ~UtxoDoubleSpent(pool[n], t)
    /\ pool' = [pool EXCEPT ![n] = @ \cup {t}]
    /\ push_tx(n, {t}, {})
    /\ UNCHANGED <<tip, infos, connected, net_task>>

\* handle_push_tx: validated by the connection task, in a read transaction.
HandlePushTx(n, t, m) ==
    /\ <<t, m>> \in pushed[n]
    /\ pushed' = [pushed EXCEPT ![n] = @ \ {<<t, m>>}]
    /\ infos' = IF Valid(n, t) THEN [infos EXCEPT ![n] = @ \cup {<<t, m>>}] ELSE infos
    /\ UNCHANGED <<pool, tip, connected, net_task, faults>>

\* NewTransaction: stored, and relayed to the other peers, unless it is pooled
\* or spends what a pooled one does.
HandleNewTransaction(n, t, m) ==
    /\ Running(n) /\ <<t, m>> \in infos[n]
    /\ infos' = [infos EXCEPT ![n] = @ \ {<<t, m>>}]
    /\ IF t \in pool[n] \/ UtxoDoubleSpent(pool[n], t)
       THEN UNCHANGED <<pool, pushed>>
       ELSE /\ pool' = [pool EXCEPT ![n] = @ \cup {t}]
            /\ push_tx(n, {t}, {m})
    /\ UNCHANGED <<tip, connected, net_task, faults>>

\* Mutant: an invalid transaction is passed over.
Cleaned_keeps(n) == pool[n]

\* The pool once every transaction that is invalid now has been deleted.
Cleaned(n) == pool[n] \ UNION {DeleteClosure(pool[n], t) : t \in {u \in pool[n] : ~Valid(n, u)}}

\* Mutant: the peers that are connected are excluded.
Relayed_to_none(n, peers) == push_tx(n, Cleaned(n), Node)

Relayed(n, peers) == push_tx(n, Cleaned(n), Node \ peers)

\* relay_pending_transactions, for a peer that has connected or, each minute,
\* for all of them.
HandleConnected(n, m) ==
    /\ Running(n) /\ m \in connected[n]
    /\ connected' = [connected EXCEPT ![n] = @ \ {m}]
    /\ pool' = [pool EXCEPT ![n] = Cleaned(n)]
    /\ Relayed(n, {m})
    /\ UNCHANGED <<tip, infos, net_task, faults>>

RetryTransactions(n) ==
    /\ Running(n)
    /\ pool' = [pool EXCEPT ![n] = Cleaned(n)]
    /\ Relayed(n, Node)
    /\ UNCHANGED <<tip, infos, connected, net_task, faults>>

\* get_transactions, for the template of a block.
GetTransactions(n) ==
    /\ pool' = [pool EXCEPT ![n] = Cleaned(n)]
    /\ UNCHANGED <<tip, pushed, infos, connected, net_task, faults>>

RemoveFromMempool(n, t) ==
    /\ faults < MaxFaults /\ faults' = faults + 1
    /\ t \in pool[n]
    /\ pool' = [pool EXCEPT ![n] = delete(@, t)]
    /\ UNCHANGED <<tip, pushed, infos, connected, net_task>>

-----------------------------------------------------------------------------
(***************************************************************************)
(* Blocks: S is a pool, or Refused once a put has failed.                  *)
(***************************************************************************)
Refused == {"UtxoDoubleSpent"}

ByHeight(S) == SetToSortSeq(S, LAMBDA a, b : Height(a) < Height(b))

\* disconnect_tip_ puts the transactions of a block back, the last one first.
PutBack(S, t) == IF S = Refused \/ UtxoDoubleSpent(S, t) THEN Refused ELSE S \cup {t}
Disconnected(S, b) == FoldLeft(PutBack, S, Reverse(body[b]))

\* connect_tip_ deletes them.
Connected(S, b) == IF S = Refused THEN S ELSE FoldLeft(delete, S, body[b])

\* reorg_to_tip up to the first better tip: one write transaction.  An error of
\* the mempool is fatal.
Reorg(n, b) ==
    LET down == Reverse(ByHeight(Ancestors[tip[n]] \ Ancestors[b]))
        up == ByHeight(Ancestors[b] \ Ancestors[tip[n]])
        S == FoldLeft(Connected, FoldLeft(Disconnected, pool[n], down), up)
    IN  /\ Running(n) /\ Height(b) = Height(tip[n]) + 1
        /\ IF S = Refused
           THEN net_task' = [net_task EXCEPT ![n] = "failed"] /\ UNCHANGED <<pool, tip>>
           ELSE /\ tip' = [tip EXCEPT ![n] = b] /\ pool' = [pool EXCEPT ![n] = S]
                /\ UNCHANGED net_task
        /\ UNCHANGED <<pushed, infos, connected, faults>>

\* invalidate_block of the tip; it fails when a put does.
InvalidateBlock(n) ==
    /\ faults < MaxFaults /\ faults' = faults + 1
    /\ tip[n] # NoBlock /\ Disconnected(pool[n], tip[n]) # Refused
    /\ pool' = [pool EXCEPT ![n] = Disconnected(pool[n], tip[n])]
    /\ tip' = [tip EXCEPT ![n] = parent[tip[n]]]
    /\ UNCHANGED <<pushed, infos, connected, net_task>>

\* A connection is lost with what is on its way, and made again.
ConnectionLost(n, m) ==
    /\ faults < MaxFaults /\ faults' = faults + 1
    /\ n # m
    /\ pushed' = [pushed EXCEPT ![n] = {x \in @ : x[2] # m}, ![m] = {x \in @ : x[2] # n}]
    /\ connected' = [connected EXCEPT ![n] = @ \cup {m}]
    /\ UNCHANGED <<pool, tip, infos, net_task>>

-----------------------------------------------------------------------------
Init ==
    /\ pool = [n \in Node |-> {}] /\ tip = [n \in Node |-> NoBlock]
    /\ pushed = [n \in Node |-> {}] /\ infos = [n \in Node |-> {}]
    /\ connected = [n \in Node |-> {}] /\ net_task = [n \in Node |-> "running"]
    /\ faults = 0

HandleMessage(n) ==
    \E t \in Txid, m \in Node : HandlePushTx(n, t, m) \/ HandleNewTransaction(n, t, m)

Next ==
    \E n \in Node :
        \/ \E t \in Txid : BroadcastTransaction(n, t) \/ RemoveFromMempool(n, t)
        \/ HandleMessage(n) \/ RetryTransactions(n) \/ GetTransactions(n) \/ InvalidateBlock(n)
        \/ \E m \in Node : HandleConnected(n, m) \/ ConnectionLost(n, m)
        \/ \E b \in Block : Reorg(n, b)

(***************************************************************************)
(* The retry interval is a stream that the net task polls with the others, *)
(* and what is sent and stored in a channel is taken.                      *)
(***************************************************************************)
Fairness ==
    \A n \in Node :
        /\ WF_vars(RetryTransactions(n))
        /\ \A t \in Txid, m \in Node :
            WF_vars(HandlePushTx(n, t, m)) /\ WF_vars(HandleNewTransaction(n, t, m))

Spec == Init /\ [][Next]_vars /\ Fairness

-----------------------------------------------------------------------------
\* A transaction that one node has and can use gets to every other at the same
\* tip, unless that one has a transaction that conflicts: although it is
\* refused by a node that has not got the block yet, and connections are lost.
Propagates ==
    \A n \in Node, t \in Txid : \A m \in Node \ {n} :
        t \in pool[n] ~>
            \/ t \in pool[m] \/ t \notin pool[n] \/ tip[n] # tip[m]
            \/ UtxoDoubleSpent(pool[m], t)
            \/ ~Running(n) \/ ~Running(m)

\* What was validated in one state and stored in another does not stay: a
\* pooled transaction that is invalid at the tip leaves the pool, or becomes
\* valid.
StaleLeaves ==
    \A n \in Node, t \in Txid :
        (t \in pool[n] /\ ~Valid(n, t)) ~> (t \notin pool[n] \/ Valid(n, t) \/ ~Running(n))

\* What the test of that name says: transactions of peers that conflict do not
\* stop the net task.
PeerTransactionConflictsDoNotStopNetTask == \A n \in Node : Running(n)
=============================================================================
