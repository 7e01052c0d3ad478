--------------------------- MODULE TwoWayPegProofs ---------------------------
(***************************************************************************)
(* Proofs about TwoWayPeg, for every set of deposits and every bound.      *)
(*                                                                         *)
(* First the type invariant, PendingKnown, BundleOwnership and             *)
(* UtxoStxoDisjoint, as long as no block has collected a bundle that the   *)
(* mainchain had reported before.  Then that a reorg can always go back,   *)
(* and what it restores, that connect() meets no failed assert!, and when  *)
(* the outputs of the pending bundle are unspent.                          *)
(*                                                                         *)
(* The second part needs what connect() keeps beyond the first invariant:  *)
(* the histories of the bundles are in the order of the blocks and agree   *)
(* with the log of events.  And it needs a trace of the databases: what    *)
(* they were before each event of the chain.  Each handler of disconnect() *)
(* is shown to lead from what the handler of connect() left back to what   *)
(* it found, up to bundles that were collected, never submitted, and left  *)
(* behind.                                                                 *)
(***************************************************************************)
EXTENDS TwoWayPeg, SequenceTheorems, WellFoundedInduction, TLAPS

\* The bundle that connect() collects from s, if any, is new or Known.
Timely(s) == ReportedBefore(s) = {}

-----------------------------------------------------------------------------
(***************************************************************************)
(* The inductive invariant, on the parts of the databases: utxos u, stxos  *)
(* x, withdrawal_bundles w, pending p.                                     *)
(***************************************************************************)
BundleHolds(b) ==
    \/ b.info = "Known" /\ latest(b.status).value = "Submitted"
    \/ b.info # "Unknown" /\ latest(b.status).value = "Confirmed"

Owned(x, w) ==
    /\ \A o \in DOMAIN x : x[o].tag = "Withdrawal" =>
          /\ x[o].m6id \in DOMAIN w
          /\ BundleHolds(w[x[o].m6id])
          /\ o \in w[x[o].m6id].spend_utxos
    /\ \A m \in DOMAIN w : BundleHolds(w[m]) =>
          \A o \in w[m].spend_utxos : o \in DOMAIN x /\ x[o] = ByBundle(m)

Disjoint(u, x) == u \cap DOMAIN x = {}

\* A withdrawal output exists only once the deposit it is made from is spent.
SpentDeposits(u, x) ==
    \A d \in Deposit :
        withdrawal(d) \in u \cup DOMAIN x =>
            deposit(d) \in DOMAIN x /\ x[deposit(d)] = ByTransaction(d)

\* What comes before each status in the history of a known bundle.
KnownHistory(r) ==
    \A i \in DOMAIN r :
        /\ r[i].value = "Submitted" => i > 1 /\ r[i - 1].value = "Pending"
        /\ r[i].value = "SubmittedUnexpected" => i > 1 /\ r[i - 1].value = "Failed"
        /\ r[i].value \in {"Confirmed", "Failed"} => i > 1 /\ IsSubmitted(r[i - 1].value)
        /\ r[i].value = "Pending" =>
              i = 1 \/ r[i - 1].value \notin {"Submitted", "Confirmed"}

BundleOK(m, b) ==
    /\ b.info = "Known" => /\ b.spend_utxos = m.spend_utxos
                           /\ m.spend_utxos # {}
                           /\ KnownHistory(b.status)
    /\ b.info = "UnknownConfirmed" => latest(b.status).value = "Confirmed"

BundlesOK(w) == \A m \in DOMAIN w : BundleOK(m, w[m])

PendingOK(p, w) ==
    \A m \in p : /\ p = {m}
                 /\ m \in DOMAIN w
                 /\ w[m].info = "Known"
                 /\ latest(w[m].status).value = "Pending"

DbInv(s) ==
    /\ DbOK(s)
    /\ BundlesOK(s.withdrawal_bundles)
    /\ PendingOK(s.pending, s.withdrawal_bundles)
    /\ Owned(s.stxos, s.withdrawal_bundles)
    /\ Disjoint(s.utxos, s.stxos)
    /\ SpentDeposits(s.utxos, s.stxos)

\* A deposit is known only if its event has been applied.
DepositsLogged(s, l) ==
    \A d \in Deposit :
        deposit(d) \in s.utxos \cup DOMAIN s.stxos =>
            \E i \in DOMAIN l : l[i].event = [kind |-> "Deposit", deposit |-> d]

ChainOK(c) ==
    /\ \E S : c \in Seq(S)
    /\ \A i \in DOMAIN c : c[i].body \subseteq Deposit /\ DbOK(c[i].before)

LogOK(l) == l \in Seq([event : Event, height : Nat])

\* The databases s, chain c and log l belong together.
Consistent(s, c, l) ==
    /\ DbInv(s)
    /\ s.height = Len(c) - 1
    /\ ChainOK(c)
    /\ LogOK(l)
    /\ DepositsLogged(s, l)

TxnOK(t) ==
    /\ t = [op |-> t.op, restore |-> t.restore,
            deposit_block |-> t.deposit_block, event_block |-> t.event_block,
            index_events |-> t.index_events]
    /\ t.op \in {"idle", "connect", "disconnect"}
    /\ t.deposit_block \in Nat /\ t.event_block \in Nat
    /\ t.index_events \in BlockIndexEvents

IInv ==
    /\ Consistent(db, chain, log)
    /\ TxnOK(txn)
    /\ Consistent(txn.restore[1], txn.restore[2], txn.restore[3])
    /\ txn.op # "idle" => chain # <<>>

-----------------------------------------------------------------------------
(***************************************************************************)
(* Histories.                                                              *)
(***************************************************************************)

\* push() appends: the new status is the latest, the others are unchanged.
LEMMA PushFacts ==
    ASSUME NEW T, NEW r \in Seq(HeightStamped(T)), NEW v \in T, NEW h \in Nat
    PROVE  /\ push(r, v, h) \in RollBack(T)
           /\ Len(push(r, v, h)) = Len(r) + 1
           /\ latest(push(r, v, h)) = [value |-> v, height |-> h]
           /\ \A i \in 1..Len(r) : push(r, v, h)[i] = r[i]
           /\ r # <<>> => push(r, v, h)[Len(push(r, v, h)) - 1] = latest(r)
<1>1. [value |-> v, height |-> h] \in HeightStamped(T)
  BY DEF HeightStamped
<1>2. push(r, v, h) \in Seq(HeightStamped(T)) /\ Len(push(r, v, h)) = Len(r) + 1
  BY <1>1 DEF push
<1>3. /\ \A i \in 1..Len(r) : push(r, v, h)[i] = r[i]
      /\ push(r, v, h)[Len(r) + 1] = [value |-> v, height |-> h]
  BY <1>1 DEF push
<1>4. push(r, v, h) # <<>>
  BY <1>2
<1>5. r # <<>> => Len(r) \in 1..Len(r)
  OBVIOUS
<1> QED
  BY <1>2, <1>3, <1>4, <1>5 DEF latest, RollBack

\* pop() drops the latest status and nothing else.
LEMMA PopFacts ==
    ASSUME NEW T, NEW r \in RollBack(T)
    PROVE  /\ popped(r) \in Seq(HeightStamped(T))
           /\ Len(popped(r)) = Len(r) - 1
           /\ Len(r) \in Nat \ {0}
           /\ \A i \in 1..(Len(r) - 1) : popped(r)[i] = r[i]
           /\ popped(r) # <<>> =>
                /\ popped(r) \in RollBack(T)
                /\ Len(r) > 1
                /\ latest(popped(r)) = r[Len(r) - 1]
<1>1. r \in Seq(HeightStamped(T)) /\ r # <<>>
  BY DEF RollBack
<1>2. Len(r) \in Nat \ {0}
  BY <1>1
<1>3. popped(r) \in Seq(HeightStamped(T)) /\ Len(popped(r)) = Len(r) - 1
      /\ \A i \in 1..(Len(r) - 1) : popped(r)[i] = r[i]
  <2> DEFINE n == Len(r) - 1
  <2>1. n \in Nat /\ \A i \in 1..n : r[i] \in HeightStamped(T)
    BY <1>1, <1>2
  <2> HIDE DEF n
  <2>2. /\ SubSeq(r, 1, n) \in Seq(HeightStamped(T))
        /\ Len(SubSeq(r, 1, n)) = IF 1 <= n THEN n - 1 + 1 ELSE 0
        /\ \A i \in 1..(n - 1 + 1) : SubSeq(r, 1, n)[i] = r[1 + i - 1]
    BY <2>1, SubSeqProperties
  <2>3. Len(SubSeq(r, 1, n)) = n /\ \A i \in 1..n : SubSeq(r, 1, n)[i] = r[i]
    BY <2>1, <2>2
  <2> QED
    BY <2>2, <2>3 DEF popped, n
<1>4. popped(r) # <<>> => Len(popped(r)) # 0
  BY <1>3
<1> QED
  BY <1>2, <1>3, <1>4 DEF RollBack, latest

LEMMA NewFacts ==
    ASSUME NEW T, NEW v \in T, NEW h \in Nat
    PROVE  /\ new(v, h) \in RollBack(T)
           /\ Len(new(v, h)) = 1
           /\ latest(new(v, h)) = [value |-> v, height |-> h]
<1>1. [value |-> v, height |-> h] \in HeightStamped(T)
  BY DEF HeightStamped
<1>2. new(v, h) \in Seq(HeightStamped(T)) /\ Len(new(v, h)) = 1 /\ new(v, h) # <<>>
  BY <1>1 DEF new
<1> QED
  BY <1>1, <1>2 DEF new, latest, RollBack

\* A known bundle's history stays one when a status that may follow the
\* latest is pushed.
LEMMA PushHistory ==
    ASSUME NEW r \in RollBack(BundleStatus), KnownHistory(r),
           NEW v \in BundleStatus, NEW h \in Nat,
           v = "Submitted" => latest(r).value = "Pending",
           v = "SubmittedUnexpected" => latest(r).value = "Failed",
           v \in {"Confirmed", "Failed"} => IsSubmitted(latest(r).value),
           v = "Pending" => latest(r).value \notin {"Submitted", "Confirmed"}
    PROVE  KnownHistory(push(r, v, h))
<1> DEFINE q == push(r, v, h)
<1>1. r \in Seq(HeightStamped(BundleStatus)) /\ r # <<>> /\ Len(r) \in Nat \ {0}
  BY DEF RollBack
<1>2. /\ q \in Seq(HeightStamped(BundleStatus)) /\ Len(q) = Len(r) + 1
      /\ latest(q).value = v
      /\ \A i \in 1..Len(r) : q[i] = r[i]
      /\ q[Len(r)] = latest(r)
  <2>1. /\ q \in RollBack(BundleStatus) /\ Len(q) = Len(r) + 1
        /\ latest(q) = [value |-> v, height |-> h]
        /\ \A i \in 1..Len(r) : q[i] = r[i]
    BY <1>1, PushFacts
  <2> QED
    BY <1>1, <2>1 DEF RollBack, latest
<1>3. DOMAIN q = 1..(Len(r) + 1) /\ DOMAIN r = 1..Len(r)
  BY <1>1, <1>2
<1> HIDE DEF q
<1>4. ASSUME NEW i \in 1..Len(r)
      PROVE  q[i] = r[i] /\ (i > 1 => q[i - 1] = r[i - 1])
  BY <1>1, <1>2
<1>5. q[Len(r) + 1].value = v /\ q[(Len(r) + 1) - 1] = latest(r)
  BY <1>1, <1>2 DEF latest
<1>6. KnownHistory(q)
  <2> SUFFICES ASSUME NEW i \in DOMAIN q
               PROVE  /\ q[i].value = "Submitted" => i > 1 /\ q[i - 1].value = "Pending"
                      /\ q[i].value = "SubmittedUnexpected" => i > 1 /\ q[i - 1].value = "Failed"
                      /\ q[i].value \in {"Confirmed", "Failed"} => i > 1 /\ IsSubmitted(q[i - 1].value)
                      /\ q[i].value = "Pending" =>
                            i = 1 \/ q[i - 1].value \notin {"Submitted", "Confirmed"}
    BY DEF KnownHistory
  <2>1. CASE i \in 1..Len(r)
    <3>1. i \in DOMAIN r
      BY <2>1, <1>3
    <3> QED
      BY <2>1, <3>1, <1>1, <1>4 DEF KnownHistory
  <2>2. CASE i = Len(r) + 1
    BY <2>2, <1>1, <1>5
  <2> QED
    BY <2>1, <2>2, <1>1, <1>3
<1> QED
  BY <1>6 DEF q

\* ... and when the latest is popped.
LEMMA PopHistory ==
    ASSUME NEW r \in RollBack(BundleStatus), KnownHistory(r), popped(r) # <<>>
    PROVE  KnownHistory(popped(r))
<1>1. /\ popped(r) \in Seq(HeightStamped(BundleStatus))
      /\ Len(popped(r)) = Len(r) - 1 /\ Len(r) \in Nat \ {0}
      /\ \A i \in 1..(Len(r) - 1) : popped(r)[i] = r[i]
  BY PopFacts
<1>2. DOMAIN popped(r) = 1..(Len(r) - 1) /\ DOMAIN r = 1..Len(r)
  BY <1>1 DEF RollBack
<1>3. ASSUME NEW i \in DOMAIN popped(r)
      PROVE  i \in DOMAIN r /\ popped(r)[i] = r[i] /\ (i > 1 => popped(r)[i - 1] = r[i - 1])
  BY <1>1, <1>2
<1> QED
  BY <1>1, <1>2, <1>3 DEF KnownHistory

-----------------------------------------------------------------------------
(***************************************************************************)
(* Moves of outputs.  x is a partial function from outpoints to inpoints,  *)
(* w from m6ids to bundles; m is given the entry b.                        *)
(***************************************************************************)
IsStxos(x) == PartialFunction(x, OutPoint, InPoint)
Taken(x, O, m) == PutAll(x, [o \in O |-> ByBundle(m)])
AllOutputs(u, x) == u \cup DOMAIN x
Joined(u, O) == u \cup O

\* No output moves, and m holds after what it held before.
LEMMA KeepOutputs ==
    ASSUME NEW x, NEW w, NEW m, NEW b,
           Owned(x, w),
           BundleHolds(b) => m \in DOMAIN w /\ BundleHolds(w[m])
                             /\ b.spend_utxos = w[m].spend_utxos,
           m \in DOMAIN w /\ BundleHolds(w[m]) => BundleHolds(b)
    PROVE  Owned(x, PutOne(w, m, b))
<1> DEFINE v == PutOne(w, m, b)
<1>1. /\ DOMAIN v = DOMAIN w \cup {m}
      /\ v[m] = b
      /\ \A n \in DOMAIN w : n # m => v[n] = w[n]
  BY DEF PutOne
<1> HIDE DEF v
<1>2. Owned(x, v)
  BY <1>1 DEF Owned
<1> QED
  BY <1>2 DEF v

\* m takes the unspent outputs O.
LEMMA TakeOutputs ==
    ASSUME NEW u, NEW x, NEW w, NEW m, NEW b, NEW O, NEW v, v = u \ O,
           IsStxos(x), Owned(x, w), Disjoint(u, x), SpentDeposits(u, x),
           O \subseteq u, u \subseteq OutPoint, m \in M6id,
           m \in DOMAIN w => ~BundleHolds(w[m]),
           BundleHolds(b), b.spend_utxos = O
    PROVE  /\ v \subseteq OutPoint
           /\ IsStxos(Taken(x, O, m))
           /\ Owned(Taken(x, O, m), PutOne(w, m, b))
           /\ Disjoint(v, Taken(x, O, m))
           /\ SpentDeposits(v, Taken(x, O, m))
           /\ AllOutputs(v, Taken(x, O, m)) = AllOutputs(u, x)
<1> DEFINE z == PutOne(w, m, b)
           y == Taken(x, O, m)
<1>1. /\ DOMAIN z = DOMAIN w \cup {m}
      /\ z[m] = b
      /\ \A n \in DOMAIN w : n # m => z[n] = w[n]
  BY DEF PutOne
<1>2. /\ DOMAIN y = DOMAIN x \cup O
      /\ \A o \in O : y[o] = ByBundle(m)
      /\ \A o \in DOMAIN x : y[o] = x[o]
  BY DEF Taken, PutAll, Disjoint
<1>3. ByBundle(m) \in InPoint /\ ByBundle(m).tag = "Withdrawal" /\ ByBundle(m).m6id = m
  BY DEF ByBundle, InPoint
<1> HIDE DEF z, y
<1>4. IsStxos(y)
  BY <1>2, <1>3 DEF IsStxos, PartialFunction
<1>5. Owned(y, z)
  <2>1. ASSUME NEW o \in DOMAIN y, y[o].tag = "Withdrawal"
        PROVE  y[o].m6id \in DOMAIN z /\ BundleHolds(z[y[o].m6id])
               /\ o \in z[y[o].m6id].spend_utxos
    <3>1. CASE o \in O
      BY <3>1, <1>1, <1>2, <1>3
    <3>2. CASE o \in DOMAIN x
      <4>1. x[o].m6id \in DOMAIN w /\ BundleHolds(w[x[o].m6id])
            /\ o \in w[x[o].m6id].spend_utxos
        BY <3>2, <2>1, <1>2 DEF Owned
      <4>2. x[o].m6id # m
        BY <4>1
      <4> QED
        BY <3>2, <4>1, <4>2, <1>1, <1>2
    <3> QED
      BY <3>1, <3>2, <1>2
  <2>2. ASSUME NEW n \in DOMAIN z, BundleHolds(z[n]), NEW o \in z[n].spend_utxos
        PROVE  o \in DOMAIN y /\ y[o] = ByBundle(n)
    BY <2>2, <1>1, <1>2 DEF Owned
  <2> QED
    BY <2>1, <2>2 DEF Owned
<1>6. Disjoint(v, y)
  BY <1>2 DEF Disjoint
<1>7. AllOutputs(v, y) = AllOutputs(u, x)
  BY <1>2 DEF AllOutputs
<1>8. SpentDeposits(v, y)
  BY <1>2, <1>7 DEF SpentDeposits, AllOutputs
<1> QED
  BY <1>4, <1>5, <1>6, <1>7, <1>8 DEF z, y

\* m gives back the outputs it holds.
LEMMA GiveBackOutputs ==
    ASSUME NEW u, NEW x, NEW w, NEW m, NEW b, NEW O,
           m \in DOMAIN w, O = w[m].spend_utxos, u \subseteq OutPoint,
           IsStxos(x), Owned(x, w), Disjoint(u, x), SpentDeposits(u, x),
           BundleHolds(w[m]), ~BundleHolds(b)
    PROVE  /\ O \subseteq DOMAIN x
           /\ Joined(u, O) \subseteq OutPoint
           /\ IsStxos(DeleteAll(x, O))
           /\ Owned(DeleteAll(x, O), PutOne(w, m, b))
           /\ Disjoint(Joined(u, O), DeleteAll(x, O))
           /\ SpentDeposits(Joined(u, O), DeleteAll(x, O))
           /\ AllOutputs(Joined(u, O), DeleteAll(x, O)) = AllOutputs(u, x)
<1> DEFINE z == PutOne(w, m, b)
           y == DeleteAll(x, O)
           v == u \cup O
<1>1. /\ DOMAIN z = DOMAIN w \cup {m}
      /\ z[m] = b
      /\ \A n \in DOMAIN w : n # m => z[n] = w[n]
  BY DEF PutOne
<1>2. DOMAIN y = DOMAIN x \ O /\ \A o \in DOMAIN y : y[o] = x[o]
  BY DEF DeleteAll
<1>3. \A o \in O : o \in DOMAIN x /\ x[o] = ByBundle(m)
  BY DEF Owned
<1>4. \A n : ByBundle(n).tag = "Withdrawal" /\ ByBundle(n).m6id = n
  BY DEF ByBundle
<1> HIDE DEF z, y
<1>5. IsStxos(y)
  BY <1>2 DEF IsStxos, PartialFunction
<1>6. Owned(y, z)
  <2>1. ASSUME NEW o \in DOMAIN y, y[o].tag = "Withdrawal"
        PROVE  y[o].m6id \in DOMAIN z /\ BundleHolds(z[y[o].m6id])
               /\ o \in z[y[o].m6id].spend_utxos
    <3>1. o \in DOMAIN x /\ x[o].tag = "Withdrawal" /\ o \notin O
      BY <2>1, <1>2
    <3>2. x[o].m6id \in DOMAIN w /\ BundleHolds(w[x[o].m6id])
          /\ o \in w[x[o].m6id].spend_utxos
      BY <3>1 DEF Owned
    <3>3. x[o].m6id # m
      BY <3>1, <3>2
    <3> QED
      BY <3>1, <3>2, <3>3, <1>1, <1>2
  <2>2. ASSUME NEW n \in DOMAIN z, BundleHolds(z[n]), NEW o \in z[n].spend_utxos
        PROVE  o \in DOMAIN y /\ y[o] = ByBundle(n)
    <3>1. n # m /\ n \in DOMAIN w /\ z[n] = w[n]
      BY <2>2, <1>1
    <3>2. o \in DOMAIN x /\ x[o] = ByBundle(n)
      BY <2>2, <3>1 DEF Owned
    <3>3. o \notin O
      BY <3>1, <3>2, <1>3, <1>4
    <3> QED
      BY <3>2, <3>3, <1>2
  <2> QED
    BY <2>1, <2>2 DEF Owned
<1>7. Disjoint(v, y)
  BY <1>2 DEF Disjoint
<1>8. AllOutputs(v, y) = AllOutputs(u, x)
  BY <1>2, <1>3 DEF AllOutputs
<1>9. SpentDeposits(v, y)
  <2> SUFFICES ASSUME NEW d \in Deposit, withdrawal(d) \in u \cup DOMAIN x
               PROVE  deposit(d) \in DOMAIN y /\ y[deposit(d)] = ByTransaction(d)
    BY <1>8 DEF SpentDeposits, AllOutputs
  <2>1. deposit(d) \in DOMAIN x /\ x[deposit(d)] = ByTransaction(d)
    BY DEF SpentDeposits
  <2>2. ByTransaction(d).tag = "Regular"
    BY DEF ByTransaction
  <2>3. deposit(d) \notin O
    BY <2>1, <2>2, <1>3, <1>4
  <2> QED
    BY <2>1, <2>3, <1>2
<1>10. v \subseteq OutPoint
  BY <1>3 DEF IsStxos, PartialFunction
<1> QED
  BY <1>3, <1>5, <1>6, <1>7, <1>8, <1>9, <1>10 DEF z, y, Joined

\* An entry that holds nothing is deleted.
LEMMA DeleteEntry ==
    ASSUME NEW x, NEW w, NEW m, Owned(x, w), m \in DOMAIN w => ~BundleHolds(w[m])
    PROVE  Owned(x, DeleteAll(w, {m}))
<1> DEFINE v == DeleteAll(w, {m})
<1>1. DOMAIN v = DOMAIN w \ {m} /\ \A n \in DOMAIN v : v[n] = w[n]
  BY DEF DeleteAll
<1> HIDE DEF v
<1>2. Owned(x, v)
  BY <1>1 DEF Owned
<1> QED
  BY <1>2 DEF v

-----------------------------------------------------------------------------
(***************************************************************************)
(* Entries of withdrawal_bundles.                                          *)
(***************************************************************************)
IsBundles(w) == PartialFunction(w, M6id, Bundle)

LEMMA PushEntry ==
    ASSUME NEW b \in Bundle, NEW v \in BundleStatus, NEW h \in Nat
    PROVE  /\ PushStatus(b, v, h) \in Bundle
           /\ PushStatus(b, v, h).info = b.info
           /\ PushStatus(b, v, h).spend_utxos = b.spend_utxos
           /\ PushStatus(b, v, h).status = push(b.status, v, h)
           /\ latest(PushStatus(b, v, h).status).value = v
<1>1. b.status \in RollBack(BundleStatus) /\ b.status \in Seq(HeightStamped(BundleStatus))
  BY DEF Bundle, RollBack
<1>2. push(b.status, v, h) \in RollBack(BundleStatus)
      /\ latest(push(b.status, v, h)) = [value |-> v, height |-> h]
  BY <1>1, PushFacts
<1> QED
  BY <1>2 DEF PushStatus, Bundle

LEMMA PopEntry ==
    ASSUME NEW b \in Bundle, popped(b.status) # <<>>
    PROVE  /\ PopStatus(b) \in Bundle
           /\ PopStatus(b).info = b.info
           /\ PopStatus(b).spend_utxos = b.spend_utxos
           /\ PopStatus(b).status = popped(b.status)
           /\ latest(popped(b.status)) = b.status[Len(b.status) - 1]
           /\ Len(b.status) \in DOMAIN b.status /\ Len(b.status) > 1
<1>1. b.status \in RollBack(BundleStatus) /\ b.status \in Seq(HeightStamped(BundleStatus))
  BY DEF Bundle, RollBack
<1>2. popped(b.status) \in RollBack(BundleStatus)
      /\ latest(popped(b.status)) = b.status[Len(b.status) - 1]
      /\ Len(b.status) \in Nat \ {0} /\ Len(b.status) > 1
  BY <1>1, PopFacts
<1> QED
  BY <1>1, <1>2 DEF PopStatus, Bundle

\* What the history of a known bundle says of the status under the latest.
LEMMA UnderLatest ==
    ASSUME NEW b \in Bundle, KnownHistory(b.status)
    PROVE  /\ latest(b.status).value = "Submitted" =>
                popped(b.status) # <<>> /\ latest(popped(b.status)).value = "Pending"
           /\ latest(b.status).value = "SubmittedUnexpected" =>
                popped(b.status) # <<>> /\ latest(popped(b.status)).value = "Failed"
           /\ latest(b.status).value = "Pending" /\ popped(b.status) # <<>> =>
                latest(popped(b.status)).value \notin {"Submitted", "Confirmed"}
<1>1. b.status \in RollBack(BundleStatus) /\ b.status \in Seq(HeightStamped(BundleStatus))
      /\ b.status # <<>>
  BY DEF Bundle, RollBack
<1>2. /\ Len(popped(b.status)) = Len(b.status) - 1
      /\ popped(b.status) \in Seq(HeightStamped(BundleStatus))
      /\ Len(b.status) \in Nat \ {0} /\ Len(b.status) \in DOMAIN b.status
      /\ popped(b.status) # <<>> => latest(popped(b.status)) = b.status[Len(b.status) - 1]
  BY <1>1, PopFacts
<1>3. Len(b.status) > 1 <=> popped(b.status) # <<>>
  BY <1>2
<1> QED
  BY <1>2, <1>3 DEF KnownHistory, latest

LEMMA PutEntry ==
    ASSUME NEW w, IsBundles(w), BundlesOK(w),
           NEW m \in M6id, NEW b \in Bundle, BundleOK(m, b)
    PROVE  IsBundles(PutOne(w, m, b)) /\ BundlesOK(PutOne(w, m, b))
  BY DEF IsBundles, PartialFunction, BundlesOK, PutOne

LEMMA RemoveEntry ==
    ASSUME NEW w, IsBundles(w), BundlesOK(w), NEW m
    PROVE  IsBundles(DeleteAll(w, {m})) /\ BundlesOK(DeleteAll(w, {m}))
  BY DEF IsBundles, PartialFunction, BundlesOK, DeleteAll

LEMMA KeepPending ==
    ASSUME NEW w, NEW p, PendingOK(p, w), NEW m, NEW b, m \notin p
    PROVE  PendingOK(p, PutOne(w, m, b)) /\ PendingOK(p, DeleteAll(w, {m}))
  BY DEF PendingOK, PutOne, DeleteAll

-----------------------------------------------------------------------------
(***************************************************************************)
(* The databases with new utxos, stxos, bundles, pending and latest failed *)
(* bundle: what a handler stores.                                          *)
(***************************************************************************)
With(s, u, x, w, p, f) ==
    [height |-> s.height, utxos |-> u, stxos |-> x, withdrawal_bundles |-> w,
     pending |-> p, latest_failed |-> f, deposit_blocks |-> s.deposit_blocks,
     event_blocks |-> s.event_blocks, block_index_events |-> s.block_index_events]

\* A handler's result: the invariant holds, height and set of outputs are kept.
Keeps(s, r) ==
    /\ DbInv(r)
    /\ r.height = s.height
    /\ AllOutputs(r.utxos, r.stxos) = AllOutputs(s.utxos, s.stxos)

LEMMA WithKeeps ==
    ASSUME NEW s, DbInv(s), NEW u, NEW x, NEW w, NEW p, NEW f,
           u \subseteq OutPoint, IsStxos(x), IsBundles(w), BundlesOK(w),
           f \in Seq(HeightStamped(M6id)), PendingOK(p, w), Owned(x, w),
           Disjoint(u, x), SpentDeposits(u, x),
           AllOutputs(u, x) = AllOutputs(s.utxos, s.stxos)
    PROVE  Keeps(s, With(s, u, x, w, p, f))
<1> DEFINE r == With(s, u, x, w, p, f)
<1>1. /\ r.height = s.height /\ r.utxos = u /\ r.stxos = x
      /\ r.withdrawal_bundles = w /\ r.pending = p /\ r.latest_failed = f
      /\ r.deposit_blocks = s.deposit_blocks /\ r.event_blocks = s.event_blocks
      /\ r.block_index_events = s.block_index_events
  BY DEF With
<1>2. IsDb(r)
  BY DEF IsDb, With
<1> HIDE DEF r
<1>3. p \subseteq M6id
  BY DEF PendingOK, IsBundles, PartialFunction
<1>4. DbOK(r)
  BY <1>1, <1>2, <1>3 DEF DbOK, DbInv, IsStxos, IsBundles
<1>5. Keeps(s, r)
  BY <1>1, <1>4 DEF DbInv, Keeps
<1> QED
  BY <1>5 DEF r

LEMMA StateFields ==
    ASSUME NEW s, DbInv(s)
    PROVE  /\ s = With(s, s.utxos, s.stxos, s.withdrawal_bundles, s.pending, s.latest_failed)
           /\ s.utxos \subseteq OutPoint /\ IsStxos(s.stxos)
           /\ IsBundles(s.withdrawal_bundles) /\ BundlesOK(s.withdrawal_bundles)
           /\ s.latest_failed \in Seq(HeightStamped(M6id))
           /\ PendingOK(s.pending, s.withdrawal_bundles)
           /\ Owned(s.stxos, s.withdrawal_bundles)
           /\ Disjoint(s.utxos, s.stxos) /\ SpentDeposits(s.utxos, s.stxos)
  BY DEF DbInv, DbOK, IsDb, With, IsStxos, IsBundles

\* What the primitive updates store.
LEMMA PutBundleIs ==
    ASSUME NEW s, NEW u, NEW x, NEW w, NEW p, NEW f, NEW m, NEW b,
           NEW a, a = With(s, u, x, w, p, f)
    PROVE  PutBundle(a, m, b) = With(s, u, x, PutOne(w, m, b), p, f)
<1>1. PutBundle(With(s, u, x, w, p, f), m, b) = With(s, u, x, PutOne(w, m, b), p, f)
  BY DEF PutBundle, With
<1> QED
  BY <1>1

\* EXCEPT by name, for use in lemmas.
SetUtxosStxos(a, v, y) == [a EXCEPT !.utxos = v, !.stxos = y]
SetPending(a, v) == [a EXCEPT !.pending = v]
SetLatestFailed(a, v) == [a EXCEPT !.latest_failed = v]
SetBundles(a, v) == [a EXCEPT !.withdrawal_bundles = v]

LEMMA Fields ==
    ASSUME NEW s, NEW u, NEW x, NEW w, NEW p, NEW f,
           NEW a, a = With(s, u, x, w, p, f)
    PROVE  /\ a.utxos = u /\ a.stxos = x /\ a.latest_failed = f
           /\ a.withdrawal_bundles = w
  BY DEF With

LEMMA SetUtxosStxosIs ==
    ASSUME NEW s, NEW u, NEW x, NEW w, NEW p, NEW f, NEW v, NEW y,
           NEW a, a = With(s, u, x, w, p, f)
    PROVE  SetUtxosStxos(a, v, y) = With(s, v, y, w, p, f)
<1> DEFINE c == With(s, u, x, w, p, f)
<1>1. [c EXCEPT !.utxos = v] = With(s, v, x, w, p, f)
  BY DEF With
<1>2. [With(s, v, x, w, p, f) EXCEPT !.stxos = y] = With(s, v, y, w, p, f)
  BY DEF With
<1> HIDE DEF c
<1>3. [c EXCEPT !.utxos = v, !.stxos = y] = [[c EXCEPT !.utxos = v] EXCEPT !.stxos = y]
  OBVIOUS
<1>4. a = c
  BY DEF c
<1> QED
  BY <1>1, <1>2, <1>3, <1>4 DEF SetUtxosStxos

LEMMA SetPendingIs ==
    ASSUME NEW s, NEW u, NEW x, NEW w, NEW p, NEW f, NEW v,
           NEW a, a = With(s, u, x, w, p, f)
    PROVE  SetPending(a, v) = With(s, u, x, w, v, f)
<1>1. SetPending(With(s, u, x, w, p, f), v) = With(s, u, x, w, v, f)
  BY DEF With, SetPending
<1> QED
  BY <1>1

LEMMA SetLatestFailedIs ==
    ASSUME NEW s, NEW u, NEW x, NEW w, NEW p, NEW f, NEW v,
           NEW a, a = With(s, u, x, w, p, f)
    PROVE  SetLatestFailed(a, v) = With(s, u, x, w, p, v)
<1>1. SetLatestFailed(With(s, u, x, w, p, f), v) = With(s, u, x, w, p, v)
  BY DEF With, SetLatestFailed
<1> QED
  BY <1>1

LEMMA SetBundlesIs ==
    ASSUME NEW s, NEW u, NEW x, NEW w, NEW p, NEW f, NEW v,
           NEW a, a = With(s, u, x, w, p, f)
    PROVE  SetBundles(a, v) = With(s, u, x, v, p, f)
<1>1. SetBundles(With(s, u, x, w, p, f), v) = With(s, u, x, v, p, f)
  BY DEF With, SetBundles
<1> QED
  BY <1>1

LEMMA SpendByIs ==
    ASSUME NEW s, NEW u, NEW x, NEW w, NEW p, NEW f, NEW m, NEW O,
           NEW a, a = With(s, u, x, w, p, f)
    PROVE  SpendBy(a, O, m) = With(s, u \ O, Taken(x, O, m), w, p, f)
<1> DEFINE v == u \ O
           y == Taken(x, O, m)
<1>1. a.utxos = u /\ a.stxos = x
  BY Fields
<1>2. SpendBy(a, O, m) = SetUtxosStxos(a, v, y)
  BY <1>1 DEF SpendBy, Taken, SetUtxosStxos
<1> HIDE DEF v, y
<1>3. SetUtxosStxos(a, v, y) = With(s, v, y, w, p, f)
  BY SetUtxosStxosIs
<1> QED
  BY <1>2, <1>3 DEF v, y

LEMMA UnspendIs ==
    ASSUME NEW s, NEW u, NEW x, NEW w, NEW p, NEW f, NEW O,
           NEW a, a = With(s, u, x, w, p, f)
    PROVE  Unspend(a, O) = With(s, Joined(u, O), DeleteAll(x, O), w, p, f)
<1> DEFINE v == Joined(u, O)
           y == DeleteAll(x, O)
<1>1. a.utxos = u /\ a.stxos = x
  BY Fields
<1>2. Unspend(a, O) = SetUtxosStxos(a, v, y)
  BY <1>1 DEF Unspend, SetUtxosStxos, Joined
<1> HIDE DEF v, y
<1>3. SetUtxosStxos(a, v, y) = With(s, v, y, w, p, f)
  BY SetUtxosStxosIs
<1> QED
  BY <1>2, <1>3 DEF v, y

-----------------------------------------------------------------------------
(***************************************************************************)
(* The three things a handler may do: take outputs for m, give them back,  *)
(* or only change the entry of m.                                          *)
(***************************************************************************)
GoodEntry(m, b) == m \in M6id /\ b \in Bundle /\ BundleOK(m, b)

LEMMA Take ==
    ASSUME NEW s, DbInv(s), NEW m, NEW b, GoodEntry(m, b), BundleHolds(b),
           m \in DOMAIN s.withdrawal_bundles => ~BundleHolds(s.withdrawal_bundles[m]),
           b.spend_utxos \subseteq s.utxos,
           NEW p, PendingOK(p, PutOne(s.withdrawal_bundles, m, b)),
           NEW f \in Seq(HeightStamped(M6id)),
           NEW t, t = s.utxos \ b.spend_utxos
    PROVE  Keeps(s, With(s, t, Taken(s.stxos, b.spend_utxos, m),
                         PutOne(s.withdrawal_bundles, m, b), p, f))
<1> DEFINE u == s.utxos
           x == s.stxos
           w == s.withdrawal_bundles
           O == b.spend_utxos
           y == Taken(x, O, m)
           v == PutOne(w, m, b)
<1>1. /\ u \subseteq OutPoint /\ IsStxos(x) /\ IsBundles(w) /\ BundlesOK(w)
      /\ Owned(x, w) /\ Disjoint(u, x) /\ SpentDeposits(u, x)
  BY StateFields
<1>2. m \in M6id /\ b \in Bundle /\ BundleOK(m, b)
  BY DEF GoodEntry
<1>3. t = u \ O /\ O \subseteq u /\ (m \in DOMAIN w => ~BundleHolds(w[m])) /\ b.spend_utxos = O
      /\ PendingOK(p, v) /\ y = Taken(x, O, m) /\ v = PutOne(w, m, b)
      /\ AllOutputs(u, x) = AllOutputs(s.utxos, s.stxos)
  OBVIOUS
<1> HIDE DEF u, x, w, O, y, v
<1>4. /\ IsStxos(y) /\ Owned(y, v) /\ Disjoint(t, y) /\ t \subseteq OutPoint
      /\ SpentDeposits(t, y) /\ AllOutputs(t, y) = AllOutputs(u, x)
  BY <1>1, <1>2, <1>3, TakeOutputs
<1>5. IsBundles(v) /\ BundlesOK(v)
  BY <1>1, <1>2, <1>3, PutEntry
<1>6. Keeps(s, With(s, t, y, v, p, f))
  BY <1>3, <1>4, <1>5, WithKeeps
<1> QED
  BY <1>6 DEF u, x, w, O, y, v

LEMMA GiveBack ==
    ASSUME NEW s, DbInv(s), NEW m \in DOMAIN s.withdrawal_bundles,
           NEW b, GoodEntry(m, b), ~BundleHolds(b),
           BundleHolds(s.withdrawal_bundles[m]),
           NEW O, O = s.withdrawal_bundles[m].spend_utxos,
           NEW p, PendingOK(p, PutOne(s.withdrawal_bundles, m, b)),
           NEW f \in Seq(HeightStamped(M6id))
    PROVE  Keeps(s, With(s, Joined(s.utxos, O), DeleteAll(s.stxos, O),
                         PutOne(s.withdrawal_bundles, m, b), p, f))
<1> DEFINE u == s.utxos
           x == s.stxos
           w == s.withdrawal_bundles
           y == DeleteAll(x, O)
           t == Joined(u, O)
           v == PutOne(w, m, b)
<1>1. /\ u \subseteq OutPoint /\ IsStxos(x) /\ IsBundles(w) /\ BundlesOK(w)
      /\ Owned(x, w) /\ Disjoint(u, x) /\ SpentDeposits(u, x)
  BY StateFields
<1>2. m \in M6id /\ b \in Bundle /\ BundleOK(m, b)
  BY DEF GoodEntry
<1>3. t = Joined(u, O) /\ O = w[m].spend_utxos /\ m \in DOMAIN w /\ BundleHolds(w[m])
      /\ PendingOK(p, v) /\ y = DeleteAll(x, O) /\ v = PutOne(w, m, b)
      /\ AllOutputs(u, x) = AllOutputs(s.utxos, s.stxos)
  OBVIOUS
<1> HIDE DEF u, x, w, y, t, v
<1>4. /\ IsStxos(y) /\ Owned(y, v) /\ Disjoint(t, y) /\ t \subseteq OutPoint
      /\ SpentDeposits(t, y) /\ AllOutputs(t, y) = AllOutputs(u, x)
  BY <1>1, <1>2, <1>3, GiveBackOutputs
<1>5. IsBundles(v) /\ BundlesOK(v)
  BY <1>1, <1>2, <1>3, PutEntry
<1>6. Keeps(s, With(s, t, y, v, p, f))
  BY <1>3, <1>4, <1>5, WithKeeps
<1> QED
  BY <1>6 DEF u, x, w, y, t, v

LEMMA Change ==
    ASSUME NEW s, DbInv(s), NEW m, NEW b, GoodEntry(m, b),
           BundleHolds(b) => /\ m \in DOMAIN s.withdrawal_bundles
                             /\ BundleHolds(s.withdrawal_bundles[m])
                             /\ b.spend_utxos = s.withdrawal_bundles[m].spend_utxos,
           m \in DOMAIN s.withdrawal_bundles /\ BundleHolds(s.withdrawal_bundles[m])
              => BundleHolds(b),
           NEW p, PendingOK(p, PutOne(s.withdrawal_bundles, m, b))
    PROVE  Keeps(s, With(s, s.utxos, s.stxos, PutOne(s.withdrawal_bundles, m, b),
                         p, s.latest_failed))
<1> DEFINE u == s.utxos
           x == s.stxos
           w == s.withdrawal_bundles
           f == s.latest_failed
           v == PutOne(w, m, b)
<1>1. /\ u \subseteq OutPoint /\ IsStxos(x) /\ IsBundles(w) /\ BundlesOK(w)
      /\ f \in Seq(HeightStamped(M6id))
      /\ Owned(x, w) /\ Disjoint(u, x) /\ SpentDeposits(u, x)
  BY StateFields
<1>2. m \in M6id /\ b \in Bundle /\ BundleOK(m, b)
  BY DEF GoodEntry
<1>3. /\ BundleHolds(b) => m \in DOMAIN w /\ BundleHolds(w[m])
                           /\ b.spend_utxos = w[m].spend_utxos
      /\ m \in DOMAIN w /\ BundleHolds(w[m]) => BundleHolds(b)
      /\ PendingOK(p, v) /\ v = PutOne(w, m, b)
      /\ AllOutputs(u, x) = AllOutputs(s.utxos, s.stxos)
  OBVIOUS
<1> HIDE DEF u, x, w, f, v
<1>4. Owned(x, v)
  BY <1>1, <1>3, KeepOutputs
<1>5. IsBundles(v) /\ BundlesOK(v)
  BY <1>1, <1>2, <1>3, PutEntry
<1>6. Keeps(s, With(s, u, x, v, p, f))
  BY <1>1, <1>3, <1>4, <1>5, WithKeeps
<1> QED
  BY <1>6 DEF u, x, w, f, v

\* What the invariant says of one bundle; a pending one has status Pending.
LEMMA EntryFacts ==
    ASSUME NEW s, DbInv(s), NEW m, HasBundle(s, m)
    PROVE  /\ m \in DOMAIN s.withdrawal_bundles /\ m \in M6id
           /\ s.withdrawal_bundles[m] \in Bundle
           /\ s.withdrawal_bundles[m].status \in RollBack(BundleStatus)
           /\ BundleOK(m, s.withdrawal_bundles[m])
           /\ LatestStatus(s, m) = latest(s.withdrawal_bundles[m].status).value
           /\ LatestStatus(s, m) # "Pending" => m \notin s.pending
<1>1. m \in DOMAIN s.withdrawal_bundles
  BY DEF HasBundle
<1>2. m \in M6id /\ s.withdrawal_bundles[m] \in Bundle /\ BundleOK(m, s.withdrawal_bundles[m])
  BY <1>1 DEF DbInv, DbOK, PartialFunction, BundlesOK
<1>3. LatestStatus(s, m) = latest(s.withdrawal_bundles[m].status).value
  BY DEF LatestStatus, StatusOf
<1>4. s.withdrawal_bundles[m].status \in RollBack(BundleStatus)
  BY <1>2 DEF Bundle
<1>5. LatestStatus(s, m) # "Pending" => m \notin s.pending
  BY <1>3 DEF DbInv, PendingOK
<1> QED
  BY <1>1, <1>2, <1>3, <1>4, <1>5

\* A status that may follow the latest is pushed.
LEMMA PushGood ==
    ASSUME NEW s, DbInv(s), NEW m, HasBundle(s, m),
           NEW v \in BundleStatus, NEW h \in Nat,
           v = "Submitted" => LatestStatus(s, m) = "Pending",
           v = "SubmittedUnexpected" => LatestStatus(s, m) = "Failed",
           v \in {"Confirmed", "Failed"} => IsSubmitted(LatestStatus(s, m)),
           v = "Pending" => LatestStatus(s, m) \notin {"Submitted", "Confirmed"},
           s.withdrawal_bundles[m].info # "UnknownConfirmed"
    PROVE  /\ GoodEntry(m, PushStatus(s.withdrawal_bundles[m], v, h))
           /\ PushStatus(s.withdrawal_bundles[m], v, h).info = s.withdrawal_bundles[m].info
           /\ PushStatus(s.withdrawal_bundles[m], v, h).spend_utxos
                = s.withdrawal_bundles[m].spend_utxos
           /\ latest(PushStatus(s.withdrawal_bundles[m], v, h).status).value = v
<1> DEFINE b == s.withdrawal_bundles[m]
           c == PushStatus(b, v, h)
<1>1. m \in M6id /\ b \in Bundle /\ b.status \in RollBack(BundleStatus) /\ BundleOK(m, b)
      /\ LatestStatus(s, m) = latest(b.status).value
  BY EntryFacts
<1> HIDE DEF b
<1>2. /\ c \in Bundle /\ c.info = b.info /\ c.spend_utxos = b.spend_utxos
      /\ c.status = push(b.status, v, h) /\ latest(c.status).value = v
  BY <1>1, PushEntry
<1>3. b.info = "Known" => KnownHistory(c.status)
  <2> HAVE b.info = "Known"
  <2>1. KnownHistory(b.status)
    BY <1>1 DEF BundleOK
  <2>2. KnownHistory(push(b.status, v, h))
    BY <1>1, <2>1, PushHistory
  <2> QED
    BY <1>2, <2>2
<1> HIDE DEF c
<1>4. GoodEntry(m, c)
  BY <1>1, <1>2, <1>3 DEF BundleOK, GoodEntry, b
<1> QED
  BY <1>2, <1>4 DEF b, c

LEMMA Unchanged ==
    ASSUME NEW s, DbInv(s)
    PROVE  Keeps(s, s)
  BY DEF Keeps

\* An entry that holds nothing is removed.
LEMMA Remove ==
    ASSUME NEW s, DbInv(s), NEW m,
           m \in DOMAIN s.withdrawal_bundles => ~BundleHolds(s.withdrawal_bundles[m]),
           NEW p, PendingOK(p, DeleteAll(s.withdrawal_bundles, {m}))
    PROVE  Keeps(s, With(s, s.utxos, s.stxos, DeleteAll(s.withdrawal_bundles, {m}),
                         p, s.latest_failed))
<1> DEFINE u == s.utxos
           x == s.stxos
           w == s.withdrawal_bundles
           f == s.latest_failed
           v == DeleteAll(w, {m})
<1>1. /\ u \subseteq OutPoint /\ IsStxos(x) /\ IsBundles(w) /\ BundlesOK(w)
      /\ f \in Seq(HeightStamped(M6id))
      /\ Owned(x, w) /\ Disjoint(u, x) /\ SpentDeposits(u, x)
  BY StateFields
<1>2. /\ m \in DOMAIN w => ~BundleHolds(w[m])
      /\ PendingOK(p, v)
      /\ AllOutputs(u, x) = AllOutputs(s.utxos, s.stxos)
  OBVIOUS
<1> HIDE DEF u, x, w, f
<1>3. Owned(x, v) /\ IsBundles(v) /\ BundlesOK(v)
  BY <1>1, <1>2, DeleteEntry, RemoveEntry
<1> HIDE DEF v
<1>4. Keeps(s, With(s, u, x, v, p, f))
  BY <1>1, <1>2, <1>3, WithKeeps
<1> QED
  BY <1>4 DEF u, x, w, f, v

\* The latest status is popped, if there is one under it.
LEMMA PopGood ==
    ASSUME NEW s, DbInv(s), NEW m, HasBundle(s, m), HasUnder(s, m),
           s.withdrawal_bundles[m].info # "UnknownConfirmed"
    PROVE  /\ GoodEntry(m, PopStatus(s.withdrawal_bundles[m]))
           /\ PopStatus(s.withdrawal_bundles[m]).info = s.withdrawal_bundles[m].info
           /\ PopStatus(s.withdrawal_bundles[m]).spend_utxos
                = s.withdrawal_bundles[m].spend_utxos
           /\ latest(PopStatus(s.withdrawal_bundles[m]).status).value = UnderStatus(s, m)
<1> DEFINE b == s.withdrawal_bundles[m]
           c == PopStatus(b)
<1>1. m \in M6id /\ b \in Bundle /\ b.status \in RollBack(BundleStatus) /\ BundleOK(m, b)
  BY EntryFacts
<1>2. popped(b.status) # <<>> /\ UnderStatus(s, m) = latest(popped(b.status)).value
  BY DEF HasUnder, Under, StatusOf, UnderStatus
<1> HIDE DEF b
<1>3. /\ c \in Bundle /\ c.info = b.info /\ c.spend_utxos = b.spend_utxos
      /\ c.status = popped(b.status)
  BY <1>1, <1>2, PopEntry
<1>4. b.info = "Known" => KnownHistory(c.status)
  BY <1>1, <1>2, <1>3, PopHistory DEF BundleOK
<1> HIDE DEF c
<1>5. GoodEntry(m, c)
  BY <1>1, <1>3, <1>4 DEF BundleOK, GoodEntry, b
<1> QED
  BY <1>2, <1>3, <1>5 DEF b, c

\* What lies under the latest status of a known bundle.
LEMMA UnderFacts ==
    ASSUME NEW s, DbInv(s), NEW m, HasBundle(s, m),
           s.withdrawal_bundles[m].info = "Known"
    PROVE  /\ LatestStatus(s, m) = "Submitted" =>
                HasUnder(s, m) /\ UnderStatus(s, m) = "Pending"
           /\ LatestStatus(s, m) = "SubmittedUnexpected" =>
                HasUnder(s, m) /\ UnderStatus(s, m) = "Failed"
           /\ LatestStatus(s, m) = "Pending" /\ HasUnder(s, m) =>
                UnderStatus(s, m) \notin {"Submitted", "Confirmed"}
<1> DEFINE b == s.withdrawal_bundles[m]
<1>1. b \in Bundle /\ KnownHistory(b.status)
  BY EntryFacts DEF BundleOK
<1>2. /\ LatestStatus(s, m) = latest(b.status).value
      /\ HasUnder(s, m) <=> popped(b.status) # <<>>
      /\ UnderStatus(s, m) = latest(popped(b.status)).value
  BY DEF LatestStatus, HasUnder, Under, StatusOf, UnderStatus
<1> HIDE DEF b
<1> QED
  BY <1>1, <1>2, UnderLatest

LEMMA PoppedSeq ==
    ASSUME NEW S, NEW q \in Seq(S), q # <<>>
    PROVE  popped(q) \in Seq(S)
<1> DEFINE n == Len(q) - 1
<1>1. n \in Nat /\ \A i \in 1..n : q[i] \in S
  OBVIOUS
<1> HIDE DEF n
<1>2. SubSeq(q, 1, n) \in Seq(S)
  BY <1>1, SubSeqProperties
<1> QED
  BY <1>2 DEF popped, n

-----------------------------------------------------------------------------
(***************************************************************************)
(* connect(): each handler keeps the invariant.                            *)
(***************************************************************************)
LEMMA ConnectSubmitted ==
    ASSUME NEW s, DbInv(s), s.height \in Nat,
           NEW m \in M6id, HasBundle(s, m) \/ m \in MainBundle,
           ~submitted_panics(s, m), ~submitted_refused(s, m)
    PROVE  Keeps(s, connect_withdrawal_bundle_submitted(s, m))
<1> DEFINE r == connect_withdrawal_bundle_submitted(s, m)
           u == s.utxos
           x == s.stxos
           w == s.withdrawal_bundles
           p == s.pending
           f == s.latest_failed
<1>1. s = With(s, u, x, w, p, f) /\ f \in Seq(HeightStamped(M6id)) /\ PendingOK(p, w)
  BY StateFields
<1>2. {"Submitted", "SubmittedUnexpected"} \subseteq BundleStatus
  BY DEF BundleStatus
<1>3. CASE IsPending(s, m)
  <2> DEFINE O == m.spend_utxos
             b == PushStatus(w[m], "Submitted", s.height)
             t == u \ O
  <2>1. HasBundle(s, m) /\ w[m].info = "Known" /\ LatestStatus(s, m) = "Pending"
    BY <1>1, <1>3 DEF PendingOK, IsPending, HasBundle, LatestStatus, StatusOf
  <2>2. GoodEntry(m, b) /\ b.info = "Known" /\ b.spend_utxos = w[m].spend_utxos
        /\ latest(b.status).value = "Submitted"
    BY <1>2, <2>1, PushGood
  <2>3. w[m].spend_utxos = O /\ O \subseteq u
    BY <1>3, <2>1, EntryFacts DEF BundleOK, submitted_refused
  <2>4. BundleHolds(b) /\ ~BundleHolds(w[m])
    BY <2>1, <2>2, EntryFacts DEF BundleHolds
  <2>5. r = With(s, t, Taken(x, O, m), PutOne(w, m, b), {}, f)
    <3>1. r = SetPending(PutBundle(SpendBy(s, O, m), m, b), {})
      BY <1>3 DEF connect_withdrawal_bundle_submitted, SetPending
    <3>2. SpendBy(s, O, m) = With(s, t, Taken(x, O, m), w, p, f)
      BY <1>1, SpendByIs
    <3>3. PutBundle(SpendBy(s, O, m), m, b)
            = With(s, t, Taken(x, O, m), PutOne(w, m, b), p, f)
      BY <3>2, PutBundleIs
    <3> QED
      BY <3>1, <3>3, SetPendingIs
  <2>6. PendingOK({}, PutOne(w, m, b)) /\ t = u \ O
    BY DEF PendingOK
  <2> HIDE DEF O, b, t, r
  <2> QED
    BY <1>1, <2>2, <2>3, <2>4, <2>5, <2>6, Take DEF r
<1>4. CASE ~IsPending(s, m) /\ HasBundle(s, m)
  <2> DEFINE b == PushStatus(w[m], "SubmittedUnexpected", s.height)
  <2>1. LatestStatus(s, m) = "Failed" /\ w[m].info # "UnknownConfirmed" /\ m \notin p
    BY <1>4 DEF IsPending, submitted_refused
  <2>2. GoodEntry(m, b) /\ latest(b.status).value = "SubmittedUnexpected"
    BY <1>2, <1>4, <2>1, PushGood
  <2>3. ~BundleHolds(b) /\ ~BundleHolds(w[m])
    BY <1>4, <2>1, <2>2, EntryFacts DEF BundleHolds
  <2>4. r = With(s, u, x, PutOne(w, m, b), p, f)
    <3>1. r = PutBundle(s, m, b)
      BY <1>4 DEF connect_withdrawal_bundle_submitted
    <3> QED
      BY <3>1, <1>1, PutBundleIs
  <2> HIDE DEF b, r
  <2>5. PendingOK(p, PutOne(w, m, b))
    BY <1>1, <2>1, KeepPending
  <2> QED
    BY <2>2, <2>3, <2>4, <2>5, Change DEF r
<1>5. CASE ~IsPending(s, m) /\ ~HasBundle(s, m)
  <2> DEFINE b == [info |-> "Unknown", spend_utxos |-> {},
                   status |-> new("Submitted", s.height)]
  <2>1. m \notin p /\ m \notin DOMAIN w
    BY <1>5 DEF IsPending, HasBundle
  <2>2. b \in Bundle /\ latest(b.status).value = "Submitted"
    <3>1. new("Submitted", s.height) \in RollBack(BundleStatus)
          /\ latest(new("Submitted", s.height)) = [value |-> "Submitted", height |-> s.height]
      BY <1>2, NewFacts
    <3> QED
      BY <3>1 DEF Bundle
  <2>3. GoodEntry(m, b) /\ ~BundleHolds(b)
    BY <2>1, <2>2 DEF GoodEntry, BundleOK, BundleHolds
  <2>4. r = With(s, u, x, PutOne(w, m, b), p, f)
    <3>1. r = PutBundle(s, m, b)
      BY <1>5 DEF connect_withdrawal_bundle_submitted
    <3> QED
      BY <3>1, <1>1, PutBundleIs
  <2> HIDE DEF b, r
  <2>5. PendingOK(p, PutOne(w, m, b))
    BY <1>1, <2>1, KeepPending
  <2> QED
    BY <2>1, <2>3, <2>4, <2>5, Change DEF r
<1> QED
  BY <1>3, <1>4, <1>5

LEMMA ConnectConfirmed ==
    ASSUME NEW s, DbInv(s), s.height \in Nat, NEW m,
           ~confirmed_panics(s, m), ~confirmed_refused(s, m)
    PROVE  Keeps(s, connect_withdrawal_bundle_confirmed(s, m))
<1> DEFINE r == connect_withdrawal_bundle_confirmed(s, m)
           u == s.utxos
           x == s.stxos
           w == s.withdrawal_bundles
           p == s.pending
           f == s.latest_failed
           b == w[m]
           c == PushStatus(b, "Confirmed", s.height)
<1>1. s = With(s, u, x, w, p, f) /\ f \in Seq(HeightStamped(M6id)) /\ PendingOK(p, w)
  BY StateFields
<1>2. HasBundle(s, m)
  BY DEF confirmed_refused
<1>3. /\ m \in DOMAIN w /\ m \in M6id /\ b \in Bundle /\ BundleOK(m, b)
      /\ b.status \in RollBack(BundleStatus)
      /\ LatestStatus(s, m) = latest(b.status).value
      /\ LatestStatus(s, m) # "Pending" => m \notin p
  BY <1>2, EntryFacts
<1>4. "Confirmed" \in BundleStatus
  BY DEF BundleStatus
<1>5. CASE LatestStatus(s, m) = "Confirmed"
  <2>1. r = s
    BY <1>5 DEF connect_withdrawal_bundle_confirmed
  <2> QED
    BY <2>1, Unchanged
<1>6. CASE LatestStatus(s, m) # "Confirmed"
  <2>1. IsSubmitted(LatestStatus(s, m))
    BY <1>2, <1>6 DEF confirmed_panics
  <2>2. b.info # "UnknownConfirmed" /\ m \notin p
    BY <1>3, <2>1 DEF confirmed_refused, IsSubmitted
  <2>3. CASE b.info = "Unknown"
    <3> DEFINE b1 == [b EXCEPT !.info = "UnknownConfirmed", !.spend_utxos = u]
               c1 == PushStatus(b1, "Confirmed", s.height)
               t == u \ c1.spend_utxos
    <3>1. b1 \in Bundle /\ b1.info = "UnknownConfirmed" /\ b1.spend_utxos = u
      <4>1. u \subseteq OutPoint
        BY StateFields
      <4> QED
        BY <1>3, <4>1 DEF Bundle
    <3> HIDE DEF b1
    <3>2. c1 \in Bundle /\ c1.info = "UnknownConfirmed" /\ c1.spend_utxos = u
          /\ latest(c1.status).value = "Confirmed"
      BY <1>4, <3>1, PushEntry
    <3>3. r = With(s, u \ u, Taken(x, u, m), PutOne(w, m, c1), p, f)
      <4>1. r = PutBundle(SpendBy(s, u, m), m, c1)
        BY <1>6, <2>3 DEF connect_withdrawal_bundle_confirmed, b1
      <4>2. SpendBy(s, u, m) = With(s, u \ u, Taken(x, u, m), w, p, f)
        BY <1>1, SpendByIs
      <4> QED
        BY <4>1, <4>2, PutBundleIs
    <3>4. BundleHolds(c1) /\ GoodEntry(m, c1) /\ ~BundleHolds(b)
      BY <1>3, <1>6, <2>3, <3>2 DEF BundleHolds, GoodEntry, BundleOK
    <3>5. PendingOK(p, PutOne(w, m, c1))
      BY <1>1, <2>2, KeepPending
    <3> HIDE DEF c1, r
    <3>6. t = u \ c1.spend_utxos /\ t = u \ u /\ c1.spend_utxos \subseteq u
      BY <3>2
    <3> HIDE DEF t
    <3> QED
      BY <1>1, <3>2, <3>3, <3>4, <3>5, <3>6, Take DEF r
  <2>4. CASE b.info = "Known"
    <3>1. GoodEntry(m, c) /\ c.info = "Known" /\ c.spend_utxos = b.spend_utxos
          /\ latest(c.status).value = "Confirmed"
      BY <1>2, <1>4, <2>1, <2>4, PushGood
    <3>2. BundleHolds(c)
      BY <3>1 DEF BundleHolds
    <3>3. PendingOK(p, PutOne(w, m, c))
      BY <1>1, <2>2, KeepPending
    <3>4. CASE LatestStatus(s, m) = "SubmittedUnexpected"
      <4> DEFINE O == c.spend_utxos
                 t == u \ O
      <4>1. r = With(s, t, Taken(x, O, m), PutOne(w, m, c), p, f)
        <5>1. r = PutBundle(SpendBy(s, O, m), m, c)
          BY <1>6, <2>4, <3>1, <3>4 DEF connect_withdrawal_bundle_confirmed
        <5>2. SpendBy(s, O, m) = With(s, t, Taken(x, O, m), w, p, f)
          BY <1>1, SpendByIs
        <5> QED
          BY <5>1, <5>2, PutBundleIs
      <4>2. O \subseteq u
        BY <2>1, <2>4, <3>1, <3>4 DEF confirmed_refused
      <4>3. ~BundleHolds(b)
        BY <1>3, <2>4, <3>4 DEF BundleHolds
      <4> HIDE DEF c, r
      <4> QED
        BY <1>1, <3>1, <3>2, <3>3, <4>1, <4>2, <4>3, Take DEF r
    <3>5. CASE LatestStatus(s, m) = "Submitted"
      <4>1. r = With(s, u, x, PutOne(w, m, c), p, f)
        <5>1. r = PutBundle(s, m, c)
          BY <1>6, <2>4, <3>5 DEF connect_withdrawal_bundle_confirmed
        <5> QED
          BY <5>1, <1>1, PutBundleIs
      <4>2. BundleHolds(b)
        BY <1>3, <2>4, <3>5 DEF BundleHolds
      <4> HIDE DEF c, r
      <4> QED
        BY <1>3, <3>1, <3>2, <3>3, <4>1, <4>2, Change DEF r
    <3> QED
      BY <2>1, <3>4, <3>5 DEF IsSubmitted
  <2> QED
    BY <1>3, <2>2, <2>3, <2>4 DEF Bundle
<1> QED
  BY <1>5, <1>6

LEMMA ConnectFailed ==
    ASSUME NEW s, DbInv(s), s.height \in Nat, NEW m,
           ~failed_panics(s, m), ~failed_refused(s, m)
    PROVE  Keeps(s, connect_withdrawal_bundle_failed(s, m))
<1> DEFINE r == connect_withdrawal_bundle_failed(s, m)
           u == s.utxos
           x == s.stxos
           w == s.withdrawal_bundles
           p == s.pending
           f == s.latest_failed
           b == w[m]
           c == PushStatus(b, "Failed", s.height)
<1>1. s = With(s, u, x, w, p, f) /\ f \in Seq(HeightStamped(M6id)) /\ PendingOK(p, w)
  BY StateFields
<1>2. HasBundle(s, m)
  BY DEF failed_refused
<1>3. /\ m \in DOMAIN w /\ m \in M6id /\ b \in Bundle /\ BundleOK(m, b)
      /\ LatestStatus(s, m) = latest(b.status).value
      /\ LatestStatus(s, m) # "Pending" => m \notin p
  BY <1>2, EntryFacts
<1>4. CASE LatestStatus(s, m) = "Failed"
  <2>1. r = s
    BY <1>4 DEF connect_withdrawal_bundle_failed
  <2> QED
    BY <2>1, Unchanged
<1>5. CASE LatestStatus(s, m) # "Failed"
  <2>1. IsSubmitted(LatestStatus(s, m))
    BY <1>2, <1>5 DEF failed_panics
  <2>2. b.info # "UnknownConfirmed" /\ m \notin p
    BY <1>3, <2>1 DEF BundleOK, IsSubmitted
  <2>3. GoodEntry(m, c) /\ c.info = b.info /\ c.spend_utxos = b.spend_utxos
        /\ latest(c.status).value = "Failed"
    <3>1. "Failed" \in BundleStatus
      BY DEF BundleStatus
    <3> QED
      BY <1>2, <2>1, <2>2, <3>1, PushGood
  <2>4. ~BundleHolds(c)
    BY <2>3 DEF BundleHolds
  <2>5. PendingOK(p, PutOne(w, m, c))
    BY <1>1, <2>2, KeepPending
  <2>6. CASE b.info = "Known" /\ LatestStatus(s, m) = "Submitted"
    <3> DEFINE O == b.spend_utxos
               g == push(f, m, s.height)
    <3>1. r = With(s, Joined(u, O), DeleteAll(x, O), PutOne(w, m, c), p, g)
      <4> DEFINE a == Unspend(s, O)
      <4>1. a = With(s, Joined(u, O), DeleteAll(x, O), w, p, f)
        BY <1>1, UnspendIs
      <4>2. a.latest_failed = f
        BY <4>1, Fields
      <4>3. r = PutBundle(SetLatestFailed(a, g), m, c)
        BY <1>5, <2>6, <4>2 DEF connect_withdrawal_bundle_failed, SetLatestFailed
      <4>4. SetLatestFailed(a, g) = With(s, Joined(u, O), DeleteAll(x, O), w, p, g)
        BY <4>1, SetLatestFailedIs
      <4> QED
        BY <4>3, <4>4, PutBundleIs
    <3>2. BundleHolds(b)
      BY <1>3, <2>6 DEF BundleHolds
    <3>3. g \in Seq(HeightStamped(M6id))
      BY <1>1, <1>3, PushFacts DEF RollBack
    <3> HIDE DEF c, r, g
    <3> QED
      BY <1>3, <2>3, <2>4, <2>5, <3>1, <3>2, <3>3, GiveBack DEF r
  <2>7. CASE ~(b.info = "Known" /\ LatestStatus(s, m) = "Submitted")
    <3>1. r = With(s, u, x, PutOne(w, m, c), p, f)
      <4>1. r = PutBundle(s, m, c)
        BY <1>5, <2>7 DEF connect_withdrawal_bundle_failed
      <4> QED
        BY <4>1, <1>1, PutBundleIs
    <3>2. ~BundleHolds(b)
      BY <1>3, <2>1, <2>7 DEF BundleHolds, IsSubmitted
    <3> HIDE DEF c, r
    <3> QED
      BY <2>3, <2>4, <2>5, <3>1, <3>2, Change DEF r
  <2> QED
    BY <2>6, <2>7
<1> QED
  BY <1>4, <1>5

-----------------------------------------------------------------------------
(***************************************************************************)
(* disconnect(): each handler keeps the invariant.                         *)
(***************************************************************************)
LEMMA UndoSubmitted ==
    ASSUME NEW s, DbInv(s), NEW m,
           ~undo_submitted_panics(s, m), ~undo_submitted_refused(s, m)
    PROVE  Keeps(s, disconnect_withdrawal_bundle_submitted(s, m))
<1> DEFINE r == disconnect_withdrawal_bundle_submitted(s, m)
           u == s.utxos
           x == s.stxos
           w == s.withdrawal_bundles
           p == s.pending
           f == s.latest_failed
           b == w[m]
           c == PopStatus(b)
<1>1. s = With(s, u, x, w, p, f) /\ f \in Seq(HeightStamped(M6id)) /\ PendingOK(p, w)
  BY StateFields
<1>2. CASE ~HasBundle(s, m)
  <2>1. r = s
    BY <1>2 DEF disconnect_withdrawal_bundle_submitted
  <2> QED
    BY <2>1, Unchanged
<1>3. CASE HasBundle(s, m)
  <2>1. IsSubmitted(LatestStatus(s, m))
    BY <1>3 DEF undo_submitted_panics
  <2>2. /\ m \in DOMAIN w /\ m \in M6id /\ b \in Bundle /\ BundleOK(m, b)
        /\ LatestStatus(s, m) = latest(b.status).value /\ m \notin p
    BY <1>3, <2>1, EntryFacts DEF IsSubmitted
  <2>3. b.info # "UnknownConfirmed"
    BY <2>1, <2>2 DEF BundleOK, IsSubmitted
  <2>4. CASE WasPending(s, m)
    <3> DEFINE O == m.spend_utxos
    <3>1. b.info = "Known" /\ HasUnder(s, m) /\ UnderStatus(s, m) = "Pending"
      BY <2>4 DEF WasPending
    <3>2. LatestStatus(s, m) = "Submitted"
      BY <1>3, <2>1, <3>1, UnderFacts DEF IsSubmitted
    <3>3. BundleHolds(b) /\ b.spend_utxos = O
      BY <2>2, <3>1, <3>2 DEF BundleHolds, BundleOK
    <3>4. GoodEntry(m, c) /\ c.info = "Known" /\ latest(c.status).value = "Pending"
      BY <1>3, <2>3, <3>1, PopGood
    <3>5. ~BundleHolds(c)
      BY <3>4 DEF BundleHolds
    <3>6. r = With(s, Joined(u, O), DeleteAll(x, O), PutOne(w, m, c), {m}, f)
      <4>1. r = PutBundle(SetPending(Unspend(s, O), {m}), m, c)
        BY <1>3, <2>4, <3>1 DEF disconnect_withdrawal_bundle_submitted, SetPending
      <4>2. Unspend(s, O) = With(s, Joined(u, O), DeleteAll(x, O), w, p, f)
        BY <1>1, UnspendIs
      <4>3. SetPending(Unspend(s, O), {m})
              = With(s, Joined(u, O), DeleteAll(x, O), w, {m}, f)
        BY <4>2, SetPendingIs
      <4> QED
        BY <4>1, <4>3, PutBundleIs
    <3>7. PendingOK({m}, PutOne(w, m, c))
      BY <3>4 DEF PendingOK, PutOne
    <3> HIDE DEF c, r, O
    <3> QED
      BY <1>1, <2>2, <3>3, <3>4, <3>5, <3>6, <3>7, GiveBack DEF r
  <2>5. CASE ~WasPending(s, m)
    <3>1. ~BundleHolds(b)
      <4>1. b.info = "Known" => LatestStatus(s, m) = "SubmittedUnexpected"
        BY <1>3, <2>1, <2>5, UnderFacts DEF WasPending, IsSubmitted
      <4> QED
        BY <2>1, <2>2, <4>1 DEF BundleHolds, IsSubmitted
    <3>2. CASE HasUnder(s, m)
      <4>1. GoodEntry(m, c) /\ c.info = b.info /\ latest(c.status).value = UnderStatus(s, m)
        BY <1>3, <2>3, <3>2, PopGood
      <4>2. ~BundleHolds(c)
        <5>1. b.info = "Known" => UnderStatus(s, m) = "Failed"
          BY <1>3, <2>1, <2>5, UnderFacts DEF WasPending, IsSubmitted
        <5> QED
          BY <2>2, <2>3, <4>1, <5>1 DEF BundleHolds, Bundle
      <4>3. r = With(s, u, x, PutOne(w, m, c), p, f)
        <5>1. r = PutBundle(s, m, c)
          BY <1>3, <2>5, <3>2 DEF disconnect_withdrawal_bundle_submitted
        <5> QED
          BY <5>1, <1>1, PutBundleIs
      <4>4. PendingOK(p, PutOne(w, m, c))
        BY <1>1, <2>2, KeepPending
      <4> HIDE DEF c, r
      <4> QED
        BY <3>1, <4>1, <4>2, <4>3, <4>4, Change DEF r
    <3>3. CASE ~HasUnder(s, m)
      <4>1. r = With(s, u, x, DeleteAll(w, {m}), p, f)
        <5>1. r = SetBundles(s, DeleteAll(w, {m}))
          BY <1>3, <2>5, <3>3 DEF disconnect_withdrawal_bundle_submitted, SetBundles
        <5> QED
          BY <5>1, <1>1, SetBundlesIs
      <4>2. PendingOK(p, DeleteAll(w, {m}))
        BY <1>1, <2>2, KeepPending
      <4> HIDE DEF r
      <4> QED
        BY <3>1, <4>1, <4>2, Remove DEF r
    <3> QED
      BY <3>2, <3>3
  <2> QED
    BY <2>4, <2>5
<1> QED
  BY <1>2, <1>3

LEMMA UndoConfirmed ==
    ASSUME NEW s, DbInv(s), NEW m,
           ~undo_confirmed_panics(s, m), ~undo_confirmed_refused(s, m)
    PROVE  Keeps(s, disconnect_withdrawal_bundle_confirmed(s, m))
<1> DEFINE r == disconnect_withdrawal_bundle_confirmed(s, m)
           u == s.utxos
           x == s.stxos
           w == s.withdrawal_bundles
           p == s.pending
           f == s.latest_failed
           b == w[m]
           O == ConfirmationSpent(s, m)
<1>1. s = With(s, u, x, w, p, f) /\ f \in Seq(HeightStamped(M6id)) /\ PendingOK(p, w)
  BY StateFields
<1>2. HasBundle(s, m)
  BY DEF undo_confirmed_refused
<1>3. CASE IsSubmitted(LatestStatus(s, m))
  <2>1. r = s
    BY <1>3 DEF disconnect_withdrawal_bundle_confirmed
  <2> QED
    BY <2>1, Unchanged
<1>4. CASE ~IsSubmitted(LatestStatus(s, m))
  <2>1. LatestStatus(s, m) = "Confirmed" /\ HasUnder(s, m) /\ IsSubmitted(UnderStatus(s, m))
    BY <1>2, <1>4 DEF undo_confirmed_panics
  <2>2. /\ m \in DOMAIN w /\ m \in M6id /\ b \in Bundle /\ BundleOK(m, b)
        /\ LatestStatus(s, m) = latest(b.status).value /\ m \notin p
    BY <1>2, <2>1, EntryFacts
  <2>3. ASSUME NEW c, r = PutBundle(Unspend(s, O), m, c)
        PROVE  r = With(s, Joined(u, O), DeleteAll(x, O), PutOne(w, m, c), p, f)
    <3>1. Unspend(s, O) = With(s, Joined(u, O), DeleteAll(x, O), w, p, f)
      BY <1>1, UnspendIs
    <3> HIDE DEF r, O
    <3> QED
      BY <2>3, <3>1, PutBundleIs
  <2>4. CASE b.info = "UnknownConfirmed"
    <3> DEFINE b1 == [b EXCEPT !.info = "Unknown", !.spend_utxos = {}]
               c == PopStatus(b1)
    <3>1. b1 \in Bundle /\ b1.info = "Unknown" /\ b1.status = b.status
      BY <2>2 DEF Bundle
    <3>2. popped(b1.status) # <<>>
      BY <2>1, <3>1 DEF HasUnder, Under, StatusOf
    <3>3. r = PutBundle(Unspend(s, O), m, c)
      BY <1>4, <2>4 DEF disconnect_withdrawal_bundle_confirmed
    <3> HIDE DEF b1
    <3>4. c \in Bundle /\ c.info = "Unknown"
      BY <3>1, <3>2, PopEntry
    <3>5. GoodEntry(m, c) /\ ~BundleHolds(c)
      BY <2>2, <2>4, <3>4 DEF GoodEntry, BundleOK, BundleHolds
    <3>6. BundleHolds(b) /\ O = b.spend_utxos
      BY <2>1, <2>2, <2>4 DEF BundleHolds, ConfirmationSpent
    <3>7. PendingOK(p, PutOne(w, m, c))
      BY <1>1, <2>2, KeepPending
    <3>8. r = With(s, Joined(u, O), DeleteAll(x, O), PutOne(w, m, c), p, f)
      BY <2>3, <3>3
    <3> HIDE DEF c, r, O
    <3> QED
      BY <1>1, <2>2, <3>5, <3>6, <3>7, <3>8, GiveBack DEF r
  <2>5. CASE b.info # "UnknownConfirmed"
    <3> DEFINE c == PopStatus(b)
    <3>1. GoodEntry(m, c) /\ c.info = b.info /\ c.spend_utxos = b.spend_utxos
          /\ latest(c.status).value = UnderStatus(s, m)
      BY <1>2, <2>1, <2>5, PopGood
    <3>2. PendingOK(p, PutOne(w, m, c))
      BY <1>1, <2>2, KeepPending
    <3>3. r = With(s, Joined(u, O), DeleteAll(x, O), PutOne(w, m, c), p, f)
      <4>1. r = PutBundle(Unspend(s, O), m, c)
        BY <1>4, <2>5 DEF disconnect_withdrawal_bundle_confirmed
      <4> QED
        BY <2>3, <4>1
    <3>4. CASE b.info = "Known" /\ UnderStatus(s, m) = "SubmittedUnexpected"
      <4>1. O = b.spend_utxos /\ BundleHolds(b) /\ ~BundleHolds(c)
        BY <2>1, <2>2, <3>1, <3>4 DEF ConfirmationSpent, BundleHolds
      <4> HIDE DEF c, r, O
      <4> QED
        BY <1>1, <2>2, <3>1, <3>2, <3>3, <4>1, GiveBack DEF r
    <3>5. CASE ~(b.info = "Known" /\ UnderStatus(s, m) = "SubmittedUnexpected")
      <4>1. O = {} /\ (BundleHolds(b) <=> BundleHolds(c))
        BY <2>1, <2>2, <2>5, <3>1, <3>5
           DEF ConfirmationSpent, BundleHolds, IsSubmitted, Bundle
      <4> DEFINE t == Joined(u, O)
                 y == DeleteAll(x, O)
                 v == PutOne(w, m, c)
      <4>2. t = u /\ DOMAIN y = DOMAIN x /\ \A o \in DOMAIN x : y[o] = x[o]
        BY <4>1 DEF Joined, DeleteAll
      <4>3. Keeps(s, With(s, u, x, v, p, f))
        <5> HIDE DEF c
        <5> QED
          BY <2>2, <3>1, <3>2, <4>1, Change
      <4> HIDE DEF t, y, v, c
      <4>4. /\ u \subseteq OutPoint /\ IsStxos(x) /\ IsBundles(v) /\ BundlesOK(v)
            /\ PendingOK(p, v) /\ Owned(x, v) /\ Disjoint(u, x) /\ SpentDeposits(u, x)
        BY <4>3 DEF Keeps, DbInv, DbOK, With, IsStxos, IsBundles
      <4>5. /\ IsStxos(y) /\ Owned(y, v) /\ Disjoint(t, y) /\ SpentDeposits(t, y)
            /\ AllOutputs(t, y) = AllOutputs(u, x)
        BY <4>2, <4>4 DEF IsStxos, PartialFunction, Owned, Disjoint, SpentDeposits,
                          AllOutputs
      <4>6. Keeps(s, With(s, t, y, v, p, f))
        BY <1>1, <4>2, <4>4, <4>5, WithKeeps
      <4> QED
        BY <3>3, <4>6 DEF t, y, v, c
    <3> QED
      BY <3>4, <3>5
  <2> QED
    BY <2>4, <2>5
<1> QED
  BY <1>3, <1>4

LEMMA UndoFailed ==
    ASSUME NEW s, DbInv(s), NEW m,
           ~undo_failed_panics(s, m), ~undo_failed_refused(s, m)
    PROVE  Keeps(s, disconnect_withdrawal_bundle_failed(s, m))
<1> DEFINE r == disconnect_withdrawal_bundle_failed(s, m)
           u == s.utxos
           x == s.stxos
           w == s.withdrawal_bundles
           p == s.pending
           f == s.latest_failed
           b == w[m]
           c == PopStatus(b)
<1>1. s = With(s, u, x, w, p, f) /\ f \in Seq(HeightStamped(M6id)) /\ PendingOK(p, w)
  BY StateFields
<1>2. HasBundle(s, m)
  BY DEF undo_failed_refused
<1>3. CASE LatestStatus(s, m) = "Submitted"
  <2>1. r = s
    BY <1>3 DEF disconnect_withdrawal_bundle_failed
  <2> QED
    BY <2>1, Unchanged
<1>4. CASE LatestStatus(s, m) # "Submitted"
  <2>1. LatestStatus(s, m) = "Failed" /\ HasUnder(s, m) /\ IsSubmitted(UnderStatus(s, m))
        /\ (FailureUnspent(s, m) => f # <<>>)
    BY <1>2, <1>4 DEF undo_failed_panics
  <2>2. /\ m \in DOMAIN w /\ m \in M6id /\ b \in Bundle /\ BundleOK(m, b)
        /\ LatestStatus(s, m) = latest(b.status).value /\ m \notin p
    BY <1>2, <2>1, EntryFacts
  <2>3. b.info # "UnknownConfirmed" /\ ~BundleHolds(b)
    BY <2>1, <2>2 DEF BundleOK, BundleHolds
  <2>4. GoodEntry(m, c) /\ c.info = b.info /\ c.spend_utxos = b.spend_utxos
        /\ latest(c.status).value = UnderStatus(s, m)
    BY <1>2, <2>1, <2>3, PopGood
  <2>5. PendingOK(p, PutOne(w, m, c))
    BY <1>1, <2>2, KeepPending
  <2>6. CASE FailureUnspent(s, m)
    <3> DEFINE O == c.spend_utxos
               t == u \ O
               g == popped(f)
    <3>1. b.info = "Known" /\ UnderStatus(s, m) = "Submitted"
      BY <2>1, <2>6 DEF FailureUnspent, IsSubmitted
    <3>2. BundleHolds(c)
      BY <2>4, <3>1 DEF BundleHolds
    <3>3. O \subseteq u
      BY <1>4, <2>2, <2>4, <2>6, <3>1 DEF undo_failed_refused, BundleOK
    <3>4. g \in Seq(HeightStamped(M6id))
      BY <1>1, <2>1, <2>6, PoppedSeq
    <3>5. r = With(s, t, Taken(x, O, m), PutOne(w, m, c), p, g)
      <4> DEFINE a == SpendBy(s, O, m)
      <4>1. a = With(s, t, Taken(x, O, m), w, p, f)
        BY <1>1, SpendByIs
      <4>2. a.latest_failed = f
        BY <4>1, Fields
      <4>3. r = PutBundle(SetLatestFailed(a, g), m, c)
        BY <1>4, <2>4, <2>6, <4>2 DEF disconnect_withdrawal_bundle_failed, SetLatestFailed
      <4>4. SetLatestFailed(a, g) = With(s, t, Taken(x, O, m), w, p, g)
        BY <4>1, SetLatestFailedIs
      <4> QED
        BY <4>3, <4>4, PutBundleIs
    <3> HIDE DEF c, r, g
    <3> QED
      BY <2>3, <2>4, <2>5, <3>2, <3>3, <3>4, <3>5, Take DEF r
  <2>7. CASE ~FailureUnspent(s, m)
    <3>1. r = With(s, u, x, PutOne(w, m, c), p, f)
      <4>1. r = PutBundle(s, m, c)
        BY <1>4, <2>7 DEF disconnect_withdrawal_bundle_failed
      <4> QED
        BY <4>1, <1>1, PutBundleIs
    <3>2. ~BundleHolds(c)
      BY <2>1, <2>2, <2>3, <2>4, <2>7 DEF FailureUnspent, BundleHolds, IsSubmitted, Bundle
    <3> HIDE DEF c, r
    <3> QED
      BY <2>3, <2>4, <2>5, <3>1, <3>2, Change DEF r
  <2> QED
    BY <2>6, <2>7
<1> QED
  BY <1>3, <1>4

-----------------------------------------------------------------------------
(***************************************************************************)
(* The end of connect() and of disconnect().                               *)
(***************************************************************************)

LEMMA TimelyMeans ==
    ASSUME NEW s, Timely(s), Collects(s), NEW m, m = collect_withdrawal_bundle(s),
           HasBundle(s, m)
    PROVE  s.withdrawal_bundles[m].info = "Known"
  BY DEF Timely, ReportedBefore, HasBundle

\* Timely reads five of the databases.
LEMMA TimelySame ==
    ASSUME NEW s, Timely(s), NEW a, a.height = s.height, a.utxos = s.utxos,
           a.withdrawal_bundles = s.withdrawal_bundles, a.pending = s.pending,
           a.latest_failed = s.latest_failed
    PROVE  Timely(a)
<1>1. Collects(a) = Collects(s) /\ collect_withdrawal_bundle(a) = collect_withdrawal_bundle(s)
  BY DEF Collects, GapElapsed, LatestFailureHeight, StatusOf, collect_withdrawal_bundle
<1> QED
  BY <1>1 DEF Timely, ReportedBefore

\* A bundle is collected from unspent outputs, so the m6id holds nothing yet.
LEMMA StorePending ==
    ASSUME NEW s, DbInv(s), s.height \in Nat, Timely(s)
    PROVE  Keeps(s, store_pending(s))
<1> DEFINE r == store_pending(s)
           u == s.utxos
           x == s.stxos
           w == s.withdrawal_bundles
           p == s.pending
           f == s.latest_failed
           m == collect_withdrawal_bundle(s)
           history == IF HasBundle(s, m) THEN push(StatusOf(s, m), "Pending", s.height)
                      ELSE new("Pending", s.height)
           c == [info |-> "Known", spend_utxos |-> m.spend_utxos, status |-> history]
<1>1. s = With(s, u, x, w, p, f) /\ Owned(x, w) /\ Disjoint(u, x)
  BY StateFields
<1>2. CASE ~Collects(s)
  <2>1. r = s
    BY <1>2 DEF store_pending
  <2> QED
    BY <2>1, Unchanged
<1>3. CASE Collects(s)
  <2>1. m \in M6id /\ m.spend_utxos \subseteq u /\ m.spend_utxos # {}
        /\ m.spend_utxos \subseteq OutPoint
    <3>1. u \subseteq OutPoint
      BY StateFields
    <3> QED
      BY <1>3, <3>1 DEF collect_withdrawal_bundle, Collects, M6id
  <2>0. HasBundle(s, m) => w[m].info = "Known"
    BY <1>3, TimelyMeans
  <2>2. "Pending" \in BundleStatus
    BY DEF BundleStatus
  <2>3. r = With(s, u, x, PutOne(w, m, c), {m}, f)
    <3>1. r = SetPending(PutBundle(s, m, c), {m})
      BY <1>3 DEF store_pending, SetPending
    <3>2. PutBundle(s, m, c) = With(s, u, x, PutOne(w, m, c), p, f)
      BY <1>1, PutBundleIs
    <3> QED
      BY <3>1, <3>2, SetPendingIs
  <2> HIDE DEF m
  <2>4. HasBundle(s, m) => /\ w[m].info = "Known" /\ ~BundleHolds(w[m])
                           /\ GoodEntry(m, PushStatus(w[m], "Pending", s.height))
    <3> HAVE HasBundle(s, m)
    <3>1. m \in DOMAIN w /\ w[m] \in Bundle /\ BundleOK(m, w[m])
          /\ LatestStatus(s, m) = latest(w[m].status).value
      BY EntryFacts
    <3>2. w[m].info = "Known" /\ w[m].spend_utxos = m.spend_utxos
      BY <2>0, <3>1 DEF BundleOK, Bundle
    <3>3. ~BundleHolds(w[m])
      BY <1>1, <2>1, <3>1, <3>2 DEF Owned, Disjoint
    <3>4. LatestStatus(s, m) \notin {"Submitted", "Confirmed"}
      BY <3>1, <3>2, <3>3 DEF BundleHolds
    <3>5. GoodEntry(m, PushStatus(w[m], "Pending", s.height))
      BY <2>2, <3>2, <3>4, PushGood
    <3> QED
      BY <3>2, <3>3, <3>5
  <2>5. GoodEntry(m, c) /\ latest(c.status).value = "Pending"
    <3>1. CASE HasBundle(s, m)
      <4> DEFINE d == PushStatus(w[m], "Pending", s.height)
      <4>1. w[m] \in Bundle /\ BundleOK(m, w[m])
        BY <3>1, EntryFacts
      <4>2. d \in Bundle /\ d.info = "Known" /\ d.spend_utxos = w[m].spend_utxos
            /\ d.status = push(w[m].status, "Pending", s.height)
            /\ latest(d.status).value = "Pending"
        BY <2>2, <2>4, <3>1, <4>1, PushEntry
      <4>3. history = d.status /\ BundleOK(m, d)
        BY <2>4, <3>1, <4>2 DEF StatusOf, GoodEntry
      <4> HIDE DEF d, history
      <4>4. c \in Bundle /\ c.info = "Known" /\ c.spend_utxos = m.spend_utxos
            /\ c.status = d.status
        BY <2>1, <4>2, <4>3 DEF Bundle
      <4> HIDE DEF c
      <4> QED
        BY <2>1, <4>2, <4>3, <4>4 DEF GoodEntry, BundleOK
    <3>2. CASE ~HasBundle(s, m)
      <4>1. /\ history \in RollBack(BundleStatus) /\ Len(history) = 1
            /\ latest(history) = [value |-> "Pending", height |-> s.height]
        BY <2>2, <3>2, NewFacts
      <4> HIDE DEF history
      <4>2. KnownHistory(history)
        <5>1. DOMAIN history = {1} /\ history[1].value = "Pending"
          BY <4>1 DEF RollBack, latest
        <5> QED
          BY <5>1 DEF KnownHistory
      <4>3. c \in Bundle
        BY <2>1, <4>1 DEF Bundle
      <4> QED
        BY <2>1, <4>1, <4>2, <4>3 DEF GoodEntry, BundleOK
    <3> QED
      BY <3>1, <3>2
  <2>6. c.info = "Known" /\ ~BundleHolds(c)
    BY <2>5 DEF BundleHolds
  <2> HIDE DEF c, r
  <2>7. PendingOK({m}, PutOne(w, m, c))
    BY <2>5, <2>6 DEF PendingOK, PutOne
  <2>8. m \in DOMAIN w => ~BundleHolds(w[m])
    BY <2>4 DEF HasBundle
  <2> QED
    BY <2>3, <2>5, <2>6, <2>7, <2>8, Change DEF r
<1> QED
  BY <1>2, <1>3

\* The databases with other index entries and event blocks.
Recorded(s, i, d, e) ==
    [height |-> s.height, utxos |-> s.utxos, stxos |-> s.stxos,
     withdrawal_bundles |-> s.withdrawal_bundles, pending |-> s.pending,
     latest_failed |-> s.latest_failed, deposit_blocks |-> d,
     event_blocks |-> e, block_index_events |-> i]

LEMMA RecordedKeeps ==
    ASSUME NEW s, DbInv(s), NEW i, PartialFunction(i, Nat, BlockIndexEvents),
           NEW d \in Seq(EventBlock), NEW e \in Seq(EventBlock)
    PROVE  Keeps(s, Recorded(s, i, d, e))
<1> DEFINE r == Recorded(s, i, d, e)
<1>1. /\ r.height = s.height /\ r.utxos = s.utxos /\ r.stxos = s.stxos
      /\ r.withdrawal_bundles = s.withdrawal_bundles /\ r.pending = s.pending
      /\ r.latest_failed = s.latest_failed /\ r.deposit_blocks = d
      /\ r.event_blocks = e /\ r.block_index_events = i
  BY DEF Recorded
<1>2. IsDb(r)
  BY DEF IsDb, Recorded
<1> HIDE DEF r
<1>3. DbOK(r)
  BY <1>1, <1>2 DEF DbOK, DbInv
<1>4. Keeps(s, r)
  BY <1>1, <1>3 DEF Keeps, DbInv
<1> QED
  BY <1>4 DEF r

\* EXCEPT by name, one field at a time.
LEMMA RecordIndex ==
    ASSUME NEW s, NEW i, NEW d, NEW e, NEW j, NEW a, a = Recorded(s, i, d, e)
    PROVE  [a EXCEPT !.block_index_events = j] = Recorded(s, j, d, e)
  BY DEF Recorded

LEMMA RecordDeposit ==
    ASSUME NEW s, NEW i, NEW d, NEW e, NEW j, NEW a, a = Recorded(s, i, d, e)
    PROVE  [a EXCEPT !.deposit_blocks = j] = Recorded(s, i, j, e)
  BY DEF Recorded

LEMMA RecordEvent ==
    ASSUME NEW s, NEW i, NEW d, NEW e, NEW j, NEW a, a = Recorded(s, i, d, e)
    PROVE  [a EXCEPT !.event_blocks = j] = Recorded(s, i, d, j)
  BY DEF Recorded

LEMMA RecordFields ==
    ASSUME NEW s, DbInv(s)
    PROVE  /\ s = Recorded(s, s.block_index_events, s.deposit_blocks, s.event_blocks)
           /\ PartialFunction(s.block_index_events, Nat, BlockIndexEvents)
           /\ s.deposit_blocks \in Seq(EventBlock) /\ s.event_blocks \in Seq(EventBlock)
  BY DEF DbInv, DbOK, IsDb, Recorded

LEMMA KeepsTransitive ==
    ASSUME NEW s, NEW a, NEW r, Keeps(s, a), Keeps(a, r)
    PROVE  Keeps(s, r)
  BY DEF Keeps

LEMMA ConnectEndKeeps ==
    ASSUME NEW s, DbInv(s), s.height \in Nat, Timely(s),
           NEW deposit_block \in Nat, NEW event_block \in Nat,
           NEW index_events \in BlockIndexEvents
    PROVE  Keeps(s, connect_end(s, deposit_block, event_block, index_events))
<1> DEFINE i == IF index_events = NoIndexEvents THEN s.block_index_events
                ELSE PutOne(s.block_index_events, s.height, index_events)
           d == IF deposit_block = 0 THEN s.deposit_blocks
                ELSE Append(s.deposit_blocks, [hash |-> deposit_block, height |-> s.height])
           e == IF event_block = 0 THEN s.event_blocks
                ELSE Append(s.event_blocks, [hash |-> event_block, height |-> s.height])
           a == [s EXCEPT !.block_index_events = i, !.deposit_blocks = d, !.event_blocks = e]
<1>1. connect_end(s, deposit_block, event_block, index_events) = store_pending(a)
  BY DEF connect_end
<1>2. PartialFunction(i, Nat, BlockIndexEvents)
  BY RecordFields DEF PartialFunction, PutOne
<1>3. [hash |-> deposit_block, height |-> s.height] \in EventBlock
      /\ [hash |-> event_block, height |-> s.height] \in EventBlock
  BY DEF EventBlock
<1>4. d \in Seq(EventBlock) /\ e \in Seq(EventBlock)
  BY <1>3, RecordFields
<1> HIDE DEF i, d, e
<1>5. a = Recorded(s, i, d, e)
  <2> DEFINE a1 == [s EXCEPT !.block_index_events = i]
             a2 == [a1 EXCEPT !.deposit_blocks = d]
  <2>1. a1 = Recorded(s, i, s.deposit_blocks, s.event_blocks)
    BY RecordFields, RecordIndex
  <2> HIDE DEF a1
  <2>2. a2 = Recorded(s, i, d, s.event_blocks)
    BY <2>1, RecordDeposit
  <2> HIDE DEF a2
  <2>3. [a2 EXCEPT !.event_blocks = e] = Recorded(s, i, d, e)
    BY <2>2, RecordEvent
  <2>4. a = [a2 EXCEPT !.event_blocks = e]
    BY DEF a1, a2
  <2> QED
    BY <2>3, <2>4
<1> HIDE DEF a
<1>6. Keeps(s, a)
  BY <1>2, <1>4, <1>5, RecordedKeeps
<1>7. DbInv(a) /\ a.height \in Nat
  BY <1>6 DEF Keeps
<1>8. Timely(a)
  BY <1>5, TimelySame DEF Recorded
<1>9. Keeps(a, store_pending(a))
  BY <1>7, <1>8, StorePending
<1> QED
  BY <1>1, <1>6, <1>9, KeepsTransitive

\* The pending bundle holds nothing, and what lies under its status holds
\* nothing either.
LEMMA DropPending ==
    ASSUME NEW s, DbInv(s)
    PROVE  Keeps(s, drop_pending(s))
<1> DEFINE r == drop_pending(s)
           u == s.utxos
           x == s.stxos
           w == s.withdrawal_bundles
           p == s.pending
           f == s.latest_failed
           m == CHOOSE m \in s.pending : TRUE
           a == SetPending(s, {})
<1>1. s = With(s, u, x, w, p, f) /\ PendingOK(p, w)
  BY StateFields
<1>2. CASE ~(GapElapsed(s) /\ s.pending # {}) \/ ~LatestIsOfTip(s, m)
  <2>1. r = s
    BY <1>2 DEF drop_pending
  <2> QED
    BY <2>1, Unchanged
<1>3. CASE GapElapsed(s) /\ s.pending # {} /\ LatestIsOfTip(s, m)
  <2>1. m \in p
    BY <1>3
  <2>2. a = With(s, u, x, w, {}, f)
    BY <1>1, SetPendingIs
  <2>3. /\ HasUnder(s, m) => r = PutBundle(a, m, PopStatus(w[m]))
        /\ ~HasUnder(s, m) => r = SetBundles(a, DeleteAll(w, {m}))
    <3>1. a.withdrawal_bundles = w
      BY <2>2, Fields
    <3> QED
      BY <1>3, <3>1 DEF drop_pending, SetPending, SetBundles
  <2> HIDE DEF m, r
  <2>4. m \in DOMAIN w /\ w[m].info = "Known" /\ HasBundle(s, m)
        /\ latest(w[m].status).value = "Pending" /\ LatestStatus(s, m) = "Pending"
    BY <1>1, <2>1 DEF PendingOK, HasBundle, LatestStatus, StatusOf
  <2>5. ~BundleHolds(w[m])
    BY <2>4 DEF BundleHolds
  <2>6. CASE HasUnder(s, m)
    <3> DEFINE c == PopStatus(w[m])
    <3>1. GoodEntry(m, c) /\ c.info = "Known" /\ latest(c.status).value = UnderStatus(s, m)
      BY <2>4, <2>6, PopGood
    <3>2. ~BundleHolds(c)
      BY <2>4, <2>6, <3>1, UnderFacts DEF BundleHolds
    <3>3. r = With(s, u, x, PutOne(w, m, c), {}, f)
      BY <2>2, <2>3, <2>6, PutBundleIs
    <3>4. PendingOK({}, PutOne(w, m, c))
      BY DEF PendingOK
    <3> HIDE DEF c
    <3> QED
      BY <2>5, <3>1, <3>2, <3>3, <3>4, Change DEF r
  <2>7. CASE ~HasUnder(s, m)
    <3>1. r = With(s, u, x, DeleteAll(w, {m}), {}, f)
      BY <2>2, <2>3, <2>7, SetBundlesIs
    <3>2. PendingOK({}, DeleteAll(w, {m}))
      BY DEF PendingOK
    <3> QED
      BY <2>5, <3>1, <3>2, Remove DEF r
  <2> QED
    BY <2>6, <2>7
<1> QED
  BY <1>2, <1>3

LEMMA DisconnectEndKeeps ==
    ASSUME NEW s, DbInv(s), NEW deposit_block \in Nat, NEW event_block \in Nat,
           ~disconnect_end_panics(s, deposit_block, event_block)
    PROVE  Keeps(s, disconnect_end(s, deposit_block, event_block))
<1> DEFINE a == drop_pending(s)
           d == IF deposit_block = 0 THEN a.deposit_blocks ELSE popped(a.deposit_blocks)
           e == IF event_block = 0 THEN a.event_blocks ELSE popped(a.event_blocks)
           r == [a EXCEPT !.deposit_blocks = d, !.event_blocks = e]
<1>1. disconnect_end(s, deposit_block, event_block) = r
  BY DEF disconnect_end
<1>2. Keeps(s, a)
  BY DropPending
<1>3. a.deposit_blocks = s.deposit_blocks /\ a.event_blocks = s.event_blocks
  BY RecordFields DEF drop_pending, PutBundle, Recorded
<1>4. /\ deposit_block # 0 => s.deposit_blocks # <<>>
      /\ event_block # 0 => s.event_blocks # <<>>
  BY DEF disconnect_end_panics, OfTip
<1> HIDE DEF a
<1>5. DbInv(a)
  BY <1>2 DEF Keeps
<1>6. d \in Seq(EventBlock) /\ e \in Seq(EventBlock)
  BY <1>3, <1>4, <1>5, RecordFields, PoppedSeq
<1> HIDE DEF d, e
<1>7. r = Recorded(a, a.block_index_events, d, e)
  <2> DEFINE a1 == [a EXCEPT !.deposit_blocks = d]
  <2>1. a1 = Recorded(a, a.block_index_events, d, a.event_blocks)
    BY <1>5, RecordFields, RecordDeposit
  <2> HIDE DEF a1
  <2>2. [a1 EXCEPT !.event_blocks = e] = Recorded(a, a.block_index_events, d, e)
    BY <2>1, RecordEvent
  <2>3. r = [a1 EXCEPT !.event_blocks = e]
    BY DEF a1
  <2> QED
    BY <2>2, <2>3
<1>8. Keeps(a, r)
  <2> HIDE DEF r
  <2> QED
    BY <1>5, <1>6, <1>7, RecordFields, RecordedKeeps
<1> QED
  BY <1>1, <1>2, <1>8, KeepsTransitive

-----------------------------------------------------------------------------
(***************************************************************************)
(* Deposits and bodies: the outputs that come and go.                      *)
(***************************************************************************)

\* The databases with other height, utxos and stxos.
Moved(s, h, u, x) ==
    [height |-> h, utxos |-> u, stxos |-> x,
     withdrawal_bundles |-> s.withdrawal_bundles, pending |-> s.pending,
     latest_failed |-> s.latest_failed, deposit_blocks |-> s.deposit_blocks,
     event_blocks |-> s.event_blocks, block_index_events |-> s.block_index_events]

IsHeight(h) == h \in Nat \cup {-1}

LEMMA MovedInv ==
    ASSUME NEW s, DbInv(s), NEW h, IsHeight(h), NEW u, u \subseteq OutPoint,
           NEW x, IsStxos(x), Owned(x, s.withdrawal_bundles), Disjoint(u, x),
           SpentDeposits(u, x)
    PROVE  /\ DbInv(Moved(s, h, u, x)) /\ Moved(s, h, u, x).height = h
           /\ Moved(s, h, u, x).utxos = u /\ Moved(s, h, u, x).stxos = x
<1> DEFINE r == Moved(s, h, u, x)
<1>1. /\ r.height = h /\ r.utxos = u /\ r.stxos = x
      /\ r.withdrawal_bundles = s.withdrawal_bundles /\ r.pending = s.pending
      /\ r.latest_failed = s.latest_failed /\ r.deposit_blocks = s.deposit_blocks
      /\ r.event_blocks = s.event_blocks /\ r.block_index_events = s.block_index_events
  BY DEF Moved
<1>2. IsDb(r)
  BY DEF IsDb, Moved
<1> HIDE DEF r
<1>3. DbInv(r)
  BY <1>1, <1>2 DEF DbInv, DbOK, IsStxos, IsHeight
<1> QED
  BY <1>1, <1>3 DEF r

LEMMA MoveUtxos ==
    ASSUME NEW s, DbInv(s), NEW v
    PROVE  [s EXCEPT !.utxos = v] = Moved(s, s.height, v, s.stxos)
  BY DEF DbInv, DbOK, IsDb, Moved

SetMoved(s, h, v, y) == [s EXCEPT !.height = h, !.utxos = v, !.stxos = y]

LEMMA MoveAll ==
    ASSUME NEW s, DbInv(s), NEW h, NEW v, NEW y
    PROVE  SetMoved(s, h, v, y) = Moved(s, h, v, y)
<1> DEFINE a == Moved(s, s.height, s.utxos, s.stxos)
           a1 == [a EXCEPT !.height = h]
           a2 == [a1 EXCEPT !.utxos = v]
<1>1. s = a
  BY DEF DbInv, DbOK, IsDb, Moved
<1>2. a1 = Moved(s, h, s.utxos, s.stxos)
  BY DEF Moved
<1> HIDE DEF a, a1
<1>3. a2 = Moved(s, h, v, s.stxos)
  BY <1>2 DEF Moved
<1> HIDE DEF a2
<1>4. [a2 EXCEPT !.stxos = y] = Moved(s, h, v, y)
  BY <1>3 DEF Moved
<1>5. [a EXCEPT !.height = h, !.utxos = v, !.stxos = y] = [a2 EXCEPT !.stxos = y]
  BY DEF a1, a2
<1> QED
  BY <1>1, <1>4, <1>5 DEF SetMoved

LEMMA OutPointFacts ==
    ASSUME NEW d \in Deposit
    PROVE  /\ deposit(d) \in OutPoint /\ withdrawal(d) \in OutPoint
           /\ deposit(d).id = d /\ withdrawal(d).id = d
           /\ \A e \in Deposit : /\ deposit(d) # withdrawal(e)
                                 /\ deposit(d) = deposit(e) => d = e
                                 /\ withdrawal(d) = withdrawal(e) => d = e
           /\ ByTransaction(d) \in InPoint /\ ByTransaction(d).tag = "Regular"
  BY DEF deposit, withdrawal, OutPoint, ByTransaction, InPoint

AddUtxo(s, o) == [s EXCEPT !.utxos = @ \cup {o}]
RemoveUtxo(s, o) == [s EXCEPT !.utxos = @ \ {o}]

LEMMA ConnectDeposit ==
    ASSUME NEW s, DbInv(s), NEW d \in Deposit, deposit(d) \notin DOMAIN s.stxos,
           NEW r, r = AddUtxo(s, deposit(d))
    PROVE  /\ DbInv(r) /\ r.height = s.height
           /\ AllOutputs(r.utxos, r.stxos) = AllOutputs(s.utxos, s.stxos) \cup {deposit(d)}
<1> DEFINE u == s.utxos
           v == u \cup {deposit(d)}
           x == s.stxos
<1>1. /\ u \subseteq OutPoint /\ IsStxos(x) /\ Owned(x, s.withdrawal_bundles)
      /\ Disjoint(u, x) /\ SpentDeposits(u, x)
  BY StateFields
<1>2. v \subseteq OutPoint /\ Disjoint(v, x) /\ SpentDeposits(v, x)
  BY <1>1, OutPointFacts DEF Disjoint, SpentDeposits
<1>3. r = Moved(s, s.height, v, x)
  BY MoveUtxos DEF AddUtxo, RemoveUtxo
<1>4. IsHeight(s.height)
  BY DEF DbInv, DbOK, IsHeight
<1> HIDE DEF u, v, x
<1>5. DbInv(r) /\ r.height = s.height /\ r.utxos = v /\ r.stxos = x
  <2> DEFINE a == Moved(s, s.height, v, x)
  <2>1. DbInv(a) /\ a.height = s.height /\ a.utxos = v /\ a.stxos = x
    BY <1>1, <1>2, <1>4, MovedInv
  <2> QED
    BY <1>3, <2>1
<1> QED
  BY <1>5 DEF AllOutputs, u, v, x

LEMMA UndoDeposit ==
    ASSUME NEW s, DbInv(s), NEW d \in Deposit, deposit(d) \in s.utxos,
           NEW r, r = RemoveUtxo(s, deposit(d))
    PROVE  /\ DbInv(r) /\ r.height = s.height
           /\ AllOutputs(r.utxos, r.stxos) = AllOutputs(s.utxos, s.stxos) \ {deposit(d)}
<1> DEFINE u == s.utxos
           v == u \ {deposit(d)}
           x == s.stxos
<1>1. /\ u \subseteq OutPoint /\ IsStxos(x) /\ Owned(x, s.withdrawal_bundles)
      /\ Disjoint(u, x) /\ SpentDeposits(u, x)
  BY StateFields
<1>2. v \subseteq OutPoint /\ Disjoint(v, x) /\ SpentDeposits(v, x)
  BY <1>1 DEF Disjoint, SpentDeposits
<1>3. r = Moved(s, s.height, v, x)
  BY MoveUtxos DEF AddUtxo, RemoveUtxo
<1>4. IsHeight(s.height)
  BY DEF DbInv, DbOK, IsHeight
<1>5. deposit(d) \notin DOMAIN x
  BY <1>1 DEF Disjoint
<1> HIDE DEF u, v, x
<1>6. DbInv(r) /\ r.height = s.height /\ r.utxos = v /\ r.stxos = x
  <2> DEFINE a == Moved(s, s.height, v, x)
  <2>1. DbInv(a) /\ a.height = s.height /\ a.utxos = v /\ a.stxos = x
    BY <1>1, <1>2, <1>4, MovedInv
  <2> QED
    BY <1>3, <2>1
<1> QED
  BY <1>5, <1>6 DEF AllOutputs, u, v, x

LEMMA ConnectBody ==
    ASSUME NEW s, DbInv(s), NEW body \in SUBSET Deposit,
           \A d \in body : deposit(d) \in s.utxos,
           NEW r, r = connect_body(s, body)
    PROVE  /\ DbInv(r) /\ r.height = s.height + 1
           /\ \A d \in Deposit :
                deposit(d) \in AllOutputs(r.utxos, r.stxos) =>
                    deposit(d) \in AllOutputs(s.utxos, s.stxos)
<1> DEFINE u == s.utxos
           x == s.stxos
           spent == {deposit(d) : d \in body}
           made == {withdrawal(d) : d \in body}
           v == (u \ spent) \cup made
           g == [o \in spent |-> ByTransaction(o.id)]
           y == PutAll(x, g)
<1>1. /\ u \subseteq OutPoint /\ IsStxos(x) /\ Owned(x, s.withdrawal_bundles)
      /\ Disjoint(u, x) /\ SpentDeposits(u, x)
  BY StateFields
<1>2. IsHeight(s.height + 1)
  BY DEF DbInv, DbOK, IsHeight
<1>3. r = Moved(s, s.height + 1, v, y)
  <2>1. r = SetMoved(s, s.height + 1, v, y)
    BY DEF connect_body, SetMoved
  <2> HIDE DEF v, y
  <2> QED
    BY <2>1, MoveAll
<1>4. spent \subseteq u /\ \A d \in Deposit : deposit(d) \in spent => d \in body
  BY OutPointFacts
<1>5. /\ \A d \in Deposit : withdrawal(d) \in made => d \in body
      /\ \A d \in Deposit : withdrawal(d) \notin spent /\ deposit(d) \notin made
      /\ made \subseteq OutPoint
  BY OutPointFacts
<1>6. /\ DOMAIN y = DOMAIN x \cup spent
      /\ \A o \in DOMAIN x : y[o] = x[o]
      /\ \A d \in body : y[deposit(d)] = ByTransaction(d)
  <2>1. DOMAIN g = spent /\ \A d \in body : g[deposit(d)] = ByTransaction(d)
    BY OutPointFacts
  <2> HIDE DEF g
  <2> QED
    BY <1>1, <1>4, <2>1 DEF PutAll, Disjoint
<1>7. \A d \in body : withdrawal(d) \notin DOMAIN x
  BY <1>1 DEF SpentDeposits, Disjoint
<1>8. v \subseteq OutPoint
  BY <1>1, <1>5
<1>9. IsStxos(y)
  <2>1. \A o \in spent : y[o] \in InPoint
    BY <1>6, OutPointFacts
  <2> QED
    BY <1>1, <1>4, <1>6, <2>1 DEF IsStxos, PartialFunction
<1>10. Disjoint(v, y)
  BY <1>1, <1>5, <1>6, <1>7, OutPointFacts DEF Disjoint
<1>11. Owned(y, s.withdrawal_bundles)
  <2>1. \A o \in spent : y[o].tag # "Withdrawal"
    BY <1>6, OutPointFacts
  <2> QED
    BY <1>1, <1>6, <2>1 DEF Owned
<1> HIDE DEF spent, made, g, y
<1>12. SpentDeposits(v, y)
  <2> SUFFICES ASSUME NEW d \in Deposit, withdrawal(d) \in v \cup DOMAIN y
               PROVE  deposit(d) \in DOMAIN y /\ y[deposit(d)] = ByTransaction(d)
    BY DEF SpentDeposits
  <2>1. CASE d \in body
    BY <2>1, <1>6 DEF spent
  <2>2. CASE d \notin body
    BY <2>2, <1>1, <1>5, <1>6 DEF SpentDeposits
  <2> QED
    BY <2>1, <2>2
<1> HIDE DEF u, v, x
<1>13. DbInv(r) /\ r.height = s.height + 1 /\ r.utxos = v /\ r.stxos = y
  BY <1>2, <1>3, <1>8, <1>9, <1>10, <1>11, <1>12, MovedInv
<1> QED
  BY <1>4, <1>5, <1>6, <1>13 DEF AllOutputs, u, v, x

LEMMA DisconnectBody ==
    ASSUME NEW s, DbInv(s), s.height \in Nat, NEW body \in SUBSET Deposit,
           ~disconnect_body_refused(s, body), NEW r, r = disconnect_body(s, body)
    PROVE  /\ DbInv(r) /\ r.height = s.height - 1
           /\ \A d \in Deposit :
                deposit(d) \in AllOutputs(r.utxos, r.stxos) =>
                    deposit(d) \in AllOutputs(s.utxos, s.stxos)
<1> DEFINE u == s.utxos
           x == s.stxos
           spent == {deposit(d) : d \in body}
           made == {withdrawal(d) : d \in body}
           v == (u \ made) \cup spent
           y == DeleteAll(x, spent)
<1>1. /\ u \subseteq OutPoint /\ IsStxos(x) /\ Owned(x, s.withdrawal_bundles)
      /\ Disjoint(u, x) /\ SpentDeposits(u, x)
  BY StateFields
<1>2. IsHeight(s.height - 1)
  BY DEF IsHeight
<1>3. r = Moved(s, s.height - 1, v, y)
  <2>1. r = SetMoved(s, s.height - 1, v, y)
    BY DEF disconnect_body, SetMoved
  <2> HIDE DEF v, y
  <2> QED
    BY <2>1, MoveAll
<1>4. \A d \in body : withdrawal(d) \in u /\ deposit(d) \in DOMAIN x
                      /\ x[deposit(d)] = ByTransaction(d)
  BY <1>1 DEF disconnect_body_refused, SpentDeposits
<1>5. DOMAIN y = DOMAIN x \ spent /\ \A o \in DOMAIN y : y[o] = x[o]
  BY DEF DeleteAll
<1>6. /\ spent \subseteq DOMAIN x
      /\ \A o \in spent : x[o].tag = "Regular"
      /\ \A d \in Deposit : deposit(d) \in spent => d \in body
      /\ \A d \in Deposit : withdrawal(d) \notin spent
      /\ \A d \in body : withdrawal(d) \in made
  BY <1>4, OutPointFacts
<1>7. v \subseteq OutPoint /\ IsStxos(y)
  BY <1>1, <1>5, <1>6 DEF IsStxos, PartialFunction
<1> HIDE DEF spent, made, y
<1>8. Disjoint(v, y)
  BY <1>1, <1>5 DEF Disjoint
<1>9. Owned(y, s.withdrawal_bundles)
  <2>1. ASSUME NEW m \in DOMAIN s.withdrawal_bundles, BundleHolds(s.withdrawal_bundles[m]),
               NEW o \in s.withdrawal_bundles[m].spend_utxos
        PROVE  o \in DOMAIN y /\ y[o] = ByBundle(m)
    <3>1. o \in DOMAIN x /\ x[o] = ByBundle(m)
      BY <1>1, <2>1 DEF Owned
    <3>2. x[o].tag = "Withdrawal"
      BY <3>1 DEF ByBundle
    <3> QED
      BY <1>5, <1>6, <3>1, <3>2
  <2> QED
    BY <1>1, <1>5, <2>1 DEF Owned
<1>10. SpentDeposits(v, y)
  <2> SUFFICES ASSUME NEW d \in Deposit, withdrawal(d) \in v \cup DOMAIN y
               PROVE  deposit(d) \in DOMAIN y /\ y[deposit(d)] = ByTransaction(d)
    BY DEF SpentDeposits
  <2>1. d \notin body
    BY <1>1, <1>4, <1>5, <1>6 DEF Disjoint
  <2>2. deposit(d) \in DOMAIN x /\ x[deposit(d)] = ByTransaction(d)
    BY <1>1, <1>5, <1>6 DEF SpentDeposits
  <2> QED
    BY <1>5, <1>6, <2>1, <2>2
<1> HIDE DEF u, v, x
<1>11. DbInv(r) /\ r.height = s.height - 1 /\ r.utxos = v /\ r.stxos = y
  BY <1>2, <1>3, <1>7, <1>8, <1>9, <1>10, MovedInv
<1> QED
  BY <1>5, <1>6, <1>11 DEF AllOutputs, u, v, x

-----------------------------------------------------------------------------
(***************************************************************************)
(* The steps.                                                              *)
(***************************************************************************)
LEMMA KeepsConsistent ==
    ASSUME NEW s, NEW r, NEW c, NEW l, Consistent(s, c, l), Keeps(s, r)
    PROVE  Consistent(r, c, l)
  BY DEF Consistent, Keeps, DepositsLogged, AllOutputs

\* The log gains an event.
LEMMA AppendConsistent ==
    ASSUME NEW s, NEW r, NEW c, NEW l, Consistent(s, c, l),
           NEW e \in [event : Event, height : Nat],
           DbInv(r), r.height = s.height,
           \A d \in Deposit :
               deposit(d) \in AllOutputs(r.utxos, r.stxos) =>
                   \/ deposit(d) \in AllOutputs(s.utxos, s.stxos)
                   \/ e.event = [kind |-> "Deposit", deposit |-> d]
    PROVE  Consistent(r, c, Append(l, e))
<1> DEFINE k == Append(l, e)
<1>1. l \in Seq([event : Event, height : Nat])
  BY DEF Consistent, LogOK
<1>2. /\ k \in Seq([event : Event, height : Nat])
      /\ DOMAIN k = 1..(Len(l) + 1) /\ DOMAIN l = 1..Len(l) /\ Len(l) \in Nat
      /\ k[Len(l) + 1] = e
      /\ \A i \in 1..Len(l) : k[i] = l[i]
  BY <1>1
<1> HIDE DEF k
<1>3. DepositsLogged(r, k)
  <2> SUFFICES ASSUME NEW d \in Deposit, deposit(d) \in AllOutputs(r.utxos, r.stxos)
               PROVE  \E i \in DOMAIN k : k[i].event = [kind |-> "Deposit", deposit |-> d]
    BY DEF DepositsLogged, AllOutputs
  <2>1. CASE deposit(d) \in AllOutputs(s.utxos, s.stxos)
    <3>1. PICK i \in DOMAIN l : l[i].event = [kind |-> "Deposit", deposit |-> d]
      BY <2>1 DEF Consistent, DepositsLogged, AllOutputs
    <3> QED
      BY <3>1, <1>2
  <2>2. CASE e.event = [kind |-> "Deposit", deposit |-> d]
    BY <2>2, <1>2
  <2> QED
    BY <2>1, <2>2
<1>4. LogOK(k)
  BY <1>2 DEF LogOK
<1>5. Consistent(r, c, k)
  BY <1>3, <1>4 DEF Consistent
<1> QED
  BY <1>5 DEF k

\* The log loses its last event.
LEMMA PopConsistent ==
    ASSUME NEW s, NEW r, NEW c, NEW l, Consistent(s, c, l), l # <<>>,
           DbInv(r), r.height = s.height,
           \A d \in Deposit :
               deposit(d) \in AllOutputs(r.utxos, r.stxos) =>
                   /\ deposit(d) \in AllOutputs(s.utxos, s.stxos)
                   /\ l[Len(l)].event # [kind |-> "Deposit", deposit |-> d]
    PROVE  Consistent(r, c, SubSeq(l, 1, Len(l) - 1))
<1> DEFINE n == Len(l) - 1
           k == SubSeq(l, 1, n)
           E == [event : Event, height : Nat]
<1>1. l \in Seq(E)
  BY DEF Consistent, LogOK
<1> HIDE DEF E
<1>2. n \in Nat /\ DOMAIN l = 1..Len(l) /\ Len(l) = n + 1 /\ \A i \in 1..n : l[i] \in E
  BY <1>1
<1> HIDE DEF n
<1>3. k \in Seq(E) /\ DOMAIN k = 1..n /\ \A i \in 1..n : k[i] = l[i]
  <2>1. /\ SubSeq(l, 1, n) \in Seq(E)
        /\ Len(SubSeq(l, 1, n)) = IF 1 <= n THEN n - 1 + 1 ELSE 0
        /\ \A i \in 1..(n - 1 + 1) : SubSeq(l, 1, n)[i] = l[1 + i - 1]
    BY <1>1, <1>2, SubSeqProperties
  <2>2. Len(SubSeq(l, 1, n)) = n /\ \A i \in 1..n : SubSeq(l, 1, n)[i] = l[i]
    BY <1>2, <2>1
  <2> QED
    BY <2>1, <2>2
<1> HIDE DEF k
<1>4. DepositsLogged(r, k)
  <2> SUFFICES ASSUME NEW d \in Deposit, deposit(d) \in AllOutputs(r.utxos, r.stxos)
               PROVE  \E i \in DOMAIN k : k[i].event = [kind |-> "Deposit", deposit |-> d]
    BY DEF DepositsLogged, AllOutputs
  <2>1. PICK i \in DOMAIN l : l[i].event = [kind |-> "Deposit", deposit |-> d]
    BY DEF Consistent, DepositsLogged, AllOutputs
  <2>2. i # Len(l)
    BY <2>1
  <2>3. i \in 1..n
    BY <1>2, <2>1, <2>2
  <2> QED
    BY <2>1, <2>3, <1>3
<1>5. LogOK(k)
  BY <1>3 DEF LogOK, E
<1>6. Consistent(r, c, k)
  BY <1>4, <1>5 DEF Consistent
<1> QED
  BY <1>6 DEF k, n

LEMMA EmptyConsistent ==
    Consistent(EmptyDb, <<>>, <<>>) /\ TxnOK(Idle)
<1>1. /\ EmptyDb.height = -1 /\ EmptyDb.utxos = {} /\ DOMAIN EmptyDb.stxos = {}
      /\ DOMAIN EmptyDb.withdrawal_bundles = {} /\ EmptyDb.pending = {}
      /\ EmptyDb.latest_failed = <<>> /\ EmptyDb.deposit_blocks = <<>>
      /\ EmptyDb.event_blocks = <<>> /\ DOMAIN EmptyDb.block_index_events = {}
  BY DEF EmptyDb
<1>2. IsDb(EmptyDb)
  BY DEF EmptyDb, IsDb
<1>3. DbInv(EmptyDb)
  BY <1>1, <1>2 DEF DbInv, DbOK, PartialFunction, BundlesOK, PendingOK, Owned, Disjoint,
                    SpentDeposits
<1>4. ChainOK(<<>>) /\ LogOK(<<>>) /\ DepositsLogged(EmptyDb, <<>>)
  BY <1>1 DEF ChainOK, LogOK, DepositsLogged
<1>5. Len(<<>>) = 0
  OBVIOUS
<1>6. TxnOK(Idle)
  BY DEF TxnOK, Idle, NoIndexEvents, BlockIndexEvents
<1> QED
  BY <1>1, <1>3, <1>4, <1>5, <1>6 DEF Consistent

\* The local variables of connect() and disconnect().
SetTxn(t, i, d, e) ==
    [t EXCEPT !.index_events = i, !.deposit_block = d, !.event_block = e]

Locals(i, d, e) == i \in BlockIndexEvents /\ d \in Nat /\ e \in Nat

LEMMA TxnSet ==
    ASSUME NEW t, TxnOK(t), NEW i, NEW d, NEW e, Locals(i, d, e),
           NEW r, r = SetTxn(t, i, d, e)
    PROVE  TxnOK(r) /\ r.restore = t.restore /\ r.op = t.op
<1> DEFINE T(j, b, c) == [op |-> t.op, restore |-> t.restore, deposit_block |-> b,
                          event_block |-> c, index_events |-> j]
           a == T(t.index_events, t.deposit_block, t.event_block)
           a1 == [a EXCEPT !.index_events = i]
           a2 == [a1 EXCEPT !.deposit_block = d]
<1>1. t = a
  BY DEF TxnOK
<1>2. a1 = T(i, t.deposit_block, t.event_block)
  OBVIOUS
<1> HIDE DEF a, a1
<1>3. a2 = T(i, d, t.event_block)
  BY <1>2
<1> HIDE DEF a2
<1>4. [a2 EXCEPT !.event_block = e] = T(i, d, e)
  BY <1>3
<1>5. r = [a2 EXCEPT !.event_block = e]
  BY <1>1 DEF SetTxn, a1, a2
<1>6. r = [op |-> t.op, restore |-> t.restore, deposit_block |-> d,
           event_block |-> e, index_events |-> i]
  BY <1>4, <1>5
<1> QED
  BY <1>6 DEF TxnOK, Locals

LEMMA MainEventFacts ==
    ASSUME Consistent(db, chain, log), NEW e \in MainEvents
    PROVE  /\ e \in Event
           /\ e.kind \in {"Deposit", "Submitted", "Confirmed", "Failed"}
           /\ e.kind = "Deposit" => /\ e.deposit \in Deposit
                                    /\ ~Deposited(e.deposit)
                                    /\ e = [kind |-> "Deposit", deposit |-> e.deposit]
           /\ e.kind # "Deposit" => e.m6id \in M6id
           /\ e.kind = "Submitted" => HasBundle(db, e.m6id) \/ e.m6id \in MainBundle
<1>1. DOMAIN db.withdrawal_bundles \subseteq M6id
  BY DEF Consistent, DbInv, DbOK, PartialFunction
<1>2. MainBundle \subseteq M6id
  BY TwoWayPegAssumption
<1>3. CASE \E d \in Deposit : ~Deposited(d) /\ e = [kind |-> "Deposit", deposit |-> d]
  BY <1>3 DEF Event
<1>4. CASE \E m \in DOMAIN db.withdrawal_bundles \cup MainBundle :
              e = [kind |-> "Submitted", m6id |-> m]
  BY <1>1, <1>2, <1>4 DEF Event, HasBundle
<1>5. CASE \E k \in {"Confirmed", "Failed"}, m \in DOMAIN db.withdrawal_bundles :
              e = [kind |-> k, m6id |-> m]
  BY <1>1, <1>5 DEF Event
<1> QED
  BY <1>3, <1>4, <1>5 DEF MainEvents

\* A step of connect().
LEMMA ConnectEventStep ==
    ASSUME IInv, NEW e \in MainEvents, ConnectEvent(e)
    PROVE  IInv'
<1> USE DEF IInv
<1>1. Consistent(db, chain, log) /\ DbInv(db) /\ db.height \in Nat
  <2>1. chain # <<>> /\ db.height = Len(chain) - 1 /\ \E S : chain \in Seq(S)
    BY DEF ConnectEvent, Consistent, ChainOK
  <2> QED
    BY <2>1 DEF Consistent
<1>2. /\ e \in Event
      /\ e.kind \in {"Deposit", "Submitted", "Confirmed", "Failed"}
      /\ e.kind = "Deposit" => /\ e.deposit \in Deposit
                               /\ ~Deposited(e.deposit)
                               /\ e = [kind |-> "Deposit", deposit |-> e.deposit]
      /\ e.kind # "Deposit" => e.m6id \in M6id
      /\ e.kind = "Submitted" => HasBundle(db, e.m6id) \/ e.m6id \in MainBundle
  BY <1>1, MainEventFacts
<1>3. ~connect_panics(db, e) /\ ~connect_refused(db, e) /\ db' = connect_2wpd_event(db, e)
      /\ log' = Append(log, [event |-> e, height |-> db.height]) /\ chain' = chain
  BY DEF ConnectEvent
<1>4. [event |-> e, height |-> db.height] \in [event : Event, height : Nat]
  BY <1>1, <1>2
<1>5. Consistent(db', chain', log')
  <2>1. CASE e.kind = "Deposit"
    <3>1. db' = AddUtxo(db, deposit(e.deposit))
      BY <1>3, <2>1 DEF connect_2wpd_event, AddUtxo
    <3>2. deposit(e.deposit) \notin DOMAIN db.stxos
      BY <1>1, <1>2, <2>1 DEF Consistent, DepositsLogged, Deposited
    <3>3. /\ DbInv(db') /\ db'.height = db.height
          /\ AllOutputs(db'.utxos, db'.stxos)
               = AllOutputs(db.utxos, db.stxos) \cup {deposit(e.deposit)}
      BY <1>1, <1>2, <2>1, <3>1, <3>2, ConnectDeposit
    <3>4. \A d \in Deposit :
             deposit(d) \in AllOutputs(db'.utxos, db'.stxos) =>
                 \/ deposit(d) \in AllOutputs(db.utxos, db.stxos)
                 \/ e = [kind |-> "Deposit", deposit |-> d]
      BY <1>2, <2>1, <3>3, OutPointFacts
    <3> QED
      BY <1>1, <1>3, <1>4, <3>3, <3>4, AppendConsistent
  <2>2. CASE e.kind # "Deposit"
    <3>1. Keeps(db, db')
      <4>1. CASE e.kind = "Submitted"
        <5>1. db' = connect_withdrawal_bundle_submitted(db, e.m6id)
              /\ ~submitted_panics(db, e.m6id) /\ ~submitted_refused(db, e.m6id)
          BY <1>3, <4>1 DEF connect_2wpd_event, connect_panics, connect_refused
        <5> QED
          BY <1>1, <1>2, <4>1, <5>1, ConnectSubmitted
      <4>2. CASE e.kind = "Confirmed"
        <5>1. db' = connect_withdrawal_bundle_confirmed(db, e.m6id)
              /\ ~confirmed_panics(db, e.m6id) /\ ~confirmed_refused(db, e.m6id)
          BY <1>3, <4>2 DEF connect_2wpd_event, connect_panics, connect_refused
        <5> QED
          BY <1>1, <5>1, ConnectConfirmed
      <4>3. CASE e.kind = "Failed"
        <5>1. db' = connect_withdrawal_bundle_failed(db, e.m6id)
              /\ ~failed_panics(db, e.m6id) /\ ~failed_refused(db, e.m6id)
          BY <1>3, <4>3 DEF connect_2wpd_event, connect_panics, connect_refused
        <5> QED
          BY <1>1, <5>1, ConnectFailed
      <4> QED
        BY <1>2, <2>2, <4>1, <4>2, <4>3
    <3>2. DbInv(db') /\ db'.height = db.height
          /\ AllOutputs(db'.utxos, db'.stxos) = AllOutputs(db.utxos, db.stxos)
      BY <3>1 DEF Keeps
    <3> QED
      BY <1>1, <1>3, <1>4, <3>2, AppendConsistent
  <2> QED
    BY <2>1, <2>2
<1>6. TxnOK(txn') /\ txn'.restore = txn.restore /\ txn'.op = txn.op
  <2>1. index(txn.index_events, db, e) \in BlockIndexEvents
    <3>1. \A m \in M6id : m.spend_utxos \subseteq OutPoint
      BY DEF M6id, Withdrawals, withdrawal, OutPoint
    <3>2. \A d \in Deposit : deposit(d) \in OutPoint
      BY OutPointFacts
    <3> QED
      BY <1>2, <3>1, <3>2 DEF index, BlockIndexEvents, TxnOK
  <2>2. Len(log) + 1 \in Nat
    BY <1>1 DEF Consistent, LogOK
  <2> DEFINE i == index(txn.index_events, db, e)
             a == IF e.kind = "Deposit" THEN Len(log) + 1 ELSE txn.deposit_block
             b == IF e.kind # "Deposit" THEN Len(log) + 1 ELSE txn.event_block
  <2>3. txn' = SetTxn(txn, i, a, b)
    BY DEF ConnectEvent, SetTxn
  <2>4. a \in Nat /\ b \in Nat /\ TxnOK(txn)
    BY <2>2 DEF TxnOK
  <2> HIDE DEF i, a, b
  <2>5. Locals(i, a, b)
    BY <2>1, <2>4 DEF Locals, i
  <2> QED
    BY <2>3, <2>4, <2>5, TxnSet
<1> QED
  BY <1>3, <1>5, <1>6 DEF ConnectEvent

\* A step of disconnect().
LEMMA DisconnectEventStep ==
    ASSUME IInv, DisconnectEvent
    PROVE  IInv'
<1> DEFINE e == log[Len(log)].event
<1> USE DEF IInv
<1>1. Consistent(db, chain, log) /\ DbInv(db) /\ log # <<>>
  BY DEF Consistent, DisconnectEvent, EventLeft
<1>2. e \in Event
  <2> DEFINE E == [event : Event, height : Nat]
  <2>1. log \in Seq(E)
    BY <1>1 DEF Consistent, LogOK
  <2> HIDE DEF E
  <2>2. log[Len(log)] \in E
    BY <1>1, <2>1
  <2> QED
    BY <2>2 DEF E
<1>3. /\ ~disconnect_panics(db, e) /\ ~disconnect_refused(db, e)
      /\ db' = disconnect_event(db, e)
      /\ log' = SubSeq(log, 1, Len(log) - 1) /\ chain' = chain
  BY DEF DisconnectEvent
<1>4. Len(log) \in Nat
  BY <1>1 DEF Consistent, LogOK
<1>5. TxnOK(txn') /\ txn'.restore = txn.restore /\ txn'.op = txn.op
  <2> DEFINE i == txn.index_events
             a == IF e.kind = "Deposit" /\ txn.deposit_block = 0 THEN Len(log)
                  ELSE txn.deposit_block
             b == IF e.kind # "Deposit" /\ txn.event_block = 0 THEN Len(log)
                  ELSE txn.event_block
  <2>1. txn' = [txn EXCEPT !.deposit_block = a, !.event_block = b]
    BY DEF DisconnectEvent
  <2>2. Locals(i, a, b) /\ TxnOK(txn)
    BY <1>4 DEF TxnOK, Locals
  <2> HIDE DEF a, b
  <2>3. txn' = SetTxn(txn, i, a, b)
    BY <2>1, <2>2 DEF SetTxn, TxnOK, Locals
  <2> QED
    BY <2>2, <2>3, TxnSet
<1>6. /\ e.kind \in {"Deposit", "Submitted", "Confirmed", "Failed"}
      /\ e.kind = "Deposit" => /\ e.deposit \in Deposit
                               /\ e = [kind |-> "Deposit", deposit |-> e.deposit]
  <2> HIDE DEF e
  <2> QED
    BY <1>2 DEF Event
<1>7. Consistent(db', chain', log')
  <2>1. CASE e.kind = "Deposit"
    <3>1. db' = RemoveUtxo(db, deposit(e.deposit))
          /\ deposit(e.deposit) \in db.utxos
      BY <1>3, <2>1 DEF disconnect_event, disconnect_refused, RemoveUtxo
    <3>2. /\ DbInv(db') /\ db'.height = db.height
          /\ AllOutputs(db'.utxos, db'.stxos)
               = AllOutputs(db.utxos, db.stxos) \ {deposit(e.deposit)}
      BY <1>1, <1>6, <2>1, <3>1, UndoDeposit
    <3>3. \A d \in Deposit :
             deposit(d) \in AllOutputs(db'.utxos, db'.stxos) =>
                 /\ deposit(d) \in AllOutputs(db.utxos, db.stxos)
                 /\ e # [kind |-> "Deposit", deposit |-> d]
      <4> HIDE DEF e
      <4> QED
        BY <1>6, <2>1, <3>2
    <3> QED
      BY <1>1, <1>3, <3>2, <3>3, PopConsistent
  <2>2. CASE e.kind # "Deposit"
    <3>1. Keeps(db, db')
      <4> HIDE DEF e
      <4>1. CASE e.kind = "Submitted"
        <5>1. db' = disconnect_withdrawal_bundle_submitted(db, e.m6id)
              /\ ~undo_submitted_panics(db, e.m6id) /\ ~undo_submitted_refused(db, e.m6id)
          BY <1>3, <4>1 DEF disconnect_event, disconnect_panics, disconnect_refused
        <5> QED
          BY <1>1, <5>1, UndoSubmitted
      <4>2. CASE e.kind = "Confirmed"
        <5>1. db' = disconnect_withdrawal_bundle_confirmed(db, e.m6id)
              /\ ~undo_confirmed_panics(db, e.m6id) /\ ~undo_confirmed_refused(db, e.m6id)
          BY <1>3, <4>2 DEF disconnect_event, disconnect_panics, disconnect_refused
        <5> QED
          BY <1>1, <5>1, UndoConfirmed
      <4>3. CASE e.kind = "Failed"
        <5>1. db' = disconnect_withdrawal_bundle_failed(db, e.m6id)
              /\ ~undo_failed_panics(db, e.m6id) /\ ~undo_failed_refused(db, e.m6id)
          BY <1>3, <4>3 DEF disconnect_event, disconnect_panics, disconnect_refused
        <5> QED
          BY <1>1, <5>1, UndoFailed
      <4> QED
        BY <1>6, <2>2, <4>1, <4>2, <4>3
    <3>2. DbInv(db') /\ db'.height = db.height
          /\ AllOutputs(db'.utxos, db'.stxos) = AllOutputs(db.utxos, db.stxos)
      BY <3>1 DEF Keeps
    <3>3. \A d \in Deposit : e # [kind |-> "Deposit", deposit |-> d]
      BY <2>2
    <3> QED
      BY <1>1, <1>3, <3>2, <3>3, PopConsistent
  <2> QED
    BY <2>1, <2>2
<1> QED
  BY <1>3, <1>5, <1>7

\* The write transaction of an operation that begins.
Begun(op, r1, r2, r3) == [Idle EXCEPT !.op = op, !.restore = <<r1, r2, r3>>]

LEMMA BeginTxn ==
    ASSUME NEW op \in {"connect", "disconnect"}, NEW r1, NEW r2, NEW r3,
           NEW t, t = Begun(op, r1, r2, r3)
    PROVE  /\ TxnOK(t) /\ t.op = op
           /\ t.restore[1] = r1 /\ t.restore[2] = r2 /\ t.restore[3] = r3
<1>1. t = [op |-> op, restore |-> <<r1, r2, r3>>, deposit_block |-> 0,
           event_block |-> 0, index_events |-> NoIndexEvents]
  BY DEF Idle, Begun
<1>2. NoIndexEvents \in BlockIndexEvents
  BY DEF NoIndexEvents, BlockIndexEvents
<1> QED
  BY <1>1, <1>2 DEF TxnOK

LEMMA IdleStep ==
    ASSUME Consistent(db', chain', log'), txn' = Idle
    PROVE  IInv'
<1>1. txn'.restore[1] = EmptyDb /\ txn'.restore[2] = <<>> /\ txn'.restore[3] = <<>>
      /\ txn'.op = "idle"
  BY DEF Idle
<1> QED
  BY <1>1, EmptyConsistent DEF IInv

\* The chain gains or loses a block.
LEMMA AppendChain ==
    ASSUME NEW c, ChainOK(c), NEW b, b.body \subseteq Deposit, DbOK(b.before)
    PROVE  ChainOK(Append(c, b)) /\ Len(Append(c, b)) = Len(c) + 1 /\ Append(c, b) # <<>>
<1>1. PICK S : c \in Seq(S)
  BY DEF ChainOK
<1>2. c \in Seq(S \cup {b}) /\ b \in S \cup {b}
  BY <1>1
<1>3. /\ Append(c, b) \in Seq(S \cup {b}) /\ Len(Append(c, b)) = Len(c) + 1
      /\ DOMAIN Append(c, b) = 1..(Len(c) + 1) /\ DOMAIN c = 1..Len(c) /\ Len(c) \in Nat
      /\ Append(c, b)[Len(c) + 1] = b
      /\ \A i \in 1..Len(c) : Append(c, b)[i] = c[i]
  BY <1>2
<1>4. Append(c, b) # <<>>
  BY <1>3
<1> QED
  BY <1>3, <1>4 DEF ChainOK

LEMMA PopChain ==
    ASSUME NEW c, ChainOK(c), c # <<>>
    PROVE  /\ ChainOK(SubSeq(c, 1, Len(c) - 1))
           /\ Len(SubSeq(c, 1, Len(c) - 1)) = Len(c) - 1
           /\ Len(c) \in Nat \ {0}
           /\ c[Len(c)].body \in SUBSET Deposit
<1> DEFINE n == Len(c) - 1
           k == SubSeq(c, 1, n)
<1>1. PICK S : c \in Seq(S)
  BY DEF ChainOK
<1>2. n \in Nat /\ DOMAIN c = 1..Len(c) /\ Len(c) = n + 1 /\ \A i \in 1..n : c[i] \in S
      /\ Len(c) \in Nat \ {0}
  BY <1>1
<1> HIDE DEF n
<1>3. k \in Seq(S) /\ Len(k) = n /\ DOMAIN k = 1..n /\ \A i \in 1..n : k[i] = c[i]
  <2>1. /\ SubSeq(c, 1, n) \in Seq(S)
        /\ Len(SubSeq(c, 1, n)) = IF 1 <= n THEN n - 1 + 1 ELSE 0
        /\ \A i \in 1..(n - 1 + 1) : SubSeq(c, 1, n)[i] = c[1 + i - 1]
    BY <1>1, <1>2, SubSeqProperties
  <2>2. Len(SubSeq(c, 1, n)) = n /\ \A i \in 1..n : SubSeq(c, 1, n)[i] = c[i]
    BY <1>2, <2>1
  <2> QED
    BY <2>1, <2>2
<1> HIDE DEF k
<1>4. ChainOK(k)
  BY <1>2, <1>3 DEF ChainOK
<1>5. c[Len(c)].body \in SUBSET Deposit
  BY <1>2 DEF ChainOK
<1> QED
  BY <1>2, <1>3, <1>4, <1>5 DEF k, n

LEMMA BeginConnectStep ==
    ASSUME IInv, NEW body \in SUBSET Deposit, BeginConnect(body)
    PROVE  IInv'
<1> DEFINE b == [body |-> body, before |-> db]
<1>1. Consistent(db, chain, log) /\ DbInv(db) /\ ChainOK(chain) /\ DbOK(db)
  BY DEF IInv, Consistent, DbInv
<1>2. /\ db' = connect_body(db, body) /\ log' = log
      /\ chain' = Append(chain, b)
      /\ txn' = Begun("connect", db, chain, log)
      /\ \A d \in body : deposit(d) \in db.utxos
  BY DEF BeginConnect, Begun
<1>3. /\ DbInv(db') /\ db'.height = db.height + 1
      /\ \A d \in Deposit :
           deposit(d) \in AllOutputs(db'.utxos, db'.stxos) =>
               deposit(d) \in AllOutputs(db.utxos, db.stxos)
  BY <1>1, <1>2, ConnectBody
<1>4. b.body \subseteq Deposit /\ DbOK(b.before)
  BY <1>1
<1> HIDE DEF b
<1>5. ChainOK(chain') /\ Len(chain') = Len(chain) + 1 /\ chain' # <<>>
  BY <1>1, <1>2, <1>4, AppendChain
<1>6. db'.height = Len(chain') - 1
  <2>1. db.height = Len(chain) - 1 /\ Len(chain) \in Nat
    BY <1>1 DEF Consistent, ChainOK
  <2> QED
    BY <1>3, <1>5, <2>1
<1>7. Consistent(db', chain', log')
  BY <1>1, <1>2, <1>3, <1>5, <1>6 DEF Consistent, DepositsLogged, AllOutputs
<1>8. TxnOK(txn') /\ txn'.restore[1] = db /\ txn'.restore[2] = chain /\ txn'.restore[3] = log
  BY <1>2, BeginTxn
<1> QED
  BY <1>1, <1>5, <1>7, <1>8 DEF IInv

LEMMA ConnectEndStep ==
    ASSUME IInv, ConnectEnd, Timely(db)
    PROVE  IInv'
<1>1. Consistent(db, chain, log) /\ DbInv(db) /\ db.height \in Nat
  <2>1. chain # <<>> /\ db.height = Len(chain) - 1 /\ \E S : chain \in Seq(S)
    BY DEF ConnectEnd, IInv, Consistent, ChainOK
  <2> QED
    BY <2>1 DEF Consistent, IInv
<1>2. /\ db' = connect_end(db, txn.deposit_block, txn.event_block, txn.index_events)
      /\ txn' = Idle /\ chain' = chain /\ log' = log
  BY DEF ConnectEnd
<1>3. txn.deposit_block \in Nat /\ txn.event_block \in Nat
      /\ txn.index_events \in BlockIndexEvents
  BY DEF IInv, TxnOK
<1>4. Keeps(db, db')
  BY <1>1, <1>2, <1>3, ConnectEndKeeps
<1>5. Consistent(db', chain, log)
  BY <1>1, <1>4, KeepsConsistent
<1> QED
  BY <1>2, <1>5, IdleStep

LEMMA BeginDisconnectStep ==
    ASSUME IInv, BeginDisconnect
    PROVE  IInv'
<1> DEFINE i == DeleteAll(db.block_index_events, {db.height})
<1>1. Consistent(db, chain, log) /\ DbInv(db) /\ chain # <<>>
  BY DEF IInv, Consistent, BeginDisconnect
<1>2. /\ db' = [db EXCEPT !.block_index_events = i]
      /\ txn' = Begun("disconnect", db, chain, log)
      /\ chain' = chain /\ log' = log
  BY DEF BeginDisconnect, Begun
<1>3. PartialFunction(i, Nat, BlockIndexEvents)
  BY <1>1, RecordFields DEF PartialFunction, DeleteAll
<1> HIDE DEF i
<1>4. db' = Recorded(db, i, db.deposit_blocks, db.event_blocks)
  BY <1>1, <1>2, RecordFields, RecordIndex
<1>5. Keeps(db, db')
  BY <1>1, <1>3, <1>4, RecordFields, RecordedKeeps
<1>6. Consistent(db', chain, log)
  BY <1>1, <1>5, KeepsConsistent
<1>7. TxnOK(txn') /\ txn'.restore[1] = db /\ txn'.restore[2] = chain /\ txn'.restore[3] = log
  BY <1>2, BeginTxn
<1> QED
  BY <1>1, <1>2, <1>6, <1>7 DEF IInv

LEMMA DisconnectEndStep ==
    ASSUME IInv, DisconnectEnd
    PROVE  IInv'
<1> DEFINE body == chain[Len(chain)].body
<1>1. Consistent(db, chain, log) /\ DbInv(db) /\ ChainOK(chain) /\ chain # <<>>
  BY DEF IInv, Consistent, DisconnectEnd
<1>2. /\ ~disconnect_end_panics(db, txn.deposit_block, txn.event_block)
      /\ Undone = disconnect_end(db, txn.deposit_block, txn.event_block)
      /\ ~disconnect_body_refused(Undone, body)
      /\ db' = disconnect_body(Undone, body)
      /\ chain' = SubSeq(chain, 1, Len(chain) - 1) /\ log' = log /\ txn' = Idle
  BY DEF DisconnectEnd, Undone
<1>3. /\ ChainOK(chain') /\ Len(chain') = Len(chain) - 1 /\ Len(chain) \in Nat \ {0}
      /\ body \in SUBSET Deposit
  BY <1>1, <1>2, PopChain
<1> HIDE DEF body
<1>4. Keeps(db, Undone)
  <2>1. txn.deposit_block \in Nat /\ txn.event_block \in Nat
    BY DEF IInv, TxnOK
  <2> QED
    BY <1>1, <1>2, <2>1, DisconnectEndKeeps
<1>5. Consistent(Undone, chain, log)
  BY <1>1, <1>4, KeepsConsistent
<1>6. DbInv(Undone) /\ Undone.height = Len(chain) - 1 /\ Undone.height \in Nat
  BY <1>3, <1>5 DEF Consistent
<1>7. /\ DbInv(db') /\ db'.height = Undone.height - 1
      /\ \A d \in Deposit :
           deposit(d) \in AllOutputs(db'.utxos, db'.stxos) =>
               deposit(d) \in AllOutputs(Undone.utxos, Undone.stxos)
  BY <1>2, <1>3, <1>6, DisconnectBody
<1>8. Consistent(db', chain', log')
  BY <1>2, <1>3, <1>5, <1>6, <1>7 DEF Consistent, DepositsLogged, AllOutputs
<1> QED
  BY <1>2, <1>8, IdleStep

LEMMA AbortStep ==
    ASSUME IInv, Abort
    PROVE  IInv'
<1>1. Consistent(db', chain', log') /\ txn' = Idle
  BY DEF IInv, Abort
<1> QED
  BY <1>1, IdleStep

LEMMA StutteringStep ==
    ASSUME IInv, UNCHANGED vars
    PROVE  IInv'
  BY DEF IInv, vars

\* What has been collected late stays in early, and ConnectEnd adds what it
\* collects late.
LEMMA EarlyGrows ==
    ASSUME [Next]_vars, NoneEarly'
    PROVE  NoneEarly /\ (ConnectEnd => Timely(db))
<1>1. early \subseteq early'
  BY DEF Next, vars, BeginConnect, ConnectEvent, ConnectEnd, BeginDisconnect, DisconnectEvent,
         DisconnectEnd, Abort
<1>2. ConnectEnd => ReportedBefore(db) \subseteq early'
  BY DEF ConnectEnd
<1> QED
  BY <1>1, <1>2 DEF NoneEarly, Timely

\* IInv holds as long as no block has collected a bundle that the mainchain had
\* reported before.
THEOREM PegInvariance == Spec => [](NoneEarly => IInv)
<1>1. Init => IInv
  <2> SUFFICES ASSUME Init PROVE IInv
    OBVIOUS
  <2>1. db = EmptyDb /\ chain = <<>> /\ log = <<>> /\ txn = Idle
    BY DEF Init
  <2>2. Idle.restore[1] = EmptyDb /\ Idle.restore[2] = <<>> /\ Idle.restore[3] = <<>>
        /\ Idle.op = "idle"
    BY DEF Idle
  <2> QED
    BY <2>1, <2>2, EmptyConsistent DEF IInv
<1>2. (NoneEarly => IInv) /\ [Next]_vars => (NoneEarly => IInv)'
  <2> SUFFICES ASSUME NoneEarly => IInv, [Next]_vars, NoneEarly' PROVE IInv'
    OBVIOUS
  <2>0. IInv /\ (ConnectEnd => Timely(db))
    BY EarlyGrows
  <2>1. CASE \E body \in SUBSET Deposit : BeginConnect(body)
    BY <2>0, <2>1, BeginConnectStep
  <2>2. CASE \E e \in MainEvents : ConnectEvent(e)
    BY <2>0, <2>2, ConnectEventStep
  <2>3. CASE ConnectEnd
    BY <2>0, <2>3, ConnectEndStep
  <2>4. CASE BeginDisconnect
    BY <2>0, <2>4, BeginDisconnectStep
  <2>5. CASE DisconnectEvent
    BY <2>0, <2>5, DisconnectEventStep
  <2>6. CASE DisconnectEnd
    BY <2>0, <2>6, DisconnectEndStep
  <2>7. CASE Abort
    BY <2>0, <2>7, AbortStep
  <2>8. CASE UNCHANGED vars
    BY <2>0, <2>8, StutteringStep
  <2> QED
    BY <2>1, <2>2, <2>3, <2>4, <2>5, <2>6, <2>7, <2>8 DEF Next
<1> QED
  BY <1>1, <1>2, PTL DEF Spec

\* The databases, the chain, the log and the write transaction have their
\* types until a block collects a bundle reported before.
THEOREM PegTypeCorrect == Spec => [](NoneEarly => TypeOK)
<1>1. IInv => TypeOK
  BY DEF IInv, Consistent, DbInv, ChainOK, LogOK, TxnOK, TypeOK
<1> QED
  BY <1>1, PegInvariance, PTL

\* Whatever part of a block has been connected or undone, no outpoint is both
\* in utxos and in stxos, until a block collects a bundle reported before.
THEOREM NoOutputTwice == Spec => []UtxoStxoDisjoint
<1>1. (NoneEarly => IInv) => UtxoStxoDisjoint
  BY DEF IInv, Consistent, DbInv, Disjoint, UtxoStxoDisjoint
<1> QED
  BY <1>1, PegInvariance, PTL

\* The pending bundle is stored, known and of status Pending, through any
\* sequence of events and reorgs, until a block collects a bundle reported
\* before: its submission never fails its assert!.
THEOREM PendingBundleKnown == Spec => [](NoneEarly => PendingKnown)
<1>1. IInv => PendingKnown
  BY DEF IInv, Consistent, DbInv, PendingOK, PendingKnown, PendingKnownIn, HasBundle,
         LatestStatus, StatusOf
<1> QED
  BY <1>1, PegInvariance, PTL

\* No withdrawal is paid by two bundles, none is marked as spent by a bundle
\* that failed, and none that a bundle in flight spends is unspent, until a
\* block collects a bundle reported before.
THEOREM BundleOwnershipCorrect == Spec => []BundleOwnership
<1>1. \A s, m : m \in DOMAIN s.withdrawal_bundles =>
                  (Holds(s, m) <=> BundleHolds(s.withdrawal_bundles[m]))
  BY DEF Holds, BundleHolds, HasBundle, LatestStatus, StatusOf
<1>2. \A s, m : Holds(s, m) => m \in DOMAIN s.withdrawal_bundles
  BY DEF Holds, HasBundle
<1>3. (NoneEarly => IInv) => BundleOwnership
  <2> SUFFICES ASSUME IInv PROVE OwnershipIn(db)
    BY DEF BundleOwnership
  <2>1. Owned(db.stxos, db.withdrawal_bundles)
    BY DEF IInv, Consistent, DbInv
  <2> QED
    BY <1>1, <1>2, <2>1 DEF Owned, OwnershipIn
<1> QED
  BY <1>3, PegInvariance, PTL

-----------------------------------------------------------------------------
(***************************************************************************)
(* What connect() keeps, beyond DbInv.  n events of the log l have been    *)
(* applied; bundles collected above height top are not in use.  Between    *)
(* two blocks top is the height of the tip, while a block is connected the *)
(* height below.                                                           *)
(***************************************************************************)

\* b was collected at m's height, perhaps several times, and never submitted.
PendingOnly(m, b) ==
    /\ b.info = "Known"
    /\ \A i \in DOMAIN b.status : b.status[i] = [value |-> "Pending", height |-> m.height]

EntryOK(m, b, h, top) ==
    /\ b.info = "Unknown" => b.spend_utxos = {}
    /\ IF b.info = "Known" /\ m.height > top THEN PendingOnly(m, b)
       ELSE \A i \in DOMAIN b.status : b.status[i].height <= h

EntriesOK(w, h, top) == \A m \in DOMAIN w : EntryOK(m, w[m], h, top)

\* The pending bundle was collected by a block of the chain.
PendingBelow(p, w, top) ==
    \A m \in p : m.height <= top /\ latest(w[m].status).height <= top

FailedOK(f, w, h) ==
    \A i \in DOMAIN f :
        /\ f[i].height <= h
        /\ f[i].value \in DOMAIN w
        /\ w[f[i].value].info = "Known"
        /\ Records(w[f[i].value].status, "Failed")

\* The latest status of a bundle is what the last event about it says.
AboutAt(l, i, m) == l[i].event.kind # "Deposit" /\ l[i].event.m6id = m

Reflects(v, kind) ==
    /\ kind = "Submitted" => IsSubmitted(v)
    /\ kind = "Confirmed" => v = "Confirmed"
    /\ kind = "Failed" => v = "Failed"

LogStatus(w, l, n) ==
    \A m \in M6id, i \in 1..n :
        AboutAt(l, i, m) =>
            /\ m \in DOMAIN w
            /\ (\A j \in (i + 1)..n : ~AboutAt(l, j, m)) =>
                   Reflects(latest(w[m].status).value, l[i].event.kind)

\* n was submitted again after it had failed, and confirmed.
Overtaking(w, n) ==
    /\ n \in DOMAIN w
    /\ latest(w[n].status).value = "Confirmed"
    /\ latest(popped(w[n].status)).value = "SubmittedUnexpected"

Spendable(u, x, w, p) ==
    \A m \in p : \A o \in m.spend_utxos :
        o \in u \/ (o \in DOMAIN x /\ x[o].tag = "Withdrawal" /\ Overtaking(w, x[o].m6id))

IndexBelow(i, top) == \A h \in DOMAIN i : h <= top

Good(s, l, n, top) ==
    /\ DbInv(s)
    /\ EntriesOK(s.withdrawal_bundles, s.height, top)
    /\ PendingBelow(s.pending, s.withdrawal_bundles, top)
    /\ FailedOK(s.latest_failed, s.withdrawal_bundles, s.height)
    /\ LogStatus(s.withdrawal_bundles, l, n)
    /\ Spendable(s.utxos, s.stxos, s.withdrawal_bundles, s.pending)
    /\ IndexBelow(s.block_index_events, top)

-----------------------------------------------------------------------------
(***************************************************************************)
(* Histories.                                                              *)
(***************************************************************************)

\* The least-number principle, for sets.
LEMMA LeastNatural ==
    ASSUME NEW S, S \subseteq Nat, S # {}
    PROVE  \E n \in S : \A k \in S : n <= k
<1> DEFINE R == OpToRel(<, Nat)
<1>1. IsWellFoundedOn(R, Nat)
  BY NatLessThanWellFounded
<1> HIDE DEF R
<1>2. PICK n \in S : \A k \in S : ~(<<k, n>> \in R)
  BY <1>1, WFMin
<1>3. \A k \in S : ~(k < n)
  BY <1>2 DEF R, OpToRel
<1> QED
  BY <1>3

\* pop() undoes push().
LEMMA PopPush ==
    ASSUME NEW T, NEW r \in Seq(HeightStamped(T)), NEW v \in T, NEW h \in Nat
    PROVE  popped(push(r, v, h)) = r
<1> DEFINE q == push(r, v, h)
<1>1. q \in RollBack(T) /\ Len(q) = Len(r) + 1 /\ \A i \in 1..Len(r) : q[i] = r[i]
  BY PushFacts
<1> HIDE DEF q
<1>2. /\ popped(q) \in Seq(HeightStamped(T)) /\ Len(popped(q)) = Len(q) - 1
      /\ \A i \in 1..(Len(q) - 1) : popped(q)[i] = q[i]
  BY <1>1, PopFacts
<1>3. Len(popped(q)) = Len(r) /\ \A i \in 1..Len(r) : popped(q)[i] = r[i]
  BY <1>1, <1>2
<1>4. popped(q) = r
  BY <1>2, <1>3, SeqEqual
<1> QED
  BY <1>4 DEF q

LEMMA PopNew ==
    ASSUME NEW T, NEW v \in T, NEW h \in Nat
    PROVE  popped(new(v, h)) = <<>>
<1> DEFINE q == new(v, h)
<1>1. q \in RollBack(T) /\ Len(q) = 1
  BY NewFacts
<1> HIDE DEF q
<1>2. popped(q) \in Seq(HeightStamped(T)) /\ Len(popped(q)) = Len(q) - 1
  BY <1>1, PopFacts
<1>3. Len(popped(q)) = 0
  BY <1>1, <1>2
<1>4. popped(q) = <<>>
  BY <1>2, <1>3
<1> QED
  BY <1>4 DEF q

\* The entry of a bundle, and what push() and pop() make of it.
LEMMA EntryShape ==
    ASSUME NEW b \in Bundle
    PROVE  /\ b = [info |-> b.info, spend_utxos |-> b.spend_utxos, status |-> b.status]
           /\ b.status \in RollBack(BundleStatus)
           /\ b.status \in Seq(HeightStamped(BundleStatus)) /\ b.status # <<>>
           /\ Len(b.status) \in Nat \ {0} /\ DOMAIN b.status = 1..Len(b.status)
           /\ \A i \in DOMAIN b.status :
                /\ b.status[i] = [value |-> b.status[i].value, height |-> b.status[i].height]
                /\ b.status[i].height \in Nat /\ b.status[i].value \in BundleStatus
<1>1. /\ b.status \in RollBack(BundleStatus) /\ b.status \in Seq(HeightStamped(BundleStatus))
      /\ b.status # <<>>
  BY DEF Bundle, RollBack
<1>2. b = [info |-> b.info, spend_utxos |-> b.spend_utxos, status |-> b.status]
  BY DEF Bundle
<1>3. \A y \in HeightStamped(BundleStatus) :
         y = [value |-> y.value, height |-> y.height] /\ y.height \in Nat /\ y.value \in BundleStatus
  BY DEF HeightStamped
<1>4. \A i \in DOMAIN b.status : b.status[i] \in HeightStamped(BundleStatus)
  BY <1>1, ElementOfSeq
<1> QED
  BY <1>1, <1>2, <1>3, <1>4

LEMMA LatestShape ==
    ASSUME NEW b \in Bundle
    PROVE  /\ Len(b.status) \in DOMAIN b.status /\ latest(b.status) = b.status[Len(b.status)]
           /\ latest(b.status).height \in Nat /\ latest(b.status).value \in BundleStatus
<1>1. b.status \in Seq(HeightStamped(BundleStatus)) /\ b.status # <<>>
  BY EntryShape
<1>2. Len(b.status) \in DOMAIN b.status /\ b.status[Len(b.status)] \in HeightStamped(BundleStatus)
  BY <1>1
<1> QED
  BY <1>2 DEF latest, HeightStamped

LEMMA PushShape ==
    ASSUME NEW b \in Bundle, NEW v \in BundleStatus, NEW h \in Nat,
           NEW c, c = PushStatus(b, v, h)
    PROVE  /\ c \in Bundle /\ c.info = b.info /\ c.spend_utxos = b.spend_utxos
           /\ Len(c.status) = Len(b.status) + 1
           /\ DOMAIN c.status = DOMAIN b.status \cup {Len(b.status) + 1}
           /\ Len(b.status) + 1 \notin DOMAIN b.status
           /\ c.status[Len(b.status) + 1] = [value |-> v, height |-> h]
           /\ latest(c.status) = [value |-> v, height |-> h]
           /\ \A i \in DOMAIN b.status : c.status[i] = b.status[i]
           /\ popped(c.status) = b.status
           /\ PopStatus(c) = b
<1>1. /\ b.status \in Seq(HeightStamped(BundleStatus)) /\ Len(b.status) \in Nat
      /\ DOMAIN b.status = 1..Len(b.status)
      /\ b = [info |-> b.info, spend_utxos |-> b.spend_utxos, status |-> b.status]
  BY EntryShape
<1>2. /\ c \in Bundle /\ c.info = b.info /\ c.spend_utxos = b.spend_utxos
      /\ c.status = push(b.status, v, h)
  BY PushEntry
<1>3. /\ Len(c.status) = Len(b.status) + 1 /\ latest(c.status) = [value |-> v, height |-> h]
      /\ \A i \in 1..Len(b.status) : c.status[i] = b.status[i]
      /\ popped(c.status) = b.status
  BY <1>1, <1>2, PushFacts, PopPush
<1>4. DOMAIN c.status = 1..Len(c.status) /\ c.status[Len(c.status)] = latest(c.status)
  BY <1>2, EntryShape DEF latest
<1>5. PopStatus(c) = b
  <2> HIDE DEF PushStatus
  <2>1. c = [info |-> b.info, spend_utxos |-> b.spend_utxos, status |-> c.status]
    BY <1>2, EntryShape
  <2>2. [c EXCEPT !.status = b.status]
          = [info |-> b.info, spend_utxos |-> b.spend_utxos, status |-> b.status]
    BY <2>1
  <2> QED
    BY <1>1, <1>3, <2>2 DEF PopStatus
<1> QED
  BY <1>1, <1>2, <1>3, <1>4, <1>5

LEMMA PopPushed ==
    ASSUME NEW b \in Bundle, NEW v \in BundleStatus, NEW h \in Nat
    PROVE  popped(PushStatus(b, v, h).status) = b.status
<1>1. b.status \in Seq(HeightStamped(BundleStatus))
  BY EntryShape
<1>2. PushStatus(b, v, h).status = push(b.status, v, h)
  BY PushEntry
<1> QED
  BY <1>1, <1>2, PopPush

\* A history that records v has a latest entry with v, and only one.
LEMMA LatestHeight ==
    ASSUME NEW T, NEW r \in Seq(HeightStamped(T)), NEW v, Records(r, v)
    PROVE  \E i \in DOMAIN r : /\ r[i].value = v
                               /\ \A j \in DOMAIN r : j > i => r[j].value # v
                               /\ LatestHeightOf(r, v) = r[i].height
<1> DEFINE P(i) == r[i].value = v /\ \A j \in DOMAIN r : j > i => r[j].value # v
<1>1. DOMAIN r = 1..Len(r) /\ Len(r) \in Nat
  OBVIOUS
<1>2. \E i \in DOMAIN r : P(i)
  <2> DEFINE S == {Len(r) - i : i \in {j \in DOMAIN r : r[j].value = v}}
  <2>1. S \subseteq Nat /\ S # {}
    BY <1>1 DEF Records
  <2>2. PICK n \in S : \A k \in S : n <= k
    BY <2>1, LeastNatural
  <2>3. PICK i \in DOMAIN r : r[i].value = v /\ n = Len(r) - i
    BY <2>2
  <2>4. ASSUME NEW j \in DOMAIN r, j > i, r[j].value = v PROVE FALSE
    <3>1. Len(r) - j \in S
      BY <2>4
    <3>2. n <= Len(r) - j /\ i \in 1..Len(r) /\ j \in 1..Len(r)
      BY <1>1, <2>2, <3>1
    <3> HIDE DEF S
    <3> QED
      BY <1>1, <2>3, <2>4, <3>2
  <2> QED
    BY <2>3, <2>4
<1> DEFINE k == CHOOSE i \in DOMAIN r : P(i)
<1>3. k \in DOMAIN r /\ P(k)
  BY <1>2
<1>4. LatestHeightOf(r, v) = r[k].height
  BY DEF LatestHeightOf
<1> HIDE DEF k
<1> QED
  BY <1>3, <1>4

LEMMA LatestHeightIs ==
    ASSUME NEW T, NEW r \in Seq(HeightStamped(T)), NEW v, NEW i \in DOMAIN r,
           r[i].value = v, \A j \in DOMAIN r : j > i => r[j].value # v
    PROVE  LatestHeightOf(r, v) = r[i].height
<1>1. Records(r, v)
  BY DEF Records
<1>2. PICK k \in DOMAIN r : /\ r[k].value = v
                            /\ \A j \in DOMAIN r : j > k => r[j].value # v
                            /\ LatestHeightOf(r, v) = r[k].height
  BY <1>1, LatestHeight
<1>3. DOMAIN r = 1..Len(r) /\ Len(r) \in Nat
  OBVIOUS
<1>4. k = i
  BY <1>2, <1>3
<1> QED
  BY <1>2, <1>4

-----------------------------------------------------------------------------
(***************************************************************************)
(* What a handler of connect() stores: it takes outputs O for m, gives     *)
(* them back, or only changes the entry of m, which becomes b.             *)
(***************************************************************************)
Takes(s, m, b, O, p, r) ==
    r = With(s, s.utxos \ O, Taken(s.stxos, O, m), PutOne(s.withdrawal_bundles, m, b),
             p, s.latest_failed)

Gives(s, m, b, O, r) ==
    r = With(s, Joined(s.utxos, O), DeleteAll(s.stxos, O), PutOne(s.withdrawal_bundles, m, b),
             s.pending, push(s.latest_failed, m, s.height))

Enters(s, m, b, r) ==
    r = With(s, s.utxos, s.stxos, PutOne(s.withdrawal_bundles, m, b),
             s.pending, s.latest_failed)

Pushed(s, m, v) == PushStatus(s.withdrawal_bundles[m], v, s.height)

UnknownEntry(h) == [info |-> "Unknown", spend_utxos |-> {}, status |-> new("Submitted", h)]

ConfirmedUnknown(b, u, h) ==
    PushStatus([b EXCEPT !.info = "UnknownConfirmed", !.spend_utxos = u], "Confirmed", h)

\* The cases of an event about the bundle m.
SubmittedPending(s, m, r) ==
    /\ m \in s.pending /\ HasBundle(s, m)
    /\ s.withdrawal_bundles[m].info = "Known" /\ LatestStatus(s, m) = "Pending"
    /\ s.withdrawal_bundles[m].spend_utxos = m.spend_utxos
    /\ m.spend_utxos \subseteq s.utxos
    /\ Takes(s, m, Pushed(s, m, "Submitted"), m.spend_utxos, {}, r)

SubmittedAgain(s, m, r) ==
    /\ m \notin s.pending /\ HasBundle(s, m)
    /\ s.withdrawal_bundles[m].info # "UnknownConfirmed" /\ LatestStatus(s, m) = "Failed"
    /\ Enters(s, m, Pushed(s, m, "SubmittedUnexpected"), r)

SubmittedUnknown(s, m, r) ==
    /\ m \notin s.pending /\ ~HasBundle(s, m)
    /\ Enters(s, m, UnknownEntry(s.height), r)

ConfirmsUnknown(s, m, r) ==
    /\ m \notin s.pending /\ HasBundle(s, m) /\ s.height = 0
    /\ s.withdrawal_bundles[m].info = "Unknown" /\ IsSubmitted(LatestStatus(s, m))
    /\ Takes(s, m, ConfirmedUnknown(s.withdrawal_bundles[m], s.utxos, s.height),
             s.utxos, s.pending, r)

ConfirmsAgain(s, m, r) ==
    /\ m \notin s.pending /\ HasBundle(s, m)
    /\ s.withdrawal_bundles[m].info = "Known" /\ LatestStatus(s, m) = "SubmittedUnexpected"
    /\ s.withdrawal_bundles[m].spend_utxos \subseteq s.utxos
    /\ Takes(s, m, Pushed(s, m, "Confirmed"), s.withdrawal_bundles[m].spend_utxos, s.pending, r)

Confirms(s, m, r) ==
    /\ m \notin s.pending /\ HasBundle(s, m)
    /\ s.withdrawal_bundles[m].info = "Known" /\ LatestStatus(s, m) = "Submitted"
    /\ Enters(s, m, Pushed(s, m, "Confirmed"), r)

Fails(s, m, r) ==
    /\ m \notin s.pending /\ HasBundle(s, m)
    /\ s.withdrawal_bundles[m].info = "Known" /\ LatestStatus(s, m) = "Submitted"
    /\ Gives(s, m, Pushed(s, m, "Failed"), s.withdrawal_bundles[m].spend_utxos, r)

FailsAgain(s, m, r) ==
    /\ m \notin s.pending /\ HasBundle(s, m)
    /\ s.withdrawal_bundles[m].info # "UnknownConfirmed" /\ IsSubmitted(LatestStatus(s, m))
    /\ s.withdrawal_bundles[m].info = "Known" => LatestStatus(s, m) = "SubmittedUnexpected"
    /\ Enters(s, m, Pushed(s, m, "Failed"), r)

LEMMA SubmittedCases ==
    ASSUME NEW s, DbInv(s), NEW m \in M6id, HasBundle(s, m) \/ m \in MainBundle,
           ~submitted_refused(s, m), NEW r, r = connect_withdrawal_bundle_submitted(s, m)
    PROVE  SubmittedPending(s, m, r) \/ SubmittedAgain(s, m, r) \/ SubmittedUnknown(s, m, r)
<1> DEFINE u == s.utxos
           x == s.stxos
           w == s.withdrawal_bundles
           p == s.pending
           f == s.latest_failed
<1>1. s = With(s, u, x, w, p, f) /\ PendingOK(p, w)
  BY StateFields
<1>2. CASE IsPending(s, m)
  <2> DEFINE O == m.spend_utxos
             b == Pushed(s, m, "Submitted")
  <2>1. m \in p /\ HasBundle(s, m) /\ w[m].info = "Known" /\ LatestStatus(s, m) = "Pending"
    BY <1>1, <1>2 DEF PendingOK, IsPending, HasBundle, LatestStatus, StatusOf
  <2>2. w[m].spend_utxos = O /\ O \subseteq u
    BY <1>2, <2>1, EntryFacts DEF BundleOK, submitted_refused
  <2>3. r = SetPending(PutBundle(SpendBy(s, O, m), m, b), {})
    BY <1>2 DEF connect_withdrawal_bundle_submitted, SetPending, Pushed
  <2> HIDE DEF b
  <2>4. SpendBy(s, O, m) = With(s, u \ O, Taken(x, O, m), w, p, f)
    BY <1>1, SpendByIs
  <2>5. PutBundle(SpendBy(s, O, m), m, b) = With(s, u \ O, Taken(x, O, m), PutOne(w, m, b), p, f)
    BY <2>4, PutBundleIs
  <2>6. Takes(s, m, b, O, {}, r)
    BY <2>3, <2>5, SetPendingIs DEF Takes
  <2> QED
    BY <2>1, <2>2, <2>6 DEF SubmittedPending, b
<1>3. CASE ~IsPending(s, m) /\ HasBundle(s, m)
  <2> DEFINE b == Pushed(s, m, "SubmittedUnexpected")
  <2>1. LatestStatus(s, m) = "Failed" /\ w[m].info # "UnknownConfirmed" /\ m \notin p
    BY <1>3 DEF IsPending, submitted_refused
  <2>2. r = PutBundle(s, m, b)
    BY <1>3 DEF connect_withdrawal_bundle_submitted, Pushed
  <2> HIDE DEF b
  <2>3. Enters(s, m, b, r)
    BY <1>1, <2>2, PutBundleIs DEF Enters
  <2> QED
    BY <1>3, <2>1, <2>3 DEF SubmittedAgain, b
<1>4. CASE ~IsPending(s, m) /\ ~HasBundle(s, m)
  <2> DEFINE b == UnknownEntry(s.height)
  <2>1. m \notin p
    BY <1>4 DEF IsPending
  <2>2. r = PutBundle(s, m, b)
    BY <1>4 DEF connect_withdrawal_bundle_submitted, UnknownEntry
  <2> HIDE DEF b
  <2>3. Enters(s, m, b, r)
    BY <1>1, <2>2, PutBundleIs DEF Enters
  <2> QED
    BY <1>4, <2>1, <2>3 DEF SubmittedUnknown, b
<1> QED
  BY <1>2, <1>3, <1>4

LEMMA ConfirmedCases ==
    ASSUME NEW s, DbInv(s), NEW m, HasBundle(s, m), IsSubmitted(LatestStatus(s, m)),
           ~confirmed_refused(s, m), NEW r, r = connect_withdrawal_bundle_confirmed(s, m)
    PROVE  ConfirmsUnknown(s, m, r) \/ ConfirmsAgain(s, m, r) \/ Confirms(s, m, r)
<1> DEFINE u == s.utxos
           x == s.stxos
           w == s.withdrawal_bundles
           p == s.pending
           f == s.latest_failed
<1>1. s = With(s, u, x, w, p, f)
  BY StateFields
<1>2. m \notin p /\ w[m] \in Bundle /\ LatestStatus(s, m) # "Confirmed"
  BY EntryFacts DEF IsSubmitted
<1>3. CASE w[m].info = "Unknown"
  <2> DEFINE b == ConfirmedUnknown(w[m], u, s.height)
  <2>1. s.height = 0
    BY <1>3 DEF confirmed_refused
  <2>2. r = PutBundle(SpendBy(s, u, m), m, b)
    BY <1>2, <1>3 DEF connect_withdrawal_bundle_confirmed, ConfirmedUnknown
  <2> HIDE DEF b
  <2>3. SpendBy(s, u, m) = With(s, u \ u, Taken(x, u, m), w, p, f)
    BY <1>1, SpendByIs
  <2>4. Takes(s, m, b, u, p, r)
    BY <2>2, <2>3, PutBundleIs DEF Takes
  <2> QED
    BY <1>2, <1>3, <2>1, <2>4 DEF ConfirmsUnknown, b
<1>4. CASE w[m].info = "Known" /\ LatestStatus(s, m) = "SubmittedUnexpected"
  <2> DEFINE b == Pushed(s, m, "Confirmed")
             O == w[m].spend_utxos
  <2>1. O \subseteq u
    BY <1>4 DEF confirmed_refused
  <2>2. r = PutBundle(SpendBy(s, O, m), m, b)
    BY <1>2, <1>4 DEF connect_withdrawal_bundle_confirmed, Pushed
  <2> HIDE DEF b
  <2>3. SpendBy(s, O, m) = With(s, u \ O, Taken(x, O, m), w, p, f)
    BY <1>1, SpendByIs
  <2>4. Takes(s, m, b, O, p, r)
    BY <2>2, <2>3, PutBundleIs DEF Takes
  <2> QED
    BY <1>2, <1>4, <2>1, <2>4 DEF ConfirmsAgain, b
<1>5. CASE w[m].info = "Known" /\ LatestStatus(s, m) = "Submitted"
  <2> DEFINE b == Pushed(s, m, "Confirmed")
  <2>1. r = PutBundle(s, m, b)
    BY <1>2, <1>5 DEF connect_withdrawal_bundle_confirmed, Pushed
  <2> HIDE DEF b
  <2>2. Enters(s, m, b, r)
    BY <1>1, <2>1, PutBundleIs DEF Enters
  <2> QED
    BY <1>2, <1>5, <2>2 DEF Confirms, b
<1>6. w[m].info # "UnknownConfirmed"
  BY DEF confirmed_refused
<1> QED
  BY <1>2, <1>3, <1>4, <1>5, <1>6 DEF Bundle, IsSubmitted

LEMMA FailedCases ==
    ASSUME NEW s, DbInv(s), NEW m, HasBundle(s, m), IsSubmitted(LatestStatus(s, m)),
           NEW r, r = connect_withdrawal_bundle_failed(s, m)
    PROVE  Fails(s, m, r) \/ FailsAgain(s, m, r)
<1> DEFINE u == s.utxos
           x == s.stxos
           w == s.withdrawal_bundles
           p == s.pending
           f == s.latest_failed
           b == Pushed(s, m, "Failed")
<1>1. s = With(s, u, x, w, p, f)
  BY StateFields
<1>2. m \notin p /\ w[m] \in Bundle /\ LatestStatus(s, m) # "Failed"
  BY EntryFacts DEF IsSubmitted
<1>3. w[m].info # "UnknownConfirmed"
  BY EntryFacts DEF BundleOK, IsSubmitted
<1>4. CASE w[m].info = "Known" /\ LatestStatus(s, m) = "Submitted"
  <2> DEFINE O == w[m].spend_utxos
             g == push(f, m, s.height)
  <2>1. Unspend(s, O) = With(s, Joined(u, O), DeleteAll(x, O), w, p, f)
    BY <1>1, UnspendIs
  <2>2. r = PutBundle(SetLatestFailed(Unspend(s, O), g), m, b)
    <3>1. Unspend(s, O).latest_failed = f
      BY <2>1, Fields
    <3> QED
      BY <1>2, <1>4, <3>1 DEF connect_withdrawal_bundle_failed, Pushed, SetLatestFailed
  <2> HIDE DEF b
  <2>3. SetLatestFailed(Unspend(s, O), g) = With(s, Joined(u, O), DeleteAll(x, O), w, p, g)
    BY <2>1, SetLatestFailedIs
  <2>4. Gives(s, m, b, O, r)
    BY <2>2, <2>3, PutBundleIs DEF Gives
  <2> QED
    BY <1>2, <1>4, <2>4 DEF Fails, b
<1>5. CASE ~(w[m].info = "Known" /\ LatestStatus(s, m) = "Submitted")
  <2>1. r = PutBundle(s, m, b)
    BY <1>2, <1>5 DEF connect_withdrawal_bundle_failed, Pushed
  <2> HIDE DEF b
  <2>2. Enters(s, m, b, r)
    BY <1>1, <2>1, PutBundleIs DEF Enters
  <2> QED
    BY <1>2, <1>3, <1>5, <2>2 DEF FailsAgain, b, IsSubmitted
<1> QED
  BY <1>4, <1>5

-----------------------------------------------------------------------------
(***************************************************************************)
(* connect() keeps Good.                                                   *)
(***************************************************************************)

\* The fields of a state With(..).
LEMMA WithFields ==
    ASSUME NEW s, NEW u, NEW x, NEW w, NEW p, NEW f, NEW r, r = With(s, u, x, w, p, f)
    PROVE  /\ r.utxos = u /\ r.stxos = x /\ r.withdrawal_bundles = w /\ r.pending = p
           /\ r.latest_failed = f /\ r.height = s.height
           /\ r.deposit_blocks = s.deposit_blocks /\ r.event_blocks = s.event_blocks
           /\ r.block_index_events = s.block_index_events
  BY DEF With

\* A new entry b of m, for the event that l has at n + 1.
LEMMA PutParts ==
    ASSUME NEW w, NEW m, NEW b, NEW v, v = PutOne(w, m, b),
           NEW h, NEW top, NEW p, NEW f, NEW l, NEW n \in Nat,
           EntriesOK(w, h, top), EntryOK(m, b, h, top),
           PendingBelow(p, w, top), m \notin p, p \subseteq DOMAIN w,
           FailedOK(f, w, h),
           m \in DOMAIN w /\ w[m].info = "Known" /\ Records(w[m].status, "Failed") =>
               b.info = "Known" /\ Records(b.status, "Failed"),
           LogStatus(w, l, n), AboutAt(l, n + 1, m),
           Reflects(latest(b.status).value, l[n + 1].event.kind)
    PROVE  /\ EntriesOK(v, h, top)
           /\ PendingBelow(p, v, top)
           /\ FailedOK(f, v, h)
           /\ LogStatus(v, l, n + 1)
<1>1. /\ DOMAIN v = DOMAIN w \cup {m} /\ v[m] = b
      /\ \A k \in DOMAIN w : k # m => v[k] = w[k]
  BY DEF PutOne
<1>2. EntriesOK(v, h, top)
  BY <1>1 DEF EntriesOK
<1>3. PendingBelow(p, v, top)
  BY <1>1 DEF PendingBelow
<1>4. FailedOK(f, v, h)
  BY <1>1 DEF FailedOK
<1>5. LogStatus(v, l, n + 1)
  <2> SUFFICES ASSUME NEW k \in M6id, NEW i \in 1..(n + 1), AboutAt(l, i, k)
               PROVE  /\ k \in DOMAIN v
                      /\ (\A j \in (i + 1)..(n + 1) : ~AboutAt(l, j, k)) =>
                             Reflects(latest(v[k].status).value, l[i].event.kind)
    BY DEF LogStatus
  <2>1. CASE i = n + 1
    <3>1. k = m
      BY <2>1 DEF AboutAt
    <3> QED
      BY <1>1, <2>1, <3>1
  <2>2. CASE i \in 1..n /\ k = m
    <3>1. n + 1 \in (i + 1)..(n + 1)
      BY <2>2
    <3> QED
      BY <1>1, <2>2, <3>1
  <2>3. CASE i \in 1..n /\ k # m
    <3>1. k \in DOMAIN w /\ v[k] = w[k]
      BY <1>1, <2>3 DEF LogStatus
    <3>2. (\A j \in (i + 1)..(n + 1) : ~AboutAt(l, j, k)) =>
             (\A j \in (i + 1)..n : ~AboutAt(l, j, k))
      BY <2>3
    <3> QED
      BY <1>1, <2>3, <3>1, <3>2 DEF LogStatus
  <2> QED
    BY <2>1, <2>2, <2>3
<1> QED
  BY <1>2, <1>3, <1>4, <1>5

\* A bundle in use: its latest status is not Pending, or it is pending.
LEMMA InUse ==
    ASSUME NEW s, DbInv(s), NEW top \in Int, EntriesOK(s.withdrawal_bundles, s.height, top),
           PendingBelow(s.pending, s.withdrawal_bundles, top),
           NEW m, HasBundle(s, m), LatestStatus(s, m) # "Pending" \/ m \in s.pending
    PROVE  /\ ~(s.withdrawal_bundles[m].info = "Known" /\ m.height > top)
           /\ \A i \in DOMAIN s.withdrawal_bundles[m].status :
                 s.withdrawal_bundles[m].status[i].height <= s.height
<1> DEFINE b == s.withdrawal_bundles[m]
<1>1. /\ m \in DOMAIN s.withdrawal_bundles /\ m \in M6id /\ b \in Bundle
      /\ LatestStatus(s, m) = latest(b.status).value
  BY EntryFacts
<1>2. Len(b.status) \in DOMAIN b.status
  BY <1>1, EntryShape
<1>3. EntryOK(m, b, s.height, top)
  BY <1>1 DEF EntriesOK
<1>4. ~(b.info = "Known" /\ m.height > top)
  <2> SUFFICES ASSUME b.info = "Known", m.height > top PROVE FALSE
    OBVIOUS
  <2>1. PendingOnly(m, b)
    BY <1>3 DEF EntryOK
  <2>2. LatestStatus(s, m) = "Pending"
    BY <1>1, <1>2, <2>1 DEF PendingOnly, latest
  <2>3. m \in s.pending => m.height <= top
    BY DEF PendingBelow
  <2> QED
    BY <1>1, <2>2, <2>3 DEF M6id, PendingBelow
<1> QED
  BY <1>3, <1>4 DEF EntryOK

\* The status of such a bundle is pushed.
LEMMA PushParts ==
    ASSUME NEW s, DbInv(s), s.height \in Nat, NEW top \in Int,
           EntriesOK(s.withdrawal_bundles, s.height, top),
           PendingBelow(s.pending, s.withdrawal_bundles, top),
           NEW m, HasBundle(s, m), LatestStatus(s, m) # "Pending" \/ m \in s.pending,
           NEW v \in BundleStatus, NEW c, c = Pushed(s, m, v)
    PROVE  /\ EntryOK(m, c, s.height, top)
           /\ latest(c.status).value = v /\ c.info = s.withdrawal_bundles[m].info
           /\ Records(s.withdrawal_bundles[m].status, "Failed") => Records(c.status, "Failed")
<1> DEFINE b == s.withdrawal_bundles[m]
<1>1. b \in Bundle /\ m \in DOMAIN s.withdrawal_bundles
  BY EntryFacts
<1>2. ~(b.info = "Known" /\ m.height > top) /\ \A i \in DOMAIN b.status : b.status[i].height <= s.height
  BY InUse
<1>3. b.info = "Unknown" => b.spend_utxos = {}
  BY <1>1 DEF EntriesOK, EntryOK
<1>4. c = PushStatus(b, v, s.height)
  BY DEF Pushed
<1> HIDE DEF b
<1>5. /\ c \in Bundle /\ c.info = b.info /\ c.spend_utxos = b.spend_utxos
      /\ DOMAIN c.status = DOMAIN b.status \cup {Len(b.status) + 1}
      /\ c.status[Len(b.status) + 1] = [value |-> v, height |-> s.height]
      /\ latest(c.status) = [value |-> v, height |-> s.height]
      /\ \A i \in DOMAIN b.status : c.status[i] = b.status[i]
  BY <1>1, <1>4, PushShape
<1>6. \A i \in DOMAIN c.status : c.status[i].height <= s.height
  BY <1>2, <1>5
<1>7. EntryOK(m, c, s.height, top)
  BY <1>2, <1>3, <1>5, <1>6 DEF EntryOK
<1>8. Records(b.status, "Failed") => Records(c.status, "Failed")
  BY <1>5 DEF Records
<1> QED
  BY <1>5, <1>7, <1>8 DEF b

\* m is not the bundle that overtook the pending one.
LEMMA OvertakingKept ==
    ASSUME NEW w, NEW m, NEW b, NEW n, Overtaking(w, n),
           m \in DOMAIN w => latest(w[m].status).value # "Confirmed"
    PROVE  n # m /\ Overtaking(PutOne(w, m, b), n)
<1>1. n # m
  BY DEF Overtaking
<1>2. n \in DOMAIN PutOne(w, m, b) /\ PutOne(w, m, b)[n] = w[n]
  BY <1>1 DEF PutOne, Overtaking
<1> QED
  BY <1>1, <1>2 DEF Overtaking

LEMMA SpendableEnters ==
    ASSUME NEW u, NEW x, NEW w, NEW p, Spendable(u, x, w, p), NEW m, NEW b,
           m \in DOMAIN w => latest(w[m].status).value # "Confirmed"
    PROVE  Spendable(u, x, PutOne(w, m, b), p)
  BY OvertakingKept DEF Spendable

LEMMA SpendableTakes ==
    ASSUME NEW u, NEW x, NEW w, NEW p, Spendable(u, x, w, p), Disjoint(u, x),
           NEW m, NEW b, NEW O, O \subseteq u,
           m \in DOMAIN w => latest(w[m].status).value # "Confirmed",
           Overtaking(PutOne(w, m, b), m)
    PROVE  Spendable(u \ O, Taken(x, O, m), PutOne(w, m, b), p)
<1> DEFINE y == Taken(x, O, m)
           v == PutOne(w, m, b)
<1>1. /\ DOMAIN y = DOMAIN x \cup O
      /\ \A o \in O : y[o] = ByBundle(m)
      /\ \A o \in DOMAIN x : o \notin O => y[o] = x[o]
  BY DEF Taken, PutAll
<1>2. ByBundle(m).tag = "Withdrawal" /\ ByBundle(m).m6id = m
  BY DEF ByBundle
<1> HIDE DEF y
<1> SUFFICES ASSUME NEW k \in p, NEW o \in k.spend_utxos, ~(o \in u \ O)
             PROVE  o \in DOMAIN y /\ y[o].tag = "Withdrawal" /\ Overtaking(v, y[o].m6id)
  BY DEF Spendable, y, v
<1>3. CASE o \in O
  BY <1>1, <1>2, <1>3
<1>4. CASE o \notin O
  <2>1. o \in DOMAIN x /\ x[o].tag = "Withdrawal" /\ Overtaking(w, x[o].m6id)
    BY <1>4 DEF Spendable
  <2>2. Overtaking(v, x[o].m6id)
    BY <2>1, OvertakingKept
  <2> QED
    BY <1>1, <1>4, <2>1, <2>2
<1> QED
  BY <1>3, <1>4

LEMMA SpendableGives ==
    ASSUME NEW u, NEW x, NEW w, NEW p, Spendable(u, x, w, p),
           NEW m, NEW b, NEW O, \A o \in O : o \in DOMAIN x /\ x[o] = ByBundle(m),
           m \in DOMAIN w => latest(w[m].status).value # "Confirmed"
    PROVE  Spendable(Joined(u, O), DeleteAll(x, O), PutOne(w, m, b), p)
<1> DEFINE y == DeleteAll(x, O)
           v == PutOne(w, m, b)
<1>1. DOMAIN y = DOMAIN x \ O /\ \A o \in DOMAIN y : y[o] = x[o]
  BY DEF DeleteAll
<1> HIDE DEF y
<1> SUFFICES ASSUME NEW k \in p, NEW o \in k.spend_utxos, o \notin u, o \notin O
             PROVE  o \in DOMAIN y /\ y[o].tag = "Withdrawal" /\ Overtaking(v, y[o].m6id)
  BY DEF Spendable, Joined, y, v
<1>2. o \in DOMAIN x /\ x[o].tag = "Withdrawal" /\ Overtaking(w, x[o].m6id)
  BY DEF Spendable
<1>3. Overtaking(v, x[o].m6id)
  BY <1>2, OvertakingKept
<1> QED
  BY <1>1, <1>2, <1>3

\* Good, for a handler that leaves the bundle m with the entry b.
LEMMA GoodPut ==
    ASSUME NEW s, NEW l, NEW n \in Nat, NEW top \in Int, Good(s, l, n, top),
           NEW m, NEW b, NEW u, NEW x, NEW p, NEW f,
           NEW r, r = With(s, u, x, PutOne(s.withdrawal_bundles, m, b), p, f), DbInv(r),
           EntryOK(m, b, s.height, top), m \notin p, p \subseteq s.pending,
           FailedOK(f, PutOne(s.withdrawal_bundles, m, b), s.height)
             \/ f = s.latest_failed,
           HasBundle(s, m) /\ s.withdrawal_bundles[m].info = "Known"
             /\ Records(s.withdrawal_bundles[m].status, "Failed") =>
               b.info = "Known" /\ Records(b.status, "Failed"),
           AboutAt(l, n + 1, m), Reflects(latest(b.status).value, l[n + 1].event.kind),
           Spendable(u, x, PutOne(s.withdrawal_bundles, m, b), p)
    PROVE  Good(r, l, n + 1, top)
<1> DEFINE w == s.withdrawal_bundles
           v == PutOne(w, m, b)
<1>1. /\ r.utxos = u /\ r.stxos = x /\ r.withdrawal_bundles = v /\ r.pending = p
      /\ r.latest_failed = f /\ r.height = s.height
      /\ r.block_index_events = s.block_index_events
  BY WithFields
<1>2. /\ DbInv(s) /\ EntriesOK(w, s.height, top) /\ PendingBelow(s.pending, w, top)
      /\ FailedOK(s.latest_failed, w, s.height) /\ LogStatus(w, l, n)
      /\ IndexBelow(s.block_index_events, top)
  BY DEF Good
<1>3. p \subseteq DOMAIN w /\ PendingBelow(p, w, top)
  BY <1>2 DEF PendingBelow, DbInv, PendingOK
<1>4. m \in DOMAIN w /\ w[m].info = "Known" /\ Records(w[m].status, "Failed") =>
        b.info = "Known" /\ Records(b.status, "Failed")
  BY DEF HasBundle
<1> HIDE DEF w
<1>5. EntriesOK(v, s.height, top) /\ PendingBelow(p, v, top) /\ LogStatus(v, l, n + 1)
      /\ FailedOK(s.latest_failed, v, s.height)
  BY <1>2, <1>3, <1>4, PutParts
<1>6. FailedOK(f, v, s.height)
  BY <1>5 DEF w
<1>7. Spendable(u, x, v, p)
  BY DEF w
<1> HIDE DEF v
<1> QED
  BY <1>1, <1>2, <1>5, <1>6, <1>7 DEF Good

\* The event that l has at n + 1 is about m and of the given kind.
NextAbout(l, n, m, kind) == AboutAt(l, n + 1, m) /\ l[n + 1].event.kind = kind

LEMMA GoodSubmitted ==
    ASSUME NEW s, NEW l, NEW n \in Nat, NEW top \in Int, Good(s, l, n, top), s.height \in Nat,
           NEW m, NextAbout(l, n, m, "Submitted"), NEW r, DbInv(r),
           SubmittedPending(s, m, r) \/ SubmittedAgain(s, m, r) \/ SubmittedUnknown(s, m, r)
    PROVE  Good(r, l, n + 1, top)
<1> DEFINE w == s.withdrawal_bundles
<1>1. /\ DbInv(s) /\ EntriesOK(w, s.height, top) /\ PendingBelow(s.pending, w, top)
      /\ Spendable(s.utxos, s.stxos, w, s.pending)
  BY DEF Good
<1>2. {"Submitted", "SubmittedUnexpected"} \subseteq BundleStatus
  BY DEF BundleStatus
<1>3. AboutAt(l, n + 1, m) /\ l[n + 1].event.kind = "Submitted"
  BY DEF NextAbout
<1>4. CASE SubmittedPending(s, m, r)
  <2> DEFINE b == Pushed(s, m, "Submitted")
  <2>1. m \in s.pending /\ HasBundle(s, m) /\ Takes(s, m, b, m.spend_utxos, {}, r)
        /\ LatestStatus(s, m) = "Pending"
    BY <1>4 DEF SubmittedPending
  <2>2. /\ EntryOK(m, b, s.height, top) /\ latest(b.status).value = "Submitted"
        /\ b.info = w[m].info
        /\ Records(w[m].status, "Failed") => Records(b.status, "Failed")
    BY <1>1, <1>2, <2>1, PushParts
  <2> HIDE DEF b
  <2>3. Spendable(s.utxos \ m.spend_utxos, Taken(s.stxos, m.spend_utxos, m), PutOne(w, m, b), {})
    BY DEF Spendable
  <2>4. Reflects(latest(b.status).value, l[n + 1].event.kind)
    BY <1>3, <2>2 DEF Reflects, IsSubmitted
  <2> DEFINE p == {}
  <2>5. m \notin p /\ p \subseteq s.pending
        /\ Takes(s, m, b, m.spend_utxos, p, r)
        /\ Spendable(s.utxos \ m.spend_utxos, Taken(s.stxos, m.spend_utxos, m), PutOne(w, m, b), p)
    BY <2>1, <2>3
  <2> HIDE DEF p
  <2> QED
    BY <1>3, <2>1, <2>2, <2>4, <2>5, GoodPut DEF Takes
<1>5. CASE SubmittedAgain(s, m, r)
  <2> DEFINE b == Pushed(s, m, "SubmittedUnexpected")
  <2>1. m \notin s.pending /\ HasBundle(s, m) /\ Enters(s, m, b, r)
        /\ LatestStatus(s, m) = "Failed"
    BY <1>5 DEF SubmittedAgain
  <2>2. /\ EntryOK(m, b, s.height, top) /\ latest(b.status).value = "SubmittedUnexpected"
        /\ b.info = w[m].info
        /\ Records(w[m].status, "Failed") => Records(b.status, "Failed")
    BY <1>1, <1>2, <2>1, PushParts
  <2> HIDE DEF b
  <2>3. Spendable(s.utxos, s.stxos, PutOne(w, m, b), s.pending)
    BY <1>1, <2>1, EntryFacts, SpendableEnters
  <2>4. Reflects(latest(b.status).value, l[n + 1].event.kind)
    BY <1>3, <2>2 DEF Reflects, IsSubmitted
  <2> QED
    BY <1>3, <2>1, <2>2, <2>3, <2>4, GoodPut DEF Enters
<1>6. CASE SubmittedUnknown(s, m, r)
  <2> DEFINE b == UnknownEntry(s.height)
             q == new("Submitted", s.height)
  <2>1. m \notin s.pending /\ ~HasBundle(s, m) /\ Enters(s, m, b, r)
    BY <1>6 DEF SubmittedUnknown
  <2>2. /\ q \in RollBack(BundleStatus) /\ Len(q) = 1
        /\ latest(q) = [value |-> "Submitted", height |-> s.height]
    BY <1>2, NewFacts
  <2>3. b.info = "Unknown" /\ b.spend_utxos = {} /\ b.status = q
    BY DEF UnknownEntry
  <2>4. EntryOK(m, b, s.height, top)
    <3> HIDE DEF b, q
    <3>1. DOMAIN q = {1} /\ q[1].height = s.height
      BY <2>2 DEF RollBack, latest
    <3> QED
      BY <2>3, <3>1 DEF EntryOK
  <2> HIDE DEF b, q
  <2>5. Spendable(s.utxos, s.stxos, PutOne(w, m, b), s.pending)
    BY <1>1, <2>1, SpendableEnters DEF HasBundle
  <2>6. Reflects(latest(b.status).value, l[n + 1].event.kind)
    BY <1>3, <2>2, <2>3 DEF Reflects, IsSubmitted
  <2> QED
    BY <1>3, <2>1, <2>4, <2>5, <2>6, GoodPut DEF Enters
<1> QED
  BY <1>4, <1>5, <1>6

SetInfo(b, i, O) == [b EXCEPT !.info = i, !.spend_utxos = O]

LEMMA SetInfoIs ==
    ASSUME NEW i, NEW O, NEW q, NEW j, NEW P, NEW b,
           b = [info |-> i, spend_utxos |-> O, status |-> q]
    PROVE  SetInfo(b, j, P)
             = [info |-> j, spend_utxos |-> P, status |-> q]
<1>1. [b EXCEPT !.info = j] = [info |-> j, spend_utxos |-> O, status |-> q]
  OBVIOUS
<1>2. [[info |-> j, spend_utxos |-> O, status |-> q] EXCEPT !.spend_utxos = P]
        = [info |-> j, spend_utxos |-> P, status |-> q]
  OBVIOUS
<1>3. [b EXCEPT !.info = j, !.spend_utxos = P] = [[b EXCEPT !.info = j] EXCEPT !.spend_utxos = P]
  OBVIOUS
<1> QED
  BY <1>1, <1>2, <1>3 DEF SetInfo

\* The entry of an unknown bundle that is confirmed.
LEMMA ConfirmedUnknownParts ==
    ASSUME NEW b \in Bundle, b.info = "Unknown", b.spend_utxos = {},
           NEW u, u \subseteq OutPoint, NEW h \in Nat, NEW m, NEW top,
           \A i \in DOMAIN b.status : b.status[i].height <= h,
           NEW c, c = ConfirmedUnknown(b, u, h)
    PROVE  /\ EntryOK(m, c, h, top)
           /\ latest(c.status).value = "Confirmed"
           /\ c.info = "UnknownConfirmed"
<1> DEFINE a == SetInfo(b, "UnknownConfirmed", u)
<1>1. /\ b = [info |-> "Unknown", spend_utxos |-> {}, status |-> b.status]
      /\ b.status \in RollBack(BundleStatus)
  BY EntryShape
<1>2. a = [info |-> "UnknownConfirmed", spend_utxos |-> u, status |-> b.status]
  <2> HIDE DEF a
  <2> QED
    BY <1>1, SetInfoIs DEF a
<1>3. "Confirmed" \in BundleStatus /\ c = PushStatus(a, "Confirmed", h)
  BY DEF BundleStatus, ConfirmedUnknown, SetInfo
<1> HIDE DEF a
<1>4. a \in Bundle /\ a.info = "UnknownConfirmed" /\ a.spend_utxos = u /\ a.status = b.status
  BY <1>1, <1>2 DEF Bundle
<1>5. /\ c \in Bundle /\ c.info = "UnknownConfirmed" /\ c.spend_utxos = u
      /\ DOMAIN c.status = DOMAIN b.status \cup {Len(b.status) + 1}
      /\ c.status[Len(b.status) + 1] = [value |-> "Confirmed", height |-> h]
      /\ latest(c.status) = [value |-> "Confirmed", height |-> h]
      /\ \A i \in DOMAIN b.status : c.status[i] = b.status[i]
  BY <1>3, <1>4, PushShape
<1>6. EntryOK(m, c, h, top)
  BY <1>5 DEF EntryOK
<1> QED
  BY <1>5, <1>6

LEMMA GoodConfirmed ==
    ASSUME NEW s, NEW l, NEW n \in Nat, NEW top \in Int, Good(s, l, n, top), s.height \in Nat,
           top < s.height,
           NEW m, NextAbout(l, n, m, "Confirmed"), NEW r, DbInv(r),
           ConfirmsUnknown(s, m, r) \/ ConfirmsAgain(s, m, r) \/ Confirms(s, m, r)
    PROVE  Good(r, l, n + 1, top)
<1> DEFINE w == s.withdrawal_bundles
           b == Pushed(s, m, "Confirmed")
<1>1. /\ DbInv(s) /\ EntriesOK(w, s.height, top) /\ PendingBelow(s.pending, w, top)
      /\ Spendable(s.utxos, s.stxos, w, s.pending) /\ Disjoint(s.utxos, s.stxos)
      /\ s.utxos \subseteq OutPoint
  BY StateFields DEF Good
<1>2. "Confirmed" \in BundleStatus
  BY DEF BundleStatus
<1>3. AboutAt(l, n + 1, m) /\ l[n + 1].event.kind = "Confirmed"
  BY DEF NextAbout
<1>4. /\ m \notin s.pending /\ HasBundle(s, m) /\ m \in DOMAIN w /\ w[m] \in Bundle
      /\ LatestStatus(s, m) = latest(w[m].status).value
      /\ LatestStatus(s, m) # "Pending" /\ LatestStatus(s, m) # "Confirmed"
  BY <1>1, EntryFacts DEF ConfirmsUnknown, ConfirmsAgain, Confirms, IsSubmitted
<1>5. /\ EntryOK(m, b, s.height, top) /\ latest(b.status).value = "Confirmed"
      /\ b.info = w[m].info
      /\ Records(w[m].status, "Failed") => Records(b.status, "Failed")
  BY <1>1, <1>2, <1>4, PushParts
<1>6. popped(b.status) = w[m].status
  <2> DEFINE a == w[m]
             h == s.height
  <2>1. b = PushStatus(a, "Confirmed", h) /\ a \in Bundle /\ h \in Nat
    BY <1>4 DEF Pushed
  <2> HIDE DEF a, b, h
  <2> QED
    <3>1. popped(b.status) = a.status
      BY <1>2, <2>1, PopPushed
    <3> QED
      BY <3>1 DEF a
<1> HIDE DEF b
<1>7. Reflects(latest(b.status).value, l[n + 1].event.kind)
  BY <1>3, <1>5 DEF Reflects
<1>8. CASE ConfirmsUnknown(s, m, r)
  <2> DEFINE c == ConfirmedUnknown(w[m], s.utxos, s.height)
  <2>1. s.height = 0 /\ w[m].info = "Unknown" /\ Takes(s, m, c, s.utxos, s.pending, r)
    BY <1>8 DEF ConfirmsUnknown
  <2>2. s.pending = {}
    <3>1. \A k \in s.pending : k.height \in Nat /\ k.height <= top
      BY <1>1 DEF PendingBelow, DbInv, DbOK, M6id
    <3> QED
      BY <2>1, <3>1
  <2>3. w[m].spend_utxos = {}
    BY <1>1, <1>4, <2>1 DEF EntriesOK, EntryOK
  <2>4. \A i \in DOMAIN w[m].status : w[m].status[i].height <= s.height
    BY <1>1, <1>4, InUse
  <2>5. EntryOK(m, c, s.height, top) /\ latest(c.status).value = "Confirmed"
        /\ c.info = "UnknownConfirmed"
    <3> DEFINE a == w[m]
               u == s.utxos
               h == s.height
    <3>1. a \in Bundle /\ a.info = "Unknown" /\ a.spend_utxos = {} /\ u \subseteq OutPoint
          /\ c = ConfirmedUnknown(a, u, h) /\ h \in Nat
          /\ \A i \in DOMAIN a.status : a.status[i].height <= h
      BY <1>1, <1>4, <2>1, <2>3, <2>4
    <3> HIDE DEF a, c, u, h
    <3>2. EntryOK(m, c, h, top) /\ latest(c.status).value = "Confirmed"
          /\ c.info = "UnknownConfirmed"
      BY <3>1, ConfirmedUnknownParts
    <3> QED
      BY <3>2 DEF h
  <2> HIDE DEF c
  <2>6. Reflects(latest(c.status).value, l[n + 1].event.kind)
    BY <1>3, <2>5 DEF Reflects
  <2>7. Spendable(s.utxos \ s.utxos, Taken(s.stxos, s.utxos, m), PutOne(w, m, c), s.pending)
    BY <2>2 DEF Spendable
  <2> QED
    BY <1>3, <1>4, <2>1, <2>5, <2>6, <2>7, GoodPut DEF Takes
<1>9. CASE ConfirmsAgain(s, m, r)
  <2> DEFINE O == w[m].spend_utxos
  <2>1. LatestStatus(s, m) = "SubmittedUnexpected" /\ O \subseteq s.utxos
        /\ Takes(s, m, b, O, s.pending, r)
    BY <1>9 DEF ConfirmsAgain, b
  <2>2. Overtaking(PutOne(w, m, b), m)
    BY <1>4, <1>5, <1>6, <2>1 DEF Overtaking, PutOne
  <2>3. Spendable(s.utxos \ O, Taken(s.stxos, O, m), PutOne(w, m, b), s.pending)
    BY <1>1, <1>4, <2>1, <2>2, SpendableTakes
  <2> QED
    BY <1>3, <1>4, <1>5, <1>7, <2>1, <2>3, GoodPut DEF Takes
<1>10. CASE Confirms(s, m, r)
  <2>1. Enters(s, m, b, r)
    BY <1>10 DEF Confirms, b
  <2>2. Spendable(s.utxos, s.stxos, PutOne(w, m, b), s.pending)
    BY <1>1, <1>4, SpendableEnters
  <2> QED
    BY <1>3, <1>4, <1>5, <1>7, <2>1, <2>2, GoodPut DEF Enters
<1> QED
  BY <1>8, <1>9, <1>10

LEMMA GoodFailed ==
    ASSUME NEW s, NEW l, NEW n \in Nat, NEW top \in Int, Good(s, l, n, top), s.height \in Nat,
           NEW m, NextAbout(l, n, m, "Failed"), NEW r, DbInv(r),
           Fails(s, m, r) \/ FailsAgain(s, m, r)
    PROVE  Good(r, l, n + 1, top)
<1> DEFINE w == s.withdrawal_bundles
           f == s.latest_failed
           b == Pushed(s, m, "Failed")
<1>1. /\ DbInv(s) /\ EntriesOK(w, s.height, top) /\ PendingBelow(s.pending, w, top)
      /\ Spendable(s.utxos, s.stxos, w, s.pending) /\ Owned(s.stxos, w)
      /\ f \in Seq(HeightStamped(M6id)) /\ FailedOK(f, w, s.height)
  BY StateFields DEF Good
<1>2. "Failed" \in BundleStatus
  BY DEF BundleStatus
<1>3. AboutAt(l, n + 1, m) /\ l[n + 1].event.kind = "Failed"
  BY DEF NextAbout
<1>4. /\ m \notin s.pending /\ HasBundle(s, m) /\ m \in DOMAIN w /\ w[m] \in Bundle
      /\ m \in M6id /\ LatestStatus(s, m) = latest(w[m].status).value
      /\ LatestStatus(s, m) # "Pending" /\ LatestStatus(s, m) # "Confirmed"
  BY <1>1, EntryFacts DEF Fails, FailsAgain, IsSubmitted
<1>5. /\ EntryOK(m, b, s.height, top) /\ latest(b.status).value = "Failed"
      /\ b.info = w[m].info
      /\ Records(w[m].status, "Failed") => Records(b.status, "Failed")
  BY <1>1, <1>2, <1>4, PushParts
<1>6. Records(b.status, "Failed")
  <2> DEFINE a == w[m]
  <2>1. b = PushStatus(a, "Failed", s.height) /\ a \in Bundle
    BY <1>4 DEF Pushed
  <2> HIDE DEF a, b
  <2>2. Len(a.status) + 1 \in DOMAIN b.status
        /\ b.status[Len(a.status) + 1] = [value |-> "Failed", height |-> s.height]
    BY <1>2, <2>1, PushShape
  <2> QED
    BY <2>2 DEF Records
<1> HIDE DEF b
<1>7. Reflects(latest(b.status).value, l[n + 1].event.kind)
  BY <1>3, <1>5 DEF Reflects
<1>8. CASE Fails(s, m, r)
  <2> DEFINE O == w[m].spend_utxos
             g == push(f, m, s.height)
  <2>1. w[m].info = "Known" /\ LatestStatus(s, m) = "Submitted" /\ Gives(s, m, b, O, r)
    BY <1>8 DEF Fails, b
  <2>2. \A o \in O : o \in DOMAIN s.stxos /\ s.stxos[o] = ByBundle(m)
    BY <1>1, <1>4, <2>1 DEF Owned, BundleHolds
  <2>3. Spendable(Joined(s.utxos, O), DeleteAll(s.stxos, O), PutOne(w, m, b), s.pending)
    BY <1>1, <1>4, <2>2, SpendableGives
  <2>4. FailedOK(g, PutOne(w, m, b), s.height)
    <3>1. /\ Len(g) = Len(f) + 1 /\ latest(g) = [value |-> m, height |-> s.height]
          /\ \A i \in 1..Len(f) : g[i] = f[i] /\ g \in RollBack(M6id)
      BY <1>1, <1>4, PushFacts
    <3>2. g \in Seq(HeightStamped(M6id)) /\ Len(f) \in Nat
      BY <1>1, <1>4, PushFacts DEF RollBack
    <3> HIDE DEF g
    <3>3. DOMAIN g = 1..(Len(f) + 1) /\ DOMAIN f = 1..Len(f)
          /\ g[Len(f) + 1] = [value |-> m, height |-> s.height]
      BY <1>1, <3>1, <3>2 DEF latest
    <3>4. \A i \in 1..Len(f) : g[i] = f[i]
      BY <3>1
    <3> SUFFICES ASSUME NEW i \in DOMAIN g
                 PROVE  /\ g[i].height <= s.height /\ g[i].value \in DOMAIN PutOne(w, m, b)
                        /\ PutOne(w, m, b)[g[i].value].info = "Known"
                        /\ Records(PutOne(w, m, b)[g[i].value].status, "Failed")
      BY DEF FailedOK
    <3>5. CASE i = Len(f) + 1
      BY <1>5, <1>6, <2>1, <3>3, <3>5 DEF PutOne
    <3>6. CASE i \in DOMAIN f
      BY <1>1, <1>5, <1>6, <2>1, <3>3, <3>4, <3>6 DEF PutOne, FailedOK
    <3> QED
      BY <3>2, <3>3, <3>5, <3>6
  <2> QED
    BY <1>3, <1>4, <1>5, <1>7, <2>1, <2>3, <2>4, GoodPut DEF Gives
<1>9. CASE FailsAgain(s, m, r)
  <2>1. Enters(s, m, b, r)
    BY <1>9 DEF FailsAgain, b
  <2>2. Spendable(s.utxos, s.stxos, PutOne(w, m, b), s.pending)
    BY <1>1, <1>4, SpendableEnters
  <2> QED
    BY <1>3, <1>4, <1>5, <1>7, <2>1, <2>2, GoodPut DEF Enters
<1> QED
  BY <1>8, <1>9
-----------------------------------------------------------------------------
(***************************************************************************)
(* Databases that a reorg went back to.  r is like s up to bundles         *)
(* collected at height h or above that were never submitted.               *)
(***************************************************************************)
LikeW(rw, sw, h) ==
    /\ DOMAIN sw \subseteq DOMAIN rw
    /\ \A m \in DOMAIN rw :
          \/ m \in DOMAIN sw /\ rw[m] = sw[m]
          \/ /\ m.height >= h /\ PendingOnly(m, rw[m])
             /\ m \in DOMAIN sw => PendingOnly(m, sw[m])

Like(r, s, h) ==
    /\ r.height = s.height /\ r.utxos = s.utxos /\ r.stxos = s.stxos
    /\ r.pending = s.pending /\ r.latest_failed = s.latest_failed
    /\ r.deposit_blocks = s.deposit_blocks /\ r.event_blocks = s.event_blocks
    /\ r.block_index_events = s.block_index_events
    /\ LikeW(r.withdrawal_bundles, s.withdrawal_bundles, h)

\* The bundle that the block being undone collected is still pending.
StillPending(r, t, m) ==
    /\ t.pending = {} /\ r.pending = {m} /\ GapElapsed(t)
    /\ m.height = t.height /\ m.spend_utxos \subseteq t.utxos \cap Withdrawals
    /\ PendingOnly(m, r.withdrawal_bundles[m])
    /\ HasBundle(t, m) => /\ Len(r.withdrawal_bundles[m].status) > 1
                          /\ PendingOnly(m, t.withdrawal_bundles[m])

PendingNear(r, t) == r.pending = t.pending \/ \E m \in r.pending : StillPending(r, t, m)

\* While a block is disconnected: r has the databases t, but for what the end
\* of the block stored.
Near(r, t) ==
    /\ r.height = t.height /\ r.utxos = t.utxos /\ r.stxos = t.stxos
    /\ r.latest_failed = t.latest_failed
    /\ r.block_index_events = t.block_index_events
    /\ LikeW(r.withdrawal_bundles, t.withdrawal_bundles, t.height)
    /\ PendingNear(r, t)

\* A block of the stack for the event k of the log, if k is not 0.
OnTop(q, k, h) == IF k = 0 THEN q ELSE Append(q, [hash |-> k, height |-> h])

Stacked(r, t, d, e) ==
    /\ r.deposit_blocks = OnTop(t.deposit_blocks, d, t.height)
    /\ r.event_blocks = OnTop(t.event_blocks, e, t.height)

LEMMA PendingOnlyFacts ==
    ASSUME NEW m, NEW b \in Bundle, PendingOnly(m, b)
    PROVE  /\ latest(b.status).value = "Pending" /\ latest(b.status).height = m.height
           /\ ~Records(b.status, "Failed")
<1>1. Len(b.status) \in DOMAIN b.status
  BY EntryShape
<1>2. \A i \in DOMAIN b.status : b.status[i].value = "Pending" /\ b.status[i].height = m.height
  BY DEF PendingOnly
<1> QED
  BY <1>1, <1>2 DEF latest, Records

\* A bundle in use is the same in both.
LEMMA LikeEntry ==
    ASSUME NEW rw, IsBundles(rw), NEW sw, IsBundles(sw), NEW h \in Int, LikeW(rw, sw, h),
           NEW m \in DOMAIN sw,
           \/ latest(sw[m].status).value # "Pending" \/ Records(sw[m].status, "Failed")
           \/ m.height < h
    PROVE  m \in DOMAIN rw /\ rw[m] = sw[m]
<1>1. m \in DOMAIN rw /\ rw[m] \in Bundle /\ sw[m] \in Bundle /\ m.height \in Nat
  BY DEF LikeW, IsBundles, PartialFunction, M6id
<1>2. CASE rw[m] = sw[m]
  BY <1>1, <1>2
<1>3. CASE m.height >= h /\ PendingOnly(m, sw[m])
  BY <1>1, <1>3, PendingOnlyFacts
<1> QED
  BY <1>1, <1>2, <1>3 DEF LikeW

\* ... and so is one whose latest status in r is not Pending.
LEMMA LikeEntryBack ==
    ASSUME NEW rw, IsBundles(rw), NEW sw, IsBundles(sw), NEW h \in Int, LikeW(rw, sw, h),
           NEW m \in DOMAIN rw,
           latest(rw[m].status).value # "Pending"
    PROVE  m \in DOMAIN sw /\ rw[m] = sw[m]
<1>1. rw[m] \in Bundle
  BY DEF LikeW, IsBundles, PartialFunction, M6id
<1>2. ~PendingOnly(m, rw[m])
  BY <1>1, PendingOnlyFacts
<1> QED
  BY <1>1, <1>2 DEF LikeW

LEMMA LikeLatest ==
    ASSUME NEW rw, IsBundles(rw), NEW sw, IsBundles(sw), NEW h \in Int, LikeW(rw, sw, h),
           NEW m \in DOMAIN sw
    PROVE  m \in DOMAIN rw /\ latest(rw[m].status).value = latest(sw[m].status).value
<1>1. m \in DOMAIN rw /\ rw[m] \in Bundle /\ sw[m] \in Bundle
  BY DEF LikeW, IsBundles, PartialFunction
<1>2. CASE rw[m] = sw[m]
  BY <1>1, <1>2
<1>3. CASE PendingOnly(m, rw[m]) /\ PendingOnly(m, sw[m])
  BY <1>1, <1>3, PendingOnlyFacts
<1> QED
  BY <1>1, <1>2, <1>3 DEF LikeW

LEMMA LikeLog ==
    ASSUME NEW rw, IsBundles(rw), NEW sw, IsBundles(sw), NEW h \in Int, LikeW(rw, sw, h),
           NEW l, NEW n \in Nat, LogStatus(sw, l, n)
    PROVE  LogStatus(rw, l, n)
<1>1. \A m \in DOMAIN sw : m \in DOMAIN rw
                           /\ latest(rw[m].status).value = latest(sw[m].status).value
  BY LikeLatest
<1> QED
  BY <1>1 DEF LogStatus

LEMMA LikeFailed ==
    ASSUME NEW rw, IsBundles(rw), NEW sw, IsBundles(sw), NEW h \in Int, LikeW(rw, sw, h),
           NEW f, NEW k, FailedOK(f, sw, k)
    PROVE  FailedOK(f, rw, k)
<1>1. \A m \in DOMAIN sw : Records(sw[m].status, "Failed") => m \in DOMAIN rw /\ rw[m] = sw[m]
  BY LikeEntry
<1> QED
  BY <1>1 DEF FailedOK

LEMMA LikeSpendable ==
    ASSUME NEW rw, IsBundles(rw), NEW sw, IsBundles(sw), NEW h \in Int, LikeW(rw, sw, h),
           NEW u, NEW x, NEW p, Spendable(u, x, sw, p)
    PROVE  Spendable(u, x, rw, p)
<1>1. ASSUME NEW m, Overtaking(sw, m) PROVE Overtaking(rw, m)
  <2>1. m \in DOMAIN sw /\ latest(sw[m].status).value = "Confirmed"
    BY <1>1 DEF Overtaking
  <2>2. m \in DOMAIN rw /\ rw[m] = sw[m]
    BY <2>1, LikeEntry
  <2> QED
    BY <1>1, <2>2 DEF Overtaking
<1> QED
  BY <1>1 DEF Spendable

LEMMA LikePending ==
    ASSUME NEW rw, IsBundles(rw), NEW sw, IsBundles(sw), NEW h \in Int, LikeW(rw, sw, h),
           NEW p, p \subseteq DOMAIN sw, NEW top \in Int, top < h, PendingBelow(p, sw, top)
    PROVE  PendingBelow(p, rw, top)
<1>1. \A m \in p : m.height \in Nat /\ m.height < h
  BY DEF PendingBelow, IsBundles, PartialFunction, M6id
<1>2. \A m \in p : rw[m] = sw[m]
  BY <1>1, LikeEntry
<1> QED
  BY <1>2 DEF PendingBelow

LEMMA LikeEntries ==
    ASSUME NEW rw, IsBundles(rw), NEW sw, IsBundles(sw), NEW h \in Int, LikeW(rw, sw, h),
           NEW k, NEW top \in Int, top < h, EntriesOK(sw, k, top)
    PROVE  EntriesOK(rw, k, top)
<1> SUFFICES ASSUME NEW m \in DOMAIN rw PROVE EntryOK(m, rw[m], k, top)
  BY DEF EntriesOK
<1>1. m.height \in Nat
  BY DEF IsBundles, PartialFunction, M6id
<1>2. CASE m \in DOMAIN sw /\ rw[m] = sw[m]
  BY <1>2 DEF EntriesOK
<1>3. CASE m.height >= h /\ PendingOnly(m, rw[m])
  <2>1. m.height > top /\ rw[m].info = "Known"
    BY <1>1, <1>3 DEF PendingOnly
  <2> QED
    BY <1>3, <2>1 DEF EntryOK
<1> QED
  BY <1>2, <1>3 DEF LikeW

LEMMA LikeTransitive ==
    ASSUME NEW qw, NEW rw, NEW sw, NEW h \in Int, NEW k \in Int, k <= h,
           IsBundles(qw),
           LikeW(qw, rw, h), LikeW(rw, sw, k)
    PROVE  LikeW(qw, sw, k)
<1>1. \A m \in DOMAIN qw : m.height \in Nat
  BY DEF IsBundles, PartialFunction, M6id
<1> QED
  BY <1>1 DEF LikeW

LEMMA GoodLike ==
    ASSUME NEW r, DbInv(r), NEW s, NEW l, NEW n \in Nat, NEW top \in Int,
           Good(s, l, n, top), NEW h \in Int, top < h, Like(r, s, h)
    PROVE  Good(r, l, n, top)
<1> DEFINE rw == r.withdrawal_bundles
           sw == s.withdrawal_bundles
<1>1. /\ DbInv(s) /\ EntriesOK(sw, s.height, top) /\ PendingBelow(s.pending, sw, top)
      /\ FailedOK(s.latest_failed, sw, s.height) /\ LogStatus(sw, l, n)
      /\ Spendable(s.utxos, s.stxos, sw, s.pending) /\ IndexBelow(s.block_index_events, top)
  BY DEF Good
<1>2. IsBundles(rw) /\ IsBundles(sw) /\ LikeW(rw, sw, h)
  BY <1>1, StateFields DEF Like
<1>3. s.pending \subseteq DOMAIN sw
  BY <1>1 DEF DbInv, PendingOK
<1> HIDE DEF rw, sw
<1>4. EntriesOK(rw, s.height, top) /\ PendingBelow(s.pending, rw, top)
  BY <1>1, <1>2, <1>3, LikeEntries, LikePending
<1>5. /\ FailedOK(s.latest_failed, rw, s.height) /\ LogStatus(rw, l, n)
      /\ Spendable(s.utxos, s.stxos, rw, s.pending)
  BY <1>1, <1>2, LikeFailed, LikeLog, LikeSpendable
<1> QED
  BY <1>1, <1>4, <1>5 DEF Good, Like, rw

\* Good depends on the first n entries of the log only.
LEMMA GoodLog ==
    ASSUME NEW s, NEW l, NEW k, NEW n \in Nat, NEW top, Good(s, l, n, top),
           \A i \in 1..n : k[i] = l[i]
    PROVE  Good(s, k, n, top)
<1> DEFINE w == s.withdrawal_bundles
<1>1. LogStatus(w, l, n)
  BY DEF Good
<1> HIDE DEF w
<1>2. LogStatus(w, k, n)
  <2>1. \A i \in 1..n : \A j \in (i + 1)..n : j \in 1..n
    OBVIOUS
  <2>2. \A i \in 1..n, m \in M6id : AboutAt(k, i, m) <=> AboutAt(l, i, m)
    BY DEF AboutAt
  <2> QED
    BY <1>1, <2>1, <2>2 DEF LogStatus
<1> QED
  BY <1>2 DEF Good, w

-----------------------------------------------------------------------------
(***************************************************************************)
(* connect() keeps Good, continued: deposits, the body and the end.        *)
(***************************************************************************)
Spent(body) == {deposit(d) : d \in body}
Made(body) == {withdrawal(d) : d \in body}
BodyUtxos(u, body) == (u \ Spent(body)) \cup Made(body)
BodyStxos(x, body) == PutAll(x, [o \in Spent(body) |-> ByTransaction(o.id)])

LEMMA BodyIs ==
    ASSUME NEW s, DbInv(s), NEW body
    PROVE  connect_body(s, body)
             = Moved(s, s.height + 1, BodyUtxos(s.utxos, body), BodyStxos(s.stxos, body))
<1> DEFINE v == BodyUtxos(s.utxos, body)
           y == BodyStxos(s.stxos, body)
<1>1. connect_body(s, body) = SetMoved(s, s.height + 1, v, y)
  BY DEF connect_body, SetMoved, BodyUtxos, BodyStxos, Spent, Made
<1> HIDE DEF v, y
<1>2. SetMoved(s, s.height + 1, v, y) = Moved(s, s.height + 1, v, y)
  BY MoveAll
<1> QED
  BY <1>1, <1>2 DEF v, y

LEMMA MovedFields ==
    ASSUME NEW s, NEW h, NEW u, NEW x, NEW r, r = Moved(s, h, u, x)
    PROVE  /\ r.height = h /\ r.utxos = u /\ r.stxos = x
           /\ r.withdrawal_bundles = s.withdrawal_bundles /\ r.pending = s.pending
           /\ r.latest_failed = s.latest_failed /\ r.deposit_blocks = s.deposit_blocks
           /\ r.event_blocks = s.event_blocks /\ r.block_index_events = s.block_index_events
  BY DEF Moved

LEMMA EntriesHigher ==
    ASSUME NEW w, IsBundles(w), NEW h \in Int, NEW k \in Int, h <= k, NEW top,
           EntriesOK(w, h, top)
    PROVE  EntriesOK(w, k, top)
<1> SUFFICES ASSUME NEW m \in DOMAIN w PROVE EntryOK(m, w[m], k, top)
  BY DEF EntriesOK
<1>1. w[m] \in Bundle /\ EntryOK(m, w[m], h, top)
  BY DEF EntriesOK, IsBundles, PartialFunction
<1>2. \A i \in DOMAIN w[m].status : w[m].status[i].height \in Nat
  BY <1>1, EntryShape
<1> QED
  BY <1>1, <1>2 DEF EntryOK

LEMMA FailedHigher ==
    ASSUME NEW w, NEW h \in Int, NEW k \in Int, h <= k, NEW f \in Seq(HeightStamped(M6id)),
           FailedOK(f, w, h)
    PROVE  FailedOK(f, w, k)
<1>1. \A i \in DOMAIN f : f[i] \in HeightStamped(M6id)
  BY ElementOfSeq
<1>2. \A i \in DOMAIN f : f[i].height \in Nat
  BY <1>1 DEF HeightStamped
<1> QED
  BY <1>2 DEF FailedOK

\* Outputs come and go, but no withdrawal does that is unspent, or spent by a
\* bundle.
KeepsWithdrawals(s, u, x) ==
    /\ \A o \in Withdrawals : o \in s.utxos => o \in u
    /\ \A o \in Withdrawals : o \in DOMAIN s.stxos => o \in DOMAIN x /\ x[o] = s.stxos[o]

LEMMA GoodMoved ==
    ASSUME NEW s, NEW l, NEW n \in Nat, NEW k, k \in {n, n + 1}, NEW top \in Int,
           Good(s, l, n, top), NEW h \in Int, s.height <= h, NEW u, NEW x,
           NEW r, DbInv(r), r = Moved(s, h, u, x),
           k = n + 1 => l[n + 1].event.kind = "Deposit",
           KeepsWithdrawals(s, u, x)
    PROVE  Good(r, l, k, top)
<1> DEFINE w == s.withdrawal_bundles
           g == s.height
           f == s.latest_failed
<1>1. /\ DbInv(s) /\ EntriesOK(w, g, top) /\ PendingBelow(s.pending, w, top)
      /\ FailedOK(f, w, g) /\ LogStatus(w, l, n)
      /\ Spendable(s.utxos, s.stxos, w, s.pending) /\ IndexBelow(s.block_index_events, top)
  BY DEF Good
<1>2. IsBundles(w) /\ f \in Seq(HeightStamped(M6id)) /\ g \in Int /\ g <= h
  <2>1. DbOK(s)
    BY <1>1 DEF DbInv
  <2>2. IsBundles(w) /\ f \in Seq(HeightStamped(M6id))
    BY <1>1, StateFields
  <2>3. g \in Int /\ g <= h
    BY <2>1 DEF DbOK
  <2> QED
    BY <2>2, <2>3
<1>3. \A m \in s.pending : m.spend_utxos \subseteq Withdrawals
  BY <1>1 DEF DbInv, DbOK, M6id
<1> HIDE DEF w, g, f
<1>4. EntriesOK(w, h, top) /\ FailedOK(f, w, h)
  BY <1>1, <1>2, EntriesHigher, FailedHigher
<1>5. LogStatus(w, l, k)
  <2>1. CASE k = n
    BY <1>1, <2>1
  <2>2. CASE k = n + 1
    <3>1. \A m \in M6id : ~AboutAt(l, n + 1, m)
      BY <2>2 DEF AboutAt
    <3>2. \A m \in M6id, i \in 1..k : AboutAt(l, i, m) => i \in 1..n
      BY <2>2, <3>1
    <3>3. \A i \in 1..n : (i + 1)..n \subseteq (i + 1)..k
      BY <2>2
    <3> QED
      BY <1>1, <3>2, <3>3 DEF LogStatus
  <2> QED
    BY <2>1, <2>2
<1>6. Spendable(u, x, w, s.pending)
  BY <1>1, <1>3 DEF Spendable, KeepsWithdrawals
<1>7. /\ r.height = h /\ r.utxos = u /\ r.stxos = x /\ r.withdrawal_bundles = w
      /\ r.pending = s.pending /\ r.latest_failed = f
      /\ r.block_index_events = s.block_index_events
  BY MovedFields DEF w, f
<1> QED
  BY <1>1, <1>4, <1>5, <1>6, <1>7 DEF Good

LEMMA GoodDeposit ==
    ASSUME NEW s, NEW l, NEW n \in Nat, NEW top \in Int, Good(s, l, n, top),
           NEW d \in Deposit, deposit(d) \notin DOMAIN s.stxos,
           l[n + 1].event.kind = "Deposit",
           NEW r, r = AddUtxo(s, deposit(d))
    PROVE  Good(r, l, n + 1, top)
<1> DEFINE v == s.utxos \cup {deposit(d)}
           x == s.stxos
           h == s.height
<1>1. DbInv(s)
  BY DEF Good
<1>2. r = Moved(s, h, v, x) /\ DbInv(r) /\ h \in Int /\ h <= h
  <2>1. r = Moved(s, h, v, x)
    BY <1>1, MoveUtxos DEF AddUtxo
  <2>2. DbInv(r)
    BY <1>1, ConnectDeposit
  <2>3. h \in Int
    BY <1>1 DEF DbInv, DbOK
  <2> QED
    BY <2>1, <2>2, <2>3
<1>3. KeepsWithdrawals(s, v, x)
  BY DEF KeepsWithdrawals
<1> HIDE DEF v, x
<1> DEFINE k == n + 1
<1>4. k \in {n, n + 1} /\ (k = n + 1 => l[n + 1].event.kind = "Deposit") /\ s.height <= h
  BY <1>2
<1> HIDE DEF k, h
<1>5. Good(r, l, k, top)
  BY <1>2, <1>3, <1>4, GoodMoved
<1> QED
  BY <1>5 DEF k

LEMMA GoodBody ==
    ASSUME NEW s, NEW l, NEW n \in Nat, NEW top \in Int, Good(s, l, n, top),
           NEW body \in SUBSET Deposit, \A d \in body : deposit(d) \in s.utxos,
           NEW r, r = connect_body(s, body)
    PROVE  Good(r, l, n, top)
<1> DEFINE v == BodyUtxos(s.utxos, body)
           y == BodyStxos(s.stxos, body)
           h == s.height + 1
<1>1. DbInv(s)
  BY DEF Good
<1>2. r = Moved(s, h, v, y) /\ DbInv(r) /\ h \in Int /\ s.height <= h
  <2>1. r = Moved(s, h, v, y)
    BY <1>1, BodyIs
  <2>2. DbInv(r)
    BY <1>1, ConnectBody
  <2>3. s.height \in Int
    BY <1>1 DEF DbInv, DbOK
  <2> QED
    BY <2>1, <2>2, <2>3
<1>3. \A o \in Withdrawals : o \notin Spent(body)
  BY OutPointFacts DEF Withdrawals, Spent
<1>4. KeepsWithdrawals(s, v, y)
  BY <1>3 DEF KeepsWithdrawals, BodyUtxos, BodyStxos, PutAll
<1> HIDE DEF v, y, h
<1>5. /\ n \in {n, n + 1} /\ (n = n + 1 => l[n + 1].event.kind = "Deposit")
      /\ s.height <= h /\ h \in Int
  BY <1>2
<1> QED
  BY <1>2, <1>4, <1>5, GoodMoved

\* connect() collects the bundle m, and stores it with the entry c.
Collected(s, m, c, r) ==
    /\ Collects(s) /\ m \in M6id /\ c \in Bundle
    /\ m.height = s.height /\ m.spend_utxos = s.utxos \cap Withdrawals
    /\ PendingOnly(m, c)
    /\ HasBundle(s, m) => Len(c.status) > 1 /\ PendingOnly(m, s.withdrawal_bundles[m])
    /\ r = With(s, s.utxos, s.stxos, PutOne(s.withdrawal_bundles, m, c), {m}, s.latest_failed)

LEMMA CollectFacts ==
    ASSUME NEW s, DbInv(s), s.height \in Nat, Collects(s),
           NEW m, m = collect_withdrawal_bundle(s)
    PROVE  /\ m \in M6id /\ m.height = s.height /\ m.spend_utxos = s.utxos \cap Withdrawals
           /\ m.spend_utxos # {} /\ m.spend_utxos \subseteq OutPoint
<1>1. s.utxos \subseteq OutPoint
  BY StateFields
<1> QED
  BY <1>1 DEF collect_withdrawal_bundle, M6id, Collects

\* A bundle collected again was never submitted.
LEMMA CollectedBefore ==
    ASSUME NEW s, DbInv(s), s.height \in Nat,
           EntriesOK(s.withdrawal_bundles, s.height, s.height - 1), Timely(s),
           Collects(s), NEW m, m = collect_withdrawal_bundle(s), HasBundle(s, m)
    PROVE  PendingOnly(m, s.withdrawal_bundles[m])
<1> DEFINE b == s.withdrawal_bundles[m]
<1>1. m.height = s.height /\ m.spend_utxos # {}
  BY CollectFacts
<1>2. m \in DOMAIN s.withdrawal_bundles /\ b \in Bundle /\ BundleOK(m, b)
  BY EntryFacts
<1>3. b.info = "Known"
  BY TimelyMeans
<1>4. EntryOK(m, b, s.height, s.height - 1)
  BY <1>2 DEF EntriesOK
<1> QED
  BY <1>1, <1>3, <1>4 DEF EntryOK

LEMMA PendingPushed ==
    ASSUME NEW b \in Bundle, NEW m, m.height \in Nat, PendingOnly(m, b), NEW O, O \subseteq OutPoint,
           NEW c, c = [info |-> "Known", spend_utxos |-> O,
                       status |-> push(b.status, "Pending", m.height)]
    PROVE  c \in Bundle /\ PendingOnly(m, c) /\ Len(c.status) > 1
<1> DEFINE T == BundleStatus
           r == b.status
           h == m.height
           q == push(r, "Pending", h)
<1>1. "Pending" \in BundleStatus /\ h \in Nat
  BY DEF BundleStatus
<1>2. b.status \in Seq(HeightStamped(BundleStatus)) /\ Len(b.status) \in Nat \ {0}
      /\ DOMAIN b.status = 1..Len(b.status)
  BY EntryShape
<1> HIDE DEF h, r, q, T
<1>a. r \in Seq(HeightStamped(T)) /\ "Pending" \in T /\ h \in Nat
  BY <1>1, <1>2 DEF r, T
<1>b. /\ q \in RollBack(T) /\ Len(q) = Len(r) + 1
      /\ latest(q) = [value |-> "Pending", height |-> h]
      /\ \A i \in 1..Len(r) : q[i] = r[i]
  BY <1>a, PushFacts DEF q
<1>3. /\ q \in RollBack(BundleStatus) /\ Len(q) = Len(b.status) + 1
      /\ latest(q) = [value |-> "Pending", height |-> h]
      /\ \A i \in 1..Len(b.status) : q[i] = b.status[i]
  BY <1>b DEF r, T
<1>4. q \in Seq(HeightStamped(BundleStatus)) /\ DOMAIN q = 1..Len(q) /\ q[Len(q)] = latest(q)
  BY <1>3 DEF RollBack, latest
<1>5. \A i \in DOMAIN q : q[i] = [value |-> "Pending", height |-> h]
  <2> SUFFICES ASSUME NEW i \in DOMAIN q PROVE q[i] = [value |-> "Pending", height |-> h]
    OBVIOUS
  <2>1. CASE i \in 1..Len(b.status)
    BY <1>2, <1>3, <2>1 DEF PendingOnly, h
  <2>2. CASE i = Len(b.status) + 1
    BY <1>3, <1>4, <2>2
  <2> QED
    BY <1>2, <1>3, <1>4, <2>1, <2>2
<1>6. c.info = "Known" /\ c.status = q
  BY DEF q, r, h
<1>7. c \in Bundle
  BY <1>3 DEF Bundle, q, r, h
<1> QED
  BY <1>2, <1>3, <1>5, <1>6, <1>7 DEF PendingOnly, h

LEMMA PendingNew ==
    ASSUME NEW m, m.height \in Nat, NEW O, O \subseteq OutPoint,
           NEW c, c = [info |-> "Known", spend_utxos |-> O, status |-> new("Pending", m.height)]
    PROVE  c \in Bundle /\ PendingOnly(m, c)
<1> DEFINE q == new("Pending", m.height)
<1>1. "Pending" \in BundleStatus
  BY DEF BundleStatus
<1>2. q \in RollBack(BundleStatus)
  BY <1>1, NewFacts
<1>3. DOMAIN q = {1} /\ q[1] = [value |-> "Pending", height |-> m.height]
  BY DEF new
<1>4. c.info = "Known" /\ c.status = q
  OBVIOUS
<1>5. c \in Bundle
  BY <1>2 DEF Bundle
<1> QED
  BY <1>3, <1>4, <1>5 DEF PendingOnly

LEMMA StoreCases ==
    ASSUME NEW s, DbInv(s), s.height \in Nat,
           EntriesOK(s.withdrawal_bundles, s.height, s.height - 1), Timely(s),
           NEW r, r = store_pending(s)
    PROVE  \/ ~Collects(s) /\ r = s
           \/ \E m, c : Collected(s, m, c, r)
<1>1. CASE ~Collects(s)
  BY <1>1 DEF store_pending
<1>2. CASE Collects(s)
  <2> DEFINE m == collect_withdrawal_bundle(s)
             history == IF HasBundle(s, m) THEN push(StatusOf(s, m), "Pending", s.height)
                        ELSE new("Pending", s.height)
             c == [info |-> "Known", spend_utxos |-> m.spend_utxos, status |-> history]
             w == s.withdrawal_bundles
  <2>1. s = With(s, s.utxos, s.stxos, w, s.pending, s.latest_failed)
    BY StateFields
  <2>2. r = SetPending(PutBundle(s, m, c), {m})
    BY <1>2 DEF store_pending, SetPending
  <2>3. /\ m \in M6id /\ m.height = s.height /\ m.spend_utxos = s.utxos \cap Withdrawals
        /\ m.spend_utxos \subseteq OutPoint
    BY <1>2, CollectFacts
  <2>4. HasBundle(s, m) => w[m] \in Bundle /\ PendingOnly(m, w[m])
    BY <1>2, CollectedBefore, EntryFacts
  <2> HIDE DEF m
  <2>5. c \in Bundle /\ PendingOnly(m, c) /\ (HasBundle(s, m) => Len(c.status) > 1)
    <3>1. CASE HasBundle(s, m)
      <4> DEFINE b == w[m]
                 O == m.spend_utxos
      <4>1. c = [info |-> "Known", spend_utxos |-> O, status |-> push(b.status, "Pending", m.height)]
            /\ b \in Bundle /\ PendingOnly(m, b) /\ m.height \in Nat /\ O \subseteq OutPoint
        BY <2>3, <2>4, <3>1 DEF StatusOf
      <4> HIDE DEF b, c, O
      <4> QED
        BY <4>1, PendingPushed
    <3>2. CASE ~HasBundle(s, m)
      <4> DEFINE O == m.spend_utxos
      <4>1. c = [info |-> "Known", spend_utxos |-> O, status |-> new("Pending", m.height)]
            /\ m.height \in Nat /\ O \subseteq OutPoint
        BY <2>3, <3>2
      <4> HIDE DEF c, O
      <4> QED
        BY <3>2, <4>1, PendingNew
    <3> QED
      BY <3>1, <3>2
  <2> HIDE DEF c, w
  <2>6. PutBundle(s, m, c) = With(s, s.utxos, s.stxos, PutOne(w, m, c), s.pending, s.latest_failed)
    BY <2>1, PutBundleIs
  <2>7. r = With(s, s.utxos, s.stxos, PutOne(w, m, c), {m}, s.latest_failed)
    BY <2>2, <2>6, SetPendingIs
  <2>8. Collected(s, m, c, r)
    BY <1>2, <2>3, <2>4, <2>5, <2>7 DEF Collected, w
  <2> QED
    BY <2>8
<1> QED
  BY <1>1, <1>2

LEMMA PutLike ==
    ASSUME NEW w, NEW m, NEW c, PendingOnly(m, c), m \in DOMAIN w => PendingOnly(m, w[m]),
           m.height \in Nat
    PROVE  LikeW(PutOne(w, m, c), w, m.height)
  BY DEF LikeW, PutOne

\* What the end of connect() stores apart from the pending bundle.
EndIndex(s, i) == IF i = NoIndexEvents THEN s.block_index_events
                  ELSE PutOne(s.block_index_events, s.height, i)

AtEnd(s, d, e, i) ==
    Recorded(s, EndIndex(s, i), OnTop(s.deposit_blocks, d, s.height),
             OnTop(s.event_blocks, e, s.height))

LEMMA AtEndIs ==
    ASSUME NEW s, DbInv(s), s.height \in Nat, NEW d \in Nat, NEW e \in Nat,
           NEW i \in BlockIndexEvents
    PROVE  connect_end(s, d, e, i) = store_pending(AtEnd(s, d, e, i)) /\ DbInv(AtEnd(s, d, e, i))
<1> DEFINE I == EndIndex(s, i)
           D == OnTop(s.deposit_blocks, d, s.height)
           E == OnTop(s.event_blocks, e, s.height)
           a == [s EXCEPT !.block_index_events = I, !.deposit_blocks = D, !.event_blocks = E]
<1>1. connect_end(s, d, e, i) = store_pending(a)
  BY DEF connect_end, EndIndex, OnTop
<1>2. PartialFunction(I, Nat, BlockIndexEvents)
  BY RecordFields DEF PartialFunction, PutOne, EndIndex
<1>3. [hash |-> d, height |-> s.height] \in EventBlock
      /\ [hash |-> e, height |-> s.height] \in EventBlock
  BY DEF EventBlock
<1>4. D \in Seq(EventBlock) /\ E \in Seq(EventBlock)
  BY <1>3, RecordFields DEF OnTop
<1> HIDE DEF I, D, E
<1>5. a = Recorded(s, I, D, E)
  <2> DEFINE a1 == [s EXCEPT !.block_index_events = I]
             a2 == [a1 EXCEPT !.deposit_blocks = D]
  <2>1. a1 = Recorded(s, I, s.deposit_blocks, s.event_blocks)
    BY RecordFields, RecordIndex
  <2> HIDE DEF a1
  <2>2. a2 = Recorded(s, I, D, s.event_blocks)
    BY <2>1, RecordDeposit
  <2> HIDE DEF a2
  <2>3. [a2 EXCEPT !.event_blocks = E] = Recorded(s, I, D, E)
    BY <2>2, RecordEvent
  <2>4. a = [a2 EXCEPT !.event_blocks = E]
    BY DEF a1, a2
  <2> QED
    BY <2>3, <2>4
<1> HIDE DEF a
<1>6. Keeps(s, a)
  BY <1>2, <1>4, <1>5, RecordedKeeps
<1>7. a = AtEnd(s, d, e, i)
  BY <1>5 DEF AtEnd, I, D, E
<1> QED
  BY <1>1, <1>6, <1>7 DEF Keeps

LEMMA RecordedFields ==
    ASSUME NEW s, NEW i, NEW d, NEW e, NEW r, r = Recorded(s, i, d, e)
    PROVE  /\ r.height = s.height /\ r.utxos = s.utxos /\ r.stxos = s.stxos
           /\ r.withdrawal_bundles = s.withdrawal_bundles /\ r.pending = s.pending
           /\ r.latest_failed = s.latest_failed /\ r.deposit_blocks = d
           /\ r.event_blocks = e /\ r.block_index_events = i
  BY DEF Recorded

\* Collecting a bundle raises top.
LEMMA GoodStored ==
    ASSUME NEW s, NEW l, NEW n \in Nat, Good(s, l, n, s.height - 1), s.height \in Nat,
           NEW a, DbInv(a), a.height = s.height, a.utxos = s.utxos, a.stxos = s.stxos,
           a.withdrawal_bundles = s.withdrawal_bundles, a.pending = s.pending,
           a.latest_failed = s.latest_failed, IndexBelow(a.block_index_events, s.height),
           Timely(s), NEW r, DbInv(r), r = store_pending(a)
    PROVE  Good(r, l, n, s.height)
<1> DEFINE w == s.withdrawal_bundles
           h == s.height
           g == h - 1
<1>1. /\ DbInv(s) /\ EntriesOK(w, h, g) /\ PendingBelow(s.pending, w, g)
      /\ FailedOK(s.latest_failed, w, h) /\ LogStatus(w, l, n)
      /\ Spendable(s.utxos, s.stxos, w, s.pending)
  BY DEF Good
<1>2. IsBundles(w) /\ h \in Nat /\ g \in Int /\ g < h /\ s.pending \subseteq DOMAIN w
  BY <1>1, StateFields DEF DbInv, PendingOK
<1>3. EntriesOK(w, h, h)
  <2> SUFFICES ASSUME NEW m \in DOMAIN w PROVE EntryOK(m, w[m], h, h)
    BY DEF EntriesOK
  <2>1. EntryOK(m, w[m], h, g) /\ m.height \in Nat
    BY <1>1, <1>2 DEF EntriesOK, IsBundles, PartialFunction, M6id
  <2>2. CASE w[m].info = "Known" /\ m.height > g
    <3>1. PendingOnly(m, w[m])
      BY <2>1, <2>2 DEF EntryOK
    <3>2. ~(m.height > h) => \A i \in DOMAIN w[m].status : w[m].status[i].height <= h
      BY <1>2, <2>1, <3>1 DEF PendingOnly
    <3> QED
      BY <2>1, <3>1, <3>2 DEF EntryOK
  <2>3. CASE ~(w[m].info = "Known" /\ m.height > g)
    BY <1>2, <2>1, <2>3 DEF EntryOK
  <2> QED
    BY <2>2, <2>3
<1>4. CASE ~Collects(a) /\ r = a
  <2>1. PendingBelow(s.pending, w, h)
    <3>1. \A m \in s.pending : m.height \in Nat /\ latest(w[m].status).height \in Nat
      <4> SUFFICES ASSUME NEW m \in s.pending
                   PROVE  m.height \in Nat /\ latest(w[m].status).height \in Nat
        OBVIOUS
      <4>1. m.height \in Nat /\ w[m] \in Bundle
        BY <1>2 DEF IsBundles, PartialFunction, M6id
      <4> QED
        BY <4>1, LatestShape
    <3> QED
      BY <1>1, <1>2, <3>1 DEF PendingBelow
  <2> QED
    BY <1>1, <1>3, <1>4, <2>1 DEF Good
<1>5. ASSUME NEW m, NEW c, Collected(a, m, c, r) PROVE Good(r, l, n, h)
  <2> DEFINE v == PutOne(w, m, c)
  <2>1. /\ m.height = h /\ m.spend_utxos \subseteq s.utxos /\ PendingOnly(m, c) /\ c \in Bundle
        /\ m \in DOMAIN w => PendingOnly(m, w[m])
        /\ r = With(a, s.utxos, s.stxos, v, {m}, s.latest_failed)
    BY <1>5 DEF Collected, HasBundle
  <2>2. /\ r.utxos = s.utxos /\ r.stxos = s.stxos /\ r.withdrawal_bundles = v /\ r.pending = {m}
        /\ r.latest_failed = s.latest_failed /\ r.height = h
        /\ r.block_index_events = a.block_index_events
    BY <2>1, WithFields
  <2>3. IsBundles(v)
    BY <2>2, StateFields
  <2>4. LikeW(v, w, h)
    BY <1>2, <2>1, PutLike
  <2>5. v[m] = c
    BY DEF PutOne
  <2>6. EntriesOK(v, h, h)
    <3>1. EntryOK(m, c, h, h)
      BY <1>2, <2>1 DEF EntryOK, PendingOnly
    <3> QED
      BY <1>3, <3>1 DEF EntriesOK, PutOne
  <2> HIDE DEF v, w
  <2>7. FailedOK(s.latest_failed, v, h) /\ LogStatus(v, l, n)
    BY <1>1, <1>2, <2>3, <2>4, LikeFailed, LikeLog
  <2>8. Spendable(s.utxos, s.stxos, v, {m})
    BY <2>1 DEF Spendable
  <2>9. PendingBelow({m}, v, h)
    BY <1>2, <2>1, <2>5, PendingOnlyFacts DEF PendingBelow
  <2> QED
    BY <2>2, <2>6, <2>7, <2>8, <2>9 DEF Good
<1>6. EntriesOK(a.withdrawal_bundles, a.height, a.height - 1)
  BY <1>1
<1>7. a.height \in Nat /\ Timely(a)
  BY <1>2, TimelySame
<1>8. (~Collects(a) /\ r = a) \/ \E m, c : Collected(a, m, c, r)
  BY <1>6, <1>7, StoreCases
<1> QED
  BY <1>4, <1>5, <1>8

LEMMA GoodEnd ==
    ASSUME NEW s, NEW l, NEW n \in Nat, Good(s, l, n, s.height - 1), s.height \in Nat, Timely(s),
           NEW d \in Nat, NEW e \in Nat, NEW i \in BlockIndexEvents,
           NEW r, r = connect_end(s, d, e, i)
    PROVE  Good(r, l, n, s.height)
<1> DEFINE a == AtEnd(s, d, e, i)
           h == s.height
<1>1. DbInv(s) /\ IndexBelow(s.block_index_events, h - 1)
  BY DEF Good
<1>2. r = store_pending(a) /\ DbInv(a)
  BY <1>1, AtEndIs
<1>3. DbInv(r)
  BY <1>1, ConnectEndKeeps DEF Keeps
<1>4. /\ a.height = s.height /\ a.utxos = s.utxos /\ a.stxos = s.stxos
      /\ a.withdrawal_bundles = s.withdrawal_bundles /\ a.pending = s.pending
      /\ a.latest_failed = s.latest_failed /\ a.block_index_events = EndIndex(s, i)
  BY RecordedFields DEF AtEnd
<1>5. IndexBelow(EndIndex(s, i), h)
  <2>1. \A k \in DOMAIN s.block_index_events : k \in Nat
    BY <1>1 DEF DbInv, DbOK, PartialFunction
  <2>2. \A k \in DOMAIN s.block_index_events : k <= h
    BY <1>1, <2>1 DEF IndexBelow
  <2> QED
    BY <2>2 DEF IndexBelow, EndIndex, PutOne
<1> HIDE DEF a
<1> QED
  BY <1>2, <1>3, <1>4, <1>5, GoodStored

LEMMA GoodEmpty ==
    ASSUME NEW l
    PROVE  Good(EmptyDb, l, 0, -1)
<1>1. DbInv(EmptyDb)
  BY EmptyConsistent DEF Consistent
<1> DEFINE s == EmptyDb
<1>2. /\ DOMAIN s.withdrawal_bundles = {} /\ s.pending = {} /\ DOMAIN s.latest_failed = {}
      /\ DOMAIN s.block_index_events = {}
  BY DEF EmptyDb
<1> HIDE DEF s
<1>3. /\ EntriesOK(s.withdrawal_bundles, s.height, -1)
      /\ PendingBelow(s.pending, s.withdrawal_bundles, -1)
      /\ FailedOK(s.latest_failed, s.withdrawal_bundles, s.height)
      /\ LogStatus(s.withdrawal_bundles, l, 0)
      /\ Spendable(s.utxos, s.stxos, s.withdrawal_bundles, s.pending)
      /\ IndexBelow(s.block_index_events, -1)
  BY <1>2 DEF EntriesOK, PendingBelow, FailedOK, LogStatus, Spendable, IndexBelow
<1> QED
  BY <1>1, <1>3 DEF Good, s

-----------------------------------------------------------------------------
(***************************************************************************)
(* The events: e may be applied to s.                                      *)
(***************************************************************************)
Follows(s, e) ==
    /\ e \in Event
    /\ e.kind = "Deposit" => deposit(e.deposit) \notin AllOutputs(s.utxos, s.stxos)
    /\ e.kind = "Submitted" => HasBundle(s, e.m6id) \/ e.m6id \in MainBundle
    /\ e.kind \in {"Confirmed", "Failed"} =>
          HasBundle(s, e.m6id) /\ IsSubmitted(LatestStatus(s, e.m6id))

Applies(s, e) == Follows(s, e) /\ ~connect_panics(s, e) /\ ~connect_refused(s, e)

LEMMA EventFacts ==
    ASSUME NEW e \in Event
    PROVE  /\ e.kind \in {"Deposit", "Submitted", "Confirmed", "Failed"}
           /\ e.kind = "Deposit" => e.deposit \in Deposit
           /\ e.kind # "Deposit" => e.m6id \in M6id
  BY DEF Event

\* The status of a bundle reflects the last event about it.
LEMMA LastStatus ==
    ASSUME NEW w, LogOK(log), LogStatus(w, log, Len(log)), NEW m \in M6id, NEW kind,
           LastAbout(m, kind)
    PROVE  m \in DOMAIN w /\ Reflects(latest(w[m].status).value, kind)
<1>1. PICK i \in About(m) : log[i].event.kind = kind /\ \A j \in About(m) : j <= i
  BY DEF LastAbout
<1>2. DOMAIN log = 1..Len(log) /\ Len(log) \in Nat
  BY DEF LogOK
<1>3. i \in 1..Len(log) /\ AboutAt(log, i, m)
  BY <1>1, <1>2 DEF About, AboutAt
<1>4. ASSUME NEW j \in (i + 1)..Len(log), AboutAt(log, j, m) PROVE FALSE
  <2>1. j \in About(m)
    BY <1>2, <1>3, <1>4 DEF About, AboutAt
  <2> QED
    BY <1>1, <1>3, <1>4, <2>1
<1> QED
  BY <1>1, <1>3, <1>4 DEF LogStatus

LEMMA MainEventFollows ==
    ASSUME Consistent(db, chain, log), NEW top, Good(db, log, Len(log), top),
           NEW e \in MainEvents
    PROVE  Follows(db, e)
<1>1. /\ e \in Event
      /\ e.kind \in {"Deposit", "Submitted", "Confirmed", "Failed"}
      /\ e.kind = "Deposit" => /\ e.deposit \in Deposit
                               /\ ~Deposited(e.deposit)
      /\ e.kind # "Deposit" => e.m6id \in M6id
      /\ e.kind = "Submitted" => HasBundle(db, e.m6id) \/ e.m6id \in MainBundle
  BY MainEventFacts
<1>2. e.kind = "Deposit" => deposit(e.deposit) \notin AllOutputs(db.utxos, db.stxos)
  BY <1>1 DEF Consistent, DepositsLogged, Deposited, AllOutputs
<1>3. ASSUME e.kind \in {"Confirmed", "Failed"}
      PROVE  HasBundle(db, e.m6id) /\ IsSubmitted(LatestStatus(db, e.m6id))
  <2> DEFINE m == e.m6id
             w == db.withdrawal_bundles
  <2>1. LastAbout(m, "Submitted") /\ m \in DOMAIN w
    BY <1>3 DEF MainEvents
  <2>2. LogStatus(w, log, Len(log)) /\ LogOK(log) /\ m \in M6id
    BY <1>1, <1>3 DEF Good, Consistent
  <2> HIDE DEF w, m
  <2>3. Reflects(latest(w[m].status).value, "Submitted")
    BY <2>1, <2>2, LastStatus
  <2> QED
    BY <2>1, <2>3 DEF Reflects, HasBundle, LatestStatus, StatusOf, w, m
<1> QED
  BY <1>1, <1>2, <1>3 DEF Follows

\* No assert! of a handler of connect() fails.
LEMMA FollowsPanicFree ==
    ASSUME NEW s, NEW l, NEW n, NEW top \in Int, Good(s, l, n, top), s.height \in Nat,
           NEW e, Follows(s, e)
    PROVE  ~connect_panics(s, e)
<1> DEFINE m == e.m6id
           w == s.withdrawal_bundles
           f == s.latest_failed
           h == s.height
<1>1. /\ DbInv(s) /\ EntriesOK(w, s.height, top) /\ PendingBelow(s.pending, w, top)
      /\ FailedOK(f, w, h)
  BY DEF Good
<1>2. ASSUME HasBundle(s, m), LatestStatus(s, m) # "Pending" \/ m \in s.pending
      PROVE  CanPush(StatusOf(s, m), h)
  <2>1. \A i \in DOMAIN w[m].status : w[m].status[i].height <= h
    BY <1>1, <1>2, InUse
  <2>2. w[m] \in Bundle
    BY <1>1, <1>2, EntryFacts
  <2>3. Len(w[m].status) \in DOMAIN w[m].status /\ latest(w[m].status) = w[m].status[Len(w[m].status)]
    BY <2>2, LatestShape
  <2> QED
    BY <2>1, <2>3 DEF CanPush, StatusOf
<1>3. f # <<>> => CanPush(f, h)
  <2>1. f \in Seq(HeightStamped(M6id))
    BY <1>1, StateFields
  <2>2. f # <<>> => Len(f) \in DOMAIN f
    BY <2>1
  <2> QED
    BY <1>1, <2>2 DEF FailedOK, CanPush, latest
<1>4. e.kind = "Submitted" => ~submitted_panics(s, m)
  <2> SUFFICES ASSUME e.kind = "Submitted", submitted_panics(s, m) PROVE FALSE
    OBVIOUS
  <2>1. HasBundle(s, m)
    BY DEF submitted_panics
  <2>2. CASE IsPending(s, m)
    <3>1. m \in s.pending /\ LatestStatus(s, m) = "Pending"
      BY <1>1, <2>2 DEF IsPending, DbInv, PendingOK, LatestStatus, StatusOf
    <3> QED
      BY <1>2, <2>1, <2>2, <3>1 DEF submitted_panics
  <2>3. CASE ~IsPending(s, m)
    BY <1>2, <2>1, <2>3 DEF submitted_panics
  <2> QED
    BY <2>2, <2>3
<1>5. ASSUME e.kind \in {"Confirmed", "Failed"}
      PROVE  IsSubmitted(LatestStatus(s, m)) /\ CanPush(StatusOf(s, m), h)
  BY <1>2, <1>5 DEF Follows, IsSubmitted
<1>6. e.kind = "Confirmed" => ~confirmed_panics(s, m)
  BY <1>5 DEF confirmed_panics
<1>7. e.kind = "Failed" => ~failed_panics(s, m)
  BY <1>3, <1>5 DEF failed_panics
<1> QED
  BY <1>4, <1>6, <1>7 DEF connect_panics

\* The event that l has at n + 1.
NextIs(l, n, e) == l[n + 1].event = e

\* A handler of connect() keeps Good.
LEMMA GoodEvent ==
    ASSUME NEW s, NEW l, NEW n \in Nat, NEW top \in Int, Good(s, l, n, top),
           s.height \in Nat, top < s.height,
           NEW e, Applies(s, e), NextIs(l, n, e), NEW r, r = connect_2wpd_event(s, e)
    PROVE  Good(r, l, n + 1, top) /\ r.height = s.height
<1>1. DbInv(s)
  BY DEF Good
<1>2. /\ e \in Event /\ e.kind \in {"Deposit", "Submitted", "Confirmed", "Failed"}
      /\ e.kind = "Deposit" => e.deposit \in Deposit
                               /\ deposit(e.deposit) \notin AllOutputs(s.utxos, s.stxos)
      /\ e.kind # "Deposit" => e.m6id \in M6id
      /\ e.kind = "Submitted" => HasBundle(s, e.m6id) \/ e.m6id \in MainBundle
      /\ e.kind \in {"Confirmed", "Failed"} =>
            HasBundle(s, e.m6id) /\ IsSubmitted(LatestStatus(s, e.m6id))
      /\ ~connect_panics(s, e) /\ ~connect_refused(s, e)
  BY EventFacts DEF Applies, Follows
<1>3. e.kind # "Deposit" => NextAbout(l, n, e.m6id, e.kind)
  BY DEF NextAbout, AboutAt, NextIs
<1>4. CASE e.kind = "Deposit"
  <2>1. r = AddUtxo(s, deposit(e.deposit))
    BY <1>4 DEF connect_2wpd_event, AddUtxo
  <2>2. deposit(e.deposit) \notin DOMAIN s.stxos
    BY <1>2, <1>4 DEF AllOutputs
  <2>3. l[n + 1].event.kind = "Deposit"
    BY <1>4 DEF NextIs
  <2>4. r.height = s.height
    BY <1>1, <1>2, <1>4, <2>1, <2>2, ConnectDeposit
  <2> QED
    BY <1>2, <1>4, <2>1, <2>2, <2>3, <2>4, GoodDeposit
<1>5. CASE e.kind = "Submitted"
  <2> DEFINE m == e.m6id
  <2>1. r = connect_withdrawal_bundle_submitted(s, m)
        /\ ~submitted_panics(s, m) /\ ~submitted_refused(s, m)
    BY <1>2, <1>5 DEF connect_2wpd_event, connect_panics, connect_refused
  <2>2. m \in M6id /\ (HasBundle(s, m) \/ m \in MainBundle) /\ NextAbout(l, n, m, "Submitted")
    BY <1>2, <1>3, <1>5
  <2> HIDE DEF m
  <2>3. Keeps(s, r)
    BY <1>1, <2>1, <2>2, ConnectSubmitted
  <2>4. SubmittedPending(s, m, r) \/ SubmittedAgain(s, m, r) \/ SubmittedUnknown(s, m, r)
    BY <1>1, <2>1, <2>2, SubmittedCases
  <2>5. DbInv(r) /\ r.height = s.height
    BY <2>3 DEF Keeps
  <2> QED
    BY <2>2, <2>4, <2>5, GoodSubmitted
<1>6. CASE e.kind = "Confirmed"
  <2> DEFINE m == e.m6id
  <2>1. r = connect_withdrawal_bundle_confirmed(s, m)
        /\ ~confirmed_panics(s, m) /\ ~confirmed_refused(s, m)
    BY <1>2, <1>6 DEF connect_2wpd_event, connect_panics, connect_refused
  <2>2. HasBundle(s, m) /\ IsSubmitted(LatestStatus(s, m)) /\ NextAbout(l, n, m, "Confirmed")
    BY <1>2, <1>3, <1>6
  <2> HIDE DEF m
  <2>3. Keeps(s, r)
    BY <1>1, <2>1, ConnectConfirmed
  <2>4. ConfirmsUnknown(s, m, r) \/ ConfirmsAgain(s, m, r) \/ Confirms(s, m, r)
    BY <1>1, <2>1, <2>2, ConfirmedCases
  <2>5. DbInv(r) /\ r.height = s.height
    BY <2>3 DEF Keeps
  <2> QED
    BY <2>2, <2>4, <2>5, GoodConfirmed
<1>7. CASE e.kind = "Failed"
  <2> DEFINE m == e.m6id
  <2>1. r = connect_withdrawal_bundle_failed(s, m)
        /\ ~failed_panics(s, m) /\ ~failed_refused(s, m)
    BY <1>2, <1>7 DEF connect_2wpd_event, connect_panics, connect_refused
  <2>2. HasBundle(s, m) /\ IsSubmitted(LatestStatus(s, m)) /\ NextAbout(l, n, m, "Failed")
    BY <1>2, <1>3, <1>7
  <2> HIDE DEF m
  <2>3. Keeps(s, r)
    BY <1>1, <2>1, ConnectFailed
  <2>4. Fails(s, m, r) \/ FailsAgain(s, m, r)
    BY <1>1, <2>1, <2>2, FailedCases
  <2>5. DbInv(r) /\ r.height = s.height
    BY <2>3 DEF Keeps
  <2> QED
    BY <2>2, <2>4, <2>5, GoodFailed
<1> QED
  BY <1>2, <1>4, <1>5, <1>6, <1>7

-----------------------------------------------------------------------------
(***************************************************************************)
(* disconnect(): each handler undoes what the handler of connect() did.    *)
(***************************************************************************)
IsFcn(x) == x = [k \in DOMAIN x |-> x[k]]

LEMMA GiveTaken ==
    ASSUME NEW u, NEW x, IsFcn(x), Disjoint(u, x), NEW O, O \subseteq u, NEW m
    PROVE  Joined(u \ O, O) = u /\ DeleteAll(Taken(x, O, m), O) = x
<1> DEFINE y == DeleteAll(Taken(x, O, m), O)
<1>1. Joined(u \ O, O) = u
  BY DEF Joined
<1>2. O \cap DOMAIN x = {}
  BY DEF Disjoint
<1>3. DOMAIN y = DOMAIN x /\ \A k \in DOMAIN x : y[k] = x[k]
  BY <1>2 DEF DeleteAll, Taken, PutAll
<1>4. y = [k \in DOMAIN y |-> y[k]]
  BY DEF DeleteAll
<1> HIDE DEF y
<1>5. y = x
  BY <1>3, <1>4 DEF IsFcn
<1> QED
  BY <1>1, <1>5 DEF y

LEMMA TakeGiven ==
    ASSUME NEW u, NEW x, IsFcn(x), Disjoint(u, x), NEW O, NEW m,
           \A o \in O : o \in DOMAIN x /\ x[o] = ByBundle(m)
    PROVE  Joined(u, O) \ O = u /\ Taken(DeleteAll(x, O), O, m) = x
<1> DEFINE y == Taken(DeleteAll(x, O), O, m)
<1>1. O \cap u = {} /\ O \subseteq DOMAIN x
  BY DEF Disjoint
<1>2. Joined(u, O) \ O = u
  BY <1>1 DEF Joined
<1>3. DOMAIN y = DOMAIN x /\ \A k \in DOMAIN x : y[k] = x[k]
  BY <1>1 DEF DeleteAll, Taken, PutAll
<1>4. y = [k \in DOMAIN y |-> y[k]]
  BY DEF Taken, PutAll
<1> HIDE DEF y
<1>5. y = x
  BY <1>3, <1>4 DEF IsFcn
<1> QED
  BY <1>2, <1>5 DEF y

\* The entry of m goes back to what it was.
Reset(rw, sw, m) == IF m \in DOMAIN sw THEN PutOne(rw, m, sw[m]) ELSE DeleteAll(rw, {m})

LEMMA ResetLike ==
    ASSUME NEW rw, NEW sw, NEW m, NEW b, NEW h, LikeW(rw, PutOne(sw, m, b), h)
    PROVE  LikeW(Reset(rw, sw, m), sw, h)
<1> DEFINE v == PutOne(sw, m, b)
           q == Reset(rw, sw, m)
<1>1. /\ DOMAIN v = DOMAIN sw \cup {m} /\ \A k \in DOMAIN sw : k # m => v[k] = sw[k]
  BY DEF PutOne
<1>2. /\ DOMAIN q \subseteq DOMAIN rw /\ DOMAIN sw \subseteq DOMAIN q
      /\ m \in DOMAIN q => m \in DOMAIN sw /\ q[m] = sw[m]
      /\ \A k \in DOMAIN q : k # m => q[k] = rw[k]
  BY <1>1 DEF Reset, PutOne, DeleteAll, LikeW
<1> HIDE DEF v, q
<1>3. LikeW(rw, v, h)
  BY DEF v
<1>4. LikeW(q, sw, h)
  BY <1>1, <1>2, <1>3 DEF LikeW
<1> QED
  BY <1>4 DEF q

\* The heights of the latest failure.
LEMMA PushHeight ==
    ASSUME NEW b \in Bundle, NEW v \in BundleStatus, NEW h \in Nat,
           NEW c, c = PushStatus(b, v, h)
    PROVE  /\ v = "Failed" => LatestHeightOf(c.status, "Failed") = h
           /\ v # "Failed" /\ Records(b.status, "Failed") =>
                LatestHeightOf(c.status, "Failed") = LatestHeightOf(b.status, "Failed")
<1> DEFINE q == c.status
           r == b.status
<1>1. /\ q \in Seq(HeightStamped(BundleStatus)) /\ r \in Seq(HeightStamped(BundleStatus))
      /\ Len(r) \in Nat /\ DOMAIN r = 1..Len(r)
  <2>1. c \in Bundle
    BY PushShape
  <2> QED
    BY <2>1, EntryShape
<1>2. /\ DOMAIN q = DOMAIN r \cup {Len(r) + 1}
      /\ q[Len(r) + 1] = [value |-> v, height |-> h]
      /\ \A i \in DOMAIN r : q[i] = r[i]
  BY PushShape
<1> HIDE DEF q, r
<1>3. ASSUME v = "Failed" PROVE LatestHeightOf(q, "Failed") = h
  <2> DEFINE i == Len(r) + 1
  <2>1. i \in DOMAIN q /\ q[i].value = "Failed" /\ q[i].height = h
        /\ \A j \in DOMAIN q : j > i => q[j].value # "Failed"
    BY <1>1, <1>2, <1>3
  <2> HIDE DEF i
  <2> QED
    BY <1>1, <2>1, LatestHeightIs
<1>4. ASSUME v # "Failed", Records(r, "Failed")
      PROVE  LatestHeightOf(q, "Failed") = LatestHeightOf(r, "Failed")
  <2>1. PICK i \in DOMAIN r : /\ r[i].value = "Failed"
                              /\ \A j \in DOMAIN r : j > i => r[j].value # "Failed"
                              /\ LatestHeightOf(r, "Failed") = r[i].height
    BY <1>1, <1>4, LatestHeight
  <2>2. i \in DOMAIN q /\ q[i].value = "Failed" /\ q[i].height = r[i].height
        /\ \A j \in DOMAIN q : j > i => q[j].value # "Failed"
    BY <1>1, <1>2, <1>4, <2>1
  <2>3. LatestHeightOf(q, "Failed") = q[i].height
    BY <1>1, <2>2, LatestHeightIs
  <2> QED
    BY <2>1, <2>2, <2>3
<1> QED
  BY <1>3, <1>4 DEF q, r

FailureHeight(f, w) ==
    IF f = <<>> THEN 0 ELSE LatestHeightOf(w[latest(f).value].status, "Failed")

LEMMA FailureHeightIs ==
    ASSUME NEW s
    PROVE  /\ LatestFailureHeight(s) = FailureHeight(s.latest_failed, s.withdrawal_bundles)
           /\ GapElapsed(s) <=> s.height - FailureHeight(s.latest_failed, s.withdrawal_bundles) >= GAP
  BY DEF LatestFailureHeight, GapElapsed, FailureHeight, StatusOf

LEMMA FailedLast ==
    ASSUME NEW f \in Seq(HeightStamped(M6id)), f # <<>>, NEW w, IsBundles(w), NEW h \in Int,
           FailedOK(f, w, h)
    PROVE  /\ latest(f).value \in DOMAIN w /\ w[latest(f).value] \in Bundle
           /\ w[latest(f).value].info = "Known"
           /\ Records(w[latest(f).value].status, "Failed")
<1>1. Len(f) \in DOMAIN f
  OBVIOUS
<1> QED
  BY <1>1 DEF FailedOK, latest, IsBundles, PartialFunction

LEMMA FailureHeightNat ==
    ASSUME NEW f \in Seq(HeightStamped(M6id)), NEW w, IsBundles(w), NEW h \in Int,
           FailedOK(f, w, h)
    PROVE  FailureHeight(f, w) \in Nat
<1>1. CASE f = <<>>
  BY <1>1 DEF FailureHeight
<1>2. CASE f # <<>>
  <2> DEFINE k == latest(f).value
             b == w[k]
  <2>1. b \in Bundle /\ Records(b.status, "Failed")
    BY <1>2, FailedLast
  <2>2. FailureHeight(f, w) = LatestHeightOf(b.status, "Failed")
    BY <1>2 DEF FailureHeight
  <2> HIDE DEF b
  <2>3. b.status \in Seq(HeightStamped(BundleStatus))
        /\ \A i \in DOMAIN b.status : b.status[i].height \in Nat
    BY <2>1, EntryShape
  <2>4. \E i \in DOMAIN b.status : LatestHeightOf(b.status, "Failed") = b.status[i].height
    BY <2>1, <2>3, LatestHeight
  <2> QED
    BY <2>2, <2>3, <2>4
<1> QED
  BY <1>1, <1>2

\* b is the entry a with a status of height h on top.
Extends(b, a, h) ==
    /\ \E v \in BundleStatus : b = PushStatus(a, v, h)
    /\ \A i \in DOMAIN a.status : a.status[i].height <= h

\* Applying an event never lowers the height of the latest failure.
LEMMA FailureHeightGrows ==
    ASSUME NEW f \in Seq(HeightStamped(M6id)), NEW w, IsBundles(w), NEW h \in Nat,
           FailedOK(f, w, h), NEW m, NEW b,
           m \in DOMAIN w /\ w[m].info = "Known" => Extends(b, w[m], h)
    PROVE  /\ FailureHeight(f, w) \in Nat /\ FailureHeight(f, PutOne(w, m, b)) \in Nat
           /\ FailureHeight(f, w) <= FailureHeight(f, PutOne(w, m, b))
<1>1. FailureHeight(f, w) \in Nat
  BY FailureHeightNat
<1>2. CASE f = <<>>
  BY <1>2 DEF FailureHeight
<1>3. CASE f # <<>> /\ latest(f).value # m
  <2>1. latest(f).value \in DOMAIN w
    BY <1>3, FailedLast
  <2>2. PutOne(w, m, b)[latest(f).value] = w[latest(f).value]
    BY <1>3, <2>1 DEF PutOne
  <2>3. FailureHeight(f, PutOne(w, m, b)) = FailureHeight(f, w)
    BY <1>3, <2>2 DEF FailureHeight
  <2> QED
    BY <1>1, <2>3
<1>4. CASE f # <<>> /\ latest(f).value = m
  <2> DEFINE a == w[m]
  <2>1. m \in DOMAIN w /\ a \in Bundle /\ a.info = "Known" /\ Records(a.status, "Failed")
    BY <1>4, FailedLast
  <2>2. Extends(b, a, h)
    BY <2>1
  <2>3. FailureHeight(f, PutOne(w, m, b)) = LatestHeightOf(b.status, "Failed")
    BY <1>4 DEF FailureHeight, PutOne
  <2>4. FailureHeight(f, w) = LatestHeightOf(a.status, "Failed")
    BY <1>4 DEF FailureHeight
  <2> HIDE DEF a
  <2>5. PICK v \in BundleStatus : b = PushStatus(a, v, h)
    BY <2>2 DEF Extends
  <2>6. /\ v = "Failed" => LatestHeightOf(b.status, "Failed") = h
        /\ v # "Failed" => LatestHeightOf(b.status, "Failed") = LatestHeightOf(a.status, "Failed")
    BY <2>1, <2>5, PushHeight
  <2>7. LatestHeightOf(a.status, "Failed") <= h
    <3>1. a.status \in Seq(HeightStamped(BundleStatus))
      BY <2>1, EntryShape
    <3>2. \E i \in DOMAIN a.status : LatestHeightOf(a.status, "Failed") = a.status[i].height
      BY <2>1, <3>1, LatestHeight
    <3> QED
      BY <2>2, <3>2 DEF Extends
  <2> QED
    BY <1>1, <2>3, <2>4, <2>6, <2>7
<1> QED
  BY <1>2, <1>3, <1>4

LEMMA GapBefore ==
    ASSUME NEW s, DbInv(s), s.height \in Nat, NEW top,
           FailedOK(s.latest_failed, s.withdrawal_bundles, s.height),
           NEW m, NEW b, HasBundle(s, m) /\ s.withdrawal_bundles[m].info = "Known" =>
                             Extends(b, s.withdrawal_bundles[m], s.height),
           NEW t, t.height = s.height, t.latest_failed = s.latest_failed,
           t.withdrawal_bundles = PutOne(s.withdrawal_bundles, m, b), GapElapsed(t)
    PROVE  GapElapsed(s)
<1> DEFINE f == s.latest_failed
           w == s.withdrawal_bundles
           h == s.height
           v == PutOne(w, m, b)
<1>1. f \in Seq(HeightStamped(M6id)) /\ IsBundles(w) /\ h \in Nat /\ FailedOK(f, w, h)
      /\ (m \in DOMAIN w /\ w[m].info = "Known" => Extends(b, w[m], h))
  BY StateFields DEF HasBundle
<1>2. h - FailureHeight(f, v) >= GAP
  BY FailureHeightIs
<1>3. GAP \in Nat
  BY TwoWayPegAssumption
<1> HIDE DEF f, w, h
<1>4. FailureHeight(f, w) \in Nat /\ FailureHeight(f, v) \in Nat
      /\ FailureHeight(f, w) <= FailureHeight(f, v)
  BY <1>1, FailureHeightGrows
<1> HIDE DEF v
<1>5. h - FailureHeight(f, w) >= GAP
  BY <1>1, <1>2, <1>3, <1>4
<1> QED
  BY <1>5, FailureHeightIs DEF f, w, h

\* A failure just applied leaves no gap.
LEMMA NoGapAfterFailure ==
    ASSUME NEW f \in Seq(HeightStamped(M6id)), NEW m \in M6id, NEW h \in Nat, NEW w, NEW a \in Bundle,
           NEW t, t.height = h, t.latest_failed = push(f, m, h),
           t.withdrawal_bundles = PutOne(w, m, PushStatus(a, "Failed", h))
    PROVE  ~GapElapsed(t)
<1> DEFINE g == push(f, m, h)
           b == PushStatus(a, "Failed", h)
           v == PutOne(w, m, b)
<1>1. g \in RollBack(M6id) /\ latest(g) = [value |-> m, height |-> h]
  BY PushFacts
<1>2. "Failed" \in BundleStatus
  BY DEF BundleStatus
<1>3. LatestHeightOf(b.status, "Failed") = h
  <2> HIDE DEF b
  <2>1. b = PushStatus(a, "Failed", h)
    BY DEF b
  <2> QED
    BY <1>2, <2>1, PushHeight
<1>4. v[m] = b
  BY DEF PutOne
<1> HIDE DEF g, b, v
<1>5. FailureHeight(g, v) = h
  BY <1>1, <1>3, <1>4 DEF FailureHeight, RollBack
<1>6. GAP \in Nat \ {0}
  BY TwoWayPegAssumption
<1>7. GapElapsed(t) => h - FailureHeight(g, v) >= GAP
  BY FailureHeightIs DEF g, b, v
<1> QED
  BY <1>5, <1>6, <1>7

\* What the bundle that the block collected looks like after one more event
\* has been undone.
LEMMA UndoPending ==
    ASSUME NEW s, NEW t, NEW r, NEW q, NEW m, NEW b,
           PendingNear(r, t), t.pending = s.pending, q.pending = r.pending,
           t.height = s.height, GapElapsed(t) => GapElapsed(s),
           GapElapsed(t) => t.utxos \cap Withdrawals \subseteq s.utxos,
           IsBundles(r.withdrawal_bundles), m \in DOMAIN r.withdrawal_bundles,
           r.pending \subseteq DOMAIN r.withdrawal_bundles,
           latest(r.withdrawal_bundles[m].status).value # "Pending",
           t.withdrawal_bundles = PutOne(s.withdrawal_bundles, m, b),
           q.withdrawal_bundles = Reset(r.withdrawal_bundles, s.withdrawal_bundles, m)
    PROVE  PendingNear(q, s)
<1>1. CASE r.pending = t.pending
  BY <1>1 DEF PendingNear
<1>2. ASSUME NEW k \in r.pending, StillPending(r, t, k)
      PROVE  PendingNear(q, s)
  <2>1. r.withdrawal_bundles[k] \in Bundle
    BY DEF IsBundles, PartialFunction
  <2>2. k # m
    BY <1>2, <2>1, PendingOnlyFacts DEF StillPending
  <2>3. q.withdrawal_bundles[k] = r.withdrawal_bundles[k]
    BY <2>2 DEF Reset, PutOne, DeleteAll
  <2>4. HasBundle(s, k) => HasBundle(t, k) /\ t.withdrawal_bundles[k] = s.withdrawal_bundles[k]
    BY <2>2 DEF HasBundle, PutOne
  <2>5. StillPending(q, s, k)
    BY <1>2, <2>3, <2>4 DEF StillPending
  <2> QED
    BY <2>5 DEF PendingNear
<1> QED
  BY <1>1, <1>2 DEF PendingNear

\* r has what t has, as far as an event about m can see.
Sees(r, t, m) ==
    /\ HasBundle(r, m) /\ r.withdrawal_bundles[m] = t.withdrawal_bundles[m]
    /\ r.height = t.height /\ r.utxos = t.utxos /\ r.stxos = t.stxos
    /\ r.latest_failed = t.latest_failed

\* ... which is the state s, but for the bundles and what is pending.
Undone1(q, r, s, m, p) ==
    q = With(r, s.utxos, s.stxos, Reset(r.withdrawal_bundles, s.withdrawal_bundles, m), p,
             s.latest_failed)

\* The top of the history of m, seen from r: v, over the history that s has.
LEMMA PushedFacts ==
    ASSUME NEW s, DbInv(s), s.height \in Nat, NEW m, HasBundle(s, m), NEW v \in BundleStatus,
           NEW r, r.withdrawal_bundles[m] = Pushed(s, m, v), r.height = s.height
    PROVE  /\ LatestStatus(r, m) = v /\ LatestIsOfTip(r, m)
           /\ HasUnder(r, m) /\ UnderStatus(r, m) = LatestStatus(s, m)
           /\ r.withdrawal_bundles[m].info = s.withdrawal_bundles[m].info
           /\ r.withdrawal_bundles[m].spend_utxos = s.withdrawal_bundles[m].spend_utxos
<1> DEFINE a == s.withdrawal_bundles[m]
           b == r.withdrawal_bundles[m]
           h == s.height
<1>1. a \in Bundle /\ LatestStatus(s, m) = latest(a.status).value
  BY EntryFacts
<1>2. b = PushStatus(a, v, h) /\ h \in Nat
  BY DEF Pushed
<1>3. /\ LatestStatus(r, m) = latest(b.status).value
      /\ LatestIsOfTip(r, m) <=> latest(b.status).height = h
      /\ HasUnder(r, m) <=> popped(b.status) # <<>>
      /\ UnderStatus(r, m) = latest(popped(b.status)).value
  BY DEF LatestStatus, StatusOf, LatestIsOfTip, HasUnder, Under, UnderStatus
<1> HIDE DEF a, b, h
<1>4. latest(b.status) = [value |-> v, height |-> h] /\ b.info = a.info
      /\ b.spend_utxos = a.spend_utxos
  BY <1>1, <1>2, PushShape
<1>5. popped(b.status) = a.status
  BY <1>1, <1>2, PopPushed
<1>6. a.status # <<>>
  BY <1>1, EntryShape
<1> QED
  BY <1>1, <1>3, <1>4, <1>5, <1>6 DEF a, b

LEMMA PushedPops ==
    ASSUME NEW s, DbInv(s), s.height \in Nat, NEW m, HasBundle(s, m), NEW v \in BundleStatus
    PROVE  PopStatus(Pushed(s, m, v)) = s.withdrawal_bundles[m]
<1> DEFINE a == s.withdrawal_bundles[m]
           b == Pushed(s, m, v)
           h == s.height
<1>1. a \in Bundle
  BY EntryFacts
<1>2. b = PushStatus(a, v, h) /\ h \in Nat
  BY DEF Pushed
<1> HIDE DEF a, b, h
<1>3. b = [info |-> a.info, spend_utxos |-> a.spend_utxos, status |-> b.status]
  <2>1. b \in Bundle /\ b.info = a.info /\ b.spend_utxos = a.spend_utxos
    BY <1>1, <1>2, PushEntry
  <2> QED
    BY <2>1, EntryShape
<1>4. popped(b.status) = a.status
  BY <1>1, <1>2, PopPushed
<1>5. PopStatus(b) = [info |-> a.info, spend_utxos |-> a.spend_utxos, status |-> popped(b.status)]
  BY <1>3 DEF PopStatus
<1>6. a = [info |-> a.info, spend_utxos |-> a.spend_utxos, status |-> a.status]
  BY <1>1, EntryShape
<1> QED
  BY <1>4, <1>5, <1>6 DEF a, b

LEMMA TakesFields ==
    ASSUME NEW s, NEW m, NEW b, NEW O, NEW p, NEW t, Takes(s, m, b, O, p, t)
    PROVE  /\ t.height = s.height /\ t.utxos = s.utxos \ O /\ t.stxos = Taken(s.stxos, O, m)
           /\ t.withdrawal_bundles = PutOne(s.withdrawal_bundles, m, b)
           /\ t.withdrawal_bundles[m] = b
           /\ t.pending = p /\ t.latest_failed = s.latest_failed
  BY WithFields DEF Takes, PutOne

LEMMA GivesFields ==
    ASSUME NEW s, NEW m, NEW b, NEW O, NEW t, Gives(s, m, b, O, t)
    PROVE  /\ t.height = s.height /\ t.utxos = Joined(s.utxos, O)
           /\ t.stxos = DeleteAll(s.stxos, O)
           /\ t.withdrawal_bundles = PutOne(s.withdrawal_bundles, m, b)
           /\ t.withdrawal_bundles[m] = b
           /\ t.pending = s.pending /\ t.latest_failed = push(s.latest_failed, m, s.height)
  BY WithFields DEF Gives, PutOne

LEMMA EntersFields ==
    ASSUME NEW s, NEW m, NEW b, NEW t, Enters(s, m, b, t)
    PROVE  /\ t.height = s.height /\ t.utxos = s.utxos /\ t.stxos = s.stxos
           /\ t.withdrawal_bundles = PutOne(s.withdrawal_bundles, m, b)
           /\ t.withdrawal_bundles[m] = b
           /\ t.pending = s.pending /\ t.latest_failed = s.latest_failed
  BY WithFields DEF Enters, PutOne

LEMMA UndoSubmittedPending ==
    ASSUME NEW s, DbInv(s), s.height \in Nat, IsFcn(s.stxos), NEW m, NEW t,
           SubmittedPending(s, m, t), NEW r, DbInv(r), Sees(r, t, m),
           NEW q, q = disconnect_withdrawal_bundle_submitted(r, m)
    PROVE  /\ ~undo_submitted_panics(r, m) /\ ~undo_submitted_refused(r, m)
           /\ Undone1(q, r, s, m, s.pending)
<1> DEFINE O == m.spend_utxos
           b == Pushed(s, m, "Submitted")
           u == s.utxos
           x == s.stxos
           w == r.withdrawal_bundles
           a == s.withdrawal_bundles[m]
           f == s.latest_failed
<1>1. /\ HasBundle(s, m) /\ m \in s.pending /\ a.info = "Known" /\ LatestStatus(s, m) = "Pending"
      /\ O \subseteq u /\ Takes(s, m, b, O, {}, t)
  BY DEF SubmittedPending
<1>2. "Submitted" \in BundleStatus
  BY DEF BundleStatus
<1>3. /\ r.height = s.height /\ r.utxos = u \ O /\ r.stxos = Taken(x, O, m)
      /\ w[m] = b /\ r.latest_failed = f /\ HasBundle(r, m)
  BY <1>1, TakesFields DEF Sees
<1>4. /\ LatestStatus(r, m) = "Submitted" /\ LatestIsOfTip(r, m)
      /\ HasUnder(r, m) /\ UnderStatus(r, m) = "Pending" /\ w[m].info = "Known"
  BY <1>1, <1>2, <1>3, PushedFacts
<1>5. PopStatus(w[m]) = a
  BY <1>1, <1>2, <1>3, PushedPops
<1>6. WasPending(r, m)
  BY <1>4 DEF WasPending
<1>7. O \subseteq DOMAIN r.stxos
  BY <1>3 DEF Taken, PutAll
<1>8. ~undo_submitted_panics(r, m) /\ ~undo_submitted_refused(r, m)
  BY <1>3, <1>4, <1>7 DEF undo_submitted_panics, undo_submitted_refused, IsSubmitted
<1>9. s.pending = {m}
  BY <1>1 DEF DbInv, PendingOK
<1>10. q = PutBundle(SetPending(Unspend(r, O), {m}), m, a)
  BY <1>3, <1>4, <1>5, <1>6 DEF disconnect_withdrawal_bundle_submitted, SetPending
<1>11. r = With(r, u \ O, Taken(x, O, m), w, r.pending, f)
  BY <1>3, StateFields
<1>12. Joined(u \ O, O) = u /\ DeleteAll(Taken(x, O, m), O) = x
  <2>1. Disjoint(u, x)
    BY StateFields
  <2> QED
    BY <1>1, <2>1, GiveTaken
<1>13. Reset(w, s.withdrawal_bundles, m) = PutOne(w, m, a)
  BY <1>1 DEF Reset, HasBundle
<1> HIDE DEF O, u, x, w, a, f, b
<1>14. Unspend(r, O) = With(r, u, x, w, r.pending, f)
  BY <1>11, <1>12, UnspendIs
<1>15. SetPending(Unspend(r, O), {m}) = With(r, u, x, w, {m}, f)
  BY <1>14, SetPendingIs
<1>16. q = With(r, u, x, PutOne(w, m, a), {m}, f)
  BY <1>10, <1>15, PutBundleIs
<1> QED
  BY <1>8, <1>9, <1>13, <1>16 DEF Undone1, u, x, w, f

LEMMA UndoPut ==
    ASSUME NEW s, NEW m, HasBundle(s, m), NEW r, DbInv(r),
           r.utxos = s.utxos, r.stxos = s.stxos, r.latest_failed = s.latest_failed,
           NEW q, q = PutBundle(r, m, s.withdrawal_bundles[m])
    PROVE  Undone1(q, r, s, m, r.pending)
<1> DEFINE u == s.utxos
           x == s.stxos
           w == r.withdrawal_bundles
           f == s.latest_failed
           a == s.withdrawal_bundles[m]
<1>1. r = With(r, u, x, w, r.pending, f)
  BY StateFields
<1>2. Reset(w, s.withdrawal_bundles, m) = PutOne(w, m, a)
  BY DEF Reset, HasBundle
<1> HIDE DEF u, x, w, f, a
<1>3. q = With(r, u, x, PutOne(w, m, a), r.pending, f)
  BY <1>1, PutBundleIs DEF a
<1> QED
  BY <1>2, <1>3 DEF Undone1, u, x, w, f

LEMMA UndoSubmittedAgain ==
    ASSUME NEW s, DbInv(s), s.height \in Nat, NEW m, NEW t,
           SubmittedAgain(s, m, t), NEW r, DbInv(r), Sees(r, t, m),
           NEW q, q = disconnect_withdrawal_bundle_submitted(r, m)
    PROVE  /\ ~undo_submitted_panics(r, m) /\ ~undo_submitted_refused(r, m)
           /\ Undone1(q, r, s, m, r.pending)
<1> DEFINE b == Pushed(s, m, "SubmittedUnexpected")
           w == r.withdrawal_bundles
           a == s.withdrawal_bundles[m]
<1>1. HasBundle(s, m) /\ LatestStatus(s, m) = "Failed" /\ Enters(s, m, b, t)
  BY DEF SubmittedAgain
<1>2. "SubmittedUnexpected" \in BundleStatus
  BY DEF BundleStatus
<1>3. /\ r.height = s.height /\ r.utxos = s.utxos /\ r.stxos = s.stxos
      /\ w[m] = b /\ r.latest_failed = s.latest_failed /\ HasBundle(r, m)
  BY <1>1, EntersFields DEF Sees
<1>4. /\ LatestStatus(r, m) = "SubmittedUnexpected" /\ LatestIsOfTip(r, m)
      /\ HasUnder(r, m) /\ UnderStatus(r, m) = "Failed"
  BY <1>1, <1>2, <1>3, PushedFacts
<1>5. PopStatus(w[m]) = a
  BY <1>1, <1>2, <1>3, PushedPops
<1>6. ~WasPending(r, m)
  BY <1>4 DEF WasPending
<1>7. ~undo_submitted_panics(r, m) /\ ~undo_submitted_refused(r, m)
  BY <1>3, <1>4, <1>6 DEF undo_submitted_panics, undo_submitted_refused, IsSubmitted
<1>8. q = PutBundle(r, m, a)
  BY <1>3, <1>4, <1>5, <1>6 DEF disconnect_withdrawal_bundle_submitted
<1>9. Undone1(q, r, s, m, r.pending)
  BY <1>1, <1>3, <1>8, UndoPut
<1> QED
  BY <1>7, <1>9

LEMMA UnknownFacts ==
    ASSUME NEW h \in Nat, NEW r, r.height = h, NEW m,
           r.withdrawal_bundles[m] = UnknownEntry(h)
    PROVE  /\ LatestStatus(r, m) = "Submitted" /\ LatestIsOfTip(r, m)
           /\ ~HasUnder(r, m) /\ ~WasPending(r, m)
<1> DEFINE v == new("Submitted", h)
<1>1. "Submitted" \in BundleStatus
  BY DEF BundleStatus
<1>2. latest(v) = [value |-> "Submitted", height |-> h] /\ popped(v) = <<>>
  BY <1>1, NewFacts, PopNew
<1>3. r.withdrawal_bundles[m].status = v /\ r.withdrawal_bundles[m].info = "Unknown"
  BY DEF UnknownEntry
<1> HIDE DEF v
<1> QED
  BY <1>2, <1>3 DEF LatestStatus, StatusOf, LatestIsOfTip, HasUnder, Under, WasPending

LEMMA UndoSubmittedUnknown ==
    ASSUME NEW s, DbInv(s), s.height \in Nat, NEW m, NEW t,
           SubmittedUnknown(s, m, t), NEW r, DbInv(r), Sees(r, t, m),
           NEW q, q = disconnect_withdrawal_bundle_submitted(r, m)
    PROVE  /\ ~undo_submitted_panics(r, m) /\ ~undo_submitted_refused(r, m)
           /\ Undone1(q, r, s, m, r.pending)
<1> DEFINE h == s.height
           b == UnknownEntry(h)
           w == r.withdrawal_bundles
           u == s.utxos
           x == s.stxos
           f == s.latest_failed
<1>1. ~HasBundle(s, m) /\ Enters(s, m, b, t)
  BY DEF SubmittedUnknown
<1>2. /\ r.height = h /\ r.utxos = s.utxos /\ r.stxos = s.stxos
      /\ w[m] = b /\ r.latest_failed = s.latest_failed /\ HasBundle(r, m)
  BY <1>1, EntersFields DEF Sees
<1>3. h \in Nat
  OBVIOUS
<1> HIDE DEF h
<1>4. /\ LatestStatus(r, m) = "Submitted" /\ LatestIsOfTip(r, m)
      /\ ~HasUnder(r, m) /\ ~WasPending(r, m)
  BY <1>2, <1>3, UnknownFacts
<1>5. ~undo_submitted_panics(r, m) /\ ~undo_submitted_refused(r, m)
  BY <1>2, <1>4 DEF undo_submitted_panics, undo_submitted_refused, IsSubmitted
<1>6. q = SetBundles(r, DeleteAll(w, {m}))
  BY <1>2, <1>4 DEF disconnect_withdrawal_bundle_submitted, SetBundles
<1>7. r = With(r, u, x, w, r.pending, f)
  BY <1>2, StateFields
<1>8. Reset(w, s.withdrawal_bundles, m) = DeleteAll(w, {m})
  BY <1>1 DEF Reset, HasBundle
<1> HIDE DEF u, x, w, f
<1>9. q = With(r, u, x, DeleteAll(w, {m}), r.pending, f)
  BY <1>6, <1>7, SetBundlesIs
<1> QED
  BY <1>5, <1>8, <1>9 DEF Undone1, u, x, w, f

\* m gives back the outputs O that it took.
LEMMA UndoTake ==
    ASSUME NEW s, DbInv(s), IsFcn(s.stxos), NEW m, HasBundle(s, m), NEW O, O \subseteq s.utxos,
           NEW r, DbInv(r), r.utxos = s.utxos \ O, r.stxos = Taken(s.stxos, O, m),
           r.latest_failed = s.latest_failed,
           NEW q, q = PutBundle(Unspend(r, O), m, s.withdrawal_bundles[m])
    PROVE  O \subseteq DOMAIN r.stxos /\ Undone1(q, r, s, m, r.pending)
<1> DEFINE u == s.utxos
           x == s.stxos
           w == r.withdrawal_bundles
           f == s.latest_failed
           a == s.withdrawal_bundles[m]
<1>1. r = With(r, u \ O, Taken(x, O, m), w, r.pending, f)
  BY StateFields
<1>2. Joined(u \ O, O) = u /\ DeleteAll(Taken(x, O, m), O) = x
  <2>1. Disjoint(u, x)
    BY StateFields
  <2> QED
    BY <2>1, GiveTaken
<1>3. Reset(w, s.withdrawal_bundles, m) = PutOne(w, m, a)
  BY DEF Reset, HasBundle
<1>4. O \subseteq DOMAIN r.stxos
  BY DEF Taken, PutAll
<1> HIDE DEF u, x, w, f, a
<1>5. Unspend(r, O) = With(r, u, x, w, r.pending, f)
  BY <1>1, <1>2, UnspendIs
<1>6. q = With(r, u, x, PutOne(w, m, a), r.pending, f)
  BY <1>5, PutBundleIs DEF a
<1> QED
  BY <1>3, <1>4, <1>6 DEF Undone1, u, x, w, f

LEMMA UndoConfirmsAgain ==
    ASSUME NEW s, DbInv(s), s.height \in Nat, IsFcn(s.stxos), NEW m, NEW t,
           ConfirmsAgain(s, m, t), NEW r, DbInv(r), Sees(r, t, m),
           NEW q, q = disconnect_withdrawal_bundle_confirmed(r, m)
    PROVE  /\ ~undo_confirmed_panics(r, m) /\ ~undo_confirmed_refused(r, m)
           /\ Undone1(q, r, s, m, r.pending)
<1> DEFINE b == Pushed(s, m, "Confirmed")
           w == r.withdrawal_bundles
           a == s.withdrawal_bundles[m]
           O == a.spend_utxos
<1>1. /\ HasBundle(s, m) /\ a.info = "Known" /\ LatestStatus(s, m) = "SubmittedUnexpected"
      /\ O \subseteq s.utxos /\ Takes(s, m, b, O, s.pending, t)
  BY DEF ConfirmsAgain
<1>2. "Confirmed" \in BundleStatus
  BY DEF BundleStatus
<1>3. /\ r.height = s.height /\ r.utxos = s.utxos \ O /\ r.stxos = Taken(s.stxos, O, m)
      /\ w[m] = b /\ r.latest_failed = s.latest_failed /\ HasBundle(r, m)
  BY <1>1, TakesFields DEF Sees
<1>4. /\ LatestStatus(r, m) = "Confirmed" /\ LatestIsOfTip(r, m)
      /\ HasUnder(r, m) /\ UnderStatus(r, m) = "SubmittedUnexpected"
      /\ w[m].info = "Known" /\ w[m].spend_utxos = O
  BY <1>1, <1>2, <1>3, PushedFacts
<1>5. PopStatus(w[m]) = a
  BY <1>1, <1>2, <1>3, PushedPops
<1>6. ConfirmationSpent(r, m) = O
  BY <1>4 DEF ConfirmationSpent
<1>7. q = PutBundle(Unspend(r, O), m, a)
  BY <1>4, <1>5, <1>6 DEF disconnect_withdrawal_bundle_confirmed, IsSubmitted
<1> HIDE DEF O
<1>8. O \subseteq DOMAIN r.stxos /\ Undone1(q, r, s, m, r.pending)
  BY <1>1, <1>3, <1>7, UndoTake
<1>9. ~undo_confirmed_panics(r, m) /\ ~undo_confirmed_refused(r, m)
  BY <1>3, <1>4, <1>6, <1>8 DEF undo_confirmed_panics, undo_confirmed_refused, IsSubmitted
<1> QED
  BY <1>8, <1>9

LEMMA UndoConfirms ==
    ASSUME NEW s, DbInv(s), s.height \in Nat, IsFcn(s.stxos), NEW m, NEW t,
           Confirms(s, m, t), NEW r, DbInv(r), Sees(r, t, m),
           NEW q, q = disconnect_withdrawal_bundle_confirmed(r, m)
    PROVE  /\ ~undo_confirmed_panics(r, m) /\ ~undo_confirmed_refused(r, m)
           /\ Undone1(q, r, s, m, r.pending)
<1> DEFINE b == Pushed(s, m, "Confirmed")
           w == r.withdrawal_bundles
           a == s.withdrawal_bundles[m]
           O == {}
<1>1. /\ HasBundle(s, m) /\ a.info = "Known" /\ LatestStatus(s, m) = "Submitted"
      /\ Enters(s, m, b, t)
  BY DEF Confirms
<1>2. "Confirmed" \in BundleStatus
  BY DEF BundleStatus
<1>3. /\ r.height = s.height /\ r.utxos = s.utxos /\ r.stxos = s.stxos
      /\ w[m] = b /\ r.latest_failed = s.latest_failed /\ HasBundle(r, m)
  BY <1>1, EntersFields DEF Sees
<1>4. /\ LatestStatus(r, m) = "Confirmed" /\ LatestIsOfTip(r, m)
      /\ HasUnder(r, m) /\ UnderStatus(r, m) = "Submitted"
      /\ w[m].info = "Known"
  BY <1>1, <1>2, <1>3, PushedFacts
<1>5. PopStatus(w[m]) = a
  BY <1>1, <1>2, <1>3, PushedPops
<1>6. ConfirmationSpent(r, m) = O
  BY <1>4 DEF ConfirmationSpent
<1>7. q = PutBundle(Unspend(r, O), m, a)
  BY <1>4, <1>5, <1>6 DEF disconnect_withdrawal_bundle_confirmed, IsSubmitted
<1>8. O \subseteq s.utxos /\ s.utxos = s.utxos \ O /\ s.stxos = Taken(s.stxos, O, m)
  BY DEF IsFcn, Taken, PutAll
<1> HIDE DEF O
<1>9. O \subseteq DOMAIN r.stxos /\ Undone1(q, r, s, m, r.pending)
  BY <1>1, <1>3, <1>7, <1>8, UndoTake
<1>10. ~undo_confirmed_panics(r, m) /\ ~undo_confirmed_refused(r, m)
  BY <1>3, <1>4, <1>6, <1>9 DEF undo_confirmed_panics, undo_confirmed_refused, IsSubmitted
<1> QED
  BY <1>9, <1>10

\* The entry of an unknown bundle that was confirmed, seen from r.
LEMMA ConfirmedUnknownIs ==
    ASSUME NEW b \in Bundle, NEW u, u \subseteq OutPoint, NEW h \in Nat,
           NEW c, c = ConfirmedUnknown(b, u, h)
    PROVE  c = [info |-> "UnknownConfirmed", spend_utxos |-> u,
                status |-> push(b.status, "Confirmed", h)]
<1> DEFINE a == SetInfo(b, "UnknownConfirmed", u)
           v == b.status
<1>1. b = [info |-> b.info, spend_utxos |-> b.spend_utxos, status |-> v]
  BY EntryShape
<1> HIDE DEF v
<1>2. a = [info |-> "UnknownConfirmed", spend_utxos |-> u, status |-> v]
  <2> HIDE DEF a
  <2> QED
    BY <1>1, SetInfoIs DEF a
<1>3. c = PushStatus(a, "Confirmed", h)
  BY DEF ConfirmedUnknown, SetInfo
<1> HIDE DEF a
<1>4. c = [info |-> "UnknownConfirmed", spend_utxos |-> u, status |-> push(v, "Confirmed", h)]
  BY <1>2, <1>3 DEF PushStatus
<1> QED
  BY <1>4 DEF v

LEMMA ConfirmedUnknownFacts ==
    ASSUME NEW s, DbInv(s), s.height \in Nat, NEW m, HasBundle(s, m),
           NEW r, r.height = s.height,
           r.withdrawal_bundles[m] = ConfirmedUnknown(s.withdrawal_bundles[m], s.utxos, s.height)
    PROVE  /\ LatestStatus(r, m) = "Confirmed" /\ LatestIsOfTip(r, m)
           /\ HasUnder(r, m) /\ UnderStatus(r, m) = LatestStatus(s, m)
           /\ r.withdrawal_bundles[m].info = "UnknownConfirmed"
           /\ r.withdrawal_bundles[m].spend_utxos = s.utxos
<1> DEFINE a == s.withdrawal_bundles[m]
           b == r.withdrawal_bundles[m]
           h == s.height
           u == s.utxos
           v == a.status
           z == push(v, "Confirmed", h)
<1>1. a \in Bundle /\ LatestStatus(s, m) = latest(v).value /\ u \subseteq OutPoint
  BY EntryFacts, StateFields
<1>2. b = ConfirmedUnknown(a, u, h) /\ h \in Nat /\ "Confirmed" \in BundleStatus
  BY DEF BundleStatus
<1>3. /\ LatestStatus(r, m) = latest(b.status).value
      /\ LatestIsOfTip(r, m) <=> latest(b.status).height = h
      /\ HasUnder(r, m) <=> popped(b.status) # <<>>
      /\ UnderStatus(r, m) = latest(popped(b.status)).value
  BY DEF LatestStatus, StatusOf, LatestIsOfTip, HasUnder, Under, UnderStatus
<1>4. v \in Seq(HeightStamped(BundleStatus)) /\ v # <<>>
  BY <1>1, EntryShape
<1> HIDE DEF a, b, h, u
<1>5. b = [info |-> "UnknownConfirmed", spend_utxos |-> u, status |-> z]
  BY <1>1, <1>2, ConfirmedUnknownIs
<1> HIDE DEF v
<1>6. latest(z) = [value |-> "Confirmed", height |-> h] /\ popped(z) = v
  BY <1>2, <1>4, PushFacts, PopPush
<1> HIDE DEF z
<1> QED
  BY <1>1, <1>3, <1>4, <1>5, <1>6 DEF b, u

LEMMA ConfirmedUnknownPops ==
    ASSUME NEW a \in Bundle, a.info = "Unknown", a.spend_utxos = {},
           NEW u, u \subseteq OutPoint, NEW h \in Nat, NEW b, b = ConfirmedUnknown(a, u, h)
    PROVE  PopStatus(SetInfo(b, "Unknown", {})) = a
<1> DEFINE v == a.status
           z == push(v, "Confirmed", h)
           E == {}
           c == SetInfo(b, "Unknown", E)
<1>1. b = [info |-> "UnknownConfirmed", spend_utxos |-> u, status |-> z]
  BY ConfirmedUnknownIs
<1>2. a = [info |-> "Unknown", spend_utxos |-> E, status |-> v]
      /\ v \in Seq(HeightStamped(BundleStatus)) /\ "Confirmed" \in BundleStatus
  BY EntryShape DEF BundleStatus
<1> HIDE DEF v, E
<1>3. popped(z) = v
  BY <1>2, PopPush
<1> HIDE DEF z
<1>4. c = [info |-> "Unknown", spend_utxos |-> E, status |-> z]
  <2> HIDE DEF c
  <2> QED
    BY <1>1, SetInfoIs DEF c
<1>5. PopStatus([info |-> "Unknown", spend_utxos |-> E, status |-> z])
        = [info |-> "Unknown", spend_utxos |-> E, status |-> popped(z)]
  BY DEF PopStatus
<1>6. PopStatus(c) = a
  BY <1>2, <1>3, <1>4, <1>5
<1> QED
  BY <1>6 DEF E

LEMMA UndoConfirmsUnknown ==
    ASSUME NEW s, DbInv(s), s.height \in Nat, IsFcn(s.stxos), NEW m, NEW t,
           ConfirmsUnknown(s, m, t), s.withdrawal_bundles[m].spend_utxos = {},
           NEW r, DbInv(r), Sees(r, t, m),
           NEW q, q = disconnect_withdrawal_bundle_confirmed(r, m)
    PROVE  /\ ~undo_confirmed_panics(r, m) /\ ~undo_confirmed_refused(r, m)
           /\ Undone1(q, r, s, m, r.pending)
<1> DEFINE O == s.utxos
           h == s.height
           w == r.withdrawal_bundles
           a == s.withdrawal_bundles[m]
           b == ConfirmedUnknown(a, O, h)
<1>1. /\ HasBundle(s, m) /\ a.info = "Unknown" /\ IsSubmitted(LatestStatus(s, m))
      /\ Takes(s, m, b, O, s.pending, t)
  BY DEF ConfirmsUnknown
<1>2. /\ r.height = s.height /\ r.utxos = s.utxos \ O /\ r.stxos = Taken(s.stxos, O, m)
      /\ w[m] = b /\ r.latest_failed = s.latest_failed /\ HasBundle(r, m)
  BY <1>1, TakesFields DEF Sees
<1>3. /\ LatestStatus(r, m) = "Confirmed" /\ LatestIsOfTip(r, m)
      /\ HasUnder(r, m) /\ UnderStatus(r, m) = LatestStatus(s, m)
      /\ w[m].info = "UnknownConfirmed" /\ w[m].spend_utxos = O
  BY <1>1, <1>2, ConfirmedUnknownFacts
<1>4. PopStatus(SetInfo(w[m], "Unknown", {})) = a
  <2>1. a \in Bundle /\ O \subseteq OutPoint /\ h \in Nat /\ a.spend_utxos = {}
    BY <1>1, EntryFacts, StateFields
  <2> HIDE DEF a, O, h, w
  <2> QED
    BY <1>1, <1>2, <2>1, ConfirmedUnknownPops
<1>5. ConfirmationSpent(r, m) = O
  BY <1>3 DEF ConfirmationSpent
<1>6. q = PutBundle(Unspend(r, O), m, a)
  BY <1>3, <1>4, <1>5 DEF disconnect_withdrawal_bundle_confirmed, IsSubmitted, SetInfo
<1>7. O \subseteq s.utxos
  OBVIOUS
<1> HIDE DEF O
<1>8. O \subseteq DOMAIN r.stxos /\ Undone1(q, r, s, m, r.pending)
  BY <1>1, <1>2, <1>6, <1>7, UndoTake
<1>9. ~undo_confirmed_panics(r, m) /\ ~undo_confirmed_refused(r, m)
  BY <1>1, <1>2, <1>3, <1>5, <1>8 DEF undo_confirmed_panics, undo_confirmed_refused, IsSubmitted
<1> QED
  BY <1>8, <1>9

LEMMA UndoFails ==
    ASSUME NEW s, DbInv(s), s.height \in Nat, IsFcn(s.stxos), NEW m, NEW t,
           Fails(s, m, t), NEW r, DbInv(r), Sees(r, t, m),
           NEW q, q = disconnect_withdrawal_bundle_failed(r, m)
    PROVE  /\ ~undo_failed_panics(r, m) /\ ~undo_failed_refused(r, m)
           /\ Undone1(q, r, s, m, r.pending)
<1> DEFINE b == Pushed(s, m, "Failed")
           w == r.withdrawal_bundles
           a == s.withdrawal_bundles[m]
           O == a.spend_utxos
           u == s.utxos
           x == s.stxos
           f == s.latest_failed
           h == s.height
<1>1. /\ HasBundle(s, m) /\ a.info = "Known" /\ LatestStatus(s, m) = "Submitted"
      /\ Gives(s, m, b, O, t)
  BY DEF Fails
<1>2. "Failed" \in BundleStatus
  BY DEF BundleStatus
<1>3. /\ r.height = s.height /\ r.utxos = Joined(u, O) /\ r.stxos = DeleteAll(x, O)
      /\ w[m] = b /\ r.latest_failed = push(f, m, h) /\ HasBundle(r, m)
  BY <1>1, GivesFields DEF Sees
<1>4. /\ LatestStatus(r, m) = "Failed" /\ LatestIsOfTip(r, m)
      /\ HasUnder(r, m) /\ UnderStatus(r, m) = "Submitted"
      /\ w[m].info = "Known" /\ w[m].spend_utxos = O
  BY <1>1, <1>2, <1>3, PushedFacts
<1>5. PopStatus(w[m]) = a
  BY <1>1, <1>2, <1>3, PushedPops
<1>6. FailureUnspent(r, m)
  BY <1>4 DEF FailureUnspent
<1>7. /\ f \in Seq(HeightStamped(M6id)) /\ m \in M6id /\ h \in Nat
      /\ O = m.spend_utxos /\ Disjoint(u, x)
      /\ \A o \in O : o \in DOMAIN x /\ x[o] = ByBundle(m)
  <2>1. m \in M6id /\ BundleOK(m, a) /\ LatestStatus(s, m) = latest(a.status).value
    BY <1>1, EntryFacts
  <2>2. f \in Seq(HeightStamped(M6id)) /\ Disjoint(u, x)
    BY StateFields
  <2>3. Owned(x, s.withdrawal_bundles) /\ BundleHolds(a)
    BY <1>1, <2>1 DEF DbInv, BundleHolds
  <2> QED
    BY <1>1, <2>1, <2>2, <2>3 DEF BundleOK, Owned, HasBundle
<1>8. Joined(u, O) \ O = u /\ Taken(DeleteAll(x, O), O, m) = x
  BY <1>7, TakeGiven
<1>9. /\ latest(r.latest_failed) = [value |-> m, height |-> r.height]
      /\ r.latest_failed # <<>> /\ popped(r.latest_failed) = f
  <2> HIDE DEF f, h
  <2>1. latest(push(f, m, h)) = [value |-> m, height |-> h] /\ push(f, m, h) # <<>>
    BY <1>7, PushFacts DEF RollBack
  <2>2. popped(push(f, m, h)) = f
    BY <1>7, PopPush
  <2> QED
    BY <1>3, <2>1, <2>2 DEF h
<1>10. m.spend_utxos \subseteq r.utxos
  BY <1>3, <1>7 DEF Joined
<1>11. ~undo_failed_panics(r, m) /\ ~undo_failed_refused(r, m)
  BY <1>3, <1>4, <1>9, <1>10 DEF undo_failed_panics, undo_failed_refused, IsSubmitted
<1> DEFINE z == SpendBy(r, O, m)
<1>12. z.latest_failed = r.latest_failed
  BY DEF SpendBy
<1>13. q = PutBundle(SetLatestFailed(z, f), m, a)
  BY <1>4, <1>5, <1>6, <1>9, <1>12 DEF disconnect_withdrawal_bundle_failed, SetLatestFailed
<1>14. r = With(r, Joined(u, O), DeleteAll(x, O), w, r.pending, r.latest_failed)
  BY <1>3, StateFields
<1>15. Reset(w, s.withdrawal_bundles, m) = PutOne(w, m, a)
  BY <1>1 DEF Reset, HasBundle
<1> HIDE DEF O, u, x, w, f, a, h
<1>16. z = With(r, u, x, w, r.pending, r.latest_failed)
  BY <1>8, <1>14, SpendByIs
<1> HIDE DEF z
<1>17. SetLatestFailed(z, f) = With(r, u, x, w, r.pending, f)
  BY <1>16, SetLatestFailedIs
<1>18. q = With(r, u, x, PutOne(w, m, a), r.pending, f)
  BY <1>13, <1>17, PutBundleIs
<1> QED
  BY <1>11, <1>15, <1>18 DEF Undone1, u, x, w, f

LEMMA UndoFailsAgain ==
    ASSUME NEW s, DbInv(s), s.height \in Nat, NEW m, NEW t,
           FailsAgain(s, m, t), NEW r, DbInv(r), Sees(r, t, m),
           NEW q, q = disconnect_withdrawal_bundle_failed(r, m)
    PROVE  /\ ~undo_failed_panics(r, m) /\ ~undo_failed_refused(r, m)
           /\ Undone1(q, r, s, m, r.pending)
<1> DEFINE b == Pushed(s, m, "Failed")
           w == r.withdrawal_bundles
           a == s.withdrawal_bundles[m]
<1>1. /\ HasBundle(s, m) /\ IsSubmitted(LatestStatus(s, m)) /\ Enters(s, m, b, t)
      /\ a.info = "Known" => LatestStatus(s, m) = "SubmittedUnexpected"
  BY DEF FailsAgain
<1>2. "Failed" \in BundleStatus
  BY DEF BundleStatus
<1>3. /\ r.height = s.height /\ r.utxos = s.utxos /\ r.stxos = s.stxos
      /\ w[m] = b /\ r.latest_failed = s.latest_failed /\ HasBundle(r, m)
  BY <1>1, EntersFields DEF Sees
<1>4. /\ LatestStatus(r, m) = "Failed" /\ LatestIsOfTip(r, m)
      /\ HasUnder(r, m) /\ UnderStatus(r, m) = LatestStatus(s, m)
      /\ w[m].info = a.info
  BY <1>1, <1>2, <1>3, PushedFacts
<1>5. PopStatus(w[m]) = a
  BY <1>1, <1>2, <1>3, PushedPops
<1>6. ~FailureUnspent(r, m)
  BY <1>1, <1>4 DEF FailureUnspent
<1>7. ~undo_failed_panics(r, m) /\ ~undo_failed_refused(r, m)
  BY <1>1, <1>3, <1>4, <1>6 DEF undo_failed_panics, undo_failed_refused
<1>8. q = PutBundle(r, m, a)
  BY <1>4, <1>5, <1>6 DEF disconnect_withdrawal_bundle_failed
<1>9. Undone1(q, r, s, m, r.pending)
  BY <1>1, <1>3, <1>8, UndoPut
<1> QED
  BY <1>7, <1>9

\* An event about m left t of s: the entry of m is b.
Touched(s, m, b, t) ==
    /\ t.height = s.height /\ t.withdrawal_bundles = PutOne(s.withdrawal_bundles, m, b)
    /\ t.deposit_blocks = s.deposit_blocks /\ t.event_blocks = s.event_blocks
    /\ t.block_index_events = s.block_index_events

\* ... without giving outputs back, and without lowering the latest failure.
Forward(s, m, b, t) ==
    /\ Touched(s, m, b, t)
    /\ t.latest_failed = s.latest_failed /\ t.pending = s.pending
    /\ t.utxos \subseteq s.utxos
    /\ HasBundle(s, m) /\ s.withdrawal_bundles[m].info = "Known" =>
          Extends(b, s.withdrawal_bundles[m], s.height)

LEMMA SeesEntry ==
    ASSUME NEW t, DbInv(t), NEW r, DbInv(r), Near(r, t), NEW m, HasBundle(t, m),
           latest(t.withdrawal_bundles[m].status).value # "Pending"
    PROVE  /\ Sees(r, t, m) /\ m \in DOMAIN r.withdrawal_bundles
           /\ latest(r.withdrawal_bundles[m].status).value # "Pending"
<1> DEFINE rw == r.withdrawal_bundles
           tw == t.withdrawal_bundles
           h == t.height
<1>1. IsBundles(rw) /\ IsBundles(tw) /\ LikeW(rw, tw, h) /\ h \in Int /\ m \in DOMAIN tw
  BY StateFields DEF Near, HasBundle, DbInv, DbOK
<1>2. latest(tw[m].status).value # "Pending"
  OBVIOUS
<1> HIDE DEF rw, tw, h
<1>3. m \in DOMAIN rw /\ rw[m] = tw[m]
  BY <1>1, <1>2, LikeEntry
<1> QED
  BY <1>2, <1>3 DEF Sees, Near, HasBundle, rw, tw

\* After the event has been undone, the databases are near s.
LEMMA NearAfter ==
    ASSUME NEW s, NEW t, NEW r, Near(r, t), NEW m, NEW b, Touched(s, m, b, t),
           NEW p, NEW q, Undone1(q, r, s, m, p), PendingNear(q, s)
    PROVE  /\ Near(q, s)
           /\ q.deposit_blocks = r.deposit_blocks /\ q.event_blocks = r.event_blocks
<1> DEFINE rw == r.withdrawal_bundles
           sw == s.withdrawal_bundles
           h == s.height
           qw == Reset(rw, sw, m)
<1>1. /\ r.height = h /\ r.block_index_events = s.block_index_events
      /\ LikeW(rw, PutOne(sw, m, b), h)
  BY DEF Near, Touched
<1>2. q = With(r, s.utxos, s.stxos, qw, p, s.latest_failed)
  BY DEF Undone1
<1> HIDE DEF rw, sw, h
<1>3. LikeW(qw, sw, h)
  BY <1>1, ResetLike
<1> HIDE DEF qw
<1>4. /\ q.utxos = s.utxos /\ q.stxos = s.stxos /\ q.withdrawal_bundles = qw
      /\ q.latest_failed = s.latest_failed /\ q.height = r.height
      /\ q.deposit_blocks = r.deposit_blocks /\ q.event_blocks = r.event_blocks
      /\ q.block_index_events = r.block_index_events
  BY <1>2, WithFields
<1> QED
  BY <1>1, <1>3, <1>4 DEF Near, sw, h

LEMMA NearForward ==
    ASSUME NEW s, DbInv(s), s.height \in Nat,
           FailedOK(s.latest_failed, s.withdrawal_bundles, s.height),
           NEW t, DbInv(t), NEW r, DbInv(r), Near(r, t),
           NEW m, NEW b, Forward(s, m, b, t),
           m \in DOMAIN r.withdrawal_bundles,
           latest(r.withdrawal_bundles[m].status).value # "Pending",
           NEW q, Undone1(q, r, s, m, r.pending)
    PROVE  /\ Near(q, s)
           /\ q.deposit_blocks = r.deposit_blocks /\ q.event_blocks = r.event_blocks
<1>1. /\ q.pending = r.pending
      /\ q.withdrawal_bundles = Reset(r.withdrawal_bundles, s.withdrawal_bundles, m)
  BY WithFields DEF Undone1
<1>2. /\ Touched(s, m, b, t) /\ t.height = s.height /\ t.pending = s.pending
      /\ t.latest_failed = s.latest_failed /\ t.utxos \subseteq s.utxos
      /\ t.withdrawal_bundles = PutOne(s.withdrawal_bundles, m, b)
      /\ HasBundle(s, m) /\ s.withdrawal_bundles[m].info = "Known" =>
            Extends(b, s.withdrawal_bundles[m], s.height)
  BY DEF Forward, Touched
<1>3. GapElapsed(t) => GapElapsed(s)
  BY <1>2, GapBefore
<1>4. IsBundles(r.withdrawal_bundles) /\ r.pending \subseteq DOMAIN r.withdrawal_bundles
  BY StateFields DEF PendingOK
<1>5. PendingNear(r, t)
  BY DEF Near
<1>6. PendingNear(q, s)
  BY <1>1, <1>2, <1>3, <1>4, <1>5, UndoPending
<1> QED
  BY <1>2, <1>6, NearAfter

LEMMA PushedExtends ==
    ASSUME NEW s, NEW l, NEW n, NEW top \in Int, Good(s, l, n, top), s.height \in Nat,
           NEW m, HasBundle(s, m), LatestStatus(s, m) # "Pending" \/ m \in s.pending,
           NEW v \in BundleStatus
    PROVE  /\ Extends(Pushed(s, m, v), s.withdrawal_bundles[m], s.height)
           /\ latest(Pushed(s, m, v).status).value = v
<1>1. /\ DbInv(s) /\ EntriesOK(s.withdrawal_bundles, s.height, top)
      /\ PendingBelow(s.pending, s.withdrawal_bundles, top)
  BY DEF Good
<1>2. \A i \in DOMAIN s.withdrawal_bundles[m].status :
          s.withdrawal_bundles[m].status[i].height <= s.height
  BY <1>1, InUse
<1>3. s.withdrawal_bundles[m] \in Bundle
  BY <1>1, EntryFacts
<1>4. latest(Pushed(s, m, v).status).value = v
  BY <1>3, PushEntry DEF Pushed
<1> QED
  BY <1>2, <1>4 DEF Extends, Pushed

LEMMA ForwardTakes ==
    ASSUME NEW s, NEW m, NEW b, NEW O, NEW t, Takes(s, m, b, O, s.pending, t),
           HasBundle(s, m) /\ s.withdrawal_bundles[m].info = "Known" =>
               Extends(b, s.withdrawal_bundles[m], s.height)
    PROVE  Forward(s, m, b, t) /\ HasBundle(t, m) /\ t.withdrawal_bundles[m] = b
<1>1. /\ t.utxos = s.utxos \ O
      /\ t.withdrawal_bundles = PutOne(s.withdrawal_bundles, m, b) /\ t.pending = s.pending
      /\ t.latest_failed = s.latest_failed /\ t.height = s.height
      /\ t.deposit_blocks = s.deposit_blocks /\ t.event_blocks = s.event_blocks
      /\ t.block_index_events = s.block_index_events
  BY WithFields DEF Takes
<1>2. HasBundle(t, m) /\ t.withdrawal_bundles[m] = b
  BY <1>1 DEF HasBundle, PutOne
<1> QED
  BY <1>1, <1>2 DEF Forward, Touched

LEMMA ForwardEnters ==
    ASSUME NEW s, NEW m, NEW b, NEW t, Enters(s, m, b, t),
           HasBundle(s, m) /\ s.withdrawal_bundles[m].info = "Known" =>
               Extends(b, s.withdrawal_bundles[m], s.height)
    PROVE  Forward(s, m, b, t) /\ HasBundle(t, m) /\ t.withdrawal_bundles[m] = b
<1>1. /\ t.utxos = s.utxos
      /\ t.withdrawal_bundles = PutOne(s.withdrawal_bundles, m, b) /\ t.pending = s.pending
      /\ t.latest_failed = s.latest_failed /\ t.height = s.height
      /\ t.deposit_blocks = s.deposit_blocks /\ t.event_blocks = s.event_blocks
      /\ t.block_index_events = s.block_index_events
  BY WithFields DEF Enters
<1>2. HasBundle(t, m) /\ t.withdrawal_bundles[m] = b
  BY <1>1 DEF HasBundle, PutOne
<1> QED
  BY <1>1, <1>2 DEF Forward, Touched

\* q is r with the event undone that led from s to t.
Back(q, r, s, t) ==
    /\ Near(q, s)
    /\ q.deposit_blocks = r.deposit_blocks /\ q.event_blocks = r.event_blocks
    /\ t.deposit_blocks = s.deposit_blocks /\ t.event_blocks = s.event_blocks
    /\ t.height = s.height

LEMMA BackForward ==
    ASSUME NEW s, NEW l, NEW n, NEW top, Good(s, l, n, top), s.height \in Nat,
           NEW t, DbInv(t), NEW r, DbInv(r), Near(r, t),
           NEW m, NEW b, Forward(s, m, b, t),
           m \in DOMAIN r.withdrawal_bundles,
           latest(r.withdrawal_bundles[m].status).value # "Pending",
           NEW q, Undone1(q, r, s, m, r.pending)
    PROVE  Back(q, r, s, t)
<1>1. DbInv(s) /\ FailedOK(s.latest_failed, s.withdrawal_bundles, s.height)
  BY DEF Good
<1>2. /\ Near(q, s)
      /\ q.deposit_blocks = r.deposit_blocks /\ q.event_blocks = r.event_blocks
  BY <1>1, NearForward
<1> QED
  BY <1>2 DEF Back, Forward, Touched

LEMMA BackSubmitted ==
    ASSUME NEW s, NEW l, NEW n, NEW top \in Int, Good(s, l, n, top), s.height \in Nat,
           IsFcn(s.stxos), NEW m, NEW t, DbInv(t),
           SubmittedPending(s, m, t) \/ SubmittedAgain(s, m, t) \/ SubmittedUnknown(s, m, t),
           NEW r, DbInv(r), Near(r, t), NEW q, q = disconnect_withdrawal_bundle_submitted(r, m)
    PROVE  /\ ~undo_submitted_panics(r, m) /\ ~undo_submitted_refused(r, m)
           /\ Back(q, r, s, t)
<1>1. DbInv(s) /\ {"Submitted", "SubmittedUnexpected"} \subseteq BundleStatus
  BY DEF Good, BundleStatus
<1>2. CASE SubmittedPending(s, m, t)
  <2> DEFINE b == Pushed(s, m, "Submitted")
             O == m.spend_utxos
             p == {}
  <2>1. HasBundle(s, m) /\ m \in s.pending /\ Takes(s, m, b, O, p, t)
    BY <1>2 DEF SubmittedPending
  <2>2. latest(b.status).value = "Submitted"
    BY <1>1, <2>1, PushedExtends
  <2> HIDE DEF p, b, O
  <2>3. /\ t.height = s.height /\ t.withdrawal_bundles = PutOne(s.withdrawal_bundles, m, b)
        /\ t.deposit_blocks = s.deposit_blocks /\ t.event_blocks = s.event_blocks
        /\ t.block_index_events = s.block_index_events
    BY <2>1, WithFields DEF Takes
  <2>4. Touched(s, m, b, t) /\ HasBundle(t, m) /\ t.withdrawal_bundles[m] = b
    BY <2>3 DEF Touched, HasBundle, PutOne
  <2>5. Sees(r, t, m)
    BY <2>2, <2>4, SeesEntry
  <2>6. /\ ~undo_submitted_panics(r, m) /\ ~undo_submitted_refused(r, m)
        /\ Undone1(q, r, s, m, s.pending)
    BY <1>1, <1>2, <2>5, UndoSubmittedPending
  <2>7. PendingNear(q, s)
    BY <2>6, WithFields DEF Undone1, PendingNear
  <2>8. /\ Near(q, s)
        /\ q.deposit_blocks = r.deposit_blocks /\ q.event_blocks = r.event_blocks
    BY <2>4, <2>6, <2>7, NearAfter
  <2> QED
    BY <2>3, <2>6, <2>8 DEF Back
<1>3. CASE SubmittedAgain(s, m, t)
  <2> DEFINE b == Pushed(s, m, "SubmittedUnexpected")
  <2>1. HasBundle(s, m) /\ LatestStatus(s, m) = "Failed" /\ Enters(s, m, b, t)
    BY <1>3 DEF SubmittedAgain
  <2>2. latest(b.status).value = "SubmittedUnexpected"
        /\ Extends(b, s.withdrawal_bundles[m], s.height)
    BY <1>1, <2>1, PushedExtends
  <2> HIDE DEF b
  <2>3. Forward(s, m, b, t) /\ HasBundle(t, m) /\ t.withdrawal_bundles[m] = b
    BY <2>1, <2>2, ForwardEnters
  <2>4. /\ Sees(r, t, m) /\ m \in DOMAIN r.withdrawal_bundles
        /\ latest(r.withdrawal_bundles[m].status).value # "Pending"
    BY <2>2, <2>3, SeesEntry
  <2>5. /\ ~undo_submitted_panics(r, m) /\ ~undo_submitted_refused(r, m)
        /\ Undone1(q, r, s, m, r.pending)
    BY <1>1, <1>3, <2>4, UndoSubmittedAgain
  <2> QED
    BY <2>3, <2>4, <2>5, BackForward
<1>4. CASE SubmittedUnknown(s, m, t)
  <2> DEFINE h == s.height
             b == UnknownEntry(h)
  <2>1. ~HasBundle(s, m) /\ Enters(s, m, b, t) /\ h \in Nat
    BY <1>4 DEF SubmittedUnknown
  <2>2. latest(b.status).value = "Submitted"
    <3>1. b.status = new("Submitted", h)
      BY DEF UnknownEntry
    <3> HIDE DEF b, h
    <3> QED
      BY <1>1, <2>1, <3>1, NewFacts
  <2> HIDE DEF b
  <2>3. Forward(s, m, b, t) /\ HasBundle(t, m) /\ t.withdrawal_bundles[m] = b
    BY <2>1, ForwardEnters
  <2>4. /\ Sees(r, t, m) /\ m \in DOMAIN r.withdrawal_bundles
        /\ latest(r.withdrawal_bundles[m].status).value # "Pending"
    BY <2>2, <2>3, SeesEntry
  <2>5. /\ ~undo_submitted_panics(r, m) /\ ~undo_submitted_refused(r, m)
        /\ Undone1(q, r, s, m, r.pending)
    BY <1>1, <1>4, <2>4, UndoSubmittedUnknown
  <2> QED
    BY <2>3, <2>4, <2>5, BackForward
<1> QED
  BY <1>2, <1>3, <1>4

LEMMA BackConfirmed ==
    ASSUME NEW s, NEW l, NEW n, NEW top \in Int, Good(s, l, n, top), s.height \in Nat,
           IsFcn(s.stxos), NEW m, NEW t, DbInv(t),
           ConfirmsUnknown(s, m, t) \/ ConfirmsAgain(s, m, t) \/ Confirms(s, m, t),
           NEW r, DbInv(r), Near(r, t), NEW q, q = disconnect_withdrawal_bundle_confirmed(r, m)
    PROVE  /\ ~undo_confirmed_panics(r, m) /\ ~undo_confirmed_refused(r, m)
           /\ Back(q, r, s, t)
<1>1. DbInv(s) /\ "Confirmed" \in BundleStatus
  BY DEF Good, BundleStatus
<1>2. CASE ConfirmsUnknown(s, m, t)
  <2> DEFINE O == s.utxos
             h == s.height
             a == s.withdrawal_bundles[m]
             b == ConfirmedUnknown(a, O, h)
  <2>1. /\ HasBundle(s, m) /\ a.info = "Unknown" /\ Takes(s, m, b, O, s.pending, t)
    BY <1>2 DEF ConfirmsUnknown
  <2>2. a \in Bundle /\ O \subseteq OutPoint /\ h \in Nat /\ a.spend_utxos = {}
    BY <1>1, <2>1, EntryFacts, StateFields DEF Good, EntriesOK, EntryOK, HasBundle
  <2>3. latest(b.status).value = "Confirmed"
    <3> DEFINE v == a.status
    <3>1. v \in Seq(HeightStamped(BundleStatus))
      BY <2>2, EntryShape
    <3> HIDE DEF b
    <3>2. b = [info |-> "UnknownConfirmed", spend_utxos |-> O, status |-> push(v, "Confirmed", h)]
      BY <2>2, ConfirmedUnknownIs DEF b
    <3> HIDE DEF a, O, h, v
    <3>3. latest(push(v, "Confirmed", h)) = [value |-> "Confirmed", height |-> h]
      BY <1>1, <2>2, <3>1, PushFacts
    <3> QED
      BY <3>2, <3>3
  <2> HIDE DEF b
  <2>4. Forward(s, m, b, t) /\ HasBundle(t, m) /\ t.withdrawal_bundles[m] = b
    BY <2>1, ForwardTakes
  <2>5. /\ Sees(r, t, m) /\ m \in DOMAIN r.withdrawal_bundles
        /\ latest(r.withdrawal_bundles[m].status).value # "Pending"
    BY <2>3, <2>4, SeesEntry
  <2>6. /\ ~undo_confirmed_panics(r, m) /\ ~undo_confirmed_refused(r, m)
        /\ Undone1(q, r, s, m, r.pending)
    BY <1>1, <1>2, <2>2, <2>5, UndoConfirmsUnknown
  <2> QED
    BY <2>4, <2>5, <2>6, BackForward
<1>3. CASE ConfirmsAgain(s, m, t)
  <2> DEFINE b == Pushed(s, m, "Confirmed")
             O == s.withdrawal_bundles[m].spend_utxos
  <2>1. /\ HasBundle(s, m) /\ LatestStatus(s, m) = "SubmittedUnexpected"
        /\ Takes(s, m, b, O, s.pending, t)
    BY <1>3 DEF ConfirmsAgain
  <2>2. latest(b.status).value = "Confirmed"
        /\ Extends(b, s.withdrawal_bundles[m], s.height)
    BY <1>1, <2>1, PushedExtends
  <2> HIDE DEF b, O
  <2>3. Forward(s, m, b, t) /\ HasBundle(t, m) /\ t.withdrawal_bundles[m] = b
    <3>1. HasBundle(s, m) /\ s.withdrawal_bundles[m].info = "Known" =>
              Extends(b, s.withdrawal_bundles[m], s.height)
      BY <2>2
    <3>2. Takes(s, m, b, O, s.pending, t)
      BY <2>1
    <3> QED
      BY <3>1, <3>2, ForwardTakes
  <2>4. /\ Sees(r, t, m) /\ m \in DOMAIN r.withdrawal_bundles
        /\ latest(r.withdrawal_bundles[m].status).value # "Pending"
    BY <2>2, <2>3, SeesEntry
  <2>5. /\ ~undo_confirmed_panics(r, m) /\ ~undo_confirmed_refused(r, m)
        /\ Undone1(q, r, s, m, r.pending)
    BY <1>1, <1>3, <2>4, UndoConfirmsAgain
  <2> QED
    BY <2>3, <2>4, <2>5, BackForward
<1>4. CASE Confirms(s, m, t)
  <2> DEFINE b == Pushed(s, m, "Confirmed")
  <2>1. HasBundle(s, m) /\ LatestStatus(s, m) = "Submitted" /\ Enters(s, m, b, t)
    BY <1>4 DEF Confirms
  <2>2. latest(b.status).value = "Confirmed"
        /\ Extends(b, s.withdrawal_bundles[m], s.height)
    BY <1>1, <2>1, PushedExtends
  <2> HIDE DEF b
  <2>3. Forward(s, m, b, t) /\ HasBundle(t, m) /\ t.withdrawal_bundles[m] = b
    BY <2>1, <2>2, ForwardEnters
  <2>4. /\ Sees(r, t, m) /\ m \in DOMAIN r.withdrawal_bundles
        /\ latest(r.withdrawal_bundles[m].status).value # "Pending"
    BY <2>2, <2>3, SeesEntry
  <2>5. /\ ~undo_confirmed_panics(r, m) /\ ~undo_confirmed_refused(r, m)
        /\ Undone1(q, r, s, m, r.pending)
    BY <1>1, <1>4, <2>4, UndoConfirms
  <2> QED
    BY <2>3, <2>4, <2>5, BackForward
<1> QED
  BY <1>2, <1>3, <1>4

LEMMA BackFailed ==
    ASSUME NEW s, NEW l, NEW n, NEW top \in Int, Good(s, l, n, top), s.height \in Nat,
           IsFcn(s.stxos), NEW m, NEW t, DbInv(t),
           Fails(s, m, t) \/ FailsAgain(s, m, t),
           NEW r, DbInv(r), Near(r, t), NEW q, q = disconnect_withdrawal_bundle_failed(r, m)
    PROVE  /\ ~undo_failed_panics(r, m) /\ ~undo_failed_refused(r, m)
           /\ Back(q, r, s, t)
<1> DEFINE b == Pushed(s, m, "Failed")
<1>1. DbInv(s) /\ "Failed" \in BundleStatus
  BY DEF Good, BundleStatus
<1>2. HasBundle(s, m) /\ IsSubmitted(LatestStatus(s, m))
  BY DEF Fails, FailsAgain, IsSubmitted
<1>3. latest(b.status).value = "Failed" /\ Extends(b, s.withdrawal_bundles[m], s.height)
  BY <1>1, <1>2, PushedExtends DEF IsSubmitted
<1>4. CASE Fails(s, m, t)
  <2> DEFINE O == s.withdrawal_bundles[m].spend_utxos
             a == s.withdrawal_bundles[m]
             f == s.latest_failed
             h == s.height
             w == s.withdrawal_bundles
  <2>1. Gives(s, m, b, O, t) /\ b = PushStatus(a, "Failed", h)
    BY <1>4 DEF Fails, Pushed
  <2>2. a \in Bundle /\ m \in M6id /\ f \in Seq(HeightStamped(M6id)) /\ h \in Nat
    BY <1>1, <1>2, EntryFacts, StateFields
  <2> HIDE DEF b, O
  <2>3. /\ t.height = h /\ t.withdrawal_bundles = PutOne(w, m, b)
        /\ t.deposit_blocks = s.deposit_blocks /\ t.event_blocks = s.event_blocks
        /\ t.block_index_events = s.block_index_events
        /\ t.latest_failed = push(f, m, h) /\ t.pending = s.pending
    BY <2>1, WithFields DEF Gives
  <2>4. Touched(s, m, b, t) /\ HasBundle(t, m) /\ t.withdrawal_bundles[m] = b
    BY <2>3 DEF Touched, HasBundle, PutOne
  <2>5. /\ Sees(r, t, m) /\ m \in DOMAIN r.withdrawal_bundles
        /\ latest(r.withdrawal_bundles[m].status).value # "Pending"
    BY <1>3, <2>4, SeesEntry
  <2>6. /\ ~undo_failed_panics(r, m) /\ ~undo_failed_refused(r, m)
        /\ Undone1(q, r, s, m, r.pending)
    BY <1>1, <1>4, <2>5, UndoFails
  <2>7. ~GapElapsed(t)
    <3>1. t.withdrawal_bundles = PutOne(w, m, PushStatus(a, "Failed", h))
      BY <2>1, <2>3
    <3> HIDE DEF a, f, h, w
    <3> QED
      BY <2>2, <2>3, <3>1, NoGapAfterFailure
  <2>8. r.pending = t.pending
    BY <2>7 DEF Near, PendingNear, StillPending
  <2>9. PendingNear(q, s)
    BY <2>3, <2>6, <2>8, WithFields DEF Undone1, PendingNear
  <2>10. /\ Near(q, s)
         /\ q.deposit_blocks = r.deposit_blocks /\ q.event_blocks = r.event_blocks
    BY <2>4, <2>6, <2>9, NearAfter
  <2> QED
    BY <2>3, <2>6, <2>10 DEF Back
<1>5. CASE FailsAgain(s, m, t)
  <2>1. Enters(s, m, b, t)
    BY <1>5 DEF FailsAgain
  <2> HIDE DEF b
  <2>2. Forward(s, m, b, t) /\ HasBundle(t, m) /\ t.withdrawal_bundles[m] = b
    BY <1>3, <2>1, ForwardEnters
  <2>3. /\ Sees(r, t, m) /\ m \in DOMAIN r.withdrawal_bundles
        /\ latest(r.withdrawal_bundles[m].status).value # "Pending"
    BY <1>3, <2>2, SeesEntry
  <2>4. /\ ~undo_failed_panics(r, m) /\ ~undo_failed_refused(r, m)
        /\ Undone1(q, r, s, m, r.pending)
    BY <1>1, <1>5, <2>3, UndoFailsAgain
  <2> QED
    BY <2>2, <2>3, <2>4, BackForward
<1> QED
  BY <1>4, <1>5

LEMMA GapSame ==
    ASSUME NEW s, NEW t, t.height = s.height, t.latest_failed = s.latest_failed,
           t.withdrawal_bundles = s.withdrawal_bundles
    PROVE  GapElapsed(t) <=> GapElapsed(s)
  BY DEF GapElapsed, LatestFailureHeight, StatusOf

LEMMA BackDeposit ==
    ASSUME NEW s, DbInv(s), NEW d \in Deposit, deposit(d) \notin s.utxos,
           NEW t, t = AddUtxo(s, deposit(d)),
           NEW r, DbInv(r), Near(r, t), NEW q, q = RemoveUtxo(r, deposit(d))
    PROVE  deposit(d) \in r.utxos /\ Back(q, r, s, t)
<1> DEFINE o == deposit(d)
           u == s.utxos
           v == u \cup {o}
           z == r.utxos \ {o}
<1>1. t = Moved(s, s.height, v, s.stxos) /\ q = Moved(r, r.height, z, r.stxos)
  BY MoveUtxos DEF AddUtxo, RemoveUtxo
<1>2. o \notin Withdrawals
  BY OutPointFacts DEF Withdrawals
<1> HIDE DEF o, z, v
<1>3. /\ t.height = s.height /\ t.utxos = v /\ t.stxos = s.stxos
      /\ t.withdrawal_bundles = s.withdrawal_bundles /\ t.pending = s.pending
      /\ t.latest_failed = s.latest_failed /\ t.deposit_blocks = s.deposit_blocks
      /\ t.event_blocks = s.event_blocks /\ t.block_index_events = s.block_index_events
  BY <1>1, MovedFields
<1>4. /\ q.height = r.height /\ q.utxos = z /\ q.stxos = r.stxos
      /\ q.withdrawal_bundles = r.withdrawal_bundles /\ q.pending = r.pending
      /\ q.latest_failed = r.latest_failed /\ q.deposit_blocks = r.deposit_blocks
      /\ q.event_blocks = r.event_blocks /\ q.block_index_events = r.block_index_events
  BY <1>1, MovedFields
<1>5. r.utxos = v
  BY <1>3 DEF Near
<1>6. o \in r.utxos /\ z = u /\ v \cap Withdrawals = u \cap Withdrawals
  BY <1>2, <1>5 DEF v, z, o
<1>7. GapElapsed(t) <=> GapElapsed(s)
  BY <1>3, GapSame
<1>8. PendingNear(q, s)
  <2>1. CASE r.pending = t.pending
    BY <1>3, <1>4, <2>1 DEF PendingNear
  <2>2. ASSUME NEW m \in r.pending, StillPending(r, t, m) PROVE PendingNear(q, s)
    <3>1. /\ s.pending = {} /\ q.pending = {m} /\ GapElapsed(s) /\ m.height = s.height
          /\ PendingOnly(m, q.withdrawal_bundles[m])
      BY <1>3, <1>4, <1>7, <2>2 DEF StillPending
    <3>2. m.spend_utxos \subseteq s.utxos \cap Withdrawals
      BY <1>3, <1>6, <2>2 DEF StillPending
    <3>3. HasBundle(s, m) => /\ Len(q.withdrawal_bundles[m].status) > 1
                             /\ PendingOnly(m, s.withdrawal_bundles[m])
      BY <1>3, <1>4, <2>2 DEF StillPending, HasBundle
    <3> QED
      BY <3>1, <3>2, <3>3 DEF PendingNear, StillPending
  <2> QED
    BY <2>1, <2>2 DEF Near, PendingNear
<1>9. Near(q, s)
  BY <1>3, <1>4, <1>6, <1>8 DEF Near
<1> QED
  BY <1>3, <1>4, <1>6, <1>9 DEF Back, o

\* Each handler of disconnect() undoes the handler of connect().
LEMMA BackEvent ==
    ASSUME NEW s, NEW l, NEW n \in Nat, NEW top \in Int, Good(s, l, n, top),
           s.height \in Nat, IsFcn(s.stxos),
           NEW e, Applies(s, e), NEW t, t = connect_2wpd_event(s, e), DbInv(t),
           NEW r, DbInv(r), Near(r, t), NEW q, q = disconnect_event(r, e)
    PROVE  /\ ~disconnect_panics(r, e) /\ ~disconnect_refused(r, e)
           /\ Back(q, r, s, t)
<1>1. DbInv(s)
  BY DEF Good
<1>2. /\ e \in Event /\ e.kind \in {"Deposit", "Submitted", "Confirmed", "Failed"}
      /\ e.kind = "Deposit" => e.deposit \in Deposit
                               /\ deposit(e.deposit) \notin AllOutputs(s.utxos, s.stxos)
      /\ e.kind # "Deposit" => e.m6id \in M6id
      /\ e.kind = "Submitted" => HasBundle(s, e.m6id) \/ e.m6id \in MainBundle
      /\ e.kind \in {"Confirmed", "Failed"} =>
            HasBundle(s, e.m6id) /\ IsSubmitted(LatestStatus(s, e.m6id))
      /\ ~connect_panics(s, e) /\ ~connect_refused(s, e)
  BY EventFacts DEF Applies, Follows
<1>3. CASE e.kind = "Deposit"
  <2> DEFINE d == e.deposit
  <2>1. /\ t = AddUtxo(s, deposit(d)) /\ q = RemoveUtxo(r, deposit(d))
        /\ ~disconnect_panics(r, e)
        /\ disconnect_refused(r, e) <=> deposit(d) \notin r.utxos
    BY <1>3 DEF connect_2wpd_event, AddUtxo, disconnect_event, RemoveUtxo, disconnect_panics,
                disconnect_refused
  <2>2. d \in Deposit /\ deposit(d) \notin s.utxos
    BY <1>2, <1>3 DEF AllOutputs
  <2> HIDE DEF d
  <2>3. deposit(d) \in r.utxos /\ Back(q, r, s, t)
    BY <1>1, <2>1, <2>2, BackDeposit
  <2> QED
    BY <2>1, <2>3
<1>4. CASE e.kind = "Submitted"
  <2> DEFINE m == e.m6id
  <2>1. /\ t = connect_withdrawal_bundle_submitted(s, m) /\ ~submitted_refused(s, m)
        /\ q = disconnect_withdrawal_bundle_submitted(r, m)
        /\ disconnect_panics(r, e) <=> undo_submitted_panics(r, m)
        /\ disconnect_refused(r, e) <=> undo_submitted_refused(r, m)
    BY <1>2, <1>4 DEF connect_2wpd_event, connect_refused, disconnect_event, disconnect_panics,
                      disconnect_refused
  <2>2. m \in M6id /\ (HasBundle(s, m) \/ m \in MainBundle)
    BY <1>2, <1>4
  <2> HIDE DEF m
  <2>3. SubmittedPending(s, m, t) \/ SubmittedAgain(s, m, t) \/ SubmittedUnknown(s, m, t)
    BY <1>1, <2>1, <2>2, SubmittedCases
  <2> QED
    BY <2>1, <2>3, BackSubmitted
<1>5. CASE e.kind = "Confirmed"
  <2> DEFINE m == e.m6id
  <2>1. /\ t = connect_withdrawal_bundle_confirmed(s, m) /\ ~confirmed_refused(s, m)
        /\ q = disconnect_withdrawal_bundle_confirmed(r, m)
        /\ disconnect_panics(r, e) <=> undo_confirmed_panics(r, m)
        /\ disconnect_refused(r, e) <=> undo_confirmed_refused(r, m)
    BY <1>2, <1>5 DEF connect_2wpd_event, connect_refused, disconnect_event, disconnect_panics,
                      disconnect_refused
  <2>2. HasBundle(s, m) /\ IsSubmitted(LatestStatus(s, m))
    BY <1>2, <1>5
  <2> HIDE DEF m
  <2>3. ConfirmsUnknown(s, m, t) \/ ConfirmsAgain(s, m, t) \/ Confirms(s, m, t)
    BY <1>1, <2>1, <2>2, ConfirmedCases
  <2> QED
    BY <2>1, <2>3, BackConfirmed
<1>6. CASE e.kind = "Failed"
  <2> DEFINE m == e.m6id
  <2>1. /\ t = connect_withdrawal_bundle_failed(s, m)
        /\ q = disconnect_withdrawal_bundle_failed(r, m)
        /\ disconnect_panics(r, e) <=> undo_failed_panics(r, m)
        /\ disconnect_refused(r, e) <=> undo_failed_refused(r, m)
    BY <1>2, <1>6 DEF connect_2wpd_event, connect_refused, disconnect_event, disconnect_panics,
                      disconnect_refused
  <2>2. HasBundle(s, m) /\ IsSubmitted(LatestStatus(s, m))
    BY <1>2, <1>6
  <2> HIDE DEF m
  <2>3. Fails(s, m, t) \/ FailsAgain(s, m, t)
    BY <1>1, <2>1, <2>2, FailedCases
  <2> QED
    BY <2>1, <2>3, BackFailed
<1> QED
  BY <1>2, <1>3, <1>4, <1>5, <1>6

-----------------------------------------------------------------------------
(***************************************************************************)
(* Good databases whose tables are functions.                              *)
(***************************************************************************)
Tables(s) == IsFcn(s.stxos) /\ IsFcn(s.block_index_events)

Fine(s, l, n, top) == Good(s, l, n, top) /\ Tables(s)

LEMMA AreFunctions ==
    /\ \A x, y : IsFcn(PutAll(x, y))
    /\ \A x, K : IsFcn(DeleteAll(x, K))
    /\ \A x, k, v : IsFcn(PutOne(x, k, v))
<1>1. ASSUME NEW x, NEW y PROVE IsFcn(PutAll(x, y))
  BY DEF IsFcn, PutAll
<1>2. ASSUME NEW x, NEW K PROVE IsFcn(DeleteAll(x, K))
  BY DEF IsFcn, DeleteAll
<1>3. ASSUME NEW x, NEW k, NEW v PROVE IsFcn(PutOne(x, k, v))
  BY DEF IsFcn, PutOne
<1> QED
  BY <1>1, <1>2, <1>3

LEMMA TablesEmpty == Tables(EmptyDb)
  BY DEF Tables, EmptyDb, IsFcn

LEMMA TablesBody ==
    ASSUME NEW s, DbInv(s), Tables(s), NEW body, NEW r, r = connect_body(s, body)
    PROVE  Tables(r)
<1> DEFINE u == BodyUtxos(s.utxos, body)
           x == BodyStxos(s.stxos, body)
           h == s.height + 1
<1>1. r = Moved(s, h, u, x)
  BY BodyIs
<1>2. IsFcn(x)
  BY AreFunctions DEF BodyStxos
<1> HIDE DEF u, x, h
<1>3. r.stxos = x /\ r.block_index_events = s.block_index_events
  BY <1>1, MovedFields
<1> QED
  BY <1>2, <1>3 DEF Tables

LEMMA TablesEvent ==
    ASSUME NEW s, DbInv(s), Tables(s), NEW e, Applies(s, e),
           NEW t, t = connect_2wpd_event(s, e)
    PROVE  Tables(t)
<1>1. /\ e \in Event /\ e.kind \in {"Deposit", "Submitted", "Confirmed", "Failed"}
      /\ e.kind # "Deposit" => e.m6id \in M6id
      /\ e.kind = "Submitted" => HasBundle(s, e.m6id) \/ e.m6id \in MainBundle
      /\ e.kind \in {"Confirmed", "Failed"} =>
            HasBundle(s, e.m6id) /\ IsSubmitted(LatestStatus(s, e.m6id))
      /\ ~connect_refused(s, e)
  BY EventFacts DEF Applies, Follows
<1>2. IsFcn(s.stxos) /\ IsFcn(s.block_index_events)
  BY DEF Tables
<1>3. ASSUME NEW m, NEW b, NEW O, NEW p, Takes(s, m, b, O, p, t) PROVE Tables(t)
  <2>1. t.stxos = Taken(s.stxos, O, m) /\ t.block_index_events = s.block_index_events
    BY <1>3, WithFields DEF Takes
  <2> QED
    BY <1>2, <2>1, AreFunctions DEF Tables, Taken
<1>4. ASSUME NEW m, NEW b, Enters(s, m, b, t) PROVE Tables(t)
  <2>1. t.stxos = s.stxos /\ t.block_index_events = s.block_index_events
    BY <1>4, WithFields DEF Enters
  <2> QED
    BY <1>2, <2>1 DEF Tables
<1>5. ASSUME NEW m, NEW b, NEW O, Gives(s, m, b, O, t) PROVE Tables(t)
  <2>1. t.stxos = DeleteAll(s.stxos, O) /\ t.block_index_events = s.block_index_events
    BY <1>5, WithFields DEF Gives
  <2> QED
    BY <1>2, <2>1, AreFunctions DEF Tables
<1>6. CASE e.kind = "Deposit"
  <2> DEFINE v == s.utxos \cup {deposit(e.deposit)}
  <2>1. t = [s EXCEPT !.utxos = v]
    BY <1>6 DEF connect_2wpd_event
  <2> HIDE DEF v
  <2>2. t.stxos = s.stxos /\ t.block_index_events = s.block_index_events
    BY <2>1, MoveUtxos, MovedFields
  <2> QED
    BY <1>2, <2>2 DEF Tables
<1>7. CASE e.kind = "Submitted"
  <2> DEFINE m == e.m6id
  <2>1. t = connect_withdrawal_bundle_submitted(s, m) /\ ~submitted_refused(s, m)
    BY <1>1, <1>7 DEF connect_2wpd_event, connect_refused
  <2>2. m \in M6id /\ (HasBundle(s, m) \/ m \in MainBundle)
    BY <1>1, <1>7
  <2> HIDE DEF m
  <2>3. SubmittedPending(s, m, t) \/ SubmittedAgain(s, m, t) \/ SubmittedUnknown(s, m, t)
    BY <2>1, <2>2, SubmittedCases
  <2> QED
    BY <1>3, <1>4, <2>3 DEF SubmittedPending, SubmittedAgain, SubmittedUnknown
<1>8. CASE e.kind = "Confirmed"
  <2> DEFINE m == e.m6id
  <2>1. t = connect_withdrawal_bundle_confirmed(s, m) /\ ~confirmed_refused(s, m)
    BY <1>1, <1>8 DEF connect_2wpd_event, connect_refused
  <2>2. HasBundle(s, m) /\ IsSubmitted(LatestStatus(s, m))
    BY <1>1, <1>8
  <2> HIDE DEF m
  <2>3. ConfirmsUnknown(s, m, t) \/ ConfirmsAgain(s, m, t) \/ Confirms(s, m, t)
    BY <2>1, <2>2, ConfirmedCases
  <2> QED
    BY <1>3, <1>4, <2>3 DEF ConfirmsUnknown, ConfirmsAgain, Confirms
<1>9. CASE e.kind = "Failed"
  <2> DEFINE m == e.m6id
  <2>1. t = connect_withdrawal_bundle_failed(s, m)
    BY <1>1, <1>9 DEF connect_2wpd_event
  <2>2. HasBundle(s, m) /\ IsSubmitted(LatestStatus(s, m))
    BY <1>1, <1>9
  <2> HIDE DEF m
  <2>3. Fails(s, m, t) \/ FailsAgain(s, m, t)
    BY <2>1, <2>2, FailedCases
  <2> QED
    BY <1>4, <1>5, <2>3 DEF Fails, FailsAgain
<1> QED
  BY <1>1, <1>6, <1>7, <1>8, <1>9

\* What the end of connect() leaves: the records of the block, and a bundle
\* if one is collected.
Ended(s, d, e, i, r) ==
    \/ r = AtEnd(s, d, e, i)
    \/ \E m, c : Collected(AtEnd(s, d, e, i), m, c, r)

LEMMA EndCases ==
    ASSUME NEW s, NEW l, NEW n, Good(s, l, n, s.height - 1), s.height \in Nat, Timely(s),
           NEW d \in Nat, NEW e \in Nat, NEW i \in BlockIndexEvents,
           NEW r, r = connect_end(s, d, e, i)
    PROVE  Ended(s, d, e, i, r) /\ DbInv(AtEnd(s, d, e, i))
<1> DEFINE a == AtEnd(s, d, e, i)
<1>1. DbInv(s) /\ EntriesOK(s.withdrawal_bundles, s.height, s.height - 1)
  BY DEF Good
<1>2. r = store_pending(a) /\ DbInv(a)
  BY <1>1, AtEndIs
<1>3. /\ a.height = s.height /\ a.utxos = s.utxos /\ a.pending = s.pending
      /\ a.withdrawal_bundles = s.withdrawal_bundles /\ a.latest_failed = s.latest_failed
  BY RecordedFields DEF AtEnd
<1> HIDE DEF a
<1>4. Timely(a)
  BY <1>3, TimelySame
<1>5. r = a \/ \E m, c : Collected(a, m, c, r)
  BY <1>1, <1>2, <1>3, <1>4, StoreCases
<1> QED
  BY <1>2, <1>5 DEF Ended, a

LEMMA TablesEnd ==
    ASSUME NEW s, Tables(s), NEW d, NEW e, NEW i, NEW r, Ended(s, d, e, i, r)
    PROVE  Tables(r) /\ r.height = s.height
<1> DEFINE a == AtEnd(s, d, e, i)
<1>1. a.height = s.height /\ a.stxos = s.stxos /\ a.block_index_events = EndIndex(s, i)
  BY RecordedFields DEF AtEnd
<1>2. IsFcn(EndIndex(s, i)) /\ IsFcn(s.stxos)
  BY AreFunctions DEF EndIndex, Tables
<1> HIDE DEF a
<1>3. ASSUME NEW m, NEW c, Collected(a, m, c, r)
      PROVE  r.stxos = a.stxos /\ r.block_index_events = a.block_index_events /\ r.height = a.height
  BY <1>3, WithFields DEF Collected
<1>4. r.stxos = a.stxos /\ r.block_index_events = a.block_index_events /\ r.height = a.height
  BY <1>3 DEF Ended, a
<1> QED
  BY <1>1, <1>2, <1>4 DEF Tables

LEMMA FineBody ==
    ASSUME NEW s, NEW l, NEW n \in Nat, NEW top \in Int, Fine(s, l, n, top),
           NEW body \in SUBSET Deposit, \A d \in body : deposit(d) \in s.utxos,
           NEW r, r = connect_body(s, body)
    PROVE  Fine(r, l, n, top) /\ r.height = s.height + 1
<1>1. Good(s, l, n, top) /\ Tables(s) /\ DbInv(s)
  BY DEF Fine, Good
<1>2. Good(r, l, n, top)
  BY <1>1, GoodBody
<1>3. Tables(r)
  BY <1>1, TablesBody
<1>4. r.height = s.height + 1
  BY <1>1, BodyIs, MovedFields
<1> QED
  BY <1>2, <1>3, <1>4 DEF Fine

LEMMA FineEvent ==
    ASSUME NEW s, NEW l, NEW n \in Nat, NEW top \in Int, Fine(s, l, n, top),
           s.height \in Nat, top < s.height,
           NEW e, Applies(s, e), NextIs(l, n, e), NEW r, r = connect_2wpd_event(s, e)
    PROVE  Fine(r, l, n + 1, top) /\ r.height = s.height
<1>1. Good(s, l, n, top) /\ Tables(s) /\ DbInv(s)
  BY DEF Fine, Good
<1>2. Good(r, l, n + 1, top) /\ r.height = s.height
  BY <1>1, GoodEvent
<1>3. Tables(r)
  BY <1>1, TablesEvent
<1> QED
  BY <1>2, <1>3 DEF Fine

FineBelow(s, l, n) == Fine(s, l, n, s.height - 1)

Ending(s, d, e, i, r) ==
    /\ d \in Nat /\ e \in Nat /\ i \in BlockIndexEvents /\ r = connect_end(s, d, e, i)
    /\ Timely(s)

LEMMA FineEnd ==
    ASSUME NEW s, NEW l, NEW n \in Nat, FineBelow(s, l, n), s.height \in Nat,
           NEW d, NEW e, NEW i, NEW r, Ending(s, d, e, i, r)
    PROVE  Fine(r, l, n, s.height) /\ r.height = s.height
<1>0. /\ d \in Nat /\ e \in Nat /\ i \in BlockIndexEvents /\ r = connect_end(s, d, e, i)
      /\ Timely(s)
  BY DEF Ending
<1>1. Good(s, l, n, s.height - 1) /\ Tables(s)
  BY DEF Fine, FineBelow
<1>2. Good(r, l, n, s.height)
  BY <1>0, <1>1, GoodEnd
<1>3. Ended(s, d, e, i, r)
  BY <1>0, <1>1, EndCases
<1>4. Tables(r) /\ r.height = s.height
  BY <1>1, <1>3, TablesEnd
<1> QED
  BY <1>2, <1>4 DEF Fine

LEMMA FineEndAt ==
    ASSUME NEW s, NEW l, NEW n \in Nat, NEW g \in Int, Fine(s, l, n, g),
           NEW h \in Nat, h = g + 1, s.height = h,
           NEW d, NEW e, NEW i, NEW r, Ending(s, d, e, i, r)
    PROVE  Fine(r, l, n, h) /\ r.height = h
<1>1. s.height - 1 = g
  OBVIOUS
<1>2. FineBelow(s, l, n) /\ s.height \in Nat
  BY <1>1 DEF FineBelow
<1>3. Fine(r, l, n, s.height) /\ r.height = s.height
  BY <1>2, FineEnd
<1> QED
  BY <1>3

LEMMA FineLike ==
    ASSUME NEW r, DbInv(r), NEW s, NEW l, NEW n \in Nat, NEW top \in Int,
           Fine(s, l, n, top), NEW h \in Int, top < h, Like(r, s, h)
    PROVE  Fine(r, l, n, top)
<1>1. Good(r, l, n, top)
  BY GoodLike DEF Fine
<1>2. Tables(r)
  BY DEF Fine, Tables, Like
<1> QED
  BY <1>1, <1>2 DEF Fine

LEMMA FineLog ==
    ASSUME NEW s, NEW l, NEW k, NEW n \in Nat, NEW top, Fine(s, l, n, top),
           \A i \in 1..n : k[i] = l[i]
    PROVE  Fine(s, k, n, top)
  BY GoodLog DEF Fine

-----------------------------------------------------------------------------
(***************************************************************************)
(* The beginning and the end of disconnect().                              *)
(***************************************************************************)
DropIndex(s, h) == [s EXCEPT !.block_index_events = DeleteAll(@, {h})]

LEMMA IndexRestored ==
    ASSUME NEW t, IsFcn(t.block_index_events), t.height \in Nat,
           IndexBelow(t.block_index_events, t.height - 1), NEW i
    PROVE  DeleteAll(EndIndex(t, i), {t.height}) = t.block_index_events
<1> DEFINE x == t.block_index_events
           h == t.height
           y == DeleteAll(EndIndex(t, i), {h})
<1>1. h \notin DOMAIN x
  BY DEF IndexBelow
<1>2. EndIndex(t, i) = x \/ EndIndex(t, i) = PutOne(x, h, i)
  BY DEF EndIndex
<1>3. DOMAIN y = DOMAIN x /\ \A k \in DOMAIN x : y[k] = x[k]
  BY <1>1, <1>2 DEF DeleteAll, PutOne
<1>4. y = [k \in DOMAIN y |-> y[k]]
  BY DEF DeleteAll
<1>5. x = [k \in DOMAIN x |-> x[k]]
  BY DEF IsFcn
<1> HIDE DEF x, y, h
<1>6. y = x
  BY <1>3, <1>4, <1>5
<1> QED
  BY <1>6 DEF x, y, h

LEMMA LikeSelf ==
    ASSUME NEW w, NEW h
    PROVE  LikeW(w, w, h)
  BY DEF LikeW

\* The block's index entry is deleted; the databases are near what the last
\* event of the block left, and the stacks hold what the end stored.
LEMMA BeginNear ==
    ASSUME NEW t, NEW l, NEW n, NEW h \in Nat, t.height = h, Fine(t, l, n, h - 1), Timely(t),
           NEW d \in Nat, NEW e \in Nat, NEW i \in BlockIndexEvents,
           NEW z, z = connect_end(t, d, e, i), DbInv(z),
           NEW s, DbInv(s), Like(s, z, h + 1), NEW r, r = DropIndex(s, s.height)
    PROVE  Near(r, t) /\ Stacked(r, t, d, e)
<1> DEFINE a == AtEnd(t, d, e, i)
           I == DeleteAll(s.block_index_events, {s.height})
           D == OnTop(t.deposit_blocks, d, h)
           E == OnTop(t.event_blocks, e, h)
           tw == t.withdrawal_bundles
           zw == z.withdrawal_bundles
           sw == s.withdrawal_bundles
<1>1. /\ Good(t, l, n, h - 1) /\ DbInv(t) /\ IsFcn(t.block_index_events)
      /\ IndexBelow(t.block_index_events, h - 1)
  BY DEF Fine, Good, Tables
<1>2. Ended(t, d, e, i, z)
  BY <1>1, EndCases
<1>3. /\ a.height = h /\ a.utxos = t.utxos /\ a.stxos = t.stxos
      /\ a.withdrawal_bundles = tw /\ a.pending = t.pending
      /\ a.latest_failed = t.latest_failed /\ a.deposit_blocks = D
      /\ a.event_blocks = E /\ a.block_index_events = EndIndex(t, i)
  BY RecordedFields DEF AtEnd
<1>4. /\ s.height = z.height /\ s.utxos = z.utxos /\ s.stxos = z.stxos
      /\ s.pending = z.pending /\ s.latest_failed = z.latest_failed
      /\ s.deposit_blocks = z.deposit_blocks /\ s.event_blocks = z.event_blocks
      /\ s.block_index_events = z.block_index_events
      /\ LikeW(sw, zw, h + 1)
  BY DEF Like
<1>5. r = Recorded(s, I, s.deposit_blocks, s.event_blocks)
  BY RecordFields, RecordIndex DEF DropIndex
<1>6. /\ IsBundles(sw) /\ IsBundles(zw)
  BY StateFields
<1>7. (z = a \/ \E m, c : Collected(a, m, c, z))
  BY <1>2 DEF Ended
<1> HIDE DEF a, I, D, E
<1>8. /\ r.height = s.height /\ r.utxos = s.utxos /\ r.stxos = s.stxos
      /\ r.withdrawal_bundles = sw /\ r.pending = s.pending
      /\ r.latest_failed = s.latest_failed /\ r.deposit_blocks = s.deposit_blocks
      /\ r.event_blocks = s.event_blocks /\ r.block_index_events = I
  BY <1>5, RecordedFields
\* What both cases come to.
<1>9. ASSUME z.height = h, z.utxos = t.utxos, z.stxos = t.stxos,
             z.latest_failed = t.latest_failed, z.deposit_blocks = D, z.event_blocks = E,
             z.block_index_events = EndIndex(t, i), LikeW(zw, tw, h), PendingNear(r, t)
      PROVE  Near(r, t) /\ Stacked(r, t, d, e)
  <2>1. LikeW(sw, tw, h)
    <3> HIDE DEF sw, zw, tw
    <3>1. h + 1 \in Int /\ h \in Int /\ h <= h + 1
      OBVIOUS
    <3> QED
      BY <1>4, <1>6, <1>9, <3>1, LikeTransitive
  <2>2. I = t.block_index_events
    BY <1>1, <1>4, <1>9, IndexRestored DEF I
  <2>3. Near(r, t)
    BY <1>4, <1>8, <1>9, <2>1, <2>2 DEF Near
  <2>4. Stacked(r, t, d, e)
    BY <1>4, <1>8, <1>9 DEF Stacked, D, E
  <2> QED
    BY <2>3, <2>4
<1>10. CASE z = a
  <2>1. LikeW(zw, tw, h)
    BY <1>3, <1>10, LikeSelf
  <2>2. PendingNear(r, t)
    BY <1>3, <1>4, <1>8, <1>10 DEF PendingNear
  <2> QED
    BY <1>3, <1>9, <1>10, <2>1, <2>2
<1>11. ASSUME NEW m, NEW c, Collected(a, m, c, z)
       PROVE  Near(r, t) /\ Stacked(r, t, d, e)
  <2>1. /\ Collects(a) /\ m \in M6id /\ c \in Bundle /\ PendingOnly(m, c)
        /\ m.height = h /\ m.spend_utxos = t.utxos \cap Withdrawals
        /\ HasBundle(a, m) => Len(c.status) > 1 /\ PendingOnly(m, tw[m])
        /\ z = With(a, a.utxos, a.stxos, PutOne(tw, m, c), {m}, a.latest_failed)
    BY <1>3, <1>11 DEF Collected
  <2> DEFINE v == PutOne(tw, m, c)
             p == {m}
  <2> HIDE DEF v, p
  <2>2. /\ z.utxos = a.utxos /\ z.stxos = a.stxos /\ zw = v /\ z.pending = p
        /\ z.latest_failed = a.latest_failed /\ z.height = a.height
        /\ z.deposit_blocks = a.deposit_blocks /\ z.event_blocks = a.event_blocks
        /\ z.block_index_events = a.block_index_events
    BY <2>1, WithFields DEF v, p
  <2>3. HasBundle(a, m) <=> m \in DOMAIN tw
    BY <1>3 DEF HasBundle
  <2>4. LikeW(v, tw, h)
    <3>1. m \in DOMAIN tw => PendingOnly(m, tw[m])
      BY <2>1, <2>3
    <3> QED
      BY <2>1, <3>1, PutLike DEF v
  <2>5. GapElapsed(t) /\ t.pending = {}
    <3>1. GapElapsed(a) /\ a.pending = {}
      BY <2>1 DEF Collects
    <3> QED
      BY <1>3, <3>1, GapSame
  <2>6. sw[m] = c
    <3>1. m \in DOMAIN zw /\ zw[m] = c
      BY <2>2 DEF v, PutOne
    <3>2. m.height < h + 1 /\ h + 1 \in Int
      BY <2>1
    <3> HIDE DEF sw, zw
    <3> QED
      BY <1>4, <1>6, <3>1, <3>2, LikeEntry
  <2>7. StillPending(r, t, m)
    <3>1. r.pending = {m} /\ r.withdrawal_bundles[m] = c
      BY <1>4, <1>8, <2>2, <2>6 DEF p
    <3>2. HasBundle(t, m) => Len(c.status) > 1 /\ PendingOnly(m, t.withdrawal_bundles[m])
      BY <2>1, <2>3 DEF HasBundle
    <3> QED
      BY <2>1, <2>5, <3>1, <3>2 DEF StillPending
  <2>8. PendingNear(r, t)
    <3>1. m \in r.pending
      BY <1>4, <1>8, <2>2 DEF p
    <3> QED
      BY <2>7, <3>1 DEF PendingNear
  <2> QED
    BY <1>3, <1>9, <2>2, <2>4, <2>8
<1> QED
  BY <1>7, <1>10, <1>11

LEMMA PopAppend ==
    ASSUME NEW S, NEW q \in Seq(S), NEW x \in S, NEW r, r = Append(q, x)
    PROVE  popped(r) = q /\ r # <<>> /\ r[Len(r)] = x
<1>1. r \in Seq(S) /\ Len(r) = Len(q) + 1 /\ r[Len(r)] = x /\ Len(q) \in Nat
      /\ \A i \in 1..Len(q) : r[i] = q[i]
  OBVIOUS
<1> DEFINE n == Len(r) - 1
<1>2. n = Len(q) /\ n \in Nat /\ \A i \in 1..n : r[i] \in S
  BY <1>1
<1> HIDE DEF n
<1>3. /\ SubSeq(r, 1, n) \in Seq(S)
      /\ Len(SubSeq(r, 1, n)) = IF 1 <= n THEN n - 1 + 1 ELSE 0
      /\ \A i \in 1..(n - 1 + 1) : SubSeq(r, 1, n)[i] = r[1 + i - 1]
  BY <1>2, SubSeqProperties
<1>4. Len(SubSeq(r, 1, n)) = n /\ \A i \in 1..n : SubSeq(r, 1, n)[i] = r[i]
  BY <1>2, <1>3
<1>5. SubSeq(r, 1, n) = q
  BY <1>1, <1>2, <1>3, <1>4, SeqEqual
<1>6. r # <<>>
  BY <1>1
<1> QED
  BY <1>1, <1>5, <1>6 DEF popped, n

\* The latest failure is the same, seen from r.
LEMMA NearFailure ==
    ASSUME NEW t, DbInv(t), FailedOK(t.latest_failed, t.withdrawal_bundles, t.height),
           NEW r, DbInv(r), Near(r, t)
    PROVE  /\ LatestFailedConsistent(r)
           /\ GapElapsed(r) <=> GapElapsed(t)
           /\ FailedOK(r.latest_failed, r.withdrawal_bundles, r.height)
<1> DEFINE f == t.latest_failed
           tw == t.withdrawal_bundles
           rw == r.withdrawal_bundles
           h == t.height
           k == latest(f).value
<1>1. /\ IsBundles(rw) /\ IsBundles(tw) /\ h \in Int /\ f \in Seq(HeightStamped(M6id))
      /\ LikeW(rw, tw, h) /\ FailedOK(f, tw, h)
      /\ r.height = h /\ r.latest_failed = f
  <2>1. h \in Int
    BY DEF DbInv, DbOK
  <2> QED
    BY <2>1, StateFields DEF Near
<1>2. /\ LatestFailedConsistent(r) <=> (f # <<>> => k \in DOMAIN rw /\ Records(rw[k].status, "Failed"))
      /\ GapElapsed(r) <=> h - FailureHeight(f, rw) >= GAP
      /\ GapElapsed(t) <=> h - FailureHeight(f, tw) >= GAP
  BY <1>1, FailureHeightIs DEF LatestFailedConsistent, HasBundle, StatusOf
<1> HIDE DEF rw, tw, f, h
<1>3. FailedOK(f, rw, h)
  BY <1>1, LikeFailed
<1>4. CASE f = <<>>
  BY <1>1, <1>2, <1>3, <1>4 DEF FailureHeight, rw, h
<1>5. CASE f # <<>>
  <2>1. k \in DOMAIN tw /\ Records(tw[k].status, "Failed")
    BY <1>1, <1>5, FailedLast
  <2> HIDE DEF k
  <2>2. k \in DOMAIN rw /\ rw[k] = tw[k]
    BY <1>1, <2>1, LikeEntry
  <2>3. FailureHeight(f, rw) = FailureHeight(f, tw)
    BY <1>5, <2>2 DEF FailureHeight, k
  <2> QED
    BY <1>1, <1>2, <1>3, <2>1, <2>2, <2>3 DEF rw, h
<1> QED
  BY <1>4, <1>5

\* A history of one status Pending shortened, if it has more than one.
LEMMA PendingPopped ==
    ASSUME NEW m, NEW b \in Bundle, PendingOnly(m, b)
    PROVE  /\ PendingOnly(m, PopStatus(b))
           /\ Len(b.status) > 1 => popped(b.status) # <<>>
<1> DEFINE v == b.status
           z == popped(v)
<1>1. v \in RollBack(BundleStatus) /\ DOMAIN v = 1..Len(v)
      /\ b = [info |-> b.info, spend_utxos |-> b.spend_utxos, status |-> v]
  BY EntryShape
<1>2. /\ z \in Seq(HeightStamped(BundleStatus)) /\ Len(z) = Len(v) - 1 /\ Len(v) \in Nat \ {0}
      /\ \A i \in 1..(Len(v) - 1) : z[i] = v[i]
  BY <1>1, PopFacts
<1>3. PopStatus(b).info = b.info /\ PopStatus(b).status = z
  BY <1>1 DEF PopStatus
<1>4. \A i \in DOMAIN v : v[i] = [value |-> "Pending", height |-> m.height]
  BY DEF PendingOnly
<1> HIDE DEF v, z
<1>5. \A i \in DOMAIN z : z[i] = [value |-> "Pending", height |-> m.height]
  <2>1. DOMAIN z = 1..Len(z)
    BY <1>2
  <2> QED
    BY <1>1, <1>2, <1>4, <2>1
<1>6. Len(v) > 1 => z # <<>>
  BY <1>2
<1> QED
  BY <1>3, <1>5, <1>6 DEF PendingOnly, v, z

\* The bundle that the block collected is dropped, and no other.
Dropped(r, t, q) ==
    /\ q.height = r.height /\ q.utxos = r.utxos /\ q.stxos = r.stxos
    /\ q.latest_failed = r.latest_failed /\ q.deposit_blocks = r.deposit_blocks
    /\ q.event_blocks = r.event_blocks /\ q.block_index_events = r.block_index_events
    /\ q.pending = t.pending
    /\ LikeW(q.withdrawal_bundles, t.withdrawal_bundles, t.height)

LEMMA DropKeeps ==
    ASSUME NEW t, DbInv(t), t.height \in Nat,
           PendingBelow(t.pending, t.withdrawal_bundles, t.height - 1),
           NEW r, DbInv(r), Near(r, t), r.pending = t.pending
    PROVE  Dropped(r, t, drop_pending(r))
<1> DEFINE m == CHOOSE m \in r.pending : TRUE
           rw == r.withdrawal_bundles
           tw == t.withdrawal_bundles
           h == t.height
<1>1. ASSUME r.pending # {} PROVE ~LatestIsOfTip(r, m)
  <2>1. m \in t.pending
    BY <1>1
  <2> HIDE DEF m
  <2>2. m \in DOMAIN tw /\ m \in M6id /\ tw[m] \in Bundle
    BY <2>1, StateFields DEF PendingOK, IsBundles, PartialFunction
  <2>3. m.height <= h - 1 /\ latest(tw[m].status).height <= h - 1
    BY <2>1 DEF PendingBelow
  <2>4. m.height \in Nat /\ latest(tw[m].status).height \in Nat
    BY <2>2, LatestShape DEF M6id
  <2>5. IsBundles(rw) /\ IsBundles(tw) /\ LikeW(rw, tw, h) /\ r.height = h /\ h \in Nat
    BY StateFields DEF Near
  <2>6. rw[m] = tw[m]
    <3> HIDE DEF rw, tw, h
    <3>1. m.height < h /\ h \in Int
      BY <2>3, <2>4, <2>5
    <3> QED
      BY <2>2, <2>5, <3>1, LikeEntry
  <2>7. latest(rw[m].status).height # r.height
    BY <2>3, <2>4, <2>5, <2>6
  <2> QED
    BY <2>7 DEF LatestIsOfTip, StatusOf
<1>2. drop_pending(r) = r
  BY <1>1 DEF drop_pending
<1> QED
  BY <1>2 DEF Dropped, Near

LEMMA DropsCollected ==
    ASSUME NEW t, DbInv(t), t.height \in Nat,
           FailedOK(t.latest_failed, t.withdrawal_bundles, t.height),
           NEW r, DbInv(r), Near(r, t), NEW m, StillPending(r, t, m)
    PROVE  Dropped(r, t, drop_pending(r))
<1> DEFINE q == drop_pending(r)
           u == r.utxos
           x == r.stxos
           w == r.withdrawal_bundles
           tw == t.withdrawal_bundles
           f == r.latest_failed
           p == {}
           a == SetPending(r, p)
           h == t.height
<1>1. /\ t.pending = {} /\ r.pending = {m} /\ GapElapsed(t) /\ m.height = h
      /\ PendingOnly(m, w[m])
      /\ m \in DOMAIN tw => Len(w[m].status) > 1 /\ PendingOnly(m, tw[m])
  BY DEF StillPending, HasBundle
<1>2. GapElapsed(r) /\ r.height = h /\ LikeW(w, tw, h)
  BY <1>1, NearFailure DEF Near
<1>3. m \in DOMAIN w /\ w[m] \in Bundle
  BY <1>1, StateFields DEF PendingOK, IsBundles, PartialFunction
<1>4. LatestIsOfTip(r, m)
  BY <1>1, <1>2, <1>3, PendingOnlyFacts DEF LatestIsOfTip, StatusOf
<1>5. (CHOOSE k \in r.pending : TRUE) = m
  BY <1>1
<1>6. r = With(r, u, x, w, r.pending, f)
  BY StateFields
<1>7. a = With(r, u, x, w, p, f)
  BY <1>6, SetPendingIs
<1>8. /\ HasUnder(r, m) => q = PutBundle(a, m, PopStatus(w[m]))
      /\ ~HasUnder(r, m) => q = SetBundles(a, DeleteAll(w, {m}))
  <2>1. a.withdrawal_bundles = w
    BY <1>7, Fields
  <2>2. q = IF HasUnder(r, m) THEN PutBundle(a, m, PopStatus(w[m]))
            ELSE [a EXCEPT !.withdrawal_bundles = DeleteAll(@, {m})]
    BY <1>1, <1>2, <1>4, <1>5 DEF drop_pending, SetPending
  <2> QED
    BY <2>1, <2>2 DEF SetBundles
<1>9. ASSUME NEW v, q = With(r, u, x, v, p, f), LikeW(v, tw, h) PROVE Dropped(r, t, q)
  <2> HIDE DEF q, u, x, f
  <2>1. /\ q.utxos = u /\ q.stxos = x /\ q.withdrawal_bundles = v /\ q.pending = p
        /\ q.latest_failed = f /\ q.height = r.height
        /\ q.deposit_blocks = r.deposit_blocks /\ q.event_blocks = r.event_blocks
        /\ q.block_index_events = r.block_index_events
    BY <1>9, WithFields
  <2> QED
    BY <1>1, <1>9, <2>1 DEF Dropped, u, x, f
<1>10. CASE HasUnder(r, m)
  <2> DEFINE c == PopStatus(w[m])
             v == PutOne(w, m, c)
  <2>1. PendingOnly(m, c)
    BY <1>1, <1>3, PendingPopped
  <2>2. q = PutBundle(a, m, c)
    BY <1>8, <1>10
  <2> HIDE DEF c, q, a, u, x, w, f, p
  <2>3. q = With(r, u, x, v, p, f)
    BY <1>7, <2>2, PutBundleIs
  <2>4. LikeW(v, tw, h)
    BY <1>1, <1>2, <2>1 DEF LikeW, PutOne
  <2> QED
    BY <1>9, <2>3, <2>4 DEF q
<1>11. CASE ~HasUnder(r, m)
  <2> DEFINE v == DeleteAll(w, {m})
  <2>1. m \notin DOMAIN tw
    BY <1>1, <1>3, <1>11, PendingPopped DEF HasUnder, Under, StatusOf
  <2>2. q = SetBundles(a, v)
    BY <1>8, <1>11
  <2>3. LikeW(v, tw, h)
    BY <1>2, <2>1 DEF LikeW, DeleteAll
  <2> HIDE DEF v, q, a, u, x, w, f, p
  <2>4. q = With(r, u, x, v, p, f)
    BY <1>7, <2>2, SetBundlesIs
  <2> QED
    BY <1>9, <2>3, <2>4 DEF q
<1> QED
  BY <1>10, <1>11

LEMMA PendingDropped ==
    ASSUME NEW t, NEW l, NEW n, t.height \in Nat, Good(t, l, n, t.height - 1),
           NEW r, DbInv(r), Near(r, t)
    PROVE  Dropped(r, t, drop_pending(r))
<1>1. /\ DbInv(t) /\ PendingBelow(t.pending, t.withdrawal_bundles, t.height - 1)
      /\ FailedOK(t.latest_failed, t.withdrawal_bundles, t.height)
  BY DEF Good
<1>2. CASE r.pending = t.pending
  BY <1>1, <1>2, DropKeeps
<1>3. CASE \E m \in r.pending : StillPending(r, t, m)
  BY <1>1, <1>3, DropsCollected
<1> QED
  BY <1>2, <1>3 DEF Near, PendingNear

LEMMA StackPopped ==
    ASSUME NEW q \in Seq(EventBlock), NEW k \in Nat, NEW h \in Nat, NEW r, r = OnTop(q, k, h)
    PROVE  /\ k # 0 => OfTip(r, k, h)
           /\ (IF k = 0 THEN r ELSE popped(r)) = q
<1>1. [hash |-> k, height |-> h] \in EventBlock
  BY DEF EventBlock
<1>2. CASE k = 0
  BY <1>2 DEF OnTop
<1>3. CASE k # 0
  <2> DEFINE x == [hash |-> k, height |-> h]
  <2>1. r = Append(q, x) /\ x \in EventBlock
    BY <1>1, <1>3 DEF OnTop
  <2> HIDE DEF x
  <2>2. popped(r) = q /\ r # <<>> /\ r[Len(r)] = x
    BY <2>1, PopAppend
  <2> QED
    BY <1>3, <2>2 DEF OfTip, x
<1> QED
  BY <1>2, <1>3

\* The end of disconnect() asserts nothing that does not hold ...
LEMMA EndPasses ==
    ASSUME NEW t, NEW l, NEW n, t.height \in Nat, Good(t, l, n, t.height - 1),
           NEW r, DbInv(r), Near(r, t), NEW d \in Nat, NEW e \in Nat, Stacked(r, t, d, e)
    PROVE  ~disconnect_end_panics(r, d, e) /\ ~disconnect_end_refused(r)
<1>1. DbInv(t) /\ FailedOK(t.latest_failed, t.withdrawal_bundles, t.height)
  BY DEF Good
<1>2. LatestFailedConsistent(r)
  BY <1>1, NearFailure
<1>3. t.deposit_blocks \in Seq(EventBlock) /\ t.event_blocks \in Seq(EventBlock)
  BY <1>1, RecordFields
<1>4. /\ d # 0 => OfTip(r.deposit_blocks, d, t.height)
      /\ e # 0 => OfTip(r.event_blocks, e, t.height)
  BY <1>3, StackPopped DEF Stacked
<1>5. r.height = t.height
  BY DEF Near
<1>6. \A m \in r.pending : HasBundle(r, m)
  BY StateFields DEF PendingOK, HasBundle
<1> QED
  BY <1>2, <1>4, <1>5, <1>6 DEF disconnect_end_panics, disconnect_end_refused

\* ... and leaves the databases that the body had left.
LEMMA EndUndone ==
    ASSUME NEW t, NEW l, NEW n, t.height \in Nat, Good(t, l, n, t.height - 1),
           NEW r, DbInv(r), Near(r, t), NEW d \in Nat, NEW e \in Nat, Stacked(r, t, d, e),
           NEW q, q = disconnect_end(r, d, e)
    PROVE  Like(q, t, t.height)
<1> DEFINE a == drop_pending(r)
           D == IF d = 0 THEN a.deposit_blocks ELSE popped(a.deposit_blocks)
           E == IF e = 0 THEN a.event_blocks ELSE popped(a.event_blocks)
<1>1. q = [a EXCEPT !.deposit_blocks = D, !.event_blocks = E]
  BY DEF disconnect_end
<1>2. Dropped(r, t, a)
  BY PendingDropped
<1>3. DbInv(a)
  BY DropPending DEF Keeps
<1>4. t.deposit_blocks \in Seq(EventBlock) /\ t.event_blocks \in Seq(EventBlock)
  BY RecordFields DEF Good
<1> HIDE DEF a
<1>5. D = t.deposit_blocks /\ E = t.event_blocks
  <2>1. a.deposit_blocks = OnTop(t.deposit_blocks, d, t.height)
        /\ a.event_blocks = OnTop(t.event_blocks, e, t.height)
    BY <1>2 DEF Dropped, Stacked
  <2>2. \A p \in Seq(EventBlock), k \in Nat :
           (IF k = 0 THEN OnTop(p, k, t.height) ELSE popped(OnTop(p, k, t.height))) = p
    BY StackPopped
  <2> QED
    BY <1>4, <2>1, <2>2
<1> HIDE DEF D, E
<1>6. q = Recorded(a, a.block_index_events, D, E)
  <2> DEFINE a1 == [a EXCEPT !.deposit_blocks = D]
  <2>1. a1 = Recorded(a, a.block_index_events, D, a.event_blocks)
    BY <1>3, RecordFields, RecordDeposit
  <2> HIDE DEF a1
  <2>2. [a1 EXCEPT !.event_blocks = E] = Recorded(a, a.block_index_events, D, E)
    BY <2>1, RecordEvent
  <2>3. q = [a1 EXCEPT !.event_blocks = E]
    BY <1>1 DEF a1
  <2> QED
    BY <2>2, <2>3
<1>7. /\ q.height = a.height /\ q.utxos = a.utxos /\ q.stxos = a.stxos
      /\ q.withdrawal_bundles = a.withdrawal_bundles /\ q.pending = a.pending
      /\ q.latest_failed = a.latest_failed /\ q.deposit_blocks = D
      /\ q.event_blocks = E /\ q.block_index_events = a.block_index_events
  BY <1>6, RecordedFields
<1> QED
  BY <1>2, <1>5, <1>7 DEF Like, Dropped, Near

\* Undoing the body.
LEMMA BodyUndone ==
    ASSUME NEW b, DbInv(b), IsFcn(b.stxos), NEW body \in SUBSET Deposit,
           \A d \in body : deposit(d) \in b.utxos,
           NEW t, t = connect_body(b, body), NEW q, DbInv(q), Like(q, t, t.height)
    PROVE  /\ ~disconnect_body_refused(q, body)
           /\ Like(disconnect_body(q, body), b, t.height)
<1> DEFINE u == b.utxos
           x == b.stxos
           S == Spent(body)
           M == Made(body)
           v == BodyUtxos(u, body)
           y == BodyStxos(x, body)
           g == b.height + 1
           z == disconnect_body(q, body)
           zu == (q.utxos \ M) \cup S
           zx == DeleteAll(q.stxos, S)
           k == q.height - 1
<1>1. t = Moved(b, g, v, y)
  BY BodyIs
<1>2. z = Moved(q, k, zu, zx)
  <2>1. z = SetMoved(q, k, zu, zx)
    BY DEF disconnect_body, SetMoved, Spent, Made
  <2> HIDE DEF k, zu, zx
  <2> QED
    BY <2>1, MoveAll
<1>3. b.height \in Int
  BY DEF DbInv, DbOK
<1>4. /\ S \subseteq u /\ M \cap u = {} /\ S \cap DOMAIN x = {}
      /\ \A d \in body : withdrawal(d) \in M /\ deposit(d) \in S
  <2>1. Disjoint(u, x) /\ SpentDeposits(u, x)
    BY StateFields
  <2>2. S \subseteq u
    BY DEF Spent
  <2>3. M \cap u = {}
    BY <2>1 DEF Made, Disjoint, SpentDeposits
  <2> QED
    BY <2>1, <2>2, <2>3 DEF Disjoint, Spent, Made
<1>5. S \cap M = {}
  BY OutPointFacts DEF Spent, Made
<1> HIDE DEF S, M, z
<1>6. v = (u \ S) \cup M
  BY DEF BodyUtxos, S, M
<1>7. DOMAIN y = DOMAIN x \cup S /\ \A o \in DOMAIN x : y[o] = x[o]
  BY <1>4 DEF BodyStxos, PutAll, S
<1> HIDE DEF v, y, g
<1>8. /\ t.height = g /\ t.utxos = v /\ t.stxos = y
      /\ t.withdrawal_bundles = b.withdrawal_bundles /\ t.pending = b.pending
      /\ t.latest_failed = b.latest_failed /\ t.deposit_blocks = b.deposit_blocks
      /\ t.event_blocks = b.event_blocks /\ t.block_index_events = b.block_index_events
  BY <1>1, MovedFields
<1>9. q.height = g /\ q.utxos = v /\ q.stxos = y
  BY <1>8 DEF Like
<1>10. zu = u
  BY <1>4, <1>5, <1>6, <1>9
<1>11. zx = x
  <2>1. DOMAIN zx = DOMAIN x /\ \A o \in DOMAIN x : zx[o] = x[o]
    BY <1>4, <1>7, <1>9 DEF DeleteAll
  <2>2. zx = [o \in DOMAIN zx |-> zx[o]]
    BY DEF DeleteAll
  <2>3. x = [o \in DOMAIN x |-> x[o]]
    BY DEF IsFcn
  <2> HIDE DEF zx, x
  <2> QED
    BY <2>1, <2>2, <2>3
<1>12. k = b.height
  BY <1>3, <1>9 DEF g
<1>13. ~disconnect_body_refused(q, body)
  BY <1>4, <1>6, <1>7, <1>9 DEF disconnect_body_refused
<1> HIDE DEF k, zu, zx
<1>14. /\ z.height = k /\ z.utxos = zu /\ z.stxos = zx
       /\ z.withdrawal_bundles = q.withdrawal_bundles /\ z.pending = q.pending
       /\ z.latest_failed = q.latest_failed /\ z.deposit_blocks = q.deposit_blocks
       /\ z.event_blocks = q.event_blocks /\ z.block_index_events = q.block_index_events
  BY <1>2, MovedFields
<1>15. Like(z, b, t.height)
  BY <1>8, <1>10, <1>11, <1>12, <1>14 DEF Like
<1> QED
  BY <1>13, <1>15 DEF z

-----------------------------------------------------------------------------
(***************************************************************************)
(* The trace.  b is a block of the chain, the events of the log l at       *)
(* lo + 1 .. hi are the ones it has applied, and S[k] are the databases    *)
(* when the first k events of the log have been applied.                   *)
(***************************************************************************)
Stepped(l, k, s, t) ==
    /\ Applies(s, l[k].event) /\ t = connect_2wpd_event(s, l[k].event)
    /\ l[k].height = s.height

Trace(S, b, l, lo, hi) ==
    /\ S[lo] = connect_body(b.before, b.body)
    /\ \A k \in lo..hi : Fine(S[k], l, k, b.before.height) /\ S[k].height = b.before.height + 1
    /\ \A k \in lo..hi : k # lo => Stepped(l, k, S[k - 1], S[k])

Traced(b, l, lo, hi, s) == \E S : Trace(S, b, l, lo, hi) /\ s = S[hi]

\* k is the last deposit (of = "deposit") or the last other event, if there is one.
OfKind(l, i, of) == (l[i].event.kind = "Deposit") <=> (of = "deposit")

LastOf(k, l, lo, hi, of) ==
    /\ k # 0 => k \in (lo + 1)..hi /\ OfKind(l, k, of)
    /\ \A i \in (lo + 1)..hi : OfKind(l, i, of) => i <= k

\* s is what the block b left, or what a reorg restored of it.
LeftBy(s, b, l, lo, hi) ==
    /\ lo <= hi
    /\ \E t, d, e, i :
          /\ d \in Nat /\ e \in Nat /\ i \in BlockIndexEvents
          /\ Traced(b, l, lo, hi, t) /\ Timely(t)
          /\ LastOf(d, l, lo, hi, "deposit") /\ LastOf(e, l, lo, hi, "bundle")
          /\ Like(s, connect_end(t, d, e, i), b.before.height + 2)

\* Databases between two blocks, n events having been applied.
Base(s, l, n) ==
    /\ Fine(s, l, n, s.height)
    /\ \A k \in 1..n : l[k].height <= s.height

BodyOK(b) == b.body \subseteq Deposit /\ \A d \in b.body : deposit(d) \in b.before.utxos

\* Each block was connected to what the block below had left.  N[j] is the
\* number of events before block j.
Linked(c, l, N) ==
    /\ \A j \in 1..Len(c) :
          /\ N[j] \in Nat /\ N[j] <= Len(l)
          /\ c[j].before.height = j - 2
          /\ BodyOK(c[j])
          /\ Base(c[j].before, l, N[j])
          /\ j > 1 => LeftBy(c[j].before, c[j - 1], l, N[j - 1], N[j])
    /\ \A i, j \in 1..Len(c) : i <= j => N[i] <= N[j]

Sound(s, c, l) ==
    \E N :
        /\ Linked(c, l, N)
        /\ Base(s, l, Len(l))
        /\ c # <<>> => LeftBy(s, c[Len(c)], l, N[Len(c)], Len(l))

\* A block is being connected; x and y are the last deposit and the last
\* other event so far.
Connecting(s, c, l, x, y) ==
    \E N :
        /\ Linked(c, l, N)
        /\ Traced(c[Len(c)], l, N[Len(c)], Len(l), s)
        /\ LastOf(x, l, N[Len(c)], Len(l), "deposit")
        /\ LastOf(y, l, N[Len(c)], Len(l), "bundle")

\* x is k once event k has been undone, and 0 before.
Found(x, k, l, lo, of) ==
    IF k > Len(l) THEN x = k ELSE x = 0 /\ LastOf(k, l, lo, Len(l), of)

\* The tip is being disconnected: the events that l still has are to be undone.
Disconnecting(s, c, l, x, y) ==
    \E N, t, d, e :
        /\ d \in Nat /\ e \in Nat
        /\ Linked(c, l, N)
        /\ N[Len(c)] <= Len(l)
        /\ Traced(c[Len(c)], l, N[Len(c)], Len(l), t)
        /\ Near(s, t) /\ Stacked(s, t, d, e)
        /\ Found(x, d, l, N[Len(c)], "deposit") /\ Found(y, e, l, N[Len(c)], "bundle")

RInv ==
    /\ IInv
    /\ Sound(txn.restore[1], txn.restore[2], txn.restore[3])
    /\ txn.op = "idle" => Sound(db, chain, log)
    /\ txn.op = "connect" => Connecting(db, chain, log, txn.deposit_block, txn.event_block)
    /\ txn.op = "disconnect" => Disconnecting(db, chain, log, txn.deposit_block, txn.event_block)

\* k is l, as far as n.
SameUpTo(k, l, n) == \A i \in 1..n : k[i] = l[i]

LEMMA BaseLog ==
    ASSUME NEW s, NEW l, NEW k, NEW n \in Nat, SameUpTo(k, l, n), Base(s, l, n)
    PROVE  Base(s, k, n)
<1>1. \A i \in 1..n : k[i] = l[i]
  BY DEF SameUpTo
<1>2. Fine(s, k, n, s.height)
  BY <1>1, FineLog DEF Base
<1> QED
  BY <1>1, <1>2 DEF Base

LEMMA TraceLog ==
    ASSUME NEW S, NEW b, NEW l, NEW k, NEW lo \in Nat, NEW hi \in Nat, SameUpTo(k, l, hi),
           Trace(S, b, l, lo, hi)
    PROVE  Trace(S, b, k, lo, hi)
<1> DEFINE g == b.before.height
<1>1. \A i \in 1..hi : k[i] = l[i]
  BY DEF SameUpTo
<1>2. ASSUME NEW i \in lo..hi PROVE Fine(S[i], k, i, g)
  <2>1. i \in Nat /\ Fine(S[i], l, i, g) /\ \A j \in 1..i : k[j] = l[j]
    BY <1>1 DEF Trace
  <2> HIDE DEF g
  <2> QED
    BY <2>1, FineLog
<1>3. ASSUME NEW i \in lo..hi, i # lo PROVE Stepped(k, i, S[i - 1], S[i])
  <2>1. Stepped(l, i, S[i - 1], S[i]) /\ k[i] = l[i]
    BY <1>1, <1>3 DEF Trace
  <2> QED
    BY <2>1 DEF Stepped
<1> QED
  BY <1>2, <1>3 DEF Trace

LEMMA LastOfLog ==
    ASSUME NEW x, NEW l, NEW k, NEW lo \in Nat, NEW hi \in Nat, SameUpTo(k, l, hi), NEW of,
           LastOf(x, l, lo, hi, of)
    PROVE  LastOf(x, k, lo, hi, of)
<1>1. \A i \in (lo + 1)..hi : k[i] = l[i]
  BY DEF SameUpTo
<1>2. \A i \in (lo + 1)..hi : OfKind(k, i, of) <=> OfKind(l, i, of)
  BY <1>1 DEF OfKind
<1> QED
  BY <1>2 DEF LastOf

LEMMA LeftByLog ==
    ASSUME NEW s, NEW b, NEW l, NEW k, NEW lo \in Nat, NEW hi \in Nat, SameUpTo(k, l, hi),
           LeftBy(s, b, l, lo, hi)
    PROVE  LeftBy(s, b, k, lo, hi)
<1>1. PICK t, d, e, i :
          /\ d \in Nat /\ e \in Nat /\ i \in BlockIndexEvents
          /\ Traced(b, l, lo, hi, t) /\ Timely(t)
          /\ LastOf(d, l, lo, hi, "deposit") /\ LastOf(e, l, lo, hi, "bundle")
          /\ Like(s, connect_end(t, d, e, i), b.before.height + 2)
  BY DEF LeftBy
<1>2. Traced(b, k, lo, hi, t)
  BY <1>1, TraceLog DEF Traced
<1>3. LastOf(d, k, lo, hi, "deposit") /\ LastOf(e, k, lo, hi, "bundle")
  BY <1>1, LastOfLog
<1> QED
  BY <1>1, <1>2, <1>3 DEF LeftBy

\* The blocks of the chain do not depend on the events after them.
LEMMA LinkedLog ==
    ASSUME NEW c, NEW l, NEW k, Len(c) \in Nat, Len(l) \in Nat, Len(k) \in Nat, NEW N, Linked(c, l, N),
           \A j \in 1..Len(c) : N[j] <= Len(k),
           \A i \in 1..Len(k) : i <= Len(l) => k[i] = l[i]
    PROVE  Linked(c, k, N)
<1>1. ASSUME NEW j \in 1..Len(c)
      PROVE  /\ N[j] \in Nat /\ N[j] <= Len(k) /\ SameUpTo(k, l, N[j])
             /\ c[j].before.height = j - 2 /\ BodyOK(c[j]) /\ Base(c[j].before, l, N[j])
             /\ j > 1 => LeftBy(c[j].before, c[j - 1], l, N[j - 1], N[j])
  <2>1. N[j] \in Nat /\ N[j] <= Len(k) /\ N[j] <= Len(l)
    BY DEF Linked
  <2>2. SameUpTo(k, l, N[j])
    BY <2>1 DEF SameUpTo
  <2> QED
    BY <2>1, <2>2 DEF Linked
<1>2. ASSUME NEW j \in 1..Len(c) PROVE Base(c[j].before, k, N[j])
  BY <1>1, BaseLog
<1>3. ASSUME NEW j \in 1..Len(c), j > 1 PROVE LeftBy(c[j].before, c[j - 1], k, N[j - 1], N[j])
  <2> DEFINE lo == N[j - 1]
             hi == N[j]
             b == c[j - 1]
             s == c[j].before
  <2>1. j - 1 \in 1..Len(c)
    BY <1>3
  <2>2. lo \in Nat /\ hi \in Nat /\ SameUpTo(k, l, hi) /\ LeftBy(s, b, l, lo, hi)
    BY <1>1, <1>3, <2>1
  <2> HIDE DEF lo, hi, b, s
  <2>3. LeftBy(s, b, k, lo, hi)
    BY <2>2, LeftByLog
  <2> QED
    BY <2>3 DEF lo, hi, b, s
<1> QED
  BY <1>1, <1>2, <1>3 DEF Linked

-----------------------------------------------------------------------------
(***************************************************************************)
(* Connecting a block.                                                     *)
(***************************************************************************)
LEMMA AppendFacts ==
    ASSUME NEW S, NEW c \in Seq(S), NEW b, NEW k, k = Append(c, b)
    PROVE  /\ Len(c) \in Nat /\ Len(k) = Len(c) + 1
           /\ k[Len(c) + 1] = b
           /\ \A i \in 1..Len(c) : k[i] = c[i]
<1>1. c \in Seq(S \cup {b}) /\ b \in S \cup {b}
  OBVIOUS
<1> QED
  BY <1>1

LEMMA SubSeqFacts ==
    ASSUME NEW S, NEW c \in Seq(S), c # <<>>, NEW k, k = SubSeq(c, 1, Len(c) - 1)
    PROVE  /\ Len(c) \in Nat /\ Len(c) > 0 /\ Len(k) = Len(c) - 1
           /\ \A i \in 1..Len(k) : k[i] = c[i]
<1> DEFINE n == Len(c) - 1
<1>1. n \in Nat /\ Len(c) = n + 1 /\ Len(c) \in Nat /\ Len(c) > 0
  OBVIOUS
<1> HIDE DEF n
<1>2. /\ Len(SubSeq(c, 1, n)) = IF 1 <= n THEN n - 1 + 1 ELSE 0
      /\ \A i \in 1..(n - 1 + 1) : SubSeq(c, 1, n)[i] = c[1 + i - 1]
  BY <1>1, SubSeqProperties
<1>3. Len(SubSeq(c, 1, n)) = n /\ \A i \in 1..n : SubSeq(c, 1, n)[i] = c[i]
  BY <1>1, <1>2
<1> QED
  BY <1>1, <1>3 DEF n

LEMMA SoundEmpty == Sound(EmptyDb, <<>>, <<>>)
<1> DEFINE l == <<>>
           N == <<>>
<1>1. Len(l) = 0 /\ EmptyDb.height = -1
  BY DEF EmptyDb
<1>2. Fine(EmptyDb, l, 0, -1)
  BY GoodEmpty, TablesEmpty DEF Fine
<1>3. Base(EmptyDb, l, Len(l))
  <2> HIDE DEF l
  <2> QED
    BY <1>1, <1>2 DEF Base
<1>4. Linked(l, l, N)
  BY <1>1 DEF Linked
<1> QED
  BY <1>3, <1>4 DEF Sound

LEMMA ConnectingBegins ==
    ASSUME NEW s, NEW c, NEW l, Sound(s, c, l), ChainOK(c), LogOK(l), s.height = Len(c) - 1,
           NEW b, b.before = s, BodyOK(b), NEW k, k = Append(c, b),
           NEW r, r = connect_body(s, b.body)
    PROVE  Connecting(r, k, l, 0, 0)
<1> DEFINE n == Len(c)
           hi == Len(l)
<1>1. /\ n \in Nat /\ hi \in Nat /\ Len(k) = n + 1 /\ k[n + 1] = b
      /\ \A i \in 1..n : k[i] = c[i]
  BY AppendFacts DEF ChainOK, LogOK
<1>2. PICK N : /\ Linked(c, l, N) /\ Base(s, l, hi)
               /\ c # <<>> => LeftBy(s, c[n], l, N[n], hi)
  BY DEF Sound
<1> DEFINE M == [j \in 1..(n + 1) |-> IF j = n + 1 THEN hi ELSE N[j]]
<1>3. M[n + 1] = hi /\ \A j \in 1..n : M[j] = N[j]
  BY <1>1
<1>4. n > 0 => c # <<>>
  OBVIOUS
<1> HIDE DEF n, hi, M
<1>5. \A j \in 1..n : N[j] \in Nat /\ N[j] <= hi
  BY <1>2 DEF Linked, hi, n
<1>6. Linked(k, l, M)
  <2>1. ASSUME NEW j \in 1..n
        PROVE  /\ M[j] \in Nat /\ M[j] <= hi /\ k[j].before.height = j - 2 /\ BodyOK(k[j])
               /\ Base(k[j].before, l, M[j])
               /\ j > 1 => LeftBy(k[j].before, k[j - 1], l, M[j - 1], M[j])
    <3>1. /\ N[j] \in Nat /\ N[j] <= hi /\ c[j].before.height = j - 2 /\ BodyOK(c[j])
          /\ Base(c[j].before, l, N[j])
          /\ j > 1 => LeftBy(c[j].before, c[j - 1], l, N[j - 1], N[j])
      BY <1>2 DEF Linked, n, hi
    <3>2. k[j] = c[j] /\ M[j] = N[j]
      BY <1>1, <1>3
    <3>3. j > 1 => k[j - 1] = c[j - 1] /\ M[j - 1] = N[j - 1]
      BY <1>1, <1>3
    <3> QED
      BY <3>1, <3>2, <3>3
  <2>2. n + 1 > 1 => LeftBy(s, k[n], l, M[n], M[n + 1])
    <3> SUFFICES ASSUME n > 0 PROVE LeftBy(s, k[n], l, M[n], hi)
      BY <1>1, <1>3
    <3>1. k[n] = c[n] /\ M[n] = N[n]
      BY <1>1, <1>3
    <3> QED
      BY <1>2, <1>4, <3>1
  <2>3. k[n + 1].before.height = (n + 1) - 2 /\ BodyOK(k[n + 1]) /\ Base(k[n + 1].before, l, M[n + 1])
    BY <1>1, <1>2, <1>3 DEF n
  <2>4. ASSUME NEW j \in 1..(n + 1)
        PROVE  /\ M[j] \in Nat /\ M[j] <= hi /\ k[j].before.height = j - 2 /\ BodyOK(k[j])
               /\ Base(k[j].before, l, M[j])
               /\ j > 1 => LeftBy(k[j].before, k[j - 1], l, M[j - 1], M[j])
    <3>1. CASE j \in 1..n
      BY <2>1, <3>1
    <3>2. CASE j = n + 1
      <4>1. (n + 1) - 1 = n /\ k[j] = b /\ b.before = s
        BY <1>1, <3>2
      <4> QED
        BY <1>1, <1>3, <2>2, <2>3, <3>2, <4>1
    <3> QED
      BY <1>1, <3>1, <3>2
  <2>5. ASSUME NEW i \in 1..(n + 1), NEW j \in 1..(n + 1), i <= j PROVE M[i] <= M[j]
    <3>1. CASE j = n + 1
      BY <1>3, <2>4, <3>1
    <3>2. CASE j # n + 1
      <4>1. i \in 1..n /\ j \in 1..n
        BY <1>1, <2>5, <3>2
      <4>2. N[i] <= N[j]
        BY <1>2, <2>5, <4>1 DEF Linked, n
      <4> QED
        BY <1>3, <4>1, <4>2
    <3> QED
      BY <3>1, <3>2
  <2> QED
    BY <1>1, <2>4, <2>5 DEF Linked, hi
<1>7. s.height \in Int /\ Fine(s, l, hi, s.height)
  BY <1>1, <1>2 DEF Base, n
<1>8. Fine(r, l, hi, s.height) /\ r.height = s.height + 1
  <2> DEFINE body == b.body
  <2>1. body \in SUBSET Deposit /\ \A d \in body : deposit(d) \in s.utxos
    BY DEF BodyOK
  <2>2. r = connect_body(s, body)
    OBVIOUS
  <2> DEFINE g == s.height
  <2>3. g \in Int /\ Fine(s, l, hi, g)
    BY <1>7
  <2> HIDE DEF body, g
  <2>4. Fine(r, l, hi, g) /\ r.height = s.height + 1
    BY <1>1, <2>1, <2>2, <2>3, FineBody
  <2> QED
    BY <2>4 DEF g
<1>9. Traced(b, l, hi, hi, r)
  <2> DEFINE S == [i \in {hi} |-> r]
  <2>1. S[hi] = r
    OBVIOUS
  <2> HIDE DEF S
  <2>2. \A i \in hi..hi : i = hi
    BY <1>1
  <2>3. Trace(S, b, l, hi, hi)
    BY <1>8, <2>1, <2>2 DEF Trace
  <2> QED
    BY <2>1, <2>3 DEF Traced
<1>10. LastOf(0, l, hi, hi, "deposit") /\ LastOf(0, l, hi, hi, "bundle")
  BY <1>1 DEF LastOf
<1> QED
  BY <1>1, <1>3, <1>6, <1>9, <1>10 DEF Connecting, hi

LEMMA LinkedTip ==
    ASSUME NEW c, ChainOK(c), c # <<>>, NEW l, NEW N, Linked(c, l, N),
           NEW n, n = Len(c), NEW lo, lo = N[n]
    PROVE  /\ n \in Nat /\ n > 0 /\ lo \in Nat /\ lo <= Len(l)
           /\ c[n].before.height = n - 2 /\ BodyOK(c[n]) /\ Base(c[n].before, l, lo)
           /\ n > 1 => LeftBy(c[n].before, c[n - 1], l, N[n - 1], lo)
           /\ \A j \in 1..n : N[j] <= lo
<1>1. n \in Nat /\ n > 0
  BY DEF ChainOK
<1>2. n \in 1..Len(c) /\ \A j \in 1..n : j <= n
  BY <1>1
<1> QED
  BY <1>1, <1>2 DEF Linked

LEMMA TracedFacts ==
    ASSUME NEW b, NEW l, NEW lo \in Nat, NEW hi \in Nat, lo <= hi, NEW s, Traced(b, l, lo, hi, s)
    PROVE  Fine(s, l, hi, b.before.height) /\ s.height = b.before.height + 1
<1>1. hi \in lo..hi
  OBVIOUS
<1> QED
  BY <1>1 DEF Traced, Trace

\* The databases after one more event.
LEMMA TraceGrows ==
    ASSUME NEW b, b.before.height \in Int, b.before.height >= -1,
           NEW l, NEW k, NEW lo \in Nat, NEW hi \in Nat, lo <= hi,
           SameUpTo(k, l, hi), NEW s, Traced(b, l, lo, hi, s),
           NEW e, Applies(s, e), NextIs(k, hi, e), k[hi + 1].height = s.height,
           NEW r, r = connect_2wpd_event(s, e)
    PROVE  Traced(b, k, lo, hi + 1, r)
<1> DEFINE g == b.before.height
<1>1. PICK S : Trace(S, b, l, lo, hi) /\ s = S[hi]
  BY DEF Traced
<1>2. Trace(S, b, k, lo, hi)
  BY <1>1, TraceLog
<1>3. Fine(s, k, hi, g) /\ s.height = g + 1
  BY <1>1, <1>2, TracedFacts DEF Traced
<1>4. Fine(r, k, hi + 1, g) /\ r.height = g + 1
  <2>1. s.height \in Nat /\ g < s.height /\ g \in Int
    BY <1>3
  <2> HIDE DEF g
  <2>2. Fine(r, k, hi + 1, g) /\ r.height = s.height
    <3>1. Fine(s, k, hi, g)
      BY <1>3
    <3> QED
      BY <2>1, <3>1, FineEvent
  <2>3. s.height = g + 1
    BY <1>3
  <2> QED
    BY <2>2, <2>3
<1> DEFINE T == [i \in lo..(hi + 1) |-> IF i = hi + 1 THEN r ELSE S[i]]
<1>5. T[hi + 1] = r /\ T[lo] = S[lo] /\ T[hi] = s /\ \A i \in lo..hi : T[i] = S[i]
  BY <1>1
<1> HIDE DEF T
<1>6. ASSUME NEW i \in lo..(hi + 1) PROVE Fine(T[i], k, i, g) /\ T[i].height = g + 1
  <2>1. CASE i = hi + 1
    BY <1>4, <1>5, <2>1
  <2>2. CASE i # hi + 1
    <3>1. i \in lo..hi
      BY <2>2
    <3> QED
      BY <1>2, <1>5, <3>1 DEF Trace
  <2> QED
    BY <2>1, <2>2
<1>7. ASSUME NEW i \in lo..(hi + 1), i # lo PROVE Stepped(k, i, T[i - 1], T[i])
  <2>1. CASE i = hi + 1
    <3>1. i - 1 = hi /\ k[i].event = e
      BY <2>1 DEF NextIs
    <3> QED
      BY <1>5, <2>1, <3>1 DEF Stepped
  <2>2. CASE i # hi + 1
    <3>1. i \in lo..hi /\ i - 1 \in lo..hi
      BY <1>7, <2>2
    <3> QED
      BY <1>2, <1>5, <1>7, <3>1 DEF Trace
  <2> QED
    BY <2>1, <2>2
<1>8. T[lo] = connect_body(b.before, b.body)
  BY <1>2, <1>5 DEF Trace
<1>9. Trace(T, b, k, lo, hi + 1)
  BY <1>6, <1>7, <1>8 DEF Trace
<1> QED
  BY <1>5, <1>9 DEF Traced

LEMMA LastGrows ==
    ASSUME NEW l, NEW k, NEW lo \in Nat, NEW hi \in Nat, lo <= hi, SameUpTo(k, l, hi),
           NEW of, NEW x \in Nat, LastOf(x, l, lo, hi, of),
           NEW y, y = IF OfKind(k, hi + 1, of) THEN hi + 1 ELSE x
    PROVE  LastOf(y, k, lo, hi + 1, of)
<1>1. LastOf(x, k, lo, hi, of)
  BY LastOfLog
<1>2. CASE OfKind(k, hi + 1, of)
  BY <1>2 DEF LastOf
<1>3. CASE ~OfKind(k, hi + 1, of)
  BY <1>1, <1>3 DEF LastOf
<1> QED
  BY <1>2, <1>3

\* What applying the event e does.
Apply1(s, l, e, x, y, r, k, x1, y1) ==
    /\ r = connect_2wpd_event(s, e)
    /\ k = Append(l, [event |-> e, height |-> s.height])
    /\ x1 = IF e.kind = "Deposit" THEN Len(l) + 1 ELSE x
    /\ y1 = IF e.kind # "Deposit" THEN Len(l) + 1 ELSE y

LEMMA ConnectingEvent ==
    ASSUME NEW s, NEW c, NEW l, NEW x \in Nat, NEW y \in Nat, Connecting(s, c, l, x, y),
           ChainOK(c), c # <<>>, LogOK(l), NEW e, Applies(s, e),
           NEW r, NEW k, NEW x1, NEW y1, Apply1(s, l, e, x, y, r, k, x1, y1)
    PROVE  Connecting(r, c, k, x1, y1)
<1> DEFINE n == Len(c)
           hi == Len(l)
           b == c[n]
           v == [event |-> e, height |-> s.height]
<1>0. /\ r = connect_2wpd_event(s, e) /\ k = Append(l, v)
      /\ x1 = IF e.kind = "Deposit" THEN hi + 1 ELSE x
      /\ y1 = IF e.kind # "Deposit" THEN hi + 1 ELSE y
      /\ v.event = e /\ v.height = s.height
  BY DEF Apply1
<1> HIDE DEF v
<1>1. PICK N : /\ Linked(c, l, N) /\ Traced(b, l, N[n], hi, s)
               /\ LastOf(x, l, N[n], hi, "deposit") /\ LastOf(y, l, N[n], hi, "bundle")
  BY DEF Connecting
<1>2. /\ hi \in Nat /\ Len(k) = hi + 1 /\ k[hi + 1] = v
      /\ \A i \in 1..hi : k[i] = l[i]
  BY <1>0, AppendFacts DEF LogOK
<1> DEFINE lo == N[n]
<1>3. /\ n \in Nat /\ n > 0 /\ lo \in Nat /\ lo <= hi /\ b.before.height = n - 2
      /\ \A j \in 1..n : N[j] <= lo
  BY <1>1, LinkedTip
<1> HIDE DEF hi, n, b, lo
<1>4. SameUpTo(k, l, hi) /\ NextIs(k, hi, e) /\ k[hi + 1].height = s.height
  BY <1>0, <1>2 DEF SameUpTo, NextIs
<1>5. Linked(c, k, N)
  <2>1. \A j \in 1..Len(c) : N[j] <= Len(k)
    <3> SUFFICES ASSUME NEW j \in 1..n PROVE N[j] <= Len(k)
      BY DEF n
    <3>1. N[j] \in Nat
      BY <1>1 DEF Linked, n
    <3> QED
      BY <1>2, <1>3, <3>1
  <2>2. \A i \in 1..Len(k) : i <= Len(l) => k[i] = l[i]
    BY <1>2 DEF hi
  <2>3. Len(c) \in Nat /\ Len(l) \in Nat /\ Len(k) \in Nat
    BY <1>2, <1>3 DEF hi, n
  <2> QED
    BY <1>1, <2>1, <2>2, <2>3, LinkedLog
<1>6. Traced(b, k, lo, hi + 1, r)
  <2>1. b.before.height \in Int /\ b.before.height >= -1
    BY <1>3
  <2>2. Traced(b, l, lo, hi, s)
    BY <1>1 DEF lo
  <2> QED
    BY <1>0, <1>2, <1>3, <1>4, <2>1, <2>2, TraceGrows
<1>7. /\ OfKind(k, hi + 1, "deposit") <=> (e.kind = "Deposit")
      /\ OfKind(k, hi + 1, "bundle") <=> (e.kind # "Deposit")
  BY <1>4 DEF OfKind, NextIs
<1>8. LastOf(x1, k, lo, hi + 1, "deposit")
  <2>1. LastOf(x, l, lo, hi, "deposit") /\ x1 = IF OfKind(k, hi + 1, "deposit") THEN hi + 1 ELSE x
    BY <1>0, <1>1, <1>7 DEF lo
  <2> QED
    BY <1>2, <1>3, <1>4, <2>1, LastGrows
<1>9. LastOf(y1, k, lo, hi + 1, "bundle")
  <2>1. LastOf(y, l, lo, hi, "bundle") /\ y1 = IF OfKind(k, hi + 1, "bundle") THEN hi + 1 ELSE y
    BY <1>0, <1>1, <1>7 DEF lo
  <2> QED
    BY <1>2, <1>3, <1>4, <2>1, LastGrows
<1> QED
  BY <1>2, <1>5, <1>6, <1>8, <1>9 DEF Connecting, lo, n, b

LEMMA LogHeights ==
    ASSUME NEW l, LogOK(l), NEW j \in 1..Len(l)
    PROVE  l[j].height \in Nat
<1> DEFINE T == [event : Event, height : Nat]
<1>1. l \in Seq(T)
  BY DEF LogOK
<1>2. l[j] \in T
  <2> HIDE DEF T
  <2> QED
    BY <1>1
<1> QED
  BY <1>2

LEMMA SoundEnd ==
    ASSUME NEW s, NEW c, NEW l, NEW x \in Nat, NEW y \in Nat, Connecting(s, c, l, x, y),
           ChainOK(c), c # <<>>, LogOK(l), NEW i \in BlockIndexEvents,
           Timely(s), NEW r, r = connect_end(s, x, y, i)
    PROVE  Sound(r, c, l)
<1> DEFINE n == Len(c)
           hi == Len(l)
           b == c[n]
<1>0. Ending(s, x, y, i, r)
  BY DEF Ending
<1>1. PICK N : /\ Linked(c, l, N) /\ Traced(b, l, N[n], hi, s)
               /\ LastOf(x, l, N[n], hi, "deposit") /\ LastOf(y, l, N[n], hi, "bundle")
  BY DEF Connecting
<1> DEFINE lo == N[n]
           g == b.before.height
<1>2. hi \in Nat
  BY DEF LogOK
<1>3. /\ n \in Nat /\ n > 0 /\ lo \in Nat /\ lo <= hi /\ g = n - 2
      /\ Base(b.before, l, lo)
  BY <1>1, LinkedTip
<1>4. Fine(s, l, hi, g) /\ s.height = g + 1
  BY <1>1, <1>2, <1>3, TracedFacts
<1>5. \A j \in 1..lo : l[j].height <= g
  BY <1>3 DEF Base
<1>6. \A j \in (lo + 1)..hi : l[j].height = g + 1
  <2> SUFFICES ASSUME NEW j \in (lo + 1)..hi PROVE l[j].height = g + 1
    OBVIOUS
  <2>1. PICK S : Trace(S, b, l, lo, hi)
    BY <1>1 DEF Traced
  <2> HIDE DEF lo, hi, b, n
  <2>2. j \in lo..hi /\ j - 1 \in lo..hi /\ j # lo
    BY <1>2, <1>3
  <2>3. Stepped(l, j, S[j - 1], S[j]) /\ S[j - 1].height = g + 1
    BY <2>1, <2>2 DEF Trace
  <2> QED
    BY <2>3 DEF Stepped
<1> HIDE DEF g, hi, lo
<1>7. Fine(r, l, hi, g + 1) /\ r.height = g + 1
  <2> DEFINE h == g + 1
  <2>1. h \in Nat /\ s.height = h /\ g \in Int /\ h = g + 1
    BY <1>3, <1>4
  <2>2. Fine(s, l, hi, g) /\ hi \in Nat
    BY <1>2, <1>4
  <2> HIDE DEF h
  <2>3. Fine(r, l, hi, h) /\ r.height = h
    BY <1>0, <2>1, <2>2, FineEndAt
  <2> QED
    BY <2>3 DEF h
<1>8. Base(r, l, hi)
  <2>1. \A j \in 1..hi : l[j].height <= g + 1
    <3> SUFFICES ASSUME NEW j \in 1..hi PROVE l[j].height <= g + 1
      OBVIOUS
    <3>1. CASE j \in 1..lo
      <4>1. l[j].height \in Nat
        BY LogHeights DEF hi
      <4> QED
        BY <1>3, <1>5, <3>1, <4>1
    <3>2. CASE j \in (lo + 1)..hi
      BY <1>3, <1>6, <3>2
    <3> QED
      BY <1>2, <1>3, <3>1, <3>2
  <2> QED
    BY <1>7, <2>1 DEF Base
<1>9. LeftBy(r, b, l, lo, hi)
  <2>1. Like(r, connect_end(s, x, y, i), b.before.height + 2)
    BY LikeSelf DEF Like
  <2> QED
    BY <1>1, <1>3, <2>1 DEF LeftBy, lo
<1> QED
  BY <1>1, <1>8, <1>9 DEF Sound, hi, lo

-----------------------------------------------------------------------------
(***************************************************************************)
(* Disconnecting a block.                                                  *)
(***************************************************************************)
LEMMA NothingFound ==
    ASSUME NEW k \in Nat, NEW l, NEW lo \in Nat, Len(l) \in Nat, NEW of,
           LastOf(k, l, lo, Len(l), of)
    PROVE  Found(0, k, l, lo, of)
<1>1. k <= Len(l)
  BY DEF LastOf
<1> QED
  BY <1>1 DEF Found

LEMMA DisconnectingBegins ==
    ASSUME NEW s, NEW c, NEW l, Sound(s, c, l), DbInv(s), ChainOK(c), c # <<>>, LogOK(l),
           NEW r, r = DropIndex(s, s.height)
    PROVE  Disconnecting(r, c, l, 0, 0)
<1> DEFINE n == Len(c)
           hi == Len(l)
           b == c[n]
<1>1. PICK N : Linked(c, l, N) /\ LeftBy(s, b, l, N[n], hi)
  BY DEF Sound
<1> DEFINE lo == N[n]
           g == b.before.height
<1>2. hi \in Nat
  BY DEF LogOK
<1>3. n \in Nat /\ n > 0 /\ lo \in Nat /\ lo <= hi /\ g = n - 2
  BY <1>1, LinkedTip
<1>4. PICK t, d, e, i :
          /\ d \in Nat /\ e \in Nat /\ i \in BlockIndexEvents
          /\ Traced(b, l, lo, hi, t) /\ Timely(t)
          /\ LastOf(d, l, lo, hi, "deposit") /\ LastOf(e, l, lo, hi, "bundle")
          /\ Like(s, connect_end(t, d, e, i), g + 2)
  BY <1>1 DEF LeftBy
<1>5. Fine(t, l, hi, g) /\ t.height = g + 1
  BY <1>2, <1>3, <1>4, TracedFacts
<1> DEFINE h == g + 1
           z == connect_end(t, d, e, i)
<1> HIDE DEF n, hi, b, lo, g
<1>6. h \in Nat /\ t.height = h /\ h - 1 = g /\ h + 1 = g + 2
  BY <1>3, <1>5
<1>7. Fine(t, l, hi, h - 1) /\ Like(s, z, h + 1)
  BY <1>4, <1>5, <1>6
<1>8. DbInv(z)
  <2>1. FineBelow(t, l, hi) /\ t.height \in Nat
    BY <1>6, <1>7 DEF FineBelow
  <2>2. Ending(t, d, e, i, z)
    BY <1>4 DEF Ending
  <2>3. Fine(z, l, hi, t.height)
    BY <1>2, <2>1, <2>2, FineEnd
  <2> QED
    BY <2>3 DEF Fine, Good
<1> HIDE DEF h, z
<1>9. Near(r, t) /\ Stacked(r, t, d, e)
  BY <1>4, <1>6, <1>7, <1>8, BeginNear DEF z
<1>10. Found(0, d, l, lo, "deposit") /\ Found(0, e, l, lo, "bundle")
  BY <1>2, <1>3, <1>4, NothingFound DEF hi
<1> QED
  BY <1>1, <1>3, <1>4, <1>9, <1>10 DEF Disconnecting, n, hi, b, lo

\* The block's events are those above the ones that were there before it.
LEMMA OwnEvents ==
    ASSUME NEW r, NEW c, NEW l, ChainOK(c), c # <<>>, LogOK(l), NEW N, Linked(c, l, N),
           NEW n, n = Len(c), NEW lo, lo = N[n], lo <= Len(l), NEW t, Near(r, t),
           Traced(c[n], l, lo, Len(l), t)
    PROVE  (l # <<>> /\ l[Len(l)].height = r.height) <=> Len(l) > lo
<1> DEFINE hi == Len(l)
           b == c[n]
           g == b.before.height
<1>1. hi \in Nat /\ (l # <<>> <=> hi > 0)
  BY DEF LogOK
<1>2. n \in Nat /\ n > 0 /\ lo \in Nat /\ lo <= hi /\ g = n - 2 /\ Base(b.before, l, lo)
  BY LinkedTip
<1>3. t.height = g + 1 /\ r.height = g + 1
  BY <1>1, <1>2, TracedFacts DEF Near
<1>4. ASSUME hi = lo, hi > 0 PROVE l[hi].height <= g
  BY <1>2, <1>4 DEF Base
<1>5. ASSUME hi > lo PROVE l[hi].height = g + 1
  <2>1. PICK S : Trace(S, b, l, lo, hi)
    BY DEF Traced
  <2> HIDE DEF hi, b
  <2>2. hi \in lo..hi /\ hi - 1 \in lo..hi /\ hi # lo
    BY <1>1, <1>2, <1>5
  <2>3. Stepped(l, hi, S[hi - 1], S[hi]) /\ S[hi - 1].height = g + 1
    BY <2>1, <2>2 DEF Trace
  <2> QED
    BY <2>3 DEF Stepped
<1>6. hi > 0 => l[hi].height \in Nat
  BY <1>1, LogHeights
<1> HIDE DEF hi, b, g
<1>7. (l # <<>> /\ l[hi].height = r.height) <=> hi > lo
  BY <1>1, <1>2, <1>3, <1>4, <1>5, <1>6
<1> QED
  BY <1>7 DEF hi

\* x, or i if x is 0 and event i is of the kind.
FirstOf(l, i, of, x) == IF OfKind(l, i, of) /\ x = 0 THEN i ELSE x

LEMMA FoundOne ==
    ASSUME NEW l, NEW k, NEW lo \in Nat, NEW hi \in Nat, lo <= hi, Len(l) = hi + 1, Len(k) = hi,
           SameUpTo(k, l, hi), NEW of, NEW d \in Nat, NEW x \in Nat, Found(x, d, l, lo, of),
           NEW y, y = FirstOf(l, hi + 1, of, x)
    PROVE  Found(y, d, k, lo, of)
<1>1. CASE d > hi + 1
  BY <1>1 DEF Found, FirstOf
<1>2. CASE d <= hi + 1
  <2>1. x = 0 /\ LastOf(d, l, lo, hi + 1, of)
    BY <1>2 DEF Found
  <2>2. hi + 1 \in (lo + 1)..(hi + 1)
    OBVIOUS
  <2>3. CASE OfKind(l, hi + 1, of)
    <3>1. d = hi + 1
      BY <1>2, <2>1, <2>2, <2>3 DEF LastOf
    <3> QED
      BY <2>1, <2>3, <3>1 DEF Found, FirstOf
  <2>4. CASE ~OfKind(l, hi + 1, of)
    <3>1. d # hi + 1
      BY <2>1, <2>2, <2>4 DEF LastOf
    <3>2. LastOf(d, l, lo, hi, of)
      BY <1>2, <2>1, <3>1 DEF LastOf
    <3>3. LastOf(d, k, lo, hi, of)
      BY <3>2, LastOfLog
    <3> QED
      BY <1>2, <2>1, <2>4, <3>1, <3>3 DEF Found, FirstOf
  <2> QED
    BY <2>3, <2>4
<1> QED
  BY <1>1, <1>2

LEMMA TraceShrinks ==
    ASSUME NEW b, NEW l, NEW k, NEW lo \in Nat, NEW hi \in Nat, lo <= hi, SameUpTo(k, l, hi),
           NEW t, Traced(b, l, lo, hi + 1, t)
    PROVE  \E s : Traced(b, k, lo, hi, s) /\ Stepped(l, hi + 1, s, t) /\ Fine(t, l, hi + 1, b.before.height)
<1>1. PICK S : Trace(S, b, l, lo, hi + 1) /\ t = S[hi + 1]
  BY DEF Traced
<1>2. /\ hi + 1 \in lo..(hi + 1) /\ hi + 1 # lo /\ (hi + 1) - 1 = hi
      /\ \A i \in lo..hi : i \in lo..(hi + 1)
  OBVIOUS
<1>3. Stepped(l, hi + 1, S[hi], t) /\ Fine(t, l, hi + 1, b.before.height)
  BY <1>1, <1>2 DEF Trace
<1>4. Trace(S, b, l, lo, hi)
  BY <1>1, <1>2 DEF Trace
<1>5. Trace(S, b, k, lo, hi)
  BY <1>4, TraceLog
<1> QED
  BY <1>3, <1>5 DEF Traced

\* What undoing the last event of l does.
Undo1(r, l, e, x, y, q, k, x1, y1) ==
    /\ e = l[Len(l)].event /\ q = disconnect_event(r, e)
    /\ k = SubSeq(l, 1, Len(l) - 1)
    /\ x1 = IF e.kind = "Deposit" /\ x = 0 THEN Len(l) ELSE x
    /\ y1 = IF e.kind # "Deposit" /\ y = 0 THEN Len(l) ELSE y

LEMMA DisconnectingEvent ==
    ASSUME NEW r, DbInv(r), NEW c, NEW l, NEW x \in Nat, NEW y \in Nat,
           Disconnecting(r, c, l, x, y), ChainOK(c), c # <<>>, LogOK(l),
           l # <<>>, l[Len(l)].height = r.height,
           NEW e, NEW q, NEW k, NEW x1, NEW y1, Undo1(r, l, e, x, y, q, k, x1, y1)
    PROVE  /\ ~disconnect_panics(r, e) /\ ~disconnect_refused(r, e)
           /\ Disconnecting(q, c, k, x1, y1)
<1> DEFINE n == Len(c)
           b == c[n]
           hi == Len(k)
<1>1. PICK N, t, d, f :
        /\ d \in Nat /\ f \in Nat
        /\ Linked(c, l, N) /\ N[n] <= Len(l) /\ Traced(b, l, N[n], Len(l), t)
        /\ Near(r, t) /\ Stacked(r, t, d, f)
        /\ Found(x, d, l, N[n], "deposit") /\ Found(y, f, l, N[n], "bundle")
  BY DEF Disconnecting
<1> DEFINE lo == N[n]
           g == b.before.height
<1>2. n \in Nat /\ n > 0 /\ lo \in Nat /\ g = n - 2 /\ \A j \in 1..n : N[j] <= lo
  BY <1>1, LinkedTip
<1>3. Len(l) > lo
  BY <1>1, OwnEvents
<1>4. Len(l) \in Nat /\ Len(k) = Len(l) - 1 /\ \A i \in 1..Len(k) : k[i] = l[i]
  BY SubSeqFacts DEF LogOK, Undo1
<1>5. hi \in Nat /\ Len(l) = hi + 1 /\ lo <= hi
  BY <1>2, <1>3, <1>4
<1>6. SameUpTo(k, l, hi)
  BY <1>4 DEF SameUpTo
<1> HIDE DEF n, b, hi, lo, g
<1>7. PICK s : Traced(b, k, lo, hi, s) /\ Stepped(l, hi + 1, s, t) /\ Fine(t, l, hi + 1, g)
  <2>1. Traced(b, l, lo, hi + 1, t)
    BY <1>1, <1>5 DEF lo
  <2> QED
    BY <1>2, <1>5, <1>6, <2>1, TraceShrinks DEF g
<1>8. e = l[hi + 1].event
  BY <1>5 DEF Undo1
<1>9. Applies(s, e) /\ t = connect_2wpd_event(s, e)
  BY <1>7, <1>8 DEF Stepped
<1>10. Fine(s, k, hi, g) /\ s.height = g + 1
  BY <1>2, <1>5, <1>7, TracedFacts DEF g
<1>11. /\ Good(s, k, hi, g) /\ s.height \in Nat /\ IsFcn(s.stxos) /\ DbInv(t) /\ g \in Int
  BY <1>2, <1>7, <1>10 DEF Fine, Tables, Good
<1>12. q = disconnect_event(r, e)
  BY DEF Undo1
<1>13. /\ ~disconnect_panics(r, e) /\ ~disconnect_refused(r, e) /\ Back(q, r, s, t)
  BY <1>1, <1>5, <1>9, <1>11, <1>12, BackEvent
<1>14. Near(q, s) /\ Stacked(q, s, d, f)
  BY <1>1, <1>13 DEF Back, Stacked
<1>15. Linked(c, k, N)
  <2>1. \A j \in 1..Len(c) : N[j] <= Len(k)
    <3> SUFFICES ASSUME NEW j \in 1..n PROVE N[j] <= hi
      BY DEF n, hi
    <3>1. N[j] \in Nat
      BY <1>1 DEF Linked, n
    <3> QED
      BY <1>2, <1>5, <3>1
  <2>2. \A i \in 1..Len(k) : i <= Len(l) => k[i] = l[i]
    BY <1>4
  <2>3. Len(c) \in Nat /\ Len(l) \in Nat /\ Len(k) \in Nat
    BY <1>2, <1>4, <1>5 DEF hi, n
  <2> QED
    BY <1>1, <2>1, <2>2, <2>3, LinkedLog
<1>16. /\ OfKind(l, hi + 1, "deposit") <=> (e.kind = "Deposit")
       /\ OfKind(l, hi + 1, "bundle") <=> (e.kind # "Deposit")
  BY <1>8 DEF OfKind
<1>17. Found(x1, d, k, lo, "deposit")
  <2>1. Found(x, d, l, lo, "deposit") /\ x1 = FirstOf(l, hi + 1, "deposit", x)
    BY <1>1, <1>5, <1>16 DEF lo, Undo1, FirstOf
  <2>2. Len(k) = hi /\ Len(l) = hi + 1 /\ hi \in Nat /\ lo \in Nat /\ lo <= hi /\ d \in Nat /\ f \in Nat
    BY <1>1, <1>2, <1>5 DEF hi
  <2> QED
    BY <1>6, <2>1, <2>2, FoundOne
<1>18. Found(y1, f, k, lo, "bundle")
  <2>1. Found(y, f, l, lo, "bundle") /\ y1 = FirstOf(l, hi + 1, "bundle", y)
    BY <1>1, <1>5, <1>16 DEF lo, Undo1, FirstOf
  <2>2. Len(k) = hi /\ Len(l) = hi + 1 /\ hi \in Nat /\ lo \in Nat /\ lo <= hi /\ d \in Nat /\ f \in Nat
    BY <1>1, <1>2, <1>5 DEF hi
  <2> QED
    BY <1>6, <2>1, <2>2, FoundOne
<1>19. Disconnecting(q, c, k, x1, y1)
  BY <1>1, <1>5, <1>7, <1>14, <1>15, <1>17, <1>18 DEF Disconnecting, n, b, lo, hi
<1> QED
  BY <1>13, <1>19

\* What the end of disconnect() and disconnect_tip do.
Ends(r, c, x, y, q, p) ==
    /\ q = disconnect_end(r, x, y)
    /\ p = disconnect_body(q, c[Len(c)].body)

Passes(r, c, x, y, q) ==
    /\ ~disconnect_end_panics(r, x, y) /\ ~disconnect_end_refused(r)
    /\ ~disconnect_body_refused(q, c[Len(c)].body)

LEMMA FoundAll ==
    ASSUME NEW k \in Nat, NEW x, NEW l, NEW lo \in Nat, Len(l) = lo, NEW of, Found(x, k, l, lo, of)
    PROVE  x = k
  BY DEF Found, LastOf

LEMMA DisconnectingEnd ==
    ASSUME NEW r, DbInv(r), NEW c, NEW l, NEW x \in Nat, NEW y \in Nat,
           Disconnecting(r, c, l, x, y), ChainOK(c), c # <<>>, LogOK(l),
           ~(l # <<>> /\ l[Len(l)].height = r.height),
           NEW q, NEW p, Ends(r, c, x, y, q, p)
    PROVE  /\ Passes(r, c, x, y, q)
           /\ DbInv(p) /\ Like(p, c[Len(c)].before, Len(c) - 1)
           /\ Sound(p, SubSeq(c, 1, Len(c) - 1), l)
<1> DEFINE n == Len(c)
           b == c[n]
           body == b.body
           lo == Len(l)
           g == b.before.height
<1>1. PICK N, t, d, f :
        /\ d \in Nat /\ f \in Nat
        /\ Linked(c, l, N) /\ N[n] <= Len(l) /\ Traced(b, l, N[n], Len(l), t)
        /\ Near(r, t) /\ Stacked(r, t, d, f)
        /\ Found(x, d, l, N[n], "deposit") /\ Found(y, f, l, N[n], "bundle")
  BY DEF Disconnecting
<1>2. /\ n \in Nat /\ n > 0 /\ N[n] \in Nat /\ g = n - 2 /\ BodyOK(b) /\ Base(b.before, l, N[n])
      /\ n > 1 => LeftBy(b.before, c[n - 1], l, N[n - 1], N[n])
  BY <1>1, LinkedTip
<1>3. ~(Len(l) > N[n])
  BY <1>1, OwnEvents
<1>4. lo \in Nat /\ N[n] = lo
  BY <1>1, <1>2, <1>3 DEF LogOK
<1> HIDE DEF n, b, lo, g
<1>5. Base(b.before, l, lo) /\ Traced(b, l, lo, lo, t) /\ (n > 1 => LeftBy(b.before, c[n - 1], l, N[n - 1], lo))
  BY <1>1, <1>2, <1>4 DEF lo
<1>6. x = d /\ y = f
  BY <1>1, <1>4, FoundAll DEF lo
<1>7. t = connect_body(b.before, body) /\ Fine(t, l, lo, g) /\ t.height = g + 1
  <2>1. Fine(t, l, lo, g) /\ t.height = g + 1
    BY <1>4, <1>5, TracedFacts DEF g
  <2> QED
    BY <1>5, <2>1 DEF Traced, Trace
<1>8. Good(t, l, lo, t.height - 1) /\ t.height \in Nat /\ t.height = n - 1 /\ t.height = g + 1
  <2>1. g + 1 \in Nat /\ (g + 1) - 1 = g /\ g + 1 = n - 1
    BY <1>2
  <2> QED
    BY <1>7, <2>1 DEF Fine
<1>9. Stacked(r, t, x, y)
  BY <1>1, <1>6
<1>10. ~disconnect_end_panics(r, x, y) /\ ~disconnect_end_refused(r)
  BY <1>1, <1>8, <1>9, EndPasses
<1>11. Like(q, t, t.height)
  BY <1>1, <1>8, <1>9, EndUndone DEF Ends
<1>12. r.height \in Nat
  BY <1>1, <1>8 DEF Near
<1>13. DbInv(q) /\ q.height = t.height
  <2>1. Keeps(r, q)
    BY <1>10, <1>12, DisconnectEndKeeps DEF Ends
  <2> QED
    BY <1>11, <2>1 DEF Keeps, Like
<1>14. /\ Good(b.before, l, lo, g) /\ DbInv(b.before) /\ IsFcn(b.before.stxos) /\ Fine(b.before, l, lo, g)
       /\ \A j \in 1..lo : l[j].height <= g
  BY <1>5 DEF Base, Fine, Good, Tables, g
<1>15. body \in SUBSET Deposit /\ \A a \in body : deposit(a) \in b.before.utxos
  BY <1>2 DEF BodyOK
<1>16. ~disconnect_body_refused(q, body) /\ Like(disconnect_body(q, body), b.before, t.height)
  <2> HIDE DEF body
  <2> QED
    BY <1>7, <1>11, <1>13, <1>14, <1>15, BodyUndone
<1>17. p = disconnect_body(q, body)
  BY DEF Ends, n, b
<1>18. DbInv(p) /\ Like(p, b.before, n - 1)
  <2>1. DbInv(p)
    <3> HIDE DEF body
    <3> QED
      BY <1>8, <1>13, <1>15, <1>16, <1>17, DisconnectBody
  <2> QED
    BY <1>8, <1>16, <1>17, <2>1
<1>19. Passes(r, c, x, y, q)
  BY <1>10, <1>16 DEF Passes, n, b
<1>20. p.height = g
  BY <1>18 DEF Like, g
<1>21. Base(p, l, lo)
  <2>1. g \in Int /\ n - 1 \in Int /\ g < n - 1
    BY <1>2
  <2>2. Fine(p, l, lo, g)
    BY <1>4, <1>14, <1>18, <2>1, FineLike
  <2> QED
    BY <1>14, <1>20, <2>2 DEF Base
<1> DEFINE k == SubSeq(c, 1, Len(c) - 1)
<1>22. Len(k) = n - 1 /\ \A j \in 1..(n - 1) : k[j] = c[j]
  <2>1. PICK S : c \in Seq(S)
    BY DEF ChainOK
  <2> HIDE DEF k
  <2>2. Len(k) = Len(c) - 1 /\ \A j \in 1..Len(k) : k[j] = c[j]
    BY <2>1, SubSeqFacts DEF k
  <2> QED
    BY <2>2 DEF n
<1> HIDE DEF k
<1>23. Linked(k, l, N)
  <2>1. ASSUME NEW j \in 1..(n - 1)
        PROVE  /\ N[j] \in Nat /\ N[j] <= Len(l)
               /\ k[j].before.height = j - 2
               /\ BodyOK(k[j])
               /\ Base(k[j].before, l, N[j])
               /\ j > 1 => LeftBy(k[j].before, k[j - 1], l, N[j - 1], N[j])
    <3>1. j \in 1..Len(c) /\ k[j] = c[j]
      BY <1>2, <1>22 DEF n
    <3>2. j > 1 => k[j - 1] = c[j - 1]
      BY <1>2, <1>22
    <3> QED
      BY <1>1, <3>1, <3>2 DEF Linked
  <2>2. \A i, j \in 1..(n - 1) : i <= j => N[i] <= N[j]
    <3>1. \A i \in 1..(n - 1) : i \in 1..Len(c)
      BY <1>2 DEF n
    <3>2. \A i, j \in 1..Len(c) : i <= j => N[i] <= N[j]
      BY <1>1 DEF Linked
    <3> QED
      BY <3>1, <3>2
  <2> QED
    BY <1>22, <2>1, <2>2 DEF Linked
<1>24. ASSUME k # <<>> PROVE LeftBy(p, k[Len(k)], l, N[Len(k)], lo)
  <2>1. k \in Seq({c[j] : j \in 1..(n - 1)})
    <3>1. PICK S : c \in Seq(S)
      BY DEF ChainOK
    <3>2. k \in Seq(S)
      BY <1>2, <3>1 DEF k, n
    <3> QED
      BY <1>22, <3>2
  <2>2. n > 1 /\ n - 1 \in 1..(n - 1)
    BY <1>2, <1>22, <1>24, <2>1
  <2>3. k[Len(k)] = c[n - 1] /\ c[n - 1].before.height + 2 = n - 1 /\ n - 1 \in 1..Len(c)
    <3>1. n - 1 \in 1..Len(c)
      BY <1>2, <2>2 DEF n
    <3>2. c[n - 1].before.height = (n - 1) - 2
      BY <1>1, <3>1 DEF Linked
    <3> QED
      BY <1>2, <1>22, <2>2, <3>1, <3>2
  <2> DEFINE a == c[n - 1]
             lo1 == N[n - 1]
  <2>4. PICK z, d1, e1, i :
          /\ d1 \in Nat /\ e1 \in Nat /\ i \in BlockIndexEvents
          /\ Traced(a, l, lo1, lo, z) /\ Timely(z)
          /\ LastOf(d1, l, lo1, lo, "deposit") /\ LastOf(e1, l, lo1, lo, "bundle")
          /\ Like(b.before, connect_end(z, d1, e1, i), a.before.height + 2)
    BY <1>5, <2>2 DEF LeftBy
  <2>5. lo1 <= lo
    BY <1>5, <2>2 DEF LeftBy
  <2> DEFINE v == connect_end(z, d1, e1, i)
             pw == p.withdrawal_bundles
             bw == b.before.withdrawal_bundles
             vw == v.withdrawal_bundles
  <2>6. LikeW(pw, bw, n - 1) /\ LikeW(bw, vw, n - 1) /\ IsBundles(pw) /\ n - 1 \in Int
    BY <1>2, <1>18, <2>3, <2>4, StateFields DEF Like
  <2> HIDE DEF v, a, lo1
  <2>7. LikeW(pw, vw, n - 1)
    <3> HIDE DEF pw, bw, vw
    <3> QED
      BY <2>6, LikeTransitive
  <2>8. Like(p, v, a.before.height + 2)
    <3>1. a.before.height + 2 = n - 1
      BY <2>3 DEF a
    <3>2. Like(b.before, v, n - 1)
      BY <2>4, <3>1 DEF v
    <3> QED
      BY <1>18, <2>7, <3>1, <3>2 DEF Like
  <2>9. LeftBy(p, a, l, lo1, lo)
    BY <2>4, <2>5, <2>8 DEF LeftBy, v
  <2> QED
    BY <1>22, <2>3, <2>9 DEF a, lo1
<1>25. Sound(p, k, l)
  BY <1>21, <1>23, <1>24 DEF Sound, lo
<1> QED
  BY <1>18, <1>19, <1>25 DEF k, n, b

-----------------------------------------------------------------------------
(***************************************************************************)
(* The steps of the write transaction.                                     *)
(***************************************************************************)
LEMMA IdleSound ==
    ASSUME IInv', txn' = Idle, Sound(db', chain', log')
    PROVE  RInv'
<1>1. /\ Idle.restore[1] = EmptyDb /\ Idle.restore[2] = <<>> /\ Idle.restore[3] = <<>>
      /\ Idle.op = "idle"
  BY DEF Idle
<1>2. Sound(txn'.restore[1], txn'.restore[2], txn'.restore[3])
  BY <1>1, SoundEmpty
<1> QED
  BY <1>1, <1>2 DEF RInv

LEMMA Parts ==
    ASSUME IInv
    PROVE  /\ Consistent(db, chain, log) /\ DbInv(db) /\ ChainOK(chain) /\ LogOK(log)
           /\ db.height = Len(chain) - 1 /\ TxnOK(txn)
           /\ txn.deposit_block \in Nat /\ txn.event_block \in Nat
           /\ txn.index_events \in BlockIndexEvents
           /\ txn.op # "idle" => chain # <<>> /\ db.height \in Nat
<1>1. Consistent(db, chain, log) /\ TxnOK(txn) /\ (txn.op # "idle" => chain # <<>>)
  BY DEF IInv
<1>2. chain # <<>> => Len(chain) \in Nat /\ Len(chain) > 0
  BY <1>1 DEF Consistent, ChainOK
<1> QED
  BY <1>1, <1>2 DEF Consistent, TxnOK

LEMMA BegunSound ==
    ASSUME NEW op \in {"connect", "disconnect"}, Sound(db, chain, log),
           NEW t, t = Begun(op, db, chain, log)
    PROVE  /\ Sound(t.restore[1], t.restore[2], t.restore[3]) /\ t.op = op
           /\ t.deposit_block = 0 /\ t.event_block = 0
<1>1. t.restore[1] = db /\ t.restore[2] = chain /\ t.restore[3] = log /\ t.op = op
  BY BeginTxn
<1>2. t.deposit_block = 0 /\ t.event_block = 0
  BY DEF Begun, Idle
<1> QED
  BY <1>1, <1>2

LEMMA BeginConnectSound ==
    ASSUME RInv, NEW body \in SUBSET Deposit, BeginConnect(body)
    PROVE  RInv'
<1> DEFINE b == [body |-> body, before |-> db]
<1>1. IInv /\ IInv'
  BY BeginConnectStep DEF RInv
<1>2. /\ Sound(db, chain, log) /\ db' = connect_body(db, body) /\ log' = log
      /\ chain' = Append(chain, b) /\ txn' = Begun("connect", db, chain, log)
      /\ \A d \in body : deposit(d) \in db.utxos
  BY DEF BeginConnect, Begun, RInv
<1>3. b.body = body /\ b.before = db
  OBVIOUS
<1>4. BodyOK(b)
  BY <1>2 DEF BodyOK
<1> HIDE DEF b
<1>5. ChainOK(chain) /\ LogOK(log) /\ db.height = Len(chain) - 1
  BY <1>1, Parts
<1>6. Connecting(db', chain', log, 0, 0)
  BY <1>2, <1>3, <1>4, <1>5, ConnectingBegins
<1>7. /\ Sound(txn'.restore[1], txn'.restore[2], txn'.restore[3]) /\ txn'.op = "connect"
      /\ txn'.deposit_block = 0 /\ txn'.event_block = 0
  BY <1>2, BegunSound
<1> QED
  BY <1>1, <1>2, <1>6, <1>7 DEF RInv

LEMMA ConnectingGood ==
    ASSUME RInv, txn.op = "connect"
    PROVE  Good(db, log, Len(log), db.height - 1) /\ db.height \in Nat
<1>1. /\ Connecting(db, chain, log, txn.deposit_block, txn.event_block)
      /\ ChainOK(chain) /\ chain # <<>> /\ LogOK(log) /\ db.height \in Nat
  BY Parts DEF RInv
<1> DEFINE n == Len(chain)
           b == chain[n]
           g == b.before.height
<1>2. PICK N : Linked(chain, log, N) /\ Traced(b, log, N[n], Len(log), db)
  BY <1>1 DEF Connecting
<1> DEFINE lo == N[n]
<1>3. n \in Nat /\ lo \in Nat /\ lo <= Len(log) /\ g = n - 2
  BY <1>1, <1>2, LinkedTip
<1>4. Len(log) \in Nat
  BY <1>1 DEF LogOK
<1>5. Fine(db, log, Len(log), g) /\ db.height = g + 1
  BY <1>2, <1>3, <1>4, TracedFacts
<1> HIDE DEF g, n
<1>6. db.height - 1 = g
  BY <1>3, <1>5
<1> QED
  BY <1>1, <1>5, <1>6 DEF Fine

\* The event may be applied: in Good databases what the mainchain offers fits.
LEMMA OfferedApplies ==
    ASSUME RInv, txn.op = "connect", NEW e \in MainEvents
    PROVE  Follows(db, e) /\ ~connect_panics(db, e)
<1> DEFINE g == db.height - 1
<1>1. Good(db, log, Len(log), g) /\ db.height \in Nat /\ g \in Int
  BY ConnectingGood
<1>2. Consistent(db, chain, log)
  BY Parts DEF RInv
<1> HIDE DEF g
<1>3. Follows(db, e)
  BY <1>1, <1>2, MainEventFollows
<1> QED
  BY <1>1, <1>3, FollowsPanicFree

LEMMA ConnectEventSound ==
    ASSUME RInv, NEW e \in MainEvents, ConnectEvent(e)
    PROVE  RInv'
<1> DEFINE v == [event |-> e, height |-> db.height]
           x == txn.deposit_block
           y == txn.event_block
           i == index(txn.index_events, db, e)
           x1 == IF e.kind = "Deposit" THEN Len(log) + 1 ELSE x
           y1 == IF e.kind # "Deposit" THEN Len(log) + 1 ELSE y
<1>1. IInv /\ IInv'
  BY ConnectEventStep DEF RInv
<1>2. /\ txn.op = "connect" /\ ~connect_panics(db, e) /\ ~connect_refused(db, e)
      /\ db' = connect_2wpd_event(db, e) /\ log' = Append(log, v) /\ chain' = chain
      /\ txn' = SetTxn(txn, i, x1, y1)
  BY DEF ConnectEvent, SetTxn
<1>3. Apply1(db, log, e, x, y, db', log', x1, y1)
  BY <1>2 DEF Apply1
<1>4. ChainOK(chain) /\ LogOK(log) /\ chain # <<>> /\ x \in Nat /\ y \in Nat /\ TxnOK(txn)
  BY <1>1, <1>2, Parts
<1>5. Connecting(db, chain, log, x, y)
  BY <1>2 DEF RInv
<1>6. Applies(db, e)
  BY <1>2, OfferedApplies DEF Applies
<1>7. /\ txn'.restore = txn.restore /\ txn'.op = "connect"
      /\ txn'.deposit_block = x1 /\ txn'.event_block = y1
  <2> HIDE DEF i, x1, y1
  <2>1. DOMAIN txn = {"op", "restore", "deposit_block", "event_block", "index_events"}
    BY <1>4 DEF TxnOK
  <2> QED
    BY <1>2, <2>1 DEF SetTxn
<1> HIDE DEF v, x, y, x1, y1
<1>8. Connecting(db', chain, log', x1, y1)
  BY <1>3, <1>4, <1>5, <1>6, ConnectingEvent
<1>9. Sound(txn'.restore[1], txn'.restore[2], txn'.restore[3])
  BY <1>7 DEF RInv
<1> QED
  BY <1>1, <1>2, <1>7, <1>8, <1>9 DEF RInv

LEMMA ConnectEndSound ==
    ASSUME RInv, ConnectEnd, Timely(db)
    PROVE  RInv'
<1>1. IInv /\ IInv'
  BY ConnectEndStep DEF RInv
<1>2. /\ db' = connect_end(db, txn.deposit_block, txn.event_block, txn.index_events)
      /\ txn' = Idle /\ chain' = chain /\ log' = log /\ txn.op = "connect"
  BY DEF ConnectEnd
<1>3. Connecting(db, chain, log, txn.deposit_block, txn.event_block)
  BY <1>2 DEF RInv
<1>4. /\ txn.deposit_block \in Nat /\ txn.event_block \in Nat /\ txn.index_events \in BlockIndexEvents
      /\ ChainOK(chain) /\ chain # <<>> /\ LogOK(log)
  BY <1>1, <1>2, Parts
<1>5. Sound(db', chain', log')
  BY <1>2, <1>3, <1>4, SoundEnd
<1> QED
  BY <1>1, <1>2, <1>5, IdleSound

LEMMA BeginDisconnectSound ==
    ASSUME RInv, BeginDisconnect
    PROVE  RInv'
<1>1. IInv /\ IInv'
  BY BeginDisconnectStep DEF RInv
<1>2. /\ Sound(db, chain, log) /\ chain # <<>> /\ db' = DropIndex(db, db.height)
      /\ txn' = Begun("disconnect", db, chain, log) /\ chain' = chain /\ log' = log
  BY DEF BeginDisconnect, Begun, RInv, DropIndex
<1>3. DbInv(db) /\ ChainOK(chain) /\ LogOK(log)
  BY <1>1, Parts
<1>4. Disconnecting(db', chain, log, 0, 0)
  BY <1>2, <1>3, DisconnectingBegins
<1>5. /\ Sound(txn'.restore[1], txn'.restore[2], txn'.restore[3]) /\ txn'.op = "disconnect"
      /\ txn'.deposit_block = 0 /\ txn'.event_block = 0
  BY <1>2, BegunSound
<1> QED
  BY <1>1, <1>2, <1>4, <1>5 DEF RInv

LEMMA DisconnectEventSound ==
    ASSUME RInv, DisconnectEvent
    PROVE  RInv'
<1> DEFINE e == log[Len(log)].event
           x == txn.deposit_block
           y == txn.event_block
           x1 == IF e.kind = "Deposit" /\ x = 0 THEN Len(log) ELSE x
           y1 == IF e.kind # "Deposit" /\ y = 0 THEN Len(log) ELSE y
<1>1. IInv /\ IInv'
  BY DisconnectEventStep DEF RInv
<1>2. /\ txn.op = "disconnect" /\ log # <<>> /\ log[Len(log)].height = db.height
      /\ db' = disconnect_event(db, e) /\ log' = SubSeq(log, 1, Len(log) - 1)
      /\ chain' = chain /\ txn' = [txn EXCEPT !.deposit_block = x1, !.event_block = y1]
  BY DEF DisconnectEvent, EventLeft
<1>3. /\ DbInv(db) /\ ChainOK(chain) /\ LogOK(log) /\ chain # <<>> /\ x \in Nat /\ y \in Nat
      /\ TxnOK(txn)
  BY <1>1, <1>2, Parts
<1>4. Disconnecting(db, chain, log, x, y)
  BY <1>2 DEF RInv
<1>5. /\ txn'.restore = txn.restore /\ txn'.op = "disconnect"
      /\ txn'.deposit_block = x1 /\ txn'.event_block = y1
  <2> HIDE DEF x1, y1
  <2>1. DOMAIN txn = {"op", "restore", "deposit_block", "event_block", "index_events"}
    BY <1>3 DEF TxnOK
  <2> QED
    BY <1>2, <2>1
<1>6. Undo1(db, log, e, x, y, db', log', x1, y1)
  BY <1>2 DEF Undo1
<1> HIDE DEF e, x, y, x1, y1
<1>7. Disconnecting(db', chain, log', x1, y1)
  BY <1>2, <1>3, <1>4, <1>6, DisconnectingEvent
<1>8. Sound(txn'.restore[1], txn'.restore[2], txn'.restore[3])
  BY <1>5 DEF RInv
<1> QED
  BY <1>1, <1>2, <1>5, <1>7, <1>8 DEF RInv

LEMMA DisconnectEndBack ==
    ASSUME RInv, DisconnectEnd
    PROVE  /\ Sound(db', chain', log') /\ Like(db', chain[Len(chain)].before, Len(chain) - 1)
           /\ DbInv(db') /\ chain # <<>> /\ ChainOK(chain)
<1> DEFINE x == txn.deposit_block
           y == txn.event_block
<1>1. IInv
  BY DEF RInv
<1>2. /\ txn.op = "disconnect" /\ ~(log # <<>> /\ log[Len(log)].height = db.height)
      /\ Undone = disconnect_end(db, x, y)
      /\ db' = disconnect_body(Undone, chain[Len(chain)].body)
      /\ log' = log /\ chain' = SubSeq(chain, 1, Len(chain) - 1)
  BY DEF DisconnectEnd, EventLeft, Undone
<1>3. /\ DbInv(db) /\ ChainOK(chain) /\ LogOK(log) /\ chain # <<>> /\ x \in Nat /\ y \in Nat
  BY <1>1, <1>2, Parts
<1>4. Disconnecting(db, chain, log, x, y)
  BY <1>2 DEF RInv
<1>5. Ends(db, chain, x, y, Undone, db')
  BY <1>2 DEF Ends
<1> HIDE DEF x, y
<1>6. /\ DbInv(db') /\ Like(db', chain[Len(chain)].before, Len(chain) - 1)
      /\ Sound(db', SubSeq(chain, 1, Len(chain) - 1), log)
  BY <1>2, <1>3, <1>4, <1>5, DisconnectingEnd
<1> QED
  BY <1>2, <1>3, <1>6

LEMMA DisconnectEndSound ==
    ASSUME RInv, DisconnectEnd
    PROVE  RInv'
<1>1. IInv' /\ txn' = Idle
  BY DisconnectEndStep DEF RInv, DisconnectEnd
<1>2. Sound(db', chain', log')
  BY DisconnectEndBack
<1> QED
  BY <1>1, <1>2, IdleSound

LEMMA AbortSound ==
    ASSUME RInv, Abort
    PROVE  RInv'
<1>1. IInv' /\ txn' = Idle
  BY AbortStep DEF RInv, Abort
<1>2. Sound(db', chain', log')
  BY DEF RInv, Abort
<1> QED
  BY <1>1, <1>2, IdleSound

\* RInv holds as long as no block has collected a bundle that the mainchain had
\* reported before: the databases are those that a run of connect() over the
\* events of the log leads to, up to bundles left behind.
THEOREM ReorgInvariance == Spec => [](NoneEarly => RInv)
<1>1. Init => RInv
  <2> SUFFICES ASSUME Init PROVE RInv
    OBVIOUS
  <2>1. db = EmptyDb /\ chain = <<>> /\ log = <<>> /\ txn = Idle
    BY DEF Init
  <2>2. Idle.restore[1] = EmptyDb /\ Idle.restore[2] = <<>> /\ Idle.restore[3] = <<>>
        /\ Idle.op = "idle"
    BY DEF Idle
  <2>3. IInv
    BY <2>1, <2>2, EmptyConsistent DEF IInv
  <2> QED
    BY <2>1, <2>2, <2>3, SoundEmpty DEF RInv
<1>2. (NoneEarly => RInv) /\ [Next]_vars => (NoneEarly => RInv)'
  <2> SUFFICES ASSUME NoneEarly => RInv, [Next]_vars, NoneEarly' PROVE RInv'
    OBVIOUS
  <2>0. RInv /\ (ConnectEnd => Timely(db))
    BY EarlyGrows
  <2>1. CASE \E body \in SUBSET Deposit : BeginConnect(body)
    BY <2>0, <2>1, BeginConnectSound
  <2>2. CASE \E e \in MainEvents : ConnectEvent(e)
    BY <2>0, <2>2, ConnectEventSound
  <2>3. CASE ConnectEnd
    BY <2>0, <2>3, ConnectEndSound
  <2>4. CASE BeginDisconnect
    BY <2>0, <2>4, BeginDisconnectSound
  <2>5. CASE DisconnectEvent
    BY <2>0, <2>5, DisconnectEventSound
  <2>6. CASE DisconnectEnd
    BY <2>0, <2>6, DisconnectEndSound
  <2>7. CASE Abort
    BY <2>0, <2>7, AbortSound
  <2>8. CASE UNCHANGED vars
    BY <2>0, <2>8 DEF RInv, IInv, vars
  <2> QED
    BY <2>1, <2>2, <2>3, <2>4, <2>5, <2>6, <2>7, <2>8 DEF Next
<1> QED
  BY <1>1, <1>2, PTL DEF Spec

-----------------------------------------------------------------------------
(***************************************************************************)
(* The properties.                                                         *)
(***************************************************************************)
LEMMA FailedConsistent ==
    ASSUME NEW s, DbInv(s), FailedOK(s.latest_failed, s.withdrawal_bundles, s.height)
    PROVE  LatestFailedConsistent(s)
<1> DEFINE f == s.latest_failed
<1> SUFFICES ASSUME f # <<>> PROVE LatestFailedConsistent(s)
  BY DEF LatestFailedConsistent
<1>1. f \in Seq(HeightStamped(M6id))
  BY StateFields
<1>2. Len(f) \in DOMAIN f /\ latest(f) = f[Len(f)]
  BY <1>1 DEF latest
<1> QED
  BY <1>2 DEF LatestFailedConsistent, FailedOK, HasBundle, StatusOf

\* Whatever bundles others submit, no assert! or expect() of connect() can fail
\* until a block collects one that the mainchain had reported before: not in a
\* handler, whatever event the mainchain has next, not where the latest failed
\* bundle is read, and not where the collected bundle is stored.
THEOREM ConnectPanicsOnlyAfterEarly == Spec => [](NoneEarly => ConnectPanicFree)
<1>1. RInv => ConnectPanicFree
  <2> SUFFICES ASSUME RInv, txn.op = "connect"
               PROVE  /\ \A e \in MainEvents : ~connect_panics(db, e)
                      /\ LatestFailedConsistent(db)
                      /\ LET m == collect_withdrawal_bundle(db)
                         IN  Collects(db) /\ HasBundle(db, m) => CanPush(StatusOf(db, m), db.height)
    BY DEF ConnectPanicFree
  <2>1. Good(db, log, Len(log), db.height - 1) /\ db.height \in Nat
    BY ConnectingGood
  <2>2. /\ DbInv(db) /\ EntriesOK(db.withdrawal_bundles, db.height, db.height - 1)
        /\ FailedOK(db.latest_failed, db.withdrawal_bundles, db.height)
    BY <2>1 DEF Good
  <2>3. \A e \in MainEvents : ~connect_panics(db, e)
    BY OfferedApplies
  <2>4. LatestFailedConsistent(db)
    BY <2>2, FailedConsistent
  <2>5. ASSUME NEW m, m = collect_withdrawal_bundle(db), Collects(db), HasBundle(db, m)
        PROVE  CanPush(StatusOf(db, m), db.height)
    <3> DEFINE c == db.withdrawal_bundles[m]
    <3>1. EntryOK(m, c, db.height, db.height - 1) /\ m.height = db.height
      BY <2>1, <2>2, <2>5, CollectFacts DEF EntriesOK, HasBundle
    <3>2. c \in Bundle
      BY <2>2, <2>5, EntryFacts
    <3>3. Len(c.status) \in DOMAIN c.status /\ latest(c.status) = c.status[Len(c.status)]
      BY <3>2, LatestShape
    <3>4. latest(c.status).height <= db.height
      BY <2>1, <3>1, <3>3 DEF EntryOK, PendingOnly
    <3> QED
      BY <3>4 DEF CanPush, StatusOf
  <2> QED
    BY <2>3, <2>4, <2>5
<1> QED
  BY <1>1, ReorgInvariance, PTL

\* Undoing the tip never meets a failed assert!, an expect() or an error: every
\* event is undone from what its handler left, the stacks of event blocks end
\* in this block's entries, and the body's outputs are where they were.  This
\* until a block collects a bundle reported before.
THEOREM ReorgSucceeds == Spec => []DisconnectSucceeds
<1>1. (NoneEarly => RInv) => DisconnectSucceeds
  <2> SUFFICES ASSUME RInv, txn.op = "disconnect"
               PROVE  /\ ~Refused
                      /\ EventLeft => ~disconnect_panics(db, log[Len(log)].event)
                      /\ ~EventLeft => ~disconnect_end_panics(db, txn.deposit_block, txn.event_block)
    BY DEF DisconnectSucceeds
  <2> DEFINE e == log[Len(log)].event
             x == txn.deposit_block
             y == txn.event_block
  <2>1. /\ DbInv(db) /\ ChainOK(chain) /\ LogOK(log) /\ chain # <<>> /\ x \in Nat /\ y \in Nat
        /\ Disconnecting(db, chain, log, x, y)
    BY Parts DEF RInv
  <2>2. ASSUME EventLeft
        PROVE  ~disconnect_panics(db, e) /\ ~disconnect_refused(db, e)
    <3> DEFINE q == disconnect_event(db, e)
               k == SubSeq(log, 1, Len(log) - 1)
               x1 == IF e.kind = "Deposit" /\ x = 0 THEN Len(log) ELSE x
               y1 == IF e.kind # "Deposit" /\ y = 0 THEN Len(log) ELSE y
    <3>1. Undo1(db, log, e, x, y, q, k, x1, y1)
      BY DEF Undo1
    <3>2. log # <<>> /\ log[Len(log)].height = db.height
      BY <2>2 DEF EventLeft
    <3> HIDE DEF e, x, y, q, k, x1, y1
    <3> QED
      BY <2>1, <3>1, <3>2, DisconnectingEvent
  <2>3. ASSUME ~EventLeft
        PROVE  Passes(db, chain, x, y, Undone)
    <3> DEFINE p == disconnect_body(Undone, chain[Len(chain)].body)
    <3>1. Ends(db, chain, x, y, Undone, p)
      BY DEF Ends, Undone
    <3>2. ~(log # <<>> /\ log[Len(log)].height = db.height)
      BY <2>3 DEF EventLeft
    <3> HIDE DEF x, y, p
    <3> QED
      BY <2>1, <3>1, <3>2, DisconnectingEnd
  <2>4. ~EventLeft => /\ ~disconnect_end_panics(db, x, y) /\ ~disconnect_end_refused(db)
                      /\ ~disconnect_body_refused(Undone, chain[Len(chain)].body)
    BY <2>3 DEF Passes
  <2> QED
    BY <2>2, <2>4 DEF Refused
<1> QED
  BY <1>1, ReorgInvariance, PTL

LEMMA SpendableOf ==
    ASSUME NEW s, Spendable(s.utxos, s.stxos, s.withdrawal_bundles, s.pending),
           NEW m \in s.pending, NEW o \in m.spend_utxos
    PROVE  \/ o \in s.utxos
           \/ /\ o \in DOMAIN s.stxos
              /\ LatestStatus(s, s.stxos[o].m6id) = "Confirmed"
              /\ UnderStatus(s, s.stxos[o].m6id) = "SubmittedUnexpected"
  BY DEF Spendable, Overtaking, LatestStatus, UnderStatus, Under, StatusOf

\* Databases between blocks, or in the middle of one, agree on what the pending
\* bundle may spend.
LEMMA NearSpendable ==
    ASSUME NEW t, NEW l, NEW n, NEW top, Good(t, l, n, top), t.height \in Int,
           NEW r, DbInv(r), Near(r, t)
    PROVE  Spendable(r.utxos, r.stxos, r.withdrawal_bundles, r.pending)
<1> DEFINE rw == r.withdrawal_bundles
           tw == t.withdrawal_bundles
           h == t.height
<1>1. DbInv(t) /\ Spendable(t.utxos, t.stxos, tw, t.pending)
  BY DEF Good
<1>2. IsBundles(rw) /\ IsBundles(tw)
  BY <1>1, StateFields
<1>3. LikeW(rw, tw, h) /\ r.utxos = t.utxos /\ r.stxos = t.stxos /\ h \in Int
  BY DEF Near
<1> HIDE DEF rw, tw, h
<1>4. CASE r.pending = t.pending
  <2>1. Spendable(t.utxos, t.stxos, rw, t.pending)
    BY <1>1, <1>2, <1>3, LikeSpendable
  <2> QED
    BY <1>3, <1>4, <2>1 DEF rw
<1>5. ASSUME NEW m \in r.pending, StillPending(r, t, m)
      PROVE  Spendable(r.utxos, r.stxos, r.withdrawal_bundles, r.pending)
  <2>1. r.pending = {m} /\ m.spend_utxos \subseteq t.utxos
    BY <1>5 DEF StillPending
  <2> QED
    BY <1>3, <2>1 DEF Spendable
<1> QED
  BY <1>4, <1>5 DEF Near, PendingNear

\* The outputs of the pending bundle are unspent, unless a bundle that had
\* failed was submitted again and confirmed; until a block collects a bundle
\* reported before.
THEOREM PendingBundleSpendable == Spec => []PendingSpendable
<1>1. (NoneEarly => RInv) => PendingSpendable
  <2> SUFFICES ASSUME NoneEarly, RInv PROVE PendingSpendable
    BY DEF PendingSpendable
  <2>1. Spendable(db.utxos, db.stxos, db.withdrawal_bundles, db.pending)
    <3>1. txn.op \in {"idle", "connect", "disconnect"} /\ IInv
      BY Parts DEF RInv, TxnOK
    <3>2. CASE txn.op = "idle"
      BY <3>2 DEF RInv, Sound, Base, Fine, Good
    <3>3. CASE txn.op = "connect"
      BY <3>3, ConnectingGood DEF Good
    <3>4. CASE txn.op = "disconnect"
      <4> DEFINE n == Len(chain)
                 b == chain[n]
                 x == txn.deposit_block
                 y == txn.event_block
      <4>1. /\ DbInv(db) /\ ChainOK(chain) /\ LogOK(log) /\ chain # <<>>
            /\ Disconnecting(db, chain, log, x, y)
        BY <3>1, <3>4, Parts DEF RInv
      <4>2. PICK N, t, d, f :
              /\ d \in Nat /\ f \in Nat
              /\ Linked(chain, log, N) /\ N[n] <= Len(log) /\ Traced(b, log, N[n], Len(log), t)
              /\ Near(db, t)
        BY <4>1 DEF Disconnecting
      <4> DEFINE lo == N[n]
                 g == b.before.height
      <4>3. n \in Nat /\ lo \in Nat /\ lo <= Len(log) /\ g = n - 2 /\ Len(log) \in Nat
        BY <4>1, <4>2, LinkedTip DEF LogOK
      <4>4. Fine(t, log, Len(log), g) /\ t.height = g + 1
        BY <4>2, <4>3, TracedFacts
      <4> HIDE DEF g, lo, n
      <4>5. Good(t, log, Len(log), g) /\ t.height \in Int
        BY <4>3, <4>4 DEF Fine
      <4> QED
        BY <4>1, <4>2, <4>5, NearSpendable
    <3> QED
      BY <3>1, <3>2, <3>3, <3>4
  <2> QED
    BY <2>1, SpendableOf DEF PendingSpendable
<1> QED
  BY <1>1, ReorgInvariance, PTL

LEMMA LikeExcept ==
    ASSUME NEW r, DbInv(r), NEW s, DbInv(s), NEW h, Like(r, s, h)
    PROVE  r = [s EXCEPT !.withdrawal_bundles = r.withdrawal_bundles]
<1> DEFINE w == r.withdrawal_bundles
           F(v) == [height |-> s.height, utxos |-> s.utxos, stxos |-> s.stxos,
                    withdrawal_bundles |-> v, pending |-> s.pending,
                    latest_failed |-> s.latest_failed, deposit_blocks |-> s.deposit_blocks,
                    event_blocks |-> s.event_blocks, block_index_events |-> s.block_index_events]
           a == F(s.withdrawal_bundles)
<1>1. s = a
  BY DEF DbInv, DbOK, IsDb
<1>2. r = [height |-> r.height, utxos |-> r.utxos, stxos |-> r.stxos,
           withdrawal_bundles |-> w, pending |-> r.pending,
           latest_failed |-> r.latest_failed, deposit_blocks |-> r.deposit_blocks,
           event_blocks |-> r.event_blocks, block_index_events |-> r.block_index_events]
  BY DEF DbInv, DbOK, IsDb
<1> HIDE DEF w
<1>3. r = F(w)
  BY <1>2 DEF Like
<1>4. [a EXCEPT !.withdrawal_bundles = w] = F(w)
  OBVIOUS
<1> HIDE DEF F, a
<1> QED
  BY <1>1, <1>3, <1>4 DEF w

\* What RestoresUpToLeak says of a step.
Restored(before, after) ==
    /\ DOMAIN before.withdrawal_bundles \subseteq DOMAIN after.withdrawal_bundles
    /\ \A m \in DOMAIN after.withdrawal_bundles :
          \/ /\ HasBundle(before, m)
             /\ after.withdrawal_bundles[m] = before.withdrawal_bundles[m]
          \/ Leaked(before, after, m)
    /\ after = [before EXCEPT !.withdrawal_bundles = after.withdrawal_bundles]

LEMMA LikeRestored ==
    ASSUME NEW b, NEW l, NEW n, Base(b, l, n), b.height \in Int, NEW r, DbInv(r),
           Like(r, b, b.height + 1)
    PROVE  Restored(b, r)
<1> DEFINE rw == r.withdrawal_bundles
           bw == b.withdrawal_bundles
           g == b.height
<1>1. DbInv(b) /\ PendingBelow(b.pending, bw, g)
  BY DEF Base, Fine, Good
<1>2. LikeW(rw, bw, g + 1) /\ r.pending = b.pending /\ IsBundles(rw) /\ g \in Int
  BY StateFields DEF Like
<1>3. r = [b EXCEPT !.withdrawal_bundles = rw]
  BY <1>1, LikeExcept
<1>4. ASSUME NEW m \in DOMAIN rw
      PROVE  (m \in DOMAIN bw /\ rw[m] = bw[m]) \/ Leaked(b, r, m)
  <2> SUFFICES ASSUME m.height >= g + 1, PendingOnly(m, rw[m]) PROVE Leaked(b, r, m)
    BY <1>2, <1>4 DEF LikeW
  <2>1. rw[m] \in Bundle /\ m.height \in Nat
    BY <1>2 DEF IsBundles, PartialFunction, M6id
  <2>2. latest(rw[m].status).value = "Pending"
    <3> HIDE DEF rw
    <3> QED
      BY <2>1, PendingOnlyFacts
  <2>3. m.height > g
    BY <1>2, <2>1
  <2>4. m \notin r.pending
    BY <1>1, <1>2, <2>1, <2>3 DEF PendingBelow
  <2> QED
    BY <2>2, <2>3, <2>4 DEF Leaked, LatestStatus, StatusOf
<1> QED
  BY <1>2, <1>3, <1>4 DEF Restored, LikeW, HasBundle

\* Disconnecting a block restores every table that was there before it, and
\* every bundle, but for bundles that were collected above it, never submitted,
\* and left behind with status Pending; until a block collects a bundle
\* reported before.
THEOREM ReorgRestores == Spec => RestoresUpToLeak
<1>1. ASSUME RInv, DisconnectEnd PROVE Restored(chain[Len(chain)].before, db')
  <2> DEFINE n == Len(chain)
             b == chain[n].before
             x == txn.deposit_block
             y == txn.event_block
  <2>1. Like(db', b, n - 1) /\ DbInv(db') /\ chain # <<>> /\ ChainOK(chain)
    BY <1>1, DisconnectEndBack
  <2>2. Disconnecting(db, chain, log, x, y)
    BY <1>1 DEF RInv, DisconnectEnd
  <2>3. PICK N : Linked(chain, log, N)
    BY <2>2 DEF Disconnecting
  <2>4. n \in Nat /\ b.height = n - 2 /\ Base(b, log, N[n])
    BY <2>1, <2>3, LinkedTip
  <2> HIDE DEF n, b
  <2>5. n - 1 = b.height + 1 /\ b.height \in Int
    BY <2>4
  <2>6. Restored(b, db')
    BY <2>1, <2>4, <2>5, LikeRestored
  <2> QED
    BY <2>6 DEF b, n
<1> DEFINE A == NoneEarly /\ DisconnectEnd =>
                    LET before == chain[Len(chain)].before
                    IN  /\ DOMAIN before.withdrawal_bundles \subseteq DOMAIN db'.withdrawal_bundles
                        /\ \A m \in DOMAIN db'.withdrawal_bundles :
                              \/ /\ HasBundle(before, m)
                                 /\ db'.withdrawal_bundles[m] = before.withdrawal_bundles[m]
                              \/ Leaked(before, db', m)
                        /\ db' = [before EXCEPT !.withdrawal_bundles = db'.withdrawal_bundles]
<1>2. (NoneEarly => RInv) /\ [Next]_vars => [A]_vars
  BY <1>1 DEF Restored
<1> QED
  BY <1>2, ReorgInvariance, PTL DEF Spec, RestoresUpToLeak
=============================================================================
