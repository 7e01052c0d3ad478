----------------------------- MODULE TwoWayPeg -----------------------------
(***************************************************************************)
(* lib/state/two_way_peg_data.rs: what the mainchain's deposits and        *)
(* withdrawal bundle events do to the sidechain state when a block is      *)
(* connected, and how a reorg undoes it.                                   *)
(*                                                                         *)
(* One sidechain block is connected (or disconnected) in one write         *)
(* transaction, one event per step: first the body, then the events, then  *)
(* the bookkeeping at the end of connect().  An error drops the write      *)
(* transaction (Abort).  A failed assert! is a state from which the step   *)
(* is not enabled; ConnectPanicFree and DisconnectSucceeds say when there  *)
(* is none.                                                                *)
(*                                                                         *)
(* A body is the set of deposits whose transaction turns them into a       *)
(* withdrawal output: no other transaction touches what a bundle spends    *)
(* (State::validate_filled_transaction).  An m6id commits to the height    *)
(* and the outpoints of its bundle (WithdrawalBundle::new), and is here    *)
(* the pair of them; amounts, fees and the weight limit are left out, so a *)
(* bundle spends every withdrawal output there is.                         *)
(***************************************************************************)
EXTENDS Rollback, Integers

CONSTANTS
    Deposit,        \* mainchain deposits; also names the transaction that
                    \* spends each of them
    GAP,            \* WITHDRAWAL_BUNDLE_FAILURE_GAP
    MainBundle,     \* m6ids that others may submit on the mainchain
    MaxHeight,      \* bound on the height of the sidechain
    MaxEvents,      \* bound on the events applied by the chain
    MaxDisconnects  \* bound on the blocks disconnected

OutPoint == [tag : {"Deposit", "Regular"}, id : Deposit]
deposit(d) == [tag |-> "Deposit", id |-> d]
withdrawal(d) == [tag |-> "Regular", id |-> d]
Withdrawals == {withdrawal(d) : d \in Deposit}

M6id == [height : Nat, spend_utxos : SUBSET Withdrawals]

ASSUME TwoWayPegAssumption ==
    /\ GAP \in Nat \ {0}
    /\ MaxHeight \in Nat
    /\ MaxEvents \in Nat
    /\ MaxDisconnects \in Nat
    /\ MainBundle \subseteq M6id

InPoint == [tag : {"Regular"}, id : Deposit] \cup [tag : {"Withdrawal"}, m6id : M6id]
ByTransaction(d) == [tag |-> "Regular", id |-> d]
ByBundle(m) == [tag |-> "Withdrawal", m6id |-> m]

\* WithdrawalBundleStatus; no code path assigns Dropped.
BundleStatus == {"Pending", "Submitted", "SubmittedUnexpected", "Confirmed", "Failed"}

\* WithdrawalBundleInfo and the history of its status.
Bundle == [info : {"Known", "Unknown", "UnknownConfirmed"},
           spend_utxos : SUBSET OutPoint,
           status : RollBack(BundleStatus)]

Event == [kind : {"Deposit"}, deposit : Deposit]
         \cup [kind : {"Submitted", "Confirmed", "Failed"}, m6id : M6id]

VARIABLES
    db,     \* the databases of State, below
    chain,  \* the connected blocks: body, and the databases before it (history)
    log,    \* the events the chain has applied, in mainchain order, each with
            \* the height that applied it; its position is its mainchain block
    txn,    \* the write transaction: operation, what an error restores, and
            \* the local variables of connect() and disconnect()
    early,  \* bundles that a block collected after the mainchain had reported
            \* them: those for which an assert! of connect() can fail (history)
    disconnects  \* blocks disconnected so far, for the bound

vars == <<db, chain, log, txn, early, disconnects>>

-----------------------------------------------------------------------------
\* Functions as databases.
PartialFunction(f, D, R) == DOMAIN f \subseteq D /\ \A x \in DOMAIN f : f[x] \in R
PutAll(f, g) == [x \in DOMAIN f \cup DOMAIN g |-> IF x \in DOMAIN g THEN g[x] ELSE f[x]]
PutOne(f, k, v) == [x \in DOMAIN f \cup {k} |-> IF x = k THEN v ELSE f[x]]
DeleteAll(f, K) == [x \in DOMAIN f \ K |-> f[x]]

BlockIndexEvents == [deposits : SUBSET OutPoint,
                     bundle_spends : SUBSET (OutPoint \X M6id)]
NoIndexEvents == [deposits |-> {}, bundle_spends |-> {}]

\* The mainchain block and the height that applied it.
EventBlock == [hash : Nat, height : Nat]

\* The fields of the databases.  deposit_blocks and
\* withdrawal_bundle_event_blocks are stacks here; how far their keys make
\* them so is the matter of KeyedSequence.
IsDb(s) ==
    s = [height |-> s.height, utxos |-> s.utxos, stxos |-> s.stxos,
         withdrawal_bundles |-> s.withdrawal_bundles, pending |-> s.pending,
         latest_failed |-> s.latest_failed, deposit_blocks |-> s.deposit_blocks,
         event_blocks |-> s.event_blocks, block_index_events |-> s.block_index_events]

DbOK(s) ==
    /\ IsDb(s)
    /\ s.height \in Nat \cup {-1}     \* -1: no tip
    /\ s.utxos \subseteq OutPoint
    /\ PartialFunction(s.stxos, OutPoint, InPoint)
    /\ PartialFunction(s.withdrawal_bundles, M6id, Bundle)
    /\ s.pending \subseteq M6id       \* pending_withdrawal_bundle
    /\ s.latest_failed \in Seq(HeightStamped(M6id))
    /\ s.deposit_blocks \in Seq(EventBlock)
    /\ s.event_blocks \in Seq(EventBlock)
    /\ PartialFunction(s.block_index_events, Nat, BlockIndexEvents)

EmptyDb ==
    [height |-> -1, utxos |-> {}, stxos |-> [x \in {} |-> {}],
     withdrawal_bundles |-> [x \in {} |-> {}], pending |-> {},
     latest_failed |-> <<>>, deposit_blocks |-> <<>>, event_blocks |-> <<>>,
     block_index_events |-> [x \in {} |-> {}]]

Idle == [op |-> "idle", restore |-> <<EmptyDb, <<>>, <<>>>>,
         deposit_block |-> 0, event_block |-> 0, index_events |-> NoIndexEvents]

Init ==
    /\ db = EmptyDb /\ chain = <<>> /\ log = <<>> /\ txn = Idle
    /\ early = {} /\ disconnects = 0

-----------------------------------------------------------------------------
(***************************************************************************)
(* Reading the databases.                                                  *)
(***************************************************************************)
HasBundle(s, m) == m \in DOMAIN s.withdrawal_bundles
StatusOf(s, m) == s.withdrawal_bundles[m].status
LatestStatus(s, m) == latest(StatusOf(s, m)).value
IsSubmitted(v) == v \in {"Submitted", "SubmittedUnexpected"}

\* A history of b extended, or shortened, by one status.
PushStatus(b, v, h) == [b EXCEPT !.status = push(b.status, v, h)]
PopStatus(b) == [b EXCEPT !.status = popped(b.status)]
PutBundle(s, m, b) == [s EXCEPT !.withdrawal_bundles = PutOne(@, m, b)]

\* Moves of a bundle's outputs between utxos and stxos.
SpendBy(s, O, m) == [s EXCEPT !.utxos = @ \ O,
                              !.stxos = PutAll(@, [o \in O |-> ByBundle(m)])]

\* Mutant: the output stays in stxos.
Unspend_keeps_stxos(s, O) == [s EXCEPT !.utxos = @ \cup O]

Unspend(s, O) == [s EXCEPT !.utxos = @ \cup O, !.stxos = DeleteAll(@, O)]

\* get_latest_failed_withdrawal_bundle panics when this does not hold.
LatestFailedConsistent(s) ==
    s.latest_failed # <<>> =>
        LET m == latest(s.latest_failed).value
        IN  HasBundle(s, m) /\ Records(StatusOf(s, m), "Failed")

LatestFailureHeight(s) ==
    IF s.latest_failed = <<>> THEN 0
    ELSE LatestHeightOf(StatusOf(s, latest(s.latest_failed).value), "Failed")

GapElapsed(s) == s.height - LatestFailureHeight(s) >= GAP

-----------------------------------------------------------------------------
(***************************************************************************)
(* connect(): the handlers.  For each kind of event, when an assert fails, *)
(* when it is refused with an error, and what it stores otherwise.         *)
(***************************************************************************)
IsPending(s, m) == m \in s.pending

submitted_panics(s, m) ==
    /\ HasBundle(s, m)
    /\ \/ /\ IsPending(s, m)
          /\ s.withdrawal_bundles[m].info = "Known"
          /\ m.spend_utxos \subseteq s.utxos
          /\ LatestStatus(s, m) # "Pending" \/ ~CanPush(StatusOf(s, m), s.height)
       \/ /\ ~IsPending(s, m)              \* SubmittedUnexpected is pushed
          /\ LatestStatus(s, m) = "Failed"
          /\ s.withdrawal_bundles[m].info # "UnknownConfirmed"
          /\ ~CanPush(StatusOf(s, m), s.height)

submitted_refused(s, m) ==
    \/ /\ IsPending(s, m)
       /\ \/ ~HasBundle(s, m)
          \/ s.withdrawal_bundles[m].info # "Known"
          \/ ~(m.spend_utxos \subseteq s.utxos)              \* NoUtxo
    \/ /\ ~IsPending(s, m) /\ HasBundle(s, m)
       /\ \/ LatestStatus(s, m) # "Failed"   \* ConfirmedResubmitted, Resubmitted,
                                             \* DroppedPending, UnknownPending
          \/ s.withdrawal_bundles[m].info = "UnknownConfirmed"

\* Mutant: the status of a bundle submitted again after it failed stays Failed.
submitted_again_ignored(s, m) ==
    IF IsPending(s, m)
    THEN [PutBundle(SpendBy(s, m.spend_utxos, m), m,
                    PushStatus(s.withdrawal_bundles[m], "Submitted", s.height))
            EXCEPT !.pending = {}]
    ELSE IF HasBundle(s, m) THEN s
    ELSE PutBundle(s, m, [info |-> "Unknown", spend_utxos |-> {},
                          status |-> new("Submitted", s.height)])

connect_withdrawal_bundle_submitted(s, m) ==
    IF IsPending(s, m)
    THEN [PutBundle(SpendBy(s, m.spend_utxos, m), m,
                    PushStatus(s.withdrawal_bundles[m], "Submitted", s.height))
            EXCEPT !.pending = {}]
    ELSE IF HasBundle(s, m)
    THEN PutBundle(s, m, PushStatus(s.withdrawal_bundles[m],
                                    "SubmittedUnexpected", s.height))
    ELSE PutBundle(s, m, [info |-> "Unknown", spend_utxos |-> {},
                          status |-> new("Submitted", s.height)])

confirmed_panics(s, m) ==
    /\ HasBundle(s, m)
    /\ LatestStatus(s, m) # "Confirmed"
    /\ ~IsSubmitted(LatestStatus(s, m)) \/ ~CanPush(StatusOf(s, m), s.height)

confirmed_refused(s, m) ==
    \/ ~HasBundle(s, m)
    \/ /\ IsSubmitted(LatestStatus(s, m))
       /\ LET b == s.withdrawal_bundles[m]
          IN  \/ b.info = "UnknownConfirmed"
              \/ b.info = "Unknown" /\ s.height # 0
              \/ /\ b.info = "Known"        \* UnexpectedWithdrawalBundleInsolvency
                 /\ LatestStatus(s, m) = "SubmittedUnexpected"
                 /\ ~(b.spend_utxos \subseteq s.utxos)

\* Mutant: the outputs of a bundle confirmed unexpectedly are not spent.
confirmed_does_not_spend(s, m) ==
    LET b == s.withdrawal_bundles[m]
    IN  IF LatestStatus(s, m) = "Confirmed" THEN s
        ELSE PutBundle(s, m, PushStatus(b, "Confirmed", s.height))

connect_withdrawal_bundle_confirmed(s, m) ==
    LET b == s.withdrawal_bundles[m]
        confirmed(c) == PushStatus(c, "Confirmed", s.height)
    IN  IF LatestStatus(s, m) = "Confirmed" THEN s           \* already applied
        ELSE IF b.info = "Unknown"
        THEN PutBundle(SpendBy(s, s.utxos, m), m,
                 confirmed([b EXCEPT !.info = "UnknownConfirmed",
                                     !.spend_utxos = s.utxos]))
        ELSE IF LatestStatus(s, m) = "SubmittedUnexpected"
        THEN PutBundle(SpendBy(s, b.spend_utxos, m), m, confirmed(b))
        ELSE PutBundle(s, m, confirmed(b))

failed_panics(s, m) ==
    /\ HasBundle(s, m)
    /\ LatestStatus(s, m) # "Failed"
    /\ \/ ~IsSubmitted(LatestStatus(s, m))
       \/ ~CanPush(StatusOf(s, m), s.height)
       \/ /\ s.withdrawal_bundles[m].info = "Known"
          /\ LatestStatus(s, m) = "Submitted"
          /\ s.latest_failed # <<>> /\ ~CanPush(s.latest_failed, s.height)

failed_refused(s, m) == ~HasBundle(s, m)

connect_withdrawal_bundle_failed(s, m) ==
    LET b == s.withdrawal_bundles[m]
        failed(r) == PutBundle(r, m, PushStatus(b, "Failed", s.height))
    IN  IF LatestStatus(s, m) = "Failed" THEN s              \* already applied
        ELSE IF b.info = "Known" /\ LatestStatus(s, m) = "Submitted"
        THEN failed([Unspend(s, b.spend_utxos) EXCEPT
                        !.latest_failed = push(@, m, s.height)])
        ELSE failed(s)

connect_panics(s, e) ==
    \/ e.kind = "Submitted" /\ submitted_panics(s, e.m6id)
    \/ e.kind = "Confirmed" /\ confirmed_panics(s, e.m6id)
    \/ e.kind = "Failed" /\ failed_panics(s, e.m6id)

connect_refused(s, e) ==
    \/ e.kind = "Submitted" /\ submitted_refused(s, e.m6id)
    \/ e.kind = "Confirmed" /\ confirmed_refused(s, e.m6id)
    \/ e.kind = "Failed" /\ failed_refused(s, e.m6id)

connect_2wpd_event(s, e) ==
    CASE e.kind = "Deposit" -> [s EXCEPT !.utxos = @ \cup {deposit(e.deposit)}]
      [] e.kind = "Submitted" -> connect_withdrawal_bundle_submitted(s, e.m6id)
      [] e.kind = "Confirmed" -> connect_withdrawal_bundle_confirmed(s, e.m6id)
      [] e.kind = "Failed" -> connect_withdrawal_bundle_failed(s, e.m6id)

\* What connect_2wpd_event adds to index_events.
index(i, s, e) ==
    CASE e.kind = "Deposit" -> [i EXCEPT !.deposits = @ \cup {deposit(e.deposit)}]
      [] e.kind = "Submitted" /\ IsPending(s, e.m6id) ->
            [i EXCEPT !.bundle_spends = @ \cup (e.m6id.spend_utxos \X {e.m6id})]
      [] OTHER -> i

\* Mutant: the outputs of a bundle in flight are collected again.
collect_from_stxos(s) ==
    [height |-> s.height,
     spend_utxos |-> (s.utxos \cup {o \in DOMAIN s.stxos : s.stxos[o].tag = "Withdrawal"})
                     \cap Withdrawals]

\* The withdrawal bundle that connect() collects from the utxos, if any.
collect_withdrawal_bundle(s) ==
    [height |-> s.height, spend_utxos |-> s.utxos \cap Withdrawals]

Collects(s) == GapElapsed(s) /\ s.pending = {} /\ s.utxos \cap Withdrawals # {}

\* That bundle, when its m6id is in the table already as one of others.
ReportedBefore(s) ==
    {m \in DOMAIN s.withdrawal_bundles :
        /\ Collects(s) /\ m = collect_withdrawal_bundle(s)
        /\ s.withdrawal_bundles[m].info # "Known"}

\* The pending bundle is stored as Known, on top of the status history of the
\* m6id if it has one.
store_pending(s) ==
    LET m == collect_withdrawal_bundle(s)
        history == IF HasBundle(s, m) THEN push(StatusOf(s, m), "Pending", s.height)
                   ELSE new("Pending", s.height)
    IN  IF ~Collects(s) THEN s
        ELSE [PutBundle(s, m, [info |-> "Known", spend_utxos |-> m.spend_utxos,
                               status |-> history]) EXCEPT !.pending = {m}]

\* The part of connect() after the loop over the events.
connect_end(s, deposit_block, event_block, index_events) ==
    LET recorded ==
          [s EXCEPT
             !.block_index_events = IF index_events = NoIndexEvents THEN @
                                    ELSE PutOne(@, s.height, index_events),
             !.deposit_blocks = IF deposit_block = 0 THEN @
                                ELSE Append(@, [hash |-> deposit_block, height |-> s.height]),
             !.event_blocks = IF event_block = 0 THEN @
                              ELSE Append(@, [hash |-> event_block, height |-> s.height])]
    IN  store_pending(recorded)

-----------------------------------------------------------------------------
(***************************************************************************)
(* disconnect(): the handlers, run on the events in reverse order.         *)
(***************************************************************************)
\* The status under the latest one, when there is one.
Under(s, m) == popped(StatusOf(s, m))
HasUnder(s, m) == Under(s, m) # <<>>
UnderStatus(s, m) == latest(Under(s, m)).value

\* assert_eq!(latest_bundle_status.height, block_height)
LatestIsOfTip(s, m) == latest(StatusOf(s, m)).height = s.height

undo_submitted_panics(s, m) ==
    HasBundle(s, m) /\ ~(IsSubmitted(LatestStatus(s, m)) /\ LatestIsOfTip(s, m))

\* A bundle that was pending when it was submitted.
WasPending(s, m) ==
    /\ s.withdrawal_bundles[m].info = "Known"
    /\ HasUnder(s, m) /\ UnderStatus(s, m) = "Pending"

undo_submitted_refused(s, m) ==
    \/ ~HasBundle(s, m) /\ ~IsPending(s, m)
    \/ /\ HasBundle(s, m) /\ WasPending(s, m)
       /\ ~(m.spend_utxos \subseteq DOMAIN s.stxos)          \* NoStxo

disconnect_withdrawal_bundle_submitted(s, m) ==
    IF ~HasBundle(s, m) THEN s                               \* already applied
    ELSE LET r == IF WasPending(s, m)
                  THEN [Unspend(s, m.spend_utxos) EXCEPT !.pending = {m}]
                  ELSE s
         IN  IF HasUnder(s, m)
             THEN PutBundle(r, m, PopStatus(s.withdrawal_bundles[m]))
             ELSE [r EXCEPT !.withdrawal_bundles = DeleteAll(@, {m})]

undo_confirmed_panics(s, m) ==
    /\ HasBundle(s, m)
    /\ ~IsSubmitted(LatestStatus(s, m))
    /\ ~(/\ LatestStatus(s, m) = "Confirmed" /\ LatestIsOfTip(s, m)
         /\ HasUnder(s, m) /\ IsSubmitted(UnderStatus(s, m)))

\* The outputs that the confirmation of m itself moved to stxos.
ConfirmationSpent(s, m) ==
    LET b == s.withdrawal_bundles[m]
    IN  IF \/ b.info = "UnknownConfirmed"
           \/ b.info = "Known" /\ UnderStatus(s, m) = "SubmittedUnexpected"
        THEN b.spend_utxos ELSE {}

undo_confirmed_refused(s, m) ==
    \/ ~HasBundle(s, m)
    \/ /\ ~IsSubmitted(LatestStatus(s, m))
       /\ ~(ConfirmationSpent(s, m) \subseteq DOMAIN s.stxos)     \* NoStxo

disconnect_withdrawal_bundle_confirmed(s, m) ==
    LET b == s.withdrawal_bundles[m]
        unconfirmed == IF b.info = "UnknownConfirmed"
                       THEN [b EXCEPT !.info = "Unknown", !.spend_utxos = {}]
                       ELSE b
    IN  IF IsSubmitted(LatestStatus(s, m)) THEN s            \* already applied
        ELSE PutBundle(Unspend(s, ConfirmationSpent(s, m)), m, PopStatus(unconfirmed))

\* The failure of m gave its outputs back.
FailureUnspent(s, m) ==
    s.withdrawal_bundles[m].info = "Known" /\ UnderStatus(s, m) # "SubmittedUnexpected"

undo_failed_panics(s, m) ==
    /\ HasBundle(s, m)
    /\ LatestStatus(s, m) # "Submitted"
    /\ ~(/\ LatestStatus(s, m) = "Failed" /\ LatestIsOfTip(s, m)
         /\ HasUnder(s, m) /\ IsSubmitted(UnderStatus(s, m))
         /\ FailureUnspent(s, m) =>
               s.latest_failed # <<>>
               /\ latest(s.latest_failed) = [value |-> m, height |-> s.height])

undo_failed_refused(s, m) ==
    \/ ~HasBundle(s, m)
    \/ /\ LatestStatus(s, m) # "Submitted"
       /\ FailureUnspent(s, m)
       /\ ~(m.spend_utxos \subseteq s.utxos)                 \* NoUtxo

disconnect_withdrawal_bundle_failed(s, m) ==
    LET b == s.withdrawal_bundles[m]
        r == IF FailureUnspent(s, m)
             THEN [SpendBy(s, b.spend_utxos, m) EXCEPT !.latest_failed = popped(@)]
             ELSE s
    IN  IF LatestStatus(s, m) = "Submitted" THEN s           \* already applied
        ELSE PutBundle(r, m, PopStatus(b))

disconnect_panics(s, e) ==
    \/ e.kind = "Submitted" /\ undo_submitted_panics(s, e.m6id)
    \/ e.kind = "Confirmed" /\ undo_confirmed_panics(s, e.m6id)
    \/ e.kind = "Failed" /\ undo_failed_panics(s, e.m6id)

disconnect_refused(s, e) ==
    \/ e.kind = "Deposit" /\ deposit(e.deposit) \notin s.utxos    \* NoUtxo
    \/ e.kind = "Submitted" /\ undo_submitted_refused(s, e.m6id)
    \/ e.kind = "Confirmed" /\ undo_confirmed_refused(s, e.m6id)
    \/ e.kind = "Failed" /\ undo_failed_refused(s, e.m6id)

disconnect_event(s, e) ==
    CASE e.kind = "Deposit" -> [s EXCEPT !.utxos = @ \ {deposit(e.deposit)}]
      [] e.kind = "Submitted" -> disconnect_withdrawal_bundle_submitted(s, e.m6id)
      [] e.kind = "Confirmed" -> disconnect_withdrawal_bundle_confirmed(s, e.m6id)
      [] e.kind = "Failed" -> disconnect_withdrawal_bundle_failed(s, e.m6id)

\* The part of disconnect() after the loop: the stacks are popped, provided
\* that their last entries are this block's, and a bundle collected by this
\* block is no longer pending.
OfTip(blocks, hash, height) ==
    blocks # <<>> /\ blocks[Len(blocks)] = [hash |-> hash, height |-> height]

disconnect_end_panics(s, deposit_block, event_block) ==
    \/ deposit_block # 0 /\ ~OfTip(s.deposit_blocks, deposit_block, s.height)
    \/ event_block # 0 /\ ~OfTip(s.event_blocks, event_block, s.height)
    \/ ~LatestFailedConsistent(s)

\* PendingWithdrawalBundleUnknown
disconnect_end_refused(s) ==
    GapElapsed(s) /\ \E m \in s.pending : ~HasBundle(s, m)

\* Mutant: the entry is dropped, the pending bundle is not.
drop_entry_only(s) ==
    LET m == CHOOSE m \in s.pending : TRUE
    IN  IF ~(GapElapsed(s) /\ s.pending # {}) \/ ~LatestIsOfTip(s, m) THEN s
        ELSE [s EXCEPT !.withdrawal_bundles = DeleteAll(@, {m})]

drop_pending(s) ==
    LET m == CHOOSE m \in s.pending : TRUE
        r == [s EXCEPT !.pending = {}]
    IN  IF ~(GapElapsed(s) /\ s.pending # {}) \/ ~LatestIsOfTip(s, m) THEN s
        ELSE IF HasUnder(s, m) THEN PutBundle(r, m, PopStatus(s.withdrawal_bundles[m]))
        ELSE [r EXCEPT !.withdrawal_bundles = DeleteAll(@, {m})]

disconnect_end(s, deposit_block, event_block) ==
    LET r == drop_pending(s)
    IN  [r EXCEPT !.deposit_blocks = IF deposit_block = 0 THEN @ ELSE popped(@),
                  !.event_blocks = IF event_block = 0 THEN @ ELSE popped(@)]

-----------------------------------------------------------------------------
(***************************************************************************)
(* lib/state/block.rs: what the bodies of this model do to the databases.  *)
(***************************************************************************)
connect_body(s, body) ==
    LET spent == {deposit(d) : d \in body}
    IN  [s EXCEPT !.height = @ + 1,
                  !.utxos = (@ \ spent) \cup {withdrawal(d) : d \in body},
                  !.stxos = PutAll(@, [o \in spent |-> ByTransaction(o.id)])]

disconnect_body_refused(s, body) ==
    \E d \in body : withdrawal(d) \notin s.utxos \/ deposit(d) \notin DOMAIN s.stxos

disconnect_body(s, body) ==
    LET spent == {deposit(d) : d \in body}
    IN  [s EXCEPT !.height = @ - 1,
                  !.utxos = (@ \ {withdrawal(d) : d \in body}) \cup spent,
                  !.stxos = DeleteAll(@, spent)]

-----------------------------------------------------------------------------
(***************************************************************************)
(* The mainchain: which event may come next.  A deposit is made once; a    *)
(* bundle is submitted, then either confirmed or failed, and may be        *)
(* submitted again after it failed.                                        *)
(***************************************************************************)
About(m) == {i \in DOMAIN log : log[i].event.kind # "Deposit" /\ log[i].event.m6id = m}

\* The last event about m is of the given kind.
LastAbout(m, kind) ==
    \E i \in About(m) : log[i].event.kind = kind /\ \A j \in About(m) : j <= i

Deposited(d) ==
    \E i \in DOMAIN log : log[i].event = [kind |-> "Deposit", deposit |-> d]

MainEvents ==
    {[kind |-> "Deposit", deposit |-> d] : d \in {d \in Deposit : ~Deposited(d)}}
    \cup {[kind |-> "Submitted", m6id |-> m] :
             m \in {m \in DOMAIN db.withdrawal_bundles \cup MainBundle :
                        About(m) = {} \/ LastAbout(m, "Failed")}}
    \cup {[kind |-> k, m6id |-> m] :
             k \in {"Confirmed", "Failed"},
             m \in {m \in DOMAIN db.withdrawal_bundles : LastAbout(m, "Submitted")}}

-----------------------------------------------------------------------------
(***************************************************************************)
(* The steps of one write transaction.                                     *)
(***************************************************************************)
\* apply_block, before connect_two_way_peg_data.
BeginConnect(body) ==
    /\ txn.op = "idle"
    /\ db.height < MaxHeight
    /\ body \subseteq {d \in Deposit : deposit(d) \in db.utxos}
    /\ db' = connect_body(db, body)
    /\ chain' = Append(chain, [body |-> body, before |-> db])
    /\ txn' = [Idle EXCEPT !.op = "connect", !.restore = <<db, chain, log>>]
    /\ UNCHANGED <<log, early, disconnects>>

ConnectEvent(e) ==
    /\ txn.op = "connect"
    /\ Len(log) < MaxEvents
    /\ ~connect_panics(db, e) /\ ~connect_refused(db, e)
    /\ db' = connect_2wpd_event(db, e)
    /\ log' = Append(log, [event |-> e, height |-> db.height])
    /\ txn' = [txn EXCEPT
                 !.index_events = index(@, db, e),
                 !.deposit_block = IF e.kind = "Deposit" THEN Len(log) + 1 ELSE @,
                 !.event_block = IF e.kind # "Deposit" THEN Len(log) + 1 ELSE @]
    /\ UNCHANGED <<chain, early, disconnects>>

ConnectEnd ==
    /\ txn.op = "connect"
    /\ LatestFailedConsistent(db)
    /\ db' = connect_end(db, txn.deposit_block, txn.event_block, txn.index_events)
    /\ early' = early \cup ReportedBefore(db)
    /\ txn' = Idle
    /\ UNCHANGED <<chain, log, disconnects>>

\* Mutant: the index entry of the block is not deleted.
BeginDisconnect_keeps_index ==
    /\ txn.op = "idle"
    /\ chain # <<>>
    /\ disconnects < MaxDisconnects
    /\ disconnects' = disconnects + 1
    /\ txn' = [Idle EXCEPT !.op = "disconnect", !.restore = <<db, chain, log>>]
    /\ UNCHANGED <<db, chain, log, early>>

BeginDisconnect ==
    /\ txn.op = "idle"
    /\ chain # <<>>
    /\ disconnects < MaxDisconnects
    /\ disconnects' = disconnects + 1
    /\ db' = [db EXCEPT !.block_index_events = DeleteAll(@, {db.height})]
    /\ txn' = [Idle EXCEPT !.op = "disconnect", !.restore = <<db, chain, log>>]
    /\ UNCHANGED <<chain, log, early>>

\* The block being disconnected has an event left to undo.
EventLeft == log # <<>> /\ log[Len(log)].height = db.height

\* Mutant: the oldest event block of the batch is taken for the latest.
DisconnectEvent_oldest_block ==
    LET e == log[Len(log)].event
    IN  /\ txn.op = "disconnect"
        /\ EventLeft
        /\ ~disconnect_panics(db, e) /\ ~disconnect_refused(db, e)
        /\ db' = disconnect_event(db, e)
        /\ log' = SubSeq(log, 1, Len(log) - 1)
        /\ txn' = [txn EXCEPT
                     !.deposit_block = IF e.kind = "Deposit" THEN Len(log) ELSE @,
                     !.event_block = IF e.kind # "Deposit" THEN Len(log) ELSE @]
        /\ UNCHANGED <<chain, early, disconnects>>

DisconnectEvent ==
    LET e == log[Len(log)].event
    IN  /\ txn.op = "disconnect"
        /\ EventLeft
        /\ ~disconnect_panics(db, e) /\ ~disconnect_refused(db, e)
        /\ db' = disconnect_event(db, e)
        /\ log' = SubSeq(log, 1, Len(log) - 1)
        /\ txn' = [txn EXCEPT     \* the first one seen is the latest
                     !.deposit_block = IF e.kind = "Deposit" /\ @ = 0 THEN Len(log) ELSE @,
                     !.event_block = IF e.kind # "Deposit" /\ @ = 0 THEN Len(log) ELSE @]
        /\ UNCHANGED <<chain, early, disconnects>>

\* The rest of disconnect(), then disconnect_tip.
Undone == disconnect_end(db, txn.deposit_block, txn.event_block)

DisconnectEnd ==
    LET body == chain[Len(chain)].body
    IN  /\ txn.op = "disconnect"
        /\ ~EventLeft
        /\ ~disconnect_end_panics(db, txn.deposit_block, txn.event_block)
        /\ ~disconnect_end_refused(db)
        /\ ~disconnect_body_refused(Undone, body)
        /\ db' = disconnect_body(Undone, body)
        /\ chain' = SubSeq(chain, 1, Len(chain) - 1)
        /\ txn' = Idle
        /\ UNCHANGED <<log, early, disconnects>>

\* The transaction in progress meets an error.
Refused ==
    \/ /\ txn.op = "connect"
       /\ \E e \in MainEvents : connect_refused(db, e)
    \/ /\ txn.op = "disconnect" /\ EventLeft
       /\ disconnect_refused(db, log[Len(log)].event)
    \/ /\ txn.op = "disconnect" /\ ~EventLeft
       /\ ~disconnect_end_panics(db, txn.deposit_block, txn.event_block)
       /\ \/ disconnect_end_refused(db)
          \/ disconnect_body_refused(Undone, chain[Len(chain)].body)

Abort ==
    /\ Refused
    /\ db' = txn.restore[1] /\ chain' = txn.restore[2] /\ log' = txn.restore[3]
    /\ txn' = Idle
    /\ UNCHANGED <<early, disconnects>>

Next ==
    \/ \E body \in SUBSET Deposit : BeginConnect(body)
    \/ \E e \in MainEvents : ConnectEvent(e)
    \/ ConnectEnd
    \/ BeginDisconnect
    \/ DisconnectEvent
    \/ DisconnectEnd
    \/ Abort

Spec == Init /\ [][Next]_vars

-----------------------------------------------------------------------------
TypeOK ==
    /\ DbOK(db)
    /\ \A i \in DOMAIN chain : chain[i].body \subseteq Deposit /\ DbOK(chain[i].before)
    /\ log \in Seq([event : Event, height : Nat])
    /\ txn.op \in {"idle", "connect", "disconnect"}
    /\ txn.deposit_block \in Nat /\ txn.event_block \in Nat
    /\ txn.index_events \in BlockIndexEvents
    /\ DbOK(txn.restore[1])

\* No block has collected a bundle that the mainchain had reported before.  The
\* m6id of a bundle does not depend on the branch that collects it, so a bundle
\* collected on a branch that is reorged away can be submitted to the mainchain
\* and be in the table as Unknown when this branch collects it.  store_pending
\* then turns the entry into a Known one with status Pending on top of what the
\* mainchain has done, and the properties below do not outlive that.
NoneEarly == early = {}

\* No outpoint is both spent and unspent, whatever part of a block has been
\* connected or undone: each handler moves an output between utxos and stxos
\* and none creates an output a second time.
UtxoStxoDisjoint == NoneEarly => db.utxos \cap DOMAIN db.stxos = {}

\* "Pending withdrawal bundle. MUST exist in withdrawal_bundles"
\* (lib/state/mod.rs:85): the pending bundle is one, known, and its latest
\* status is Pending, which is what its submission asserts.
PendingKnownIn(s) ==
    \A m \in s.pending :
        /\ s.pending = {m}
        /\ HasBundle(s, m) /\ s.withdrawal_bundles[m].info = "Known"
        /\ LatestStatus(s, m) = "Pending"

PendingKnown == PendingKnownIn(db)

\* m has taken its outputs: it was submitted while pending, or confirmed.
Holds(s, m) ==
    /\ HasBundle(s, m)
    /\ \/ s.withdrawal_bundles[m].info = "Known" /\ LatestStatus(s, m) = "Submitted"
       \/ s.withdrawal_bundles[m].info # "Unknown" /\ LatestStatus(s, m) = "Confirmed"

\* The outputs marked as spent by a bundle are exactly those of the bundles in
\* flight or paid out.  So no withdrawal is paid by two bundles, and none is
\* marked as spent by a bundle that failed.
OwnershipIn(s) ==
    /\ \A o \in DOMAIN s.stxos : s.stxos[o].tag = "Withdrawal" =>
          Holds(s, s.stxos[o].m6id)
          /\ o \in s.withdrawal_bundles[s.stxos[o].m6id].spend_utxos
    /\ \A m \in DOMAIN s.withdrawal_bundles : Holds(s, m) =>
          \A o \in s.withdrawal_bundles[m].spend_utxos :
              o \in DOMAIN s.stxos /\ s.stxos[o] = ByBundle(m)

BundleOwnership == NoneEarly => OwnershipIn(db)

\* The outputs of the pending bundle are unspent, unless a bundle that had
\* failed was submitted again and confirmed: then the chain cannot accept the
\* pending bundle's submission (NoUtxo, two_way_peg_data.rs:161).
PendingSpendable ==
    NoneEarly => \A m \in db.pending : \A o \in m.spend_utxos :
        \/ o \in db.utxos
        \/ /\ o \in DOMAIN db.stxos
           /\ LET n == db.stxos[o].m6id
              IN  LatestStatus(db, n) = "Confirmed" /\ UnderStatus(db, n) = "SubmittedUnexpected"

\* Whatever the mainchain does next, the only assert!s and expect()s of
\* connect() that can fail are those of the handlers on an event about a bundle
\* that was reported before it was collected (two_way_peg_data.rs:306 and 418).
ConnectPanicFree ==
    txn.op = "connect" =>
        /\ \A e \in MainEvents : connect_panics(db, e) => e.m6id \in early
        /\ LatestFailedConsistent(db)
        /\ LET m == collect_withdrawal_bundle(db)
           IN  Collects(db) /\ HasBundle(db, m) => CanPush(StatusOf(db, m), db.height)

\* Undoing the tip meets no failed assert!, no expect() and no error, so a
\* reorg can always go back: every event is undone from the very state its
\* handler left, and the stacks of event blocks end in this block's entries.
DisconnectSucceeds ==
    NoneEarly /\ txn.op = "disconnect" =>
        /\ ~Refused
        /\ EventLeft => ~disconnect_panics(db, log[Len(log)].event)
        /\ ~EventLeft => ~disconnect_end_panics(db, txn.deposit_block, txn.event_block)

\* "Coin movements that a block body does not carry: a mainchain deposit, and
\* the outputs a withdrawal bundle removed" (lib/types/mod.rs:217): what the
\* tip's events took from utxos is in its index entry.
IndexedSpends(h) ==
    IF h \in DOMAIN db.block_index_events THEN db.block_index_events[h].bundle_spends ELSE {}

BundleSpendsIndexed ==
    txn.op = "idle" /\ chain # <<>> =>
        \A o \in DOMAIN db.stxos \ DOMAIN chain[Len(chain)].before.stxos :
            db.stxos[o].tag = "Withdrawal" =>
                <<o, db.stxos[o].m6id>> \in IndexedSpends(db.height)

\* What disconnecting a block restores: all that was there before it, except
\* for bundles left behind with status Pending though none is pending: those
\* that this block, or one above it, collected after it had submitted the
\* bundle that was pending (two_way_peg_data.rs:681).
Leaked(before, after, m) ==
    /\ m.height > before.height
    /\ m \notin after.pending
    /\ LatestStatus(after, m) = "Pending"

RestoresUpToLeak ==
    [][NoneEarly /\ DisconnectEnd =>
        LET before == chain[Len(chain)].before
        IN  /\ DOMAIN before.withdrawal_bundles \subseteq DOMAIN db'.withdrawal_bundles
            /\ \A m \in DOMAIN db'.withdrawal_bundles :
                  \/ /\ HasBundle(before, m)
                     /\ db'.withdrawal_bundles[m] = before.withdrawal_bundles[m]
                  \/ Leaked(before, db', m)
            /\ db' = [before EXCEPT !.withdrawal_bundles = db'.withdrawal_bundles]]_vars

\* "Connecting deposits from two distinct blocks then disconnecting the batch
\* must restore the prior state" (two_way_peg_data.rs:1374), for any batch.
RoundTrip == [][DisconnectEnd => db' = chain[Len(chain)].before]_vars
=============================================================================
