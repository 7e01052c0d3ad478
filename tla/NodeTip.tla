-------------------------------- MODULE NodeTip --------------------------------
(***************************************************************************)
(* How a node moves its tip: reorg_to_tip and the handlers that call it    *)
(* (lib/node/net_task.rs), with the mainchain task and the operator's      *)
(* invalidate_block (lib/node/mod.rs) as the other writers.                *)
(*                                                                         *)
(* reorg_to_tip commits whenever it has reached a block that is better     *)
(* than the tip it started from, and opens a new write transaction: other  *)
(* writers get in between.  One action is what happens up to a commit.     *)
(*                                                                         *)
(* Of the state, this module keeps the tip and which mainchain events have *)
(* been applied; TwoWayPeg has what an event does.  A body is valid when   *)
(* it has the merkle root of its header.  The mempool's part in connecting *)
(* and disconnecting (delete, put) is left out: Mempool has the operations.*)
(***************************************************************************)
EXTENDS MainchainTask, Sequences

CONSTANT peg_events   \* the kinds of events in each mainchain block
ASSUME PegEventsAssumption == peg_events \in [MainBlock -> SUBSET {"deposit", "bundle"}]

VARIABLES
    state,    \* [tip, deposits, bundles, deposit_blocks, event_blocks]
    reorg,    \* the locals of reorg_to_tip between two write transactions
    events,   \* are there mainchain events in the mailbox of the net task?
    net_task  \* "running", or what stopped it

nodeVars == <<state, reorg, events, net_task>>
allVars == <<archive, task, state, reorg, events, net_task>>

Applied == MainBlock \X Nat
Source == {"NewTipReady", "MainchainEvent"}

NodeTypeOK ==
    /\ TypeOK
    /\ state \in [tip : SideBlock \cup {None},
                  deposits : SUBSET MainBlock,    \* their deposits are utxos
                  bundles : SUBSET Applied,       \* bundle events, with their height
                  deposit_blocks : Seq(Applied),
                  event_blocks : Seq(Applied)]
    /\ reorg.phase \in {"idle", "applying", "discarding"}
    /\ reorg.source \in Source
    /\ reorg.target \in SideBlock \cup {None}
    /\ DOMAIN reorg.todo \subseteq SideBlock   \* blocks to apply, with their bodies
    /\ \A b \in DOMAIN reorg.todo : reorg.todo[b] \subseteq Txid
    /\ events \in BOOLEAN
    /\ net_task \in {"running", "archive_error", "state_error", "panicked"}

Idle == [phase |-> "idle", source |-> "NewTipReady", from |-> NoTip, target |-> None,
         todo |-> [b \in {} |-> {}]]

\* A node that has synced the headers of both chains and has no body yet.
SyncedHeaders ==
    LET result(b, m) == IF prev_block_hash[m] # prev_main_hash[b] THEN "absent"
                        ELSE IF m \in ValidBmm[b] THEN "Verified" ELSE "Failed"
    IN  [EmptyArchive EXCEPT
            !.main = MainBlock, !.headers = SideBlock,
            !.bmm_results = [b \in SideBlock |-> [m \in MainBlock |-> result(b, m)]]]

NodeInit ==
    /\ archive = SyncedHeaders /\ task = "syncing"
    /\ state = [tip |-> None, deposits |-> {}, bundles |-> {},
                deposit_blocks |-> <<>>, event_blocks |-> <<>>]
    /\ reorg = Idle
    /\ events = FALSE
    /\ net_task = "running"

-----------------------------------------------------------------------------
\* The ancestors of m after the block stop, as main_ancestors(..).take_while(..).
MainAfter(m, stop) ==
    IF stop \in main_ancestors[m] THEN main_ancestors[m] \ main_ancestors[stop]
    ELSE main_ancestors[m]

With(kind, M) == {m \in M : kind \in peg_events[m]}
Newest(M) == CHOOSE m \in M : M \subseteq main_ancestors[m]

\* The mainchain blocks whose events come with b.
TwoWayPegData(b) ==
    MainAfter(prev_main_hash[b],
              IF prev_side_hash[b] = None THEN ZeroHash ELSE prev_main_hash[prev_side_hash[b]])

\* The newest mainchain block with a deposit and the newest with a bundle event,
\* of those that come with b, are two.  disconnect_tip_ of a block after b then
\* starts from the older one (start_block_hash), and undoes events of b as well.
Mixed(b) ==
    LET D == With("deposit", TwoWayPegData(b))
        B == With("bundle", TwoWayPegData(b))
    IN  D # {} /\ B # {} /\ Newest(D) # Newest(B)

\* There is no such block up to b.
Clean(b) == \A a \in ancestors[b] : ~Mixed(a)

AppendNewest(s, M, h) == IF M = {} THEN s ELSE Append(s, <<Newest(M), h>>)

\* apply_block and connect_two_way_peg_data.
connect_state(s, b) ==
    LET D == With("deposit", TwoWayPegData(b))
        B == With("bundle", TwoWayPegData(b))
    IN  [tip |-> b,
         deposits |-> s.deposits \cup D,
         bundles |-> s.bundles \cup (B \X {height[b]}),
         deposit_blocks |-> AppendNewest(s.deposit_blocks, D, height[b]),
         event_blocks |-> AppendNewest(s.event_blocks, B, height[b])]

-----------------------------------------------------------------------------
(***************************************************************************)
(* disconnect_tip_ recomputes which events came with the tip: those after  *)
(* the last event that was applied at a lower height.                      *)
(***************************************************************************)
NoneApplied == <<ZeroHash, 0>>
LastApplied(s, h) ==
    LET I == {i \in DOMAIN s : s[i][2] < h}
    IN  IF I = {} THEN NoneApplied ELSE s[CHOOSE i \in I : \A j \in I : j <= i]

\* Mutant: the start is the last deposit block.
start_block_hash_of_deposits(s) == LastApplied(s.deposit_blocks, height[s.tip])[1]

start_block_hash(s) ==
    LET d == LastApplied(s.deposit_blocks, height[s.tip])
        e == LastApplied(s.event_blocks, height[s.tip])
    IN  CASE d = NoneApplied -> e[1]
          [] d # NoneApplied /\ e = NoneApplied -> d[1]
          [] d # NoneApplied /\ e # NoneApplied /\ d[2] < e[2] -> e[1]
          [] d # NoneApplied /\ e # NoneApplied /\ d[2] > e[2] -> d[1]
          [] d # NoneApplied /\ e # NoneApplied /\ d[2] = e[2] ->
                IF is_main_descendant(e[1], d[1]) THEN e[1] ELSE d[1]

Disconnected(s) == MainAfter(prev_main_hash[s.tip], start_block_hash(s))

\* The assertions of disconnect_tip_ and of two_way_peg_data::disconnect.
Unordered(s) ==
    LET d == LastApplied(s.deposit_blocks, height[s.tip])
        e == LastApplied(s.event_blocks, height[s.tip])
    IN  /\ d # NoneApplied /\ e # NoneApplied /\ d[2] = e[2]
        /\ ~shared_mainchain_lineage(d[1], e[1])
EndsWith(s, e) == s # <<>> /\ s[Len(s)] = e

disconnect_panics(s) ==
    LET h == height[s.tip]
        D == With("deposit", Disconnected(s))
        B == With("bundle", Disconnected(s))
    IN  \/ Unordered(s)
        \/ \E m \in B : <<m, h>> \notin s.bundles
        \/ B # {} /\ ~EndsWith(s.event_blocks, <<Newest(B), h>>)
        \/ D # {} /\ ~EndsWith(s.deposit_blocks, <<Newest(D), h>>)

\* NoUtxo, or the stored body has another merkle root.
disconnect_state_error(a, s) ==
    \/ ~(With("deposit", Disconnected(s)) \subseteq s.deposits)
    \/ a.bodies[s.tip] # body_of[s.tip]

Front(s) == SubSeq(s, 1, Len(s) - 1)

disconnect_state(s) ==
    LET D == With("deposit", Disconnected(s))
        B == With("bundle", Disconnected(s))
    IN  [tip |-> prev_side_hash[s.tip],
         deposits |-> s.deposits \ D,
         bundles |-> s.bundles \ (B \X {height[s.tip]}),
         deposit_blocks |-> IF D = {} THEN s.deposit_blocks ELSE Front(s.deposit_blocks),
         event_blocks |-> IF B = {} THEN s.event_blocks ELSE Front(s.event_blocks)]

\* A transaction so far: its archive and state, how it stands, and the block
\* that failed when it could not be connected.
Txn(a, s) == [archive |-> a, state |-> s, status |-> "open", failed |-> None]

disconnect_tip_(r) ==
    CASE r.status # "open" -> r
      [] r.status = "open" /\ ~(r.state.tip \in r.archive.headers \cap DOMAIN r.archive.bodies) ->
            [r EXCEPT !.status = "archive_error"]
      [] r.status = "open" /\ r.state.tip \in r.archive.headers \cap DOMAIN r.archive.bodies ->
            IF disconnect_panics(r.state) THEN [r EXCEPT !.status = "panic"]
            ELSE IF disconnect_state_error(r.archive, r.state)
            THEN [r EXCEPT !.status = "state_error"]
            ELSE [r EXCEPT !.state = disconnect_state(@)]

\* Disconnect the blocks after c, the tip or an ancestor of it: down[b] is the
\* transaction when b is to be the tip.
DisconnectTo(r, c) ==
    LET after(b) == CHOOSE d \in ancestors[r.state.tip] : prev_side_hash[d] = b
        down[b \in ancestors[r.state.tip] \cup {None}] ==
            IF b = r.state.tip THEN r ELSE disconnect_tip_(down[after(b)])
    IN  down[c]

-----------------------------------------------------------------------------
\* get_best_main_verification, as a tip.
TipOf(a, b) ==
    LET V == {m \in MainBlock : a.bmm_results[b][m] = "Verified"}
    IN  [block_hash |-> b,
         main_block_hash |-> CHOOSE m \in V : \A n \in V : total_work[m] >= total_work[n]]

\* Mutant: every block that was applied is committed.
Commits_always(a, from, b) == TRUE

\* Is b, as a tip, better than the tip the reorg started from?
Commits(a, from, b) ==
    from # NoTip => better_tip(from, TipOf(a, b)) = TipOf(a, b)

\* connect_tip_ in the transaction r, and the commit after it.  State errors:
\* a body with another merkle root, or a tip that is not the parent.
connect_tip_(from, r, b, body) ==
    LET a == put_header(r.archive, b)
        c == put_body(a, b, body)
    IN  CASE r.status # "open" -> r
          [] r.status = "open" /\ (r.state.tip # prev_side_hash[b] \/ body # body_of[b]) ->
                [r EXCEPT !.status = "connect_error", !.failed = b]
          [] r.status = "open" /\ r.state.tip = prev_side_hash[b] /\ body = body_of[b] ->
                IF put_header_refused(r.archive, b) \/ put_body_refused(a, b)
                THEN [r EXCEPT !.status = "archive_error"]
                ELSE [r EXCEPT !.archive = c, !.state = connect_state(@, b),
                               !.status = IF Commits(c, from, b) THEN "commit" ELSE "open"]

\* The loop over the blocks to apply, parents first, up to the target.
ConnectBlocks(r, ro) ==
    LET upTo[b \in SideBlock \cup {None}] ==
            IF b \in DOMAIN ro.todo
            THEN connect_tip_(ro.from, upTo[prev_side_hash[b]], b, ro.todo[b]) ELSE r
    IN  upTo[ro.target]

\* What the caller makes of an error of reorg_to_tip: handle_mainchain_block_event
\* passes every error on, NewTipReady only those that is_fatal_reorg_error.
Errs(source, error) ==
    /\ reorg' = Idle
    /\ net_task' = IF error = "archive_error" \/ source = "MainchainEvent" THEN error ELSE net_task

\* The end of a transaction of reorg_to_tip; s is what it leaves when dropped.
EndTxn(r, s, ro) ==
    CASE r.status \in {"open", "commit"} ->
            /\ archive' = r.archive /\ state' = r.state
            /\ reorg' = IF r.status = "open" THEN Idle
                        ELSE [ro EXCEPT !.todo = Delete(@, ancestors[r.state.tip])]
            /\ UNCHANGED net_task
      [] r.status = "connect_error" ->
            /\ reorg' = [ro EXCEPT !.phase = "discarding", !.target = r.failed]
            /\ state' = s
            /\ UNCHANGED <<archive, net_task>>
      [] r.status \in {"state_error", "archive_error"} ->
            Errs(ro.source, r.status) /\ state' = s /\ UNCHANGED archive
      [] r.status = "panic" ->
            net_task' = "panicked" /\ reorg' = Idle /\ state' = s /\ UNCHANGED archive

\* blocks_to_apply: the new tip b, and those before it down to the common ancestor c.
BlocksToApply(b, c) == IF c = b THEN ancestors[b] ELSE ancestors[b] \ ancestors[c]

\* reorg_to_tip up to its first commit, from the state s: the bodies are read,
\* the tip is disconnected down to the common ancestor, and blocks connected.
BeginReorg(s, t, source) ==
    LET from == IF s.tip = None THEN NoTip ELSE TipOf(archive, s.tip)
        common == last_common_ancestor(s.tip, t.block_hash)
        path == BlocksToApply(t.block_hash, common)
        ro == [phase |-> "applying", source |-> source, from |-> from,
               target |-> t.block_hash, todo |-> [b \in path |-> archive.bodies[b]]]
        r == DisconnectTo(Txn(archive, s), common)
        has_header == t.block_hash \in archive.headers \/ t = from
        better == from = NoTip \/ better_tip(from, t) = t
        has_bodies == path \subseteq archive.headers \cap DOMAIN archive.bodies
    IN  CASE has_header /\ ~better -> state' = s /\ UNCHANGED <<archive, reorg, net_task>>
          [] has_header /\ better /\ has_bodies -> EndTxn(ConnectBlocks(r, ro), s, ro)
          [] ~has_header \/ (better /\ ~has_bodies) ->
                Errs(source, "archive_error") /\ state' = s /\ UNCHANGED archive

-----------------------------------------------------------------------------
Ready == net_task = "running" /\ reorg.phase = "idle"

\* NewTipReady: a tip that a peer sent, or the miner mined, whose bodies are stored.
NewTipReady(t) ==
    /\ Ready
    /\ archive.bmm_results[t.block_hash][t.main_block_hash] = "Verified"
    /\ HasTip(archive, t.block_hash)
    /\ is_main_descendant(t.main_block_hash, archive.mainchain_tip)
    /\ BeginReorg(state, t, "NewTipReady")
    /\ UNCHANGED <<task, events>>

\* The loop of handle_mainchain_block_event: blocks that are no tips are
\* disconnected, without their mainchain events.
DropNonTips(s) ==
    LET kept == {b \in ancestors[s.tip] : HasTip(archive, b)}
    IN  [s EXCEPT !.tip = IF kept = {} THEN None
                          ELSE CHOOSE b \in kept : kept \subseteq ancestors[b]]

\* handle_mainchain_block_event: to the best tip of SideTips.
MainchainEvent ==
    /\ Ready
    /\ events
    /\ IF DOMAIN archive.ordered_sidechain_tips = {}
       THEN state' = DropNonTips(state) /\ UNCHANGED <<archive, reorg, net_task>>
       ELSE BeginReorg(DropNonTips(state), best_side_tip(archive), "MainchainEvent")
    /\ events' \in BOOLEAN
    /\ UNCHANGED task

\* The next transaction of reorg_to_tip.
ContinueReorg ==
    /\ reorg.phase = "applying" /\ DOMAIN reorg.todo # {}
    /\ EndTxn(ConnectBlocks(Txn(archive, state), reorg), state, reorg)
    /\ UNCHANGED <<task, events>>

\* The assertion at the end, in the last transaction.
FinishReorg ==
    /\ reorg.phase = "applying" /\ DOMAIN reorg.todo = {}
    /\ reorg' = Idle
    /\ net_task' = IF state.tip = reorg.target THEN net_task ELSE "panicked"
    /\ UNCHANGED <<archive, task, state, events>>

\* The body that failed is deleted, in a transaction of its own.
DiscardBody ==
    /\ reorg.phase = "discarding"
    /\ LET b == reorg.target
       IN  IF delete_body_refused(archive, b)
           THEN Errs(reorg.source, "archive_error") /\ UNCHANGED archive
           ELSE /\ archive' = delete_body(archive, b, reorg.todo[b])
                /\ Errs(reorg.source, "state_error")
    /\ UNCHANGED <<task, state, events>>

\* Mutant: blocks are disconnected without their mainchain events.
Invalidate_keeps_events(b) ==
    /\ b \in Unwanted \cap archive.headers
    /\ archive' = invalidate_block(archive, b)
    /\ state' = [state EXCEPT !.tip = IF is_descendant(b, @) THEN prev_side_hash[b] ELSE @]
    /\ UNCHANGED <<task, reorg, events, net_task>>

\* Node::invalidate_block, from the RPC server.
Invalidate(b) ==
    /\ b \in Unwanted \cap archive.headers
    /\ LET r == IF is_descendant(b, state.tip)
                THEN DisconnectTo(Txn(archive, state), prev_side_hash[b])
                ELSE Txn(archive, state)
       IN  /\ r.status = "open"
           /\ archive' = invalidate_block(archive, b)
           /\ state' = r.state
    /\ UNCHANGED <<task, reorg, events, net_task>>

\* A block event of the mainchain task moves SideTips, and is passed on.
MoveMainchain ==
    /\ \/ \E m \in MainBlock : Sync(m) \/ ConnectBlock(m)
       \/ DisconnectBlock
       \/ StreamCloses
    /\ events' = (events \/ archive' # archive)
    /\ UNCHANGED <<state, reorg, net_task>>

\* A peer's body: stored unseen, by the net task between two reorgs.
ReceiveBody ==
    /\ Ready
    /\ \/ /\ \E b \in SideBlock : \E body \in Forged \cup {body_of[b]} : StoreBody(b, body)
          /\ UNCHANGED net_task
       \/ /\ \E b \in SideBlock : put_body_refused(archive, b)
          /\ net_task' = "archive_error"
          /\ UNCHANGED <<archive, task>>
    /\ UNCHANGED <<state, reorg, events>>

\* submit_block: the miner's block.  Its header is stored already here, so that
\* put_header changes nothing; the body is put if it is the only one missing up
\* to the tip.  (MainchainTask's SubmitHeader has the header, and that of a block
\* the operator invalidated and the miner submits again.)
SubmitBody(b) ==
    /\ b \notin DOMAIN archive.bodies
    /\ ancestors[b] \ (ancestors[state.tip] \cup {b}) \subseteq DOMAIN archive.bodies
    /\ StoreBody(b, body_of[b])
    /\ UNCHANGED nodeVars

NodeNext ==
    \/ MoveMainchain
    \/ ReceiveBody
    \/ \E t \in Tip : NewTipReady(t)
    \/ MainchainEvent
    \/ ContinueReorg
    \/ FinishReorg
    \/ DiscardBody
    \/ \E b \in SideBlock : SubmitBody(b) \/ Invalidate(b)

NodeSpec == NodeInit /\ [][NodeNext]_allVars

-----------------------------------------------------------------------------
(***************************************************************************)
(* What holds.                                                             *)
(***************************************************************************)
\* After any reorgs, complete or abandoned half way, the events that are
\* applied are those of the mainchain blocks before the tip's, and none else,
\* unless a block up to the tip came with events that disconnect_tip_ mixes up.
PegExact ==
    LET M == IF state.tip = None THEN {} ELSE main_ancestors[prev_main_hash[state.tip]]
    IN  Clean(state.tip) =>
            /\ state.deposits = With("deposit", M)
            /\ {e[1] : e \in state.bundles} = With("bundle", M)

\* The assertions of disconnect_tip_, disconnect and reorg_to_tip fail in two
\* ways and no other.  A block is disconnected that has a mixed block below it;
\* or the block a reorg went to was invalidated after the commit: the assertion
\* that it is the tip is in a later transaction.
Panics == net_task # "panicked" /\ net_task' = "panicked"
PanicsOnlyWhen ==
    [][Panics =>
          \/ state.tip # None /\ ~Clean(prev_side_hash[state.tip])
          \/ /\ reorg.phase = "applying" /\ DOMAIN reorg.todo = {}
             /\ ancestors[reorg.target] \cap archive.invalid_blocks # {}]_allVars

\* The loop of handle_mainchain_block_event, which would leave the events of a
\* block applied, never has anything to do: the tip is one of SideTips.
TipKnown == state.tip # None => HasTip(archive, state.tip)

\* Every tip a reorg commits is better than the tip before it, as long as no
\* block is invalidated.
NeverWorse ==
    [][state.tip # None /\ state'.tip # state.tip /\ archive'.invalid_blocks = {} =>
            /\ state'.tip # None
            /\ better_tip(TipOf(archive, state.tip), TipOf(archive', state'.tip))
                    = TipOf(archive', state'.tip)]_allVars

(***************************************************************************)
(* What comments and assertions say, and does not hold.                    *)
(***************************************************************************)
\* "a state error means a peer sent an invalid block; it must not be fatal"
StateErrorsNotFatal == net_task # "state_error"

\* invalid_blocks: "Invalidated blocks. They are not in `headers` or `bodies`."
InvalidStaysOut ==
    archive.invalid_blocks \cap (archive.headers \cup DOMAIN archive.bodies) = {}

\* "instead of the archive staying poisoned": a block that the node has
\* connected keeps the body it was connected with.
ConnectedBodies ==
    \A b \in ancestors[state.tip] :
        b \in DOMAIN archive.bodies => archive.bodies[b] = body_of[b]
=============================================================================
