------------------------------- MODULE PeerSync -------------------------------
(***************************************************************************)
(* How a node learns of the blocks of its peers: the connection task of a  *)
(* peer (lib/net/peer/task.rs), its request queue (request_queue.rs) and   *)
(* mailbox, and the net task that takes the answers (handle_response and   *)
(* run, lib/node/net_task.rs).                                             *)
(*                                                                         *)
(* The peers are honest nodes that move from tip to tip and answer, in any *)
(* order, or never.  A peer state is its tip: the hash that identifies it  *)
(* covers nothing else that changes.  Each channel is a queue; the stream  *)
(* of infos of a peer outlives its connection.  Blocks are valid here, and *)
(* reorg_to_tip is one step: NodeTip has its parts.                        *)
(***************************************************************************)
EXTENDS BetterTip, Sequences, SequencesExt, Functions

CONSTANTS
    Peer,
    course,            \* [Peer -> Seq(Tip)]: the tips the peer goes through, from none
    MAX_BLOCK_REQUESTS,
    Unwanted,          \* the blocks the operator may invalidate
    FirstMain,         \* the mainchain tip the node has synced to at first
    FirstTip,          \* and the block it has synced to, or None
    MaxFaults          \* bound on answers lost, connections made again, and blocks invalidated

ASSUME PeerSyncAssumption ==
    /\ course \in [Peer -> Seq(Tip)]
    /\ MAX_BLOCK_REQUESTS \in Nat \ {0}
    /\ Unwanted \subseteq SideBlock
    /\ FirstMain \in MainBlock
    /\ FirstTip \in SideBlock \cup {None}
    /\ MaxFaults \in Nat

\* The chains as constant tables: ancestors, heights and work of Blocks.
Line == [b \in SideBlock \cup {None} |-> ancestors[b]]
MainLine == [m \in MainBlock \cup {ZeroHash} |-> main_ancestors[m]]
Level == [b \in SideBlock |-> height[b]]
TotalWork == [m \in MainBlock |-> total_work[m]]
LastCommon == [b, c \in SideBlock |-> last_common_ancestor(b, c)]

VARIABLES
    headers, bodies, invalid_blocks,   \* the archive: sets of blocks
    main,           \* the mainchain blocks the archive has
    mainchain_tip, sidechain_tips,     \* SideTips: its mainchain tip and the blocks it lists
    tip,            \* the block the state is at, or None
    remote,         \* [Peer -> how far along its course the peer is]
    conn,           \* [Peer -> the connection task]
    infos,          \* [Peer -> what its connections told the net task]
    ready,          \* new_tip_ready: <<tip, peer>>
    descendant_tips,                   \* <<missing block, tip, peer>>
    mainchain_task_request_sources,    \* <<mainchain block, peer, tip>>
    events,         \* has the mainchain moved since the net task last looked?
    net_task,       \* "running", or what ended it
    faults

archiveVars == <<headers, bodies, invalid_blocks>>
mainVars == <<main, mainchain_tip, sidechain_tips, events>>
queueVars == <<ready, descendant_tips, mainchain_task_request_sources>>
vars == <<archiveVars, mainVars, tip, remote, conn, infos, queueVars, net_task, faults>>

\* active: in the table of active peers; alive: its task runs; requests: all
\* that were sent, the code keeps their hashes.  For the properties only,
\* refused: has the peer answered that it has not got what it was asked for?
\* repeated: the tips of which a request was dropped for that of another tip.
Down == [active |-> FALSE, alive |-> FALSE, peer_states |-> {}, peer_state |-> NoTip, tasks |-> <<>>,
         requests |-> {}, flying |-> {}, mailbox |-> <<>>, refused |-> FALSE, repeated |-> {}]
Fresh == [Down EXCEPT !.active = TRUE, !.alive = TRUE]
Ended == [Down EXCEPT !.active = TRUE]

Init ==
    /\ headers = Line[FirstTip] /\ bodies = headers /\ invalid_blocks = {}
    /\ main = MainLine[FirstMain] /\ mainchain_tip = FirstMain /\ events = FALSE
    /\ sidechain_tips = Line[FirstTip]
    /\ tip = FirstTip
    /\ remote = [p \in Peer |-> 0]
    /\ conn = [p \in Peer |-> Fresh]
    /\ infos = [p \in Peer |-> <<>>]
    /\ ready = <<>> /\ descendant_tips = {} /\ mainchain_task_request_sources = {}
    /\ net_task = "running"
    /\ faults = 0

-----------------------------------------------------------------------------
(***************************************************************************)
(* The archive, as the reads of these handlers see it.  The result of a    *)
(* commitment is what MainchainTask checks (BmmExact).                     *)
(***************************************************************************)
Verified ==
    LET verified[b \in SideBlock] ==
            {m \in MainBlock :
                /\ bmm_commitment[m] = b /\ prev_block_hash[m] = prev_main_hash[b]
                /\ \/ prev_side_hash[b] = None
                   \/ MainLine[m] \cap verified[prev_side_hash[b]] # {}}
    IN  [b \in SideBlock |-> verified[b]]

TipAt(b, m) == [block_hash |-> b, main_block_hash |-> m]

\* get_best_main_verification: the verified commitment of most work.
BestTip(b, M) ==
    IF b = None THEN NoTip
    ELSE TipAt(b, CHOOSE m \in Verified[b] \cap M :
                    \A n \in Verified[b] \cap M : TotalWork[n] <= TotalWork[m])
NodeTip == BestTip(tip, main)

\* Has the block a verified commitment on the active mainchain?
Committed(b) == Verified[b] \cap MainLine[mainchain_tip] # {}

ParentListed(b) == prev_side_hash[b] # None => prev_side_hash[b] \in sidechain_tips

\* The tips that put_body of b connects: b and the descendants that only
\* waited for it.  Nothing takes a tip off the list: invalidate_block leaves
\* SideTips as they are.
NewTips(B, b) ==
    IF ~ParentListed(b) THEN {}
    ELSE {d \in headers : b \in Line[d] /\ \A e \in Line[d] :
            b \in Line[e] => e \in headers \cap B /\ Committed(e)}

\* get_block_locator: the parent, and ancestors at distances that double.
get_block_locator(b) ==
    {a \in Line[b] : \E k \in 0..Level[b] : Level[b] - Level[a] = 2^k}

Common(t, y) == IF t = None THEN None ELSE LastCommon[t, y.block_hash]
Above(b, a) == IF a = None THEN Line[b] ELSE {e \in Line[b] : Level[e] > Level[a]}
missing_bodies(B, b, a) == Above(b, a) \ B
Highest(S) == CHOOSE b \in S : \A c \in S : Level[c] <= Level[b]
Lowest(S) == CHOOSE b \in S : \A c \in S : Level[b] <= Level[c]

-----------------------------------------------------------------------------
\* The peer's tip must be on the mainchain that the node has synced to.
Ignored(y) == y.main_block_hash \notin MainLine[mainchain_tip]

\* Its comparisons of two tips, as constant tables.
BetterPairs == {p \in Tip \X Tip : PeerTipIsBetter(p[1], p[2])}
HeadersFirstPairs == {p \in Tip \X Tip : HeadersFirst(p[1], p[2])}

\* check_peer_tip_and_request_headers: "no", "headers" (to be requested) or "better", for the node's tip x.
check_peer_tip(x, y) ==
    LET better == x = NoTip \/ <<x, y>> \in BetterPairs
        wanted == better \/ <<x, y>> \in HeadersFirstPairs
    IN  CASE Ignored(y) \/ ~wanted -> "no"
          [] ~Ignored(y) /\ wanted /\ y.block_hash \notin headers -> "headers"
          [] ~Ignored(y) /\ wanted /\ y.block_hash \in headers ->
                IF better THEN "better" ELSE "no"

-----------------------------------------------------------------------------
(***************************************************************************)
(* The connection task.                                                    *)
(***************************************************************************)
GetHeaders(start, end, y) == [kind |-> "headers", start |-> start, end |-> end, state |-> y]
GetBlock(b, y, ancestor) == [kind |-> "block", block |-> b, state |-> y, ancestor |-> ancestor]

\* Mutant: the hash of a request covers the tip it is for, and no more.
request_hash_of_state(r) == [state |-> r.state]

\* The hash of a request leaves out what only the requester needs.
request_hash(r) ==
    IF r.kind = "headers" THEN [start |-> r.start, end |-> r.end] ELSE [block |-> r.block]

\* send_request, of several requests with different hashes: a repeated one is
\* dropped.
send_requests(c, R) ==
    LET before(r) == {q \in c.requests : request_hash(q) = request_hash(r)}
        new == {r \in R : before(r) = {}}
        others == {r \in R : \E q \in before(r) : q.state # r.state}
    IN  [c EXCEPT !.requests = @ \cup new, !.flying = @ \cup new,
                  !.repeated = @ \cup {r.state : r \in others}]

\* The task ends with an error, and its stream of infos closes.
Ends(p) ==
    /\ conn' = [conn EXCEPT ![p] = Ended]
    /\ infos' = [infos EXCEPT ![p] = @ \o <<[kind |-> "error"], [kind |-> "closed"]>>]

\* A heartbeat with the peer's tip; only a change is looked at.
Heartbeat(p) ==
    LET y == course[p][remote[p]]
        c == conn[p]
    IN  /\ remote[p] > 0 /\ c.alive /\ c.peer_state # y
        /\ conn' = [conn EXCEPT ![p] = [c EXCEPT !.peer_states = @ \cup {y},
                                                !.peer_state = y,
                                                !.tasks = Append(@, y)]]
        /\ UNCHANGED <<archiveVars, mainVars, tip, remote, infos, queueVars, net_task, faults>>

\* The oldest bodies that are missing, at most MAX_BLOCK_REQUESTS.
BodyRequests(y) ==
    LET missing == missing_bodies(bodies, y.block_hash, Common(tip, y))
        below(b) == {d \in missing : Level[d] < Level[b]}
        first == {b \in missing : Cardinality(below(b)) < MAX_BLOCK_REQUESTS}
    IN  {GetBlock(b, y, Common(tip, y)) : b \in first}
NoneMissing(y) == missing_bodies(bodies, y.block_hash, Common(tip, y)) = {}

Tell(p, info) == infos' = [infos EXCEPT ![p] = Append(@, info)]

\* handle_peer_state, on the queue of blocking tasks; its read transactions
\* are one step here.
HandlePeerState(p) ==
    /\ conn[p].tasks # <<>>
    /\ \E y \in {Head(conn[p].tasks)}, x \in {NodeTip} :
       \E c \in {[conn[p] EXCEPT !.tasks = Tail(@)]} :
       \E verdict \in {IF y.main_block_hash \in main THEN check_peer_tip(x, y) ELSE "need"} :
       LET start == IF x = NoTip THEN {} ELSE get_block_locator(x.block_hash)
       IN  \/ /\ verdict = "need"
              /\ conn' = [conn EXCEPT ![p] = c]
              /\ Tell(p, [kind |-> "need", state |-> y])
           \/ /\ verdict = "no"
              /\ conn' = [conn EXCEPT ![p] = c] /\ UNCHANGED infos
           \/ /\ verdict = "headers"
              /\ conn' = [conn EXCEPT ![p] = send_requests(c, {GetHeaders(start, y.block_hash, y)})]
              /\ UNCHANGED infos
           \/ /\ verdict = "better"
              /\ IF y.main_block_hash \notin Verified[y.block_hash] THEN Ends(p)
                 ELSE IF NoneMissing(y)
                 THEN conn' = [conn EXCEPT ![p] = c] /\ Tell(p, [kind |-> "ready", tip |-> y])
                 ELSE conn' = [conn EXCEPT ![p] = send_requests(c, BodyRequests(y))] /\ UNCHANGED infos
    /\ UNCHANGED <<archiveVars, mainVars, tip, remote, queueVars, net_task, faults>>

\* handle_internal_message: what the net task says is there to be looked at.
HandleInternalMessage(p) ==
    /\ conn[p].mailbox # <<>>
    /\ LET y == Head(conn[p].mailbox)
           c == [conn[p] EXCEPT !.mailbox = Tail(@)]
       IN  IF y \in c.peer_states
           THEN conn' = [conn EXCEPT ![p] = [c EXCEPT !.tasks = Append(@, y)]] /\ UNCHANGED infos
           ELSE Ends(p)
    /\ UNCHANGED <<archiveVars, mainVars, tip, remote, queueVars, net_task, faults>>

-----------------------------------------------------------------------------
(***************************************************************************)
(* The peer: handle_get_headers and handle_get_block of its own node.      *)
(***************************************************************************)
\* Mutant: the headers that follow the last of the start blocks only.
HeadersAfter_parentless(start, end) == {end}

\* The ancestors of end down to the first that is in start, without it.
HeadersAfter(start, end) ==
    {b \in Line[end] : Line[end] \cap start \cap Above(end, b) = {} /\ b \notin start}

\* A peer has the ancestors of the tips that it has had.
Answer(p, r) ==
    /\ r \in conn[p].flying
    /\ conn' = [conn EXCEPT ![p].flying = @ \ {r}]
    /\ Tell(p, [kind |-> "response", req |-> r])
    /\ UNCHANGED <<archiveVars, mainVars, tip, remote, queueVars, net_task, faults>>

\* Unless its operator has invalidated one: NoBlock or NoHeader.
Refuse(p, r) ==
    /\ faults < MaxFaults /\ faults' = faults + 1
    /\ r \in conn[p].flying
    /\ conn' = [conn EXCEPT ![p].flying = @ \ {r}, ![p].refused = TRUE]
    /\ Tell(p, [kind |-> "nothing"])
    /\ UNCHANGED <<archiveVars, mainVars, tip, remote, queueVars, net_task>>

PeerMoves(p) ==
    /\ remote[p] < Len(course[p])
    /\ remote' = [remote EXCEPT ![p] = @ + 1]
    /\ UNCHANGED <<archiveVars, mainVars, tip, conn, infos, queueVars, net_task, faults>>

\* A request that gets no answer in time: an error for the net task, while
\* the connection task goes on.
ResponseTimesOut(p, r) ==
    /\ faults < MaxFaults /\ faults' = faults + 1
    /\ r \in conn[p].flying
    /\ conn' = [conn EXCEPT ![p].flying = @ \ {r}]
    /\ Tell(p, [kind |-> "error"])
    /\ UNCHANGED <<archiveVars, mainVars, tip, remote, queueVars, net_task>>

\* No heartbeat, or any other error that ends the task.
ConnectionFails(p) ==
    /\ conn[p].alive
    /\ Ends(p)
    /\ UNCHANGED <<archiveVars, mainVars, tip, remote, queueVars, net_task, faults>>

\* The node dials the peer again, or the peer the node.
Reconnect(p) ==
    /\ faults < MaxFaults /\ faults' = faults + 1
    /\ ~conn[p].active
    /\ conn' = [conn EXCEPT ![p] = Fresh]
    /\ UNCHANGED <<archiveVars, mainVars, tip, remote, infos, queueVars, net_task>>

-----------------------------------------------------------------------------
(***************************************************************************)
(* The net task.  Its steps take the head of a peer's infos.               *)
(***************************************************************************)
\* remove_active_peer aborts the task, and the stream of infos closes.
remove_active_peer(p, rest) ==
    /\ conn' = [conn EXCEPT ![p] = Down]
    /\ infos' = [infos EXCEPT ![p] =
                    IF conn[p].alive THEN Append(rest, [kind |-> "closed"]) ELSE rest]

\* push_internal_message: nothing when there is no connection.
push_internal_message(c, y) == IF c.alive THEN [c EXCEPT !.mailbox = Append(@, y)] ELSE c

\* The ? of an error in run, or a panic: the net task is gone.
Fails(how) ==
    /\ net_task' = how
    /\ UNCHANGED <<archiveVars, tip, conn, infos, queueVars>>

\* The same after put_body, and the message to the peer, in handle_response.
FailsAfterBody(how, B, c) ==
    /\ net_task' = how
    /\ bodies' = B /\ conn' = c
    /\ UNCHANGED <<headers, invalid_blocks, tip, infos, queueVars>>

\* The connection failed or was closed.
HandleClosed(p) ==
    /\ net_task = "running" /\ infos[p] # <<>>
    /\ Head(infos[p]).kind \in {"error", "closed"}
    /\ remove_active_peer(p, Tail(infos[p]))
    /\ UNCHANGED <<archiveVars, mainVars, tip, remote, queueVars, net_task, faults>>

\* NoBlock and NoHeader.
HandleNothing(p) ==
    /\ net_task = "running" /\ infos[p] # <<>> /\ Head(infos[p]).kind = "nothing"
    /\ infos' = [infos EXCEPT ![p] = Tail(@)]
    /\ UNCHANGED <<archiveVars, mainVars, tip, remote, conn, queueVars, net_task, faults>>

\* NewTipReady: on to the queue of new tips.
HandleReady(p) ==
    /\ net_task = "running" /\ infos[p] # <<>> /\ Head(infos[p]).kind = "ready"
    /\ infos' = [infos EXCEPT ![p] = Tail(@)]
    /\ ready' = Append(ready, <<Head(infos[p]).tip, p>>)
    /\ UNCHANGED <<archiveVars, mainVars, tip, remote, conn, descendant_tips,
                   mainchain_task_request_sources, net_task, faults>>

\* NeedMainchainAncestors, and the request to the mainchain task.
HandleNeed(p) ==
    /\ net_task = "running" /\ infos[p] # <<>> /\ Head(infos[p]).kind = "need"
    /\ infos' = [infos EXCEPT ![p] = Tail(@)]
    /\ LET y == Head(infos[p]).state
       IN  mainchain_task_request_sources' =
               mainchain_task_request_sources \cup {<<y.main_block_hash, p, y>>}
    /\ UNCHANGED <<archiveVars, mainVars, tip, remote, conn, ready, descendant_tips, net_task,
                   faults>>

\* handle_mainchain_task_response: the ancestors are there, or not to be had.
MainchainAncestors(m, available) ==
    LET S == {s \in mainchain_task_request_sources : s[1] = m}
        messages(p) == SetToSeq({s[3] : s \in {t \in S : t[2] = p}})
    IN  /\ net_task = "running" /\ S # {}
        /\ mainchain_task_request_sources' = mainchain_task_request_sources \ S
        /\ main' = IF available THEN main \cup MainLine[m] ELSE main
        /\ conn' = IF available
                   THEN [p \in Peer |-> FoldLeft(push_internal_message, conn[p], messages(p))]
                   ELSE conn
        /\ UNCHANGED <<archiveVars, mainchain_tip, sidechain_tips, events, tip, remote, infos,
                       ready, descendant_tips, net_task, faults>>

\* handle_response: Headers.
HandleHeaders(p) ==
    /\ net_task = "running" /\ infos[p] # <<>>
    /\ Head(infos[p]).kind = "response" /\ Head(infos[p]).req.kind = "headers"
    /\ LET r == Head(infos[p]).req
           H == HeadersAfter(r.start, r.end)
           start == prev_side_hash[Lowest(H)]
       IN  CASE start # None /\ start \notin headers -> Fails("archive_error")
             [] ~(start # None /\ start \notin headers) /\ H \cap invalid_blocks # {} ->
                    /\ remove_active_peer(p, Tail(infos[p]))
                    /\ UNCHANGED <<archiveVars, tip, queueVars, net_task>>
             [] ~(start # None /\ start \notin headers) /\ H \cap invalid_blocks = {} ->
                    /\ headers' = headers \cup H
                    /\ conn' = [conn EXCEPT ![p] = push_internal_message(@, r.state)]
                    /\ infos' = [infos EXCEPT ![p] = Tail(@)]
                    /\ UNCHANGED <<bodies, invalid_blocks, tip, queueVars, net_task>>
    /\ UNCHANGED <<mainVars, remote, faults>>

\* The waiting tips W of a block, moved to their next missing body.
NextMissing(B, y) == missing_bodies(B, y.block_hash, Common(tip, y))
StillWaiting(B, W) ==
    {<<Lowest(NextMissing(B, w[2])), w[2], w[3]>> : w \in {v \in W : NextMissing(B, v[2]) # {}}}

\* The tip that a waiting tip y makes ready: y, or the parent of its next
\* missing body; NoTip when there is none or when it is no better.
NextTip(B, y) ==
    LET z == IF NextMissing(B, y) = {} THEN y
             ELSE BestTip(prev_side_hash[Lowest(NextMissing(B, y))], main)
    IN  IF z = NoTip \/ (NodeTip # NoTip /\ ~Improves(NodeTip, z)) THEN NoTip ELSE z

\* handle_response: Block.
HandleBlock(p) ==
    /\ net_task = "running" /\ infos[p] # <<>>
    /\ Head(infos[p]).kind = "response" /\ Head(infos[p]).req.kind = "block"
    /\ LET r == Head(infos[p]).req
           b == r.block
           B == bodies \cup {b}
           gaps == missing_bodies(B, b, r.ancestor)
           mains == {m \in Verified[b] \cap main : m \in MainLine[r.state.main_block_hash]}
           added == descendant_tips \cup
                        (IF gaps = {} THEN {} ELSE {<<Lowest(gaps), r.state, p>>})
           W == {w \in added : w[1] = b}
           gone == {w \in W : w[2].block_hash \notin headers}
           told == IF gaps = {} THEN [conn EXCEPT ![p] = push_internal_message(@, r.state)]
                   ELSE conn
           onTip == IF prev_side_hash[b] = tip
                    THEN <<<<TipAt(b, CHOOSE m \in mains : TRUE), p>>>> ELSE <<>>
           next == {<<NextTip(B, w[2]), w[3]>> : w \in W} \ ({NoTip} \X Peer)
       IN  \/ /\ b \notin headers
              /\ Fails("archive_error") /\ UNCHANGED sidechain_tips
           \/ /\ b \in headers
              /\ sidechain_tips' = sidechain_tips \cup NewTips(B, b)
              /\ CASE mains = {} -> FailsAfterBody("panicked", B, told)
                   [] mains # {} /\ gone # {} -> FailsAfterBody("archive_error", B, told)
                   [] mains # {} /\ gone = {} ->
                        /\ bodies' = B
                        /\ conn' = told
                        /\ infos' = [infos EXCEPT ![p] = Tail(@)]
                        /\ descendant_tips' = (added \ W) \cup StillWaiting(B, W)
                        /\ \E order \in SetToSeqs(next) : ready' = ready \o onTip \o order
                        /\ UNCHANGED <<headers, invalid_blocks, tip,
                                       mainchain_task_request_sources, net_task>>
    /\ UNCHANGED <<main, mainchain_tip, events, remote, faults>>

-----------------------------------------------------------------------------
\* Mutant: a tip that is ready is gone to, as it was better when it was asked for.
ReorgsTo_any(x, y) == x # y

\* reorg_to_tip: is y better than x, the tip of the node?
ReorgsTo(x, y) == x = NoTip \/ Improves(x, y)

\* reorg_to_tip(y), with the state at t.  An archive error, for want of the
\* height, the header or a body of the new tip, is fatal to the net task.
reorg_to_tip(t, y) ==
    LET better == ReorgsTo(BestTip(t, main), y)
    IN  IF \/ y.block_hash \notin headers
           \/ better /\ missing_bodies(bodies, y.block_hash, Common(t, y)) # {}
        THEN tip' = t /\ net_task' = "archive_error"
        ELSE tip' = (IF better THEN y.block_hash ELSE t) /\ UNCHANGED net_task

\* NewTipReady: nothing when the tip is not one of SideTips by now.
NewTipReady ==
    /\ net_task = "running" /\ ready # <<>>
    /\ ready' = Tail(ready)
    /\ LET y == Head(ready)[1]
           listed == /\ y.block_hash \in sidechain_tips
                     /\ y.main_block_hash \in MainLine[mainchain_tip]
       IN  IF listed THEN reorg_to_tip(tip, y) ELSE UNCHANGED <<tip, net_task>>
    /\ UNCHANGED <<archiveVars, mainVars, remote, conn, infos, descendant_tips,
                   mainchain_task_request_sources, faults>>

\* The mainchain task follows the mainchain.  SideTips take the block that m
\* commits to, if it has its body and its parent is listed.
MainchainAdvances(m) ==
    LET b == bmm_commitment[m]
    IN  /\ prev_block_hash[m] = mainchain_tip
        /\ mainchain_tip' = m /\ main' = main \cup {m} /\ events' = TRUE
        /\ sidechain_tips' =
               IF b \in bodies /\ m \in Verified[b] /\ ParentListed(b)
               THEN sidechain_tips \cup {b} ELSE sidechain_tips
        /\ UNCHANGED <<archiveVars, tip, remote, conn, infos, queueVars, net_task, faults>>

\* best_side_tip: the greatest height, and then work.
NotAbove == {p \in Tip \X Tip : hgt(p[1]) < hgt(p[2])
                               \/ (hgt(p[1]) = hgt(p[2]) /\ wrk(p[1]) <= wrk(p[2]))}
BestSideTips ==
    LET T == {y \in Tip : /\ y.block_hash \in sidechain_tips
                          /\ y.main_block_hash \in Verified[y.block_hash]
                          /\ y.main_block_hash \in MainLine[mainchain_tip]}
    IN  {y \in T : \A z \in T : <<z, y>> \in NotAbove}

\* handle_mainchain_block_event: back to a block that SideTips list, and on to
\* the best of them.
MainchainEvent ==
    LET listed == Line[tip] \cap sidechain_tips
        t == IF listed = {} THEN None ELSE Highest(listed)
    IN  /\ net_task = "running" /\ events
        /\ events' = FALSE
        /\ IF BestSideTips = {} THEN tip' = t /\ UNCHANGED net_task
           ELSE \E y \in BestSideTips : reorg_to_tip(t, y)
        /\ UNCHANGED <<archiveVars, main, mainchain_tip, sidechain_tips, remote, conn, infos,
                       queueVars, faults>>

\* The operator invalidates a block and its descendants.
InvalidateBlock(b) ==
    LET D == {d \in headers : b \in Line[d]}
    IN  /\ b \in Unwanted \cap headers
        /\ headers' = headers \ D /\ bodies' = bodies \ D
        /\ invalid_blocks' = invalid_blocks \cup D
        /\ faults < MaxFaults /\ faults' = faults + 1
        /\ tip' = IF tip \in D THEN prev_side_hash[b] ELSE tip
        /\ UNCHANGED <<mainVars, remote, conn, infos, queueVars, net_task>>

-----------------------------------------------------------------------------
\* The steps of the node's own tasks, and of the peer when it answers.
Works(p) ==
    \/ Heartbeat(p) \/ HandleInternalMessage(p)
    \/ HandleClosed(p) \/ HandleNothing(p) \/ HandleReady(p) \/ HandleNeed(p)
    \/ HandlePeerState(p) \/ HandleHeaders(p) \/ HandleBlock(p)

Next ==
    \/ \E p \in Peer :
        \/ Works(p) \/ PeerMoves(p) \/ ConnectionFails(p) \/ Reconnect(p)
        \/ \E r \in conn[p].flying : Answer(p, r) \/ Refuse(p, r) \/ ResponseTimesOut(p, r)
    \/ NewTipReady \/ MainchainEvent
    \/ \E m \in MainBlock :
        MainchainAdvances(m) \/ \E available \in BOOLEAN : MainchainAncestors(m, available)
    \/ \E b \in SideBlock : InvalidateBlock(b)

(***************************************************************************)
(* Tokio runs tasks that have something to do, and a peer answers: as long *)
(* as one of them can make a step, some step of theirs is made.            *)
(***************************************************************************)
Progress ==
    \/ \E p \in Peer : (\E r \in conn[p].flying : Answer(p, r)) \/ Works(p)
    \/ NewTipReady \/ MainchainEvent

Spec == Init /\ [][Next]_vars /\ WF_vars(Progress)

-----------------------------------------------------------------------------
\* The net task survives every order of answers, lost connections and late
\* messages.  It can only end once the operator has invalidated a block: when
\* headers or a body that build on it arrive, or when a tip that SideTips still
\* list, or that waits for a body, is tried.
NetTaskRuns == net_task # "running" => net_task = "archive_error" /\ invalid_blocks # {}

\* The node is at y, or at a tip that y does not better.
NoWorse(y) == NodeTip # NoTip /\ ~Improves(NodeTip, y)

\* A tip that a peer offers, and that is on the mainchain the node has synced
\* to when the offer is looked at, is reached: whatever is asked for, answered
\* and stored in between.  Unless the connection is lost, the peer has not got
\* a block, the operator steps in, or a request for the tip was dropped because
\* another tip of the peer had made it before: its answer wakes only the other
\* tip, and the first may never be looked at again.
Offered(p, y) == conn[p].alive /\ conn[p].tasks # <<>> /\ Head(conn[p].tasks) = y /\ ~Ignored(y)
Synced ==
    \A p \in Peer : \A y \in Range(course[p]) :
        Offered(p, y) ~> \/ NoWorse(y) \/ ~conn[p].alive \/ conn[p].refused
                         \/ invalid_blocks # {} \/ y \in conn[p].repeated

\* The download implements TipOffers: whatever is under way, the node only
\* moves to better and valid tips that a peer has had, or back when it is
\* told to.
OfferedBlocks == UNION {{course[p][i].block_hash : i \in 1..remote[p]} : p \in Peer}
Abstract == INSTANCE TipOffers WITH offered <- OfferedBlocks, invalid <- invalid_blocks, at <- NodeTip
ImplementsTipOffers == Abstract!Spec
=============================================================================
