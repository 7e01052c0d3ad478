------------------------------- MODULE Archive --------------------------------
(***************************************************************************)
(* lib/archive: the blocks of both chains that the node knows, the results *)
(* of checking the commitments (BMM) of the mainchain to sidechain blocks, *)
(* and SideTips, the sidechain tips as of the mainchain tip, which the     *)
(* mainchain task (lib/node/mainchain_task.rs) moves.                      *)
(*                                                                         *)
(* The databases are one record, and an operation is an operator from      *)
(* record to record, with a predicate Op_refused for its error, so that    *)
(* the callers that do several of them in one LMDB write transaction       *)
(* (NodeTip) can compose them; an error drops the transaction.  A body is  *)
(* the set of its transactions; it is valid when it is the one the header  *)
(* commits to.                                                             *)
(***************************************************************************)
EXTENDS BetterTip

CONSTANTS
    Txid,
    body_of,   \* [SideBlock -> SUBSET Txid], the body with the merkle root of the header
    Forged     \* other bodies that a peer may send

ASSUME BodiesAssumption ==
    body_of \in [SideBlock -> SUBSET Txid] /\ Forged \subseteq SUBSET Txid

SidechainTipInfo == [height : Nat, work : Nat, main_block_hash : MainBlock]
BmmResult == {"Verified", "Failed", "absent"}

\* A database after puts, one or those of g, or deletes.
Put(f, k, v) == [x \in DOMAIN f \cup {k} |-> IF x = k THEN v ELSE f[x]]
PutAll(f, g) == [x \in DOMAIN f \cup DOMAIN g |-> IF x \in DOMAIN g THEN g[x] ELSE f[x]]
Delete(f, K) == [x \in DOMAIN f \ K |-> f[x]]

IsArchive(a) ==
    /\ a.headers \subseteq SideBlock      \* headers, their heights and successors
    /\ DOMAIN a.bodies \subseteq SideBlock
    /\ \A b \in DOMAIN a.bodies : a.bodies[b] \subseteq Txid
    /\ a.txid_to_inclusions \subseteq Txid \X SideBlock
    /\ a.invalid_blocks \subseteq SideBlock
    /\ a.main \subseteq MainBlock         \* main_header_infos and main_block_infos
    /\ a.bmm_results \in [SideBlock -> [MainBlock -> BmmResult]]
    /\ a.mainchain_tip \in MainBlock \cup {ZeroHash}
    /\ DOMAIN a.sidechain_tips \subseteq SideBlock
    /\ \A b \in DOMAIN a.sidechain_tips : a.sidechain_tips[b] \in SidechainTipInfo
    /\ DOMAIN a.ordered_sidechain_tips \subseteq SidechainTipInfo
    /\ \A i \in DOMAIN a.ordered_sidechain_tips : a.ordered_sidechain_tips[i] \in SideBlock

EmptyArchive ==
    [headers |-> {}, bodies |-> [b \in {} |-> {}], txid_to_inclusions |-> {},
     invalid_blocks |-> {}, main |-> {},
     bmm_results |-> [b \in SideBlock |-> [m \in MainBlock |-> "absent"]],
     mainchain_tip |-> ZeroHash, sidechain_tips |-> [b \in {} |-> {}],
     ordered_sidechain_tips |-> [i \in {} |-> {}]]

-----------------------------------------------------------------------------
(***************************************************************************)
(* SideTips.                                                               *)
(***************************************************************************)
HasTip(a, b) == b \in DOMAIN a.sidechain_tips
ParentHasTip(a, b) == prev_side_hash[b] # None => HasTip(a, prev_side_hash[b])

connect_sidechain_tip(a, m, b) ==
    LET info == [height |-> IF prev_side_hash[b] = None THEN 0
                            ELSE a.sidechain_tips[prev_side_hash[b]].height + 1,
                 work |-> total_work[m], main_block_hash |-> m]
    IN  IF HasTip(a, b) THEN a
        ELSE [a EXCEPT !.sidechain_tips = Put(@, b, info),
                       !.ordered_sidechain_tips = Put(@, info, b)]

\* disconnect_sidechain_tip for every block of B.
disconnect_sidechain_tips(a, B) ==
    [a EXCEPT !.sidechain_tips = Delete(@, B),
              !.ordered_sidechain_tips = Delete(@, {a.sidechain_tips[b] : b \in B})]

\* The commitment of m that connect_mainchain_tip is given: only of a block
\* with body, whose parent is a tip, and whose BMM is verified.
ConnectedCommitment(a, m) ==
    LET b == bmm_commitment[m]
    IN  IF /\ b \in DOMAIN a.bodies
           /\ ParentHasTip(a, b)
           /\ a.bmm_results[b][m] = "Verified"
        THEN b ELSE None

\* get_bmm_result and get_header fail when there is no such entry.
connect_mainchain_tip_refused(a, m) ==
    LET b == bmm_commitment[m]
    IN  \/ prev_block_hash[m] # a.mainchain_tip
        \/ /\ b \in DOMAIN a.bodies
           /\ b \notin a.headers \/ (ParentHasTip(a, b) /\ a.bmm_results[b][m] = "absent")

connect_mainchain_tip(a, m) ==
    LET b == ConnectedCommitment(a, m)
        c == IF b = None THEN a ELSE connect_sidechain_tip(a, m, b)
    IN  [c EXCEPT !.mainchain_tip = m]

\* disconnect_mainchain_tip for every block of M.  It is given the commitment
\* of the block, whether or not it was connected.
disconnect_mainchain_tips_refused(a, M) ==
    \E m \in M :
        LET b == bmm_commitment[m]
        IN  /\ b # None
            /\ \/ ~HasTip(a, b)
               \/ /\ a.sidechain_tips[b].main_block_hash = m
                  /\ a.sidechain_tips[b] \notin DOMAIN a.ordered_sidechain_tips
disconnect_mainchain_tip_refused(a) == disconnect_mainchain_tips_refused(a, {a.mainchain_tip})

\* Only the order forgets a tip, and only one that came with a block of M.
disconnect_mainchain_tips(a, M, tip) ==
    LET left == {b \in DOMAIN a.sidechain_tips :
                    LET m == a.sidechain_tips[b].main_block_hash
                    IN  m \in M /\ bmm_commitment[m] = b}
    IN  [a EXCEPT !.mainchain_tip = tip,
                  !.ordered_sidechain_tips = Delete(@, {a.sidechain_tips[b] : b \in left})]

\* Mutant: the block is no tip any more.
disconnect_mainchain_tip_forgets(a) ==
    LET b == bmm_commitment[a.mainchain_tip]
    IN  [disconnect_sidechain_tips(a, {b} \ {None}) EXCEPT !.mainchain_tip = prev_block_hash[@]]

\* Mutant: the tip of the disconnected block stays in the order.
disconnect_mainchain_tip_keeps_order(a) ==
    [a EXCEPT !.mainchain_tip = prev_block_hash[@]]

disconnect_mainchain_tip(a) ==
    disconnect_mainchain_tips(a, {a.mainchain_tip}, prev_block_hash[a.mainchain_tip])

\* best_side_tip: the last key, by height and then work; NoTip when empty.
LastOf(I) == CHOOSE i \in I : \A j \in I :
                j.height < i.height \/ (j.height = i.height /\ j.work <= i.work)
best_side_tip(a) ==
    LET I == DOMAIN a.ordered_sidechain_tips
    IN  IF I = {} THEN NoTip
        ELSE [block_hash |-> a.ordered_sidechain_tips[LastOf(I)],
              main_block_hash |-> LastOf(I).main_block_hash]
-----------------------------------------------------------------------------
(***************************************************************************)
(* Headers, bodies and mainchain infos.                                    *)
(***************************************************************************)
\* Is there a valid commitment to the parent of b in the ancestry of m?
ParentVerified(a, b, m) ==
    prev_side_hash[b] # None =>
        \E n \in main_ancestors[m] : a.bmm_results[prev_side_hash[b]][n] = "Verified"

\* Mutant: a commitment is valid whether or not the parent has one.
bmm_result_ignores_parent(a, b, m) ==
    IF bmm_commitment[m] = b THEN "Verified" ELSE "Failed"

bmm_result(a, b, m) ==
    IF /\ bmm_commitment[m] = b
       /\ prev_main_hash[b] = prev_block_hash[m]
       /\ ParentVerified(a, b, m)
    THEN "Verified" ELSE "Failed"

\* put_header needs the parent's height and the successors of prev_main_hash.
put_header_refused(a, b) ==
    \/ prev_side_hash[b] # None /\ prev_side_hash[b] \notin a.headers
    \/ prev_main_hash[b] \notin a.main

\* The results are filled in for every known child of prev_main_hash.
put_header(a, b) ==
    [a EXCEPT !.headers = @ \cup {b},
              !.bmm_results[b] = [m \in MainBlock |->
                  IF m \in a.main /\ prev_block_hash[m] = prev_main_hash[b]
                  THEN bmm_result(a, b, m) ELSE @[m]]]

put_main_info(a, m) ==
    LET b == bmm_commitment[m]
    IN  [a EXCEPT !.main = @ \cup {m},
                  !.bmm_results = IF b \in a.headers
                                  THEN [@ EXCEPT ![b][m] = bmm_result(a, b, m)] ELSE @]

\* request_ancestor_infos: the unknown ancestors of m, oldest first.
put_main_infos(a, m) ==
    LET upTo[n \in MainBlock \cup {ZeroHash}] ==
            IF n \in a.main \cup {ZeroHash} THEN a
            ELSE put_main_info(upTo[prev_block_hash[n]], n)
    IN  upTo[m]

\* A verified commitment to b on the active mainchain.
ActiveCommitment(a, b) ==
    {m \in main_ancestors[a.mainchain_tip] : a.bmm_results[b][m] = "Verified"}

\* The blocks from b to its descendant d, both included.
Path(b, d) == {e \in ancestors[d] : b \in ancestors[e]}

\* The blocks that the queue of put_body connects: each has its body and an
\* active commitment, and its parent is a tip by then.
NewTips(a, b) ==
    IF ParentHasTip(a, b)
    THEN {d \in a.headers \cup {b} : b \in ancestors[d] /\ \A e \in Path(b, d) :
            /\ e \in a.headers \cup {b}
            /\ e \in DOMAIN a.bodies
            /\ ActiveCommitment(a, e) # {}}
    ELSE {}

\* is_main_descendant has no height for the zero hash.
put_body_refused(a, b) ==
    \/ b \notin a.headers
    \/ /\ a.mainchain_tip = ZeroHash /\ ParentHasTip(a, b)
       /\ \E m \in MainBlock : a.bmm_results[b][m] = "Verified"

\* connect_sidechain_tip for the blocks of N, parents first, each for an active
\* commitment; child_height is the height of a child of d by then.
connect_sidechain_tips(a, N) ==
    LET child_height[d \in SideBlock \cup {None}] ==
            IF d \in N THEN child_height[prev_side_hash[d]] + 1
            ELSE IF HasTip(a, d) THEN a.sidechain_tips[d].height + 1 ELSE 0
        info(d) == LET m == CHOOSE m \in ActiveCommitment(a, d) : TRUE
                   IN  [height |-> child_height[prev_side_hash[d]],
                        work |-> total_work[m], main_block_hash |-> m]
    IN  [a EXCEPT !.sidechain_tips = PutAll(@, [d \in N |-> info(d)]),
                  !.ordered_sidechain_tips =
                      PutAll(@, [i \in {info(d) : d \in N} |-> CHOOSE d \in N : info(d) = i])]

put_body(a, b, body) ==
    LET stored == [a EXCEPT !.bodies = Put(@, b, body),
                            !.txid_to_inclusions = @ \cup (body \X {b})]
    IN  connect_sidechain_tips(stored, NewTips(stored, b) \ DOMAIN stored.sidechain_tips)

\* delete_body follows the successors of b as long as they are tips.
RemovedTips(a, b) ==
    {d \in DOMAIN a.sidechain_tips : b \in ancestors[d] /\ \A e \in Path(b, d) :
        HasTip(a, e) /\ (e # b => e \in a.headers)}

delete_body_refused(a, b) == HasTip(a, b) /\ b \notin a.headers

\* Mutant: the descendants stay tips.
delete_body_of_one(a, b, body) ==
    LET deleted == [a EXCEPT !.bodies = Delete(@, {b}),
                             !.txid_to_inclusions = @ \ (body \X {b})]
    IN  disconnect_sidechain_tips(deleted, {b} \cap DOMAIN a.sidechain_tips)

delete_body(a, b, body) ==
    LET deleted == [a EXCEPT !.bodies = Delete(@, {b}),
                             !.txid_to_inclusions = @ \ (body \X {b})]
    IN  disconnect_sidechain_tips(deleted, RemovedTips(a, b))

\* The block and its known descendants.
invalidate_block(a, b) ==
    LET D == {d \in a.headers : b \in ancestors[d]} \cup {b}
    IN  [a EXCEPT !.headers = @ \ D,
                  !.bodies = Delete(@, D),
                  !.txid_to_inclusions = {p \in @ : ~(p[2] \in D /\ p[2] \in DOMAIN a.bodies
                                                      /\ p[1] \in a.bodies[p[2]])},
                  !.invalid_blocks = @ \cup D]
-----------------------------------------------------------------------------
(***************************************************************************)
(* The mainchain task moves SideTips to a mainchain tip t in one write     *)
(* transaction: down to the common ancestor, and up again.  A result is    *)
(* the archive, and whether a step was refused.                            *)
(***************************************************************************)
Result(a, ok) == [archive |-> a, ok |-> ok]

UpOne(r, m) ==
    IF ~r.ok \/ connect_mainchain_tip_refused(r.archive, m) THEN Result(r.archive, FALSE)
    ELSE Result(connect_mainchain_tip(r.archive, m), TRUE)

sync_side_tips_to_tip(a, t) ==
    LET common == last_common_main_ancestor(t, a.mainchain_tip)
        below == main_ancestors[common]
        down == main_ancestors[a.mainchain_tip] \ below
        start == Result(disconnect_mainchain_tips(a, down, common),
                        ~disconnect_mainchain_tips_refused(a, down))
        upTo[m \in MainBlock \cup {ZeroHash}] ==
            IF m \in below \cup {ZeroHash} THEN start ELSE UpOne(upTo[prev_block_hash[m]], m)
    IN  upTo[t]
=============================================================================
