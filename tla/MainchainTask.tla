---------------------------- MODULE MainchainTask -----------------------------
(***************************************************************************)
(* lib/node/mainchain_task.rs, with the other writers of the archive.  The *)
(* mainchain is outside: it connects and disconnects any block at its tip, *)
(* and the task learns of it from the event stream, or, after the stream   *)
(* or one of its own steps failed, by syncing to the tip of the moment.    *)
(***************************************************************************)
EXTENDS Archive

CONSTANT Unwanted   \* the blocks that the operator may invalidate
ASSUME UnwantedAssumption == Unwanted \subseteq SideBlock

VARIABLES archive,  \* the databases
          task      \* "syncing" until SideTips is at the tip it subscribed to

vars == <<archive, task>>

TypeOK == IsArchive(archive) /\ task \in {"syncing", "streaming"}

Init == archive = EmptyArchive /\ task = "syncing"

-----------------------------------------------------------------------------
\* request_ancestor_infos, for the task itself, a peer or the miner.
RequestAncestorInfos(m) ==
    /\ m \notin archive.main
    /\ archive' = put_main_infos(archive, m)
    /\ UNCHANGED task

\* run_once up to the event loop; on an error it starts again after a pause.
Sync(t) ==
    /\ task = "syncing"
    /\ t \in archive.main
    /\ LET r == sync_side_tips_to_tip(archive, t)
       IN  IF r.ok THEN archive' = r.archive /\ task' = "streaming"
           ELSE UNCHANGED vars

\* handle_block_event: ConnectBlock.
ConnectBlock(m) ==
    /\ task = "streaming"
    /\ prev_block_hash[m] = archive.mainchain_tip
    /\ LET a == put_main_info(archive, m)
       IN  IF connect_mainchain_tip_refused(a, m)
           THEN task' = "syncing" /\ UNCHANGED archive
           ELSE archive' = connect_mainchain_tip(a, m) /\ UNCHANGED task

\* handle_block_event: DisconnectBlock.  The mainchain never disconnects its
\* first block.
DisconnectBlock ==
    /\ task = "streaming"
    /\ prev_block_hash[archive.mainchain_tip] # ZeroHash
    /\ IF disconnect_mainchain_tip_refused(archive)
       THEN task' = "syncing" /\ UNCHANGED archive
       ELSE archive' = disconnect_mainchain_tip(archive) /\ UNCHANGED task

\* The mainchain node stops, or the stream closes.
StreamCloses == task = "streaming" /\ task' = "syncing" /\ UNCHANGED archive

-----------------------------------------------------------------------------
\* Headers from a peer (net_task.rs, handle_response).
StoreHeader(b) ==
    /\ b \notin archive.headers \cup archive.invalid_blocks
    /\ ~put_header_refused(archive, b)
    /\ archive' = put_header(archive, b)
    /\ UNCHANGED task

\* The body of a block from a peer: stored unseen.
StoreBody(b, body) ==
    /\ ~put_body_refused(archive, b)
    /\ archive' = put_body(archive, b, body)
    /\ UNCHANGED task

\* submit_block (lib/node/mod.rs): the miner's block, header and then body;
\* the mainchain infos were requested before.
SubmitHeader(b) ==
    /\ ~put_header_refused(archive, b)
    /\ archive' = put_header(archive, b)
    /\ UNCHANGED task

\* A body that failed validation when the node went to its block.
DeleteBody(b) ==
    /\ b \in DOMAIN archive.bodies /\ archive.bodies[b] # body_of[b]
    /\ ~delete_body_refused(archive, b)
    /\ archive' = delete_body(archive, b, archive.bodies[b])
    /\ UNCHANGED task

\* invalidate_block of the node, for a block that is not connected.
InvalidateBlock(b) ==
    /\ b \in Unwanted \cap archive.headers
    /\ archive' = invalidate_block(archive, b)
    /\ UNCHANGED task

Next ==
    \/ \E m \in MainBlock : RequestAncestorInfos(m) \/ Sync(m) \/ ConnectBlock(m)
    \/ DisconnectBlock
    \/ StreamCloses
    \/ \E b \in SideBlock :
        \/ StoreHeader(b) \/ SubmitHeader(b) \/ DeleteBody(b) \/ InvalidateBlock(b)
        \/ \E body \in Forged \cup {body_of[b]} : StoreBody(b, body)

Spec == Init /\ [][Next]_vars

-----------------------------------------------------------------------------
(***************************************************************************)
(* What holds.                                                             *)
(***************************************************************************)
\* The reference definition of a valid commitment: m commits to b on top of
\* the block b names, and a valid commitment to the parent of b came before.
ValidBmm[b \in SideBlock] ==
    {m \in MainBlock :
        /\ bmm_commitment[m] = b
        /\ prev_block_hash[m] = prev_main_hash[b]
        /\ prev_side_hash[b] # None =>
                main_ancestors[m] \cap ValidBmm[prev_side_hash[b]] # {}}

\* Whatever order headers and mainchain infos arrive in, and whatever was
\* invalidated and stored again, a commitment on top of the block that the
\* header names is judged, and a result is "Verified" exactly when it is valid.
BmmExact ==
    \A b \in archive.headers, m \in archive.main :
        /\ archive.bmm_results[b][m] = "Verified" <=> m \in ValidBmm[b]
        /\ bmm_commitment[m] = b /\ prev_block_hash[m] = prev_main_hash[b]
                => archive.bmm_results[b][m] # "absent"

\* best_side_tip can only return a block that the active mainchain commits to,
\* and that sidechain_tips knows under the same info: however the mainchain
\* moves and the stream of its events breaks, the two databases agree.
OrderedSound ==
    \A i \in DOMAIN archive.ordered_sidechain_tips :
        LET b == archive.ordered_sidechain_tips[i]
        IN  /\ is_main_descendant(i.main_block_hash, archive.mainchain_tip)
            /\ HasTip(archive, b) /\ archive.sidechain_tips[b] = i

\* Whatever arrives, fails validation or is invalidated, nothing is left above
\* what it stands on: the ancestors of a header are stored, a body has its
\* header, and the parent of a tip is a tip, so connect_sidechain_tip finds its
\* height (as long as no block was invalidated: invalidate_block leaves the tips).
AncestorsKept ==
    /\ \A b \in archive.headers : ancestors[b] \subseteq archive.headers
    /\ DOMAIN archive.bodies \subseteq archive.headers
    /\ archive.invalid_blocks = {} =>
        \A b \in DOMAIN archive.sidechain_tips : ParentHasTip(archive, b)

(***************************************************************************)
(* What the documentation says, and does not hold.                         *)
(***************************************************************************)
\* main_block_infos: "BMM commitments do not imply existence of a sidechain
\* block header", so the mainchain tip can be disconnected whatever it commits to.
DisconnectTolerant ==
    archive.mainchain_tip # ZeroHash => ~disconnect_mainchain_tip_refused(archive)

\* sidechain_tips: "If sidechain headers are available, there must be a valid
\* BMM in the active chain for the parent block."
ParentBmmActive ==
    \A b \in DOMAIN archive.sidechain_tips :
        b \in archive.headers /\ prev_side_hash[b] # None =>
            ActiveCommitment(archive, prev_side_hash[b]) # {}

\* side_tips: "Sidechain tips that can be re-orged to as of best known
\* mainchain tip": every block of the ordered tips has its header and body.
OrderedUsable ==
    \A i \in DOMAIN archive.ordered_sidechain_tips :
        archive.ordered_sidechain_tips[i] \in archive.headers \cap DOMAIN archive.bodies

\* ordered_sidechain_tips: "Tips for this sidechain, sorted by height, then
\* work": a block that qualifies as a tip is in it.
OrderedComplete ==
    \A b \in DOMAIN archive.bodies :
        /\ \A e \in ancestors[b] : ActiveCommitment(archive, e) # {} /\ HasTip(archive, e)
        => \E i \in DOMAIN archive.ordered_sidechain_tips : archive.ordered_sidechain_tips[i] = b

\* txid_to_inclusions: "Blocks in which a tx has been included".
InclusionsExact ==
    archive.txid_to_inclusions =
        UNION {archive.bodies[b] \X {b} : b \in DOMAIN archive.bodies}
=============================================================================
