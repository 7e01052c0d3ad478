------------------------------ MODULE TipOffers -------------------------------
(***************************************************************************)
(* What the download of blocks promises, without requests, answers, queues *)
(* or connections: a node goes from tip to better tip, each of them a      *)
(* block that some peer has offered or an ancestor of one, none of them    *)
(* invalid, and goes back only when the operator invalidates a block.      *)
(***************************************************************************)
EXTENDS BetterTip

VARIABLES
    offered,  \* the blocks that peers have offered
    invalid,  \* the blocks that the operator has invalidated
    at        \* the tip of the node, NoTip before the first

\* The node may have been at a tip when it started.
Init == offered = {} /\ invalid = {} /\ at \in Tip \cup {NoTip}

Offer(b) == offered' = offered \cup {b} /\ UNCHANGED <<invalid, at>>

\* The tip y is one that the node was offered, or comes before one.
Reachable(y) == \E b \in offered : is_descendant(y.block_hash, b)

Move(y) ==
    /\ Reachable(y) /\ ancestors[y.block_hash] \cap invalid = {}
    /\ at # NoTip => Improves(at, y)
    /\ at' = y
    /\ UNCHANGED <<offered, invalid>>

\* Block b and descendants D of it are invalid: the node goes back to b's
\* parent when it is at one of them.
Invalidate(b, D) ==
    /\ b \notin invalid
    /\ invalid' = invalid \cup D
    /\ IF at = NoTip \/ at.block_hash \notin D THEN UNCHANGED at
       ELSE IF prev_side_hash[b] = None THEN at' = NoTip
       ELSE at' \in Tip /\ at'.block_hash = prev_side_hash[b]
    /\ UNCHANGED offered

\* More of the mainchain makes another commitment the best of the tip.
Recommit(y) ==
    /\ at # NoTip /\ y.block_hash = at.block_hash
    /\ total_work[y.main_block_hash] > total_work[at.main_block_hash]
    /\ at' = y
    /\ UNCHANGED <<offered, invalid>>

Next ==
    \/ \E b \in SideBlock :
        Offer(b) \/ \E D \in SUBSET {d \in SideBlock : is_descendant(b, d)} : b \in D /\ Invalidate(b, D)
    \/ \E y \in Tip : Move(y) \/ Recommit(y)

Spec == Init /\ [][Next]_<<offered, invalid, at>>
=============================================================================
