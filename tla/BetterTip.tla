------------------------------ MODULE BetterTip -------------------------------
(***************************************************************************)
(* Archive::better_tip: which of two tips a node prefers.  A tip is a      *)
(* sidechain block with a mainchain block that commits to it.  reorg_to_tip*)
(* leaves its tip x for y exactly when better_tip(x, y) is y.              *)
(***************************************************************************)
EXTENDS Blocks

Tip == {t \in [block_hash : SideBlock, main_block_hash : MainBlock] :
            /\ bmm_commitment[t.main_block_hash] = t.block_hash
            /\ prev_main_hash[t.block_hash] = prev_block_hash[t.main_block_hash]}

NoTip == [block_hash |-> None, main_block_hash |-> ZeroHash]

-----------------------------------------------------------------------------
\* The nearest ancestor of b, b included, whose commitment lies on the chain
\* that ends in the common mainchain ancestor mm.
Before(b, mm) == {a \in ancestors[b] : prev_main_hash[a] \in main_ancestors[mm] \ {mm}}
NearestBefore(b, mm) == CHOOSE a \in Before(b, mm) : Before(b, mm) \subseteq ancestors[a]

\* Its height and the total work of its commitment, one more than the code's,
\* so that 0 stands for a missing ancestor, which compares below any other.
height_before(b, mm) ==
    IF Before(b, mm) = {} THEN 0 ELSE height[NearestBefore(b, mm)] + 1
work_before(b, mm) ==
    IF Before(b, mm) = {} THEN 0
    ELSE LET p == prev_main_hash[NearestBefore(b, mm)]
         IN  total_work[CHOOSE m \in main_ancestors[mm] : prev_block_hash[m] = p] + 1

\* Mutant: a taller tip wins whatever its work.
second_is_better_height_only(x, y) ==
    height[y.block_hash] > height[x.block_hash]

\* better_tip(x, y) = Some(y) for tips of two blocks at heights above 0.
second_is_better(x, y) ==
    LET hx == height[x.block_hash]
        hy == height[y.block_hash]
        wx == total_work[x.main_block_hash]
        wy == total_work[y.main_block_hash]
        mm == last_common_main_ancestor(x.main_block_hash, y.main_block_hash)
        shared == shared_mainchain_lineage(x.main_block_hash, y.main_block_hash)
        hxb == height_before(x.block_hash, mm)
        hyb == height_before(y.block_hash, mm)
    IN  \/ hx < hy /\ wx <= wy
        \/ hx = hy /\ wx < wy /\ ~shared
        \/ hx = hy /\ wx > wy /\ shared
        \/ hx > hy /\ wx < wy /\ hxb < hy + 1
        \/ hx < hy /\ wx > wy /\ hyb >= hx + 1
        \/ /\ hx = hy /\ wx = wy /\ x.block_hash # y.block_hash
           /\ \/ hxb < hyb
              \/ hxb = hyb /\ work_before(x.block_hash, mm) > work_before(y.block_hash, mm)

\* Archive::better_tip, with NoTip for None.
better_tip(x, y) ==
    LET hx == height[x.block_hash]
        hy == height[y.block_hash]
    IN  CASE x = y -> NoTip
          [] x # y /\ hx = 0 /\ hy = 0 -> NoTip
          [] hx = 0 /\ hy > 0 -> y
          [] hx > 0 /\ hy = 0 -> x
          [] x # y /\ hx > 0 /\ hy > 0 -> IF second_is_better(x, y) THEN y ELSE x

\* The test with which a node leaves tip x for tip y, as a constant table.
Improvements == {p \in Tip \X Tip : better_tip(p[1], p[2]) = p[2]}
Improves(x, y) == <<x, y>> \in Improvements

-----------------------------------------------------------------------------
(***************************************************************************)
(* The connection task of a peer has its own copy of the comparison        *)
(* (check_peer_tip_and_request_headers, lib/net/peer/task.rs): one operator*)
(* per row of its match on work and height, each for "y is better than x". *)
(***************************************************************************)
\* The tips to compare: block heights and the work of the commitments.
hgt(t) == height[t.block_hash]
wrk(t) == total_work[t.main_block_hash]
Lineage(x, y) == shared_mainchain_lineage(x.main_block_hash, y.main_block_hash)
Fork(x, y) == last_common_main_ancestor(x.main_block_hash, y.main_block_hash)

HigherNoLessWork(x, y) == hgt(x) < hgt(y) /\ wrk(x) <= wrk(y)
SameHeightMoreWork(x, y) == hgt(x) = hgt(y) /\ wrk(x) < wrk(y) /\ ~Lineage(x, y)
SameHeightLessWork(x, y) == hgt(x) = hgt(y) /\ wrk(x) > wrk(y) /\ Lineage(x, y)
\* Mutant: the height of the peer's tip is off by one.
LowerMoreWork_off_by_one(x, y) ==
    hgt(x) > hgt(y) /\ wrk(x) < wrk(y) /\ ~(height_before(x.block_hash, Fork(x, y)) >= hgt(y))

LowerMoreWork(x, y) ==
    hgt(x) > hgt(y) /\ wrk(x) < wrk(y) /\ ~(height_before(x.block_hash, Fork(x, y)) >= hgt(y) + 1)

HigherLessWork(x, y) ==
    hgt(x) < hgt(y) /\ wrk(x) > wrk(y) /\ ~(height_before(y.block_hash, Fork(x, y)) < hgt(x) + 1)

LevelTie(x, y) ==
    LET hx == height_before(x.block_hash, Fork(x, y))
        hy == height_before(y.block_hash, Fork(x, y))
        u == work_before(x.block_hash, Fork(x, y))
        v == work_before(y.block_hash, Fork(x, y))
    IN  /\ hgt(x) = hgt(y) /\ wrk(x) = wrk(y) /\ x.block_hash # y.block_hash
        /\ hx < hy \/ (hx = hy /\ u > v)

PeerTipIsBetter(x, y) ==
    \/ HigherNoLessWork(x, y)
    \/ SameHeightMoreWork(x, y) \/ SameHeightLessWork(x, y)
    \/ LowerMoreWork(x, y) \/ HigherLessWork(x, y)
    \/ LevelTie(x, y)

\* The rows that ask for the headers before they compare.
HeadersFirst(x, y) ==
    \/ hgt(x) < hgt(y) /\ wrk(x) > wrk(y)
    \/ hgt(x) = hgt(y) /\ wrk(x) = wrk(y) /\ x.block_hash # y.block_hash
-----------------------------------------------------------------------------
(***************************************************************************)
(* What theorems suppose of the chains.                                    *)
(***************************************************************************)
\* The mainchain blocks that commit to a block, on top of the one it names,
\* have the same total work: siblings have one difficulty.
EqualWork == \A x, y \in Tip : x.block_hash = y.block_hash => wrk(x) = wrk(y)

\* No block is committed to on two forks, on top of the block that it names.
OneFork == \A x, y \in Tip : x.block_hash = y.block_hash => x = y
=============================================================================
