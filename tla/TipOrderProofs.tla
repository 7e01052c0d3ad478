---------------------------- MODULE TipOrderProofs ----------------------------
(***************************************************************************)
(* Proofs about better_tip (BetterTip) and the nodes that follow it        *)
(* (TipOrder), for any two chains.  Among the tips of one mainchain        *)
(* better_tip is an order, by height and then by less work; nodes that     *)
(* hear of such tips do not go back.                                       *)
(***************************************************************************)
EXTENDS TipOrder, BlocksProofs, FiniteSetTheorems, WellFoundedInduction

-----------------------------------------------------------------------------
(***************************************************************************)
(* The nodes.                                                              *)
(***************************************************************************)
LEMMA ActiveTipFacts ==
    ASSUME active \in MainBlock, NEW x \in ActiveTips, NEW y \in ActiveTips
    PROVE  x \in Tip /\ y \in Tip /\ Lineage(x, y)
<1>1. x \in Tip /\ y \in Tip /\ x.main_block_hash \in main_ancestors[active]
      /\ y.main_block_hash \in main_ancestors[active]
  BY DEF ActiveTips, is_main_descendant
<1> QED
  BY <1>1, ActiveFacts

LEMMA OutranksTransitive ==
    ASSUME NEW x \in Tip, NEW y \in Tip, NEW z \in Tip, Outranks(y, x), Outranks(z, y)
    PROVE  Outranks(z, x) /\ ~Outranks(x, x)
<1>1. /\ hgt(x) \in Nat /\ hgt(y) \in Nat /\ hgt(z) \in Nat
      /\ wrk(x) \in Nat /\ wrk(y) \in Nat /\ wrk(z) \in Nat
  BY TipFacts
<1> QED
  BY <1>1 DEF Outranks

\* With one fork, get_best_main_verification has one to choose from.
LEMMA OnlyVerification ==
    ASSUME OneFork, NEW x \in Tip
    PROVE  best_main_verification(x.block_hash) = x
<1>1. Verifications(x.block_hash) = {x}
  BY DEF OneFork, Verifications
<1>2. total_work[x.main_block_hash] >= total_work[x.main_block_hash]
  BY TipFacts DEF wrk
<1> QED
  BY <1>1, <1>2 DEF best_main_verification

\* A node is at a tip; if it has left any, at one of the active mainchain, and
\* those it left are outranked, as far as they are on it.
TInv ==
    /\ TypeOK
    /\ \A n \in Node :
        /\ block[n] # None => \E t \in Tip : t.block_hash = block[n]
        /\ left[n] # {} => \E t \in ActiveTips : t.block_hash = block[n]

Outranked ==
    \A n \in Node : \A b \in left[n] : \A s, t \in ActiveTips :
        s.block_hash = b /\ t.block_hash = block[n] => Outranks(t, s)

LEMMA InitTips == Init => TInv /\ Outranked
  BY DEF Init, TInv, TypeOK, Outranked

LEMMA HearFacts ==
    ASSUME TInv, NEW n \in Node, NEW t \in ActiveTips, Hear(n, t)
    PROVE  /\ t \in Tip /\ t.block_hash \in SideBlock /\ active' = active /\ ActiveTips' = ActiveTips
           /\ block' \in [Node -> SideBlock \cup {None}] /\ left' \in [Node -> SUBSET SideBlock]
           /\ block'[n] = t.block_hash /\ left'[n] = left[n] \cup ({block[n]} \ {None})
           /\ \A k \in Node : k # n => block'[k] = block[k] /\ left'[k] = left[k]
<1>1. t \in Tip
  BY DEF ActiveTips
<1>2. t.block_hash \in SideBlock
  BY <1>1, TipFacts
<1>3. /\ block' = [block EXCEPT ![n] = t.block_hash] /\ active' = active
      /\ left' = [left EXCEPT ![n] = @ \cup ({block[n]} \ {None})]
  BY DEF Hear
<1>4. block \in [Node -> SideBlock \cup {None}] /\ left \in [Node -> SUBSET SideBlock]
  BY DEF TInv, TypeOK
<1>5. block[n] \in SideBlock \cup {None} /\ left[n] \in SUBSET SideBlock
  BY <1>4
<1>6. ActiveTips' = ActiveTips
  BY <1>3 DEF ActiveTips
<1> QED
  BY <1>1, <1>2, <1>3, <1>4, <1>5, <1>6

LEMMA TipsStep == TInv /\ [Next]_vars => TInv'
<1> SUFFICES ASSUME TInv, [Next]_vars PROVE TInv'
  OBVIOUS
<1>1. ASSUME NEW n \in Node, NEW t \in ActiveTips, Hear(n, t) PROVE TInv'
  <2>1. /\ t \in Tip /\ active' = active /\ ActiveTips' = ActiveTips
        /\ block' \in [Node -> SideBlock \cup {None}] /\ left' \in [Node -> SUBSET SideBlock]
        /\ block'[n] = t.block_hash
        /\ \A k \in Node : k # n => block'[k] = block[k] /\ left'[k] = left[k]
    BY <1>1, HearFacts
  <2>2. TypeOK'
    BY <2>1 DEF TInv, TypeOK
  <2>3. ASSUME NEW k \in Node
        PROVE  /\ block'[k] # None => \E u \in Tip : u.block_hash = block'[k]
               /\ left'[k] # {} => \E u \in ActiveTips : u.block_hash = block'[k]
    BY <2>1 DEF TInv
  <2> QED
    BY <2>1, <2>2, <2>3 DEF TInv
<1>2. ASSUME NEW m \in MainBlock, MainchainMoves(m) PROVE TInv'
  BY <1>2 DEF MainchainMoves, TInv, TypeOK
<1>3. ASSUME UNCHANGED vars PROVE TInv'
  <2>1. ActiveTips' = ActiveTips
    BY <1>3 DEF vars, ActiveTips
  <2> QED
    BY <1>3, <2>1 DEF vars, TInv, TypeOK
<1> QED
  BY <1>1, <1>2, <1>3 DEF Next

LEMMA OutrankedStep ==
    ASSUME OneFork, TInv, Outranked, [Next]_vars
    PROVE  Outranked'
<1>1. ASSUME NEW n \in Node, NEW t \in ActiveTips, Hear(n, t) PROVE Outranked'
  <2>1. /\ t \in Tip /\ ActiveTips' = ActiveTips
        /\ block'[n] = t.block_hash /\ left'[n] = left[n] \cup ({block[n]} \ {None})
        /\ \A k \in Node : k # n => block'[k] = block[k] /\ left'[k] = left[k]
    BY <1>1, HearFacts
  <2>2. active \in MainBlock
    BY DEF TInv, TypeOK
  <2>3. ASSUME NEW u \in ActiveTips, u.block_hash = block[n] PROVE Outranks(t, u)
    <3>1. u \in Tip /\ Lineage(u, t) /\ u.block_hash # None
      BY <2>2, ActiveTipFacts, TipFacts, BlocksAssumption
    <3>2. Improves(best_main_verification(block[n]), t)
      BY <1>1, <2>3, <3>1 DEF Hear, MovesTo
    <3>3. Improves(u, t)
      BY <2>3, <3>1, <3>2, OnlyVerification
    <3> QED
      BY <2>1, <3>1, <3>3, LineageOrder
  <2>4. ASSUME NEW b \in left'[n], NEW s \in ActiveTips, s.block_hash = b PROVE Outranks(t, s)
    <3>1. CASE b \in left[n]
      <4>1. PICK u \in ActiveTips : u.block_hash = block[n]
        BY <3>1 DEF TInv
      <4>2. Outranks(u, s) /\ Outranks(t, u)
        BY <2>3, <2>4, <3>1, <4>1 DEF Outranked
      <4>3. s \in Tip /\ u \in Tip
        BY DEF ActiveTips
      <4> QED
        BY <2>1, <4>2, <4>3, OutranksTransitive
    <3>2. CASE b = block[n]
      BY <2>3, <2>4, <3>2
    <3> QED
      BY <2>1, <3>1, <3>2
  <2>5. \A u \in ActiveTips : u.block_hash = t.block_hash => u = t
    BY <2>1 DEF OneFork, ActiveTips
  <2> SUFFICES ASSUME NEW k \in Node, NEW b \in left'[k], NEW s \in ActiveTips, NEW u \in ActiveTips,
                      s.block_hash = b, u.block_hash = block'[k]
               PROVE  Outranks(u, s)
    BY <2>1 DEF Outranked
  <2>6. CASE k = n
    BY <2>1, <2>4, <2>5, <2>6
  <2>7. CASE k # n
    BY <2>1, <2>7 DEF Outranked
  <2> QED
    BY <2>6, <2>7
<1>2. ASSUME NEW m \in MainBlock, MainchainMoves(m) PROVE Outranked'
  BY <1>2 DEF MainchainMoves, Outranked
<1>3. ASSUME UNCHANGED vars PROVE Outranked'
  <2>1. ActiveTips' = ActiveTips
    BY <1>3 DEF vars, ActiveTips
  <2> QED
    BY <1>3, <2>1 DEF vars, Outranked
<1> QED
  BY <1>1, <1>2, <1>3 DEF Next

\* NoReturn for any two chains in which no block is committed to on two forks:
\* a node that follows reorg_to_tip on the tips of the active mainchain does
\* not come back to a block it left, in whatever order it hears of the tips.
THEOREM NeverReturns == OneFork => (Spec => []NoReturn)
<1> SUFFICES ASSUME OneFork PROVE Spec => []NoReturn
  OBVIOUS
<1>1. TInv /\ Outranked => NoReturn
  <2> SUFFICES ASSUME TInv, Outranked, NEW n \in Node, block[n] \in left[n] PROVE FALSE
    BY DEF NoReturn
  <2>1. PICK t \in ActiveTips : t.block_hash = block[n]
    BY DEF TInv
  <2>2. Outranks(t, t) /\ t \in Tip
    BY <2>1 DEF Outranked, ActiveTips
  <2> QED
    BY <2>2, OutranksTransitive
<1>2. TInv /\ Outranked /\ [Next]_vars => TInv' /\ Outranked'
  BY TipsStep, OutrankedStep
<1> QED
  BY <1>1, <1>2, InitTips, PTL DEF Spec

\* The node is at a tip of the active mainchain, above the first block.
AtActiveTip(n) == \E t \in ActiveTips : t.block_hash = block[n] /\ hgt(t) > 0

\* Two nodes that are at tips of the active mainchain, and that no tip moves.
ActiveAgreement ==
    \A m, n \in Node : Settled(m) /\ Settled(n) /\ AtActiveTip(m) /\ AtActiveTip(n)
        => block[m] = block[n]

\* Agreement for any two chains in which no block is committed to on two forks:
\* nodes that have come to rest, by better_tip, at tips of the active mainchain
\* are at the same one.
THEOREM ActiveNodesAgree == OneFork => (Spec => []ActiveAgreement)
<1> SUFFICES ASSUME OneFork PROVE Spec => []ActiveAgreement
  OBVIOUS
<1>1. TInv => ActiveAgreement
  <2> SUFFICES ASSUME TInv, NEW m \in Node, NEW n \in Node, Settled(m), Settled(n),
                      AtActiveTip(m), AtActiveTip(n)
               PROVE  block[m] = block[n]
    BY DEF ActiveAgreement
  <2>1. PICK x \in ActiveTips : x.block_hash = block[m] /\ hgt(x) > 0
    BY DEF AtActiveTip
  <2>2. PICK y \in ActiveTips : y.block_hash = block[n] /\ hgt(y) > 0
    BY DEF AtActiveTip
  <2>3. x \in Tip /\ y \in Tip /\ Lineage(x, y) /\ Lineage(y, x)
    BY ActiveTipFacts DEF TInv, TypeOK
  <2>4. best_main_verification(block[m]) = x /\ best_main_verification(block[n]) = y
    BY <2>1, <2>2, <2>3, OnlyVerification
  <2>5. ~Improves(x, y) /\ ~Improves(y, x)
    BY <2>4 DEF Settled, MovesTo
  <2>6. /\ hgt(x) \in Nat /\ hgt(y) \in Nat /\ wrk(x) \in Nat /\ wrk(y) \in Nat
        /\ x.main_block_hash \in MainBlock /\ y.main_block_hash \in MainBlock
    BY <2>3, TipFacts
  <2>7. ~Outranks(y, x) /\ ~Outranks(x, y)
    BY <2>1, <2>2, <2>3, <2>5, LineageOrder
  <2>8. wrk(x) = wrk(y)
    BY <2>6, <2>7 DEF Outranks
  <2>9. x.main_block_hash = y.main_block_hash
    BY <2>3, <2>6, <2>8, WorkFacts DEF Lineage, shared_mainchain_lineage, is_main_descendant, wrk
  <2> QED
    BY <2>1, <2>2, <2>3, <2>9, OneTip
<1> QED
  BY <1>1, InitTips, TipsStep, PTL DEF Spec

-----------------------------------------------------------------------------
(***************************************************************************)
(* The peer task's copy of the comparison.                                 *)
(***************************************************************************)
LEMMA LeastNatural ==
    ASSUME NEW S, S \subseteq Nat, S # {}
    PROVE  \E n \in S : \A k \in S : n <= k
<1> DEFINE R == OpToRel(<, Nat)
<1>1. IsWellFoundedOn(R, Nat)
  BY NatLessThanWellFounded
<1> HIDE DEF R
<1>2. PICK n \in S : \A k \in S : ~(<<k, n>> \in R)
  BY <1>1, WFMin
<1>3. \A k \in S : ~(k < n)
  BY <1>2 DEF R, OpToRel
<1> QED
  BY <1>3

\* Among finitely many mainchain blocks one has most work.
LEMMA MostWork ==
    ASSUME IsFiniteSet(MainBlock), NEW M \in SUBSET MainBlock, M # {}
    PROVE  \E m \in M : \A k \in M : total_work[m] >= total_work[k]
<1> DEFINE Unbounded(K) == K # {} /\ \A m \in K : \E k \in K : total_work[k] > total_work[m]
           S == {n \in Nat : \E K \in SUBSET MainBlock : Unbounded(K) /\ n = Cardinality(K)}
<1>1. \A m \in MainBlock : total_work[m] \in Nat
  BY WorkFacts
<1>2. ASSUME NEW K \in SUBSET MainBlock
      PROVE  IsFiniteSet(K) /\ Cardinality(K) \in Nat
  <2>1. IsFiniteSet(K)
    BY FS_Subset
  <2> QED
    BY <2>1, FS_CardinalityType
<1>3. S = {}
  <2> SUFFICES ASSUME S # {} PROVE FALSE
    OBVIOUS
  <2>1. PICK n \in S : \A k \in S : n <= k
    <3>1. S \subseteq Nat
      OBVIOUS
    <3> HIDE DEF S
    <3> QED
      BY <3>1, LeastNatural
  <2>2. PICK K \in SUBSET MainBlock : Unbounded(K) /\ n = Cardinality(K)
    OBVIOUS
  <2>3. PICK m \in K : TRUE
    BY <2>2
  <2> DEFINE L == K \ {m}
  <2>4. \A x, y, z \in K : total_work[x] > total_work[y] /\ total_work[y] > total_work[z]
            => total_work[x] > total_work[z] /\ x # z /\ x # y
    BY <1>1
  <2>5. ASSUME NEW j \in L PROVE \E k \in L : total_work[k] > total_work[j]
    <3>1. PICK k \in K : total_work[k] > total_work[j]
      BY <2>2
    <3>2. CASE k # m
      BY <3>1, <3>2
    <3>3. CASE k = m
      <4>1. PICK i \in K : total_work[i] > total_work[k]
        BY <2>2
      <4>2. total_work[i] > total_work[j] /\ i # k
        BY <2>4, <3>1, <4>1
      <4> QED
        BY <3>3, <4>2
    <3> QED
      BY <3>2, <3>3
  <2>6. L # {}
    <3>1. PICK k \in K : total_work[k] > total_work[m]
      BY <2>2
    <3>2. k # m
      BY <1>1, <3>1
    <3> QED
      BY <3>2
  <2>7. Unbounded(L) /\ L \in SUBSET MainBlock
    BY <2>5, <2>6
  <2>8. Cardinality(L) = n - 1
    BY <1>2, <2>2, FS_RemoveElement
  <2>9. Cardinality(L) \in S
    BY <1>2, <2>7
  <2>10. n \in Nat /\ n <= Cardinality(L)
    BY <2>1, <2>9
  <2> QED
    BY <2>8, <2>10
<1>4. ~Unbounded(M)
  BY <1>2, <1>3
<1> QED
  BY <1>1, <1>4

LEMMA BestIsTip ==
    ASSUME IsFiniteSet(MainBlock), NEW t \in Tip
    PROVE  /\ best_main_verification(t.block_hash) \in Tip
           /\ best_main_verification(t.block_hash).block_hash = t.block_hash
<1> DEFINE V == Verifications(t.block_hash)
           M == {u.main_block_hash : u \in V}
<1>1. t \in V /\ V \subseteq Tip
  BY DEF Verifications
<1>2. M \in SUBSET MainBlock /\ M # {}
  BY <1>1, TipFacts
<1>3. PICK m \in M : \A k \in M : total_work[m] >= total_work[k]
  <2> HIDE DEF M
  <2> QED
    BY <1>2, MostWork
<1>4. PICK u \in V : u.main_block_hash = m
  OBVIOUS
<1>5. \A w \in V : total_work[u.main_block_hash] >= total_work[w.main_block_hash]
  BY <1>3, <1>4
<1>6. best_main_verification(t.block_hash) \in V
  BY <1>4, <1>5 DEF best_main_verification
<1> QED
  BY <1>6 DEF Verifications

\* PeerCheckAgrees for any two chains with finitely many mainchain blocks: the
\* copy of better_tip in check_peer_tip_and_request_headers and the archive's
\* give the same answer about every tip, whatever fork the node's own is on.
THEOREM PeerCheckExact == IsFiniteSet(MainBlock) => (Spec => []PeerCheckAgrees)
<1> SUFFICES ASSUME IsFiniteSet(MainBlock) PROVE Spec => []PeerCheckAgrees
  OBVIOUS
<1>1. ASSUME NEW x \in Tip, NEW y \in Tip, x.block_hash # y.block_hash, hgt(x) > 0, hgt(y) > 0
      PROVE  PeerTipIsBetter(x, y) <=> Improves(x, y)
  <2>1. /\ hgt(x) \in Nat /\ hgt(y) \in Nat /\ wrk(x) \in Nat /\ wrk(y) \in Nat
    BY TipFacts
  <2>2. /\ height_before(x.block_hash, Fork(x, y)) \in Nat
        /\ height_before(y.block_hash, Fork(x, y)) \in Nat
        /\ work_before(x.block_hash, Fork(x, y)) \in Nat
        /\ work_before(y.block_hash, Fork(x, y)) \in Nat
    BY Compared
  <2>3. PeerTipIsBetter(x, y) <=> second_is_better(x, y)
    BY <2>1, <2>2, SecondIs DEF PeerTipIsBetter, HigherNoLessWork, SameHeightMoreWork,
       SameHeightLessWork, LowerMoreWork, HigherLessWork, LevelTie
  <2> QED
    BY <1>1, <2>1, <2>3, ImprovesIs
<1>2. TInv => PeerCheckAgrees
  <2> SUFFICES ASSUME TInv, NEW n \in Node, NEW y \in ActiveTips, NEW x,
                      x = best_main_verification(block[n]), block[n] \notin {None, y.block_hash},
                      hgt(x) > 0, hgt(y) > 0
               PROVE  PeerTipIsBetter(x, y) <=> MovesTo(block[n], y)
    BY DEF PeerCheckAgrees
  <2>1. PICK t \in Tip : t.block_hash = block[n]
    BY DEF TInv
  <2>2. x \in Tip /\ x.block_hash = block[n] /\ y \in Tip
    BY <2>1, BestIsTip DEF ActiveTips
  <2>3. MovesTo(block[n], y) <=> Improves(x, y)
    BY DEF MovesTo
  <2> QED
    BY <1>1, <2>2, <2>3
<1> QED
  BY <1>2, InitTips, TipsStep, PTL DEF Spec
=============================================================================
