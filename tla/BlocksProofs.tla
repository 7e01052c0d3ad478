----------------------------- MODULE BlocksProofs -----------------------------
(***************************************************************************)
(* Facts about the walks over the two chains (Blocks).  A walk is a        *)
(* recursive function on blocks, and what is shown of it goes back to      *)
(* ChainsAssumption: a set of blocks for which it fails would have a first *)
(* one.                                                                    *)
(***************************************************************************)
EXTENDS BetterTip, TLAPS

-----------------------------------------------------------------------------
(***************************************************************************)
(* Functions that are defined by recursion on the parent: on the blocks of *)
(* X by G, and on any other block by F from the value at its parent.       *)
(***************************************************************************)
IsChain(N, z, prev) == z \notin N /\ prev \in [N -> N \cup {z}] /\ Rooted(N, prev)

ByParent(f, N, z, prev, X, G, F) ==
    \A m \in N \cup {z} : f[m] = IF m \in X THEN G[m] ELSE F[<<f[prev[m]], m>>]

\* g is such a function as far as the blocks of D go.
UpTo(g, D, N, z, prev, X, G, F) ==
    /\ D \subseteq N \cup {z}
    /\ \A m \in D \ X : prev[m] \in D
    /\ \A m \in D : g[m] = IF m \in X THEN G[m] ELSE F[<<g[prev[m]], m>>]

LEMMA UpToAgree ==
    ASSUME NEW N, NEW z, NEW prev, IsChain(N, z, prev), NEW X, z \in X, NEW G, NEW F,
           NEW g, NEW D, UpTo(g, D, N, z, prev, X, G, F),
           NEW h, NEW E, UpTo(h, E, N, z, prev, X, G, F)
    PROVE  \A m \in D \cap E : g[m] = h[m]
<1> DEFINE C == {m \in N : m \in D \cap E /\ g[m] # h[m]}
<1>1. C = {}
  <2> SUFFICES ASSUME C # {} PROVE FALSE
    OBVIOUS
  <2>1. PICK m \in C : prev[m] \notin C
    BY DEF IsChain, Rooted
  <2>2. m \notin X
    BY DEF UpTo
  <2>3. prev[m] \in D \cap E
    BY <2>2 DEF UpTo
  <2>4. g[prev[m]] = h[prev[m]]
    <3>1. CASE prev[m] \in X
      BY <2>3, <3>1 DEF UpTo
    <3>2. CASE prev[m] \notin X
      BY <2>1, <2>3, <3>2 DEF UpTo
    <3> QED
      BY <3>1, <3>2
  <2> QED
    BY <2>2, <2>4 DEF UpTo
<1> SUFFICES ASSUME NEW m \in D \cap E PROVE g[m] = h[m]
  OBVIOUS
<1>2. CASE m \in X
  BY <1>2 DEF UpTo
<1>3. CASE m \notin X
  BY <1>1, <1>3 DEF UpTo
<1> QED
  BY <1>2, <1>3

\* There is a walk up to any block.
LEMMA UpToExists ==
    ASSUME NEW N, NEW z, NEW prev, IsChain(N, z, prev), NEW A,
           NEW X \in SUBSET (N \cup {z}), z \in X, NEW G \in [X -> A], NEW F \in [A \X N -> A],
           NEW m \in N \cup {z}
    PROVE  \E g \in [N \cup {z} -> A] : \E D : m \in D /\ UpTo(g, D, N, z, prev, X, G, F)
<1> DEFINE P(n) == \E g \in [N \cup {z} -> A] : \E D : n \in D /\ UpTo(g, D, N, z, prev, X, G, F)
           C == {n \in N : ~P(n)}
<1>1. \A n \in X : P(n)
  <2> TAKE n \in X
  <2> DEFINE g == [k \in N \cup {z} |-> G[n]]
  <2>1. g \in [N \cup {z} -> A] /\ UpTo(g, {n}, N, z, prev, X, G, F)
    BY DEF UpTo
  <2> QED
    BY <2>1
<1>2. C = {}
  <2> SUFFICES ASSUME C # {} PROVE FALSE
    OBVIOUS
  <2>1. PICK n \in C : prev[n] \notin C
    BY DEF IsChain, Rooted
  <2>2. n \in N \ X /\ prev[n] \in N \cup {z}
    BY <1>1 DEF IsChain
  <2>3. P(prev[n])
    BY <1>1, <2>1, <2>2
  <2> PICK g \in [N \cup {z} -> A] : \E D : prev[n] \in D /\ UpTo(g, D, N, z, prev, X, G, F)
    BY <2>3
  <2>4. PICK D : prev[n] \in D /\ UpTo(g, D, N, z, prev, X, G, F)
    OBVIOUS
  <2>5. n \notin D
    BY <2>4
  <2> DEFINE h == [g EXCEPT ![n] = F[<<g[prev[n]], n>>]]
             E == D \cup {n}
  <2>6. h \in [N \cup {z} -> A]
    BY <2>2
  <2>7. h[n] = F[<<g[prev[n]], n>>] /\ \A k \in D : h[k] = g[k]
    BY <2>2, <2>4, <2>5 DEF UpTo
  <2>8. E \subseteq N \cup {z} /\ \A k \in E \ X : prev[k] \in E
    BY <2>2, <2>4 DEF UpTo
  <2> HIDE DEF h
  <2>9. \A k \in E : h[k] = IF k \in X THEN G[k] ELSE F[<<h[prev[k]], k>>]
    <3> SUFFICES ASSUME NEW k \in E
                 PROVE  h[k] = IF k \in X THEN G[k] ELSE F[<<h[prev[k]], k>>]
      OBVIOUS
    <3>1. CASE k = n
      BY <2>2, <2>4, <2>7, <3>1
    <3>2. CASE k \in D /\ k \in X
      BY <2>4, <2>7, <3>2 DEF UpTo
    <3>3. CASE k \in D /\ k \notin X
      <4>1. prev[k] \in D
        BY <2>4, <3>3 DEF UpTo
      <4>2. h[prev[k]] = g[prev[k]] /\ h[k] = g[k]
        BY <2>7, <3>3, <4>1
      <4> QED
        BY <2>4, <3>3, <4>2 DEF UpTo
    <3> QED
      BY <3>1, <3>2, <3>3
  <2>10. UpTo(h, E, N, z, prev, X, G, F) /\ n \in E
    BY <2>8, <2>9 DEF UpTo
  <2> QED
    BY <2>6, <2>10
<1> QED
  BY <1>1, <1>2

LEMMA Walk ==
    ASSUME NEW N, NEW z, NEW prev, IsChain(N, z, prev), NEW A,
           NEW X \in SUBSET (N \cup {z}), z \in X, NEW G \in [X -> A], NEW F \in [A \X N -> A]
    PROVE  \E f \in [N \cup {z} -> A] : ByParent(f, N, z, prev, X, G, F)
<1> DEFINE W(g, m) == /\ g \in [N \cup {z} -> A]
                      /\ \E D : m \in D /\ UpTo(g, D, N, z, prev, X, G, F)
           walk(m) == CHOOSE g : W(g, m)
           f == [m \in N \cup {z} |-> walk(m)[m]]
<1>1. \A m \in N \cup {z} : \E g : W(g, m)
  BY UpToExists
<1>2. \A m \in N \cup {z} : W(walk(m), m)
  BY <1>1
<1>3. ASSUME NEW m \in N \cup {z}, NEW n \in N \cup {z}, NEW D, n \in D,
             UpTo(walk(m), D, N, z, prev, X, G, F)
      PROVE  walk(m)[n] = walk(n)[n]
  <2>1. PICK E : n \in E /\ UpTo(walk(n), E, N, z, prev, X, G, F)
    BY <1>2
  <2> QED
    BY <1>3, <2>1, UpToAgree
<1> HIDE DEF walk
<1>4. f \in [N \cup {z} -> A]
  BY <1>2
<1>5. ASSUME NEW m \in N \cup {z}
      PROVE  f[m] = IF m \in X THEN G[m] ELSE F[<<f[prev[m]], m>>]
  <2>1. PICK D : m \in D /\ UpTo(walk(m), D, N, z, prev, X, G, F)
    BY <1>2
  <2>2. CASE m \in X
    BY <2>1, <2>2 DEF UpTo
  <2>3. CASE m \notin X
    <3>1. prev[m] \in D /\ prev[m] \in N \cup {z} /\ f[m] = F[<<walk(m)[prev[m]], m>>]
      BY <2>1, <2>3 DEF UpTo
    <3>2. walk(m)[prev[m]] = walk(prev[m])[prev[m]]
      BY <1>3, <2>1, <3>1
    <3> QED
      BY <2>3, <3>1, <3>2
  <2> QED
    BY <2>2, <2>3
<1> QED
  BY <1>4, <1>5 DEF ByParent

-----------------------------------------------------------------------------
(***************************************************************************)
(* The ancestors of a block, on any chain.                                 *)
(***************************************************************************)
IsAncestors(anc, N, z, prev) ==
    /\ anc \in [N \cup {z} -> SUBSET N]
    /\ anc[z] = {}
    /\ \A m \in N : anc[m] = {m} \cup anc[prev[m]]

AncestorsEq(f, N, z, prev) ==
    f = [m \in N \cup {z} |-> IF m = z THEN {} ELSE {m} \cup f[prev[m]]]

LEMMA AncestorsExist ==
    ASSUME NEW N, NEW z, NEW prev, IsChain(N, z, prev)
    PROVE  \E f : AncestorsEq(f, N, z, prev)
<1> DEFINE A == SUBSET N
           X == {z}
           G == [m \in X |-> {}]
           F == [p \in A \X N |-> {p[2]} \cup p[1]]
<1>1. G \in [X -> A] /\ F \in [A \X N -> A] /\ X \in SUBSET (N \cup {z}) /\ z \in X
  OBVIOUS
<1>2. PICK f \in [N \cup {z} -> A] : ByParent(f, N, z, prev, X, G, F)
  <2> HIDE DEF A, X, G, F
  <2> QED
    BY <1>1, Walk
<1>3. ASSUME NEW m \in N \cup {z}
      PROVE  f[m] = IF m = z THEN {} ELSE {m} \cup f[prev[m]]
  <2>1. CASE m = z
    BY <1>2, <2>1 DEF ByParent
  <2>2. CASE m # z
    <3>1. m \in N /\ prev[m] \in N \cup {z}
      BY <2>2 DEF IsChain
    <3>2. f[m] = F[<<f[prev[m]], m>>] /\ f[prev[m]] \in A
      BY <1>2, <2>2, <3>1 DEF ByParent
    <3> QED
      BY <2>2, <3>1, <3>2
  <2> QED
    BY <2>1, <2>2
<1>4. AncestorsEq(f, N, z, prev)
  BY <1>3 DEF AncestorsEq
<1> QED
  BY <1>4

LEMMA AncestorsTyped ==
    ASSUME NEW N, NEW z, NEW prev, IsChain(N, z, prev), NEW f,
           AncestorsEq(f, N, z, prev)
    PROVE  IsAncestors(f, N, z, prev)
<1> DEFINE C == {m \in N : ~(f[m] \subseteq N)}
<1>1. f[z] = {} /\ \A m \in N : f[m] = {m} \cup f[prev[m]]
  BY DEF IsChain, AncestorsEq
<1>2. C = {}
  <2> SUFFICES ASSUME C # {} PROVE FALSE
    OBVIOUS
  <2>1. PICK m \in C : prev[m] \notin C
    BY DEF IsChain, Rooted
  <2>2. f[prev[m]] \subseteq N
    BY <1>1, <2>1 DEF IsChain
  <2> QED
    BY <1>1, <2>2
<1>3. \A m \in N \cup {z} : f[m] \subseteq N
  BY <1>1, <1>2
<1>4. f \in [N \cup {z} -> SUBSET N]
  <2>1. DOMAIN f = N \cup {z} /\ f = [m \in DOMAIN f |-> f[m]]
    BY DEF AncestorsEq
  <2> QED
    BY <1>3, <2>1
<1> QED
  BY <1>1, <1>4 DEF IsAncestors

LEMMA AncestorsTransitive ==
    ASSUME NEW N, NEW z, NEW prev, IsChain(N, z, prev), NEW anc, IsAncestors(anc, N, z, prev),
           NEW m \in N \cup {z}, NEW n \in anc[m]
    PROVE  n \in N /\ n \in anc[n] /\ anc[n] \subseteq anc[m]
<1> DEFINE C == {k \in N : \E a \in anc[k] : ~(anc[a] \subseteq anc[k])}
<1>1. C = {}
  <2> SUFFICES ASSUME C # {} PROVE FALSE
    OBVIOUS
  <2>1. PICK k \in C : prev[k] \notin C
    BY DEF IsChain, Rooted
  <2>2. PICK a \in anc[k] : ~(anc[a] \subseteq anc[k])
    OBVIOUS
  <2>3. anc[k] = {k} \cup anc[prev[k]] /\ a # k /\ prev[k] \in N \cup {z}
    BY <2>2 DEF IsAncestors, IsChain
  <2>4. a \in anc[prev[k]] /\ prev[k] \in N
    BY <2>3 DEF IsAncestors
  <2> QED
    BY <2>1, <2>2, <2>3, <2>4
<1>2. n \in N /\ n \in anc[n] /\ m \in N
  BY DEF IsAncestors
<1> QED
  BY <1>1, <1>2

LEMMA AncestorsIrreflexive ==
    ASSUME NEW N, NEW z, NEW prev, IsChain(N, z, prev), NEW anc, IsAncestors(anc, N, z, prev),
           NEW m \in N
    PROVE  m \notin anc[prev[m]]
<1> DEFINE C == {k \in N : k \in anc[prev[k]]}
<1> SUFFICES ASSUME C # {} PROVE FALSE
  OBVIOUS
<1>1. PICK k \in C : prev[k] \notin C
  BY DEF IsChain, Rooted
<1> DEFINE p == prev[k]
<1>2. p \in N /\ p # k /\ k \in anc[p]
  BY <1>1 DEF IsChain, IsAncestors
<1>3. anc[p] = {p} \cup anc[prev[p]] /\ prev[p] \in N \cup {z}
  BY <1>2 DEF IsChain, IsAncestors
<1>4. k \in anc[prev[p]]
  BY <1>2, <1>3
<1> HIDE DEF p
<1>5. anc[k] \subseteq anc[prev[p]]
  BY <1>3, <1>4, AncestorsTransitive
<1>6. p \in anc[p] /\ anc[k] = {k} \cup anc[p]
  BY <1>3 DEF IsAncestors, p
<1> QED
  BY <1>1, <1>2, <1>5, <1>6 DEF p

\* Of ancestors of one block, one is the last.
LEMMA LastAncestor ==
    ASSUME NEW N, NEW z, NEW prev, IsChain(N, z, prev), NEW anc, IsAncestors(anc, N, z, prev),
           NEW m \in N \cup {z}, NEW S, S \subseteq anc[m], S # {}
    PROVE  \E a \in S : S \subseteq anc[a]
<1> DEFINE C == {k \in N : \E T \in SUBSET anc[k] : T # {} /\ \A a \in T : ~(T \subseteq anc[a])}
<1>1. C = {}
  <2> SUFFICES ASSUME C # {} PROVE FALSE
    OBVIOUS
  <2>1. PICK k \in C : prev[k] \notin C
    BY DEF IsChain, Rooted
  <2>2. PICK T \in SUBSET anc[k] : T # {} /\ \A a \in T : ~(T \subseteq anc[a])
    OBVIOUS
  <2>3. anc[k] = {k} \cup anc[prev[k]] /\ k \notin T /\ prev[k] \in N \cup {z}
    BY <2>2 DEF IsAncestors, IsChain
  <2>4. T \in SUBSET anc[prev[k]] /\ prev[k] \in N
    BY <2>2, <2>3 DEF IsAncestors
  <2> QED
    BY <2>1, <2>2, <2>4
<1>2. m \in N
  BY DEF IsAncestors
<1> QED
  BY <1>1, <1>2

-----------------------------------------------------------------------------
(***************************************************************************)
(* The mainchain, and the sidechain.                                       *)
(***************************************************************************)
LEMMA MainChain == IsChain(MainBlock, ZeroHash, prev_block_hash)
  BY BlocksAssumption, ChainsAssumption DEF IsChain

LEMMA SideChain == IsChain(SideBlock, None, prev_side_hash)
  BY BlocksAssumption, ChainsAssumption DEF IsChain

LEMMA MainAncestors == IsAncestors(main_ancestors, MainBlock, ZeroHash, prev_block_hash)
<1>1. \E f : AncestorsEq(f, MainBlock, ZeroHash, prev_block_hash)
  BY MainChain, AncestorsExist
<1>2. main_ancestors = CHOOSE f : AncestorsEq(f, MainBlock, ZeroHash, prev_block_hash)
  BY DEF main_ancestors, AncestorsEq
<1>3. AncestorsEq(main_ancestors, MainBlock, ZeroHash, prev_block_hash)
  BY <1>1, <1>2
<1> QED
  BY <1>3, MainChain, AncestorsTyped

LEMMA SideAncestors == IsAncestors(ancestors, SideBlock, None, prev_side_hash)
<1>1. \E f : AncestorsEq(f, SideBlock, None, prev_side_hash)
  BY SideChain, AncestorsExist
<1>2. ancestors = CHOOSE f : AncestorsEq(f, SideBlock, None, prev_side_hash)
  BY DEF ancestors, AncestorsEq
<1>3. AncestorsEq(ancestors, SideBlock, None, prev_side_hash)
  BY <1>1, <1>2
<1> QED
  BY <1>3, SideChain, AncestorsTyped

\* main_ancestors follows the parents and is transitive.
LEMMA MainFacts ==
    ASSUME NEW m \in MainBlock
    PROVE  /\ prev_block_hash[m] \in MainBlock \cup {ZeroHash}
           /\ main_ancestors[ZeroHash] = {}
           /\ main_ancestors[m] = {m} \cup main_ancestors[prev_block_hash[m]]
           /\ main_ancestors[m] \subseteq MainBlock
           /\ m \notin main_ancestors[prev_block_hash[m]]
           /\ \A n \in main_ancestors[m] : main_ancestors[n] \subseteq main_ancestors[m]
<1>1. IsChain(MainBlock, ZeroHash, prev_block_hash)
  BY MainChain
<1>2. IsAncestors(main_ancestors, MainBlock, ZeroHash, prev_block_hash)
  BY MainAncestors
<1>3. m \notin main_ancestors[prev_block_hash[m]]
  BY <1>1, <1>2, AncestorsIrreflexive
<1>4. \A n \in main_ancestors[m] : main_ancestors[n] \subseteq main_ancestors[m]
  BY <1>1, <1>2, AncestorsTransitive
<1> QED
  BY <1>1, <1>2, <1>3, <1>4 DEF IsChain, IsAncestors

LEMMA SideFacts ==
    ASSUME NEW b \in SideBlock
    PROVE  /\ prev_side_hash[b] \in SideBlock \cup {None}
           /\ ancestors[None] = {}
           /\ ancestors[b] = {b} \cup ancestors[prev_side_hash[b]]
           /\ ancestors[b] \subseteq SideBlock
           /\ b \notin ancestors[prev_side_hash[b]]
           /\ \A c \in ancestors[b] : ancestors[c] \subseteq ancestors[b]
<1>1. IsChain(SideBlock, None, prev_side_hash)
  BY SideChain
<1>2. IsAncestors(ancestors, SideBlock, None, prev_side_hash)
  BY SideAncestors
<1>3. b \notin ancestors[prev_side_hash[b]]
  BY <1>1, <1>2, AncestorsIrreflexive
<1>4. \A c \in ancestors[b] : ancestors[c] \subseteq ancestors[b]
  BY <1>1, <1>2, AncestorsTransitive
<1> QED
  BY <1>1, <1>2, <1>3, <1>4 DEF IsChain, IsAncestors

\* The last common ancestor is a common one, and all are before it.
LEMMA LastCommonMain ==
    ASSUME NEW m \in MainBlock \cup {ZeroHash}, NEW n \in MainBlock \cup {ZeroHash},
           NEW c, c = last_common_main_ancestor(m, n)
    PROVE  /\ c = ZeroHash \/ (c \in main_ancestors[m] /\ c \in main_ancestors[n])
           /\ c \in MainBlock \cup {ZeroHash}
           /\ main_ancestors[m] \cap main_ancestors[n] \subseteq main_ancestors[c]
<1> DEFINE S == main_ancestors[m] \cap main_ancestors[n]
<1>1. main_ancestors[m] \subseteq MainBlock
  BY MainAncestors DEF IsAncestors
<1>2. CASE S = {}
  BY <1>2 DEF last_common_main_ancestor
<1>3. CASE S # {}
  <2>1. \E a \in S : S \subseteq main_ancestors[a]
    <3>1. S \subseteq main_ancestors[m]
      OBVIOUS
    <3> HIDE DEF S
    <3> QED
      BY <1>3, <3>1, MainChain, MainAncestors, LastAncestor
  <2>2. c \in S /\ S \subseteq main_ancestors[c]
    BY <1>3, <2>1 DEF last_common_main_ancestor
  <2> QED
    BY <1>1, <2>2
<1> QED
  BY <1>2, <1>3

-----------------------------------------------------------------------------
(***************************************************************************)
(* Numbers that are counted up along the parents: heights and total work.  *)
(***************************************************************************)
Counts(f, N, z, prev, first, step) ==
    /\ f \in [N -> Nat]
    /\ \A m \in N : f[m] = IF prev[m] = z THEN first[m] ELSE f[prev[m]] + step[m]

LEMMA CountExists ==
    ASSUME NEW N, NEW z, NEW prev, IsChain(N, z, prev),
           NEW first \in [N -> Nat], NEW step \in [N -> Nat]
    PROVE  \E f : Counts(f, N, z, prev, first, step)
<1> DEFINE A == Nat
           X == {z}
           G == [m \in X |-> 0]
           F == [p \in A \X N |-> IF prev[p[2]] = z THEN first[p[2]] ELSE p[1] + step[p[2]]]
<1>1. G \in [X -> A] /\ F \in [A \X N -> A] /\ X \in SUBSET (N \cup {z}) /\ z \in X
  OBVIOUS
<1>2. PICK f \in [N \cup {z} -> A] : ByParent(f, N, z, prev, X, G, F)
  <2> HIDE DEF A, X, G, F
  <2> QED
    BY <1>1, Walk
<1> DEFINE g == [m \in N |-> f[m]]
<1>3. ASSUME NEW m \in N
      PROVE  g[m] = IF prev[m] = z THEN first[m] ELSE g[prev[m]] + step[m]
  <2>1. m \notin X /\ prev[m] \in N \cup {z}
    BY DEF IsChain
  <2>2. f[m] = F[<<f[prev[m]], m>>] /\ f[prev[m]] \in A
    BY <1>2, <2>1 DEF ByParent
  <2>3. f[m] = IF prev[m] = z THEN first[m] ELSE f[prev[m]] + step[m]
    BY <2>2
  <2> QED
    BY <2>1, <2>3
<1>4. Counts(g, N, z, prev, first, step)
  BY <1>3 DEF Counts
<1> QED
  BY <1>4

\* Where every step counts, it grows from a block to its descendants.
LEMMA CountGrows ==
    ASSUME NEW N, NEW z, NEW prev, IsChain(N, z, prev), NEW anc, IsAncestors(anc, N, z, prev),
           NEW first \in [N -> Nat], NEW step \in [N -> Nat \ {0}],
           NEW f, Counts(f, N, z, prev, first, step), NEW m \in N, NEW n \in anc[m], n # m
    PROVE  f[n] < f[m]
<1> DEFINE C == {k \in N : \E a \in anc[k] : a # k /\ ~(f[a] < f[k])}
<1> SUFFICES ASSUME C # {} PROVE FALSE
  OBVIOUS
<1>1. PICK k \in C : prev[k] \notin C
  BY DEF IsChain, Rooted
<1>2. PICK a \in anc[k] : a # k /\ ~(f[a] < f[k])
  OBVIOUS
<1> DEFINE p == prev[k]
<1>3. k \in N /\ p \in N \cup {z} /\ anc[k] = {k} \cup anc[p] /\ anc[z] = {}
  BY DEF IsChain, IsAncestors
<1>4. p \in N /\ p # z /\ a \in anc[p]
  BY <1>2, <1>3 DEF IsChain
<1>5. f[k] = f[p] + step[k] /\ f[k] \in Nat /\ f[p] \in Nat /\ step[k] \in Nat \ {0}
  BY <1>3, <1>4 DEF Counts
<1>6. a \in N /\ f[a] \in Nat
  BY <1>3, <1>4 DEF Counts, IsAncestors
<1>7. a = p \/ f[a] < f[p]
  BY <1>1, <1>4
<1> HIDE DEF p
<1> QED
  BY <1>2, <1>5, <1>6, <1>7

WorkEq(f) ==
    f = [m \in MainBlock |-> IF prev_block_hash[m] = ZeroHash THEN work[m]
                             ELSE f[prev_block_hash[m]] + work[m]]
HeightEq(f) ==
    f = [b \in SideBlock |-> IF prev_side_hash[b] = None THEN 0 ELSE f[prev_side_hash[b]] + 1]

\* A function that satisfies the equation counts.
LEMMA CountTyped ==
    ASSUME NEW N, NEW z, NEW prev, IsChain(N, z, prev),
           NEW first \in [N -> Nat], NEW step \in [N -> Nat], NEW f,
           f = [m \in N |-> IF prev[m] = z THEN first[m] ELSE f[prev[m]] + step[m]]
    PROVE  Counts(f, N, z, prev, first, step)
<1>1. DOMAIN f = N /\ \A m \in N : f[m] = IF prev[m] = z THEN first[m] ELSE f[prev[m]] + step[m]
  OBVIOUS
<1>2. f = [m \in DOMAIN f |-> f[m]]
  OBVIOUS
<1> DEFINE C == {m \in N : f[m] \notin Nat}
<1>3. C = {}
  <2> SUFFICES ASSUME C # {} PROVE FALSE
    OBVIOUS
  <2>1. PICK m \in C : prev[m] \notin C
    BY DEF IsChain, Rooted
  <2>2. prev[m] # z => f[prev[m]] \in Nat
    BY <2>1 DEF IsChain
  <2>3. first[m] \in Nat /\ step[m] \in Nat
    OBVIOUS
  <2>4. f[m] = IF prev[m] = z THEN first[m] ELSE f[prev[m]] + step[m]
    BY <1>1
  <2> QED
    BY <2>2, <2>3, <2>4
<1>4. f \in [N -> Nat]
  BY <1>1, <1>2, <1>3
<1> QED
  BY <1>1, <1>4 DEF Counts

LEMMA WorkCounts == Counts(total_work, MainBlock, ZeroHash, prev_block_hash, work, work)
<1>1. work \in [MainBlock -> Nat]
  BY BlocksAssumption
<1>2. PICK f : Counts(f, MainBlock, ZeroHash, prev_block_hash, work, work)
  BY <1>1, MainChain, CountExists
<1>3. WorkEq(f)
  BY <1>2 DEF Counts, WorkEq
<1>4. total_work = CHOOSE g : WorkEq(g)
  BY DEF total_work, WorkEq
<1>5. WorkEq(total_work)
  BY <1>3, <1>4
<1> QED
  BY <1>1, <1>5, MainChain, CountTyped DEF WorkEq

Zeros == [b \in SideBlock |-> 0]
Ones == [b \in SideBlock |-> 1]

LEMMA HeightCounts == Counts(height, SideBlock, None, prev_side_hash, Zeros, Ones)
<1>1. Zeros \in [SideBlock -> Nat] /\ Ones \in [SideBlock -> Nat]
  BY DEF Zeros, Ones
<1>2. PICK f : Counts(f, SideBlock, None, prev_side_hash, Zeros, Ones)
  BY <1>1, SideChain, CountExists
<1>3. HeightEq(f)
  BY <1>2 DEF Counts, HeightEq, Zeros, Ones
<1>4. height = CHOOSE g : HeightEq(g)
  BY DEF height, HeightEq
<1>5. HeightEq(height)
  BY <1>3, <1>4
<1>6. height = [b \in SideBlock |-> IF prev_side_hash[b] = None THEN Zeros[b]
                                    ELSE height[prev_side_hash[b]] + Ones[b]]
  BY <1>5 DEF HeightEq, Zeros, Ones
<1> QED
  BY <1>1, <1>6, SideChain, CountTyped

\* A block on top of another has more work, and is higher.
LEMMA WorkFacts ==
    ASSUME NEW m \in MainBlock
    PROVE  /\ total_work[m] \in Nat
           /\ \A n \in main_ancestors[m] : n # m => total_work[n] < total_work[m]
<1>1. work \in [MainBlock -> Nat] /\ work \in [MainBlock -> Nat \ {0}]
  BY BlocksAssumption
<1>2. Counts(total_work, MainBlock, ZeroHash, prev_block_hash, work, work)
  BY WorkCounts
<1> QED
  BY <1>1, <1>2, MainChain, MainAncestors, CountGrows DEF Counts

LEMMA HeightFacts ==
    ASSUME NEW b \in SideBlock
    PROVE  /\ height[b] \in Nat
           /\ \A c \in ancestors[b] : c # b => height[c] < height[b]
<1>1. Zeros \in [SideBlock -> Nat] /\ Ones \in [SideBlock -> Nat \ {0}]
  BY DEF Zeros, Ones
<1>2. Counts(height, SideBlock, None, prev_side_hash, Zeros, Ones)
  BY HeightCounts
<1> QED
  BY <1>1, <1>2, SideChain, SideAncestors, CountGrows DEF Counts

-----------------------------------------------------------------------------
(***************************************************************************)
(* Tips, and the ancestors before a common mainchain block.                *)
(***************************************************************************)
LEMMA TipFacts ==
    ASSUME NEW x \in Tip
    PROVE  /\ x = [block_hash |-> x.block_hash, main_block_hash |-> x.main_block_hash]
           /\ x.block_hash \in SideBlock /\ x.main_block_hash \in MainBlock
           /\ bmm_commitment[x.main_block_hash] = x.block_hash
           /\ prev_main_hash[x.block_hash] = prev_block_hash[x.main_block_hash]
           /\ prev_block_hash[x.main_block_hash] \in MainBlock
           /\ hgt(x) \in Nat /\ wrk(x) \in Nat
           /\ x # NoTip
<1>1. /\ x = [block_hash |-> x.block_hash, main_block_hash |-> x.main_block_hash]
      /\ x.block_hash \in SideBlock /\ x.main_block_hash \in MainBlock
      /\ bmm_commitment[x.main_block_hash] = x.block_hash
      /\ prev_main_hash[x.block_hash] = prev_block_hash[x.main_block_hash]
  BY DEF Tip
<1>2. prev_block_hash[x.main_block_hash] \in MainBlock
  BY <1>1, BlocksAssumption
<1>3. hgt(x) \in Nat /\ wrk(x) \in Nat
  BY <1>1, HeightFacts, WorkFacts DEF hgt, wrk
<1>4. x # NoTip
  BY <1>1, BlocksAssumption DEF NoTip
<1> QED
  BY <1>1, <1>2, <1>3, <1>4

\* A mainchain block commits to one block, so it has one tip.
LEMMA OneTip ==
    ASSUME NEW x \in Tip, NEW y \in Tip, x.main_block_hash = y.main_block_hash
    PROVE  x = y
  BY TipFacts

\* Two blocks that are each other's ancestors are one.
LEMMA MainAntisymmetric ==
    ASSUME NEW m \in MainBlock, NEW n \in main_ancestors[m], m \in main_ancestors[n]
    PROVE  n = m
<1>1. n \in MainBlock
  BY MainFacts
<1> QED
  BY <1>1, WorkFacts

LEMMA SideAntisymmetric ==
    ASSUME NEW b \in SideBlock, NEW c \in ancestors[b], b \in ancestors[c]
    PROVE  c = b
<1>1. c \in SideBlock
  BY SideFacts
<1> QED
  BY <1>1, HeightFacts

\* On one lineage the last common ancestor is the earlier block.
LEMMA CommonOfLineage ==
    ASSUME NEW m \in MainBlock, NEW n \in MainBlock, m \in main_ancestors[n]
    PROVE  /\ last_common_main_ancestor(m, n) = m
           /\ last_common_main_ancestor(n, m) = m
<1>1. main_ancestors[m] \subseteq main_ancestors[n] /\ m \in main_ancestors[m]
  BY MainFacts
<1>2. ASSUME NEW c, c = last_common_main_ancestor(m, n) \/ c = last_common_main_ancestor(n, m)
      PROVE  c = m
  <2>1. /\ c = ZeroHash \/ c \in main_ancestors[m]
        /\ m \in main_ancestors[c]
    BY <1>1, <1>2, LastCommonMain
  <2>2. c # ZeroHash
    BY <2>1, MainFacts
  <2> QED
    BY <2>1, <2>2, MainAntisymmetric
<1> QED
  BY <1>2

LEMMA CommonSymmetric ==
    ASSUME NEW m \in MainBlock, NEW n \in MainBlock
    PROVE  last_common_main_ancestor(m, n) = last_common_main_ancestor(n, m)
<1> DEFINE S == main_ancestors[m] \cap main_ancestors[n]
           c == last_common_main_ancestor(m, n)
           d == last_common_main_ancestor(n, m)
<1>1. c = ZeroHash \/ c \in S
  BY LastCommonMain
<1>2. d = ZeroHash \/ d \in S
  BY LastCommonMain
<1>3. S \subseteq main_ancestors[c]
  BY LastCommonMain
<1>4. S \subseteq main_ancestors[d]
  <2>1. main_ancestors[n] \cap main_ancestors[m] \subseteq main_ancestors[d]
    BY LastCommonMain
  <2> QED
    BY <2>1
<1>5. S \subseteq MainBlock /\ main_ancestors[ZeroHash] = {}
  BY MainFacts
<1> HIDE DEF S, c, d
<1>6. CASE S = {}
  BY <1>1, <1>2, <1>6 DEF c, d
<1>7. CASE S # {}
  <2>1. c \in S /\ d \in S
    BY <1>1, <1>2, <1>3, <1>4, <1>5, <1>7
  <2>2. c \in MainBlock /\ d \in main_ancestors[c] /\ c \in main_ancestors[d]
    BY <1>3, <1>4, <1>5, <2>1
  <2>3. d = c
    BY <2>2, MainAntisymmetric
  <2> QED
    BY <2>3 DEF c, d
<1> QED
  BY <1>6, <1>7

\* A tip of mm itself: its own block is the nearest before mm.
LEMMA BeforeSelf ==
    ASSUME NEW x \in Tip
    PROVE  height_before(x.block_hash, x.main_block_hash) = hgt(x) + 1
<1> DEFINE b == x.block_hash
           mm == x.main_block_hash
           B == Before(b, mm)
<1>1. b \in SideBlock /\ mm \in MainBlock /\ prev_main_hash[b] = prev_block_hash[mm]
      /\ prev_block_hash[mm] \in MainBlock
  BY TipFacts
<1>2. prev_main_hash[b] \in main_ancestors[mm] \ {mm}
  BY <1>1, MainFacts
<1>3. b \in ancestors[b] /\ ancestors[b] \subseteq SideBlock
  BY <1>1, SideFacts
<1>4. b \in B /\ B \subseteq ancestors[b]
  BY <1>2, <1>3 DEF Before
<1> DEFINE a == NearestBefore(b, mm)
<1>5. a \in B /\ B \subseteq ancestors[a]
  BY <1>4 DEF NearestBefore
<1>6. a = b
  BY <1>1, <1>4, <1>5, SideAntisymmetric
<1> QED
  BY <1>4, <1>6 DEF height_before, hgt

\* Heights and work before a common ancestor are numbers.
LEMMA BeforeTyped ==
    ASSUME NEW b \in SideBlock, NEW mm \in MainBlock \cup {ZeroHash}
    PROVE  height_before(b, mm) \in Nat /\ work_before(b, mm) \in Nat
<1> DEFINE B == Before(b, mm)
           a == NearestBefore(b, mm)
           p == prev_main_hash[a]
<1>1. CASE B = {}
  BY <1>1 DEF height_before, work_before
<1>2. CASE B # {}
  <2>1. B \subseteq ancestors[b] /\ ancestors[b] \subseteq SideBlock
    BY SideFacts DEF Before
  <2>2. \E c \in B : B \subseteq ancestors[c]
    <3> HIDE DEF B
    <3> QED
      BY <1>2, <2>1, SideChain, SideAncestors, LastAncestor
  <2>3. a \in B
    BY <2>2 DEF NearestBefore
  <2>4. a \in SideBlock /\ p \in main_ancestors[mm] \ {mm}
    BY <2>1, <2>3 DEF Before
  <2>5. height_before(b, mm) \in Nat
    BY <1>2, <2>4, HeightFacts DEF height_before
  <2>6. main_ancestors[mm] \subseteq MainBlock /\ p \in MainBlock
    BY <2>4, MainAncestors DEF IsAncestors
  <2>7. \E m \in main_ancestors[mm] : prev_block_hash[m] = p
    <3> DEFINE D == {m \in MainBlock : p \in main_ancestors[m] \ {m}
                        /\ ~\E k \in main_ancestors[m] : prev_block_hash[k] = p}
    <3>1. D = {}
      <4> SUFFICES ASSUME D # {} PROVE FALSE
        OBVIOUS
      <4>1. PICK m \in D : prev_block_hash[m] \notin D
        BY ChainsAssumption DEF Rooted
      <4> DEFINE q == prev_block_hash[m]
      <4>2. m \in MainBlock /\ main_ancestors[m] = {m} \cup main_ancestors[q]
            /\ q \in MainBlock \cup {ZeroHash} /\ main_ancestors[ZeroHash] = {}
        BY MainFacts
      <4>3. p \in main_ancestors[q] /\ q # p
        BY <4>2
      <4>4. q \in MainBlock
        BY <4>2, <4>3
      <4>5. \E k \in main_ancestors[q] : prev_block_hash[k] = p
        BY <4>1, <4>3, <4>4
      <4> QED
        BY <4>2, <4>5
    <3>2. mm \in MainBlock
      BY <2>4, MainAncestors DEF IsAncestors
    <3> QED
      BY <2>4, <3>1, <3>2
  <2>8. total_work[CHOOSE m \in main_ancestors[mm] : prev_block_hash[m] = p] \in Nat
    BY <2>6, <2>7, WorkFacts
  <2>9. work_before(b, mm) \in Nat
    BY <1>2, <2>8 DEF work_before
  <2> QED
    BY <2>5, <2>9
<1> QED
  BY <1>1, <1>2

-----------------------------------------------------------------------------
(***************************************************************************)
(* The comparison.                                                         *)
(***************************************************************************)
\* The numbers that second_is_better compares.
LEMMA Compared ==
    ASSUME NEW x \in Tip, NEW y \in Tip
    PROVE  /\ Fork(x, y) \in MainBlock \cup {ZeroHash}
           /\ height_before(x.block_hash, Fork(x, y)) \in Nat
           /\ height_before(y.block_hash, Fork(x, y)) \in Nat
           /\ work_before(x.block_hash, Fork(x, y)) \in Nat
           /\ work_before(y.block_hash, Fork(x, y)) \in Nat
<1>1. x.main_block_hash \in MainBlock /\ y.main_block_hash \in MainBlock
      /\ x.block_hash \in SideBlock /\ y.block_hash \in SideBlock
  BY TipFacts
<1>2. Fork(x, y) \in MainBlock \cup {ZeroHash}
  BY <1>1, LastCommonMain DEF Fork
<1> QED
  BY <1>1, <1>2, BeforeTyped

LEMMA SecondIs ==
    ASSUME NEW x, NEW y
    PROVE  second_is_better(x, y) <=>
           \/ hgt(x) < hgt(y) /\ wrk(x) <= wrk(y)
           \/ hgt(x) = hgt(y) /\ wrk(x) < wrk(y) /\ ~Lineage(x, y)
           \/ hgt(x) = hgt(y) /\ wrk(x) > wrk(y) /\ Lineage(x, y)
           \/ hgt(x) > hgt(y) /\ wrk(x) < wrk(y)
                /\ height_before(x.block_hash, Fork(x, y)) < hgt(y) + 1
           \/ hgt(x) < hgt(y) /\ wrk(x) > wrk(y)
                /\ height_before(y.block_hash, Fork(x, y)) >= hgt(x) + 1
           \/ /\ hgt(x) = hgt(y) /\ wrk(x) = wrk(y) /\ x.block_hash # y.block_hash
              /\ \/ height_before(x.block_hash, Fork(x, y)) < height_before(y.block_hash, Fork(x, y))
                 \/ /\ height_before(x.block_hash, Fork(x, y)) = height_before(y.block_hash, Fork(x, y))
                    /\ work_before(x.block_hash, Fork(x, y)) > work_before(y.block_hash, Fork(x, y))
  BY DEF second_is_better, hgt, wrk, Lineage, Fork

\* Above height 0, a node leaves a tip for another by second_is_better alone;
\* the first block of a chain gives way to any higher one.
LEMMA ImprovesIs ==
    ASSUME NEW x \in Tip, NEW y \in Tip
    PROVE  Improves(x, y) <=>
           /\ x # y /\ hgt(y) > 0
           /\ hgt(x) = 0 \/ second_is_better(x, y)
<1>1. hgt(x) \in Nat /\ hgt(y) \in Nat /\ x # NoTip /\ y # NoTip
  BY TipFacts
<1>2. Improves(x, y) <=> better_tip(x, y) = y
  BY DEF Improves, Improvements
<1>3. CASE x = y
  BY <1>1, <1>2, <1>3 DEF better_tip
<1>4. CASE x # y /\ hgt(x) = 0 /\ hgt(y) = 0
  <2>1. better_tip(x, y) = NoTip
    BY <1>4 DEF better_tip, hgt
  <2> QED
    BY <1>1, <1>2, <1>4, <2>1
<1>5. CASE x # y /\ hgt(x) = 0 /\ hgt(y) > 0
  <2>1. better_tip(x, y) = y
    BY <1>1, <1>5 DEF better_tip, hgt
  <2> QED
    BY <1>2, <1>5, <2>1
<1>6. CASE x # y /\ hgt(x) > 0 /\ hgt(y) = 0
  <2>1. better_tip(x, y) = x
    BY <1>1, <1>6 DEF better_tip, hgt
  <2> QED
    BY <1>1, <1>2, <1>6, <2>1
<1>7. CASE x # y /\ hgt(x) > 0 /\ hgt(y) > 0
  <2>1. better_tip(x, y) = IF second_is_better(x, y) THEN y ELSE x
    BY <1>1, <1>7 DEF better_tip, hgt
  <2> QED
    BY <1>1, <1>2, <1>7, <2>1
<1> QED
  BY <1>1, <1>3, <1>4, <1>5, <1>6, <1>7

\* By height, and at equal heights by less work.
Outranks(y, x) == hgt(x) < hgt(y) \/ (hgt(x) = hgt(y) /\ wrk(x) > wrk(y))

\* Archive::better_tip among tips whose mainchain blocks are on one lineage:
\* the higher one wins whatever the work, and at equal heights the one that was
\* committed to first; nothing is exchanged for a first block.
THEOREM LineageOrder ==
    ASSUME NEW x \in Tip, NEW y \in Tip, Lineage(x, y)
    PROVE  Improves(x, y) <=> hgt(y) > 0 /\ Outranks(y, x)
<1> DEFINE m == x.main_block_hash
           n == y.main_block_hash
<1>1. /\ m \in MainBlock /\ n \in MainBlock /\ hgt(x) \in Nat /\ hgt(y) \in Nat
      /\ wrk(x) = total_work[m] /\ wrk(y) = total_work[n] /\ wrk(x) \in Nat /\ wrk(y) \in Nat
  BY TipFacts DEF wrk
<1>2. m \in main_ancestors[n] \/ n \in main_ancestors[m]
  BY DEF Lineage, shared_mainchain_lineage, is_main_descendant
<1>3. CASE x = y
  BY <1>1, <1>3, ImprovesIs DEF Outranks
<1>4. ASSUME x # y PROVE m # n
  BY <1>4, OneTip
<1>5. CASE x # y /\ m \in main_ancestors[n]
  <2>1. Fork(x, y) = m /\ height_before(x.block_hash, Fork(x, y)) = hgt(x) + 1
    BY <1>1, <1>5, CommonOfLineage, BeforeSelf DEF Fork
  <2>2. wrk(x) < wrk(y)
    BY <1>1, <1>4, <1>5, WorkFacts
  <2>3. second_is_better(x, y) <=> hgt(x) < hgt(y)
    BY <1>1, <2>1, <2>2, SecondIs
  <2> QED
    BY <1>1, <1>5, <2>2, <2>3, ImprovesIs DEF Outranks
<1>6. CASE x # y /\ n \in main_ancestors[m]
  <2>1. Fork(x, y) = n /\ height_before(y.block_hash, Fork(x, y)) = hgt(y) + 1
    BY <1>1, <1>6, CommonOfLineage, BeforeSelf DEF Fork
  <2>2. wrk(y) < wrk(x)
    BY <1>1, <1>4, <1>6, WorkFacts
  <2>3. second_is_better(x, y) <=> hgt(x) <= hgt(y)
    BY <1>1, <2>1, <2>2, SecondIs
  <2> QED
    BY <1>1, <1>6, <2>2, <2>3, ImprovesIs DEF Outranks
<1> QED
  BY <1>2, <1>3, <1>5, <1>6

\* Archive::better_tip on any two tips, of one lineage or of two forks: a node
\* that leaves one for the other is never told by it to go straight back.
THEOREM NoExchange ==
    ASSUME NEW x \in Tip, NEW y \in Tip
    PROVE  ~(Improves(x, y) /\ Improves(y, x))
<1>1. /\ hgt(x) \in Nat /\ hgt(y) \in Nat /\ wrk(x) \in Nat /\ wrk(y) \in Nat
      /\ x.main_block_hash \in MainBlock /\ y.main_block_hash \in MainBlock
  BY TipFacts
<1>2. Fork(y, x) = Fork(x, y) /\ (Lineage(y, x) <=> Lineage(x, y))
  BY <1>1, CommonSymmetric DEF Fork, Lineage, shared_mainchain_lineage
<1>3. /\ height_before(x.block_hash, Fork(x, y)) \in Nat
      /\ height_before(y.block_hash, Fork(x, y)) \in Nat
      /\ work_before(x.block_hash, Fork(x, y)) \in Nat
      /\ work_before(y.block_hash, Fork(x, y)) \in Nat
  BY Compared
<1>4. ~(second_is_better(x, y) /\ second_is_better(y, x))
  BY <1>1, <1>2, <1>3, SecondIs
<1> QED
  BY <1>1, <1>4, ImprovesIs

LEMMA ActiveFacts ==
    ASSUME NEW m \in MainBlock, NEW x \in Tip, NEW y \in Tip,
           x.main_block_hash \in main_ancestors[m], y.main_block_hash \in main_ancestors[m]
    PROVE  Lineage(x, y)
<1> DEFINE S == {x.main_block_hash, y.main_block_hash}
<1>1. \E a \in S : S \subseteq main_ancestors[a]
  <2>1. S \subseteq main_ancestors[m] /\ S # {}
    OBVIOUS
  <2> HIDE DEF S
  <2> QED
    BY <2>1, MainChain, MainAncestors, LastAncestor
<1> QED
  BY <1>1 DEF Lineage, shared_mainchain_lineage, is_main_descendant
=============================================================================
