---------------------------- MODULE NodeTipProofs -----------------------------
(***************************************************************************)
(* Proofs about the archive as the mainchain task and its other writers    *)
(* leave it (MainchainTask), and about the node that follows it, with      *)
(* reorg_to_tip beside the mainchain task and the operator (NodeTip): for  *)
(* any two chains, forks included, any events and any order of steps.      *)
(***************************************************************************)
EXTENDS NodeTip, BlocksProofs


-----------------------------------------------------------------------------
(***************************************************************************)
(* The databases.                                                          *)
(***************************************************************************)
Partial(S, T) == UNION {[D -> T] : D \in SUBSET S}

\* The infos that a sidechain tip can have.
TipInfo == [height : Nat, work : {total_work[m] : m \in MainBlock}, main_block_hash : MainBlock]

Databases ==
    [headers : SUBSET SideBlock,
     bodies : Partial(SideBlock, SUBSET Txid),
     txid_to_inclusions : SUBSET (Txid \X SideBlock),
     invalid_blocks : SUBSET SideBlock,
     main : SUBSET MainBlock,
     bmm_results : [SideBlock -> [MainBlock -> BmmResult]],
     mainchain_tip : MainBlock \cup {ZeroHash},
     sidechain_tips : Partial(SideBlock, TipInfo),
     ordered_sidechain_tips : Partial(TipInfo, SideBlock)]

LEMMA PartialIs ==
    ASSUME NEW S, NEW T, NEW f
    PROVE  f \in Partial(S, T) <=> \E D \in SUBSET S : f \in [D -> T]
  BY DEF Partial

LEMMA PartialFacts ==
    ASSUME NEW S, NEW T, NEW f \in Partial(S, T)
    PROVE  DOMAIN f \subseteq S /\ f \in [DOMAIN f -> T]
  BY PartialIs

\* g is f after a put, after the puts of h, or after deletes.
IsPut(g, f, k, v) ==
    /\ DOMAIN g = DOMAIN f \cup {k} /\ g[k] = v
    /\ \A x \in DOMAIN f : x # k => g[x] = f[x]
IsPutAll(g, f, h) ==
    /\ DOMAIN g = DOMAIN f \cup DOMAIN h
    /\ \A x \in DOMAIN h : g[x] = h[x]
    /\ \A x \in DOMAIN f \ DOMAIN h : g[x] = f[x]
IsDelete(g, f, K) == DOMAIN g = DOMAIN f \ K /\ \A x \in DOMAIN g : g[x] = f[x]

LEMMA PutFacts ==
    ASSUME NEW S, NEW T, NEW f \in Partial(S, T), NEW k \in S, NEW v \in T, NEW g, g = Put(f, k, v)
    PROVE  g \in Partial(S, T) /\ IsPut(g, f, k, v)
<1>1. DOMAIN f \subseteq S /\ f \in [DOMAIN f -> T]
  BY PartialFacts
<1>2. IsPut(g, f, k, v)
  BY DEF Put, IsPut
<1>3. g \in [DOMAIN f \cup {k} -> T]
  BY <1>1 DEF Put
<1>4. DOMAIN f \cup {k} \in SUBSET S
  BY <1>1
<1> QED
  BY <1>2, <1>3, <1>4, PartialIs

LEMMA PutAllFacts ==
    ASSUME NEW S, NEW T, NEW f \in Partial(S, T), NEW h \in Partial(S, T), NEW g, g = PutAll(f, h)
    PROVE  g \in Partial(S, T) /\ IsPutAll(g, f, h)
<1>1. DOMAIN f \subseteq S /\ f \in [DOMAIN f -> T] /\ DOMAIN h \subseteq S /\ h \in [DOMAIN h -> T]
  BY PartialFacts
<1>2. IsPutAll(g, f, h)
  BY DEF PutAll, IsPutAll
<1>3. g \in [DOMAIN f \cup DOMAIN h -> T]
  BY <1>1 DEF PutAll
<1>4. DOMAIN f \cup DOMAIN h \in SUBSET S
  BY <1>1
<1> QED
  BY <1>2, <1>3, <1>4, PartialIs

LEMMA DeleteFacts ==
    ASSUME NEW S, NEW T, NEW f \in Partial(S, T), NEW K, NEW g, g = Delete(f, K)
    PROVE  g \in Partial(S, T) /\ IsDelete(g, f, K)
<1>1. DOMAIN f \subseteq S /\ f \in [DOMAIN f -> T]
  BY PartialFacts
<1>2. IsDelete(g, f, K)
  BY DEF Delete, IsDelete
<1>3. g \in [DOMAIN f \ K -> T]
  BY <1>1 DEF Delete
<1>4. DOMAIN f \ K \in SUBSET S
  BY <1>1
<1> QED
  BY <1>2, <1>3, <1>4, PartialIs

LEMMA DatabaseFacts ==
    ASSUME NEW a \in Databases
    PROVE  /\ a.headers \subseteq SideBlock /\ a.main \subseteq MainBlock
           /\ a.bodies \in Partial(SideBlock, SUBSET Txid) /\ DOMAIN a.bodies \subseteq SideBlock
           /\ a.bmm_results \in [SideBlock -> [MainBlock -> BmmResult]]
           /\ a.mainchain_tip \in MainBlock \cup {ZeroHash}
           /\ a.sidechain_tips \in Partial(SideBlock, TipInfo)
           /\ DOMAIN a.sidechain_tips \subseteq SideBlock
           /\ \A b \in DOMAIN a.sidechain_tips : a.sidechain_tips[b] \in TipInfo
           /\ a.ordered_sidechain_tips \in Partial(TipInfo, SideBlock)
           /\ DOMAIN a.ordered_sidechain_tips \subseteq TipInfo
           /\ \A i \in DOMAIN a.ordered_sidechain_tips : a.ordered_sidechain_tips[i] \in SideBlock
<1>1. /\ a.headers \subseteq SideBlock /\ a.main \subseteq MainBlock
      /\ a.bodies \in Partial(SideBlock, SUBSET Txid)
      /\ a.bmm_results \in [SideBlock -> [MainBlock -> BmmResult]]
      /\ a.mainchain_tip \in MainBlock \cup {ZeroHash}
      /\ a.sidechain_tips \in Partial(SideBlock, TipInfo)
      /\ a.ordered_sidechain_tips \in Partial(TipInfo, SideBlock)
  BY DEF Databases
<1>2. DOMAIN a.bodies \subseteq SideBlock
  BY <1>1, PartialFacts
<1>3. DOMAIN a.sidechain_tips \subseteq SideBlock /\ a.sidechain_tips \in [DOMAIN a.sidechain_tips -> TipInfo]
  BY <1>1, PartialFacts
<1>4. /\ DOMAIN a.ordered_sidechain_tips \subseteq TipInfo
      /\ a.ordered_sidechain_tips \in [DOMAIN a.ordered_sidechain_tips -> SideBlock]
  BY <1>1, PartialFacts
<1> QED
  BY <1>1, <1>2, <1>3, <1>4

-----------------------------------------------------------------------------
(***************************************************************************)
(* The inductive invariant, by the databases that its parts are about.     *)
(***************************************************************************)
\* Headers have their ancestors, and bodies their headers.
HeadersOK(a) ==
    /\ \A b \in a.headers : ancestors[b] \subseteq a.headers
    /\ DOMAIN a.bodies \subseteq a.headers

\* The known mainchain blocks have their ancestors, and so does the tip.
MainOK(a) ==
    /\ \A m \in a.main : prev_block_hash[m] \in a.main \cup {ZeroHash}
    /\ a.mainchain_tip \in a.main \cup {ZeroHash}

\* No invalid commitment is taken for a valid one, the header stored or not;
\* for a stored header and a known mainchain block nothing is missing.
ResultsOK(a) ==
    /\ \A b \in SideBlock, m \in MainBlock : a.bmm_results[b][m] = "Verified" => m \in ValidBmm[b]
    /\ \A b \in a.headers, m \in a.main :
        /\ m \in ValidBmm[b] => a.bmm_results[b][m] = "Verified"
        /\ bmm_commitment[m] = b /\ prev_block_hash[m] = prev_main_hash[b]
                => a.bmm_results[b][m] # "absent"

\* The tips stand on tips, and are stored.
TipsOK(a) ==
    a.invalid_blocks = {} =>
        \A b \in DOMAIN a.sidechain_tips : b \in a.headers /\ ParentHasTip(a, b)

\* OrderedSound, and the mainchain block of a tip commits to it.
OrderOK(a) ==
    \A i \in DOMAIN a.ordered_sidechain_tips :
        LET b == a.ordered_sidechain_tips[i]
        IN  /\ i.main_block_hash \in main_ancestors[a.mainchain_tip]
            /\ b \in DOMAIN a.sidechain_tips /\ a.sidechain_tips[b] = i
            /\ bmm_commitment[i.main_block_hash] = b

Sound(a) ==
    a \in Databases /\ HeadersOK(a) /\ MainOK(a) /\ ResultsOK(a) /\ TipsOK(a) /\ OrderOK(a)

-----------------------------------------------------------------------------
(***************************************************************************)
(* ValidBmm.                                                               *)
(***************************************************************************)
\* One step of the recursion.
ValidFrom(S, b) ==
    {m \in MainBlock :
        /\ bmm_commitment[m] = b
        /\ prev_block_hash[m] = prev_main_hash[b]
        /\ prev_side_hash[b] # None => main_ancestors[m] \cap S # {}}

ValidEq(f) == f = [b \in SideBlock |->
    {m \in MainBlock :
        /\ bmm_commitment[m] = b
        /\ prev_block_hash[m] = prev_main_hash[b]
        /\ prev_side_hash[b] # None => main_ancestors[m] \cap f[prev_side_hash[b]] # {}}]

LEMMA ValidFacts ==
    /\ DOMAIN ValidBmm = SideBlock
    /\ \A b \in SideBlock : ValidBmm[b] = ValidFrom(ValidBmm[prev_side_hash[b]], b)
<1> DEFINE N == SideBlock
           z == None
           A == SUBSET MainBlock
           X == {z}
           G == [b \in X |-> {}]
           F == [p \in A \X N |-> ValidFrom(p[1], p[2])]
<1>1. /\ G \in [X -> A] /\ F \in [A \X N -> A] /\ X \in SUBSET (N \cup {z}) /\ z \in X
      /\ IsChain(N, z, prev_side_hash)
  BY SideChain DEF ValidFrom
<1>2. PICK f \in [N \cup {z} -> A] : ByParent(f, N, z, prev_side_hash, X, G, F)
  <2> HIDE DEF N, z, A, X, G, F
  <2> QED
    BY <1>1, Walk
<1> DEFINE g == [b \in SideBlock |-> f[b]]
<1>3. ASSUME NEW b \in SideBlock
      PROVE  g[b] = ValidFrom(g[prev_side_hash[b]], b)
  <2>1. b \notin X /\ prev_side_hash[b] \in N \cup {z}
    BY BlocksAssumption
  <2>2. f[b] = F[<<f[prev_side_hash[b]], b>>]
    BY <1>2, <2>1 DEF ByParent
  <2>3. f[b] = ValidFrom(f[prev_side_hash[b]], b)
    BY <2>1, <2>2
  <2>4. CASE prev_side_hash[b] = None
    BY <2>3, <2>4 DEF ValidFrom
  <2>5. CASE prev_side_hash[b] # None
    BY <2>1, <2>3, <2>5
  <2> QED
    BY <2>4, <2>5
<1>4. ValidEq(g)
  BY <1>3 DEF ValidEq, ValidFrom
<1>5. ValidBmm = CHOOSE h : ValidEq(h)
  BY DEF ValidBmm, ValidEq
<1>6. ValidEq(ValidBmm)
  BY <1>4, <1>5
<1> QED
  BY <1>6 DEF ValidEq, ValidFrom

-----------------------------------------------------------------------------
(***************************************************************************)
(* What an operation leaves alone.                                         *)
(***************************************************************************)
SameBlocks(a, r) ==
    /\ r.headers = a.headers /\ r.bodies = a.bodies /\ r.invalid_blocks = a.invalid_blocks
    /\ r.txid_to_inclusions = a.txid_to_inclusions
SameMain(a, r) == r.main = a.main /\ r.bmm_results = a.bmm_results
SameTips(a, r) ==
    /\ r.mainchain_tip = a.mainchain_tip /\ r.sidechain_tips = a.sidechain_tips
    /\ r.ordered_sidechain_tips = a.ordered_sidechain_tips

\* Between a and r tips were only added, each for a valid commitment and on top
\* of a tip; the headers and the known mainchain blocks are the same.
Grows(a, r) ==
    /\ r.headers = a.headers /\ r.main = a.main /\ r.invalid_blocks = a.invalid_blocks
    /\ \A b \in DOMAIN a.sidechain_tips :
        b \in DOMAIN r.sidechain_tips /\ r.sidechain_tips[b] = a.sidechain_tips[b]
    /\ \A b \in DOMAIN r.sidechain_tips \ DOMAIN a.sidechain_tips :
        r.sidechain_tips[b].main_block_hash \in ValidBmm[b] /\ ParentHasTip(r, b)

LEMMA GrowsTransitive ==
    ASSUME NEW a, NEW b, NEW c, Grows(a, b), Grows(b, c)
    PROVE  Grows(a, c)
  BY DEF Grows, ParentHasTip, HasTip

LEMMA SameTipsGrow ==
    ASSUME NEW a, NEW r, r.headers = a.headers, r.main = a.main,
           r.invalid_blocks = a.invalid_blocks, r.sidechain_tips = a.sidechain_tips
    PROVE  Grows(a, r)
  BY DEF Grows

LEMMA KeepsHeaders ==
    ASSUME NEW a, NEW r, HeadersOK(a), SameBlocks(a, r)
    PROVE  HeadersOK(r)
  BY DEF HeadersOK, SameBlocks

LEMMA KeepsMain ==
    ASSUME NEW a, NEW r, MainOK(a), SameMain(a, r), r.mainchain_tip = a.mainchain_tip
    PROVE  MainOK(r)
  BY DEF MainOK, SameMain

LEMMA KeepsResults ==
    ASSUME NEW a, NEW r, ResultsOK(a), SameMain(a, r), r.headers \subseteq a.headers
    PROVE  ResultsOK(r)
  BY DEF ResultsOK, SameMain

LEMMA KeepsTips ==
    ASSUME NEW a, NEW r, TipsOK(a), r.sidechain_tips = a.sidechain_tips,
           r.invalid_blocks = a.invalid_blocks, a.headers \subseteq r.headers
    PROVE  TipsOK(r)
  BY DEF TipsOK, ParentHasTip, HasTip

LEMMA KeepsOrder ==
    ASSUME NEW a, NEW r, OrderOK(a), SameTips(a, r)
    PROVE  OrderOK(r)
  BY DEF OrderOK, SameTips

-----------------------------------------------------------------------------
(***************************************************************************)
(* put_main_info and put_header: the results of the commitments.           *)
(***************************************************************************)
\* The result is "Verified" when the commitment is valid, and only then, if the
\* header of the parent and the ancestors of the mainchain block are known.
LEMMA BmmResultOnly ==
    ASSUME NEW a, ResultsOK(a), NEW b \in SideBlock, NEW m \in MainBlock,
           bmm_result(a, b, m) = "Verified"
    PROVE  m \in ValidBmm[b]
<1>1. /\ bmm_commitment[m] = b /\ prev_main_hash[b] = prev_block_hash[m]
      /\ ParentVerified(a, b, m)
  BY DEF bmm_result
<1>2. prev_side_hash[b] # None => main_ancestors[m] \cap ValidBmm[prev_side_hash[b]] # {}
  <2> SUFFICES ASSUME prev_side_hash[b] # None
               PROVE  main_ancestors[m] \cap ValidBmm[prev_side_hash[b]] # {}
    OBVIOUS
  <2>1. prev_side_hash[b] \in SideBlock /\ main_ancestors[m] \subseteq MainBlock
    BY SideFacts, MainFacts
  <2>2. PICK n \in main_ancestors[m] : a.bmm_results[prev_side_hash[b]][n] = "Verified"
    BY <1>1 DEF ParentVerified
  <2> QED
    BY <2>1, <2>2 DEF ResultsOK
<1> QED
  BY <1>1, <1>2, ValidFacts DEF ValidFrom

LEMMA BmmResultAll ==
    ASSUME NEW a, ResultsOK(a), NEW b \in SideBlock, NEW m \in MainBlock, m \in ValidBmm[b],
           prev_side_hash[b] # None => prev_side_hash[b] \in a.headers,
           main_ancestors[m] \ {m} \subseteq a.main
    PROVE  bmm_result(a, b, m) = "Verified"
<1>1. /\ bmm_commitment[m] = b /\ prev_block_hash[m] = prev_main_hash[b]
      /\ prev_side_hash[b] # None => main_ancestors[m] \cap ValidBmm[prev_side_hash[b]] # {}
  BY ValidFacts DEF ValidFrom
<1>2. ParentVerified(a, b, m)
  <2> SUFFICES ASSUME prev_side_hash[b] # None
               PROVE  \E n \in main_ancestors[m] : a.bmm_results[prev_side_hash[b]][n] = "Verified"
    BY DEF ParentVerified
  <2> DEFINE p == prev_side_hash[b]
  <2>1. p \in SideBlock /\ p \in a.headers /\ main_ancestors[m] \subseteq MainBlock
    BY SideFacts, MainFacts
  <2>2. p # b
    <3>1. b \notin ancestors[p] /\ p \in ancestors[p]
      BY <2>1, SideFacts
    <3> QED
      BY <3>1
  <2>3. PICK n \in main_ancestors[m] : n \in ValidBmm[p]
    BY <1>1
  <2>4. bmm_commitment[n] = p
    BY <2>1, <2>3, ValidFacts DEF ValidFrom
  <2>5. n \in a.main
    BY <1>1, <2>2, <2>4
  <2> QED
    BY <2>1, <2>3, <2>5 DEF ResultsOK
<1> QED
  BY <1>1, <1>2 DEF bmm_result

LEMMA BmmResultTyped ==
    ASSUME NEW a, NEW b, NEW m
    PROVE  bmm_result(a, b, m) \in BmmResult /\ bmm_result(a, b, m) # "absent"
  BY DEF bmm_result, BmmResult

\* The ancestors of a known block are known.
LEMMA MainClosed ==
    ASSUME NEW a, MainOK(a), a.main \subseteq MainBlock, NEW m \in a.main
    PROVE  main_ancestors[m] \subseteq a.main
<1> DEFINE C == {k \in a.main : ~(main_ancestors[k] \subseteq a.main)}
<1> SUFFICES ASSUME C # {} PROVE FALSE
  OBVIOUS
<1>1. PICK k \in C : prev_block_hash[k] \notin C
  BY ChainsAssumption DEF Rooted
<1>2. k \in MainBlock /\ prev_block_hash[k] \in a.main \cup {ZeroHash}
  BY DEF MainOK
<1>3. main_ancestors[k] = {k} \cup main_ancestors[prev_block_hash[k]] /\ main_ancestors[ZeroHash] = {}
  BY <1>2, MainFacts
<1> QED
  BY <1>1, <1>2, <1>3

\* The results after put_main_info, and after put_header.
MainResults(a, m) ==
    IF bmm_commitment[m] \in a.headers
    THEN [a.bmm_results EXCEPT ![bmm_commitment[m]][m] = bmm_result(a, bmm_commitment[m], m)]
    ELSE a.bmm_results

LEMMA PutMainFields ==
    ASSUME NEW a \in Databases, NEW m \in MainBlock, NEW r, r = put_main_info(a, m)
    PROVE  /\ r \in Databases /\ SameBlocks(a, r) /\ SameTips(a, r)
           /\ r.main = a.main \cup {m} /\ r.bmm_results = MainResults(a, m)
<1>1. /\ SameBlocks(a, r) /\ SameTips(a, r)
      /\ r.main = a.main \cup {m} /\ r.bmm_results = MainResults(a, m)
  BY DEF put_main_info, MainResults, Databases, SameBlocks, SameTips
<1>2. MainResults(a, m) \in [SideBlock -> [MainBlock -> BmmResult]]
  BY BmmResultTyped, DatabaseFacts DEF MainResults
<1>3. r = [a EXCEPT !.main = a.main \cup {m}, !.bmm_results = MainResults(a, m)]
  BY DEF put_main_info, MainResults, Databases
<1>4. a.main \cup {m} \in SUBSET MainBlock
  BY DatabaseFacts
<1> HIDE DEF MainResults
<1>5. r \in Databases
  BY <1>2, <1>3, <1>4 DEF Databases
<1> QED
  BY <1>1, <1>5

LEMMA PutMainSound ==
    ASSUME NEW a, Sound(a), NEW m \in MainBlock, prev_block_hash[m] \in a.main \cup {ZeroHash},
           NEW r, r = put_main_info(a, m)
    PROVE  Sound(r)
<1>1. /\ a \in Databases /\ HeadersOK(a) /\ MainOK(a) /\ ResultsOK(a) /\ TipsOK(a) /\ OrderOK(a)
  BY DEF Sound
<1>2. /\ r \in Databases /\ SameBlocks(a, r) /\ SameTips(a, r)
      /\ r.main = a.main \cup {m} /\ r.bmm_results = MainResults(a, m)
  BY <1>1, PutMainFields
<1>3. HeadersOK(r) /\ OrderOK(r)
  BY <1>1, <1>2, KeepsHeaders, KeepsOrder
<1>4. TipsOK(r)
  BY <1>1, <1>2, KeepsTips DEF SameBlocks, SameTips
<1>5. MainOK(r)
  BY <1>1, <1>2 DEF MainOK, SameTips
<1>6. ResultsOK(r)
  <2> DEFINE c == bmm_commitment[m]
             v == bmm_result(a, c, m)
  <2>1. /\ a.headers \subseteq SideBlock /\ a.main \subseteq MainBlock
        /\ a.bmm_results \in [SideBlock -> [MainBlock -> BmmResult]]
    BY <1>1, DatabaseFacts
  <2>2. main_ancestors[m] \ {m} \subseteq a.main
    BY <1>1, <2>1, MainFacts, MainClosed
  <2>3. \A b \in SideBlock, n \in MainBlock :
            r.bmm_results[b][n] = IF b = c /\ n = m /\ c \in a.headers THEN v ELSE a.bmm_results[b][n]
    BY <1>2, <2>1 DEF MainResults
  <2>4. r.headers = a.headers
    BY <1>2 DEF SameBlocks
  <2>5. c \in a.headers => (v = "Verified" => m \in ValidBmm[c])
    BY <1>1, <2>1, BmmResultOnly
  <2>6. c \in a.headers => (m \in ValidBmm[c] => v = "Verified")
    <3> SUFFICES ASSUME c \in a.headers, m \in ValidBmm[c] PROVE v = "Verified"
      OBVIOUS
    <3>1. c \in SideBlock /\ (prev_side_hash[c] # None => prev_side_hash[c] \in a.headers)
      <4>1. ancestors[c] \subseteq a.headers
        BY <1>1 DEF HeadersOK
      <4> QED
        BY <2>1, <4>1, SideFacts
    <3> QED
      BY <1>1, <2>2, <3>1, BmmResultAll
  <2>7. v # "absent"
    BY BmmResultTyped
  <2> HIDE DEF v
  <2>8. ASSUME NEW b \in SideBlock, NEW n \in MainBlock, r.bmm_results[b][n] = "Verified"
        PROVE  n \in ValidBmm[b]
    BY <1>1, <2>3, <2>5, <2>8 DEF ResultsOK
  <2>9. ASSUME NEW b \in a.headers, NEW n \in a.main \cup {m}
        PROVE  /\ n \in ValidBmm[b] => r.bmm_results[b][n] = "Verified"
               /\ bmm_commitment[n] = b /\ prev_block_hash[n] = prev_main_hash[b]
                        => r.bmm_results[b][n] # "absent"
    <3>1. b \in SideBlock /\ n \in MainBlock
      BY <2>1
    <3>2. n \in ValidBmm[b] => bmm_commitment[n] = b
      BY <3>1, ValidFacts DEF ValidFrom
    <3>3. CASE b = c /\ n = m
      BY <2>3, <2>6, <2>7, <3>1, <3>3
    <3>4. CASE n # m \/ b # c
      <4>1. CASE n \in a.main
        BY <1>1, <2>3, <3>1, <3>4, <4>1 DEF ResultsOK
      <4>2. CASE n = m
        BY <3>2, <3>4, <4>2
      <4> QED
        BY <4>1, <4>2
    <3> QED
      BY <3>3, <3>4
  <2> QED
    BY <1>2, <2>4, <2>8, <2>9 DEF ResultsOK
<1> QED
  BY <1>2, <1>3, <1>4, <1>5, <1>6 DEF Sound

HeaderResults(a, b) ==
    [a.bmm_results EXCEPT ![b] = [m \in MainBlock |->
        IF m \in a.main /\ prev_block_hash[m] = prev_main_hash[b]
        THEN bmm_result(a, b, m) ELSE a.bmm_results[b][m]]]

LEMMA PutHeaderFields ==
    ASSUME NEW a \in Databases, NEW b \in SideBlock, NEW r, r = put_header(a, b)
    PROVE  /\ r \in Databases /\ SameTips(a, r) /\ r.headers = a.headers \cup {b}
           /\ r.bodies = a.bodies /\ r.invalid_blocks = a.invalid_blocks
           /\ r.txid_to_inclusions = a.txid_to_inclusions
           /\ r.main = a.main /\ r.bmm_results = HeaderResults(a, b)
<1>1. /\ SameTips(a, r) /\ r.headers = a.headers \cup {b}
      /\ r.bodies = a.bodies /\ r.invalid_blocks = a.invalid_blocks
      /\ r.txid_to_inclusions = a.txid_to_inclusions
      /\ r.main = a.main /\ r.bmm_results = HeaderResults(a, b)
  BY DEF put_header, HeaderResults, Databases, SameTips
<1>2. HeaderResults(a, b) \in [SideBlock -> [MainBlock -> BmmResult]]
  BY BmmResultTyped, DatabaseFacts DEF HeaderResults
<1>3. r = [a EXCEPT !.headers = a.headers \cup {b}, !.bmm_results = HeaderResults(a, b)]
  BY DEF put_header, HeaderResults, Databases
<1>4. a.headers \cup {b} \in SUBSET SideBlock
  BY DatabaseFacts
<1> HIDE DEF HeaderResults
<1>5. r \in Databases
  BY <1>2, <1>3, <1>4 DEF Databases
<1> QED
  BY <1>1, <1>5

LEMMA PutHeaderSound ==
    ASSUME NEW a, Sound(a), NEW b \in SideBlock, ~put_header_refused(a, b),
           NEW r, r = put_header(a, b)
    PROVE  Sound(r)
<1>1. /\ a \in Databases /\ HeadersOK(a) /\ MainOK(a) /\ ResultsOK(a) /\ TipsOK(a) /\ OrderOK(a)
  BY DEF Sound
<1>2. /\ r \in Databases /\ SameTips(a, r) /\ r.headers = a.headers \cup {b}
      /\ r.bodies = a.bodies /\ r.invalid_blocks = a.invalid_blocks
      /\ r.main = a.main /\ r.bmm_results = HeaderResults(a, b)
  BY <1>1, PutHeaderFields
<1>3. prev_side_hash[b] # None => prev_side_hash[b] \in a.headers
  BY DEF put_header_refused
<1>4. /\ a.headers \subseteq SideBlock /\ a.main \subseteq MainBlock
      /\ a.bmm_results \in [SideBlock -> [MainBlock -> BmmResult]]
  BY <1>1, DatabaseFacts
<1>5. HeadersOK(r)
  <2>1. ancestors[b] \subseteq a.headers \cup {b}
    BY <1>1, <1>3, SideFacts DEF HeadersOK
  <2> QED
    BY <1>1, <1>2, <2>1 DEF HeadersOK
<1>6. TipsOK(r) /\ OrderOK(r) /\ MainOK(r)
  BY <1>1, <1>2, KeepsTips, KeepsOrder DEF SameTips, MainOK
<1>7. ResultsOK(r)
  <2> DEFINE v(m) == bmm_result(a, b, m)
             J(m) == m \in a.main /\ prev_block_hash[m] = prev_main_hash[b]
  <2>1. \A c \in SideBlock, n \in MainBlock :
            r.bmm_results[c][n] = IF c = b /\ J(n) THEN v(n) ELSE a.bmm_results[c][n]
    BY <1>2, <1>4 DEF HeaderResults
  <2>2. \A n \in MainBlock : v(n) = "Verified" => n \in ValidBmm[b]
    BY <1>1, BmmResultOnly
  <2>3. \A n \in a.main : n \in ValidBmm[b] => v(n) = "Verified"
    <3> SUFFICES ASSUME NEW n \in a.main, n \in ValidBmm[b] PROVE v(n) = "Verified"
      OBVIOUS
    <3>1. main_ancestors[n] \ {n} \subseteq a.main
      BY <1>1, <1>4, MainClosed
    <3> QED
      BY <1>1, <1>3, <1>4, <3>1, BmmResultAll
  <2>4. \A n : v(n) # "absent"
    BY BmmResultTyped
  <2>5. \A n \in MainBlock : n \in ValidBmm[b] => prev_block_hash[n] = prev_main_hash[b]
    BY ValidFacts DEF ValidFrom
  <2> HIDE DEF v
  <2>6. ASSUME NEW c \in SideBlock, NEW n \in MainBlock, r.bmm_results[c][n] = "Verified"
        PROVE  n \in ValidBmm[c]
    BY <1>1, <2>1, <2>2, <2>6 DEF ResultsOK
  <2>7. ASSUME NEW c \in a.headers \cup {b}, NEW n \in a.main
        PROVE  /\ n \in ValidBmm[c] => r.bmm_results[c][n] = "Verified"
               /\ bmm_commitment[n] = c /\ prev_block_hash[n] = prev_main_hash[c]
                        => r.bmm_results[c][n] # "absent"
    <3>1. c \in SideBlock /\ n \in MainBlock
      BY <1>4
    <3>2. CASE c = b
      BY <2>1, <2>3, <2>4, <2>5, <3>1, <3>2
    <3>3. CASE c # b
      BY <1>1, <2>1, <3>1, <3>3 DEF ResultsOK
    <3> QED
      BY <3>2, <3>3
  <2> QED
    BY <1>2, <2>6, <2>7 DEF ResultsOK
<1> QED
  BY <1>2, <1>5, <1>6, <1>7 DEF Sound

-----------------------------------------------------------------------------
(***************************************************************************)
(* request_ancestor_infos: the infos of the unknown ancestors.             *)
(***************************************************************************)
InfosEq(f, a) ==
    f = [n \in MainBlock \cup {ZeroHash} |->
            IF n \in a.main \cup {ZeroHash} THEN a ELSE put_main_info(f[prev_block_hash[n]], n)]

LEMMA InfosExist ==
    ASSUME NEW a \in Databases
    PROVE  \E f : InfosEq(f, a)
<1> DEFINE N == MainBlock
           z == ZeroHash
           A == Databases
           X == a.main \cup {z}
           G == [n \in X |-> a]
           F == [p \in A \X N |-> put_main_info(p[1], p[2])]
<1>1. \A d \in A, n \in N : put_main_info(d, n) \in A
  BY PutMainFields
<1>2. /\ G \in [X -> A] /\ F \in [A \X N -> A] /\ X \in SUBSET (N \cup {z}) /\ z \in X
      /\ IsChain(N, z, prev_block_hash)
  BY <1>1, MainChain, DatabaseFacts
<1>3. PICK f \in [N \cup {z} -> A] : ByParent(f, N, z, prev_block_hash, X, G, F)
  <2> HIDE DEF N, z, A, X, G, F
  <2> QED
    BY <1>2, Walk
<1>4. ASSUME NEW n \in MainBlock \cup {ZeroHash}
      PROVE  f[n] = IF n \in a.main \cup {ZeroHash} THEN a
                    ELSE put_main_info(f[prev_block_hash[n]], n)
  <2>1. CASE n \in X
    BY <1>3, <2>1 DEF ByParent
  <2>2. CASE n \notin X
    <3>1. n \in N /\ prev_block_hash[n] \in N \cup {z}
      BY <2>2, BlocksAssumption
    <3>2. f[n] = F[<<f[prev_block_hash[n]], n>>]
      BY <1>3, <2>2 DEF ByParent
    <3> QED
      BY <2>2, <3>1, <3>2
  <2> QED
    BY <2>1, <2>2
<1>5. InfosEq(f, a)
  <2> HIDE DEF A
  <2> QED
    BY <1>4 DEF InfosEq
<1> QED
  BY <1>5

LEMMA PutMainInfosSound ==
    ASSUME NEW a, Sound(a), NEW m \in MainBlock, NEW r, r = put_main_infos(a, m)
    PROVE  Sound(r) /\ r.mainchain_tip = a.mainchain_tip
<1>1. a \in Databases /\ MainOK(a) /\ a.main \subseteq MainBlock
  BY DatabaseFacts DEF Sound
<1> DEFINE f == CHOOSE h : InfosEq(h, a)
<1>2. InfosEq(f, a)
  BY <1>1, InfosExist
<1>3. r = f[m]
  BY DEF put_main_infos, InfosEq
<1> HIDE DEF f
<1> DEFINE P(n) == /\ Sound(f[n]) /\ n \in f[n].main \cup {ZeroHash}
                   /\ f[n].mainchain_tip = a.mainchain_tip
           C == {n \in MainBlock : ~P(n)}
<1>4. \A n \in a.main \cup {ZeroHash} : P(n)
  BY <1>1, <1>2 DEF InfosEq
<1>5. C = {}
  <2> SUFFICES ASSUME C # {} PROVE FALSE
    OBVIOUS
  <2>1. PICK n \in C : prev_block_hash[n] \notin C
    BY ChainsAssumption DEF Rooted
  <2> DEFINE p == prev_block_hash[n]
  <2>2. n \in MainBlock /\ n \notin a.main \cup {ZeroHash} /\ p \in MainBlock \cup {ZeroHash}
    BY <1>4, BlocksAssumption
  <2>3. P(p)
    BY <1>4, <2>1, <2>2
  <2>4. f[n] = put_main_info(f[p], n)
    BY <1>2, <2>2 DEF InfosEq
  <2>5. Sound(f[n])
    BY <2>2, <2>3, <2>4, PutMainSound
  <2>6. f[n].main = f[p].main \cup {n} /\ f[n].mainchain_tip = f[p].mainchain_tip
    <3>1. f[p] \in Databases
      BY <2>3 DEF Sound
    <3>2. f[n].main = f[p].main \cup {n} /\ SameTips(f[p], f[n])
      BY <2>2, <2>4, <3>1, PutMainFields
    <3> QED
      BY <3>2 DEF SameTips
  <2> QED
    BY <2>3, <2>5, <2>6
<1> QED
  BY <1>3, <1>5

-----------------------------------------------------------------------------
(***************************************************************************)
(* SideTips: connect_mainchain_tip and disconnect_mainchain_tip.           *)
(***************************************************************************)
\* r is a with tips and an order of its own, at the mainchain block m.
TipsMoved(a, r, m, s, o) ==
    r = [a EXCEPT !.mainchain_tip = m, !.sidechain_tips = s, !.ordered_sidechain_tips = o]

LEMMA TipsMovedFields ==
    ASSUME NEW a \in Databases, NEW m \in MainBlock \cup {ZeroHash},
           NEW s \in Partial(SideBlock, TipInfo), NEW o \in Partial(TipInfo, SideBlock),
           NEW r, TipsMoved(a, r, m, s, o)
    PROVE  /\ r \in Databases /\ SameBlocks(a, r) /\ SameMain(a, r)
           /\ r.mainchain_tip = m /\ r.sidechain_tips = s /\ r.ordered_sidechain_tips = o
<1>1. /\ SameBlocks(a, r) /\ SameMain(a, r)
      /\ r.mainchain_tip = m /\ r.sidechain_tips = s /\ r.ordered_sidechain_tips = o
  BY DEF TipsMoved, Databases, SameBlocks, SameMain
<1>2. r \in Databases
  BY DEF TipsMoved, Databases
<1> QED
  BY <1>1, <1>2

\* The info with which connect_sidechain_tip stores b.
NewInfo(a, m, b) ==
    [height |-> IF prev_side_hash[b] = None THEN 0
                ELSE a.sidechain_tips[prev_side_hash[b]].height + 1,
     work |-> total_work[m], main_block_hash |-> m]

LEMMA NewInfoTyped ==
    ASSUME NEW a \in Databases, NEW m \in MainBlock, NEW b \in SideBlock, ParentHasTip(a, b)
    PROVE  NewInfo(a, m, b) \in TipInfo /\ NewInfo(a, m, b).main_block_hash = m
<1>1. \A c \in DOMAIN a.sidechain_tips : a.sidechain_tips[c] \in TipInfo
  BY DatabaseFacts
<1>2. prev_side_hash[b] # None => a.sidechain_tips[prev_side_hash[b]].height \in Nat
  BY <1>1 DEF TipInfo, ParentHasTip, HasTip
<1> QED
  BY <1>2 DEF NewInfo, TipInfo

\* connect_mainchain_tip stores the commitment of m as a tip, or nothing.
LEMMA ConnectMainFields ==
    ASSUME NEW a \in Databases, NEW m \in MainBlock, NEW r, r = connect_mainchain_tip(a, m)
    PROVE  \/ TipsMoved(a, r, m, a.sidechain_tips, a.ordered_sidechain_tips)
           \/ \E b \in DOMAIN a.bodies, i \in TipInfo :
                /\ b = bmm_commitment[m] /\ i.main_block_hash = m
                /\ ParentHasTip(a, b) /\ ~HasTip(a, b) /\ a.bmm_results[b][m] = "Verified"
                /\ TipsMoved(a, r, m, Put(a.sidechain_tips, b, i), Put(a.ordered_sidechain_tips, i, b))
<1> DEFINE b == ConnectedCommitment(a, m)
           i == NewInfo(a, m, b)
<1>1. DOMAIN a.bodies \subseteq SideBlock /\ None \notin SideBlock
  BY DatabaseFacts, BlocksAssumption
<1>2. CASE b = None \/ HasTip(a, b)
  BY <1>2 DEF connect_mainchain_tip, connect_sidechain_tip, TipsMoved, Databases
<1>3. CASE b # None /\ ~HasTip(a, b)
  <2>1. b = bmm_commitment[m] /\ b \in DOMAIN a.bodies /\ ParentHasTip(a, b)
        /\ a.bmm_results[b][m] = "Verified"
    BY <1>3 DEF ConnectedCommitment
  <2>2. i \in TipInfo /\ i.main_block_hash = m
    BY <1>1, <2>1, NewInfoTyped
  <2>3. TipsMoved(a, r, m, Put(a.sidechain_tips, b, i), Put(a.ordered_sidechain_tips, i, b))
    <3>1. connect_sidechain_tip(a, m, b)
            = [a EXCEPT !.sidechain_tips = Put(a.sidechain_tips, b, i),
                        !.ordered_sidechain_tips = Put(a.ordered_sidechain_tips, i, b)]
      BY <1>3 DEF connect_sidechain_tip, NewInfo, Databases
    <3>2. r = [connect_sidechain_tip(a, m, b) EXCEPT !.mainchain_tip = m]
      BY <1>3 DEF connect_mainchain_tip
    <3> HIDE DEF b, i
    <3> QED
      BY <3>1, <3>2 DEF TipsMoved, Databases
  <2> HIDE DEF b, i
  <2> QED
    BY <1>3, <2>1, <2>2, <2>3
<1> QED
  BY <1>2, <1>3

LEMMA ConnectMainTyped ==
    ASSUME NEW a \in Databases, NEW m \in MainBlock, NEW r, r = connect_mainchain_tip(a, m)
    PROVE  r \in Databases /\ SameBlocks(a, r) /\ SameMain(a, r) /\ r.mainchain_tip = m
<1>1. /\ a.sidechain_tips \in Partial(SideBlock, TipInfo) /\ DOMAIN a.bodies \subseteq SideBlock
      /\ a.ordered_sidechain_tips \in Partial(TipInfo, SideBlock)
  BY DatabaseFacts
<1>2. CASE TipsMoved(a, r, m, a.sidechain_tips, a.ordered_sidechain_tips)
  BY <1>1, <1>2, TipsMovedFields
<1>3. ASSUME NEW b \in DOMAIN a.bodies, NEW i \in TipInfo,
             TipsMoved(a, r, m, Put(a.sidechain_tips, b, i), Put(a.ordered_sidechain_tips, i, b))
      PROVE  r \in Databases /\ SameBlocks(a, r) /\ SameMain(a, r) /\ r.mainchain_tip = m
  <2>1. Put(a.sidechain_tips, b, i) \in Partial(SideBlock, TipInfo)
    BY <1>1, PutFacts
  <2>2. Put(a.ordered_sidechain_tips, i, b) \in Partial(TipInfo, SideBlock)
    BY <1>1, PutFacts
  <2> QED
    BY <1>3, <2>1, <2>2, TipsMovedFields
<1> QED
  BY <1>2, <1>3, ConnectMainFields

\* A tip more, whose parent is one, keeps TipsOK and OrderOK.
LEMMA TipAdded ==
    ASSUME NEW a \in Databases, HeadersOK(a), TipsOK(a), OrderOK(a),
           NEW m \in MainBlock, prev_block_hash[m] = a.mainchain_tip,
           NEW b \in DOMAIN a.bodies, NEW i \in TipInfo, b = bmm_commitment[m],
           i.main_block_hash = m, ParentHasTip(a, b), ~HasTip(a, b), NEW r,
           TipsMoved(a, r, m, Put(a.sidechain_tips, b, i), Put(a.ordered_sidechain_tips, i, b))
    PROVE  TipsOK(r) /\ OrderOK(r)
<1> DEFINE s == Put(a.sidechain_tips, b, i)
           o == Put(a.ordered_sidechain_tips, i, b)
<1>1. /\ a.sidechain_tips \in Partial(SideBlock, TipInfo) /\ DOMAIN a.bodies \subseteq SideBlock
      /\ a.ordered_sidechain_tips \in Partial(TipInfo, SideBlock)
  BY DatabaseFacts
<1>a. s = Put(a.sidechain_tips, b, i) /\ o = Put(a.ordered_sidechain_tips, i, b) /\ b \in SideBlock
  BY <1>1
<1> HIDE DEF s, o
<1>b. s \in Partial(SideBlock, TipInfo) /\ IsPut(s, a.sidechain_tips, b, i)
  BY <1>1, <1>a, PutFacts
<1>c. o \in Partial(TipInfo, SideBlock) /\ IsPut(o, a.ordered_sidechain_tips, i, b)
  BY <1>1, <1>a, PutFacts
<1>2. /\ DOMAIN s = DOMAIN a.sidechain_tips \cup {b}
      /\ s[b] = i /\ \A x \in DOMAIN a.sidechain_tips : x # b => s[x] = a.sidechain_tips[x]
  BY <1>b DEF IsPut
<1>3. /\ DOMAIN o = DOMAIN a.ordered_sidechain_tips \cup {i} /\ o[i] = b
      /\ \A x \in DOMAIN a.ordered_sidechain_tips : x # i => o[x] = a.ordered_sidechain_tips[x]
  BY <1>c DEF IsPut
<1>4. /\ SameBlocks(a, r) /\ r.mainchain_tip = m
      /\ r.sidechain_tips = s /\ r.ordered_sidechain_tips = o
  BY <1>b, <1>c, TipsMovedFields DEF s, o
<1>5. TipsOK(r)
  BY <1>2, <1>4 DEF TipsOK, ParentHasTip, HasTip, HeadersOK, SameBlocks
<1>6. main_ancestors[a.mainchain_tip] \subseteq main_ancestors[m] /\ m \in main_ancestors[m]
  BY MainFacts
<1>7. OrderOK(r)
  <2> SUFFICES ASSUME NEW j \in DOMAIN o
               PROVE  /\ j.main_block_hash \in main_ancestors[m]
                      /\ o[j] \in DOMAIN s /\ s[o[j]] = j /\ bmm_commitment[j.main_block_hash] = o[j]
    BY <1>4 DEF OrderOK
  <2>1. CASE j = i
    BY <1>2, <1>3, <1>6, <2>1
  <2>2. CASE j # i
    <3>1. j \in DOMAIN a.ordered_sidechain_tips /\ o[j] = a.ordered_sidechain_tips[j]
      BY <1>3, <2>2
    <3>2. /\ j.main_block_hash \in main_ancestors[a.mainchain_tip]
          /\ o[j] \in DOMAIN a.sidechain_tips /\ a.sidechain_tips[o[j]] = j
          /\ bmm_commitment[j.main_block_hash] = o[j]
      BY <3>1 DEF OrderOK
    <3> QED
      BY <1>2, <1>6, <3>2 DEF HasTip
  <2> QED
    BY <2>1, <2>2
<1> QED
  BY <1>5, <1>7

LEMMA ConnectMainSound ==
    ASSUME NEW a, Sound(a), NEW m \in a.main, ~connect_mainchain_tip_refused(a, m),
           NEW r, r = connect_mainchain_tip(a, m)
    PROVE  Sound(r) /\ Grows(a, r)
<1>1. /\ a \in Databases /\ HeadersOK(a) /\ MainOK(a) /\ ResultsOK(a) /\ TipsOK(a) /\ OrderOK(a)
  BY DEF Sound
<1>2. m \in MainBlock /\ prev_block_hash[m] = a.mainchain_tip
  BY <1>1, DatabaseFacts DEF connect_mainchain_tip_refused
<1>3. r \in Databases /\ SameBlocks(a, r) /\ SameMain(a, r) /\ r.mainchain_tip = m
  BY <1>1, <1>2, ConnectMainTyped
<1>4. HeadersOK(r)
  BY <1>1, <1>3, KeepsHeaders
<1>5. ResultsOK(r) /\ MainOK(r)
  BY <1>1, <1>3, KeepsResults DEF SameBlocks, SameMain, MainOK
<1>6. TipsOK(r) /\ OrderOK(r) /\ Grows(a, r)
  <2>1. CASE TipsMoved(a, r, m, a.sidechain_tips, a.ordered_sidechain_tips)
    <3>1. r.sidechain_tips = a.sidechain_tips /\ r.ordered_sidechain_tips = a.ordered_sidechain_tips
      BY <1>1, <1>2, <2>1, DatabaseFacts, TipsMovedFields
    <3>2. TipsOK(r)
      BY <1>1, <1>3, <3>1, KeepsTips DEF SameBlocks
    <3>3. main_ancestors[a.mainchain_tip] \subseteq main_ancestors[m]
      BY <1>2, MainFacts
    <3>4. OrderOK(r)
      BY <1>1, <1>3, <3>1, <3>3 DEF OrderOK
    <3>5. Grows(a, r)
      BY <1>3, <3>1, SameTipsGrow DEF SameBlocks, SameMain
    <3> QED
      BY <3>2, <3>4, <3>5
  <2>2. ASSUME NEW b \in DOMAIN a.bodies, NEW i \in TipInfo, b = bmm_commitment[m],
               i.main_block_hash = m, ParentHasTip(a, b), ~HasTip(a, b),
               a.bmm_results[b][m] = "Verified",
               TipsMoved(a, r, m, Put(a.sidechain_tips, b, i), Put(a.ordered_sidechain_tips, i, b))
        PROVE  TipsOK(r) /\ OrderOK(r) /\ Grows(a, r)
    <3>1. TipsOK(r) /\ OrderOK(r)
      BY <1>1, <1>2, <2>2, TipAdded
    <3>2. b \in SideBlock /\ a.sidechain_tips \in Partial(SideBlock, TipInfo)
      BY <1>1, DatabaseFacts
    <3>3. r.sidechain_tips = Put(a.sidechain_tips, b, i)
      BY <1>1, <2>2 DEF TipsMoved, Databases
    <3>4. IsPut(r.sidechain_tips, a.sidechain_tips, b, i)
      BY <3>2, <3>3, PutFacts
    <3>5. m \in ValidBmm[b]
      BY <1>1, <1>2, <2>2, <3>2 DEF ResultsOK
    <3>6. Grows(a, r)
      BY <1>3, <2>2, <3>4, <3>5 DEF Grows, IsPut, SameBlocks, SameMain, ParentHasTip, HasTip
    <3> QED
      BY <3>1, <3>6
  <2> QED
    BY <1>1, <1>2, <2>1, <2>2, ConnectMainFields
<1> QED
  BY <1>3, <1>4, <1>5, <1>6 DEF Sound

\* The blocks of M are disconnected, down to the block t.
LEMMA DisconnectTyped ==
    ASSUME NEW a \in Databases, NEW M, NEW t \in MainBlock \cup {ZeroHash},
           NEW r, r = disconnect_mainchain_tips(a, M, t)
    PROVE  /\ r \in Databases /\ SameBlocks(a, r) /\ SameMain(a, r) /\ r.mainchain_tip = t
           /\ r.sidechain_tips = a.sidechain_tips
           /\ \E K : /\ r.ordered_sidechain_tips = Delete(a.ordered_sidechain_tips, K)
                     /\ \A b \in DOMAIN a.sidechain_tips :
                            LET i == a.sidechain_tips[b]
                            IN  i.main_block_hash \in M /\ bmm_commitment[i.main_block_hash] = b => i \in K
<1> DEFINE L == {b \in DOMAIN a.sidechain_tips :
                    LET m == a.sidechain_tips[b].main_block_hash
                    IN  m \in M /\ bmm_commitment[m] = b}
           K == {a.sidechain_tips[b] : b \in L}
           o == Delete(a.ordered_sidechain_tips, K)
<1>1. a.sidechain_tips \in Partial(SideBlock, TipInfo) /\ o \in Partial(TipInfo, SideBlock)
  BY DatabaseFacts, DeleteFacts
<1>2. TipsMoved(a, r, t, a.sidechain_tips, o)
  BY DEF disconnect_mainchain_tips, TipsMoved, Databases
<1>3. \A b \in DOMAIN a.sidechain_tips :
            LET i == a.sidechain_tips[b]
            IN  i.main_block_hash \in M /\ bmm_commitment[i.main_block_hash] = b => i \in K
  OBVIOUS
<1>4. o = Delete(a.ordered_sidechain_tips, K)
  OBVIOUS
<1> HIDE DEF o, K
<1>5. /\ r \in Databases /\ SameBlocks(a, r) /\ SameMain(a, r) /\ r.mainchain_tip = t
      /\ r.sidechain_tips = a.sidechain_tips /\ r.ordered_sidechain_tips = o
  BY <1>1, <1>2, TipsMovedFields
<1> QED
  BY <1>3, <1>4, <1>5

LEMMA DisconnectSound ==
    ASSUME NEW a, Sound(a), NEW M, NEW t \in a.main \cup {ZeroHash},
           main_ancestors[a.mainchain_tip] \ M \subseteq main_ancestors[t],
           NEW r, r = disconnect_mainchain_tips(a, M, t)
    PROVE  Sound(r)
<1>1. /\ a \in Databases /\ HeadersOK(a) /\ MainOK(a) /\ ResultsOK(a) /\ TipsOK(a) /\ OrderOK(a)
  BY DEF Sound
<1>2. t \in MainBlock \cup {ZeroHash}
  BY <1>1, DatabaseFacts
<1>3. /\ r \in Databases /\ SameBlocks(a, r) /\ SameMain(a, r) /\ r.mainchain_tip = t
      /\ r.sidechain_tips = a.sidechain_tips
  BY <1>1, <1>2, DisconnectTyped
<1>4. PICK K : /\ r.ordered_sidechain_tips = Delete(a.ordered_sidechain_tips, K)
               /\ \A b \in DOMAIN a.sidechain_tips :
                    LET i == a.sidechain_tips[b]
                    IN  i.main_block_hash \in M /\ bmm_commitment[i.main_block_hash] = b => i \in K
  BY <1>1, <1>2, DisconnectTyped
<1>5. HeadersOK(r) /\ TipsOK(r)
  BY <1>1, <1>3, KeepsHeaders, KeepsTips DEF SameBlocks
<1>6. ResultsOK(r) /\ MainOK(r)
  BY <1>1, <1>3, KeepsResults DEF SameBlocks, SameMain, MainOK
<1> DEFINE o == r.ordered_sidechain_tips
           q == a.ordered_sidechain_tips
<1>7. DOMAIN o = DOMAIN q \ K /\ \A i \in DOMAIN o : o[i] = q[i]
  <2>1. q \in Partial(TipInfo, SideBlock) /\ o = Delete(q, K)
    BY <1>1, <1>4, DatabaseFacts
  <2> HIDE DEF o, q
  <2>2. IsDelete(o, q, K)
    BY <2>1, DeleteFacts
  <2> QED
    BY <2>2 DEF IsDelete
<1>8. OrderOK(r)
  <2> SUFFICES ASSUME NEW i \in DOMAIN o
               PROVE  /\ i.main_block_hash \in main_ancestors[t]
                      /\ o[i] \in DOMAIN a.sidechain_tips /\ a.sidechain_tips[o[i]] = i
                      /\ bmm_commitment[i.main_block_hash] = o[i]
    BY <1>3 DEF OrderOK
  <2>1. i \in DOMAIN q /\ i \notin K /\ o[i] = q[i]
    BY <1>7
  <2>2. /\ i.main_block_hash \in main_ancestors[a.mainchain_tip]
        /\ q[i] \in DOMAIN a.sidechain_tips /\ a.sidechain_tips[q[i]] = i
        /\ bmm_commitment[i.main_block_hash] = q[i]
    BY <1>1, <2>1 DEF OrderOK
  <2>3. i.main_block_hash \notin M
    BY <1>4, <2>1, <2>2
  <2> QED
    BY <2>1, <2>2, <2>3
<1> QED
  BY <1>3, <1>5, <1>6, <1>8 DEF Sound

-----------------------------------------------------------------------------
(***************************************************************************)
(* sync_side_tips_to_tip: down to the common ancestor, and up to the tip.  *)
(***************************************************************************)
Results == [archive : Databases, ok : BOOLEAN]

SyncEq(f, below, start) ==
    f = [m \in MainBlock \cup {ZeroHash} |->
            IF m \in below \cup {ZeroHash} THEN start ELSE UpOne(f[prev_block_hash[m]], m)]

LEMMA UpOneTyped ==
    ASSUME NEW r \in Results, NEW m \in MainBlock
    PROVE  UpOne(r, m) \in Results
<1>1. connect_mainchain_tip(r.archive, m) \in Databases /\ r.archive \in Databases
  BY ConnectMainTyped DEF Results
<1> QED
  BY <1>1 DEF UpOne, Result, Results

LEMMA SyncExists ==
    ASSUME NEW below \in SUBSET MainBlock, NEW start \in Results
    PROVE  \E f : SyncEq(f, below, start)
<1> DEFINE N == MainBlock
           z == ZeroHash
           A == Results
           X == below \cup {z}
           G == [n \in X |-> start]
           F == [p \in A \X N |-> UpOne(p[1], p[2])]
<1>1. \A r \in A, n \in N : UpOne(r, n) \in A
  BY UpOneTyped
<1>2. /\ G \in [X -> A] /\ F \in [A \X N -> A] /\ X \in SUBSET (N \cup {z}) /\ z \in X
      /\ IsChain(N, z, prev_block_hash)
  BY <1>1, MainChain
<1>3. PICK f \in [N \cup {z} -> A] : ByParent(f, N, z, prev_block_hash, X, G, F)
  <2> HIDE DEF N, z, A, X, G, F
  <2> QED
    BY <1>2, Walk
<1>4. ASSUME NEW n \in MainBlock \cup {ZeroHash}
      PROVE  f[n] = IF n \in below \cup {ZeroHash} THEN start ELSE UpOne(f[prev_block_hash[n]], n)
  <2>1. CASE n \in X
    BY <1>3, <2>1 DEF ByParent
  <2>2. CASE n \notin X
    <3>1. n \in N /\ prev_block_hash[n] \in N \cup {z}
      BY <2>2, BlocksAssumption
    <3>2. f[n] = F[<<f[prev_block_hash[n]], n>>]
      BY <1>3, <2>2 DEF ByParent
    <3> QED
      BY <2>2, <3>1, <3>2
  <2> QED
    BY <2>1, <2>2
<1>5. SyncEq(f, below, start)
  <2> HIDE DEF A
  <2> QED
    BY <1>4 DEF SyncEq
<1> QED
  BY <1>5

\* Up the known mainchain blocks, a step that is refused or not.
LEMMA UpOneSound ==
    ASSUME NEW r, Sound(r.archive), NEW m \in r.archive.main, NEW s, s = UpOne(r, m)
    PROVE  /\ Sound(s.archive) /\ s.archive.main = r.archive.main
           /\ Grows(r.archive, s.archive)
           /\ s.ok => s.archive.mainchain_tip = m
<1> DEFINE c == connect_mainchain_tip(r.archive, m)
<1>1. CASE ~r.ok \/ connect_mainchain_tip_refused(r.archive, m)
  <2>1. s = [archive |-> r.archive, ok |-> FALSE]
    BY <1>1 DEF UpOne, Result
  <2> QED
    BY <2>1, SameTipsGrow
<1>2. CASE ~(~r.ok \/ connect_mainchain_tip_refused(r.archive, m))
  <2>1. s = [archive |-> c, ok |-> TRUE]
    BY <1>2 DEF UpOne, Result
  <2>2. Sound(c) /\ Grows(r.archive, c)
    BY <1>2, ConnectMainSound
  <2>3. r.archive \in Databases /\ m \in MainBlock
    BY DatabaseFacts DEF Sound
  <2>4. SameMain(r.archive, c) /\ c.mainchain_tip = m
    BY <2>3, ConnectMainTyped
  <2> HIDE DEF c
  <2> QED
    BY <2>1, <2>2, <2>4 DEF SameMain
<1> QED
  BY <1>1, <1>2

LEMMA SyncSound ==
    ASSUME NEW a, Sound(a), NEW t \in a.main, NEW r, r = sync_side_tips_to_tip(a, t)
    PROVE  /\ Sound(r.archive) /\ Grows(a, r.archive)
           /\ r.ok => r.archive.mainchain_tip # ZeroHash
<1> DEFINE common == last_common_main_ancestor(t, a.mainchain_tip)
           below == main_ancestors[common]
           down == main_ancestors[a.mainchain_tip] \ below
           d == disconnect_mainchain_tips(a, down, common)
           start == Result(d, ~disconnect_mainchain_tips_refused(a, down))
           f == CHOOSE h : SyncEq(h, below, start)
<1>1. a \in Databases /\ MainOK(a) /\ a.main \subseteq MainBlock
      /\ a.mainchain_tip \in MainBlock \cup {ZeroHash}
  BY DatabaseFacts DEF Sound
<1>2. /\ common = ZeroHash \/ common \in main_ancestors[t]
      /\ common \in MainBlock \cup {ZeroHash}
  BY <1>1, LastCommonMain
<1>3. common \in a.main \cup {ZeroHash} /\ below \subseteq MainBlock
  BY <1>1, <1>2, MainClosed, MainAncestors DEF IsAncestors
<1>4. Sound(d)
  BY <1>3, DisconnectSound
<1>5. d \in Databases /\ d.main = a.main /\ d.mainchain_tip = common /\ Grows(a, d)
  BY <1>1, <1>2, DisconnectTyped, SameTipsGrow DEF SameMain, SameBlocks
<1>6. start \in Results /\ start.archive = d
  BY <1>5 DEF Result, Results
<1>7. r = f[t]
  BY DEF sync_side_tips_to_tip, SyncEq
<1> HIDE DEF d, start, below, common
<1>8. SyncEq(f, below, start)
  BY <1>3, <1>6, SyncExists
<1> HIDE DEF f
<1>9. \A m \in a.main \cup {ZeroHash} : m \in below \cup {ZeroHash} => f[m] = start
  BY <1>1, <1>8 DEF SyncEq
<1>10. \A m \in a.main : m \notin below \cup {ZeroHash} => f[m] = UpOne(f[prev_block_hash[m]], m)
  BY <1>1, <1>8 DEF SyncEq
<1> DEFINE P(m) == Sound(f[m].archive) /\ f[m].archive.main = a.main /\ Grows(a, f[m].archive)
           C == {m \in a.main : ~P(m)}
<1>11. P(ZeroHash)
  BY <1>4, <1>5, <1>6, <1>9
<1>12. C = {}
  <2> SUFFICES ASSUME C # {} PROVE FALSE
    OBVIOUS
  <2>1. PICK m \in C : prev_block_hash[m] \notin C
    BY <1>1, ChainsAssumption DEF Rooted
  <2>2. m \in a.main /\ prev_block_hash[m] \in a.main \cup {ZeroHash}
    BY <1>1 DEF MainOK
  <2>3. m \notin below \cup {ZeroHash}
    BY <1>4, <1>5, <1>6, <1>9
  <2>4. P(prev_block_hash[m])
    BY <1>11, <2>1, <2>2
  <2>5. f[m] = UpOne(f[prev_block_hash[m]], m)
    BY <1>10, <2>2, <2>3
  <2> QED
    BY <2>2, <2>4, <2>5, UpOneSound, GrowsTransitive
<1>13. CASE t \in below
  <2>1. common # ZeroHash
    BY <1>13, MainAncestors DEF below, IsAncestors
  <2> QED
    BY <1>4, <1>5, <1>6, <1>7, <1>9, <1>13, <2>1
<1>14. CASE t \notin below
  <2>1. t # ZeroHash /\ f[t] = UpOne(f[prev_block_hash[t]], t)
    BY <1>1, <1>10, <1>14, BlocksAssumption
  <2>2. P(prev_block_hash[t])
    BY <1>1, <1>11, <1>12 DEF MainOK
  <2>3. Sound(r.archive) /\ Grows(a, r.archive) /\ (r.ok => r.archive.mainchain_tip = t)
    BY <1>7, <2>1, <2>2, UpOneSound, GrowsTransitive
  <2> QED
    BY <2>1, <2>3
<1> QED
  BY <1>13, <1>14

-----------------------------------------------------------------------------
(***************************************************************************)
(* put_body: the blocks that become tips with it.                          *)
(***************************************************************************)
ChildEq(f, a, N) ==
    f = [d \in SideBlock \cup {None} |->
            IF d \in N THEN f[prev_side_hash[d]] + 1
            ELSE IF HasTip(a, d) THEN a.sidechain_tips[d].height + 1 ELSE 0]

LEMMA ChildExists ==
    ASSUME NEW a \in Databases, NEW N \in SUBSET SideBlock
    PROVE  \E f : ChildEq(f, a, N)
<1> DEFINE S == SideBlock
           z == None
           A == Nat
           X == (S \cup {z}) \ N
           G == [d \in X |-> IF HasTip(a, d) THEN a.sidechain_tips[d].height + 1 ELSE 0]
           F == [p \in A \X S |-> p[1] + 1]
<1>1. \A d \in DOMAIN a.sidechain_tips : a.sidechain_tips[d].height \in Nat
  BY DatabaseFacts DEF TipInfo
<1>2. /\ G \in [X -> A] /\ F \in [A \X S -> A] /\ X \in SUBSET (S \cup {z}) /\ z \in X
      /\ IsChain(S, z, prev_side_hash)
  BY <1>1, SideChain, BlocksAssumption DEF HasTip
<1>3. PICK f \in [S \cup {z} -> A] : ByParent(f, S, z, prev_side_hash, X, G, F)
  <2> HIDE DEF S, z, A, X, G, F
  <2> QED
    BY <1>2, Walk
<1>4. ASSUME NEW d \in SideBlock \cup {None}
      PROVE  f[d] = IF d \in N THEN f[prev_side_hash[d]] + 1
                    ELSE IF HasTip(a, d) THEN a.sidechain_tips[d].height + 1 ELSE 0
  <2>1. CASE d \in X
    BY <1>3, <2>1 DEF ByParent
  <2>2. CASE d \notin X
    <3>1. d \in S /\ prev_side_hash[d] \in S \cup {z}
      BY <2>2, BlocksAssumption
    <3>2. f[d] = F[<<f[prev_side_hash[d]], d>>]
      BY <1>3, <2>2 DEF ByParent
    <3> QED
      BY <2>2, <3>1, <3>2
  <2> QED
    BY <2>1, <2>2
<1>5. ChildEq(f, a, N)
  BY <1>4 DEF ChildEq
<1> QED
  BY <1>5

LEMMA ChildTyped ==
    ASSUME NEW a \in Databases, NEW N \in SUBSET SideBlock, NEW f, ChildEq(f, a, N),
           NEW b \in SideBlock \cup {None}
    PROVE  f[b] \in Nat
<1> DEFINE C == {d \in SideBlock : f[d] \notin Nat}
<1>1. \A d \in DOMAIN a.sidechain_tips : a.sidechain_tips[d].height \in Nat
  BY DatabaseFacts DEF TipInfo
<1>2. \A d \in (SideBlock \cup {None}) \ N : f[d] \in Nat
  BY <1>1 DEF ChildEq, HasTip
<1>3. None \notin N
  BY BlocksAssumption
<1>4. C = {}
  <2> SUFFICES ASSUME C # {} PROVE FALSE
    OBVIOUS
  <2>1. PICK d \in C : prev_side_hash[d] \notin C
    BY ChainsAssumption DEF Rooted
  <2>2. prev_side_hash[d] \in SideBlock \cup {None} /\ d \in N
    BY <1>2, BlocksAssumption
  <2>3. f[prev_side_hash[d]] \in Nat
    BY <1>2, <1>3, <2>1, <2>2
  <2>4. f[d] = f[prev_side_hash[d]] + 1
    BY <2>2 DEF ChildEq
  <2> QED
    BY <2>3, <2>4
<1> QED
  BY <1>2, <1>3, <1>4

\* The blocks of N become tips: each has an active commitment, and its parent
\* is a tip or becomes one.
Connectable(a, N) ==
    \A d \in N :
        /\ d \in a.headers /\ ~HasTip(a, d) /\ ActiveCommitment(a, d) # {}
        /\ prev_side_hash[d] # None => prev_side_hash[d] \in DOMAIN a.sidechain_tips \cup N

LEMMA ConnectTipsSound ==
    ASSUME NEW a, Sound(a), NEW N \in SUBSET SideBlock, Connectable(a, N),
           NEW r, r = connect_sidechain_tips(a, N)
    PROVE  Sound(r) /\ Grows(a, r)
<1> DEFINE f == CHOOSE h : ChildEq(h, a, N)
           M(d) == CHOOSE m \in ActiveCommitment(a, d) : TRUE
           info(d) == [height |-> f[prev_side_hash[d]], work |-> total_work[M(d)],
                       main_block_hash |-> M(d)]
           n == [d \in N |-> info(d)]
           q == [i \in {info(d) : d \in N} |-> CHOOSE d \in N : info(d) = i]
           s == PutAll(a.sidechain_tips, n)
           o == PutAll(a.ordered_sidechain_tips, q)
<1>1. /\ a \in Databases /\ HeadersOK(a) /\ MainOK(a) /\ ResultsOK(a) /\ TipsOK(a) /\ OrderOK(a)
  BY DEF Sound
<1>2. /\ a.sidechain_tips \in Partial(SideBlock, TipInfo) /\ a.mainchain_tip \in MainBlock \cup {ZeroHash}
      /\ a.ordered_sidechain_tips \in Partial(TipInfo, SideBlock)
  BY <1>1, DatabaseFacts
<1>3. TipsMoved(a, r, a.mainchain_tip, s, o)
  BY <1>1 DEF connect_sidechain_tips, ChildEq, TipsMoved, Databases
<1>4. ChildEq(f, a, N)
  BY <1>1, ChildExists
<1> HIDE DEF f
<1>5. \A d \in N : f[prev_side_hash[d]] \in Nat
  BY <1>1, <1>4, ChildTyped, BlocksAssumption
<1>6. \A d \in N : M(d) \in ActiveCommitment(a, d)
  BY DEF Connectable
<1>7. \A d \in N : /\ M(d) \in main_ancestors[a.mainchain_tip] /\ M(d) \in MainBlock
                   /\ bmm_commitment[M(d)] = d /\ M(d) \in ValidBmm[d]
  <2> TAKE d \in N
  <2>1. M(d) \in main_ancestors[a.mainchain_tip] /\ a.bmm_results[d][M(d)] = "Verified"
    BY <1>6 DEF ActiveCommitment
  <2>2. M(d) \in MainBlock
    BY <1>2, <2>1, MainAncestors DEF IsAncestors
  <2>3. M(d) \in ValidBmm[d]
    BY <1>1, <2>1, <2>2 DEF ResultsOK
  <2> HIDE DEF M
  <2> QED
    BY <2>1, <2>2, <2>3, ValidFacts DEF ValidFrom
<1> HIDE DEF M
<1>8. \A d \in N : info(d) \in TipInfo /\ info(d).main_block_hash = M(d)
  BY <1>5, <1>7 DEF TipInfo
<1>9. \A d, e \in N : info(d) = info(e) => d = e
  BY <1>7, <1>8
<1> HIDE DEF info
<1>10. n \in Partial(SideBlock, TipInfo) /\ DOMAIN n = N /\ \A d \in N : n[d] = info(d)
  <2>1. n \in [N -> TipInfo]
    BY <1>8
  <2> QED
    BY <2>1, PartialIs
<1>11. /\ q \in Partial(TipInfo, SideBlock) /\ DOMAIN q = {info(d) : d \in N}
       /\ \A d \in N : q[info(d)] = d
  <2>1. \A i \in DOMAIN q : q[i] \in N /\ info(q[i]) = i
    OBVIOUS
  <2>2. q \in [{info(d) : d \in N} -> SideBlock]
    BY <2>1
  <2>3. {info(d) : d \in N} \in SUBSET TipInfo
    BY <1>8
  <2>4. q \in Partial(TipInfo, SideBlock)
    <3> HIDE DEF q
    <3> QED
      BY <2>2, <2>3, PartialIs
  <2>5. \A d \in N : q[info(d)] = d
    BY <1>9, <2>1
  <2> QED
    BY <2>4, <2>5
<1> HIDE DEF n, q
<1>12. s \in Partial(SideBlock, TipInfo) /\ IsPutAll(s, a.sidechain_tips, n)
  BY <1>2, <1>10, PutAllFacts
<1>13. o \in Partial(TipInfo, SideBlock) /\ IsPutAll(o, a.ordered_sidechain_tips, q)
  BY <1>2, <1>11, PutAllFacts
<1> HIDE DEF s, o
<1>14. /\ r \in Databases /\ SameBlocks(a, r) /\ SameMain(a, r) /\ r.mainchain_tip = a.mainchain_tip
       /\ r.sidechain_tips = s /\ r.ordered_sidechain_tips = o
  BY <1>1, <1>2, <1>3, <1>12, <1>13, TipsMovedFields
<1>15. HeadersOK(r) /\ MainOK(r)
  BY <1>1, <1>14, KeepsHeaders, KeepsMain
<1>16. ResultsOK(r)
  BY <1>1, <1>14, KeepsResults DEF SameBlocks
<1>17. DOMAIN s = DOMAIN a.sidechain_tips \cup N /\ (\A d \in N : s[d] = info(d))
       /\ \A d \in DOMAIN a.sidechain_tips : s[d] = a.sidechain_tips[d]
  BY <1>10, <1>12 DEF IsPutAll, Connectable, HasTip
<1>18. TipsOK(r)
  <2>1. r.headers = a.headers /\ r.invalid_blocks = a.invalid_blocks
    BY <1>14 DEF SameBlocks
  <2> QED
    BY <1>1, <1>14, <1>17, <2>1 DEF TipsOK, ParentHasTip, HasTip, Connectable
<1>19. Grows(a, r)
  <2>1. r.headers = a.headers /\ r.main = a.main /\ r.invalid_blocks = a.invalid_blocks
    BY <1>14 DEF SameBlocks, SameMain
  <2> QED
    BY <1>7, <1>8, <1>14, <1>17, <2>1 DEF Grows, ParentHasTip, HasTip, Connectable
<1>20. OrderOK(r)
  <2> SUFFICES ASSUME NEW i \in DOMAIN o
               PROVE  /\ i.main_block_hash \in main_ancestors[a.mainchain_tip]
                      /\ o[i] \in DOMAIN s /\ s[o[i]] = i /\ bmm_commitment[i.main_block_hash] = o[i]
    BY <1>14 DEF OrderOK
  <2>1. CASE i \in DOMAIN q
    <3>1. PICK d \in N : i = info(d)
      BY <1>11, <2>1
    <3>2. o[i] = d
      BY <1>11, <1>13, <2>1, <3>1 DEF IsPutAll
    <3> QED
      BY <1>7, <1>8, <1>17, <3>1, <3>2
  <2>2. CASE i \notin DOMAIN q
    <3>1. i \in DOMAIN a.ordered_sidechain_tips /\ o[i] = a.ordered_sidechain_tips[i]
      BY <1>13, <2>2 DEF IsPutAll
    <3> QED
      BY <1>1, <1>17, <3>1 DEF OrderOK
  <2> QED
    BY <2>1, <2>2
<1> QED
  BY <1>14, <1>15, <1>16, <1>18, <1>19, <1>20 DEF Sound

\* put_body before the tips.
Stored(a, b, body) ==
    [a EXCEPT !.bodies = Put(@, b, body), !.txid_to_inclusions = @ \cup (body \X {b})]

LEMMA StoredSound ==
    ASSUME NEW a, Sound(a), NEW b \in a.headers, NEW body \in SUBSET Txid,
           NEW r, r = Stored(a, b, body)
    PROVE  /\ Sound(r) /\ SameMain(a, r) /\ SameTips(a, r) /\ r.headers = a.headers
           /\ b \in DOMAIN r.bodies /\ Grows(a, r)
<1>1. /\ a \in Databases /\ HeadersOK(a) /\ MainOK(a) /\ ResultsOK(a) /\ TipsOK(a) /\ OrderOK(a)
  BY DEF Sound
<1> DEFINE p == Put(a.bodies, b, body)
           t == a.txid_to_inclusions \cup (body \X {b})
<1>2. b \in SideBlock /\ a.bodies \in Partial(SideBlock, SUBSET Txid)
  BY <1>1, DatabaseFacts
<1>3. p \in Partial(SideBlock, SUBSET Txid) /\ IsPut(p, a.bodies, b, body)
  <2> DEFINE T == SUBSET Txid
  <2>1. a.bodies \in Partial(SideBlock, T) /\ body \in T
    BY <1>2
  <2> HIDE DEF T
  <2>2. p \in Partial(SideBlock, T) /\ IsPut(p, a.bodies, b, body)
    BY <1>2, <2>1, PutFacts
  <2> QED
    BY <2>2 DEF T
<1>4. t \in SUBSET (Txid \X SideBlock)
  BY <1>1, <1>2 DEF Databases
<1>5. r = [a EXCEPT !.bodies = p, !.txid_to_inclusions = t]
  BY <1>1 DEF Stored, Databases
<1> HIDE DEF p, t
<1>6. r \in Databases
  BY <1>1, <1>3, <1>4, <1>5 DEF Databases
<1>7. /\ SameMain(a, r) /\ SameTips(a, r) /\ r.headers = a.headers
      /\ r.invalid_blocks = a.invalid_blocks /\ r.bodies = p
  BY <1>1, <1>5 DEF Databases, SameMain, SameTips
<1>8. HeadersOK(r) /\ b \in DOMAIN r.bodies
  BY <1>1, <1>3, <1>7 DEF HeadersOK, IsPut
<1>9. MainOK(r) /\ OrderOK(r)
  BY <1>1, <1>7, KeepsMain, KeepsOrder DEF SameTips
<1>10. ResultsOK(r) /\ TipsOK(r)
  BY <1>1, <1>7, KeepsResults, KeepsTips DEF SameTips
<1>11. Grows(a, r)
  BY <1>7, SameTipsGrow DEF SameMain, SameTips
<1> QED
  BY <1>6, <1>7, <1>8, <1>9, <1>10, <1>11 DEF Sound

LEMMA PutBodySound ==
    ASSUME NEW a, Sound(a), NEW b \in SideBlock, ~put_body_refused(a, b),
           NEW body \in SUBSET Txid, NEW r, r = put_body(a, b, body)
    PROVE  Sound(r) /\ Grows(a, r)
<1> DEFINE c == Stored(a, b, body)
           N == NewTips(c, b) \ DOMAIN c.sidechain_tips
<1>1. b \in a.headers
  BY DEF put_body_refused
<1>2. Sound(c) /\ c.headers = a.headers /\ Grows(a, c)
  BY <1>1, StoredSound
<1>3. r = connect_sidechain_tips(c, N)
  BY DEF put_body, Stored
<1> HIDE DEF c
<1>4. c \in Databases /\ HeadersOK(c) /\ c.headers \subseteq SideBlock
  BY <1>2, DatabaseFacts DEF Sound
<1>5. \A d \in NewTips(c, b) :
        /\ ParentHasTip(c, b) /\ d \in c.headers /\ b \in ancestors[d]
        /\ \A e \in Path(b, d) : e \in c.headers /\ e \in DOMAIN c.bodies /\ ActiveCommitment(c, e) # {}
  BY <1>1, <1>2 DEF NewTips
<1>6. \A d \in NewTips(c, b) : d \in Path(b, d)
  BY <1>4, <1>5, SideFacts DEF Path
<1>7. ASSUME NEW d \in NewTips(c, b), d # b, prev_side_hash[d] # None
      PROVE  prev_side_hash[d] \in NewTips(c, b)
  <2> DEFINE p == prev_side_hash[d]
  <2>1. d \in SideBlock /\ p \in SideBlock /\ ancestors[d] = {d} \cup ancestors[p]
        /\ p \in ancestors[p]
    BY <1>4, <1>5, <1>7, SideFacts
  <2>2. b \in ancestors[p]
    BY <1>5, <1>7, <2>1
  <2>3. Path(b, p) \subseteq Path(b, d) /\ p \in Path(b, d)
    BY <2>1, <2>2 DEF Path
  <2> HIDE DEF p
  <2> QED
    BY <1>5, <2>2, <2>3 DEF NewTips, p
<1>8. Connectable(c, N)
  <2> SUFFICES ASSUME NEW d \in N
               PROVE  /\ d \in c.headers /\ ~HasTip(c, d) /\ ActiveCommitment(c, d) # {}
                      /\ prev_side_hash[d] # None =>
                            prev_side_hash[d] \in DOMAIN c.sidechain_tips \cup N
    BY DEF Connectable
  <2>1. d \in c.headers /\ ~HasTip(c, d) /\ ActiveCommitment(c, d) # {}
    BY <1>5, <1>6 DEF HasTip
  <2>2. CASE d = b
    BY <1>5, <2>1, <2>2 DEF ParentHasTip, HasTip
  <2>3. CASE d # b
    <3> SUFFICES ASSUME prev_side_hash[d] # None
                 PROVE  prev_side_hash[d] \in DOMAIN c.sidechain_tips \cup N
      BY <2>1
    <3>1. d \in NewTips(c, b)
      OBVIOUS
    <3>2. prev_side_hash[d] \in NewTips(c, b)
      BY <1>7, <2>3, <3>1
    <3> QED
      BY <3>2
  <2> QED
    BY <2>1, <2>2, <2>3
<1>9. N \in SUBSET SideBlock
  BY <1>4, <1>5
<1> HIDE DEF N
<1> QED
  BY <1>2, <1>3, <1>8, <1>9, ConnectTipsSound, GrowsTransitive

-----------------------------------------------------------------------------
(***************************************************************************)
(* delete_body and invalidate_block.                                       *)
(***************************************************************************)
LEMMA DeleteBodySound ==
    ASSUME NEW a, Sound(a), NEW b \in SideBlock, NEW body, NEW r, r = delete_body(a, b, body)
    PROVE  Sound(r)
<1>1. /\ a \in Databases /\ HeadersOK(a) /\ MainOK(a) /\ ResultsOK(a) /\ TipsOK(a) /\ OrderOK(a)
  BY DEF Sound
<1> DEFINE R == RemovedTips(a, b)
           K == {a.sidechain_tips[c] : c \in R}
           p == Delete(a.bodies, {b})
           t == a.txid_to_inclusions \ (body \X {b})
           s == Delete(a.sidechain_tips, R)
           o == Delete(a.ordered_sidechain_tips, K)
<1>2. /\ a.bodies \in Partial(SideBlock, SUBSET Txid)
      /\ a.sidechain_tips \in Partial(SideBlock, TipInfo)
      /\ DOMAIN a.sidechain_tips \subseteq SideBlock
      /\ a.ordered_sidechain_tips \in Partial(TipInfo, SideBlock)
  BY <1>1, DatabaseFacts
<1>3. r = [a EXCEPT !.bodies = p, !.txid_to_inclusions = t, !.sidechain_tips = s,
                    !.ordered_sidechain_tips = o]
  BY <1>1 DEF delete_body, disconnect_sidechain_tips, Databases
<1>4. \A c \in R : a.sidechain_tips[c] \in K
  OBVIOUS
<1> HIDE DEF R, K
<1>5. p \in Partial(SideBlock, SUBSET Txid) /\ IsDelete(p, a.bodies, {b})
  <2> DEFINE T == SUBSET Txid
  <2>1. a.bodies \in Partial(SideBlock, T)
    BY <1>2
  <2> HIDE DEF T
  <2>2. p \in Partial(SideBlock, T) /\ IsDelete(p, a.bodies, {b})
    BY <2>1, DeleteFacts
  <2> QED
    BY <2>2 DEF T
<1>6. s \in Partial(SideBlock, TipInfo) /\ IsDelete(s, a.sidechain_tips, R)
  BY <1>2, DeleteFacts
<1>7. o \in Partial(TipInfo, SideBlock) /\ IsDelete(o, a.ordered_sidechain_tips, K)
  BY <1>2, DeleteFacts
<1>8. t \in SUBSET (Txid \X SideBlock)
  BY <1>1 DEF Databases
<1> HIDE DEF p, t, s, o
<1>9. r \in Databases
  BY <1>1, <1>3, <1>5, <1>6, <1>7, <1>8 DEF Databases
<1>10. /\ r.headers = a.headers /\ r.bodies = p /\ r.invalid_blocks = a.invalid_blocks
       /\ SameMain(a, r) /\ r.mainchain_tip = a.mainchain_tip
       /\ r.sidechain_tips = s /\ r.ordered_sidechain_tips = o
  BY <1>1, <1>3 DEF Databases, SameMain
<1>11. HeadersOK(r)
  BY <1>1, <1>5, <1>10 DEF HeadersOK, IsDelete
<1>12. MainOK(r) /\ ResultsOK(r)
  BY <1>1, <1>10, KeepsMain, KeepsResults
<1>13. TipsOK(r)
  <2> SUFFICES ASSUME a.invalid_blocks = {}, NEW d \in DOMAIN s, prev_side_hash[d] # None
               PROVE  prev_side_hash[d] \in DOMAIN s
    BY <1>1, <1>6, <1>10 DEF TipsOK, ParentHasTip, HasTip, IsDelete
  <2> DEFINE q == prev_side_hash[d]
  <2>1. d \in DOMAIN a.sidechain_tips /\ d \notin R /\ d \in SideBlock
    BY <1>2, <1>6 DEF IsDelete
  <2>2. d \in a.headers /\ q \in DOMAIN a.sidechain_tips /\ q \in SideBlock
    BY <1>1, <1>2, <2>1 DEF TipsOK, ParentHasTip, HasTip
  <2>3. q \notin R
    <3> SUFFICES ASSUME q \in R PROVE d \in R
      BY <2>1
    <3>1. b \in ancestors[q] /\ \A e \in Path(b, q) : HasTip(a, e) /\ (e # b => e \in a.headers)
      BY DEF R, RemovedTips
    <3>2. ancestors[d] = {d} \cup ancestors[q]
      BY <2>1, SideFacts
    <3>3. Path(b, d) \subseteq Path(b, q) \cup {d} /\ b \in ancestors[d]
      BY <3>1, <3>2 DEF Path
    <3> HIDE DEF q
    <3>4. \A e \in Path(b, d) : HasTip(a, e) /\ (e # b => e \in a.headers)
      BY <2>1, <2>2, <3>1, <3>3 DEF HasTip
    <3> QED
      BY <2>1, <3>3, <3>4 DEF R, RemovedTips
  <2> QED
    BY <1>6, <2>2, <2>3 DEF IsDelete
<1>14. OrderOK(r)
  <2> SUFFICES ASSUME NEW i \in DOMAIN o
               PROVE  /\ i.main_block_hash \in main_ancestors[a.mainchain_tip]
                      /\ o[i] \in DOMAIN s /\ s[o[i]] = i /\ bmm_commitment[i.main_block_hash] = o[i]
    BY <1>10 DEF OrderOK
  <2>1. i \in DOMAIN a.ordered_sidechain_tips /\ i \notin K /\ o[i] = a.ordered_sidechain_tips[i]
    BY <1>7 DEF IsDelete
  <2>2. /\ i.main_block_hash \in main_ancestors[a.mainchain_tip]
        /\ o[i] \in DOMAIN a.sidechain_tips /\ a.sidechain_tips[o[i]] = i
        /\ bmm_commitment[i.main_block_hash] = o[i]
    BY <1>1, <2>1 DEF OrderOK
  <2>3. o[i] \notin R
    BY <1>4, <2>1, <2>2
  <2> QED
    BY <1>6, <2>2, <2>3 DEF IsDelete
<1> QED
  BY <1>9, <1>11, <1>12, <1>13, <1>14 DEF Sound

LEMMA InvalidateSound ==
    ASSUME NEW a, Sound(a), NEW b \in SideBlock, NEW r, r = invalidate_block(a, b)
    PROVE  Sound(r)
<1>1. /\ a \in Databases /\ HeadersOK(a) /\ MainOK(a) /\ ResultsOK(a) /\ TipsOK(a) /\ OrderOK(a)
  BY DEF Sound
<1> DEFINE D == {d \in a.headers : b \in ancestors[d]} \cup {b}
           p == Delete(a.bodies, D)
           t == {x \in a.txid_to_inclusions : ~(x[2] \in D /\ x[2] \in DOMAIN a.bodies
                                                /\ x[1] \in a.bodies[x[2]])}
<1>2. a.bodies \in Partial(SideBlock, SUBSET Txid) /\ a.headers \subseteq SideBlock
  BY <1>1, DatabaseFacts
<1>3. r = [a EXCEPT !.headers = a.headers \ D, !.bodies = p, !.txid_to_inclusions = t,
                    !.invalid_blocks = a.invalid_blocks \cup D]
  BY <1>1 DEF invalidate_block, Databases
<1>4. D \subseteq SideBlock /\ b \in D /\ \A d \in a.headers : b \in ancestors[d] <=> d \in D \ {b} \/ d = b
  BY <1>2, SideFacts
<1>5. t \in SUBSET (Txid \X SideBlock) /\ a.invalid_blocks \cup D \in SUBSET SideBlock
      /\ a.headers \ D \in SUBSET SideBlock
  BY <1>1, <1>2, <1>4 DEF Databases
<1>6. p \in Partial(SideBlock, SUBSET Txid) /\ IsDelete(p, a.bodies, D)
  <2> DEFINE T == SUBSET Txid
  <2>1. a.bodies \in Partial(SideBlock, T)
    BY <1>2
  <2> HIDE DEF T, D
  <2>2. p \in Partial(SideBlock, T) /\ IsDelete(p, a.bodies, D)
    BY <2>1, DeleteFacts
  <2> QED
    BY <2>2 DEF T
<1>7. \A d \in a.headers \ D : ancestors[d] \cap D = {}
  <2> SUFFICES ASSUME NEW d \in a.headers \ D, NEW e \in ancestors[d], e \in D PROVE FALSE
    OBVIOUS
  <2>1. d \in SideBlock /\ b \notin ancestors[d]
    BY <1>2
  <2>2. ancestors[e] \subseteq ancestors[d] /\ b \in ancestors[e]
    BY <2>1, SideFacts
  <2> QED
    BY <2>1, <2>2
<1> HIDE DEF p, t, D
<1>8. r \in Databases
  BY <1>1, <1>3, <1>5, <1>6 DEF Databases
<1>9. /\ r.headers = a.headers \ D /\ r.bodies = p /\ r.invalid_blocks = a.invalid_blocks \cup D
      /\ SameMain(a, r) /\ SameTips(a, r)
  BY <1>1, <1>3 DEF Databases, SameMain, SameTips
<1>10. HeadersOK(r)
  BY <1>1, <1>6, <1>7, <1>9 DEF HeadersOK, IsDelete
<1>11. MainOK(r) /\ OrderOK(r)
  BY <1>1, <1>9, KeepsMain, KeepsOrder DEF SameTips
<1>12. ResultsOK(r)
  BY <1>1, <1>9, KeepsResults
<1>13. TipsOK(r)
  BY <1>4, <1>9 DEF TipsOK
<1> QED
  BY <1>8, <1>10, <1>11, <1>12, <1>13 DEF Sound

-----------------------------------------------------------------------------
(***************************************************************************)
(* The specification.                                                      *)
(***************************************************************************)
\* While it handles events, the task has synced to a mainchain block.
IInv ==
    /\ Sound(archive)
    /\ task \in {"syncing", "streaming"}
    /\ task = "streaming" => archive.mainchain_tip # ZeroHash

LEMMA EmptySound == Sound(EmptyArchive)
<1> DEFINE e == EmptyArchive
<1>1. /\ e.headers = {} /\ e.txid_to_inclusions = {} /\ e.invalid_blocks = {} /\ e.main = {}
      /\ e.mainchain_tip = ZeroHash
      /\ e.bmm_results = [b \in SideBlock |-> [m \in MainBlock |-> "absent"]]
  BY DEF EmptyArchive
<1>2. DOMAIN e.bodies = {} /\ DOMAIN e.sidechain_tips = {} /\ DOMAIN e.ordered_sidechain_tips = {}
  BY DEF EmptyArchive
<1>3. ASSUME NEW S, NEW T, NEW v PROVE [x \in {} |-> v] \in Partial(S, T)
  <2>1. [x \in {} |-> v] \in [{} -> T]
    OBVIOUS
  <2> QED
    BY <2>1, PartialIs
<1>4. e \in Databases
  <2>1. [b \in {} |-> {}] \in Partial(SideBlock, SUBSET Txid)
    BY <1>3
  <2>2. [b \in {} |-> {}] \in Partial(SideBlock, TipInfo)
    BY <1>3
  <2>3. [i \in {} |-> {}] \in Partial(TipInfo, SideBlock)
    BY <1>3
  <2>4. [b \in SideBlock |-> [m \in MainBlock |-> "absent"]] \in [SideBlock -> [MainBlock -> BmmResult]]
    BY DEF BmmResult
  <2> QED
    BY <2>1, <2>2, <2>3, <2>4 DEF EmptyArchive, Databases
<1>5. \A b \in SideBlock, m \in MainBlock : e.bmm_results[b][m] = "absent"
  BY <1>1
<1> HIDE DEF e
<1>6. HeadersOK(e) /\ MainOK(e) /\ TipsOK(e) /\ OrderOK(e)
  BY <1>1, <1>2 DEF HeadersOK, MainOK, TipsOK, OrderOK
<1>7. ResultsOK(e)
  BY <1>1, <1>5 DEF ResultsOK
<1> QED
  BY <1>4, <1>6, <1>7 DEF Sound, e

\* The tip is a known mainchain block, and its parent is known or the zero hash.
LEMMA MainTipFacts ==
    ASSUME NEW a, Sound(a), a.mainchain_tip # ZeroHash
    PROVE  /\ a.mainchain_tip \in a.main /\ a.mainchain_tip \in MainBlock
           /\ prev_block_hash[a.mainchain_tip] \in a.main \cup {ZeroHash}
  BY DatabaseFacts DEF Sound, MainOK

LEMMA StepKeeps == IInv /\ [Next]_vars => IInv'
<1> SUFFICES ASSUME IInv, [Next]_vars PROVE IInv'
  OBVIOUS
<1> USE UnwantedAssumption, BodiesAssumption
<1>1. Sound(archive) /\ task \in {"syncing", "streaming"}
      /\ (task = "streaming" => archive.mainchain_tip # ZeroHash)
  BY DEF IInv
<1>2. archive \in Databases /\ archive.headers \subseteq SideBlock /\ archive.main \subseteq MainBlock
  BY <1>1, DatabaseFacts DEF Sound
<1>3. ASSUME NEW m \in MainBlock, RequestAncestorInfos(m) PROVE IInv'
  <2>1. archive' = put_main_infos(archive, m) /\ task' = task
    BY <1>3 DEF RequestAncestorInfos
  <2>2. Sound(archive') /\ archive'.mainchain_tip = archive.mainchain_tip
    BY <1>1, <2>1, PutMainInfosSound
  <2> QED
    BY <1>1, <2>1, <2>2 DEF IInv
<1>4. ASSUME NEW m \in MainBlock, Sync(m) PROVE IInv'
  <2> DEFINE r == sync_side_tips_to_tip(archive, m)
  <2>1. m \in archive.main /\ (IF r.ok THEN archive' = r.archive /\ task' = "streaming" ELSE UNCHANGED vars)
    BY <1>4 DEF Sync
  <2>2. Sound(r.archive) /\ (r.ok => r.archive.mainchain_tip # ZeroHash)
    BY <1>1, <2>1, SyncSound
  <2> HIDE DEF r
  <2> QED
    BY <1>1, <2>1, <2>2 DEF IInv, vars
<1>5. ASSUME NEW m \in MainBlock, ConnectBlock(m) PROVE IInv'
  <2> DEFINE a == put_main_info(archive, m)
  <2>1. /\ task = "streaming" /\ prev_block_hash[m] = archive.mainchain_tip
        /\ IF connect_mainchain_tip_refused(a, m) THEN task' = "syncing" /\ UNCHANGED archive
           ELSE archive' = connect_mainchain_tip(a, m) /\ UNCHANGED task
    BY <1>5 DEF ConnectBlock
  <2>2. prev_block_hash[m] \in archive.main \cup {ZeroHash}
    BY <1>1, <2>1, MainTipFacts
  <2>3. Sound(a) /\ m \in a.main
    BY <1>1, <1>2, <2>2, PutMainSound, PutMainFields
  <2> HIDE DEF a
  <2>4. CASE connect_mainchain_tip_refused(a, m)
    BY <1>1, <2>1, <2>4 DEF IInv
  <2>5. CASE ~connect_mainchain_tip_refused(a, m)
    <3>1. archive' = connect_mainchain_tip(a, m) /\ task' = task
      BY <2>1, <2>5
    <3>2. Sound(archive')
      BY <2>3, <2>5, <3>1, ConnectMainSound
    <3>3. a \in Databases
      BY <2>3 DEF Sound
    <3>4. archive'.mainchain_tip = m
      BY <3>1, <3>3, ConnectMainTyped
    <3> QED
      BY <1>1, <3>1, <3>2, <3>4, BlocksAssumption DEF IInv
  <2> QED
    BY <2>4, <2>5
<1>6. ASSUME DisconnectBlock PROVE IInv'
  <2> DEFINE t == prev_block_hash[archive.mainchain_tip]
             M == {archive.mainchain_tip}
  <2>1. /\ task = "streaming" /\ t # ZeroHash
        /\ \/ task' = "syncing" /\ archive' = archive
           \/ archive' = disconnect_mainchain_tips(archive, M, t) /\ task' = task
    BY <1>6 DEF DisconnectBlock, disconnect_mainchain_tip
  <2>2. t \in archive.main \cup {ZeroHash} /\ archive.mainchain_tip \in MainBlock
    BY <1>1, <2>1, MainTipFacts
  <2>3. main_ancestors[archive.mainchain_tip] \ M \subseteq main_ancestors[t]
    BY <2>2, MainFacts
  <2>4. t \in MainBlock \cup {ZeroHash}
    BY <1>2, <2>2
  <2> HIDE DEF t, M
  <2>5. CASE task' = "syncing" /\ archive' = archive
    BY <1>1, <2>5 DEF IInv
  <2>6. CASE archive' = disconnect_mainchain_tips(archive, M, t) /\ task' = task
    <3>1. Sound(archive')
      BY <1>1, <2>2, <2>3, <2>6, DisconnectSound
    <3>2. archive'.mainchain_tip = t
      BY <1>2, <2>4, <2>6, DisconnectTyped
    <3> QED
      BY <1>1, <2>1, <2>6, <3>1, <3>2 DEF IInv
  <2> QED
    BY <2>1, <2>5, <2>6
<1>7. ASSUME StreamCloses PROVE IInv'
  BY <1>1, <1>7 DEF StreamCloses, IInv
<1>8. ASSUME NEW b \in SideBlock, StoreHeader(b) \/ SubmitHeader(b) PROVE IInv'
  <2>1. ~put_header_refused(archive, b) /\ archive' = put_header(archive, b) /\ task' = task
    BY <1>8 DEF StoreHeader, SubmitHeader
  <2>2. Sound(archive')
    BY <1>1, <2>1, PutHeaderSound
  <2>3. archive'.mainchain_tip = archive.mainchain_tip
    BY <1>2, <2>1, PutHeaderFields DEF SameTips
  <2> QED
    BY <1>1, <2>1, <2>2, <2>3 DEF IInv
<1>9. ASSUME NEW b \in SideBlock, DeleteBody(b) PROVE IInv'
  <2>1. archive' = delete_body(archive, b, archive.bodies[b]) /\ task' = task
    BY <1>9 DEF DeleteBody
  <2>2. Sound(archive')
    BY <1>1, <2>1, DeleteBodySound
  <2>3. archive'.mainchain_tip = archive.mainchain_tip
    BY <1>2, <2>1 DEF delete_body, disconnect_sidechain_tips, Databases
  <2> QED
    BY <1>1, <2>1, <2>2, <2>3 DEF IInv
<1>10. ASSUME NEW b \in SideBlock, InvalidateBlock(b) PROVE IInv'
  <2>1. archive' = invalidate_block(archive, b) /\ task' = task
    BY <1>10 DEF InvalidateBlock
  <2>2. Sound(archive')
    BY <1>1, <2>1, InvalidateSound
  <2>3. archive'.mainchain_tip = archive.mainchain_tip
    BY <1>2, <2>1 DEF invalidate_block, Databases
  <2> QED
    BY <1>1, <2>1, <2>2, <2>3 DEF IInv
<1>11. ASSUME NEW b \in SideBlock, NEW body \in Forged \cup {body_of[b]}, StoreBody(b, body)
       PROVE  IInv'
  <2>1. ~put_body_refused(archive, b) /\ archive' = put_body(archive, b, body) /\ task' = task
    BY <1>11 DEF StoreBody
  <2>2. body \in SUBSET Txid
    OBVIOUS
  <2>3. Sound(archive')
    BY <1>1, <2>1, <2>2, PutBodySound
  <2>4. archive'.mainchain_tip = archive.mainchain_tip
    BY <1>2, <2>1 DEF put_body, connect_sidechain_tips, Databases
  <2> QED
    BY <1>1, <2>1, <2>3, <2>4 DEF IInv
<1>12. ASSUME UNCHANGED vars PROVE IInv'
  BY <1>1, <1>12 DEF vars, IInv
<1> QED
  BY <1>3, <1>4, <1>5, <1>6, <1>7, <1>8, <1>9, <1>10, <1>11, <1>12 DEF Next

\* The archive stays sound: whatever order mainchain infos, headers, bodies,
\* syncs, events and invalidations come in, every step of the mainchain task
\* and of the other writers keeps all parts of the invariant together.
THEOREM ArchiveSound == Spec => []IInv
<1>1. Init => IInv
  BY EmptySound DEF Init, IInv
<1> QED
  BY <1>1, StepKeeps, PTL DEF Spec

\* BmmExact for any chains: a stored result is "Verified" exactly when the
\* commitment is valid, however put_header and put_main_info interleave.
THEOREM ResultsExact == Spec => []BmmExact
<1>1. IInv => BmmExact
  <2> SUFFICES ASSUME Sound(archive) PROVE BmmExact
    BY DEF IInv
  <2>1. archive.headers \subseteq SideBlock /\ archive.main \subseteq MainBlock /\ ResultsOK(archive)
    BY DatabaseFacts DEF Sound
  <2> QED
    BY <2>1 DEF ResultsOK, BmmExact
<1> QED
  BY <1>1, ArchiveSound, PTL

\* OrderedSound for any chains: connect_mainchain_tip, disconnect_mainchain_tip,
\* sync_side_tips_to_tip, put_body and delete_body keep ordered_sidechain_tips
\* within the active mainchain and in agreement with sidechain_tips.
THEOREM OrderSound == Spec => []OrderedSound
<1>1. IInv => OrderedSound
  BY DEF IInv, Sound, OrderOK, OrderedSound, is_main_descendant, HasTip
<1> QED
  BY <1>1, ArchiveSound, PTL

\* AncestorsKept for any chains: put_header, put_body, delete_body and
\* invalidate_block leave no header without its ancestors, no body without its
\* header, and, until a block is invalidated, no tip without its parent's.
THEOREM AncestorsStay == Spec => []AncestorsKept
<1>1. IInv => AncestorsKept
  BY DEF IInv, Sound, HeadersOK, TipsOK, AncestorsKept
<1> QED
  BY <1>1, ArchiveSound, PTL

LEMMA IInvTyped == IInv => TypeOK
<1> SUFFICES ASSUME IInv PROVE TypeOK
  OBVIOUS
<1>1. archive \in Databases /\ task \in {"syncing", "streaming"}
  BY DEF IInv, Sound
<1>2. TipInfo \subseteq SidechainTipInfo
  BY WorkFacts DEF TipInfo, SidechainTipInfo
<1>3. \A b \in DOMAIN archive.bodies : archive.bodies[b] \subseteq Txid
  <2> DEFINE T == SUBSET Txid
  <2>1. archive.bodies \in Partial(SideBlock, T)
    BY <1>1, DatabaseFacts
  <2> HIDE DEF T
  <2>2. archive.bodies \in [DOMAIN archive.bodies -> T]
    BY <2>1, PartialFacts
  <2> QED
    BY <2>2 DEF T
<1>4. /\ archive.txid_to_inclusions \subseteq Txid \X SideBlock
      /\ archive.invalid_blocks \subseteq SideBlock
  BY <1>1 DEF Databases
<1>5. IsArchive(archive)
  BY <1>1, <1>2, <1>3, <1>4, DatabaseFacts DEF IsArchive
<1> QED
  BY <1>1, <1>5 DEF TypeOK

\* Type correctness: what put_header, put_body, connect_mainchain_tip and the
\* other writers store has the types of the databases; the height and the work
\* of a tip are numbers, however deep the walk that counts them.
THEOREM ArchiveTyped == Spec => []TypeOK
  BY IInvTyped, ArchiveSound, PTL

-----------------------------------------------------------------------------
(***************************************************************************)
(* NodeTip: the inductive invariant.                                       *)
(***************************************************************************)
States ==
    [tip : SideBlock \cup {None}, deposits : SUBSET MainBlock, bundles : SUBSET Applied,
     deposit_blocks : Seq(Applied), event_blocks : Seq(Applied)]

Unapplied ==
    [tip |-> None, deposits |-> {}, bundles |-> {}, deposit_blocks |-> <<>>, event_blocks |-> <<>>]

\* The state after connecting b and the blocks before it.
StateAt[b \in SideBlock \cup {None}] ==
    IF b = None THEN Unapplied ELSE connect_state(StateAt[prev_side_hash[b]], b)

\* The commitment of a tip is valid; a tip whose header is stored stands on one.
TipsGood(a) ==
    \A b \in DOMAIN a.sidechain_tips :
        /\ a.sidechain_tips[b].main_block_hash \in ValidBmm[b]
        /\ b \in a.headers => ParentHasTip(a, b)

Good(a) == Sound(a) /\ a.main = MainBlock /\ TipsGood(a)

\* The node is at a stored block, which is a tip, and so are those before it.
AtTip(a, s) ==
    /\ s \in States
    /\ \A b \in ancestors[s.tip] : HasTip(a, b)
    /\ s.tip # None => s.tip \in a.headers

\* The blocks that a reorg has left to apply are tips, and not applied.
TodoOK(a, s, ro) ==
    \A b \in DOMAIN ro.todo :
        /\ b \in SideBlock /\ ro.todo[b] \subseteq Txid
        /\ HasTip(a, b) /\ b \notin ancestors[s.tip]

\* They lead from the tip to the target, as long as that is not invalidated.
LeadsTo(s, ro) ==
    /\ s.tip \in ancestors[ro.target] \cup {None}
    /\ DOMAIN ro.todo = ancestors[ro.target] \ ancestors[s.tip]

IsReorg(ro) ==
    ro = [phase |-> ro.phase, source |-> ro.source, from |-> ro.from, target |-> ro.target,
          todo |-> ro.todo]

ReorgOK(a, s, ro) ==
    /\ IsReorg(ro)
    /\ ro.phase \in {"idle", "applying", "discarding"} /\ ro.source \in Source
    /\ ro.target \in SideBlock \cup {None}
    /\ ro.phase = "discarding" => ro.target \in DOMAIN ro.todo
    /\ TodoOK(a, s, ro)
    /\ ro.phase = "applying" => ro.target \in SideBlock
    /\ ro.phase = "applying" /\ ancestors[ro.target] \cap a.invalid_blocks = {} => LeadsTo(s, ro)

\* m came with a block up to p whose events disconnect_tip_ mixes up.
MixedUp(m, p) == \E a \in ancestors[p] : Mixed(a) /\ m \in TwoWayPegData(a)

\* The state is what connecting the blocks up to its tip makes it, but for
\* deposits that were removed with the events of another block.
PegOK(s) ==
    LET o == StateAt[s.tip]
    IN  /\ s.bundles = o.bundles /\ s.deposit_blocks = o.deposit_blocks
        /\ s.event_blocks = o.event_blocks
        /\ s.deposits \subseteq o.deposits
        /\ \A m \in o.deposits \ s.deposits : MixedUp(m, s.tip)

NInv ==
    /\ IInv /\ Good(archive)
    /\ AtTip(archive, state) /\ PegOK(state)
    /\ ReorgOK(archive, state, reorg)
    /\ events \in BOOLEAN
    /\ net_task \in {"running", "archive_error", "state_error", "panicked"}

-----------------------------------------------------------------------------
(***************************************************************************)
(* Valid commitments.                                                      *)
(***************************************************************************)
LEMMA ValidIs ==
    ASSUME NEW b \in SideBlock, NEW m \in ValidBmm[b]
    PROVE  /\ m \in MainBlock /\ bmm_commitment[m] = b /\ prev_block_hash[m] = prev_main_hash[b]
           /\ prev_main_hash[b] \in MainBlock
           /\ prev_side_hash[b] # None => main_ancestors[m] \cap ValidBmm[prev_side_hash[b]] # {}
           /\ [block_hash |-> b, main_block_hash |-> m] \in Tip
<1>1. /\ m \in MainBlock /\ bmm_commitment[m] = b /\ prev_block_hash[m] = prev_main_hash[b]
      /\ prev_side_hash[b] # None => main_ancestors[m] \cap ValidBmm[prev_side_hash[b]] # {}
  BY ValidFacts DEF ValidFrom
<1>2. prev_main_hash[b] \in MainBlock
  BY BlocksAssumption
<1> QED
  BY <1>1, <1>2 DEF Tip

\* Before a valid commitment to b there is one to every block before b.
LEMMA ValidBefore ==
    ASSUME NEW b \in SideBlock, NEW m \in ValidBmm[b], NEW c \in ancestors[b], c # b
    PROVE  \E n \in ValidBmm[c] : n \in main_ancestors[m] /\ n # m
<1> DEFINE P(d) == \A k \in ValidBmm[d] : \A e \in ancestors[d] :
                        e # d => \E n \in ValidBmm[e] : n \in main_ancestors[k] /\ n # k
           C == {d \in SideBlock : ~P(d)}
<1> SUFFICES C = {}
  OBVIOUS
<1> SUFFICES ASSUME C # {} PROVE FALSE
  OBVIOUS
<1>1. PICK d \in C : prev_side_hash[d] \notin C
  BY ChainsAssumption DEF Rooted
<1>2. PICK k \in ValidBmm[d] : \E e \in ancestors[d] :
            e # d /\ ~\E n \in ValidBmm[e] : n \in main_ancestors[k] /\ n # k
  BY <1>1
<1>3. PICK e \in ancestors[d] : e # d /\ ~\E n \in ValidBmm[e] : n \in main_ancestors[k] /\ n # k
  BY <1>2
<1> DEFINE p == prev_side_hash[d]
<1>4. d \in SideBlock /\ p \in SideBlock \cup {None} /\ ancestors[d] = {d} \cup ancestors[p]
      /\ ancestors[None] = {} /\ ancestors[d] \subseteq SideBlock
  BY SideFacts
<1>5. e \in ancestors[p] /\ p \in SideBlock /\ e \in SideBlock
  BY <1>3, <1>4
<1>6. k \in MainBlock /\ bmm_commitment[k] = d
      /\ (p # None => main_ancestors[k] \cap ValidBmm[p] # {})
  BY <1>4, ValidIs
<1>7. PICK n \in main_ancestors[k] : n \in ValidBmm[p]
  BY <1>5, <1>6, BlocksAssumption
<1>8. n \in MainBlock /\ main_ancestors[n] \subseteq main_ancestors[k]
  BY <1>6, MainFacts
<1>9. CASE e = p
  <2>1. bmm_commitment[n] = e
    BY <1>5, <1>7, <1>9, ValidIs
  <2> QED
    BY <1>3, <1>6, <1>7, <1>9, <2>1
<1>10. CASE e # p
  <2>1. P(p)
    BY <1>1, <1>5
  <2>2. PICK l \in ValidBmm[e] : l \in main_ancestors[n] /\ l # n
    BY <1>5, <1>7, <1>10, <2>1
  <2>3. bmm_commitment[l] = e
    BY <1>5, <2>2, ValidIs
  <2> QED
    BY <1>3, <1>6, <1>8, <2>2, <2>3
<1> QED
  BY <1>9, <1>10

\* A block that is committed to names a mainchain block after its ancestor's.
LEMMA PrevMainOrder ==
    ASSUME NEW b \in SideBlock, ValidBmm[b] # {}, NEW c \in ancestors[b]
    PROVE  /\ c \in SideBlock /\ ValidBmm[c] # {}
           /\ prev_main_hash[c] \in main_ancestors[prev_main_hash[b]]
<1>1. c \in SideBlock /\ prev_main_hash[b] \in MainBlock
  BY SideFacts, BlocksAssumption
<1>2. CASE c = b
  BY <1>1, <1>2, MainFacts
<1>3. CASE c # b
  <2>1. PICK m : m \in ValidBmm[b]
    OBVIOUS
  <2>2. PICK n \in ValidBmm[c] : n \in main_ancestors[m] /\ n # m
    BY <1>3, <2>1, ValidBefore
  <2>3. m \in MainBlock /\ prev_block_hash[m] = prev_main_hash[b]
    BY <2>1, ValidIs
  <2>4. n \in MainBlock /\ prev_block_hash[n] = prev_main_hash[c] /\ prev_main_hash[c] \in MainBlock
    BY <1>1, <2>2, ValidIs
  <2>5. n \in main_ancestors[prev_main_hash[b]]
    BY <2>2, <2>3, MainFacts
  <2>6. prev_main_hash[c] \in main_ancestors[n]
    BY <2>4, MainFacts
  <2> QED
    BY <1>1, <2>2, <2>5, <2>6, MainFacts
<1> QED
  BY <1>2, <1>3

-----------------------------------------------------------------------------
(***************************************************************************)
(* The state, and connecting a block.                                      *)
(***************************************************************************)
LEMMA StateFacts ==
    ASSUME NEW s \in States
    PROVE  /\ s.tip \in SideBlock \cup {None} /\ s.deposits \in SUBSET MainBlock
           /\ s.bundles \in SUBSET Applied
           /\ s.deposit_blocks \in Seq(Applied) /\ s.event_blocks \in Seq(Applied)
           /\ s = [tip |-> s.tip, deposits |-> s.deposits, bundles |-> s.bundles,
                   deposit_blocks |-> s.deposit_blocks, event_blocks |-> s.event_blocks]
  BY DEF States

LEMMA MainAfterIn ==
    ASSUME NEW m \in MainBlock, NEW stop
    PROVE  MainAfter(m, stop) \subseteq main_ancestors[m] /\ MainAfter(m, stop) \subseteq MainBlock
<1>1. main_ancestors[m] \subseteq MainBlock
  BY MainFacts
<1> QED
  BY <1>1 DEF MainAfter

\* Of blocks in one ancestry, Newest is one, and the last.
LEMMA NewestIs ==
    ASSUME NEW n \in MainBlock, NEW M, M \subseteq main_ancestors[n], M # {}
    PROVE  /\ Newest(M) \in M /\ M \subseteq main_ancestors[Newest(M)]
           /\ Newest(M) \in MainBlock
<1>1. \E a \in M : M \subseteq main_ancestors[a]
  BY MainChain, MainAncestors, LastAncestor
<1>2. Newest(M) \in M /\ M \subseteq main_ancestors[Newest(M)]
  BY <1>1 DEF Newest
<1> QED
  BY <1>2, MainFacts

\* Two blocks in one ancestry.
LEMMA MainLinear ==
    ASSUME NEW n \in MainBlock, NEW x \in main_ancestors[n], NEW y \in main_ancestors[n]
    PROVE  x \in main_ancestors[y] \/ y \in main_ancestors[x]
<1> DEFINE S == {x, y}
<1>1. S \subseteq main_ancestors[n] /\ S # {}
  OBVIOUS
<1>2. \E a \in S : S \subseteq main_ancestors[a]
  <2> HIDE DEF S
  <2> QED
    BY <1>1, MainChain, MainAncestors, LastAncestor
<1> QED
  BY <1>2

LEMMA DataIn ==
    ASSUME NEW b \in SideBlock, NEW kind
    PROVE  /\ prev_main_hash[b] \in MainBlock
           /\ TwoWayPegData(b) \subseteq main_ancestors[prev_main_hash[b]]
           /\ With(kind, TwoWayPegData(b)) \subseteq main_ancestors[prev_main_hash[b]]
           /\ With(kind, TwoWayPegData(b)) \subseteq MainBlock
<1>1. prev_main_hash[b] \in MainBlock
  BY BlocksAssumption
<1>2. TwoWayPegData(b) \subseteq main_ancestors[prev_main_hash[b]] /\ TwoWayPegData(b) \subseteq MainBlock
  BY <1>1, MainAfterIn DEF TwoWayPegData
<1> QED
  BY <1>1, <1>2 DEF With

LEMMA AppendTyped ==
    ASSUME NEW s \in Seq(Applied), NEW n \in MainBlock, NEW M, M \subseteq main_ancestors[n],
           NEW h \in Nat
    PROVE  AppendNewest(s, M, h) \in Seq(Applied)
<1>1. M # {} => <<Newest(M), h>> \in Applied
  BY NewestIs DEF Applied
<1> QED
  BY <1>1 DEF AppendNewest

LEMMA ConnectStateTyped ==
    ASSUME NEW s \in States, NEW b \in SideBlock
    PROVE  connect_state(s, b) \in States /\ connect_state(s, b).tip = b
<1> DEFINE D == With("deposit", TwoWayPegData(b))
           B == With("bundle", TwoWayPegData(b))
           n == prev_main_hash[b]
<1>1. n \in MainBlock /\ D \subseteq main_ancestors[n] /\ B \subseteq main_ancestors[n]
      /\ D \subseteq MainBlock /\ B \subseteq MainBlock /\ height[b] \in Nat
  BY DataIn, HeightFacts
<1>2. connect_state(s, b) =
        [tip |-> b, deposits |-> s.deposits \cup D, bundles |-> s.bundles \cup (B \X {height[b]}),
         deposit_blocks |-> AppendNewest(s.deposit_blocks, D, height[b]),
         event_blocks |-> AppendNewest(s.event_blocks, B, height[b])]
  BY DEF connect_state
<1> HIDE DEF D, B, n
<1>3. /\ AppendNewest(s.deposit_blocks, D, height[b]) \in Seq(Applied)
      /\ AppendNewest(s.event_blocks, B, height[b]) \in Seq(Applied)
  BY <1>1, StateFacts, AppendTyped
<1>4. s.deposits \cup D \in SUBSET MainBlock
  BY <1>1, StateFacts
<1>5. s.bundles \cup (B \X {height[b]}) \in SUBSET Applied
  BY <1>1, StateFacts DEF Applied
<1> QED
  BY <1>2, <1>3, <1>4, <1>5 DEF States

StateEq(f) ==
    f = [b \in SideBlock \cup {None} |->
            IF b = None THEN Unapplied ELSE connect_state(f[prev_side_hash[b]], b)]

LEMMA UnappliedTyped == Unapplied \in States
  BY DEF Unapplied, States

LEMMA StateAtIs ==
    /\ StateAt[None] = Unapplied
    /\ \A b \in SideBlock : /\ StateAt[b] = connect_state(StateAt[prev_side_hash[b]], b)
                            /\ prev_side_hash[b] \in SideBlock \cup {None}
                            /\ b # None
<1> DEFINE N == SideBlock
           z == None
           A == States
           X == {z}
           G == [b \in X |-> Unapplied]
           F == [p \in A \X N |-> connect_state(p[1], p[2])]
<1>1. \A s \in A, b \in N : connect_state(s, b) \in A
  BY ConnectStateTyped
<1>2. /\ G \in [X -> A] /\ F \in [A \X N -> A] /\ X \in SUBSET (N \cup {z}) /\ z \in X
      /\ IsChain(N, z, prev_side_hash)
  BY <1>1, SideChain, UnappliedTyped
<1>3. PICK f \in [N \cup {z} -> A] : ByParent(f, N, z, prev_side_hash, X, G, F)
  <2> HIDE DEF N, z, A, X, G, F
  <2> QED
    BY <1>2, Walk
<1>4. ASSUME NEW b \in SideBlock \cup {None}
      PROVE  f[b] = IF b = None THEN Unapplied ELSE connect_state(f[prev_side_hash[b]], b)
  <2>1. CASE b = None
    BY <1>3, <2>1 DEF ByParent
  <2>2. CASE b # None
    <3>1. b \in N /\ b \notin X /\ prev_side_hash[b] \in N \cup {z}
      BY <2>2, BlocksAssumption
    <3>2. f[b] = F[<<f[prev_side_hash[b]], b>>]
      BY <1>3, <3>1 DEF ByParent
    <3> QED
      BY <2>2, <3>1, <3>2
  <2> QED
    BY <2>1, <2>2
<1>5. StateEq(f)
  <2> HIDE DEF F, G, X, A
  <2> QED
    BY <1>3, <1>4 DEF StateEq
<1>6. StateAt = CHOOSE h : StateEq(h)
  BY DEF StateAt, StateEq
<1>7. StateEq(StateAt)
  BY <1>5, <1>6
<1> HIDE DEF N, z, A, X, G, F
<1> QED
  BY <1>7, BlocksAssumption DEF StateEq

LEMMA StateAtTyped ==
    ASSUME NEW b \in SideBlock \cup {None}
    PROVE  StateAt[b] \in States /\ StateAt[b].tip = b
<1> DEFINE C == {d \in SideBlock : ~(StateAt[d] \in States /\ StateAt[d].tip = d)}
<1>1. StateAt[None] \in States /\ StateAt[None].tip = None
  BY StateAtIs, UnappliedTyped DEF Unapplied
<1>2. C = {}
  <2> SUFFICES ASSUME C # {} PROVE FALSE
    OBVIOUS
  <2>1. PICK d \in C : prev_side_hash[d] \notin C
    BY ChainsAssumption DEF Rooted
  <2>2. prev_side_hash[d] \in SideBlock \cup {None} /\ StateAt[d] = connect_state(StateAt[prev_side_hash[d]], d)
    BY StateAtIs
  <2>3. StateAt[prev_side_hash[d]] \in States
    BY <1>1, <2>1, <2>2
  <2> QED
    BY <2>2, <2>3, ConnectStateTyped
<1> QED
  BY <1>1, <1>2

-----------------------------------------------------------------------------
(***************************************************************************)
(* What the state after connecting p holds.  The stacks of event blocks    *)
(* end with the newest event, and tell by the heights which kind it was.   *)
(***************************************************************************)
\* The mainchain blocks whose events have come with p or before, and the height
\* above p.
MainBefore(p) == IF p = None THEN {} ELSE main_ancestors[prev_main_hash[p]]
Above(p) == IF p = None THEN 0 ELSE height[p] + 1

LEMMA HeightIs ==
    ASSUME NEW b \in SideBlock
    PROVE  height[b] = Above(prev_side_hash[b]) /\ height[b] \in Nat /\ Above(b) = height[b] + 1
<1>1. height[b] = IF prev_side_hash[b] = None THEN Zeros[b] ELSE height[prev_side_hash[b]] + Ones[b]
  BY HeightCounts DEF Counts
<1>2. Zeros[b] = 0 /\ Ones[b] = 1
  BY DEF Zeros, Ones
<1> QED
  BY <1>1, <1>2, HeightFacts, BlocksAssumption DEF Above

\* The events that come with b are those since its parent.
LEMMA DataSince ==
    ASSUME NEW b \in SideBlock, ValidBmm[b] # {}, NEW p, p = prev_side_hash[b]
    PROVE  /\ TwoWayPegData(b) = MainBefore(b) \ MainBefore(p)
           /\ MainBefore(p) \subseteq MainBefore(b)
           /\ MainBefore(b) = main_ancestors[prev_main_hash[b]]
           /\ MainBefore(b) \subseteq MainBlock
           /\ p # None => p \in SideBlock /\ ValidBmm[p] # {}
<1>1. /\ b # None /\ prev_main_hash[b] \in MainBlock /\ p \in SideBlock \cup {None}
      /\ ancestors[b] = {b} \cup ancestors[p]
  BY SideFacts, BlocksAssumption
<1>2. MainBefore(b) = main_ancestors[prev_main_hash[b]] /\ MainBefore(b) \subseteq MainBlock
  BY <1>1, MainFacts DEF MainBefore
<1>3. CASE p = None
  <2>1. ZeroHash \notin main_ancestors[prev_main_hash[b]]
    BY <1>1, MainFacts, BlocksAssumption
  <2> QED
    BY <1>2, <1>3, <2>1 DEF TwoWayPegData, MainAfter, MainBefore
<1>4. CASE p # None
  <2>1. p \in SideBlock
    BY <1>1, <1>4
  <2>2. p \in ancestors[p]
    BY <2>1, SideFacts
  <2>3. ValidBmm[p] # {} /\ prev_main_hash[p] \in main_ancestors[prev_main_hash[b]]
    BY <1>1, <2>2, PrevMainOrder
  <2>4. main_ancestors[prev_main_hash[p]] \subseteq main_ancestors[prev_main_hash[b]]
    BY <1>1, <2>3, MainFacts
  <2> QED
    BY <1>2, <1>4, <2>1, <2>3, <2>4 DEF TwoWayPegData, MainAfter, MainBefore
<1> QED
  BY <1>3, <1>4

LEMMA OldBeforeNew ==
    ASSUME NEW b \in SideBlock, ValidBmm[b] # {}, NEW p, p = prev_side_hash[b],
           NEW x \in MainBefore(p), NEW y \in MainBefore(b) \ MainBefore(p)
    PROVE  x \in main_ancestors[y]
<1>1. p # None
  BY DEF MainBefore
<1>2. x \in MainBefore(b) /\ p \in SideBlock /\ MainBefore(b) = main_ancestors[prev_main_hash[b]]
  BY <1>1, DataSince
<1>3. prev_main_hash[b] \in MainBlock /\ prev_main_hash[p] \in MainBlock
  BY <1>2, BlocksAssumption
<1>4. MainBefore(p) = main_ancestors[prev_main_hash[p]]
  BY <1>1 DEF MainBefore
<1>5. x \in main_ancestors[y] \/ y \in main_ancestors[x]
  BY <1>2, <1>3, MainLinear
<1>6. main_ancestors[x] \subseteq main_ancestors[prev_main_hash[p]]
  BY <1>3, <1>4, MainFacts
<1> QED
  BY <1>4, <1>5, <1>6

\* The events E have come below height h, and s ends with the newest.
StackOK(s, E, h) ==
    /\ s \in Seq(Applied)
    /\ \A i \in 1 .. Len(s) : s[i][1] \in E /\ s[i][2] < h
    /\ s = <<>> => E = {}
    /\ s # <<>> => E \subseteq main_ancestors[s[Len(s)][1]]

LEMMA StackGrows ==
    ASSUME NEW b \in SideBlock, ValidBmm[b] # {}, NEW p, p = prev_side_hash[b], NEW kind,
           NEW s, StackOK(s, With(kind, MainBefore(p)), height[b]),
           NEW D, D = With(kind, TwoWayPegData(b))
    PROVE  /\ StackOK(AppendNewest(s, D, height[b]), With(kind, MainBefore(b)), height[b] + 1)
           /\ With(kind, MainBefore(b)) = With(kind, MainBefore(p)) \cup D
           /\ With(kind, MainBefore(p)) \cap D = {}
           /\ D \subseteq main_ancestors[prev_main_hash[b]]
<1> DEFINE E == With(kind, MainBefore(p))
           h == height[b]
           r == AppendNewest(s, D, h)
<1>1. /\ TwoWayPegData(b) = MainBefore(b) \ MainBefore(p) /\ MainBefore(p) \subseteq MainBefore(b)
      /\ MainBefore(b) = main_ancestors[prev_main_hash[b]] /\ MainBefore(b) \subseteq MainBlock
  BY DataSince
<1>2. With(kind, MainBefore(b)) = E \cup D /\ E \cap D = {}
  BY <1>1 DEF With
<1>3. D \subseteq main_ancestors[prev_main_hash[b]] /\ prev_main_hash[b] \in MainBlock /\ h \in Nat
  BY DataIn, HeightFacts
<1>4. /\ s \in Seq(Applied) /\ Len(s) \in Nat
      /\ \A i \in 1 .. Len(s) : s[i][1] \in E /\ s[i][2] < h /\ s[i] \in Applied
      /\ s = <<>> => E = {}
      /\ s # <<>> => E \subseteq main_ancestors[s[Len(s)][1]]
  BY DEF StackOK
<1>5. \A i \in 1 .. Len(s) : s[i][2] \in Nat
  BY <1>4 DEF Applied
<1>6. r \in Seq(Applied)
  BY <1>3, <1>4, AppendTyped
<1>7. CASE D = {}
  <2>1. r = s /\ With(kind, MainBefore(b)) = E
    BY <1>2, <1>7 DEF AppendNewest
  <2>2. \A i \in 1 .. Len(s) : s[i][1] \in E /\ s[i][2] < h + 1
    BY <1>3, <1>4, <1>5
  <2> HIDE DEF E, h, r
  <2>3. StackOK(r, With(kind, MainBefore(b)), h + 1)
    BY <1>4, <2>1, <2>2 DEF StackOK
  <2> QED
    BY <1>2, <1>3, <2>3 DEF E, h, r
<1>8. CASE D # {}
  <2> DEFINE e == <<Newest(D), h>>
  <2>1. Newest(D) \in D /\ D \subseteq main_ancestors[Newest(D)]
    BY <1>3, <1>8, NewestIs
  <2>2. r = Append(s, e)
    BY <1>8 DEF AppendNewest
  <2>3. E \subseteq main_ancestors[Newest(D)]
    <3> SUFFICES ASSUME NEW x \in E PROVE x \in main_ancestors[Newest(D)]
      OBVIOUS
    <3>1. x \in MainBefore(p) /\ Newest(D) \in MainBefore(b) \ MainBefore(p)
      BY <1>1, <2>1 DEF With
    <3> QED
      BY <3>1, OldBeforeNew
  <2> HIDE DEF E, h, r
  <2>4. Len(r) = Len(s) + 1 /\ r[Len(r)] = e /\ r # <<>>
        /\ \A i \in 1 .. Len(s) : r[i] = s[i]
    BY <1>4, <2>2
  <2>5. \A i \in 1 .. Len(r) : r[i][1] \in E \cup D /\ r[i][2] < h + 1
    <3> TAKE i \in 1 .. Len(r)
    <3>1. CASE i = Len(s) + 1
      BY <1>3, <2>1, <2>4, <3>1
    <3>2. CASE i # Len(s) + 1
      <4>1. i \in 1 .. Len(s)
        BY <1>4, <2>4, <3>2
      <4> QED
        BY <1>3, <1>4, <1>5, <2>4, <4>1
    <3> QED
      BY <3>1, <3>2
  <2>6. StackOK(r, With(kind, MainBefore(b)), h + 1)
    BY <1>2, <1>6, <2>1, <2>3, <2>4, <2>5 DEF StackOK
  <2> QED
    BY <1>2, <1>3, <2>6 DEF E, h, r
<1> QED
  BY <1>7, <1>8

\* x and y came with a; they are one unless a is mixed.
Same(a, x, y) ==
    /\ a \in SideBlock /\ ValidBmm[a] # {}
    /\ x \in TwoWayPegData(a) /\ y \in TwoWayPegData(a)
    /\ x # y => Mixed(a)

\* The heights of the last entries of two stacks tell which block is newer, or
\* that they came with one block.
InStep(s, t, p) ==
    s # <<>> /\ t # <<>> =>
        LET d == s[Len(s)]
            e == t[Len(t)]
        IN  /\ d[2] < e[2] => d[1] \in main_ancestors[e[1]]
            /\ d[2] > e[2] => e[1] \in main_ancestors[d[1]]
            /\ d[2] = e[2] => \E a \in ancestors[p] : Same(a, d[1], e[1])

PegFacts(s, p) ==
    /\ s.deposits = With("deposit", MainBefore(p))
    /\ {e[1] : e \in s.bundles} = With("bundle", MainBefore(p))
    /\ \A e \in s.bundles : e[2] < Above(p)
    /\ StackOK(s.deposit_blocks, With("deposit", MainBefore(p)), Above(p))
    /\ StackOK(s.event_blocks, With("bundle", MainBefore(p)), Above(p))
    /\ InStep(s.deposit_blocks, s.event_blocks, p)

LEMMA PegFactsFirst == PegFacts(Unapplied, None)
<1>1. With("deposit", MainBefore(None)) = {} /\ With("bundle", MainBefore(None)) = {}
  BY DEF With, MainBefore
<1>2. StackOK(<<>>, {}, Above(None))
  BY DEF StackOK
<1> QED
  BY <1>1, <1>2 DEF PegFacts, Unapplied, InStep

\* What appending to both stacks does to their last entries.
LEMMA StepInStep ==
    ASSUME NEW b \in SideBlock, ValidBmm[b] # {}, NEW p, p = prev_side_hash[b],
           NEW s, StackOK(s, With("deposit", MainBefore(p)), height[b]),
           NEW t, StackOK(t, With("bundle", MainBefore(p)), height[b]), InStep(s, t, p)
    PROVE  InStep(AppendNewest(s, With("deposit", TwoWayPegData(b)), height[b]),
                  AppendNewest(t, With("bundle", TwoWayPegData(b)), height[b]), b)
<1> DEFINE h == height[b]
           D == With("deposit", TwoWayPegData(b))
           B == With("bundle", TwoWayPegData(b))
           u == AppendNewest(s, D, h)
           v == AppendNewest(t, B, h)
<1>1. /\ TwoWayPegData(b) = MainBefore(b) \ MainBefore(p)
      /\ D \subseteq main_ancestors[prev_main_hash[b]] /\ B \subseteq main_ancestors[prev_main_hash[b]]
      /\ prev_main_hash[b] \in MainBlock /\ h \in Nat
  BY DataSince, DataIn, HeightFacts
<1>2. /\ s \in Seq(Applied) /\ Len(s) \in Nat
      /\ s # <<>> => s[Len(s)][1] \in MainBefore(p) /\ s[Len(s)][2] < h /\ s[Len(s)][2] \in Nat
  <2>1. s \in Seq(Applied) /\ Len(s) \in Nat
    BY DEF StackOK
  <2>2. s # <<>> => Len(s) \in 1 .. Len(s) /\ s[Len(s)] \in Applied
    BY <2>1
  <2> QED
    BY <2>1, <2>2 DEF StackOK, With, Applied
<1>3. /\ t \in Seq(Applied) /\ Len(t) \in Nat
      /\ t # <<>> => t[Len(t)][1] \in MainBefore(p) /\ t[Len(t)][2] < h /\ t[Len(t)][2] \in Nat
  <2>1. t \in Seq(Applied) /\ Len(t) \in Nat
    BY DEF StackOK
  <2>2. t # <<>> => Len(t) \in 1 .. Len(t) /\ t[Len(t)] \in Applied
    BY <2>1
  <2> QED
    BY <2>1, <2>2 DEF StackOK, With, Applied
<1>4. D # {} => Newest(D) \in MainBefore(b) \ MainBefore(p)
  BY <1>1, NewestIs DEF With
<1>5. B # {} => Newest(B) \in MainBefore(b) \ MainBefore(p)
  BY <1>1, NewestIs DEF With
<1>6. D # {} /\ B # {} => b \in ancestors[b] /\ Same(b, Newest(D), Newest(B))
  <2>1. D # {} /\ B # {} /\ Newest(D) # Newest(B) => Mixed(b)
    BY DEF Mixed
  <2>2. b \in ancestors[b]
    BY SideFacts
  <2> HIDE DEF D, B
  <2> QED
    BY <1>1, <1>4, <1>5, <2>1, <2>2 DEF Same
<1>7. u = IF D = {} THEN s ELSE Append(s, <<Newest(D), h>>)
  BY DEF AppendNewest
<1>8. v = IF B = {} THEN t ELSE Append(t, <<Newest(B), h>>)
  BY DEF AppendNewest
<1> HIDE DEF D, B, u, v, h
<1>9. D # {} => u # <<>> /\ u[Len(u)] = <<Newest(D), h>>
  BY <1>2, <1>7
<1>10. B # {} => v # <<>> /\ v[Len(v)] = <<Newest(B), h>>
  BY <1>3, <1>8
<1>11. CASE D = {} /\ B = {}
  <2>1. u = s /\ v = t /\ ancestors[p] \subseteq ancestors[b]
    BY <1>7, <1>8, <1>11, SideFacts
  <2>2. InStep(u, v, b)
    BY <2>1 DEF InStep
  <2> QED
    BY <2>2 DEF D, B, u, v, h
<1>12. CASE D # {} /\ B # {}
  <2>1. b \in ancestors[b] /\ Same(b, Newest(D), Newest(B))
    BY <1>6, <1>12
  <2>2. InStep(u, v, b)
    BY <1>1, <1>9, <1>10, <1>12, <2>1 DEF InStep
  <2> QED
    BY <2>2 DEF D, B, u, v, h
<1>13. CASE D # {} /\ B = {}
  <2>1. v = t /\ u[Len(u)] = <<Newest(D), h>>
    BY <1>8, <1>9, <1>13
  <2>2. t # <<>> => t[Len(t)][1] \in main_ancestors[Newest(D)]
    BY <1>3, <1>4, <1>13, OldBeforeNew
  <2>3. InStep(u, v, b)
    BY <1>1, <1>3, <2>1, <2>2 DEF InStep
  <2> QED
    BY <2>3 DEF D, B, u, v, h
<1>14. CASE D = {} /\ B # {}
  <2>1. u = s /\ v[Len(v)] = <<Newest(B), h>>
    BY <1>7, <1>10, <1>14
  <2>2. s # <<>> => s[Len(s)][1] \in main_ancestors[Newest(B)]
    BY <1>2, <1>5, <1>14, OldBeforeNew
  <2>3. InStep(u, v, b)
    BY <1>1, <1>2, <2>1, <2>2 DEF InStep
  <2> QED
    BY <2>3 DEF D, B, u, v, h
<1> QED
  BY <1>11, <1>12, <1>13, <1>14

LEMMA PegFactsStep ==
    ASSUME NEW b \in SideBlock, ValidBmm[b] # {}, NEW s \in States, PegFacts(s, prev_side_hash[b])
    PROVE  PegFacts(connect_state(s, b), b)
<1> DEFINE p == prev_side_hash[b]
           h == height[b]
           D == With("deposit", TwoWayPegData(b))
           B == With("bundle", TwoWayPegData(b))
           r == connect_state(s, b)
<1>1. Above(p) = h /\ h \in Nat /\ Above(b) = h + 1
  BY HeightIs
<1>2. /\ r.deposits = s.deposits \cup D /\ r.bundles = s.bundles \cup (B \X {h})
      /\ r.deposit_blocks = AppendNewest(s.deposit_blocks, D, h)
      /\ r.event_blocks = AppendNewest(s.event_blocks, B, h)
  BY DEF connect_state
<1>3. /\ s.deposits = With("deposit", MainBefore(p))
      /\ {e[1] : e \in s.bundles} = With("bundle", MainBefore(p))
      /\ \A e \in s.bundles : e[2] < h
      /\ StackOK(s.deposit_blocks, With("deposit", MainBefore(p)), h)
      /\ StackOK(s.event_blocks, With("bundle", MainBefore(p)), h)
      /\ InStep(s.deposit_blocks, s.event_blocks, p)
  BY <1>1 DEF PegFacts
<1>4. /\ StackOK(r.deposit_blocks, With("deposit", MainBefore(b)), h + 1)
      /\ With("deposit", MainBefore(b)) = With("deposit", MainBefore(p)) \cup D
  <2>1. D = With("deposit", TwoWayPegData(b)) /\ p = prev_side_hash[b]
    OBVIOUS
  <2>2. StackOK(s.deposit_blocks, With("deposit", MainBefore(p)), height[b])
    BY <1>3
  <2> HIDE DEF D, B, p
  <2>3. /\ StackOK(AppendNewest(s.deposit_blocks, D, height[b]), With("deposit", MainBefore(b)), height[b] + 1)
        /\ With("deposit", MainBefore(b)) = With("deposit", MainBefore(p)) \cup D
    BY <2>1, <2>2, StackGrows
  <2> QED
    BY <1>2, <2>3
<1>5. /\ StackOK(r.event_blocks, With("bundle", MainBefore(b)), h + 1)
      /\ With("bundle", MainBefore(b)) = With("bundle", MainBefore(p)) \cup B
  <2>1. B = With("bundle", TwoWayPegData(b)) /\ p = prev_side_hash[b]
    OBVIOUS
  <2>2. StackOK(s.event_blocks, With("bundle", MainBefore(p)), height[b])
    BY <1>3
  <2> HIDE DEF D, B, p
  <2>3. /\ StackOK(AppendNewest(s.event_blocks, B, height[b]), With("bundle", MainBefore(b)), height[b] + 1)
        /\ With("bundle", MainBefore(b)) = With("bundle", MainBefore(p)) \cup B
    BY <2>1, <2>2, StackGrows
  <2> QED
    BY <1>2, <2>3
<1>6. InStep(r.deposit_blocks, r.event_blocks, b)
  BY <1>2, <1>3, StepInStep
<1>7. \A e \in s.bundles : e[2] \in Nat
  BY StateFacts DEF Applied
<1> HIDE DEF D, B, r, h, p
<1>8. \A e \in r.bundles : e[2] < h + 1
  BY <1>1, <1>2, <1>3, <1>7
<1>9. {e[1] : e \in r.bundles} = {e[1] : e \in s.bundles} \cup B
  <2>1. \A m \in B : <<m, h>> \in r.bundles
    BY <1>2
  <2>2. \A e \in r.bundles : e \in s.bundles \/ e[1] \in B
    BY <1>2
  <2>3. s.bundles \subseteq r.bundles
    BY <1>2
  <2>4. \A m \in B : \E e \in r.bundles : e[1] = m
    BY <2>1
  <2> QED
    BY <2>2, <2>3, <2>4
<1> QED
  BY <1>1, <1>2, <1>3, <1>4, <1>5, <1>6, <1>8, <1>9 DEF PegFacts, r

LEMMA StateAtPeg ==
    ASSUME NEW b \in SideBlock \cup {None}, b # None => ValidBmm[b] # {}
    PROVE  PegFacts(StateAt[b], b)
<1> DEFINE C == {d \in SideBlock : ValidBmm[d] # {} /\ ~PegFacts(StateAt[d], d)}
<1>1. PegFacts(StateAt[None], None)
  BY StateAtIs, PegFactsFirst
<1>2. C = {}
  <2> SUFFICES ASSUME C # {} PROVE FALSE
    OBVIOUS
  <2>1. PICK d \in C : prev_side_hash[d] \notin C
    BY ChainsAssumption DEF Rooted
  <2> DEFINE p == prev_side_hash[d]
  <2>2. p \in SideBlock \cup {None} /\ StateAt[d] = connect_state(StateAt[p], d)
    BY StateAtIs
  <2>3. p # None => p \in SideBlock /\ ValidBmm[p] # {}
    BY <2>1, DataSince
  <2>4. PegFacts(StateAt[p], p) /\ StateAt[p] \in States
    BY <1>1, <2>1, <2>2, <2>3, StateAtTyped
  <2> QED
    BY <2>1, <2>2, <2>4, PegFactsStep
<1> QED
  BY <1>1, <1>2

\* A block is connected to what was left of the blocks before it.
LEMMA ConnectPeg ==
    ASSUME NEW b \in SideBlock, NEW s \in States, s.tip = prev_side_hash[b], PegOK(s)
    PROVE  PegOK(connect_state(s, b))
<1> DEFINE o == StateAt[s.tip]
           D == With("deposit", TwoWayPegData(b))
           r == connect_state(s, b)
           u == connect_state(o, b)
<1>1. StateAt[b] = u
  BY StateAtIs
<1>2. /\ s.bundles = o.bundles /\ s.deposit_blocks = o.deposit_blocks
      /\ s.event_blocks = o.event_blocks /\ s.deposits \subseteq o.deposits
      /\ \A m \in o.deposits \ s.deposits : MixedUp(m, s.tip)
  BY DEF PegOK
<1>3. /\ r.tip = b /\ r.bundles = u.bundles /\ r.deposit_blocks = u.deposit_blocks
      /\ r.event_blocks = u.event_blocks
      /\ r.deposits = s.deposits \cup D /\ u.deposits = o.deposits \cup D
  BY <1>2 DEF connect_state
<1>4. \A m : MixedUp(m, s.tip) => MixedUp(m, b)
  BY SideFacts DEF MixedUp
<1> HIDE DEF o, D, r, u
<1>5. r.deposits \subseteq u.deposits /\ \A m \in u.deposits \ r.deposits : MixedUp(m, b)
  BY <1>2, <1>3, <1>4
<1> QED
  BY <1>1, <1>3, <1>5 DEF PegOK, r

-----------------------------------------------------------------------------
(***************************************************************************)
(* Disconnecting: the events that disconnect_tip_ computes are those that  *)
(* came with the tip, and perhaps others of a mixed block below it.  The   *)
(* assertions fail if one of these is a bundle event, or if the tip had no *)
(* deposit; otherwise they are deposits, and are removed too early.        *)
(***************************************************************************)
LastOr(s) == IF s = <<>> THEN NoneApplied ELSE s[Len(s)]

LEMMA LastAppliedIs ==
    ASSUME NEW h \in Nat, NEW E, NEW s, StackOK(s, E, h), NEW D,
           NEW u, u = AppendNewest(s, D, h)
    PROVE  LastApplied(u, h) = LastOr(s)
<1> DEFINE I == {i \in DOMAIN u : u[i][2] < h}
<1>1. s \in Seq(Applied) /\ Len(s) \in Nat /\ \A i \in 1 .. Len(s) : s[i][2] < h
  BY DEF StackOK
<1>2. I = 1 .. Len(s) /\ \A i \in 1 .. Len(s) : u[i] = s[i]
  <2>1. CASE D = {}
    BY <1>1, <2>1 DEF AppendNewest
  <2>2. CASE D # {}
    <3> DEFINE e == <<Newest(D), h>>
    <3>1. u = Append(s, e) /\ e[2] = h
      BY <2>2 DEF AppendNewest
    <3> HIDE DEF e
    <3>2. DOMAIN u = 1 .. Len(s) + 1 /\ u[Len(s) + 1] = e /\ \A i \in 1 .. Len(s) : u[i] = s[i]
      BY <1>1, <3>1
    <3>3. \A i \in DOMAIN u : i \in I <=> i \in 1 .. Len(s)
      <4> TAKE i \in DOMAIN u
      <4>1. CASE i = Len(s) + 1
        BY <1>1, <3>1, <3>2, <4>1
      <4>2. CASE i # Len(s) + 1
        BY <1>1, <3>2, <4>2
      <4> QED
        BY <4>1, <4>2
    <3> QED
      BY <1>1, <3>2, <3>3
  <2> QED
    BY <2>1, <2>2
<1>3. LastApplied(u, h) = IF I = {} THEN NoneApplied ELSE u[CHOOSE i \in I : \A j \in I : j <= i]
  BY DEF LastApplied
<1> HIDE DEF I
<1>4. CASE s = <<>>
  BY <1>1, <1>2, <1>3, <1>4 DEF LastOr
<1>5. CASE s # <<>>
  <2> DEFINE c == CHOOSE i \in I : \A j \in I : j <= i
  <2>1. Len(s) \in I /\ \A j \in I : j <= Len(s)
    BY <1>1, <1>2, <1>5
  <2>2. c \in I /\ \A j \in I : j <= c
    BY <2>1
  <2>3. c = Len(s)
    BY <1>1, <1>2, <2>1, <2>2
  <2> QED
    BY <1>2, <1>3, <1>5, <2>1, <2>3 DEF LastOr
<1> QED
  BY <1>4, <1>5

\* Where disconnect_tip_ takes the events before b to end: at the newest of
\* them, at ZeroHash, or within a mixed block.
EndsAt(x, p) ==
    \/ /\ x = ZeroHash /\ With("deposit", MainBefore(p)) = {} /\ With("bundle", MainBefore(p)) = {}
    \/ /\ x \in MainBefore(p)
       /\ \A m \in With("deposit", MainBefore(p)) : m \in main_ancestors[x] \/ MixedUp(m, p)
       /\ \A m \in With("bundle", MainBefore(p)) : m \in main_ancestors[x] \/ MixedUp(m, p)

\* What is after x and not after y came with the block that x and y came with.
LEMMA WithinOne ==
    ASSUME NEW a \in SideBlock, ValidBmm[a] # {},
           NEW x \in TwoWayPegData(a), NEW y \in TwoWayPegData(a),
           NEW m \in main_ancestors[y], m \notin main_ancestors[x]
    PROVE  m \in TwoWayPegData(a)
<1> DEFINE q == prev_side_hash[a]
<1>1. /\ TwoWayPegData(a) = MainBefore(a) \ MainBefore(q) /\ MainBefore(a) \subseteq MainBlock
      /\ MainBefore(a) = main_ancestors[prev_main_hash[a]] /\ prev_main_hash[a] \in MainBlock
  BY DataSince, BlocksAssumption
<1>2. m \in MainBefore(a)
  BY <1>1, MainFacts
<1>3. m \notin MainBefore(q)
  BY <1>1, OldBeforeNew
<1> QED
  BY <1>1, <1>2, <1>3

LEMMA LastOrIs ==
    ASSUME NEW E, E \subseteq MainBlock, NEW h \in Nat, NEW s, StackOK(s, E, h)
    PROVE  /\ LastOr(s) = NoneApplied <=> s = <<>>
           /\ s = <<>> => E = {}
           /\ s # <<>> => /\ LastOr(s) = s[Len(s)] /\ LastOr(s)[1] \in E
                          /\ LastOr(s)[2] \in Nat /\ E \subseteq main_ancestors[LastOr(s)[1]]
<1>1. s \in Seq(Applied) /\ (s # <<>> => Len(s) \in 1 .. Len(s) /\ s[Len(s)] \in Applied)
  BY DEF StackOK
<1>2. s # <<>> => s[Len(s)][1] \in MainBlock /\ s[Len(s)][1] \in E /\ s[Len(s)][2] \in Nat
  BY <1>1 DEF StackOK, Applied
<1>3. s # <<>> => s[Len(s)] # NoneApplied
  BY <1>2, BlocksAssumption DEF NoneApplied
<1> QED
  BY <1>1, <1>2, <1>3 DEF LastOr, StackOK

LEMMA StartIs ==
    ASSUME NEW b \in SideBlock, ValidBmm[b] # {}, NEW p, p = prev_side_hash[b],
           NEW o, PegFacts(o, p), NEW s, s.tip = b,
           s.deposit_blocks = AppendNewest(o.deposit_blocks, With("deposit", TwoWayPegData(b)), height[b]),
           s.event_blocks = AppendNewest(o.event_blocks, With("bundle", TwoWayPegData(b)), height[b])
    PROVE  EndsAt(start_block_hash(s), p) /\ ~Unordered(s)
<1> DEFINE h == height[b]
           d == LastApplied(s.deposit_blocks, height[s.tip])
           e == LastApplied(s.event_blocks, height[s.tip])
           D == With("deposit", MainBefore(p))
           B == With("bundle", MainBefore(p))
           u == o.deposit_blocks
           v == o.event_blocks
           x == start_block_hash(s)
<1>1. /\ s.tip = b
      /\ s.deposit_blocks = AppendNewest(u, With("deposit", TwoWayPegData(b)), h)
      /\ s.event_blocks = AppendNewest(v, With("bundle", TwoWayPegData(b)), h)
  OBVIOUS
<1>2. h \in Nat /\ Above(p) = h
  BY HeightIs
<1>3. StackOK(u, D, h) /\ StackOK(v, B, h) /\ InStep(u, v, p)
  BY <1>2 DEF PegFacts
<1>4. d = LastOr(u)
  BY <1>1, <1>2, <1>3, LastAppliedIs
<1>5. e = LastOr(v)
  BY <1>1, <1>2, <1>3, LastAppliedIs
<1>6. D \subseteq MainBlock /\ B \subseteq MainBlock /\ D \subseteq MainBefore(p) /\ B \subseteq MainBefore(p)
      /\ MainBefore(p) \subseteq MainBlock
  <2>1. MainBefore(p) \subseteq MainBefore(b) /\ MainBefore(b) \subseteq MainBlock
    BY DataSince
  <2> QED
    BY <2>1 DEF With
<1>7. x = CASE d = NoneApplied -> e[1]
          [] d # NoneApplied /\ e = NoneApplied -> d[1]
          [] d # NoneApplied /\ e # NoneApplied /\ d[2] < e[2] -> e[1]
          [] d # NoneApplied /\ e # NoneApplied /\ d[2] > e[2] -> d[1]
          [] d # NoneApplied /\ e # NoneApplied /\ d[2] = e[2] ->
                IF is_main_descendant(e[1], d[1]) THEN e[1] ELSE d[1]
  BY DEF start_block_hash
<1>8. Unordered(s) <=> /\ d # NoneApplied /\ e # NoneApplied /\ d[2] = e[2]
                       /\ ~shared_mainchain_lineage(d[1], e[1])
  BY DEF Unordered
<1>9. /\ d = NoneApplied <=> u = <<>>
      /\ u = <<>> => D = {}
      /\ u # <<>> => d = u[Len(u)] /\ d[1] \in D /\ d[2] \in Nat /\ D \subseteq main_ancestors[d[1]]
  BY <1>2, <1>3, <1>4, <1>6, LastOrIs
<1>10. /\ e = NoneApplied <=> v = <<>>
       /\ v = <<>> => B = {}
       /\ v # <<>> => e = v[Len(v)] /\ e[1] \in B /\ e[2] \in Nat /\ B \subseteq main_ancestors[e[1]]
  BY <1>2, <1>3, <1>5, <1>6, LastOrIs
<1>11. u # <<>> /\ v # <<>> =>
        /\ d[2] < e[2] => d[1] \in main_ancestors[e[1]]
        /\ d[2] > e[2] => e[1] \in main_ancestors[d[1]]
        /\ d[2] = e[2] => \E a \in ancestors[p] : Same(a, d[1], e[1])
  BY <1>3, <1>9, <1>10 DEF InStep
<1>12. ASSUME NEW a \in ancestors[p], Same(a, d[1], e[1])
       PROVE  d[1] \in main_ancestors[e[1]] \/ e[1] \in main_ancestors[d[1]]
  BY <1>12, DataSince, MainLinear, BlocksAssumption DEF Same
<1>13. NoneApplied[1] = ZeroHash
  BY DEF NoneApplied
<1> HIDE DEF h, d, e, D, B, u, v, x
<1>14. ~Unordered(s)
  BY <1>6, <1>8, <1>9, <1>10, <1>11, <1>12 DEF shared_mainchain_lineage, is_main_descendant
<1>15. CASE u = <<>> /\ v = <<>>
  <2>1. x = ZeroHash
    BY <1>7, <1>9, <1>10, <1>13, <1>15
  <2> QED
    BY <1>9, <1>10, <1>14, <1>15, <2>1 DEF EndsAt, D, B, x
<1>16. CASE u = <<>> /\ v # <<>>
  <2>1. x = e[1]
    BY <1>7, <1>9, <1>16
  <2>2. x \in MainBefore(p) /\ D \subseteq main_ancestors[x] /\ B \subseteq main_ancestors[x]
    BY <1>6, <1>9, <1>10, <1>16, <2>1
  <2> QED
    BY <1>14, <2>2 DEF EndsAt, D, B, x
<1>17. CASE u # <<>> /\ v = <<>>
  <2>1. x = d[1]
    BY <1>7, <1>9, <1>10, <1>17
  <2>2. x \in MainBefore(p) /\ D \subseteq main_ancestors[x] /\ B \subseteq main_ancestors[x]
    BY <1>6, <1>9, <1>10, <1>17, <2>1
  <2> QED
    BY <1>14, <2>2 DEF EndsAt, D, B, x
<1>18. CASE u # <<>> /\ v # <<>>
  <2>1. d[1] \in MainBlock /\ e[1] \in MainBlock /\ d[1] \in MainBefore(p) /\ e[1] \in MainBefore(p)
        /\ d[2] \in Nat /\ e[2] \in Nat /\ d # NoneApplied /\ e # NoneApplied
        /\ D \subseteq main_ancestors[d[1]] /\ B \subseteq main_ancestors[e[1]]
    BY <1>6, <1>9, <1>10, <1>18
  <2>2. CASE d[2] < e[2]
    <3>1. x = e[1]
      BY <1>7, <2>1, <2>2
    <3>2. main_ancestors[d[1]] \subseteq main_ancestors[e[1]]
      BY <1>11, <1>18, <2>1, <2>2, MainFacts
    <3>3. x \in MainBefore(p) /\ D \subseteq main_ancestors[x] /\ B \subseteq main_ancestors[x]
      BY <2>1, <3>1, <3>2
    <3> QED
      BY <1>14, <3>3 DEF EndsAt, D, B, x
  <2>3. CASE d[2] > e[2]
    <3>1. x = d[1]
      BY <1>7, <2>1, <2>3
    <3>2. main_ancestors[e[1]] \subseteq main_ancestors[d[1]]
      BY <1>11, <1>18, <2>1, <2>3, MainFacts
    <3>3. x \in MainBefore(p) /\ D \subseteq main_ancestors[x] /\ B \subseteq main_ancestors[x]
      BY <2>1, <3>1, <3>2
    <3> QED
      BY <1>14, <3>3 DEF EndsAt, D, B, x
  <2>4. CASE d[2] = e[2]
    <3>1. PICK a \in ancestors[p] : Same(a, d[1], e[1])
      BY <1>11, <1>18, <2>4
    <3>2. CASE d[1] = e[1]
      <4>1. x = e[1]
        BY <1>7, <2>1, <2>4, <3>2
      <4>2. x \in MainBefore(p) /\ D \subseteq main_ancestors[x] /\ B \subseteq main_ancestors[x]
        BY <2>1, <3>2, <4>1
      <4> QED
        BY <1>14, <4>2 DEF EndsAt, D, B, x
    <3>3. CASE d[1] # e[1]
      <4>1. Mixed(a) /\ a \in SideBlock /\ ValidBmm[a] # {}
            /\ d[1] \in TwoWayPegData(a) /\ e[1] \in TwoWayPegData(a)
        BY <3>1, <3>3 DEF Same
      <4>2. x = (IF e[1] \in main_ancestors[d[1]] THEN e[1] ELSE d[1])
        BY <1>7, <2>1, <2>4 DEF is_main_descendant
      <4>3. x \in MainBefore(p) /\ x \in TwoWayPegData(a)
        BY <2>1, <4>1, <4>2
      <4>4. \A m \in main_ancestors[d[1]] \cup main_ancestors[e[1]] :
                m \in main_ancestors[x] \/ MixedUp(m, p)
        <5> SUFFICES ASSUME NEW m \in main_ancestors[d[1]] \cup main_ancestors[e[1]],
                            m \notin main_ancestors[x]
                     PROVE  MixedUp(m, p)
          OBVIOUS
        <5>1. m \in TwoWayPegData(a)
          BY <4>1, <4>3, WithinOne
        <5> QED
          BY <3>1, <4>1, <5>1 DEF MixedUp
      <4> QED
        BY <1>14, <2>1, <4>3, <4>4 DEF EndsAt, D, B, x
    <3> QED
      BY <3>2, <3>3
  <2> QED
    BY <2>1, <2>2, <2>3, <2>4
<1> QED
  BY <1>15, <1>16, <1>17, <1>18

\* The blocks after that have the events since the parent of b, and no other
\* than such as are mixed up.
LEMMA SinceIs ==
    ASSUME NEW b \in SideBlock, ValidBmm[b] # {}, NEW p, p = prev_side_hash[b],
           NEW x, EndsAt(x, p), NEW kind \in {"deposit", "bundle"},
           NEW K, K = With(kind, MainAfter(prev_main_hash[b], x))
    PROVE  /\ With(kind, TwoWayPegData(b)) \subseteq K
           /\ \A m \in K \ With(kind, TwoWayPegData(b)) : m \in With(kind, MainBefore(p)) /\ MixedUp(m, p)
<1> DEFINE M == MainBefore(b)
           L == MainBefore(p)
<1>1. /\ TwoWayPegData(b) = M \ L /\ L \subseteq M /\ M = main_ancestors[prev_main_hash[b]]
      /\ M \subseteq MainBlock /\ prev_main_hash[b] \in MainBlock
  BY DataSince, BlocksAssumption
<1>2. CASE x = ZeroHash /\ With("deposit", L) = {} /\ With("bundle", L) = {}
  <2>1. MainAfter(prev_main_hash[b], x) = M
    BY <1>1, <1>2, BlocksAssumption DEF MainAfter
  <2>2. With(kind, M) = With(kind, M \ L)
    BY <1>2 DEF With
  <2> QED
    BY <1>1, <2>1, <2>2
<1>3. CASE /\ x \in L
           /\ \A m \in With("deposit", L) : m \in main_ancestors[x] \/ MixedUp(m, p)
           /\ \A m \in With("bundle", L) : m \in main_ancestors[x] \/ MixedUp(m, p)
  <2>1. MainAfter(prev_main_hash[b], x) = M \ main_ancestors[x]
    BY <1>1, <1>3 DEF MainAfter
  <2>2. main_ancestors[x] \subseteq L
    <3>1. p # None /\ L = main_ancestors[prev_main_hash[p]]
      BY <1>3 DEF MainBefore
    <3>2. prev_main_hash[p] \in MainBlock
      BY <3>1, BlocksAssumption, SideFacts
    <3> QED
      BY <1>3, <3>1, <3>2, MainFacts
  <2>3. \A m \in With(kind, L) : m \in main_ancestors[x] \/ MixedUp(m, p)
    BY <1>3
  <2> HIDE DEF L, M
  <2>4. K = {m \in M : m \notin main_ancestors[x] /\ kind \in peg_events[m]}
    BY <2>1 DEF With
  <2> QED
    BY <1>1, <2>2, <2>3, <2>4 DEF With, L
<1> QED
  BY <1>2, <1>3 DEF EndsAt

LEMMA FrontIs ==
    ASSUME NEW s \in Seq(Applied), NEW e \in Applied
    PROVE  Front(Append(s, e)) = s /\ EndsWith(Append(s, e), e)
<1> DEFINE u == Append(s, e)
           f == SubSeq(u, 1, Len(u) - 1)
<1>1. u \in Seq(Applied) /\ Len(u) = Len(s) + 1 /\ Len(s) \in Nat /\ u[Len(s) + 1] = e
      /\ \A i \in 1 .. Len(s) : u[i] = s[i]
  OBVIOUS
<1> HIDE DEF u
<1>2. Len(u) - 1 = Len(s)
  BY <1>1
<1>3. f = [i \in 1 .. Len(s) |-> u[i]]
  BY <1>1, <1>2
<1>4. s = [i \in 1 .. Len(s) |-> s[i]]
  OBVIOUS
<1>5. f = s
  BY <1>1, <1>3, <1>4
<1>6. u # <<>> /\ u[Len(u)] = e
  BY <1>1
<1> QED
  BY <1>5, <1>6 DEF Front, EndsWith, u

\* The state s at the tip b, and o before it.  b came with the deposits D and the
\* bundle events B, and disconnect_tip_ takes it that they were DD and BB.
Undoes(s, b, p, o, h, D, B, DD, BB) ==
    /\ p \in SideBlock \cup {None} /\ h \in Nat /\ o \in States /\ o.tip = p
    /\ ~Unordered(s)
    /\ D \subseteq DD /\ B \subseteq BB
    /\ \A m \in DD \ D : m \in o.deposits /\ MixedUp(m, p)
    /\ \A m \in BB \ B : MixedUp(m, p)
    /\ s.deposit_blocks = AppendNewest(o.deposit_blocks, D, h)
    /\ s.event_blocks = AppendNewest(o.event_blocks, B, h)
    /\ s.bundles = o.bundles \cup (B \X {h})
    /\ s.deposits \subseteq o.deposits \cup D /\ o.deposits \cap D = {}
    /\ \A m \in (o.deposits \cup D) \ s.deposits : MixedUp(m, b)
    /\ \A e \in o.bundles : e[2] < h /\ e[2] \in Nat
    /\ \A e \in Applied : EndsWith(o.deposit_blocks, e) \/ EndsWith(o.event_blocks, e) => e[2] < h
    /\ D # {} => /\ Newest(D) \in D /\ Front(s.deposit_blocks) = o.deposit_blocks
                 /\ EndsWith(s.deposit_blocks, <<Newest(D), h>>)
    /\ B # {} => /\ Newest(B) \in B /\ Front(s.event_blocks) = o.event_blocks
                 /\ EndsWith(s.event_blocks, <<Newest(B), h>>)

LEMMA DisconnectFacts ==
    ASSUME NEW s \in States, NEW b \in SideBlock, s.tip = b, ValidBmm[b] # {}, PegOK(s),
           NEW p, p = prev_side_hash[b], NEW o, o = StateAt[p],
           NEW h, h = height[b],
           NEW D, D = With("deposit", TwoWayPegData(b)), NEW B, B = With("bundle", TwoWayPegData(b)),
           NEW DD, DD = With("deposit", Disconnected(s)), NEW BB, BB = With("bundle", Disconnected(s))
    PROVE  Undoes(s, b, p, o, h, D, B, DD, BB)
<1>1. p \in SideBlock \cup {None} /\ StateAt[b] = connect_state(o, b)
  BY StateAtIs
<1>2. p # None => p \in SideBlock /\ ValidBmm[p] # {}
  BY DataSince
<1>3. PegFacts(o, p) /\ o \in States /\ o.tip = p
  BY <1>1, <1>2, StateAtPeg, StateAtTyped
<1>4. /\ s.deposit_blocks = AppendNewest(o.deposit_blocks, D, h)
      /\ s.event_blocks = AppendNewest(o.event_blocks, B, h)
      /\ s.bundles = o.bundles \cup (B \X {h})
      /\ s.deposits \subseteq o.deposits \cup D
      /\ \A m \in (o.deposits \cup D) \ s.deposits : MixedUp(m, b)
  BY <1>1 DEF connect_state, PegOK
<1>5. EndsAt(start_block_hash(s), p) /\ ~Unordered(s)
  BY <1>3, <1>4, StartIs
<1>6. /\ D \subseteq DD /\ B \subseteq BB
      /\ \A m \in DD \ D : m \in With("deposit", MainBefore(p)) /\ MixedUp(m, p)
      /\ \A m \in BB \ B : m \in With("bundle", MainBefore(p)) /\ MixedUp(m, p)
  <2> DEFINE x == start_block_hash(s)
  <2>1. Disconnected(s) = MainAfter(prev_main_hash[b], x) /\ EndsAt(x, p)
    BY <1>5 DEF Disconnected
  <2> HIDE DEF x
  <2>2. DD = With("deposit", MainAfter(prev_main_hash[b], x))
        /\ BB = With("bundle", MainAfter(prev_main_hash[b], x))
    BY <2>1
  <2> QED
    BY <2>1, <2>2, SinceIs
<1>7. h \in Nat /\ Above(p) = h
  BY HeightIs
<1>8. /\ o.deposits = With("deposit", MainBefore(p))
      /\ \A e \in o.bundles : e[2] < h
      /\ StackOK(o.deposit_blocks, With("deposit", MainBefore(p)), h)
      /\ StackOK(o.event_blocks, With("bundle", MainBefore(p)), h)
  BY <1>3, <1>7 DEF PegFacts
<1>9. With("deposit", MainBefore(p)) \cap D = {}
  BY <1>8, StackGrows
<1>10. \A e \in o.bundles : e[2] \in Nat
  BY <1>3, StateFacts DEF Applied
<1>11. \A e \in Applied : EndsWith(o.deposit_blocks, e) \/ EndsWith(o.event_blocks, e) => e[2] < h
  <2>1. \A q \in Seq(Applied) : q # <<>> => Len(q) \in 1 .. Len(q)
    OBVIOUS
  <2> QED
    BY <1>8, <2>1 DEF EndsWith, StackOK
<1>12. /\ D # {} => Newest(D) \in D /\ <<Newest(D), h>> \in Applied
       /\ B # {} => Newest(B) \in B /\ <<Newest(B), h>> \in Applied
  <2>1. D \subseteq main_ancestors[prev_main_hash[b]] /\ B \subseteq main_ancestors[prev_main_hash[b]]
        /\ prev_main_hash[b] \in MainBlock
    BY DataIn
  <2> QED
    BY <1>7, <2>1, NewestIs DEF Applied
<1>13. o.deposit_blocks \in Seq(Applied) /\ o.event_blocks \in Seq(Applied)
  BY <1>3, StateFacts
<1>14. D # {} => /\ Front(s.deposit_blocks) = o.deposit_blocks
                 /\ EndsWith(s.deposit_blocks, <<Newest(D), h>>)
  BY <1>4, <1>12, <1>13, FrontIs DEF AppendNewest
<1>15. B # {} => /\ Front(s.event_blocks) = o.event_blocks
                 /\ EndsWith(s.event_blocks, <<Newest(B), h>>)
  BY <1>4, <1>12, <1>13, FrontIs DEF AppendNewest
<1>16. o.deposits \cap D = {} /\ \A m \in DD \ D : m \in o.deposits /\ MixedUp(m, p)
  BY <1>6, <1>8, <1>9
<1> QED
  BY <1>1, <1>3, <1>4, <1>5, <1>6, <1>7, <1>8, <1>10, <1>11, <1>12, <1>14, <1>15, <1>16 DEF Undoes

\* disconnect of a block that has no mixed block below it meets all assertions.
LEMMA DisconnectMeets ==
    ASSUME NEW s \in States, NEW b \in SideBlock, s.tip = b, ValidBmm[b] # {}, PegOK(s),
           Clean(prev_side_hash[b])
    PROVE  ~disconnect_panics(s)
<1> DEFINE p == prev_side_hash[b]
           h == height[b]
           D == With("deposit", TwoWayPegData(b))
           B == With("bundle", TwoWayPegData(b))
           DD == With("deposit", Disconnected(s))
           BB == With("bundle", Disconnected(s))
<1>0. Undoes(s, b, p, StateAt[p], h, D, B, DD, BB)
  BY DisconnectFacts
<1>1. /\ ~Unordered(s) /\ D \subseteq DD /\ B \subseteq BB
      /\ (\A m \in DD \ D : MixedUp(m, p)) /\ (\A m \in BB \ B : MixedUp(m, p))
      /\ B \X {h} \subseteq s.bundles
      /\ D # {} => EndsWith(s.deposit_blocks, <<Newest(D), h>>)
      /\ B # {} => EndsWith(s.event_blocks, <<Newest(B), h>>)
  BY <1>0 DEF Undoes
<1>2. \A m : ~MixedUp(m, p)
  BY DEF MixedUp, Clean
<1> HIDE DEF D, B, DD, BB, h, p
<1>3. DD = D /\ BB = B
  BY <1>1, <1>2
<1>4. \A m \in B : <<m, h>> \in s.bundles
  BY <1>1
<1> QED
  BY <1>1, <1>3, <1>4 DEF disconnect_panics, h, DD, BB

\* Where no assertion of disconnect fails and every deposit to remove is there,
\* the state is as before the tip but for deposits that are mixed up.
LEMMA DisconnectBack ==
    ASSUME NEW s \in States, NEW b \in SideBlock, s.tip = b, ValidBmm[b] # {}, PegOK(s),
           ~disconnect_panics(s), With("deposit", Disconnected(s)) \subseteq s.deposits
    PROVE  PegOK(disconnect_state(s))
<1> DEFINE p == prev_side_hash[b]
           o == StateAt[p]
           h == height[b]
           D == With("deposit", TwoWayPegData(b))
           B == With("bundle", TwoWayPegData(b))
           DD == With("deposit", Disconnected(s))
           BB == With("bundle", Disconnected(s))
           u == disconnect_state(s)
<1>0. Undoes(s, b, p, o, h, D, B, DD, BB)
  BY DisconnectFacts
<1>1. /\ p \in SideBlock \cup {None} /\ h \in Nat /\ o \in States
      /\ D \subseteq DD /\ B \subseteq BB
      /\ \A m \in DD \ D : m \in o.deposits /\ MixedUp(m, p)
      /\ s.deposit_blocks = AppendNewest(o.deposit_blocks, D, h)
      /\ s.event_blocks = AppendNewest(o.event_blocks, B, h)
      /\ s.bundles = o.bundles \cup (B \X {h})
      /\ s.deposits \subseteq o.deposits \cup D /\ o.deposits \cap D = {}
      /\ \A m \in (o.deposits \cup D) \ s.deposits : MixedUp(m, b)
      /\ \A e \in o.bundles : e[2] < h /\ e[2] \in Nat
      /\ \A e \in Applied : EndsWith(o.deposit_blocks, e) \/ EndsWith(o.event_blocks, e) => e[2] < h
      /\ D # {} => Front(s.deposit_blocks) = o.deposit_blocks
      /\ B # {} => Front(s.event_blocks) = o.event_blocks
  <2> HIDE DEF D, B, DD, BB, h, o, u, p
  <2> QED
    BY <1>0 DEF Undoes
<1>2. /\ \A m \in BB : <<m, h>> \in s.bundles
      /\ BB # {} => EndsWith(s.event_blocks, <<Newest(BB), h>>)
      /\ DD # {} => EndsWith(s.deposit_blocks, <<Newest(DD), h>>)
  BY DEF disconnect_panics
<1>3. /\ u.tip = p /\ u.deposits = s.deposits \ DD
      /\ u.bundles = s.bundles \ (BB \X {h})
      /\ u.deposit_blocks = (IF DD = {} THEN s.deposit_blocks ELSE Front(s.deposit_blocks))
      /\ u.event_blocks = (IF BB = {} THEN s.event_blocks ELSE Front(s.event_blocks))
  BY DEF disconnect_state
<1>4. /\ DD # {} => <<Newest(DD), h>> \in Applied
      /\ BB # {} => <<Newest(BB), h>> \in Applied
  <2>1. s.deposit_blocks \in Seq(Applied) /\ s.event_blocks \in Seq(Applied)
    BY StateFacts
  <2>2. \A q \in Seq(Applied) : \A e : EndsWith(q, e) => e \in Applied
    BY DEF EndsWith
  <2> HIDE DEF DD, BB, h
  <2> QED
    BY <1>2, <2>1, <2>2
<1>5. \A m \in o.deposits : MixedUp(m, b) => MixedUp(m, p)
  <2> SUFFICES ASSUME NEW m \in o.deposits, MixedUp(m, b) PROVE MixedUp(m, p)
    OBVIOUS
  <2>1. PICK a \in ancestors[b] : Mixed(a) /\ m \in TwoWayPegData(a)
    BY DEF MixedUp
  <2>2. CASE a = b
    <3>1. PegFacts(o, p)
      BY <1>1, DataSince, StateAtPeg
    <3>2. m \in MainBefore(p)
      BY <3>1 DEF PegFacts, With
    <3> QED
      BY <2>1, <2>2, <3>2, DataSince
  <2>3. CASE a # b
    BY <2>1, <2>3, SideFacts DEF MixedUp
  <2> QED
    BY <2>2, <2>3
<1> HIDE DEF D, B, DD, BB, h, o, u, p
<1>6. BB = B
  <2>1. \A m \in BB : <<m, h>> \notin o.bundles
    <3> SUFFICES ASSUME NEW m \in BB, <<m, h>> \in o.bundles PROVE FALSE
      OBVIOUS
    <3>1. <<m, h>>[2] < h
      BY <1>1
    <3> QED
      BY <1>1, <3>1
  <2>2. \A m \in BB : <<m, h>> \in B \X {h}
    BY <1>1, <1>2, <2>1
  <2> QED
    BY <1>1, <2>2
<1>7. u.event_blocks = o.event_blocks
  BY <1>1, <1>3, <1>6 DEF AppendNewest
<1>8. u.deposit_blocks = o.deposit_blocks
  <2>1. CASE D # {}
    BY <1>1, <1>3, <2>1
  <2>2. CASE D = {}
    <3>1. s.deposit_blocks = o.deposit_blocks
      BY <1>1, <2>2 DEF AppendNewest
    <3>2. DD # {} => EndsWith(o.deposit_blocks, <<Newest(DD), h>>) /\ <<Newest(DD), h>> \in Applied
      BY <1>2, <1>4, <3>1
    <3>3. DD # {} => <<Newest(DD), h>>[2] < h
      BY <1>1, <3>2
    <3> QED
      BY <1>1, <1>3, <3>1, <3>3
  <2> QED
    BY <2>1, <2>2
<1>9. u.bundles = o.bundles
  BY <1>1, <1>3, <1>6
<1>10. u.deposits \subseteq o.deposits
  BY <1>1, <1>3
<1>11. \A m \in o.deposits \ u.deposits : MixedUp(m, p)
  <2> TAKE m \in o.deposits \ u.deposits
  <2>1. m \in DD \/ m \notin s.deposits
    BY <1>3
  <2>2. m \notin D
    BY <1>1
  <2> QED
    BY <1>1, <1>5, <2>1, <2>2
<1> QED
  BY <1>3, <1>7, <1>8, <1>9, <1>10, <1>11 DEF PegOK, o, u

-----------------------------------------------------------------------------
(***************************************************************************)
(* Transactions of reorg_to_tip, first the blocks that are disconnected.   *)
(***************************************************************************)
Statuses == {"open", "commit", "connect_error", "archive_error", "state_error", "panic"}
Txns == [archive : Databases, state : States, status : Statuses, failed : SideBlock \cup {None}]

LEMMA TxnFacts ==
    ASSUME NEW r \in Txns
    PROVE  /\ r.archive \in Databases /\ r.state \in States /\ r.status \in Statuses
           /\ r.failed \in SideBlock \cup {None} /\ r.state.tip \in SideBlock \cup {None}
           /\ r = [archive |-> r.archive, state |-> r.state, status |-> r.status, failed |-> r.failed]
  BY StateFacts DEF Txns

LEMMA FrontTyped ==
    ASSUME NEW s \in Seq(Applied)
    PROVE  Front(s) \in Seq(Applied)
<1>1. CASE s = <<>>
  BY <1>1 DEF Front
<1>2. CASE s # <<>>
  <2>1. Len(s) \in Nat /\ Len(s) >= 1
    BY <1>2
  <2> QED
    BY <2>1 DEF Front
<1> QED
  BY <1>1, <1>2

LEMMA DisconnectStateTyped ==
    ASSUME NEW s \in States, s.tip \in SideBlock
    PROVE  disconnect_state(s) \in States /\ disconnect_state(s).tip = prev_side_hash[s.tip]
<1> DEFINE D == With("deposit", Disconnected(s))
           B == With("bundle", Disconnected(s))
<1>1. disconnect_state(s) =
        [tip |-> prev_side_hash[s.tip], deposits |-> s.deposits \ D,
         bundles |-> s.bundles \ (B \X {height[s.tip]}),
         deposit_blocks |-> IF D = {} THEN s.deposit_blocks ELSE Front(s.deposit_blocks),
         event_blocks |-> IF B = {} THEN s.event_blocks ELSE Front(s.event_blocks)]
  BY DEF disconnect_state
<1> HIDE DEF D, B
<1>2. /\ s.deposit_blocks \in Seq(Applied) /\ s.event_blocks \in Seq(Applied)
      /\ Front(s.deposit_blocks) \in Seq(Applied) /\ Front(s.event_blocks) \in Seq(Applied)
  BY StateFacts, FrontTyped
<1>3. /\ s.deposits \ D \in SUBSET MainBlock /\ s.bundles \ (B \X {height[s.tip]}) \in SUBSET Applied
      /\ prev_side_hash[s.tip] \in SideBlock \cup {None}
  BY StateFacts, SideFacts
<1> QED
  BY <1>1, <1>2, <1>3 DEF States

\* One block less.
DownOne(r, q) ==
    /\ q \in Txns /\ q.archive = r.archive
    /\ r.status # "open" => q = r
    /\ r.status = "open" => q.status \in {"open", "archive_error", "state_error", "panic"}
    /\ r.status = "open" /\ q.status = "open" =>
        /\ r.state.tip \in SideBlock /\ q.state = disconnect_state(r.state)
        /\ ~disconnect_panics(r.state)
        /\ With("deposit", Disconnected(r.state)) \subseteq r.state.deposits
    /\ r.status = "open" /\ q.status = "panic" =>
        r.state.tip \in SideBlock /\ disconnect_panics(r.state)

LEMMA DisconnectTipIs ==
    ASSUME NEW r \in Txns
    PROVE  DownOne(r, disconnect_tip_(r))
<1> DEFINE q == disconnect_tip_(r)
           stored == r.state.tip \in r.archive.headers \cap DOMAIN r.archive.bodies
<1>1. stored => r.state.tip \in SideBlock
  BY TxnFacts, DatabaseFacts
<1>2. CASE r.status # "open"
  <2>1. q = r
    BY <1>2 DEF disconnect_tip_
  <2> QED
    BY <1>2, <2>1 DEF DownOne
<1>3. CASE r.status = "open" /\ ~stored
  <2>1. q = [r EXCEPT !.status = "archive_error"]
    BY <1>3 DEF disconnect_tip_
  <2> QED
    BY <1>3, <2>1 DEF DownOne, Txns, Statuses
<1>4. CASE r.status = "open" /\ stored
  <2>1. q = IF disconnect_panics(r.state) THEN [r EXCEPT !.status = "panic"]
            ELSE IF disconnect_state_error(r.archive, r.state)
            THEN [r EXCEPT !.status = "state_error"]
            ELSE [r EXCEPT !.state = disconnect_state(r.state)]
    BY <1>4 DEF disconnect_tip_, Txns
  <2>2. r.state.tip \in SideBlock /\ disconnect_state(r.state) \in States
    BY <1>1, <1>4, TxnFacts, DisconnectStateTyped
  <2>3. CASE disconnect_panics(r.state)
    <3>1. q = [r EXCEPT !.status = "panic"]
      BY <2>1, <2>3
    <3>2. q \in Txns /\ q.archive = r.archive /\ q.status = "panic"
      BY <3>1 DEF Txns, Statuses
    <3> QED
      BY <1>4, <2>2, <2>3, <3>2 DEF DownOne
  <2>4. CASE ~disconnect_panics(r.state) /\ disconnect_state_error(r.archive, r.state)
    <3>1. q = [r EXCEPT !.status = "state_error"]
      BY <2>1, <2>4
    <3>2. q \in Txns /\ q.archive = r.archive /\ q.status = "state_error"
      BY <3>1 DEF Txns, Statuses
    <3> QED
      BY <1>4, <3>2 DEF DownOne
  <2>5. CASE ~disconnect_panics(r.state) /\ ~disconnect_state_error(r.archive, r.state)
    <3>1. q = [r EXCEPT !.state = disconnect_state(r.state)]
      BY <2>1, <2>5
    <3>2. q \in Txns /\ q.archive = r.archive /\ q.status = r.status
          /\ q.state = disconnect_state(r.state)
      BY <2>2, <3>1 DEF Txns
    <3>3. With("deposit", Disconnected(r.state)) \subseteq r.state.deposits
      BY <2>5 DEF disconnect_state_error
    <3> QED
      BY <1>4, <2>2, <2>5, <3>2, <3>3 DEF DownOne
  <2> QED
    BY <2>3, <2>4, <2>5
<1> QED
  BY <1>2, <1>3, <1>4

\* The next block after b on the way to t.
LEMMA NextExists ==
    ASSUME NEW t \in SideBlock \cup {None}, NEW b \in (ancestors[t] \cup {None}) \ {t}
    PROVE  \E d \in ancestors[t] : prev_side_hash[d] = b
<1> DEFINE P(c) == \A e \in (ancestors[c] \cup {None}) \ {c} : \E d \in ancestors[c] : prev_side_hash[d] = e
           C == {c \in SideBlock : ~P(c)}
<1>1. ancestors[None] = {}
  BY SideAncestors DEF IsAncestors
<1>2. C = {}
  <2> SUFFICES ASSUME C # {} PROVE FALSE
    OBVIOUS
  <2>1. PICK c \in C : prev_side_hash[c] \notin C
    BY ChainsAssumption DEF Rooted
  <2> DEFINE p == prev_side_hash[c]
  <2>2. p \in SideBlock \cup {None} /\ ancestors[c] = {c} \cup ancestors[p]
    BY SideFacts
  <2>3. PICK e \in (ancestors[c] \cup {None}) \ {c} : ~\E d \in ancestors[c] : prev_side_hash[d] = e
    BY <2>1
  <2>4. e # p /\ e \in ancestors[p] \cup {None}
    BY <2>2, <2>3
  <2>5. p \in SideBlock
    BY <1>1, <2>2, <2>4
  <2>6. P(p)
    BY <2>1, <2>5
  <2> QED
    BY <2>2, <2>3, <2>4, <2>6
<1> QED
  BY <1>1, <1>2

After(t, b) == CHOOSE d \in ancestors[t] : prev_side_hash[d] = b

\* The blocks below the tip t, and what is above each.
Under(t) == (ancestors[t] \cup {None}) \ {t}
NextUp(t) == [b \in Under(t) |-> After(t, b)]

\* The blocks before t, upside down, are a chain that begins at t.
LEMMA DownChain ==
    ASSUME NEW t \in SideBlock \cup {None}
    PROVE  /\ IsChain(Under(t), t, NextUp(t)) /\ Under(t) \cup {t} = ancestors[t] \cup {None}
           /\ \A b \in Under(t) : /\ NextUp(t)[b] \in ancestors[t] /\ NextUp(t)[b] = After(t, b)
                                  /\ prev_side_hash[NextUp(t)[b]] = b
<1> DEFINE N == Under(t)
           next == NextUp(t)
<1>1. t # None => t \in SideBlock /\ t \in ancestors[t] /\ ancestors[t] \subseteq SideBlock
  BY SideFacts
<1>2. ancestors[None] = {}
  BY SideAncestors DEF IsAncestors
<1>3. N \cup {t} = ancestors[t] \cup {None}
  BY <1>1 DEF Under
<1>4. \A b \in N : /\ next[b] \in ancestors[t] /\ next[b] = After(t, b)
                  /\ prev_side_hash[next[b]] = b
  BY NextExists DEF After, Under, NextUp
<1>5. next \in [N -> N \cup {t}]
  BY <1>3, <1>4 DEF NextUp
<1>6. Rooted(N, next)
  <2> SUFFICES ASSUME NEW M \in SUBSET N, M # {} PROVE \E m \in M : next[m] \notin M
    BY DEF Rooted
  <2> DEFINE S == M \cap ancestors[t]
  <2>1. CASE S = {}
    <3>1. M \subseteq {None}
      BY <2>1 DEF Under
    <3>2. next[None] \in ancestors[t] /\ None \in M
      BY <1>4, <3>1
    <3> QED
      BY <2>1, <3>2
  <2>2. CASE S # {}
    <3>1. PICK a \in S : S \subseteq ancestors[a]
      <4>1. S \subseteq ancestors[t]
        OBVIOUS
      <4> HIDE DEF S
      <4> QED
        BY <2>2, <4>1, SideChain, SideAncestors, LastAncestor
    <3>2. next[a] \in ancestors[t] /\ prev_side_hash[next[a]] = a
      BY <1>4
    <3>3. next[a] \in SideBlock
      BY <1>1, <1>2, <3>2
    <3>4. next[a] \notin ancestors[a]
      BY <3>2, <3>3, SideFacts
    <3> QED
      BY <3>1, <3>2, <3>4
  <2> QED
    BY <2>1, <2>2
<1> QED
  BY <1>3, <1>4, <1>5, <1>6 DEF IsChain, Under

DownEq(f, r, t) ==
    f = [b \in ancestors[t] \cup {None} |->
            IF b = t THEN r ELSE disconnect_tip_(f[After(t, b)])]

LEMMA DownExists ==
    ASSUME NEW r \in Txns, NEW t, t = r.state.tip
    PROVE  \E f : DownEq(f, r, t)
<1> DEFINE N == Under(t)
           next == NextUp(t)
           A == Txns
           X == {t}
           G == [b \in X |-> r]
           F == [p \in A \X N |-> disconnect_tip_(p[1])]
<1>1. t \in SideBlock \cup {None}
  BY TxnFacts
<1>2. /\ IsChain(N, t, next) /\ N \cup {t} = ancestors[t] \cup {None}
      /\ \A b \in N : next[b] \in ancestors[t] /\ next[b] = After(t, b)
  BY <1>1, DownChain
<1>3. \A q \in A : disconnect_tip_(q) \in A
  BY DisconnectTipIs DEF DownOne
<1>4. G \in [X -> A] /\ F \in [A \X N -> A] /\ X \in SUBSET (N \cup {t}) /\ t \in X
  BY <1>3
<1>5. PICK f \in [N \cup {t} -> A] : ByParent(f, N, t, next, X, G, F)
  <2> HIDE DEF N, next, A, X, G, F
  <2> QED
    BY <1>2, <1>4, Walk
<1>6. ASSUME NEW b \in ancestors[t] \cup {None}
      PROVE  f[b] = IF b = t THEN r ELSE disconnect_tip_(f[After(t, b)])
  <2>1. CASE b = t
    BY <1>5, <2>1 DEF ByParent
  <2>2. CASE b # t
    <3>1. b \in N /\ b \notin X /\ next[b] \in N \cup {t} /\ next[b] = After(t, b)
      BY <1>2, <2>2
    <3>2. f[b] = F[<<f[next[b]], b>>]
      BY <1>5, <3>1 DEF ByParent
    <3>3. f[next[b]] \in A
      BY <1>5, <3>1
    <3> QED
      BY <2>2, <3>1, <3>2, <3>3
  <2> QED
    BY <2>1, <2>2
<1>7. DownEq(f, r, t)
  <2> HIDE DEF N, next, A, X, G, F
  <2> QED
    BY <1>2, <1>5, <1>6 DEF DownEq
<1> QED
  BY <1>7

\* What is left of the transaction r when b is to be the tip.
DownTo(r, b, q) ==
    /\ q \in Txns /\ q.archive = r.archive
    /\ q.status \in {"open", "archive_error", "state_error", "panic"}
    /\ q.status = "open" => q.state.tip = b /\ PegOK(q.state)
    /\ q.status = "panic" => r.state.tip # None /\ ~Clean(prev_side_hash[r.state.tip])

LEMMA DisconnectToIs ==
    ASSUME NEW r \in Txns, r.status = "open", PegOK(r.state),
           r.state.tip # None => ValidBmm[r.state.tip] # {},
           NEW c \in ancestors[r.state.tip] \cup {None}
    PROVE  DownTo(r, c, DisconnectTo(r, c))
<1> DEFINE t == r.state.tip
           f == CHOOSE h : DownEq(h, r, t)
           N == Under(t)
           next == NextUp(t)
<1>1. DownEq(f, r, t)
  BY DownExists
<1>2. DisconnectTo(r, c) = f[c]
  BY DEF DisconnectTo, DownEq, After
<1>3. t \in SideBlock \cup {None}
  BY TxnFacts
<1>4. /\ IsChain(N, t, next) /\ N \cup {t} = ancestors[t] \cup {None}
      /\ \A b \in N : /\ next[b] \in ancestors[t] /\ next[b] = After(t, b)
                     /\ prev_side_hash[next[b]] = b
  <2> HIDE DEF t
  <2> QED
    BY <1>3, DownChain
<1> HIDE DEF f
<1>5. DownTo(r, t, f[t])
  <2>1. f[t] = r
    BY <1>1, <1>4 DEF DownEq
  <2> QED
    BY <2>1 DEF DownTo
<1> DEFINE C == {b \in N : ~DownTo(r, b, f[b])}
<1>6. C = {}
  <2> SUFFICES ASSUME C # {} PROVE FALSE
    OBVIOUS
  <2>1. PICK b \in C : next[b] \notin C
    <3>1. C \in SUBSET N /\ Rooted(N, next)
      BY <1>4 DEF IsChain
    <3> HIDE DEF C, N, next
    <3> QED
      BY <3>1 DEF Rooted
  <2> DEFINE d == next[b]
             q == f[d]
  <2>2. d \in ancestors[t] /\ prev_side_hash[d] = b /\ d = After(t, b) /\ d \in N \cup {t}
    BY <1>4
  <2>3. t # None
    BY <2>2, SideAncestors DEF IsAncestors
  <2>4. d \in SideBlock /\ ValidBmm[d] # {}
    BY <1>3, <2>2, <2>3, PrevMainOrder
  <2>5. f[b] = disconnect_tip_(q)
    <3>1. b # t /\ b \in ancestors[t] \cup {None}
      BY <2>1 DEF Under
    <3> HIDE DEF N, next, C
    <3> QED BY <1>1, <2>2, <3>1 DEF DownEq
  <2>6. DownTo(r, d, q)
    BY <1>5, <2>1, <2>2
  <2> HIDE DEF C, N, next, q, d
  <2>7. DownOne(q, f[b])
    BY <2>5, <2>6, DisconnectTipIs DEF DownTo
  <2>8. CASE q.status # "open"
    BY <2>1, <2>6, <2>7, <2>8 DEF DownTo, DownOne, C
  <2>9. CASE q.status = "open"
    <3>1. q.state.tip = d /\ PegOK(q.state) /\ q.state \in States
      BY <2>6, <2>9, TxnFacts DEF DownTo
    <3>2. ancestors[b] \subseteq ancestors[prev_side_hash[t]]
      <4>1. t \in SideBlock /\ b \in SideBlock \cup {None}
        BY <1>3, <2>2, <2>3, <2>4, SideFacts
      <4>2. /\ ancestors[t] = {t} \cup ancestors[prev_side_hash[t]]
            /\ prev_side_hash[t] \in SideBlock \cup {None} /\ ancestors[d] = {d} \cup ancestors[b]
        BY <2>2, <2>4, <4>1, SideFacts
      <4>3. CASE d = t
        BY <2>2, <4>3
      <4>4. CASE d # t
        <5>1. d \in ancestors[prev_side_hash[t]] /\ ancestors[None] = {}
          BY <2>2, <4>2, <4>4, SideAncestors DEF IsAncestors
        <5>2. prev_side_hash[t] \in SideBlock
          BY <4>2, <5>1
        <5>3. ancestors[d] \subseteq ancestors[prev_side_hash[t]]
          BY <5>1, <5>2, SideFacts
        <5> QED
          BY <4>2, <5>3
      <4> QED
        BY <4>3, <4>4
    <3>3. f[b].status = "open" => f[b].state.tip = b /\ PegOK(f[b].state)
      <4> SUFFICES ASSUME f[b].status = "open"
                   PROVE  f[b].state.tip = b /\ PegOK(f[b].state)
        OBVIOUS
      <4>1. /\ f[b].state = disconnect_state(q.state) /\ ~disconnect_panics(q.state)
            /\ With("deposit", Disconnected(q.state)) \subseteq q.state.deposits
        BY <2>7, <2>9 DEF DownOne
      <4>2. f[b].state.tip = b
        BY <2>2, <2>4, <3>1, <4>1, DisconnectStateTyped
      <4> QED
        BY <2>4, <3>1, <4>1, <4>2, DisconnectBack
    <3>4. f[b].status = "panic" => ~Clean(prev_side_hash[t])
      <4> SUFFICES ASSUME f[b].status = "panic", Clean(prev_side_hash[t]) PROVE FALSE
        OBVIOUS
      <4>1. disconnect_panics(q.state)
        BY <2>7, <2>9 DEF DownOne
      <4>2. Clean(prev_side_hash[d])
        BY <2>2, <3>2 DEF Clean
      <4> QED
        BY <2>4, <3>1, <4>1, <4>2, DisconnectMeets
    <3> QED
      BY <2>1, <2>3, <2>6, <2>7, <2>9, <3>3, <3>4 DEF DownTo, DownOne, C
  <2> QED
    BY <2>8, <2>9
<1> QED
  BY <1>2, <1>4, <1>5, <1>6

-----------------------------------------------------------------------------
(***************************************************************************)
(* The archive, its tips, and what better_tip says of them.                *)
(***************************************************************************)
LEMMA GrowsGood ==
    ASSUME NEW a, Good(a), NEW r, Sound(r), Grows(a, r)
    PROVE  Good(r)
  BY DEF Good, TipsGood, Grows, ParentHasTip, HasTip

\* r has the tips and headers of a.
TipsStay(a, r) ==
    /\ DOMAIN a.sidechain_tips \subseteq DOMAIN r.sidechain_tips
    /\ a.headers \subseteq r.headers /\ r.invalid_blocks = a.invalid_blocks

LEMMA GrowsStay ==
    ASSUME NEW a, NEW r, Grows(a, r)
    PROVE  TipsStay(a, r)
  BY DEF Grows, TipsStay

LEMMA StayAtTip ==
    ASSUME NEW a, NEW r, TipsStay(a, r), NEW s, AtTip(a, s)
    PROVE  AtTip(r, s)
  BY DEF TipsStay, AtTip, HasTip

LEMMA StayReorg ==
    ASSUME NEW a, NEW r, TipsStay(a, r), NEW s, NEW ro, ReorgOK(a, s, ro)
    PROVE  ReorgOK(r, s, ro)
<1>1. TodoOK(r, s, ro)
  BY DEF TipsStay, ReorgOK, TodoOK, HasTip
<1> QED
  BY <1>1 DEF TipsStay, ReorgOK

LEMMA GoodFacts ==
    ASSUME NEW a, Good(a)
    PROVE  /\ a \in Databases /\ a.headers \subseteq SideBlock /\ DOMAIN a.sidechain_tips \subseteq SideBlock
           /\ \A b \in a.headers : ancestors[b] \subseteq a.headers
           /\ \A b : HasTip(a, b) => b \in SideBlock /\ ValidBmm[b] # {}
           /\ \A b \in a.headers : HasTip(a, b) => ParentHasTip(a, b)
<1>1. a \in Databases /\ a.headers \subseteq SideBlock /\ DOMAIN a.sidechain_tips \subseteq SideBlock
  BY DatabaseFacts DEF Good, Sound
<1> QED
  BY <1>1 DEF Good, Sound, HeadersOK, TipsGood, HasTip

\* Under a tip whose header is stored there are only tips.
LEMMA TipsClosed ==
    ASSUME NEW a, Good(a), NEW b \in a.headers, HasTip(a, b), NEW c \in ancestors[b]
    PROVE  HasTip(a, c)
<1> DEFINE P(d) == HasTip(a, d) => \A e \in ancestors[d] : HasTip(a, e)
           C == {d \in a.headers : ~P(d)}
<1> SUFFICES ASSUME C # {} PROVE FALSE
  OBVIOUS
<1>1. a.headers \subseteq SideBlock /\ \A d \in a.headers : ancestors[d] \subseteq a.headers
  BY GoodFacts
<1>2. PICK d \in C : prev_side_hash[d] \notin C
  BY <1>1, ChainsAssumption DEF Rooted
<1> DEFINE p == prev_side_hash[d]
<1>3. d \in a.headers /\ d \in SideBlock /\ HasTip(a, d) /\ ParentHasTip(a, d)
  BY <1>1, <1>2, GoodFacts
<1>4. /\ p \in SideBlock \cup {None} /\ ancestors[d] = {d} \cup ancestors[p] /\ ancestors[None] = {}
      /\ p # None => p \in ancestors[p]
  BY <1>3, SideFacts
<1>5. CASE p = None
  BY <1>2, <1>3, <1>4, <1>5
<1>6. CASE p # None
  <2>1. p \in a.headers /\ HasTip(a, p)
    BY <1>1, <1>3, <1>4, <1>6 DEF ParentHasTip
  <2> QED
    BY <1>2, <1>3, <1>4, <2>1
<1> QED
  BY <1>5, <1>6

LEMMA AtTipFacts ==
    ASSUME NEW a, Good(a), NEW s, AtTip(a, s)
    PROVE  /\ s \in States /\ s.tip \in SideBlock \cup {None}
           /\ s.tip # None => s.tip \in SideBlock /\ ValidBmm[s.tip] # {} /\ HasTip(a, s.tip)
                              /\ s.tip \in a.headers
<1>1. s \in States /\ s.tip \in SideBlock \cup {None}
  BY StateFacts DEF AtTip
<1>2. s.tip # None => s.tip \in SideBlock /\ s.tip \in ancestors[s.tip]
  BY <1>1, SideFacts
<1> QED
  BY <1>1, <1>2, GoodFacts DEF AtTip

\* The tip of b for its best valid commitment.
TipAt(b) ==
    [block_hash |-> b,
     main_block_hash |-> CHOOSE m \in ValidBmm[b] : \A n \in ValidBmm[b] : total_work[m] >= total_work[n]]

LEMMA TipOfIs ==
    ASSUME EqualWork, NEW a, Good(a), NEW b \in a.headers, ValidBmm[b] # {}
    PROVE  /\ TipOf(a, b) = TipAt(b) /\ TipAt(b) \in Tip /\ TipAt(b).block_hash = b
           /\ TipAt(b).main_block_hash \in ValidBmm[b]
<1> DEFINE V == {m \in MainBlock : a.bmm_results[b][m] = "Verified"}
           c == CHOOSE m \in ValidBmm[b] : \A n \in ValidBmm[b] : total_work[m] >= total_work[n]
<1>1. b \in SideBlock
  BY GoodFacts
<1>2. ValidBmm[b] \subseteq MainBlock
  BY <1>1, ValidIs
<1>3. V = ValidBmm[b]
  BY <1>1, <1>2 DEF Good, Sound, ResultsOK
<1>4. ASSUME NEW m \in ValidBmm[b], NEW n \in ValidBmm[b]
      PROVE  total_work[m] >= total_work[n]
  <2> DEFINE x == [block_hash |-> b, main_block_hash |-> m]
             y == [block_hash |-> b, main_block_hash |-> n]
  <2>1. x \in Tip /\ y \in Tip /\ m \in MainBlock /\ n \in MainBlock
    BY <1>1, ValidIs
  <2>2. wrk(x) = total_work[m] /\ wrk(y) = total_work[n] /\ x.block_hash = y.block_hash
    BY DEF wrk
  <2> HIDE DEF x, y
  <2>3. total_work[m] = total_work[n]
    BY <2>1, <2>2 DEF EqualWork
  <2> QED
    BY <2>1, <2>3, WorkFacts
<1>5. c \in ValidBmm[b]
  BY <1>4
<1>6. TipOf(a, b) = [block_hash |-> b,
                     main_block_hash |-> CHOOSE m \in V : \A n \in V : total_work[m] >= total_work[n]]
  BY DEF TipOf
<1>7. TipAt(b) = [block_hash |-> b, main_block_hash |-> c]
  BY DEF TipAt
<1>8. TipOf(a, b) = TipAt(b)
  <2> HIDE DEF V
  <2> QED
    BY <1>3, <1>6 DEF TipAt
<1> HIDE DEF c
<1> QED
  BY <1>1, <1>5, <1>7, <1>8, ValidIs

\* The commitments to a block come after those to the blocks before it.
LEMMA WorkOrder ==
    ASSUME EqualWork, NEW x \in Tip, NEW y \in Tip, y.main_block_hash \in ValidBmm[y.block_hash],
           x.block_hash \in ancestors[y.block_hash], x.block_hash # y.block_hash
    PROVE  hgt(x) < hgt(y) /\ wrk(x) < wrk(y)
<1> DEFINE b == y.block_hash
           c == x.block_hash
           m == y.main_block_hash
<1>1. b \in SideBlock /\ c \in SideBlock /\ m \in MainBlock /\ wrk(y) = total_work[m]
  BY TipFacts DEF wrk
<1>2. PICK n \in ValidBmm[c] : n \in main_ancestors[m] /\ n # m
  BY <1>1, ValidBefore
<1> DEFINE u == [block_hash |-> c, main_block_hash |-> n]
<1>3. u \in Tip /\ u.block_hash = x.block_hash /\ wrk(u) = total_work[n]
  BY <1>1, <1>2, ValidIs DEF wrk
<1> HIDE DEF u
<1>4. wrk(x) = total_work[n]
  BY <1>3 DEF EqualWork
<1>5. total_work[n] < total_work[m]
  BY <1>1, <1>2, WorkFacts
<1>6. hgt(x) < hgt(y)
  BY <1>1, HeightFacts DEF hgt
<1> QED
  BY <1>1, <1>4, <1>5, <1>6

\* better_tip leads to higher blocks of one chain, and never back on it.
LEMMA Forward ==
    ASSUME EqualWork, NEW x \in Tip, NEW y \in Tip, y.main_block_hash \in ValidBmm[y.block_hash],
           x.block_hash \in ancestors[y.block_hash], x.block_hash # y.block_hash
    PROVE  better_tip(x, y) = y
<1>1. hgt(x) < hgt(y) /\ wrk(x) < wrk(y)
  BY WorkOrder
<1>2. hgt(x) \in Nat /\ hgt(y) \in Nat /\ wrk(x) \in Nat /\ wrk(y) \in Nat
  BY TipFacts
<1>3. second_is_better(x, y)
  BY <1>1, <1>2, SecondIs
<1>4. Improves(x, y)
  BY <1>1, <1>2, <1>3, ImprovesIs
<1> QED
  BY <1>4 DEF Improves, Improvements

LEMMA NotBack ==
    ASSUME EqualWork, NEW x \in Tip, NEW y \in Tip, x.main_block_hash \in ValidBmm[x.block_hash],
           y.block_hash \in ancestors[x.block_hash]
    PROVE  better_tip(x, y) # y
<1> SUFFICES ASSUME better_tip(x, y) = y PROVE FALSE
  OBVIOUS
<1>1. Improves(x, y)
  BY DEF Improves, Improvements
<1>2. x # y /\ hgt(y) > 0 /\ (hgt(x) = 0 \/ second_is_better(x, y))
  BY <1>1, ImprovesIs
<1>3. hgt(x) \in Nat /\ hgt(y) \in Nat /\ wrk(x) \in Nat /\ wrk(y) \in Nat
  BY TipFacts
<1>4. CASE x.block_hash = y.block_hash
  <2>1. hgt(x) = hgt(y) /\ wrk(x) = wrk(y)
    BY <1>4 DEF hgt, EqualWork
  <2> QED
    BY <1>2, <1>3, <1>4, <2>1, SecondIs
<1>5. CASE x.block_hash # y.block_hash
  <2>1. hgt(y) < hgt(x) /\ wrk(y) < wrk(x)
    BY <1>5, WorkOrder
  <2> QED
    BY <1>2, <1>3, <2>1, SecondIs
<1> QED
  BY <1>4, <1>5

-----------------------------------------------------------------------------
(***************************************************************************)
(* Transactions of reorg_to_tip, the blocks that are connected.            *)
(***************************************************************************)
GoodTxn(r) == r \in Txns /\ Good(r.archive) /\ AtTip(r.archive, r.state) /\ PegOK(r.state)
SoundTxns == {r \in Txns : Sound(r.archive)}

\* The header and the body of b are stored.
LEMMA StoreGood ==
    ASSUME NEW a, Sound(a), NEW b \in SideBlock, NEW body \in SUBSET Txid,
           ~put_header_refused(a, b), NEW c, c = put_header(a, b), ~put_body_refused(c, b),
           NEW d, d = put_body(c, b, body)
    PROVE  /\ Sound(d) /\ d \in Databases /\ d.mainchain_tip = a.mainchain_tip
           /\ Good(a) /\ (HasTip(a, b) => ParentHasTip(a, b)) =>
                Good(d) /\ TipsStay(a, d) /\ b \in d.headers
<1>1. Sound(c)
  BY PutHeaderSound
<1>2. Sound(d) /\ Grows(c, d) /\ d \in Databases
  BY <1>1, PutBodySound DEF Sound
<1>3. a \in Databases
  BY DEF Sound
<1>4. /\ c.headers = a.headers \cup {b} /\ c.main = a.main /\ c.invalid_blocks = a.invalid_blocks
      /\ c.sidechain_tips = a.sidechain_tips /\ c.mainchain_tip = a.mainchain_tip
  BY <1>3, PutHeaderFields DEF SameTips
<1>6. d.mainchain_tip = c.mainchain_tip
  <2>1. c \in Databases
    BY <1>1 DEF Sound
  <2> QED
    BY <2>1 DEF put_body, connect_sidechain_tips, Databases
<1>5. ASSUME Good(a), HasTip(a, b) => ParentHasTip(a, b)
      PROVE  Good(d) /\ TipsStay(a, d) /\ b \in d.headers
  <2>1. Good(c)
    BY <1>1, <1>4, <1>5 DEF Good, TipsGood, ParentHasTip, HasTip
  <2>2. Good(d) /\ TipsStay(c, d)
    BY <1>2, <2>1, GrowsGood, GrowsStay
  <2> QED
    BY <1>4, <2>2 DEF TipsStay
<1> QED
  BY <1>2, <1>4, <1>5, <1>6

\* One block more: b was connected, or the transaction failed at b.
UpOneTxn(from, r, b, q) ==
    \/ /\ q.status = "connect_error" /\ q.failed = b
       /\ q.archive = r.archive /\ q.state = r.state
    \/ /\ q.status = "archive_error" /\ q.failed = r.failed
       /\ q.archive = r.archive /\ q.state = r.state
    \/ /\ r.state.tip = prev_side_hash[b] /\ q.state = connect_state(r.state, b)
       /\ q.archive.mainchain_tip = r.archive.mainchain_tip
       /\ Good(r.archive) /\ (HasTip(r.archive, b) => ParentHasTip(r.archive, b)) =>
            Good(q.archive) /\ TipsStay(r.archive, q.archive) /\ b \in q.archive.headers
       /\ \/ q.status = "commit" /\ Commits(q.archive, from, b)
          \/ q.status = "open" /\ ~Commits(q.archive, from, b)

LEMMA ConnectTipIs ==
    ASSUME NEW from, NEW r \in SoundTxns, NEW b \in SideBlock, NEW body \in SUBSET Txid,
           NEW q, q = connect_tip_(from, r, b, body)
    PROVE  /\ q \in SoundTxns
           /\ r.status # "open" => q = r
           /\ r.status = "open" => UpOneTxn(from, r, b, q)
<1> DEFINE a == put_header(r.archive, b)
           c == put_body(a, b, body)
           fits == r.state.tip = prev_side_hash[b] /\ body = body_of[b]
           refused == put_header_refused(r.archive, b) \/ put_body_refused(a, b)
<1>1. r \in Txns /\ Sound(r.archive) /\ r.state \in States
  BY TxnFacts DEF SoundTxns
<1>2. CASE r.status # "open"
  <2>1. q = r
    BY <1>2 DEF connect_tip_
  <2> QED
    BY <1>2, <2>1
<1>3. CASE r.status = "open" /\ ~fits
  <2>1. q = [r EXCEPT !.status = "connect_error", !.failed = b]
    BY <1>3 DEF connect_tip_
  <2>2. q \in SoundTxns
    BY <1>1, <2>1 DEF SoundTxns, Txns, Statuses
  <2>3. UpOneTxn(from, r, b, q)
    BY <1>1, <2>1 DEF UpOneTxn, Txns
  <2> QED
    BY <1>3, <2>2, <2>3
<1>4. CASE r.status = "open" /\ fits /\ refused
  <2>1. q = [r EXCEPT !.status = "archive_error"]
    BY <1>4 DEF connect_tip_
  <2>2. q \in SoundTxns
    BY <1>1, <2>1 DEF SoundTxns, Txns, Statuses
  <2>3. UpOneTxn(from, r, b, q)
    BY <1>1, <2>1 DEF UpOneTxn, Txns
  <2> QED
    BY <1>4, <2>2, <2>3
<1>5. CASE r.status = "open" /\ fits /\ ~refused
  <2> DEFINE st == IF Commits(c, from, b) THEN "commit" ELSE "open"
  <2>1. q = [r EXCEPT !.archive = c, !.state = connect_state(r.state, b), !.status = st]
    BY <1>1, <1>5 DEF connect_tip_, Txns
  <2>2. /\ Sound(c) /\ c \in Databases /\ c.mainchain_tip = r.archive.mainchain_tip
        /\ Good(r.archive) /\ (HasTip(r.archive, b) => ParentHasTip(r.archive, b)) =>
                Good(c) /\ TipsStay(r.archive, c) /\ b \in c.headers
    BY <1>1, <1>5, StoreGood
  <2>3. connect_state(r.state, b) \in States
    BY <1>1, ConnectStateTyped
  <2>4. st \in Statuses
    BY DEF Statuses
  <2> HIDE DEF a, c, st
  <2>5. q \in Txns /\ q.archive = c /\ q.state = connect_state(r.state, b) /\ q.status = st
    BY <1>1, <2>1, <2>2, <2>3, <2>4 DEF Txns
  <2>6. UpOneTxn(from, r, b, q)
    BY <1>5, <2>2, <2>5 DEF UpOneTxn, st
  <2> QED
    BY <1>5, <2>2, <2>5, <2>6 DEF SoundTxns
<1> QED
  BY <1>2, <1>3, <1>4, <1>5

UpEq(f, r, ro) ==
    f = [b \in SideBlock \cup {None} |->
            IF b \in DOMAIN ro.todo
            THEN connect_tip_(ro.from, f[prev_side_hash[b]], b, ro.todo[b]) ELSE r]

TodoTyped(ro) == \A b \in DOMAIN ro.todo : b \in SideBlock /\ ro.todo[b] \in SUBSET Txid

LEMMA UpExists ==
    ASSUME NEW r \in SoundTxns, NEW ro, TodoTyped(ro)
    PROVE  \E f \in [SideBlock \cup {None} -> SoundTxns] : UpEq(f, r, ro)
<1> DEFINE N == SideBlock
           z == None
           A == SoundTxns
           T == DOMAIN ro.todo
           X == (N \cup {z}) \ T
           G == [b \in X |-> r]
           F == [p \in A \X N |-> IF p[2] \in T THEN connect_tip_(ro.from, p[1], p[2], ro.todo[p[2]])
                                  ELSE p[1]]
<1>1. \A q \in A, b \in N : b \in T => connect_tip_(ro.from, q, b, ro.todo[b]) \in A
  BY ConnectTipIs DEF TodoTyped
<1>2. None \notin T
  BY BlocksAssumption DEF TodoTyped
<1>3. F \in [A \X N -> A]
  <2> HIDE DEF T, A
  <2> QED
    BY <1>1
<1>4. /\ G \in [X -> A] /\ X \in SUBSET (N \cup {z}) /\ z \in X /\ IsChain(N, z, prev_side_hash)
  BY <1>2, SideChain
<1>5. PICK f \in [N \cup {z} -> A] : ByParent(f, N, z, prev_side_hash, X, G, F)
  <2> HIDE DEF N, z, A, T, X, G, F
  <2> QED
    BY <1>3, <1>4, Walk
<1>6. ASSUME NEW b \in SideBlock \cup {None}
      PROVE  f[b] = IF b \in DOMAIN ro.todo
                    THEN connect_tip_(ro.from, f[prev_side_hash[b]], b, ro.todo[b]) ELSE r
  <2>1. CASE b \notin T
    <3>1. b \in X
      BY <2>1
    <3>2. f[b] = G[b]
      BY <1>5, <3>1 DEF ByParent
    <3> QED
      BY <2>1, <3>1, <3>2
  <2>2. CASE b \in T
    <3>1. b \in N /\ b \notin X /\ prev_side_hash[b] \in N \cup {z}
      BY <1>2, <2>2, BlocksAssumption
    <3>2. f[b] = F[<<f[prev_side_hash[b]], b>>]
      BY <1>5, <3>1 DEF ByParent
    <3>3. <<f[prev_side_hash[b]], b>> \in A \X N
      BY <1>5, <3>1
    <3>4. f[b] = connect_tip_(ro.from, f[prev_side_hash[b]], b, ro.todo[b])
      BY <2>2, <3>2, <3>3
    <3> QED
      BY <2>2, <3>4
  <2> QED
    BY <2>1, <2>2
<1>7. UpEq(f, r, ro) /\ f \in [SideBlock \cup {None} -> SoundTxns]
  <2> HIDE DEF F, G, X, T
  <2> QED
    BY <1>5, <1>6 DEF UpEq
<1> QED
  BY <1>7

\* What is left of the transaction r when the blocks up to b were to be connected.
UpTxn(r, ro, b, q) ==
    /\ GoodTxn(q) /\ TipsStay(r.archive, q.archive)
    /\ q.archive.mainchain_tip = r.archive.mainchain_tip
    /\ q.status \in {"open", "commit", "connect_error", "archive_error"}
    /\ q.status = "open" /\ b \in DOMAIN ro.todo =>
        q.state.tip = b /\ ~Commits(q.archive, ro.from, b)
    /\ q.status = "open" /\ b \notin DOMAIN ro.todo => q = r
    /\ q.status \in {"open", "commit"} => ancestors[r.state.tip] \subseteq ancestors[q.state.tip]
    /\ q.status = "commit" =>
        /\ q.state.tip \in DOMAIN ro.todo /\ q.state.tip \in ancestors[b]
        /\ Commits(q.archive, ro.from, q.state.tip)
    /\ q.status = "connect_error" => q.failed \in DOMAIN ro.todo

LEMMA UpTxnStep ==
    ASSUME NEW r, NEW ro, TodoTyped(ro), \A c \in DOMAIN ro.todo : HasTip(r.archive, c),
           NEW b \in DOMAIN ro.todo, NEW q, UpTxn(r, ro, prev_side_hash[b], q),
           NEW u, u = connect_tip_(ro.from, q, b, ro.todo[b])
    PROVE  UpTxn(r, ro, b, u)
<1> DEFINE p == prev_side_hash[b]
<1>1. /\ b \in SideBlock /\ ro.todo[b] \in SUBSET Txid /\ p \in SideBlock \cup {None}
      /\ ancestors[b] = {b} \cup ancestors[p]
  BY SideFacts DEF TodoTyped
<1>2. /\ GoodTxn(q) /\ TipsStay(r.archive, q.archive)
      /\ q.archive.mainchain_tip = r.archive.mainchain_tip
  BY DEF UpTxn
<1>3. q \in SoundTxns /\ Good(q.archive) /\ AtTip(q.archive, q.state) /\ PegOK(q.state)
      /\ q.state \in States
  BY <1>2, TxnFacts DEF GoodTxn, SoundTxns, Good
<1>4. /\ u \in SoundTxns
      /\ q.status # "open" => u = q
      /\ q.status = "open" => UpOneTxn(ro.from, q, b, u)
  BY <1>1, <1>3, ConnectTipIs
<1>5. CASE q.status # "open"
  <2>1. u = q
    BY <1>4, <1>5
  <2> QED
    BY <1>1, <1>5, <2>1 DEF UpTxn
<1>6. CASE q.status = "open" /\ u.status \in {"connect_error", "archive_error"}
  <2>1. /\ u.status = "connect_error" => u.failed = b
        /\ u.archive = q.archive /\ u.state = q.state
    BY <1>4, <1>6 DEF UpOneTxn
  <2>2. GoodTxn(u)
    BY <1>3, <1>4, <2>1 DEF GoodTxn, SoundTxns
  <2> QED
    BY <1>2, <1>6, <2>1, <2>2 DEF UpTxn
<1>7. CASE q.status = "open" /\ u.status \notin {"connect_error", "archive_error"}
  <2>1. /\ q.state.tip = p /\ u.state = connect_state(q.state, b)
        /\ u.archive.mainchain_tip = q.archive.mainchain_tip
        /\ Good(q.archive) /\ (HasTip(q.archive, b) => ParentHasTip(q.archive, b)) =>
            Good(u.archive) /\ TipsStay(q.archive, u.archive) /\ b \in u.archive.headers
        /\ \/ u.status = "commit" /\ Commits(u.archive, ro.from, b)
           \/ u.status = "open" /\ ~Commits(u.archive, ro.from, b)
    BY <1>4, <1>7 DEF UpOneTxn
  <2>2. ParentHasTip(q.archive, b)
    <3>1. p # None => p \in ancestors[p]
      BY <1>1, SideFacts
    <3> QED
      BY <1>3, <2>1, <3>1 DEF ParentHasTip, AtTip
  <2>3. Good(u.archive) /\ TipsStay(q.archive, u.archive) /\ b \in u.archive.headers
    BY <1>3, <2>1, <2>2
  <2>4. TipsStay(r.archive, u.archive)
    BY <1>2, <2>3 DEF TipsStay
  <2>5. u.state \in States /\ u.state.tip = b
    BY <1>1, <1>3, <2>1, ConnectStateTyped
  <2>6. AtTip(u.archive, u.state)
    <3>1. HasTip(u.archive, b)
      BY <2>4 DEF TipsStay, HasTip
    <3>2. \A c \in ancestors[p] : HasTip(u.archive, c)
      BY <1>3, <2>1, <2>3 DEF AtTip, TipsStay, HasTip
    <3> QED
      BY <1>1, <2>3, <2>5, <3>1, <3>2 DEF AtTip
  <2>7. PegOK(u.state)
    BY <1>1, <1>3, <2>1, ConnectPeg
  <2>8. GoodTxn(u)
    BY <1>4, <2>3, <2>6, <2>7 DEF GoodTxn, SoundTxns
  <2>9. ancestors[r.state.tip] \subseteq ancestors[b]
    BY <1>1, <1>7, <2>1 DEF UpTxn
  <2> QED
    BY <1>1, <1>2, <2>1, <2>4, <2>5, <2>8, <2>9 DEF UpTxn
<1> QED
  BY <1>5, <1>6, <1>7

LEMMA ConnectBlocksIs ==
    ASSUME NEW r, GoodTxn(r), r.status = "open", NEW ro, TodoTyped(ro),
           \A c \in DOMAIN ro.todo : HasTip(r.archive, c), ro.target \in SideBlock \cup {None}
    PROVE  UpTxn(r, ro, ro.target, ConnectBlocks(r, ro))
<1> DEFINE f == CHOOSE h : UpEq(h, r, ro)
<1>1. r \in SoundTxns
  BY DEF GoodTxn, SoundTxns, Good
<1>2. UpEq(f, r, ro)
  BY <1>1, UpExists
<1>3. ConnectBlocks(r, ro) = f[ro.target]
  BY DEF ConnectBlocks, UpEq
<1> HIDE DEF f
<1> DEFINE C == {b \in SideBlock : ~UpTxn(r, ro, b, f[b])}
<1>4. \A b \in SideBlock \cup {None} : b \notin DOMAIN ro.todo => UpTxn(r, ro, b, f[b])
  <2> TAKE b \in SideBlock \cup {None}
  <2> HAVE b \notin DOMAIN ro.todo
  <2>1. f[b] = r
    BY <1>2 DEF UpEq
  <2> QED
    BY <2>1 DEF UpTxn, TipsStay
<1>5. None \notin DOMAIN ro.todo
  BY BlocksAssumption DEF TodoTyped
<1>6. C = {}
  <2> SUFFICES ASSUME C # {} PROVE FALSE
    OBVIOUS
  <2>1. PICK b \in C : prev_side_hash[b] \notin C
    BY ChainsAssumption DEF Rooted
  <2>2. b \in SideBlock /\ prev_side_hash[b] \in SideBlock \cup {None} /\ b \in DOMAIN ro.todo
    BY <1>4, SideFacts
  <2>3. UpTxn(r, ro, prev_side_hash[b], f[prev_side_hash[b]])
    BY <1>4, <1>5, <2>1, <2>2
  <2>4. f[b] = connect_tip_(ro.from, f[prev_side_hash[b]], b, ro.todo[b])
    BY <1>2, <2>2 DEF UpEq
  <2> QED
    BY <2>1, <2>2, <2>3, <2>4, UpTxnStep
<1> QED
  BY <1>3, <1>4, <1>5, <1>6

\* A transaction that has failed stays as it is.
LEMMA ConnectBlocksFailed ==
    ASSUME NEW r \in SoundTxns, r.status # "open", NEW ro, TodoTyped(ro),
           ro.target \in SideBlock \cup {None}
    PROVE  ConnectBlocks(r, ro) = r
<1> DEFINE f == CHOOSE h : UpEq(h, r, ro)
<1>1. UpEq(f, r, ro)
  BY UpExists
<1>2. ConnectBlocks(r, ro) = f[ro.target]
  BY DEF ConnectBlocks, UpEq
<1> HIDE DEF f
<1> DEFINE C == {b \in SideBlock : f[b] # r}
<1>3. \A b \in SideBlock \cup {None} : b \notin DOMAIN ro.todo => f[b] = r
  BY <1>1 DEF UpEq
<1>4. None \notin DOMAIN ro.todo
  BY BlocksAssumption DEF TodoTyped
<1>5. C = {}
  <2> SUFFICES ASSUME C # {} PROVE FALSE
    OBVIOUS
  <2>1. PICK b \in C : prev_side_hash[b] \notin C
    BY ChainsAssumption DEF Rooted
  <2>2. b \in SideBlock /\ prev_side_hash[b] \in SideBlock \cup {None} /\ b \in DOMAIN ro.todo
    BY <1>3, SideFacts
  <2>3. f[prev_side_hash[b]] = r
    BY <1>3, <1>4, <2>1, <2>2
  <2>4. f[b] = connect_tip_(ro.from, r, b, ro.todo[b])
    BY <1>1, <2>2, <2>3 DEF UpEq
  <2> QED
    BY <2>1, <2>2, <2>4 DEF connect_tip_
<1> QED
  BY <1>2, <1>3, <1>4, <1>5

-----------------------------------------------------------------------------
(***************************************************************************)
(* Where a reorg goes.                                                     *)
(***************************************************************************)
LEMMA LastCommonSide ==
    ASSUME NEW b \in SideBlock \cup {None}, NEW d \in SideBlock \cup {None},
           NEW c, c = last_common_ancestor(b, d)
    PROVE  /\ c = None \/ (c \in ancestors[b] /\ c \in ancestors[d])
           /\ c \in SideBlock \cup {None}
           /\ ancestors[b] \cap ancestors[d] \subseteq ancestors[c]
<1> DEFINE C == ancestors[b] \cap ancestors[d]
<1>1. C \subseteq ancestors[b] /\ ancestors[None] = {}
      /\ (b # None => ancestors[b] \subseteq SideBlock)
  BY SideFacts, SideAncestors DEF IsAncestors
<1>2. c = IF C = {} THEN None ELSE CHOOSE a \in C : C \subseteq ancestors[a]
  BY DEF last_common_ancestor
<1>3. C # {} => \E a \in C : C \subseteq ancestors[a]
  <2>1. C \subseteq ancestors[b]
    OBVIOUS
  <2> HIDE DEF C
  <2> QED
    BY <2>1, SideChain, SideAncestors, LastAncestor
<1>4. CASE C = {}
  BY <1>2, <1>4
<1>5. CASE C # {}
  <2>1. c \in C /\ C \subseteq ancestors[c]
    <3> HIDE DEF C
    <3> QED
      BY <1>2, <1>3, <1>5
  <2> QED
    BY <1>1, <2>1
<1> QED
  BY <1>4, <1>5

\* The loop of handle_mainchain_block_event has nothing to do.
LEMMA NothingDropped ==
    ASSUME Good(archive), NEW s, AtTip(archive, s)
    PROVE  DropNonTips(s) = s
<1> DEFINE kept == {b \in ancestors[s.tip] : HasTip(archive, b)}
           last == CHOOSE b \in kept : kept \subseteq ancestors[b]
<1>1. s \in States /\ s.tip \in SideBlock \cup {None}
  BY AtTipFacts
<1>2. kept = ancestors[s.tip]
  BY DEF AtTip
<1>3. DropNonTips(s) = [s EXCEPT !.tip = IF kept = {} THEN None ELSE last]
  BY DEF DropNonTips
<1>4. (IF kept = {} THEN None ELSE last) = s.tip
  <2>1. CASE s.tip = None
    BY <1>2, <2>1, SideAncestors DEF IsAncestors
  <2>2. CASE s.tip # None
    <3>1. s.tip \in SideBlock /\ s.tip \in ancestors[s.tip]
      BY <1>1, <2>2, SideFacts
    <3>2. \A b \in kept : kept \subseteq ancestors[b] => b = s.tip
      BY <1>2, <3>1, SideAntisymmetric
    <3>3. s.tip \in kept /\ kept \subseteq ancestors[s.tip]
      BY <1>2, <3>1
    <3> HIDE DEF kept
    <3> QED
      BY <3>2, <3>3
  <2> QED
    BY <2>1, <2>2
<1> HIDE DEF kept, last
<1> QED
  BY <1>1, <1>3, <1>4 DEF States

\* The order of ordered_sidechain_tips: by height and then by work.
NotAfter(j, i) == j.height < i.height \/ (j.height = i.height /\ j.work <= i.work)

LEMMA NotAfterOrder ==
    ASSUME NEW i \in TipInfo, NEW j \in TipInfo, NEW k \in TipInfo
    PROVE  /\ NotAfter(i, i) /\ (NotAfter(i, j) \/ NotAfter(j, i))
           /\ NotAfter(i, j) /\ NotAfter(j, k) => NotAfter(i, k)
<1>1. \A x \in {i, j, k} : x.height \in Nat /\ x.work \in Nat
  BY WorkFacts DEF TipInfo
<1> QED
  BY <1>1 DEF NotAfter

\* The infos for the mainchain blocks up to m have a last one: there is one for
\* each block at most.
LEMMA LastExists ==
    ASSUME NEW a, Sound(a), NEW I, I = DOMAIN a.ordered_sidechain_tips, I # {}
    PROVE  \E i \in I : \A j \in I : NotAfter(j, i)
<1> DEFINE J(m) == {i \in I : i.main_block_hash \in main_ancestors[m]}
           P(m) == J(m) # {} => \E i \in J(m) : \A j \in J(m) : NotAfter(j, i)
           C == {m \in MainBlock : ~P(m)}
<1>1. /\ I \subseteq TipInfo /\ OrderOK(a) /\ a.mainchain_tip \in MainBlock \cup {ZeroHash}
  BY DatabaseFacts DEF Sound
<1>2. ASSUME NEW i \in I, NEW j \in I, i.main_block_hash = j.main_block_hash PROVE i = j
  BY <1>1, <1>2 DEF OrderOK
<1>3. P(ZeroHash)
  BY MainAncestors DEF IsAncestors
<1>4. C = {}
  <2> SUFFICES ASSUME C # {} PROVE FALSE
    OBVIOUS
  <2>1. PICK m \in C : prev_block_hash[m] \notin C
    BY ChainsAssumption DEF Rooted
  <2> DEFINE p == prev_block_hash[m]
             S == J(m)
             T == J(p)
  <2>2. m \in MainBlock /\ main_ancestors[m] = {m} \cup main_ancestors[p]
        /\ p \in MainBlock \cup {ZeroHash}
    BY MainFacts
  <2>3. S = T \cup {i \in I : i.main_block_hash = m}
    BY <2>2
  <2>4. T # {} => \E i \in T : \A j \in T : NotAfter(j, i)
    BY <1>3, <2>1, <2>2
  <2>5. S # {} /\ ~\E i \in S : \A j \in S : NotAfter(j, i)
    BY <2>1
  <2>6. S \subseteq I /\ T \subseteq S
    BY <2>3
  <2> HIDE DEF S, T, C, J, P
  <2>7. PICK k \in I : k.main_block_hash = m
    BY <2>3, <2>4, <2>5
  <2>8. S = T \cup {k}
    BY <1>2, <2>3, <2>7
  <2>9. CASE T = {}
    BY <1>1, <2>5, <2>7, <2>8, <2>9, NotAfterOrder
  <2>10. CASE T # {}
    <3>1. PICK i \in T : \A j \in T : NotAfter(j, i)
      BY <2>4, <2>10
    <3>2. i \in TipInfo /\ k \in TipInfo /\ \A j \in T : j \in TipInfo
      BY <1>1, <2>6, <2>7
    <3>3. CASE NotAfter(k, i)
      BY <2>5, <2>8, <3>1, <3>3
    <3>4. CASE NotAfter(i, k)
      <4>1. \A j \in T : NotAfter(j, k)
        BY <3>1, <3>2, <3>4, NotAfterOrder
      <4> QED
        BY <2>5, <2>8, <3>2, <4>1, NotAfterOrder
    <3> QED
      BY <3>2, <3>3, <3>4, NotAfterOrder
  <2> QED
    BY <2>9, <2>10
<1>5. I = J(a.mainchain_tip)
  BY <1>1 DEF OrderOK
<1>6. P(a.mainchain_tip)
  BY <1>1, <1>3, <1>4
<1> HIDE DEF J
<1> QED
  BY <1>5, <1>6

\* best_side_tip is a tip with a valid commitment.
LEMMA BestSideTip ==
    ASSUME NEW a, Good(a), DOMAIN a.ordered_sidechain_tips # {}, NEW t, t = best_side_tip(a)
    PROVE  /\ t \in Tip /\ HasTip(a, t.block_hash) /\ t.main_block_hash \in ValidBmm[t.block_hash]
<1> DEFINE I == DOMAIN a.ordered_sidechain_tips
           i == LastOf(I)
           b == a.ordered_sidechain_tips[i]
<1>1. i \in I
  <2>1. \E k \in I : \A j \in I : NotAfter(j, k)
    BY LastExists DEF Good
  <2> HIDE DEF I
  <2>2. i = CHOOSE k \in I : \A j \in I : NotAfter(j, k)
    BY DEF LastOf, NotAfter
  <2> QED
    BY <2>1, <2>2
<1>2. t = [block_hash |-> b, main_block_hash |-> i.main_block_hash]
  BY DEF best_side_tip
<1> HIDE DEF i
<1>3. b \in DOMAIN a.sidechain_tips /\ a.sidechain_tips[b] = i
  BY <1>1 DEF Good, Sound, OrderOK
<1>4. i.main_block_hash \in ValidBmm[b] /\ b \in SideBlock
  BY <1>3, GoodFacts DEF Good, TipsGood
<1> HIDE DEF b
<1>5. t \in Tip
  BY <1>2, <1>4, ValidIs
<1> QED
  BY <1>2, <1>3, <1>4, <1>5 DEF HasTip

-----------------------------------------------------------------------------
(***************************************************************************)
(* The end of a transaction of reorg_to_tip.                               *)
(***************************************************************************)
LEMMA IdleOK ==
    ASSUME NEW a, NEW s
    PROVE  ReorgOK(a, s, Idle) /\ Idle.phase = "idle"
  BY DEF ReorgOK, IsReorg, TodoOK, Idle, Source

\* What every step leaves alone, or sets within its type.
Around ==
    task' = task /\ events' \in BOOLEAN

\* The parts of NInv that a step within the archive's transaction must bring.
LEMMA Reassemble ==
    ASSUME NInv, Around, Good(archive)', archive'.mainchain_tip = archive.mainchain_tip,
           archive'.invalid_blocks = archive.invalid_blocks,
           AtTip(archive, state)', PegOK(state)', ReorgOK(archive, state, reorg)',
           net_task' \in {net_task, "archive_error", "state_error", "panicked"}
    PROVE  NInv'
<1>1. IInv'
  BY DEF NInv, IInv, Around, Good
<1>2. net_task' \in {"running", "archive_error", "state_error", "panicked"}
  BY DEF NInv
<1> QED
  BY <1>1, <1>2 DEF NInv, Around

\* An error: the transaction is dropped.
LEMMA ErrKeeps ==
    ASSUME NInv, Around, NEW source, NEW error \in {"state_error", "archive_error"},
           Errs(source, error), state' = state, archive' = archive
    PROVE  NInv'
<1>1. reorg' = Idle /\ net_task' \in {net_task, "archive_error", "state_error"}
  BY DEF Errs
<1>2. ReorgOK(archive, state, reorg)'
  BY <1>1, IdleOK
<1> QED
  BY <1>1, <1>2, Reassemble DEF NInv

\* What the reorg has left to do, from the transaction r on.
Left(r, ro) ==
    /\ IsReorg(ro) /\ ro.phase = "applying" /\ ro.source \in Source /\ ro.target \in SideBlock
    /\ TodoOK(r.archive, r.state, ro)
    /\ ancestors[ro.target] \cap r.archive.invalid_blocks = {} => LeadsTo(r.state, ro)

LEMMA EndKeeps ==
    ASSUME NInv, Around, NEW r, GoodTxn(r), r.status = "open", r.archive = archive,
           NEW ro, Left(r, ro), TodoOK(archive, state, ro),
           EndTxn(ConnectBlocks(r, ro), state, ro)
    PROVE  NInv'
<1> DEFINE q == ConnectBlocks(r, ro)
<1>1. UpTxn(r, ro, ro.target, q)
  BY ConnectBlocksIs DEF Left, TodoOK, TodoTyped
<1> HIDE DEF q
<1>2. /\ Good(q.archive) /\ AtTip(q.archive, q.state) /\ PegOK(q.state)
      /\ TipsStay(archive, q.archive) /\ q.archive.mainchain_tip = archive.mainchain_tip
      /\ q.archive.invalid_blocks = archive.invalid_blocks
      /\ q.status \in {"open", "commit", "connect_error", "archive_error"}
  BY <1>1 DEF UpTxn, GoodTxn, TipsStay
<1>3. EndTxn(q, state, ro)
  BY DEF q
<1>4. CASE q.status = "open"
  <2>1. archive' = q.archive /\ state' = q.state /\ reorg' = Idle /\ net_task' = net_task
    BY <1>3, <1>4 DEF EndTxn
  <2>2. ReorgOK(archive, state, reorg)'
    BY <2>1, IdleOK
  <2> QED
    BY <1>2, <2>1, <2>2, Reassemble
<1>5. CASE q.status = "commit"
  <2> DEFINE A == ancestors[q.state.tip]
             todo == Delete(ro.todo, A)
  <2>1. /\ archive' = q.archive /\ state' = q.state /\ net_task' = net_task
        /\ reorg' = [ro EXCEPT !.todo = todo]
    BY <1>3, <1>5 DEF EndTxn, Left, IsReorg
  <2>2. /\ IsReorg(reorg') /\ reorg'.phase = "applying" /\ reorg'.source = ro.source
        /\ reorg'.target = ro.target /\ reorg'.todo = todo
    <3> HIDE DEF todo
    <3> QED
      BY <2>1 DEF Left, IsReorg
  <2>3. DOMAIN todo = DOMAIN ro.todo \ A /\ \A b \in DOMAIN todo : todo[b] = ro.todo[b]
    BY DEF Delete
  <2>4. \A b \in DOMAIN ro.todo : b \in SideBlock /\ ro.todo[b] \subseteq Txid /\ HasTip(q.archive, b)
    BY <1>2 DEF Left, TodoOK, TipsStay, HasTip
  <2>5. TodoOK(q.archive, q.state, reorg')
    <3> HIDE DEF todo
    <3> QED
      BY <2>2, <2>3, <2>4 DEF TodoOK, A
  <2>6. ASSUME ancestors[ro.target] \cap archive.invalid_blocks = {} PROVE LeadsTo(q.state, reorg')
    <3>1. DOMAIN ro.todo = ancestors[ro.target] \ ancestors[r.state.tip]
      BY <2>6 DEF Left, LeadsTo
    <3>2. ancestors[r.state.tip] \subseteq A /\ q.state.tip \in ancestors[ro.target]
      BY <1>1, <1>5 DEF UpTxn, A
    <3>3. DOMAIN todo = ancestors[ro.target] \ A
      BY <2>3, <3>1, <3>2
    <3> HIDE DEF todo
    <3> QED
      BY <2>2, <3>2, <3>3 DEF LeadsTo, A
  <2>7. ReorgOK(q.archive, q.state, reorg')
    <3> HIDE DEF todo, A
    <3> QED
      BY <1>2, <2>2, <2>5, <2>6 DEF ReorgOK, Left
  <2>8. ReorgOK(archive, state, reorg)'
    BY <2>1, <2>7
  <2> QED
    BY <1>2, <2>1, <2>8, Reassemble
<1>6. CASE q.status = "connect_error"
  <2>1. /\ archive' = archive /\ state' = state /\ net_task' = net_task
        /\ reorg' = [ro EXCEPT !.phase = "discarding", !.target = q.failed]
    BY <1>3, <1>6 DEF EndTxn
  <2>2. /\ IsReorg(reorg') /\ reorg'.phase = "discarding" /\ reorg'.source = ro.source
        /\ reorg'.target = q.failed /\ reorg'.todo = ro.todo
    BY <2>1 DEF Left, IsReorg
  <2>3. q.failed \in DOMAIN ro.todo /\ q.failed \in SideBlock
    BY <1>1, <1>6 DEF UpTxn, TodoOK
  <2>4. TodoOK(archive, state, reorg')
    BY <2>2 DEF TodoOK
  <2>5. ReorgOK(archive, state, reorg')
    BY <2>2, <2>3, <2>4 DEF ReorgOK, Left
  <2>6. ReorgOK(archive, state, reorg)'
    BY <2>1, <2>5
  <2> QED
    BY <2>1, <2>6, Reassemble DEF NInv
<1>7. CASE q.status = "archive_error"
  <2>1. Errs(ro.source, "archive_error") /\ state' = state /\ archive' = archive
    BY <1>3, <1>7 DEF EndTxn
  <2> QED
    BY <2>1, ErrKeeps
<1> QED
  BY <1>2, <1>4, <1>5, <1>6, <1>7

\* The tip that reorg_to_tip starts from.
From == IF state.tip = None THEN NoTip ELSE TipOf(archive, state.tip)

LEMMA FromIs ==
    ASSUME EqualWork, NInv
    PROVE  /\ state.tip = None => From = NoTip
           /\ state.tip # None =>
                /\ From = TipOf(archive, state.tip) /\ From \in Tip /\ From # NoTip
                /\ From.block_hash = state.tip /\ From.main_block_hash \in ValidBmm[state.tip]
<1>1. Good(archive) /\ AtTip(archive, state)
  BY DEF NInv
<1>2. state.tip # None => state.tip \in archive.headers /\ ValidBmm[state.tip] # {}
  BY <1>1, AtTipFacts
<1>3. ASSUME state.tip # None
      PROVE  /\ From = TipOf(archive, state.tip) /\ From = TipAt(state.tip) /\ From \in Tip
             /\ From.block_hash = state.tip /\ From.main_block_hash \in ValidBmm[state.tip]
  BY <1>1, <1>2, <1>3, TipOfIs DEF From
<1> QED
  BY <1>3, TipFacts DEF From

\* The first transaction of reorg_to_tip: what it disconnects, and what is left.
LEMMA BeginTxn ==
    ASSUME EqualWork, NInv, NEW t \in Tip, HasTip(archive, t.block_hash), NEW source \in Source,
           From = NoTip \/ better_tip(From, t) = t,
           NEW common, common = last_common_ancestor(state.tip, t.block_hash),
           NEW path, path = BlocksToApply(t.block_hash, common),
           path \subseteq archive.headers \cap DOMAIN archive.bodies,
           NEW ro, ro = [phase |-> "applying", source |-> source, from |-> From,
                         target |-> t.block_hash, todo |-> [b \in path |-> archive.bodies[b]]],
           NEW r, r = DisconnectTo(Txn(archive, state), common)
    PROVE  /\ r \in SoundTxns /\ r.archive = archive /\ TodoTyped(ro) /\ TodoOK(archive, state, ro)
           /\ r.status \in {"open", "archive_error", "state_error", "panic"}
           /\ t.block_hash \in path
           /\ r.status = "open" => GoodTxn(r) /\ Left(r, ro) /\ r.state.tip = common
           /\ r.status = "panic" => state.tip # None /\ ~Clean(prev_side_hash[state.tip])
<1> DEFINE d == t.block_hash
<1>1. Good(archive) /\ AtTip(archive, state) /\ PegOK(state)
  BY DEF NInv
<1>2. /\ state \in States /\ state.tip \in SideBlock \cup {None}
      /\ state.tip # None => state.tip \in SideBlock /\ ValidBmm[state.tip] # {}
                             /\ state.tip \in archive.headers
  BY <1>1, AtTipFacts
<1>3. d \in SideBlock /\ d # None
  BY TipFacts, BlocksAssumption
<1>4. /\ common = None \/ (common \in ancestors[state.tip] /\ common \in ancestors[d])
      /\ common \in SideBlock \cup {None}
      /\ ancestors[state.tip] \cap ancestors[d] \subseteq ancestors[common]
  BY <1>2, <1>3, LastCommonSide
<1>5. common # d
  <2> SUFFICES ASSUME common = d PROVE FALSE
    OBVIOUS
  <2>1. d \in ancestors[state.tip]
    BY <1>3, <1>4
  <2>2. state.tip # None
    BY <2>1, SideAncestors DEF IsAncestors
  <2>3. From \in Tip /\ From.main_block_hash \in ValidBmm[From.block_hash] /\ From.block_hash = state.tip
        /\ From # NoTip
    BY <2>2, FromIs
  <2> QED
    BY <2>1, <2>3, NotBack
<1>6. path = ancestors[d] \ ancestors[common]
  BY <1>5 DEF BlocksToApply
<1>7. d \in path
  <2>1. d \in ancestors[d]
    BY <1>3, SideFacts
  <2>2. common # None => common \in ancestors[d] /\ common \in SideBlock
    BY <1>4
  <2>3. d \notin ancestors[common]
    BY <1>3, <1>5, <2>2, SideAntisymmetric, SideFacts
  <2> QED
    BY <1>6, <2>1, <2>3
<1>8. \A b \in path : HasTip(archive, b) /\ b \in SideBlock /\ b \notin ancestors[state.tip]
  <2>1. d \in archive.headers
    BY <1>7
  <2> QED
    BY <1>1, <1>3, <1>4, <1>6, <2>1, TipsClosed, SideFacts
<1>9. \A b \in path : archive.bodies[b] \in SUBSET Txid
  <2> DEFINE T == SUBSET Txid
  <2>1. archive.bodies \in Partial(SideBlock, T)
    BY <1>1, GoodFacts, DatabaseFacts
  <2> HIDE DEF T
  <2>2. archive.bodies \in [DOMAIN archive.bodies -> T]
    BY <2>1, PartialFacts
  <2> QED
    BY <2>2 DEF T
<1>10. /\ IsReorg(ro) /\ ro.phase = "applying" /\ ro.source = source /\ ro.target = d
       /\ DOMAIN ro.todo = path /\ \A b \in path : ro.todo[b] = archive.bodies[b]
  BY DEF IsReorg
<1>11. TodoTyped(ro) /\ TodoOK(archive, state, ro)
  BY <1>8, <1>9, <1>10 DEF TodoTyped, TodoOK
<1> DEFINE o == Txn(archive, state)
<1>12. /\ o \in Txns /\ o.status = "open" /\ o.archive = archive /\ o.state = state
  BY <1>1, <1>2, GoodFacts DEF Txn, Txns, Statuses
<1> HIDE DEF o
<1>13. DownTo(o, common, r)
  <2>1. r = DisconnectTo(o, common)
    BY DEF o
  <2> QED
    BY <1>1, <1>2, <1>4, <1>12, <2>1, DisconnectToIs
<1>14. /\ r \in Txns /\ r.archive = archive /\ r.status \in {"open", "archive_error", "state_error", "panic"}
       /\ r.status = "open" => r.state.tip = common /\ PegOK(r.state)
       /\ r.status = "panic" => state.tip # None /\ ~Clean(prev_side_hash[state.tip])
  BY <1>12, <1>13 DEF DownTo
<1>15. r \in SoundTxns
  BY <1>1, <1>14 DEF SoundTxns, Good
<1>16. ASSUME r.status = "open" PROVE GoodTxn(r) /\ Left(r, ro)
  <2>1. r.state.tip = common /\ PegOK(r.state) /\ r.state \in States
    BY <1>14, <1>16, TxnFacts
  <2>2. ancestors[common] \subseteq ancestors[state.tip] /\ (common # None => common \in archive.headers)
    <3>1. CASE common = None
      BY <3>1, SideAncestors DEF IsAncestors
    <3>2. CASE common # None
      <4>1. common \in ancestors[state.tip]
        BY <1>4, <3>2
      <4>2. state.tip # None
        BY <4>1, SideAncestors DEF IsAncestors
      <4> QED
        BY <1>1, <1>2, <4>1, <4>2, SideFacts, GoodFacts
    <3> QED
      BY <3>1, <3>2
  <2>3. AtTip(archive, r.state)
    BY <1>1, <2>1, <2>2 DEF AtTip
  <2>4. GoodTxn(r)
    BY <1>1, <1>14, <2>1, <2>3 DEF GoodTxn
  <2>5. TodoOK(archive, r.state, ro)
    BY <1>11, <2>1, <2>2 DEF TodoOK
  <2>6. LeadsTo(r.state, ro)
    BY <1>4, <1>6, <1>10, <2>1 DEF LeadsTo
  <2> QED
    BY <1>3, <1>10, <1>14, <2>4, <2>5, <2>6 DEF Left
<1> QED
  BY <1>7, <1>11, <1>14, <1>15, <1>16

LEMMA BeginKeeps ==
    ASSUME EqualWork, NInv, Around, NEW t \in Tip, HasTip(archive, t.block_hash),
           NEW source \in Source, BeginReorg(state, t, source)
    PROVE  NInv'
<1> DEFINE common == last_common_ancestor(state.tip, t.block_hash)
           path == BlocksToApply(t.block_hash, common)
           ro == [phase |-> "applying", source |-> source, from |-> From,
                  target |-> t.block_hash, todo |-> [b \in path |-> archive.bodies[b]]]
           r == DisconnectTo(Txn(archive, state), common)
           has_header == t.block_hash \in archive.headers \/ t = From
           better == From = NoTip \/ better_tip(From, t) = t
           has_bodies == path \subseteq archive.headers \cap DOMAIN archive.bodies
<1>1. CASE has_header /\ ~better
  <2>1. state' = state /\ archive' = archive /\ reorg' = reorg /\ net_task' = net_task
    BY <1>1 DEF BeginReorg, From
  <2> QED
    BY <2>1, Reassemble DEF NInv
<1>2. CASE ~has_header \/ (better /\ ~has_bodies)
  <2>1. Errs(source, "archive_error") /\ state' = state /\ archive' = archive
    BY <1>2 DEF BeginReorg, From
  <2> QED
    BY <2>1, ErrKeeps
<1>3. CASE has_header /\ better /\ has_bodies
  <2>1. EndTxn(ConnectBlocks(r, ro), state, ro)
    BY <1>3 DEF BeginReorg, From
  <2>2. common = last_common_ancestor(state.tip, t.block_hash)
        /\ path = BlocksToApply(t.block_hash, common)
        /\ r = DisconnectTo(Txn(archive, state), common)
        /\ path \subseteq archive.headers \cap DOMAIN archive.bodies
        /\ (From = NoTip \/ better_tip(From, t) = t)
        /\ ro = [phase |-> "applying", source |-> source, from |-> From,
                 target |-> t.block_hash, todo |-> [b \in path |-> archive.bodies[b]]]
    BY <1>3
  <2> HIDE DEF common, path, ro, r, better, has_bodies, has_header
  <2>3. /\ r \in SoundTxns /\ r.archive = archive /\ TodoTyped(ro) /\ TodoOK(archive, state, ro)
        /\ r.status \in {"open", "archive_error", "state_error", "panic"}
        /\ r.status = "open" => GoodTxn(r) /\ Left(r, ro)
        /\ r.status = "panic" => state.tip # None /\ ~Clean(prev_side_hash[state.tip])
    BY <2>2, BeginTxn
  <2>4. ro.target \in SideBlock \cup {None} /\ ro.source = source
    BY <2>2, TipFacts
  <2>5. CASE r.status = "open"
    BY <2>1, <2>3, <2>5, EndKeeps
  <2>6. CASE r.status # "open"
    <3>1. EndTxn(r, state, ro)
      BY <2>1, <2>3, <2>4, <2>6, ConnectBlocksFailed
    <3>2. CASE r.status \in {"state_error", "archive_error"}
      <4>1. Errs(ro.source, r.status) /\ state' = state /\ archive' = archive
        BY <3>1, <3>2 DEF EndTxn
      <4> QED
        BY <3>2, <4>1, ErrKeeps
    <3>3. CASE r.status = "panic"
      <4>1. net_task' = "panicked" /\ reorg' = Idle /\ state' = state /\ archive' = archive
        BY <3>1, <3>3 DEF EndTxn
      <4>2. ReorgOK(archive, state, reorg)'
        BY <4>1, IdleOK
      <4> QED
        BY <2>3, <3>3, <4>1, <4>2, Reassemble DEF NInv
    <3> QED
      BY <2>3, <2>6, <3>2, <3>3
  <2> QED
    BY <2>5, <2>6
<1> QED
  BY <1>1, <1>2, <1>3

-----------------------------------------------------------------------------
(***************************************************************************)
(* The steps.                                                              *)
(***************************************************************************)
LEMMA NewTipReadyKeeps ==
    ASSUME EqualWork, NInv, NEW t \in Tip, NewTipReady(t)
    PROVE  NInv'
<1>1. /\ HasTip(archive, t.block_hash) /\ BeginReorg(state, t, "NewTipReady")
      /\ task' = task /\ events' = events
  BY DEF NewTipReady
<1>2. Around
  BY <1>1 DEF Around, NInv
<1> QED
  BY <1>1, <1>2, BeginKeeps DEF Source

LEMMA MainchainEventKeeps ==
    ASSUME EqualWork, NInv, MainchainEvent
    PROVE  NInv'
<1>1. DropNonTips(state) = state
  BY NothingDropped DEF NInv
<1>2. Around
  BY DEF MainchainEvent, Around
<1>3. CASE DOMAIN archive.ordered_sidechain_tips = {}
  <2>1. state' = state /\ archive' = archive /\ reorg' = reorg /\ net_task' = net_task
    BY <1>1, <1>3 DEF MainchainEvent
  <2> QED
    BY <1>2, <2>1, Reassemble DEF NInv
<1>4. CASE DOMAIN archive.ordered_sidechain_tips # {}
  <2> DEFINE t == best_side_tip(archive)
  <2>1. BeginReorg(state, t, "MainchainEvent")
    BY <1>1, <1>4 DEF MainchainEvent
  <2>2. t \in Tip /\ HasTip(archive, t.block_hash)
    BY <1>4, BestSideTip DEF NInv
  <2> HIDE DEF t
  <2> QED
    BY <1>2, <2>1, <2>2, BeginKeeps DEF Source
<1> QED
  BY <1>3, <1>4

\* The transaction that a reorg goes on with.
LEMMA ContinueTxn ==
    ASSUME NInv, reorg.phase = "applying", DOMAIN reorg.todo # {},
           NEW r, r = Txn(archive, state)
    PROVE  /\ GoodTxn(r) /\ r.status = "open" /\ r.archive = archive /\ r.state = state
           /\ Left(r, reorg) /\ TodoOK(archive, state, reorg) /\ TodoTyped(reorg)
<1>1. r.status = "open" /\ r.archive = archive /\ r.state = state
  BY DEF Txn
<1>2. archive \in Databases /\ state \in States
  BY GoodFacts, AtTipFacts DEF NInv
<1>3. GoodTxn(r)
  <2>1. r \in Txns
    BY <1>2 DEF Txn, Txns, Statuses
  <2> QED
    BY <1>1, <2>1 DEF NInv, GoodTxn
<1> QED
  BY <1>1, <1>3 DEF NInv, ReorgOK, Left, TodoOK, TodoTyped

LEMMA ContinueKeeps ==
    ASSUME NInv, ContinueReorg
    PROVE  NInv'
<1> DEFINE r == Txn(archive, state)
<1>1. /\ reorg.phase = "applying" /\ DOMAIN reorg.todo # {}
      /\ EndTxn(ConnectBlocks(r, reorg), state, reorg)
      /\ task' = task /\ events' = events
  BY DEF ContinueReorg
<1>2. Around
  BY <1>1 DEF Around, NInv
<1>3. /\ GoodTxn(r) /\ r.status = "open" /\ r.archive = archive
      /\ Left(r, reorg) /\ TodoOK(archive, state, reorg)
  BY <1>1, ContinueTxn
<1> HIDE DEF r
<1> QED
  BY <1>1, <1>2, <1>3, EndKeeps

\* Nothing is left to do: the node is at the target.
LEMMA Arrived ==
    ASSUME NEW s, s.tip \in SideBlock \cup {None}, NEW ro, ro.target \in SideBlock, LeadsTo(s, ro),
           DOMAIN ro.todo = {}
    PROVE  s.tip = ro.target
<1>1. ro.target \in ancestors[ro.target]
  BY SideFacts
<1>2. ro.target \in ancestors[s.tip]
  BY <1>1 DEF LeadsTo
<1>3. s.tip # None
  BY <1>2, SideAncestors DEF IsAncestors
<1>4. s.tip \in ancestors[ro.target]
  BY <1>3 DEF LeadsTo
<1> QED
  BY <1>2, <1>4, SideAntisymmetric

LEMMA FinishKeeps ==
    ASSUME NInv, FinishReorg
    PROVE  NInv'
<1>1. /\ reorg.phase = "applying" /\ DOMAIN reorg.todo = {}
      /\ archive' = archive /\ task' = task /\ state' = state /\ events' = events /\ reorg' = Idle
      /\ net_task' = IF state.tip = reorg.target THEN net_task ELSE "panicked"
  BY DEF FinishReorg
<1>2. state.tip \in SideBlock \cup {None}
  BY AtTipFacts DEF NInv
<1>4. Around
  BY <1>1 DEF Around, NInv
<1>5. ReorgOK(archive, state, reorg)'
  BY <1>1, IdleOK
<1> QED
  BY <1>1, <1>4, <1>5, Reassemble DEF NInv

\* delete_body removes tips, and with a tip those that stand on it.
LEMMA DeleteBodyGood ==
    ASSUME NEW a, Good(a), NEW b \in SideBlock, NEW body, NEW r, r = delete_body(a, b, body)
    PROVE  /\ Good(r) /\ r.headers = a.headers /\ r.mainchain_tip = a.mainchain_tip
           /\ r.invalid_blocks = a.invalid_blocks
           /\ \A d : HasTip(a, d) /\ b \notin ancestors[d] => HasTip(r, d)
<1> DEFINE R == RemovedTips(a, b)
<1>1. Sound(r) /\ a \in Databases
  BY DeleteBodySound DEF Good, Sound
<1>2. /\ r.headers = a.headers /\ r.main = a.main /\ r.mainchain_tip = a.mainchain_tip
      /\ r.invalid_blocks = a.invalid_blocks
      /\ r.sidechain_tips = Delete(a.sidechain_tips, R)
  BY <1>1 DEF delete_body, disconnect_sidechain_tips, Databases
<1>3. /\ DOMAIN r.sidechain_tips = DOMAIN a.sidechain_tips \ R
      /\ \A d \in DOMAIN r.sidechain_tips : r.sidechain_tips[d] = a.sidechain_tips[d]
  BY <1>2 DEF Delete
<1>4. \A d \in R : b \in ancestors[d]
  BY DEF RemovedTips
<1>5. ASSUME NEW d \in a.headers, d \in DOMAIN a.sidechain_tips, d \notin R, prev_side_hash[d] # None
      PROVE  prev_side_hash[d] \in DOMAIN a.sidechain_tips \ R
  <2> DEFINE q == prev_side_hash[d]
  <2>1. q \in DOMAIN a.sidechain_tips /\ d \in SideBlock
    BY <1>5, GoodFacts DEF ParentHasTip, HasTip
  <2>2. q \notin R
    <3> SUFFICES ASSUME q \in R PROVE d \in R
      BY <1>5
    <3>1. b \in ancestors[q] /\ \A e \in Path(b, q) : HasTip(a, e) /\ (e # b => e \in a.headers)
      BY DEF RemovedTips
    <3>2. ancestors[d] = {d} \cup ancestors[q]
      BY <2>1, SideFacts
    <3>3. Path(b, d) \subseteq Path(b, q) \cup {d} /\ b \in ancestors[d]
      BY <3>1, <3>2 DEF Path
    <3> HIDE DEF q
    <3>4. \A e \in Path(b, d) : HasTip(a, e) /\ (e # b => e \in a.headers)
      BY <1>5, <3>1, <3>3 DEF HasTip
    <3> QED
      BY <1>5, <3>3, <3>4 DEF RemovedTips
  <2> QED
    BY <2>1, <2>2
<1> HIDE DEF R
<1>6. TipsGood(r)
  BY <1>2, <1>3, <1>5 DEF Good, TipsGood, ParentHasTip, HasTip
<1> QED
  BY <1>1, <1>2, <1>3, <1>4, <1>6 DEF Good, HasTip

LEMMA DiscardKeeps ==
    ASSUME NInv, DiscardBody
    PROVE  NInv'
<1> DEFINE b == reorg.target
<1>1. /\ reorg.phase = "discarding" /\ task' = task /\ state' = state /\ events' = events
      /\ \/ Errs(reorg.source, "archive_error") /\ archive' = archive
         \/ Errs(reorg.source, "state_error")
            /\ archive' = delete_body(archive, b, reorg.todo[b])
  BY DEF DiscardBody
<1>2. Around
  BY <1>1 DEF Around, NInv
<1>3. b \in SideBlock /\ b \notin ancestors[state.tip]
  BY <1>1 DEF NInv, ReorgOK, TodoOK
<1>4. CASE Errs(reorg.source, "archive_error") /\ archive' = archive
  BY <1>1, <1>2, <1>4, ErrKeeps
<1>5. CASE Errs(reorg.source, "state_error") /\ archive' = delete_body(archive, b, reorg.todo[b])
  <2>1. reorg' = Idle /\ net_task' \in {net_task, "archive_error", "state_error"}
    BY <1>5 DEF Errs
  <2>2. /\ Good(archive)' /\ archive'.headers = archive.headers
        /\ archive'.mainchain_tip = archive.mainchain_tip
        /\ archive'.invalid_blocks = archive.invalid_blocks
        /\ \A d : HasTip(archive, d) /\ b \notin ancestors[d] => HasTip(archive', d)
    BY <1>3, <1>5, DeleteBodyGood DEF NInv
  <2>3. \A d \in ancestors[state.tip] : b \notin ancestors[d]
    <3>1. state.tip \in SideBlock \cup {None} /\ ancestors[None] = {}
      BY AtTipFacts, SideAncestors DEF NInv, IsAncestors
    <3> QED
      BY <1>3, <3>1, SideFacts
  <2>4. AtTip(archive, state)'
    BY <1>1, <2>2, <2>3 DEF NInv, AtTip
  <2>5. ReorgOK(archive, state, reorg)'
    BY <2>1, IdleOK
  <2> QED
    BY <1>1, <1>2, <2>1, <2>2, <2>4, <2>5, Reassemble DEF NInv
<1> QED
  BY <1>1, <1>4, <1>5

LEMMA InvalidateFields ==
    ASSUME NEW a, Good(a), NEW b \in a.headers, NEW r, r = invalidate_block(a, b)
    PROVE  /\ Good(r) /\ r.mainchain_tip = a.mainchain_tip
           /\ a.invalid_blocks \cup {b} \subseteq r.invalid_blocks
           /\ \A d : HasTip(r, d) <=> HasTip(a, d)
           /\ \A d \in a.headers : b \notin ancestors[d] => d \in r.headers
<1> DEFINE D == {d \in a.headers : b \in ancestors[d]} \cup {b}
<1>1. a \in Databases /\ b \in SideBlock /\ b \in ancestors[b]
  BY GoodFacts, SideFacts
<1>2. /\ r.headers = a.headers \ D /\ r.main = a.main /\ r.mainchain_tip = a.mainchain_tip
      /\ r.invalid_blocks = a.invalid_blocks \cup D /\ r.sidechain_tips = a.sidechain_tips
  BY <1>1 DEF invalidate_block, Databases
<1>3. Sound(r)
  BY <1>1, InvalidateSound DEF Good
<1>4. TipsGood(r)
  BY <1>2 DEF Good, TipsGood, ParentHasTip, HasTip
<1> QED
  BY <1>1, <1>2, <1>3, <1>4 DEF Good, HasTip

LEMMA InvalidateKeeps ==
    ASSUME NInv, NEW b \in SideBlock, Invalidate(b)
    PROVE  NInv'
<1> DEFINE o == Txn(archive, state)
           below == is_descendant(b, state.tip)
           r == IF below THEN DisconnectTo(o, prev_side_hash[b]) ELSE o
<1>1. /\ b \in archive.headers /\ r.status = "open"
      /\ archive' = invalidate_block(archive, b) /\ state' = r.state
      /\ task' = task /\ reorg' = reorg /\ events' = events /\ net_task' = net_task
  BY DEF Invalidate
<1>2. Good(archive) /\ AtTip(archive, state) /\ PegOK(state)
  BY DEF NInv
<1>3. /\ state \in States /\ state.tip \in SideBlock \cup {None} /\ archive \in Databases
      /\ state.tip # None => state.tip \in SideBlock /\ ValidBmm[state.tip] # {}
                             /\ state.tip \in archive.headers
  BY <1>2, AtTipFacts, GoodFacts
<1>4. /\ o \in Txns /\ o.status = "open" /\ o.archive = archive /\ o.state = state
  BY <1>3 DEF Txn, Txns, Statuses
<1>5. /\ Good(archive') /\ archive'.mainchain_tip = archive.mainchain_tip
      /\ archive.invalid_blocks \cup {b} \subseteq archive'.invalid_blocks
      /\ (\A d : HasTip(archive', d) <=> HasTip(archive, d))
      /\ \A d \in archive.headers : b \notin ancestors[d] => d \in archive'.headers
  BY <1>1, <1>2, InvalidateFields
<1>6. ancestors[None] = {} /\ b # None
  BY SideAncestors, BlocksAssumption DEF IsAncestors
<1>7. below <=> b \in ancestors[state.tip]
  BY DEF is_descendant
<1> HIDE DEF o, below
<1>8. /\ state' \in States /\ PegOK(state') /\ ancestors[state'.tip] \subseteq ancestors[state.tip]
      /\ state'.tip # None => state'.tip \in archive'.headers
  <2>1. CASE below
    <3> DEFINE p == prev_side_hash[b]
    <3>1. b \in ancestors[state.tip] /\ state.tip # None
      BY <1>6, <1>7, <2>1
    <3>2. /\ p \in SideBlock \cup {None} /\ ancestors[b] = {b} \cup ancestors[p]
          /\ b \notin ancestors[p] /\ ancestors[b] \subseteq ancestors[state.tip]
          /\ p # None => p \in ancestors[p]
      BY <1>3, <3>1, SideFacts
    <3>3. p \in ancestors[state.tip] \cup {None}
      BY <3>2
    <3>4. r = DisconnectTo(o, p)
      BY <2>1
    <3> HIDE DEF r, p
    <3>5. DownTo(o, p, r)
      BY <1>2, <1>3, <1>4, <3>3, <3>4, DisconnectToIs
    <3>6. r \in Txns /\ r.state.tip = p /\ PegOK(r.state)
      BY <1>1, <3>5 DEF DownTo
    <3>7. p # None => p \in archive'.headers
      <4>1. p # None => p \in archive.headers
        BY <1>2, <1>3, <3>1, <3>3, GoodFacts
      <4> QED
        BY <1>5, <3>2, <4>1
    <3> QED
      BY <1>1, <3>2, <3>6, <3>7, TxnFacts
  <2>2. CASE ~below
    <3>1. state' = state
      BY <1>1, <1>4, <2>2
    <3> QED
      BY <1>2, <1>3, <1>5, <1>7, <2>2, <3>1
  <2> QED
    BY <2>1, <2>2
<1>9. AtTip(archive', state')
  BY <1>2, <1>5, <1>8 DEF AtTip
<1>10. TodoOK(archive', state', reorg)
  <2>1. TodoOK(archive, state, reorg)
    BY DEF NInv, ReorgOK
  <2> QED
    BY <1>5, <1>8, <2>1 DEF TodoOK
<1>11. ReorgOK(archive', state', reorg)
  <2>1. ReorgOK(archive, state, reorg)
    BY DEF NInv
  <2>2. ASSUME reorg.phase = "applying", ancestors[reorg.target] \cap archive'.invalid_blocks = {}
        PROVE  LeadsTo(state', reorg)
    <3>1. LeadsTo(state, reorg) /\ b \notin ancestors[reorg.target] /\ reorg.target \in SideBlock
      BY <1>5, <2>1, <2>2 DEF ReorgOK
    <3>2. b \notin ancestors[state.tip]
      BY <1>6, <3>1, SideFacts DEF LeadsTo
    <3>3. state' = state
      BY <1>1, <1>4, <1>7, <3>2
    <3> QED
      BY <3>1, <3>3
  <2> QED
    BY <1>10, <2>1, <2>2 DEF ReorgOK
<1>12. IInv'
  BY <1>1, <1>5 DEF NInv, IInv, Good
<1> QED
  BY <1>1, <1>5, <1>8, <1>9, <1>11, <1>12 DEF NInv

\* The other writers only add tips.
LEMMA GrowthKeeps ==
    ASSUME NInv, [Next]_vars, Grows(archive, archive'), state' = state, reorg' = reorg,
           events' \in BOOLEAN, net_task' \in {net_task, "archive_error"}
    PROVE  NInv'
<1>1. IInv'
  BY StepKeeps DEF NInv
<1>2. Good(archive)'
  <2>1. Sound(archive')
    BY <1>1 DEF IInv
  <2> QED
    BY <2>1, GrowsGood DEF NInv
<1>3. TipsStay(archive, archive')
  BY GrowsStay
<1>4. AtTip(archive', state) /\ ReorgOK(archive', state, reorg)
  BY <1>3, StayAtTip, StayReorg DEF NInv
<1>6. net_task' \in {"running", "archive_error", "state_error", "panicked"}
  BY DEF NInv
<1> QED
  BY <1>1, <1>2, <1>4, <1>6 DEF NInv

LEMMA MoveMainchainKeeps ==
    ASSUME NInv, MoveMainchain
    PROVE  NInv'
<1>1. /\ [Next]_vars /\ state' = state /\ reorg' = reorg /\ net_task' = net_task
      /\ events' \in BOOLEAN
  BY DEF MoveMainchain, Next, NInv
<1>2. Sound(archive) /\ archive.main = MainBlock /\ archive \in Databases
  BY DEF NInv, Good, Sound
<1>3. Grows(archive, archive)
  BY SameTipsGrow
<1>4. ASSUME NEW m \in MainBlock, Sync(m) PROVE Grows(archive, archive')
  <2> DEFINE r == sync_side_tips_to_tip(archive, m)
  <2>1. m \in archive.main /\ (archive' = r.archive \/ archive' = archive)
    BY <1>4 DEF Sync, vars
  <2>2. Grows(archive, r.archive)
    BY <1>2, <2>1, SyncSound
  <2> HIDE DEF r
  <2> QED
    BY <1>3, <2>1, <2>2
<1>5. ASSUME NEW m \in MainBlock, ConnectBlock(m) PROVE Grows(archive, archive')
  <2> DEFINE a == put_main_info(archive, m)
  <2>1. \/ archive' = archive
        \/ ~connect_mainchain_tip_refused(a, m) /\ archive' = connect_mainchain_tip(a, m)
    BY <1>5 DEF ConnectBlock
  <2>2. Sound(a) /\ Grows(archive, a) /\ m \in a.main
    <3>1. SameBlocks(archive, a) /\ SameTips(archive, a) /\ a.main = archive.main \cup {m}
      BY <1>2, PutMainFields
    <3>2. prev_block_hash[m] \in archive.main \cup {ZeroHash}
      BY <1>2, MainFacts
    <3>3. Sound(a)
      BY <1>2, <3>2, PutMainSound
    <3> HIDE DEF a
    <3>4. a.main = archive.main
      BY <1>2, <3>1
    <3> QED
      BY <1>2, <3>1, <3>3, <3>4, SameTipsGrow DEF SameBlocks, SameTips
  <2> HIDE DEF a
  <2> QED
    BY <1>3, <2>1, <2>2, ConnectMainSound, GrowsTransitive
<1>6. ASSUME DisconnectBlock PROVE Grows(archive, archive')
  <2> DEFINE t == prev_block_hash[archive.mainchain_tip]
             M == {archive.mainchain_tip}
  <2>1. /\ task = "streaming"
        /\ archive' = archive \/ archive' = disconnect_mainchain_tips(archive, M, t)
    BY <1>6 DEF DisconnectBlock, disconnect_mainchain_tip
  <2>2. t \in MainBlock \cup {ZeroHash}
    <3>1. archive.mainchain_tip # ZeroHash
      BY <2>1 DEF NInv, IInv
    <3> QED
      BY <1>2, <3>1, MainTipFacts
  <2> HIDE DEF t, M
  <2>3. CASE archive' = archive
    BY <1>3, <2>3
  <2>4. CASE archive' = disconnect_mainchain_tips(archive, M, t)
    <3>1. /\ SameBlocks(archive, archive') /\ SameMain(archive, archive')
          /\ archive'.sidechain_tips = archive.sidechain_tips
      BY <1>2, <2>2, <2>4, DisconnectTyped
    <3> QED
      BY <3>1, SameTipsGrow DEF SameBlocks, SameMain
  <2> QED
    BY <2>1, <2>3, <2>4
<1>7. ASSUME StreamCloses PROVE Grows(archive, archive')
  BY <1>3, <1>7 DEF StreamCloses
<1>8. Grows(archive, archive')
  BY <1>4, <1>5, <1>6, <1>7 DEF MoveMainchain
<1> QED
  BY <1>1, <1>8, GrowthKeeps

LEMMA StoreBodyGrows ==
    ASSUME NInv, NEW b \in SideBlock, NEW body \in Forged \cup {body_of[b]}, StoreBody(b, body)
    PROVE  [Next]_vars /\ Grows(archive, archive')
<1>1. Sound(archive) /\ body \in SUBSET Txid
  BY BodiesAssumption DEF NInv, Good
<1>2. ~put_body_refused(archive, b) /\ archive' = put_body(archive, b, body)
  BY DEF StoreBody
<1>3. Grows(archive, archive')
  BY <1>1, <1>2, PutBodySound
<1> QED
  BY <1>3 DEF Next

LEMMA ReceiveBodyKeeps ==
    ASSUME NInv, ReceiveBody
    PROVE  NInv'
<1>1. state' = state /\ reorg' = reorg /\ events' \in BOOLEAN
  BY DEF ReceiveBody, NInv
<1>2. CASE /\ \E b \in SideBlock : \E body \in Forged \cup {body_of[b]} : StoreBody(b, body)
           /\ net_task' = net_task
  BY <1>1, <1>2, StoreBodyGrows, GrowthKeeps
<1>3. CASE net_task' = "archive_error" /\ archive' = archive /\ task' = task
  <2>1. [Next]_vars /\ Grows(archive, archive')
    BY <1>3, SameTipsGrow DEF vars
  <2> QED
    BY <1>1, <1>3, <2>1, GrowthKeeps
<1> QED
  BY <1>2, <1>3 DEF ReceiveBody

LEMMA SubmitBodyKeeps ==
    ASSUME NInv, NEW b \in SideBlock, SubmitBody(b)
    PROVE  NInv'
<1>1. /\ state' = state /\ reorg' = reorg /\ events' \in BOOLEAN /\ net_task' = net_task
      /\ StoreBody(b, body_of[b])
  BY DEF SubmitBody, nodeVars, NInv
<1>2. [Next]_vars /\ Grows(archive, archive')
  BY <1>1, StoreBodyGrows
<1> QED
  BY <1>1, <1>2, GrowthKeeps

LEMMA NodeStepKeeps ==
    ASSUME EqualWork, NInv, [NodeNext]_allVars
    PROVE  NInv'
<1>1. CASE UNCHANGED allVars
  <2>1. /\ archive' = archive /\ task' = task /\ state' = state /\ reorg' = reorg
        /\ events' = events /\ net_task' = net_task
    BY <1>1 DEF allVars
  <2>2. Around
    BY <2>1 DEF Around, NInv
  <2> QED
    BY <2>1, <2>2, Reassemble DEF NInv
<1>2. CASE NodeNext
  <2>1. ASSUME NEW t \in Tip, NewTipReady(t) PROVE NInv'
    BY <2>1, NewTipReadyKeeps
  <2>2. ASSUME NEW b \in SideBlock, SubmitBody(b) \/ Invalidate(b) PROVE NInv'
    BY <2>2, SubmitBodyKeeps, InvalidateKeeps
  <2> QED
    BY <1>2, <2>1, <2>2, MoveMainchainKeeps, ReceiveBodyKeeps, MainchainEventKeeps, ContinueKeeps,
       FinishKeeps, DiscardKeeps DEF NodeNext
<1> QED
  BY <1>1, <1>2

LEMMA SyncedSound ==
    Good(SyncedHeaders) /\ SyncedHeaders.mainchain_tip = ZeroHash /\ SyncedHeaders.invalid_blocks = {}
<1> DEFINE result(b, m) == IF prev_block_hash[m] # prev_main_hash[b] THEN "absent"
                           ELSE IF m \in ValidBmm[b] THEN "Verified" ELSE "Failed"
           R == [b \in SideBlock |-> [m \in MainBlock |-> result(b, m)]]
           e == EmptyArchive
           a == SyncedHeaders
<1>1. /\ e \in Databases /\ e.invalid_blocks = {} /\ e.mainchain_tip = ZeroHash
      /\ DOMAIN e.bodies = {} /\ DOMAIN e.sidechain_tips = {} /\ DOMAIN e.ordered_sidechain_tips = {}
  BY EmptySound DEF Sound, EmptyArchive
<1> HIDE DEF e
<1>2. a = [e EXCEPT !.main = MainBlock, !.headers = SideBlock, !.bmm_results = R]
  BY DEF SyncedHeaders, e
<1>3. R \in [SideBlock -> [MainBlock -> BmmResult]]
  BY DEF BmmResult
<1>4. ASSUME NEW b \in SideBlock, NEW m \in MainBlock
      PROVE  /\ R[b][m] = "Verified" <=> m \in ValidBmm[b]
             /\ prev_block_hash[m] = prev_main_hash[b] => R[b][m] # "absent"
  <2>1. R[b][m] = result(b, m)
    OBVIOUS
  <2>2. m \in ValidBmm[b] => prev_block_hash[m] = prev_main_hash[b]
    BY ValidIs
  <2> QED
    BY <2>1, <2>2
<1> HIDE DEF R, a
<1>5. /\ a \in Databases /\ a.main = MainBlock /\ a.headers = SideBlock /\ a.bmm_results = R
      /\ a.bodies = e.bodies /\ a.sidechain_tips = e.sidechain_tips
      /\ a.ordered_sidechain_tips = e.ordered_sidechain_tips
      /\ a.mainchain_tip = ZeroHash /\ a.invalid_blocks = {}
  BY <1>1, <1>2, <1>3 DEF Databases
<1>6. HeadersOK(a)
  BY <1>1, <1>5, SideFacts DEF HeadersOK
<1>7. MainOK(a)
  BY <1>5, BlocksAssumption DEF MainOK
<1>8. ResultsOK(a)
  BY <1>4, <1>5 DEF ResultsOK
<1>9. TipsOK(a) /\ OrderOK(a) /\ TipsGood(a)
  BY <1>1, <1>5 DEF TipsOK, OrderOK, TipsGood
<1> QED
  BY <1>5, <1>6, <1>7, <1>8, <1>9 DEF Good, Sound, a

LEMMA NodeInitOK == NodeInit => NInv
<1> SUFFICES ASSUME NodeInit PROVE NInv
  OBVIOUS
<1>1. /\ archive = SyncedHeaders /\ task = "syncing" /\ state = Unapplied /\ reorg = Idle
      /\ events = FALSE /\ net_task = "running"
  BY DEF NodeInit, Unapplied
<1>2. Good(archive) /\ IInv
  BY <1>1, SyncedSound DEF IInv, Good
<1>3. state \in States /\ state.tip = None
  BY <1>1, UnappliedTyped DEF Unapplied
<1>4. AtTip(archive, state)
  BY <1>3, SideAncestors DEF AtTip, IsAncestors
<1>5. PegOK(state)
  BY <1>1, <1>3, StateAtIs DEF PegOK
<1>6. ReorgOK(archive, state, reorg)
  BY <1>1, IdleOK
<1> QED
  BY <1>1, <1>2, <1>4, <1>5, <1>6 DEF NInv

-----------------------------------------------------------------------------
(***************************************************************************)
(* The theorems.                                                           *)
(***************************************************************************)
\* The inductive invariant: whatever the mainchain, the peers, the miner and
\* the operator do between two transactions of reorg_to_tip, the node stays at
\* a tip that its databases can follow down, and what is left to apply fits.
THEOREM NodeSound == EqualWork => (NodeSpec => []NInv)
<1> SUFFICES ASSUME EqualWork PROVE NodeSpec => []NInv
  OBVIOUS
<1>1. NInv /\ [NodeNext]_allVars => NInv'
  BY NodeStepKeeps
<1> QED
  BY <1>1, NodeInitOK, PTL DEF NodeSpec

\* TipKnown for any chains in which the commitments to a block have the same
\* work: the loop of handle_mainchain_block_event, which disconnects blocks
\* without their events, never has anything to disconnect.
THEOREM TipIsKnown == EqualWork => (NodeSpec => []TipKnown)
<1> SUFFICES ASSUME EqualWork PROVE NodeSpec => []TipKnown
  OBVIOUS
<1>1. NInv => TipKnown
  BY AtTipFacts DEF NInv, TipKnown
<1> QED
  BY <1>1, NodeSound, PTL

\* PegExact for the same chains, and any events: as long as no block up to the
\* tip is mixed, connect_two_way_peg_data and disconnect, with the start that
\* disconnect_tip_ recomputes from heights, are inverse to each other, over
\* reorgs complete and abandoned; and what a mixed block spoils is not left
\* behind when the node has gone back below it.
THEOREM PegIsExact == EqualWork => (NodeSpec => []PegExact)
<1> SUFFICES ASSUME EqualWork PROVE NodeSpec => []PegExact
  OBVIOUS
<1>1. NInv => PegExact
  <2> SUFFICES ASSUME NInv, Clean(state.tip) PROVE PegExact
    BY DEF PegExact
  <2> DEFINE o == StateAt[state.tip]
  <2>1. /\ state.tip \in SideBlock \cup {None} /\ (state.tip # None => ValidBmm[state.tip] # {})
        /\ PegOK(state)
    BY AtTipFacts DEF NInv
  <2>2. PegFacts(o, state.tip)
    BY <2>1, StateAtPeg
  <2>3. state.bundles = o.bundles /\ state.deposits = o.deposits
    <3>1. \A m : ~MixedUp(m, state.tip)
      BY DEF MixedUp, Clean
    <3> QED
      BY <2>1, <3>1 DEF PegOK
  <2> HIDE DEF o
  <2> QED
    BY <2>2, <2>3 DEF PegFacts, PegExact, MainBefore
<1> QED
  BY <1>1, NodeSound, PTL

-----------------------------------------------------------------------------
(***************************************************************************)
(* When an assertion fails.                                                *)
(***************************************************************************)
\* What PanicsOnlyWhen says of a step.
PanicOK ==
    Panics =>
        \/ state.tip # None /\ ~Clean(prev_side_hash[state.tip])
        \/ /\ reorg.phase = "applying" /\ DOMAIN reorg.todo = {}
           /\ ancestors[reorg.target] \cap archive.invalid_blocks # {}

\* Connecting blocks fails no assertion.
LEMMA EndPanics ==
    ASSUME NEW r, GoodTxn(r), r.status = "open",
           NEW ro, Left(r, ro), EndTxn(ConnectBlocks(r, ro), state, ro)
    PROVE  ~Panics
<1> DEFINE q == ConnectBlocks(r, ro)
<1>1. UpTxn(r, ro, ro.target, q)
  BY ConnectBlocksIs DEF Left, TodoOK, TodoTyped
<1> HIDE DEF q
<1>2. q.status \in {"open", "commit", "connect_error", "archive_error"}
  BY <1>1 DEF UpTxn
<1>3. EndTxn(q, state, ro)
  BY DEF q
<1>4. net_task' \in {net_task, "archive_error"}
  BY <1>2, <1>3 DEF EndTxn, Errs
<1> QED
  BY <1>4 DEF Panics

\* The first transaction of a reorg: only where it disconnects.
LEMMA BeginPanics ==
    ASSUME EqualWork, NInv, NEW t \in Tip, HasTip(archive, t.block_hash),
           NEW source \in Source, BeginReorg(state, t, source)
    PROVE  PanicOK
<1> DEFINE common == last_common_ancestor(state.tip, t.block_hash)
           path == BlocksToApply(t.block_hash, common)
           ro == [phase |-> "applying", source |-> source, from |-> From,
                  target |-> t.block_hash, todo |-> [b \in path |-> archive.bodies[b]]]
           r == DisconnectTo(Txn(archive, state), common)
           has_header == t.block_hash \in archive.headers \/ t = From
           better == From = NoTip \/ better_tip(From, t) = t
           has_bodies == path \subseteq archive.headers \cap DOMAIN archive.bodies
<1>1. CASE has_header /\ ~better
  <2>1. net_task' = net_task
    BY <1>1 DEF BeginReorg, From
  <2> QED
    BY <2>1 DEF PanicOK, Panics
<1>2. CASE ~has_header \/ (better /\ ~has_bodies)
  <2>1. Errs(source, "archive_error")
    BY <1>2 DEF BeginReorg, From
  <2> QED
    BY <2>1 DEF PanicOK, Panics, Errs
<1>3. CASE has_header /\ better /\ has_bodies
  <2>1. EndTxn(ConnectBlocks(r, ro), state, ro)
    BY <1>3 DEF BeginReorg, From
  <2>2. common = last_common_ancestor(state.tip, t.block_hash)
        /\ path = BlocksToApply(t.block_hash, common)
        /\ r = DisconnectTo(Txn(archive, state), common)
        /\ path \subseteq archive.headers \cap DOMAIN archive.bodies
        /\ (From = NoTip \/ better_tip(From, t) = t)
        /\ ro = [phase |-> "applying", source |-> source, from |-> From,
                 target |-> t.block_hash, todo |-> [b \in path |-> archive.bodies[b]]]
    BY <1>3
  <2> HIDE DEF common, path, ro, r, better, has_bodies, has_header
  <2>3. /\ r \in SoundTxns /\ TodoTyped(ro)
        /\ r.status \in {"open", "archive_error", "state_error", "panic"}
        /\ r.status = "open" => GoodTxn(r) /\ Left(r, ro)
        /\ r.status = "panic" => state.tip # None /\ ~Clean(prev_side_hash[state.tip])
    BY <2>2, BeginTxn
  <2>4. ro.target \in SideBlock \cup {None}
    BY <2>2, TipFacts
  <2>5. CASE r.status = "open"
    BY <2>1, <2>3, <2>5, EndPanics DEF PanicOK
  <2>6. CASE r.status \in {"state_error", "archive_error"}
    <3>1. EndTxn(r, state, ro)
      BY <2>1, <2>3, <2>4, <2>6, ConnectBlocksFailed
    <3>2. Errs(ro.source, r.status)
      BY <2>6, <3>1 DEF EndTxn
    <3> QED
      BY <2>6, <3>2 DEF PanicOK, Panics, Errs
  <2>7. CASE r.status = "panic"
    BY <2>3, <2>7 DEF PanicOK
  <2> QED
    BY <2>3, <2>5, <2>6, <2>7
<1> QED
  BY <1>1, <1>2, <1>3

LEMMA PanicStep ==
    ASSUME EqualWork, NInv, NodeNext
    PROVE  PanicOK
<1>1. CASE MoveMainchain \/ ReceiveBody \/ DiscardBody
  BY <1>1 DEF MoveMainchain, ReceiveBody, DiscardBody, Errs, PanicOK, Panics
<1>2. ASSUME NEW t \in Tip, NewTipReady(t) PROVE PanicOK
  BY <1>2, BeginPanics DEF NewTipReady, Source
<1>3. CASE MainchainEvent
  <2>1. DropNonTips(state) = state
    BY NothingDropped DEF NInv
  <2>2. CASE DOMAIN archive.ordered_sidechain_tips = {}
    <3>1. net_task' = net_task
      BY <1>3, <2>2 DEF MainchainEvent
    <3> QED
      BY <3>1 DEF PanicOK, Panics
  <2>3. CASE DOMAIN archive.ordered_sidechain_tips # {}
    <3> DEFINE t == best_side_tip(archive)
    <3>1. BeginReorg(state, t, "MainchainEvent")
      BY <1>3, <2>1, <2>3 DEF MainchainEvent
    <3>2. t \in Tip /\ HasTip(archive, t.block_hash)
      BY <2>3, BestSideTip DEF NInv
    <3> HIDE DEF t
    <3> QED
      BY <3>1, <3>2, BeginPanics DEF Source
  <2> QED
    BY <2>2, <2>3
<1>4. CASE ContinueReorg
  <2> DEFINE r == Txn(archive, state)
  <2>1. /\ reorg.phase = "applying" /\ DOMAIN reorg.todo # {}
        /\ EndTxn(ConnectBlocks(r, reorg), state, reorg)
    BY <1>4 DEF ContinueReorg
  <2>2. GoodTxn(r) /\ r.status = "open" /\ Left(r, reorg)
    BY <2>1, ContinueTxn
  <2> HIDE DEF r
  <2> QED
    BY <2>1, <2>2, EndPanics DEF PanicOK
<1>5. CASE FinishReorg
  <2>1. /\ reorg.phase = "applying" /\ DOMAIN reorg.todo = {}
        /\ net_task' = IF state.tip = reorg.target THEN net_task ELSE "panicked"
    BY <1>5 DEF FinishReorg
  <2>2. state.tip \in SideBlock \cup {None}
    BY AtTipFacts DEF NInv
  <2>3. ancestors[reorg.target] \cap archive.invalid_blocks = {} => net_task' = net_task
    BY <2>1, <2>2, Arrived DEF NInv, ReorgOK
  <2> QED
    BY <2>1, <2>3 DEF PanicOK, Panics
<1>6. ASSUME NEW b \in SideBlock, SubmitBody(b) \/ Invalidate(b) PROVE PanicOK
  BY <1>6 DEF SubmitBody, Invalidate, nodeVars, PanicOK, Panics
<1> QED
  BY <1>1, <1>2, <1>3, <1>4, <1>5, <1>6 DEF NodeNext

\* PanicsOnlyWhen for the same chains, and any events: the assertions of
\* disconnect_tip_, two_way_peg_data::disconnect and reorg_to_tip fail only
\* where a block above a mixed one is disconnected, or the block a reorg has
\* gone to is invalidated before the assertion about it.
THEOREM PanicsAre == EqualWork => (NodeSpec => PanicsOnlyWhen)
<1> SUFFICES ASSUME EqualWork PROVE NodeSpec => PanicsOnlyWhen
  OBVIOUS
<1>1. NInv /\ [NodeNext]_allVars => [PanicOK]_allVars
  BY PanicStep
<1> QED
  BY <1>1, NodeSound, PTL DEF NodeSpec, PanicsOnlyWhen, PanicOK

-----------------------------------------------------------------------------
(***************************************************************************)
(* What holds for any chains at all: the types.                            *)
(***************************************************************************)
LEMMA DisconnectToTyped ==
    ASSUME NEW r \in Txns, r.status = "open", NEW c \in ancestors[r.state.tip] \cup {None},
           NEW q, q = DisconnectTo(r, c)
    PROVE  /\ q \in Txns /\ q.archive = r.archive
           /\ q.status \in {"open", "archive_error", "state_error", "panic"}
<1> DEFINE t == r.state.tip
           f == CHOOSE h : DownEq(h, r, t)
           N == Under(t)
           next == NextUp(t)
           OK(u) == /\ u \in Txns /\ u.archive = r.archive
                    /\ u.status \in {"open", "archive_error", "state_error", "panic"}
<1>1. DownEq(f, r, t)
  BY DownExists
<1>2. q = f[c]
  BY DEF DisconnectTo, DownEq, After
<1>3. /\ IsChain(N, t, next) /\ N \cup {t} = ancestors[t] \cup {None}
      /\ \A b \in N : next[b] \in ancestors[t] /\ next[b] = After(t, b)
  <2>1. t \in SideBlock \cup {None}
    BY TxnFacts
  <2> HIDE DEF t
  <2> QED
    BY <2>1, DownChain
<1> HIDE DEF f
<1>4. OK(f[t])
  BY <1>1, <1>3 DEF DownEq
<1> DEFINE C == {b \in N : ~OK(f[b])}
<1>5. C = {}
  <2> SUFFICES ASSUME C # {} PROVE FALSE
    OBVIOUS
  <2>1. PICK b \in C : next[b] \notin C
    <3>1. C \in SUBSET N /\ Rooted(N, next)
      BY <1>3 DEF IsChain
    <3> HIDE DEF C, N, next
    <3> QED
      BY <3>1 DEF Rooted
  <2> DEFINE u == f[next[b]]
  <2>2. next[b] \in N \cup {t} /\ next[b] = After(t, b)
    BY <1>3
  <2>3. f[b] = disconnect_tip_(u)
    BY <1>1, <1>3, <2>2 DEF DownEq
  <2>4. OK(u)
    BY <1>4, <2>1, <2>2
  <2>5. ~OK(f[b])
    BY <2>1
  <2> HIDE DEF u, N, next, C
  <2>6. DownOne(u, f[b])
    BY <2>3, <2>4, DisconnectTipIs
  <2> QED
    BY <2>4, <2>5, <2>6 DEF DownOne
<1> QED
  BY <1>2, <1>3, <1>4, <1>5

LEMMA ConnectBlocksTyped ==
    ASSUME NEW r \in SoundTxns, r.status # "connect_error", NEW ro, TodoTyped(ro),
           ro.target \in SideBlock \cup {None}, NEW q, q = ConnectBlocks(r, ro)
    PROVE  /\ q \in SoundTxns /\ q.archive.mainchain_tip = r.archive.mainchain_tip
           /\ q.status = "connect_error" => q.failed \in SideBlock
<1> DEFINE f == CHOOSE h : UpEq(h, r, ro)
           OK(u) == /\ u \in SoundTxns /\ u.archive.mainchain_tip = r.archive.mainchain_tip
                    /\ u.status = "connect_error" => u.failed \in SideBlock
<1>1. UpEq(f, r, ro)
  BY UpExists
<1>2. q = f[ro.target]
  BY DEF ConnectBlocks, UpEq
<1> HIDE DEF f
<1> DEFINE C == {b \in SideBlock : ~OK(f[b])}
<1>3. \A b \in SideBlock \cup {None} : b \notin DOMAIN ro.todo => OK(f[b])
  BY <1>1 DEF UpEq
<1>4. None \notin DOMAIN ro.todo
  BY BlocksAssumption DEF TodoTyped
<1>5. C = {}
  <2> SUFFICES ASSUME C # {} PROVE FALSE
    OBVIOUS
  <2>1. PICK b \in C : prev_side_hash[b] \notin C
    BY ChainsAssumption DEF Rooted
  <2>2. b \in SideBlock /\ prev_side_hash[b] \in SideBlock \cup {None} /\ b \in DOMAIN ro.todo
        /\ ro.todo[b] \in SUBSET Txid
    BY <1>3, SideFacts DEF TodoTyped
  <2> DEFINE u == f[prev_side_hash[b]]
  <2>3. OK(u)
    BY <1>3, <1>4, <2>1, <2>2
  <2>4. f[b] = connect_tip_(ro.from, u, b, ro.todo[b])
    BY <1>1, <2>2 DEF UpEq
  <2>5. ~OK(f[b])
    BY <2>1
  <2> HIDE DEF u, C
  <2>6. /\ f[b] \in SoundTxns
        /\ u.status # "open" => f[b] = u
        /\ u.status = "open" => UpOneTxn(ro.from, u, b, f[b])
    BY <2>2, <2>3, <2>4, ConnectTipIs
  <2>7. CASE u.status # "open"
    <3>1. f[b] = u
      BY <2>6, <2>7
    <3> QED
      BY <2>3, <2>5, <3>1
  <2>8. CASE u.status = "open"
    <3>1. /\ f[b].archive.mainchain_tip = u.archive.mainchain_tip
          /\ f[b].status = "connect_error" => f[b].failed = b
      BY <2>6, <2>8 DEF UpOneTxn
    <3> QED
      BY <2>2, <2>3, <2>5, <2>6, <3>1
  <2> QED
    BY <2>7, <2>8
<1> QED
  BY <1>2, <1>3, <1>4, <1>5

ReorgTyped(ro) ==
    /\ IsReorg(ro) /\ ro.phase \in {"idle", "applying", "discarding"} /\ ro.source \in Source
    /\ ro.target \in SideBlock \cup {None} /\ TodoTyped(ro)
    /\ ro.phase = "discarding" => ro.target \in SideBlock

TInv ==
    /\ IInv /\ state \in States /\ ReorgTyped(reorg) /\ events \in BOOLEAN
    /\ net_task \in {"running", "archive_error", "state_error", "panicked"}

LEMMA IdleTyped == ReorgTyped(Idle)
  BY DEF ReorgTyped, IsReorg, Idle, Source, TodoTyped

LEMMA ErrsTyped ==
    ASSUME TInv, NEW source, NEW error \in {"state_error", "archive_error"}, Errs(source, error)
    PROVE  /\ ReorgTyped(reorg')
           /\ net_task' \in {"running", "archive_error", "state_error", "panicked"}
  BY IdleTyped DEF TInv, Errs

LEMMA EndTyped ==
    ASSUME TInv, Around, NEW q \in SoundTxns, q.archive.mainchain_tip = archive.mainchain_tip,
           q.status = "connect_error" => q.failed \in SideBlock,
           NEW s \in States, NEW ro, ReorgTyped(ro), ro.phase = "applying", EndTxn(q, s, ro)
    PROVE  TInv'
<1>1. q.state \in States /\ Sound(q.archive) /\ q.status \in Statuses
  BY TxnFacts DEF SoundTxns
<1>2. CASE q.status = "open"
  <2>1. archive' = q.archive /\ state' = q.state /\ reorg' = Idle /\ net_task' = net_task
    BY <1>2 DEF EndTxn
  <2> QED
    BY <1>1, <2>1, IdleTyped DEF TInv, IInv, Around
<1>3. CASE q.status = "commit"
  <2> DEFINE todo == Delete(ro.todo, ancestors[q.state.tip])
  <2>1. /\ archive' = q.archive /\ state' = q.state /\ net_task' = net_task
        /\ reorg' = [ro EXCEPT !.todo = todo]
    BY <1>3 DEF EndTxn, ReorgTyped, IsReorg
  <2>2. DOMAIN todo \subseteq DOMAIN ro.todo /\ \A b \in DOMAIN todo : todo[b] = ro.todo[b]
    BY DEF Delete
  <2> HIDE DEF todo
  <2>3. /\ IsReorg(reorg') /\ reorg'.phase = ro.phase /\ reorg'.source = ro.source
        /\ reorg'.target = ro.target /\ reorg'.todo = todo
    BY <2>1 DEF ReorgTyped, IsReorg
  <2>4. ReorgTyped(reorg')
    BY <2>2, <2>3 DEF ReorgTyped, TodoTyped
  <2> QED
    BY <1>1, <2>1, <2>4 DEF TInv, IInv, Around
<1>4. CASE q.status = "connect_error"
  <2>1. /\ archive' = archive /\ state' = s /\ net_task' = net_task
        /\ reorg' = [ro EXCEPT !.phase = "discarding", !.target = q.failed]
    BY <1>4 DEF EndTxn
  <2>2. /\ IsReorg(reorg') /\ reorg'.phase = "discarding" /\ reorg'.source = ro.source
        /\ reorg'.target = q.failed /\ reorg'.todo = ro.todo
    BY <2>1 DEF ReorgTyped, IsReorg
  <2>3. ReorgTyped(reorg')
    BY <1>4, <2>2 DEF ReorgTyped, TodoTyped
  <2> QED
    BY <2>1, <2>3 DEF TInv, IInv, Around
<1>5. CASE q.status \in {"state_error", "archive_error"}
  <2>1. Errs(ro.source, q.status) /\ archive' = archive /\ state' = s
    BY <1>5 DEF EndTxn
  <2>2. /\ ReorgTyped(reorg')
        /\ net_task' \in {"running", "archive_error", "state_error", "panicked"}
    BY <1>5, <2>1, ErrsTyped
  <2> QED
    BY <2>1, <2>2 DEF TInv, IInv, Around
<1>6. CASE q.status = "panic"
  <2>1. net_task' = "panicked" /\ reorg' = Idle /\ state' = s /\ archive' = archive
    BY <1>6 DEF EndTxn
  <2> QED
    BY <2>1, IdleTyped DEF TInv, IInv, Around
<1> QED
  BY <1>1, <1>2, <1>3, <1>4, <1>5, <1>6 DEF Statuses

LEMMA BeginTyped ==
    ASSUME TInv, Around, NEW s \in States, NEW t, t.block_hash \in SideBlock,
           NEW source \in Source, BeginReorg(s, t, source)
    PROVE  TInv'
<1> DEFINE from == IF s.tip = None THEN NoTip ELSE TipOf(archive, s.tip)
           common == last_common_ancestor(s.tip, t.block_hash)
           path == BlocksToApply(t.block_hash, common)
           ro == [phase |-> "applying", source |-> source, from |-> from,
                  target |-> t.block_hash, todo |-> [b \in path |-> archive.bodies[b]]]
           o == Txn(archive, s)
           r == DisconnectTo(o, common)
           q == ConnectBlocks(r, ro)
           has_header == t.block_hash \in archive.headers \/ t = from
           better == from = NoTip \/ better_tip(from, t) = t
           has_bodies == path \subseteq archive.headers \cap DOMAIN archive.bodies
<1>1. CASE has_header /\ ~better
  <2>1. state' = s /\ archive' = archive /\ reorg' = reorg /\ net_task' = net_task
    BY <1>1 DEF BeginReorg
  <2> QED
    BY <2>1 DEF TInv, IInv, Around
<1>2. CASE ~has_header \/ (better /\ ~has_bodies)
  <2>1. Errs(source, "archive_error") /\ state' = s /\ archive' = archive
    BY <1>2 DEF BeginReorg
  <2>2. /\ ReorgTyped(reorg')
        /\ net_task' \in {"running", "archive_error", "state_error", "panicked"}
    BY <2>1, ErrsTyped
  <2> QED
    BY <2>1, <2>2 DEF TInv, IInv, Around
<1>3. CASE has_header /\ better /\ has_bodies
  <2>1. EndTxn(q, s, ro)
    BY <1>3 DEF BeginReorg
  <2>2. Sound(archive) /\ archive \in Databases /\ s.tip \in SideBlock \cup {None}
    BY StateFacts DEF TInv, IInv, Sound
  <2>3. o \in Txns /\ o.status = "open" /\ o.archive = archive /\ o.state = s
    BY <2>2 DEF Txn, Txns, Statuses
  <2>4. common \in ancestors[s.tip] \cup {None}
    BY <2>2, LastCommonSide
  <2>5. ReorgTyped(ro) /\ ro.phase = "applying" /\ ro.source = source
    <3>1. \A b \in path : b \in SideBlock /\ archive.bodies[b] \in SUBSET Txid
      <4> DEFINE T == SUBSET Txid
      <4>1. archive.bodies \in Partial(SideBlock, T) /\ DOMAIN archive.bodies \subseteq SideBlock
        BY <2>2, DatabaseFacts
      <4> HIDE DEF T, path
      <4>2. archive.bodies \in [DOMAIN archive.bodies -> T]
        BY <4>1, PartialFacts
      <4> QED
        BY <1>3, <4>1, <4>2 DEF T
    <3> HIDE DEF path, from
    <3>2. /\ IsReorg(ro) /\ ro.phase = "applying" /\ ro.source = source /\ ro.target = t.block_hash
          /\ DOMAIN ro.todo = path /\ \A b \in path : ro.todo[b] = archive.bodies[b]
      BY DEF IsReorg
    <3> HIDE DEF ro
    <3> QED
      BY <3>1, <3>2 DEF ReorgTyped, TodoTyped
  <2> HIDE DEF from, common, path, ro, o, has_header, better, has_bodies
  <2>6. r \in Txns /\ r.archive = archive
        /\ r.status \in {"open", "archive_error", "state_error", "panic"}
    BY <2>3, <2>4, DisconnectToTyped
  <2> HIDE DEF r
  <2>7. r \in SoundTxns /\ r.status # "connect_error"
    BY <2>2, <2>6 DEF SoundTxns
  <2>8. /\ q \in SoundTxns /\ q.archive.mainchain_tip = archive.mainchain_tip
        /\ q.status = "connect_error" => q.failed \in SideBlock
    BY <2>5, <2>6, <2>7, ConnectBlocksTyped DEF ReorgTyped
  <2> HIDE DEF q
  <2> QED
    BY <2>1, <2>5, <2>8, EndTyped
<1> QED
  BY <1>1, <1>2, <1>3

\* The loop of handle_mainchain_block_event.
LEMMA DropTyped ==
    ASSUME NEW s \in States
    PROVE  DropNonTips(s) \in States
<1> DEFINE kept == {b \in ancestors[s.tip] : HasTip(archive, b)}
           tip == IF kept = {} THEN None ELSE CHOOSE b \in kept : kept \subseteq ancestors[b]
<1>1. s.tip \in SideBlock \cup {None} /\ kept \subseteq ancestors[s.tip]
  BY StateFacts
<1>2. DropNonTips(s) = [s EXCEPT !.tip = tip]
  BY DEF DropNonTips
<1>3. kept \subseteq SideBlock
  BY <1>1, SideAncestors DEF IsAncestors
<1> HIDE DEF kept
<1>4. kept # {} => \E b \in kept : kept \subseteq ancestors[b]
  BY <1>1, SideChain, SideAncestors, LastAncestor
<1>5. tip \in SideBlock \cup {None}
  BY <1>3, <1>4
<1> HIDE DEF tip
<1> QED
  BY <1>2, <1>5 DEF States

\* A step that is also one of the mainchain task or of another writer.
LEMMA OtherTyped ==
    ASSUME TInv, [Next]_vars, state' \in States, reorg' = reorg, events' \in BOOLEAN,
           net_task' \in {net_task, "archive_error"}
    PROVE  TInv'
<1>1. IInv'
  BY StepKeeps DEF TInv
<1> QED
  BY <1>1 DEF TInv

LEMMA TypedStep ==
    ASSUME TInv, [NodeNext]_allVars
    PROVE  TInv'
<1>1. /\ Sound(archive) /\ archive \in Databases /\ state \in States
      /\ (task = "streaming" => archive.mainchain_tip # ZeroHash)
      /\ state.tip \in SideBlock \cup {None} /\ archive.headers \subseteq SideBlock
  BY StateFacts, DatabaseFacts DEF TInv, IInv, Sound
<1>2. CASE UNCHANGED allVars
  BY <1>2 DEF allVars, TInv, IInv
<1>3. CASE MoveMainchain
  <2>1. /\ [Next]_vars /\ state' = state /\ reorg' = reorg /\ net_task' = net_task
        /\ events' \in BOOLEAN
    BY <1>3 DEF MoveMainchain, Next, TInv
  <2> QED
    BY <1>1, <2>1, OtherTyped
<1>4. CASE ReceiveBody
  <2>1. [Next]_vars /\ net_task' \in {net_task, "archive_error"}
    BY <1>4 DEF ReceiveBody, Next, vars
  <2>2. state' = state /\ reorg' = reorg /\ events' = events
    BY <1>4 DEF ReceiveBody
  <2> QED
    BY <1>1, <2>1, <2>2, OtherTyped DEF TInv
<1>5. ASSUME NEW b \in SideBlock, SubmitBody(b) PROVE TInv'
  <2>1. StoreBody(b, body_of[b])
    BY <1>5 DEF SubmitBody
  <2>2. [Next]_vars
    BY <2>1 DEF Next
  <2>3. state' = state /\ reorg' = reorg /\ events' = events /\ net_task' = net_task
    BY <1>5 DEF SubmitBody, nodeVars
  <2> QED
    BY <1>1, <2>2, <2>3, OtherTyped DEF TInv
<1>6. ASSUME NEW t \in Tip, NewTipReady(t) PROVE TInv'
  <2>1. BeginReorg(state, t, "NewTipReady") /\ task' = task /\ events' = events
    BY <1>6 DEF NewTipReady
  <2>2. Around /\ t.block_hash \in SideBlock
    BY <2>1, TipFacts DEF Around, TInv
  <2>3. TInv'
    BY <1>1, <2>1, <2>2, BeginTyped DEF Source
  <2> QED
    BY <2>3
<1>7. CASE MainchainEvent
  <2> DEFINE s == DropNonTips(state)
             t == best_side_tip(archive)
  <2>1. s \in States
    BY <1>1, DropTyped
  <2>2. Around /\ events /\ reorg.phase = "idle"
    BY <1>7 DEF MainchainEvent, Around, Ready
  <2>3. CASE DOMAIN archive.ordered_sidechain_tips = {}
    <3>1. state' = s /\ archive' = archive /\ reorg' = reorg /\ net_task' = net_task
      BY <1>7, <2>3 DEF MainchainEvent
    <3> QED
      BY <2>1, <2>2, <3>1 DEF TInv, IInv, Around
  <2>4. CASE DOMAIN archive.ordered_sidechain_tips # {}
    <3>1. BeginReorg(s, t, "MainchainEvent")
      BY <1>7, <2>4 DEF MainchainEvent
    <3>2. t.block_hash \in SideBlock
      <4> DEFINE I == DOMAIN archive.ordered_sidechain_tips
                 i == LastOf(I)
      <4>1. i \in I
        <5>1. \E k \in I : \A j \in I : NotAfter(j, k)
          BY <1>1, <2>4, LastExists
        <5> HIDE DEF I
        <5>2. i = CHOOSE k \in I : \A j \in I : NotAfter(j, k)
          BY DEF LastOf, NotAfter
        <5> QED
          BY <5>1, <5>2
      <4>2. t.block_hash = archive.ordered_sidechain_tips[i]
        BY <2>4 DEF best_side_tip
      <4> HIDE DEF i
      <4> QED
        BY <1>1, <4>1, <4>2, DatabaseFacts
    <3> HIDE DEF s, t
    <3>3. TInv'
      BY <2>1, <2>2, <3>1, <3>2, BeginTyped DEF Source
    <3> QED
      BY <2>2, <3>3
  <2> QED
    BY <2>3, <2>4
<1>8. CASE ContinueReorg
  <2> DEFINE r == Txn(archive, state)
             q == ConnectBlocks(r, reorg)
  <2>1. reorg.phase = "applying" /\ EndTxn(q, state, reorg) /\ task' = task /\ events' = events
    BY <1>8 DEF ContinueReorg
  <2>2. r \in SoundTxns /\ r.status = "open" /\ r.archive = archive
    BY <1>1 DEF Txn, SoundTxns, Txns, Statuses
  <2> HIDE DEF r
  <2>3. ReorgTyped(reorg) /\ TodoTyped(reorg) /\ reorg.target \in SideBlock \cup {None}
    BY DEF TInv, ReorgTyped
  <2>4. /\ q \in SoundTxns /\ q.archive.mainchain_tip = archive.mainchain_tip
        /\ q.status = "connect_error" => q.failed \in SideBlock
    BY <2>2, <2>3, ConnectBlocksTyped
  <2>5. Around
    BY <2>1 DEF Around, TInv
  <2> HIDE DEF q
  <2>6. TInv'
    BY <1>1, <2>1, <2>3, <2>4, <2>5, EndTyped
  <2> QED
    BY <2>1, <2>6
<1>9. CASE FinishReorg
  BY <1>9, IdleTyped DEF FinishReorg, TInv, IInv
<1>10. CASE DiscardBody
  <2> DEFINE b == reorg.target
  <2>1. /\ reorg.phase = "discarding" /\ task' = task /\ state' = state /\ events' = events
        /\ \/ Errs(reorg.source, "archive_error") /\ archive' = archive
           \/ Errs(reorg.source, "state_error")
              /\ archive' = delete_body(archive, b, reorg.todo[b])
    BY <1>10 DEF DiscardBody
  <2>2. /\ ReorgTyped(reorg')
        /\ net_task' \in {"running", "archive_error", "state_error", "panicked"}
    BY <2>1, ErrsTyped
  <2>3. b \in SideBlock
    BY <2>1 DEF TInv, ReorgTyped
  <2>4. Sound(archive') /\ archive'.mainchain_tip = archive.mainchain_tip
    <3>1. CASE archive' = archive
      BY <1>1, <3>1
    <3>2. CASE archive' = delete_body(archive, b, reorg.todo[b])
      <4>1. Sound(archive')
        BY <1>1, <2>3, <3>2, DeleteBodySound
      <4>2. archive'.mainchain_tip = archive.mainchain_tip
        BY <1>1, <3>2 DEF delete_body, disconnect_sidechain_tips, Databases
      <4> QED
        BY <4>1, <4>2
    <3> QED
      BY <2>1, <3>1, <3>2
  <2> QED
    BY <1>1, <2>1, <2>2, <2>4 DEF TInv, IInv
<1>11. ASSUME NEW b \in SideBlock, Invalidate(b) PROVE TInv'
  <2> DEFINE o == Txn(archive, state)
             below == is_descendant(b, state.tip)
             r == IF below THEN DisconnectTo(o, prev_side_hash[b]) ELSE o
  <2>1. /\ b \in Unwanted \cap archive.headers /\ archive' = invalidate_block(archive, b)
        /\ state' = r.state /\ task' = task /\ reorg' = reorg /\ events' = events
        /\ net_task' = net_task
    BY <1>11 DEF Invalidate
  <2>2. InvalidateBlock(b)
    BY <2>1 DEF InvalidateBlock
  <2>3. [Next]_vars
    BY <2>2 DEF Next
  <2>4. o \in Txns /\ o.status = "open" /\ o.state = state
    BY <1>1 DEF Txn, Txns, Statuses
  <2>5. below => prev_side_hash[b] \in ancestors[state.tip] \cup {None}
    <3> SUFFICES ASSUME below, prev_side_hash[b] # None
                 PROVE  prev_side_hash[b] \in ancestors[state.tip]
      OBVIOUS
    <3>1. b \in ancestors[state.tip]
      BY DEF is_descendant
    <3>2. state.tip # None
      BY <3>1, SideAncestors DEF IsAncestors
    <3>3. prev_side_hash[b] \in ancestors[b] /\ ancestors[b] \subseteq ancestors[state.tip]
      BY <1>1, <3>1, <3>2, SideFacts
    <3> QED
      BY <3>3
  <2> HIDE DEF o, below
  <2>6. r \in Txns
    BY <2>4, <2>5, DisconnectToTyped
  <2>7. state' \in States
    BY <2>1, <2>6, TxnFacts
  <2> HIDE DEF r
  <2> QED
    BY <2>1, <2>3, <2>7, OtherTyped DEF TInv
<1> QED
  BY <1>2, <1>3, <1>4, <1>5, <1>6, <1>7, <1>8, <1>9, <1>10, <1>11 DEF NodeNext

LEMMA TypedInit == NodeInit => TInv
<1>1. NInv => TInv
  BY DEF NInv, TInv, AtTip, ReorgOK, TodoOK, ReorgTyped, TodoTyped
<1> QED
  BY <1>1, NodeInitOK

LEMMA TypedAlways == NodeSpec => []TInv
<1>1. TInv /\ [NodeNext]_allVars => TInv'
  BY TypedStep
<1> QED
  BY <1>1, TypedInit, PTL DEF NodeSpec

\* Type correctness, for any chains: reorg_to_tip's nested transactions, with
\* their walks down to the common ancestor and up to the target, stay within
\* the types, and the stacks of deposit and event blocks stay sequences.
THEOREM NodeTyped == NodeSpec => []NodeTypeOK
<1>1. TInv => NodeTypeOK
  <2> SUFFICES ASSUME TInv PROVE NodeTypeOK
    OBVIOUS
  <2>1. TypeOK
    BY IInvTyped DEF TInv
  <2> QED
    BY <2>1 DEF TInv, ReorgTyped, TodoTyped, States, NodeTypeOK
<1> QED
  BY <1>1, TypedAlways, PTL

-----------------------------------------------------------------------------
(***************************************************************************)
(* Every tip that a reorg commits is better than the one before it.        *)
(***************************************************************************)
\* What a step does to the tip.
Better ==
    state.tip # None /\ state'.tip # state.tip /\ archive'.invalid_blocks = {} =>
        /\ state'.tip # None
        /\ better_tip(TipOf(archive, state.tip), TipOf(archive', state'.tip))
                = TipOf(archive', state'.tip)

LEMMA EqualOfOneFork == OneFork => EqualWork
  BY DEF OneFork, EqualWork

\* The transaction moves on to a block, or leaves the tip.
LEMMA EndMoves ==
    ASSUME NInv, NEW r, GoodTxn(r), r.status = "open", r.archive = archive,
           NEW ro, Left(r, ro), NEW q, q = ConnectBlocks(r, ro), EndTxn(q, state, ro)
    PROVE  /\ UpTxn(r, ro, ro.target, q)
           /\ \/ state' = state
              \/ /\ state' = q.state /\ archive' = q.archive /\ q.status \in {"open", "commit"}
<1>1. UpTxn(r, ro, ro.target, q)
  BY ConnectBlocksIs DEF Left, TodoOK, TodoTyped
<1>2. q.status \in {"open", "commit", "connect_error", "archive_error"}
  BY <1>1 DEF UpTxn
<1> QED
  BY <1>1, <1>2 DEF EndTxn

LEMMA ContinueBetter ==
    ASSUME EqualWork, NInv, ContinueReorg
    PROVE  Better
<1> SUFFICES ASSUME state.tip # None, state'.tip # state.tip, archive'.invalid_blocks = {}
             PROVE  /\ state'.tip # None
                    /\ better_tip(TipOf(archive, state.tip), TipOf(archive', state'.tip))
                            = TipOf(archive', state'.tip)
  BY DEF Better
<1> DEFINE r == Txn(archive, state)
           q == ConnectBlocks(r, reorg)
<1>1. /\ reorg.phase = "applying" /\ DOMAIN reorg.todo # {} /\ EndTxn(q, state, reorg)
  BY DEF ContinueReorg
<1>2. /\ GoodTxn(r) /\ r.status = "open" /\ r.archive = archive /\ r.state = state
      /\ Left(r, reorg)
  BY <1>1, ContinueTxn
<1> HIDE DEF r
<1>3. /\ UpTxn(r, reorg, reorg.target, q) /\ state' = q.state /\ archive' = q.archive
      /\ q.status \in {"open", "commit"}
  BY <1>1, <1>2, EndMoves
<1> HIDE DEF q
<1>4. /\ Good(archive) /\ AtTip(archive, state) /\ Good(archive') /\ AtTip(archive', state')
      /\ ancestors[state.tip] \subseteq ancestors[state'.tip]
  BY <1>2, <1>3 DEF NInv, UpTxn, GoodTxn
<1>5. /\ state.tip \in SideBlock /\ state.tip \in archive.headers /\ ValidBmm[state.tip] # {}
      /\ state.tip \in ancestors[state'.tip]
  BY <1>4, AtTipFacts, SideFacts
<1>6. state'.tip # None
  BY <1>5, SideAncestors DEF IsAncestors
<1>7. state'.tip \in archive'.headers /\ ValidBmm[state'.tip] # {}
  BY <1>4, <1>6, AtTipFacts
<1> DEFINE x == TipOf(archive, state.tip)
           y == TipOf(archive', state'.tip)
<1>8. x \in Tip /\ x.block_hash = state.tip
  BY <1>4, <1>5, TipOfIs
<1>9. y \in Tip /\ y.block_hash = state'.tip /\ y.main_block_hash \in ValidBmm[y.block_hash]
  BY <1>4, <1>7, TipOfIs
<1> HIDE DEF x, y
<1>10. better_tip(x, y) = y
  BY <1>5, <1>8, <1>9, Forward
<1> QED
  BY <1>6, <1>10 DEF x, y

LEMMA BeginBetter ==
    ASSUME OneFork, NInv, NEW t \in Tip, HasTip(archive, t.block_hash),
           NEW source \in Source, BeginReorg(state, t, source)
    PROVE  Better
<1> SUFFICES ASSUME state.tip # None, state'.tip # state.tip
             PROVE  /\ state'.tip # None
                    /\ better_tip(TipOf(archive, state.tip), TipOf(archive', state'.tip))
                            = TipOf(archive', state'.tip)
  BY DEF Better
<1>1. EqualWork
  BY EqualOfOneFork
<1> DEFINE common == last_common_ancestor(state.tip, t.block_hash)
           path == BlocksToApply(t.block_hash, common)
           ro == [phase |-> "applying", source |-> source, from |-> From,
                  target |-> t.block_hash, todo |-> [b \in path |-> archive.bodies[b]]]
           r == DisconnectTo(Txn(archive, state), common)
           has_header == t.block_hash \in archive.headers \/ t = From
           better == From = NoTip \/ better_tip(From, t) = t
           has_bodies == path \subseteq archive.headers \cap DOMAIN archive.bodies
<1>2. has_header /\ better /\ has_bodies
  <2>1. ~(has_header /\ better /\ has_bodies) => state' = state
    BY DEF BeginReorg, From
  <2> QED
    BY <2>1
<1>3. EndTxn(ConnectBlocks(r, ro), state, ro)
  BY <1>2 DEF BeginReorg, From
<1>4. common = last_common_ancestor(state.tip, t.block_hash)
      /\ path = BlocksToApply(t.block_hash, common)
      /\ r = DisconnectTo(Txn(archive, state), common)
      /\ path \subseteq archive.headers \cap DOMAIN archive.bodies
      /\ (From = NoTip \/ better_tip(From, t) = t)
      /\ ro = [phase |-> "applying", source |-> source, from |-> From,
               target |-> t.block_hash, todo |-> [b \in path |-> archive.bodies[b]]]
  BY <1>2
<1> HIDE DEF common, path, ro, r, better, has_bodies, has_header
<1>5. /\ r \in SoundTxns /\ r.archive = archive /\ TodoTyped(ro)
      /\ r.status \in {"open", "archive_error", "state_error", "panic"}
      /\ t.block_hash \in path
      /\ r.status = "open" => GoodTxn(r) /\ Left(r, ro)
  BY <1>1, <1>4, BeginTxn
<1>6. ro.from = From /\ ro.target = t.block_hash /\ t.block_hash \in DOMAIN ro.todo
  BY <1>4, <1>5
<1>7. r.status = "open"
  <2> SUFFICES ASSUME r.status # "open" PROVE state' = state
    OBVIOUS
  <2>1. ro.target \in SideBlock \cup {None}
    BY <1>6, TipFacts
  <2>2. EndTxn(r, state, ro)
    BY <1>3, <1>5, <2>1, ConnectBlocksFailed
  <2> QED
    BY <1>5, <2>2 DEF EndTxn
<1> DEFINE q == ConnectBlocks(r, ro)
<1>8. /\ UpTxn(r, ro, ro.target, q) /\ state' = q.state /\ archive' = q.archive
      /\ q.status \in {"open", "commit"}
  BY <1>3, <1>5, <1>7, EndMoves
<1> HIDE DEF q
<1>9. From = TipOf(archive, state.tip) /\ From # NoTip
  BY <1>1, FromIs
<1>10. q.status = "commit"
  <2> SUFFICES ASSUME q.status = "open" PROVE FALSE
    BY <1>8
  <2>1. q.state.tip = t.block_hash /\ ~Commits(q.archive, From, t.block_hash)
    BY <1>6, <1>8 DEF UpTxn
  <2>2. Good(q.archive) /\ AtTip(q.archive, q.state)
    BY <1>8 DEF UpTxn, GoodTxn
  <2>3. t.block_hash # None
    BY TipFacts, BlocksAssumption
  <2>4. t.block_hash \in q.archive.headers /\ ValidBmm[t.block_hash] # {}
    BY <2>1, <2>2, <2>3, AtTipFacts
  <2>5. TipOf(q.archive, t.block_hash) \in Tip
        /\ TipOf(q.archive, t.block_hash).block_hash = t.block_hash
    BY <1>1, <2>2, <2>4, TipOfIs
  <2>6. TipOf(q.archive, t.block_hash) = t
    BY <2>5 DEF OneFork
  <2> QED
    BY <1>4, <1>9, <2>1, <2>6 DEF Commits
<1>11. Commits(q.archive, From, q.state.tip) /\ q.state.tip \in DOMAIN ro.todo
  BY <1>6, <1>8, <1>10 DEF UpTxn
<1>12. q.state.tip # None
  BY <1>5, <1>11, BlocksAssumption DEF TodoTyped
<1> QED
  BY <1>8, <1>9, <1>11, <1>12 DEF Commits

LEMMA BetterStep ==
    ASSUME OneFork, NInv, [NodeNext]_allVars
    PROVE  Better
<1>1. ASSUME NEW t \in Tip, NewTipReady(t) PROVE Better
  <2>1. HasTip(archive, t.block_hash) /\ BeginReorg(state, t, "NewTipReady")
    BY <1>1 DEF NewTipReady
  <2> QED
    BY <2>1, BeginBetter DEF Source
<1>2. CASE MainchainEvent
  <2>1. DropNonTips(state) = state
    BY NothingDropped DEF NInv
  <2>2. CASE DOMAIN archive.ordered_sidechain_tips = {}
    BY <1>2, <2>1, <2>2 DEF MainchainEvent, Better
  <2>3. CASE DOMAIN archive.ordered_sidechain_tips # {}
    <3> DEFINE t == best_side_tip(archive)
    <3>1. BeginReorg(state, t, "MainchainEvent")
      BY <1>2, <2>1, <2>3 DEF MainchainEvent
    <3>2. t \in Tip /\ HasTip(archive, t.block_hash)
      BY <2>3, BestSideTip DEF NInv
    <3> HIDE DEF t
    <3> QED
      BY <3>1, <3>2, BeginBetter DEF Source
  <2> QED
    BY <2>2, <2>3
<1>3. ASSUME NEW b \in SideBlock, Invalidate(b) PROVE Better
  <2>1. b \in archive.headers /\ archive' = invalidate_block(archive, b)
    BY <1>3 DEF Invalidate
  <2>2. archive'.invalid_blocks # {}
    BY <2>1, InvalidateFields DEF NInv
  <2> QED
    BY <2>2 DEF Better
<1>4. CASE ContinueReorg
  BY <1>4, EqualOfOneFork, ContinueBetter
<1>5. ASSUME state' = state PROVE Better
  BY <1>5 DEF Better
<1>6. ASSUME NEW b \in SideBlock, SubmitBody(b) PROVE Better
  BY <1>5, <1>6 DEF SubmitBody, nodeVars
<1>7. CASE MoveMainchain \/ ReceiveBody \/ FinishReorg \/ DiscardBody \/ UNCHANGED allVars
  BY <1>5, <1>7 DEF MoveMainchain, ReceiveBody, FinishReorg, DiscardBody, allVars
<1> QED
  BY <1>1, <1>2, <1>3, <1>4, <1>6, <1>7 DEF NodeNext

\* NeverWorse for any chains in which a block has one commitment at most: the
\* intermediate commits of reorg_to_tip, and those of later transactions which
\* compare with the tip the reorg started from, never go to a worse tip.
THEOREM NeverGoesBack == OneFork => (NodeSpec => NeverWorse)
<1> SUFFICES ASSUME OneFork PROVE NodeSpec => NeverWorse
  OBVIOUS
<1>1. EqualWork
  BY EqualOfOneFork
<1>2. NodeSpec => []NInv
  BY <1>1, NodeSound
<1>3. NInv /\ [NodeNext]_allVars => [Better]_allVars
  BY BetterStep
<1> QED
  BY <1>2, <1>3, PTL DEF NodeSpec, NeverWorse, Better
=============================================================================
