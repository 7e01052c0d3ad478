-------------------------------- MODULE Blocks --------------------------------
(***************************************************************************)
(* The blocks of the two chains.  A hash fixes the header, so the fields   *)
(* of a header are constant functions of the block; what changes is which  *)
(* blocks a node knows (Archive) and which it has connected (NodeTip).     *)
(* The walks over ancestors of lib/archive/mod.rs are defined here by what *)
(* they return; how the archive finds them by jumps is left out.           *)
(***************************************************************************)
EXTENDS Naturals

CONSTANTS
    MainBlock,        \* mainchain blocks
    ZeroHash,         \* the all-zeros hash before the first mainchain block
    prev_block_hash,  \* [MainBlock -> MainBlock or ZeroHash]
    work,             \* [MainBlock -> Nat], the work of one block
    bmm_commitment,   \* [MainBlock -> SideBlock or None], one block at most
    SideBlock,        \* sidechain blocks
    None,             \* no sidechain block: the parent of a genesis block
    prev_side_hash,   \* [SideBlock -> SideBlock or None]
    prev_main_hash    \* [SideBlock -> MainBlock]

\* Every mainchain block has work and one parent; a sidechain header names a
\* mainchain block.
ASSUME BlocksAssumption ==
    /\ ZeroHash \notin MainBlock
    /\ None \notin SideBlock
    /\ prev_block_hash \in [MainBlock -> MainBlock \cup {ZeroHash}]
    /\ work \in [MainBlock -> Nat \ {0}]
    /\ bmm_commitment \in [MainBlock -> SideBlock \cup {None}]
    /\ prev_side_hash \in [SideBlock -> SideBlock \cup {None}]
    /\ prev_main_hash \in [SideBlock -> MainBlock]

\* A header holds the hash of its parent, so going back from a block ends at
\* a first one: every set of blocks has one whose parent is not in it.
Rooted(N, prev) == \A M \in SUBSET N : M # {} => \E m \in M : prev[m] \notin M

ASSUME ChainsAssumption == Rooted(MainBlock, prev_block_hash) /\ Rooted(SideBlock, prev_side_hash)

-----------------------------------------------------------------------------
\* main_ancestors, ancestors: the block and the blocks before it.
main_ancestors[m \in MainBlock \cup {ZeroHash}] ==
    IF m = ZeroHash THEN {} ELSE {m} \cup main_ancestors[prev_block_hash[m]]

ancestors[b \in SideBlock \cup {None}] ==
    IF b = None THEN {} ELSE {b} \cup ancestors[prev_side_hash[b]]

\* Heights and work, as put_header and put_main_header_info store them.
main_height[m \in MainBlock] ==
    IF prev_block_hash[m] = ZeroHash THEN 0 ELSE main_height[prev_block_hash[m]] + 1

height[b \in SideBlock] ==
    IF prev_side_hash[b] = None THEN 0 ELSE height[prev_side_hash[b]] + 1

total_work[m \in MainBlock] ==
    IF prev_block_hash[m] = ZeroHash THEN work[m]
    ELSE total_work[prev_block_hash[m]] + work[m]

is_main_descendant(ancestor, descendant) == ancestor \in main_ancestors[descendant]
is_descendant(ancestor, descendant) == ancestor \in ancestors[descendant]

\* The last common ancestors of two blocks.
last_common_main_ancestor(m, n) ==
    LET C == main_ancestors[m] \cap main_ancestors[n]
    IN  IF C = {} THEN ZeroHash ELSE CHOOSE a \in C : C \subseteq main_ancestors[a]

last_common_ancestor(b, c) ==
    LET C == ancestors[b] \cap ancestors[c]
    IN  IF C = {} THEN None ELSE CHOOSE a \in C : C \subseteq ancestors[a]

shared_mainchain_lineage(m, n) == is_main_descendant(m, n) \/ is_main_descendant(n, m)
=============================================================================
