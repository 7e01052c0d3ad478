------------------------------- MODULE TipOrder -------------------------------
(***************************************************************************)
(* Nodes that hear of the tips of one mainchain, in any order and any      *)
(* number of times, and follow reorg_to_tip (lib/node/net_task.rs): can a  *)
(* node go round in circles, and do all that come to rest agree?  Whether  *)
(* every tip is heard at all is PeerSync's question.  The archive of every *)
(* node holds all blocks of both chains, forks included.                   *)
(***************************************************************************)
EXTENDS BetterTip

CONSTANT Node
ASSUME NodeAssumption == Node # {}

VARIABLES
    active,  \* the mainchain tip, the same for every node
    block,   \* [Node -> the node's sidechain tip, or None]
    left     \* [Node -> the tips it has left] (history)

vars == <<active, block, left>>

TypeOK ==
    /\ active \in MainBlock
    /\ block \in [Node -> SideBlock \cup {None}]
    /\ left \in [Node -> SUBSET SideBlock]

Init ==
    /\ active \in MainBlock
    /\ block = [n \in Node |-> None]
    /\ left = [n \in Node |-> {}]

-----------------------------------------------------------------------------
\* The tips a node may be told of: NewTipReady drops one whose commitment is
\* not on the active mainchain.
ActiveTips == {t \in Tip : is_main_descendant(t.main_block_hash, active)}

\* get_best_main_verification: the commitment of most work, on any fork.
Verifications(b) == {t \in Tip : t.block_hash = b}
best_main_verification(b) ==
    CHOOSE t \in Verifications(b) : \A u \in Verifications(b) :
        total_work[t.main_block_hash] >= total_work[u.main_block_hash]

\* Mutant: any tip that is heard is taken.
MovesTo_any(b, t) == b # t.block_hash

\* reorg_to_tip goes to t when it is better than the tip the node is at.
MovesTo(b, t) == b # None => Improves(best_main_verification(b), t)

Hear(n, t) ==
    /\ t.block_hash # block[n]
    /\ MovesTo(block[n], t)
    /\ block' = [block EXCEPT ![n] = t.block_hash]
    /\ left' = [left EXCEPT ![n] = @ \cup ({block[n]} \ {None})]
    /\ UNCHANGED active

\* The mainchain moves to a chain of more work.  handle_mainchain_block_event
\* rewinds a tip that SideTips do not list, but disconnect_mainchain_tip takes
\* none off the list, so the tip stays; the best of SideTips, which it then
\* goes to, is one of the tips to be heard of.
MainchainMoves(m) ==
    /\ total_work[m] > total_work[active]
    /\ active' = m
    /\ left' = [n \in Node |-> {}]
    /\ UNCHANGED block

Next ==
    \/ \E n \in Node, t \in ActiveTips : Hear(n, t)
    \/ \E m \in MainBlock : MainchainMoves(m)

Spec == Init /\ [][Next]_vars

-----------------------------------------------------------------------------
\* A node never goes back to a tip it left for a better one: better_tip is
\* acyclic on the tips of one mainchain.
NoReturn == \A n \in Node : block[n] \notin left[n]

Settled(n) == \A t \in ActiveTips : ~MovesTo(block[n], t)

\* Two nodes that no tip can move any more are at the same tip: in whatever
\* order the tips were heard, better_tip leads to one of them.
Agreement == \A m, n \in Node : Settled(m) /\ Settled(n) => block[m] = block[n]

\* The connection task judges a peer's tip as better_tip does: a tip that is
\* downloaded is one the node will go to, and one that is turned down it would
\* not have gone to.  At height 0 better_tip has rules of its own.
PeerCheckAgrees ==
    \A n \in Node, y \in ActiveTips :
        LET x == best_main_verification(block[n])
        IN  block[n] \notin {None, y.block_hash} /\ hgt(x) > 0 /\ hgt(y) > 0 =>
                (PeerTipIsBetter(x, y) <=> MovesTo(block[n], y))

\* The documented rule (better_tip, lib/archive/mod.rs): when the mainchain
\* lineage is shared, the tip of greater height wins, and at equal heights the
\* one of greater total work.
DocumentedRule ==
    \A n \in Node, t \in ActiveTips :
        LET x == best_main_verification(block[n])
        IN  /\ block[n] # None
            /\ height[t.block_hash] = height[x.block_hash] /\ height[t.block_hash] > 0
            /\ shared_mainchain_lineage(x.main_block_hash, t.main_block_hash)
            /\ total_work[t.main_block_hash] > total_work[x.main_block_hash]
            => MovesTo(block[n], t)
=============================================================================
