------------------------------ MODULE Rollback ------------------------------
(***************************************************************************)
(* lib/state/rollback.rs: RollBack<HeightStamped<T>>, a non-empty history  *)
(* of values, each stamped with the height of the block that set it.  The  *)
(* empty sequence stands for the None that pop() leaves of a history with  *)
(* one entry.                                                              *)
(***************************************************************************)
EXTENDS Naturals, Sequences

HeightStamped(T) == [value : T, height : Nat]

RollBack(T) == Seq(HeightStamped(T)) \ {<<>>}

new(value, height) == <<[value |-> value, height |-> height]>>

latest(r) == r[Len(r)]

\* push() refuses a value older than the latest one; every caller expects
\* that it does not.
CanPush(r, height) == latest(r).height <= height

push(r, value, height) == Append(r, [value |-> value, height |-> height])

\* What pop() leaves; the other half of its result is latest(r).
popped(r) == SubSeq(r, 1, Len(r) - 1)

\* r records value v at some height.
Records(r, v) == \E i \in DOMAIN r : r[i].value = v

\* The height of the latest entry with value v: iter().rev().find_map(..).
LatestHeightOf(r, v) ==
    r[CHOOSE i \in DOMAIN r :
        /\ r[i].value = v
        /\ \A j \in DOMAIN r : j > i => r[j].value # v].height
=============================================================================
