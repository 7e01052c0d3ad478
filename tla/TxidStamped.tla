----------------------------- MODULE TxidStamped -----------------------------
(***************************************************************************)
(* lib/state/rollback.rs: RollBack<TxidStamped<T>>, a non-empty history of *)
(* values, each stamped with the transaction and the height that set it.   *)
(***************************************************************************)
EXTENDS Naturals, Sequences, FiniteSetsExt

stamp(value, txid, height) == [data |-> value, txid |-> txid, height |-> height]

new_history(value, txid, height) == <<stamp(value, txid, height)>>

latest_of(r) == r[Len(r)]

push_stamped(r, value, txid, height) == Append(r, stamp(value, txid, height))

\* NonEmpty::pop gives nothing when the history has one entry.
CanPop(r) == Len(r) > 1

pop_stamped(r) == IF CanPop(r) THEN SubSeq(r, 1, Len(r) - 1) ELSE r

\* The entry at the top is one that txid pushed.
PoppedBy(r, txid) == CanPop(r) /\ latest_of(r).txid = txid

\* Mutant: the value at the end of the block is missed.
UpToBefore(r, height) == {i \in DOMAIN r : r[i].height < height}

\* The entries at that height or below; the last of them is the value then.
UpTo(r, height) == {i \in DOMAIN r : r[i].height <= height}

at_block_height_exists(r, height) == UpTo(r, height) # {}
at_block_height(r, height) == r[Max(UpTo(r, height))].data
=============================================================================
