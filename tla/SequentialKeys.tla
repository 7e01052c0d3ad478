---------------------------- MODULE SequentialKeys ----------------------------
(***************************************************************************)
(* The keys of databases that are "keyed sequentially" (deposit_blocks,    *)
(* withdrawal_bundle_event_blocks and seq_to_bitasset of lib/state): a key *)
(* is the u32 after that of the last entry, and the last entry of LMDB is  *)
(* the one whose key, as SerdeBincode writes it, is greatest byte by byte. *)
(***************************************************************************)
EXTENDS Naturals

CONSTANT Byte   \* the number of values of a byte: 256 in the code

ASSUME ByteAssumption == Byte \in Nat \ {0, 1}

\* SerdeBincode<u32>: four bytes, the least significant first.
bincode(k) ==
    <<k % Byte, (k \div Byte) % Byte, (k \div (Byte * Byte)) % Byte, k \div (Byte * Byte * Byte)>>

\* The order of LMDB keys of one length.
memcmp_less(s, t) == \E i \in 1 .. 4 : s[i] < t[i] /\ \A j \in 1 .. i - 1 : s[j] = t[j]

\* DatabaseUnique::last, of a database that is not empty.
last(f) ==
    CHOOSE k \in DOMAIN f : \A j \in DOMAIN f \ {k} : memcmp_less(bincode(j), bincode(k))

\* The key of the next entry.
next_key(f) == IF DOMAIN f = {} THEN 0 ELSE last(f) + 1
=============================================================================
