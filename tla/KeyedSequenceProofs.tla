------------------------- MODULE KeyedSequenceProofs -------------------------
(***************************************************************************)
(* The databases "keyed sequentially" are stacks as long as none of them   *)
(* has more entries than a byte has values, whatever blocks are connected  *)
(* and disconnected.  (With more, KeyedSequenceLong.cfg has a behaviour in *)
(* which they are not.)                                                    *)
(***************************************************************************)
EXTENDS KeyedSequence, FiniteSetTheorems, TLAPS

\* No database has more entries than a byte has values.
Short == MaxEntries \in Nat /\ MaxEntries <= Byte

-----------------------------------------------------------------------------
\* A number below the divisor is its own remainder.
LEMMA SmallDivision ==
    ASSUME NEW k \in Nat, NEW n \in Nat, k < n
    PROVE  k \div n = 0 /\ k % n = k
  BY Z3

\* A key below Byte takes up one byte.
LEMMA OneByte ==
    ASSUME NEW k \in 0 .. Byte - 1
    PROVE  bincode(k) = <<k, 0, 0, 0>>
<1>1. Byte \in Nat /\ Byte >= 2 /\ k \in Nat /\ k < Byte
  BY ByteAssumption
<1>2. Byte * Byte \in Nat /\ Byte <= Byte * Byte
  BY <1>1, Z3
<1>3. Byte * Byte * Byte \in Nat /\ Byte * Byte <= Byte * Byte * Byte
  BY <1>1, <1>2, Z3
<1>4. k \div Byte = 0 /\ k % Byte = k
  BY <1>1, SmallDivision
<1>5. k \div (Byte * Byte) = 0
  <2>1. k < Byte * Byte
    BY <1>1, <1>2
  <2> QED BY <1>1, <1>2, <2>1, SmallDivision
<1>6. k \div (Byte * Byte * Byte) = 0
  <2>1. k < Byte * Byte * Byte
    BY <1>1, <1>2, <1>3
  <2> QED BY <1>1, <1>3, <2>1, SmallDivision
<1>7. 0 % Byte = 0
  BY <1>1, SmallDivision
<1> QED
  BY <1>4, <1>5, <1>6, <1>7, Zenon DEF bincode

\* Among such keys the order of the bytes is the order of the numbers.
LEMMA ByteOrder ==
    ASSUME NEW j \in 0 .. Byte - 1, NEW k \in 0 .. Byte - 1
    PROVE  memcmp_less(bincode(j), bincode(k)) <=> j < k
<1> DEFINE s == <<j, 0, 0, 0>>
           t == <<k, 0, 0, 0>>
<1>1. bincode(j) = s /\ bincode(k) = t
  BY OneByte, Zenon
<1>2. j \in Nat /\ k \in Nat
  BY ByteAssumption
<1>3. ASSUME j < k PROVE memcmp_less(s, t)
  <2>1. s[1] < t[1] /\ \A i \in 1 .. 1 - 1 : s[i] = t[i]
    BY <1>2, <1>3
  <2>2. 1 \in 1 .. 4
    OBVIOUS
  <2> HIDE DEF s, t
  <2> QED BY <2>1, <2>2, Zenon DEF memcmp_less
<1>4. ASSUME memcmp_less(s, t) PROVE j < k
  <2>1. PICK i \in 1 .. 4 : s[i] < t[i] /\ \A h \in 1 .. i - 1 : s[h] = t[h]
    BY <1>4, Zenon DEF memcmp_less
  <2>2. CASE i = 1
    BY <2>1, <2>2
  <2>3. CASE i # 1
    <3>1. s[i] = 0 /\ t[i] = 0
      BY <2>3
    <3> QED BY <2>1, <3>1
  <2> QED BY <2>2, <2>3
<1> QED
  BY <1>1, <1>3, <1>4, Zenon

\* The last entry of a database with the keys 0 .. n - 1 is the newest one.
LEMMA LastKey ==
    ASSUME NEW f, NEW n \in Nat, 0 < n, n <= Byte, DOMAIN f = 0 .. n - 1
    PROVE  last(f) = n - 1
<1> DEFINE Is(k) == \A j \in DOMAIN f \ {k} : memcmp_less(bincode(j), bincode(k))
<1>1. Byte \in Nat
  BY ByteAssumption
<1>2. n - 1 \in DOMAIN f /\ DOMAIN f \subseteq 0 .. Byte - 1
  BY <1>1
<1>3. Is(n - 1)
  <2> SUFFICES ASSUME NEW j \in DOMAIN f \ {n - 1} PROVE memcmp_less(bincode(j), bincode(n - 1))
    OBVIOUS
  <2>1. j < n - 1 /\ j \in 0 .. Byte - 1 /\ n - 1 \in 0 .. Byte - 1
    BY <1>1
  <2> QED BY <2>1, ByteOrder
<1>4. ASSUME NEW k \in DOMAIN f, Is(k) PROVE k = n - 1
  <2> SUFFICES ASSUME k # n - 1 PROVE FALSE
    OBVIOUS
  <2>1. memcmp_less(bincode(n - 1), bincode(k))
    BY <1>2, <1>4
  <2>2. n - 1 \in 0 .. Byte - 1 /\ k \in 0 .. Byte - 1
    BY <1>2
  <2>3. n - 1 < k
    BY <2>1, <2>2, ByteOrder
  <2> QED BY <2>3, <1>1
<1>5. last(f) = CHOOSE k \in DOMAIN f : Is(k)
  BY Zenon DEF last
<1> HIDE DEF Is
<1> QED
  BY <1>2, <1>3, <1>4, <1>5, Zenon

\* The next one gets the key n.
LEMMA NextKey ==
    ASSUME NEW f, NEW n \in Nat, n <= Byte, DOMAIN f = 0 .. n - 1
    PROVE  next_key(f) = n
<1>1. CASE n = 0
  <2>1. DOMAIN f = {}
    BY <1>1
  <2> QED BY <1>1, <2>1, Zenon DEF next_key
<1>2. CASE 0 < n
  <2>1. DOMAIN f # {} /\ last(f) = n - 1
    BY <1>2, LastKey
  <2>2. next_key(f) = last(f) + 1
    BY <2>1, Zenon DEF next_key
  <2> QED BY <2>1, <2>2
<1> QED
  BY <1>1, <1>2

-----------------------------------------------------------------------------
(***************************************************************************)
(* The inductive invariant: the keys are 0 .. n - 1, and the entries are   *)
(* the heights with such an event in ascending order, so that the entry of *)
(* the last key is the newest, and removing it leaves the others.          *)
(***************************************************************************)
StackOf(d, n) ==
    /\ DOMAIN db[d] = 0 .. n - 1
    /\ \A i, j \in 0 .. n - 1 : i < j => db[d][i] < db[d][j]
    /\ \A i \in 0 .. n - 1 : db[d][i] \in Heights(d)
    /\ \A h \in Heights(d) : \E i \in 0 .. n - 1 : db[d][i] = h

IInv ==
    /\ chain \in Seq(SUBSET Kind)
    /\ \A d \in Kind : \E n \in 0 .. MaxEntries : StackOf(d, n)

LEMMA InitIInv == ASSUME Short, Init PROVE IInv
<1>1. chain \in Seq(SUBSET Kind)
  BY DEF Init
<1>2. ASSUME NEW d \in Kind PROVE StackOf(d, 0)
  <2>1. DOMAIN db[d] = {}
    BY DEF Init
  <2>2. Heights(d) = {}
    BY DEF Init, Heights
  <2> QED BY <2>1, <2>2 DEF StackOf
<1>3. 0 \in 0 .. MaxEntries
  BY DEF Short
<1> QED
  BY <1>1, <1>2, <1>3 DEF IInv

LEMMA ConnectIInv == ASSUME Short, IInv, NEW K \in SUBSET Kind, Connect(K) PROVE IInv'
<1> DEFINE l == Len(chain) + 1
<1>1. /\ chain \in Seq(SUBSET Kind)
      /\ chain' = Append(chain, K)
  BY DEF IInv, Connect
<1>2. /\ chain' \in Seq(SUBSET Kind) /\ Len(chain') = l
      /\ l \in Nat /\ DOMAIN chain = 1 .. l - 1 /\ DOMAIN chain' = 1 .. l
      /\ chain'[l] = K /\ \A h \in DOMAIN chain : chain'[h] = chain[h]
  BY <1>1
<1>3. ASSUME NEW d \in Kind PROVE \E n \in 0 .. MaxEntries : StackOf(d, n)'
  <2>1. PICK n \in 0 .. MaxEntries : StackOf(d, n)
    BY DEF IInv
  <2>2. n \in Nat /\ n <= Byte
    BY ByteAssumption DEF Short
  <2>3. \A h \in Heights(d) : h \in Nat /\ h < l
    BY <1>2 DEF Heights
  <2>4. CASE d \notin K
    <3>1. db'[d] = db[d]
      BY <2>4 DEF Connect
    <3>2. Heights(d)' = Heights(d)
      BY <1>2, <2>4 DEF Heights
    <3> QED BY <2>1, <3>1, <3>2 DEF StackOf
  <2>5. CASE d \in K
    <3>1. next_key(db[d]) = n
      BY <2>1, <2>2, NextKey DEF StackOf
    <3>2. db'[d] = [j \in DOMAIN db[d] \cup {n} |-> IF j = n THEN l ELSE db[d][j]]
      BY <1>2, <2>5, <3>1 DEF Connect
    <3>3. Heights(d)' = Heights(d) \cup {l}
      BY <1>2, <2>5 DEF Heights
    <3>4. n + 1 \in 0 .. MaxEntries
      <4>1. Cardinality(0 .. n - 1) = n
        BY <2>2, FS_Interval
      <4>2. Cardinality(DOMAIN db[d]) < MaxEntries
        BY <2>5 DEF Connect
      <4> QED BY <2>1, <2>2, <4>1, <4>2 DEF StackOf, Short
    <3>5. StackOf(d, n + 1)'
      <4>1. /\ DOMAIN db'[d] = 0 .. n
            /\ db'[d][n] = l
            /\ \A i \in 0 .. n - 1 : db'[d][i] = db[d][i] /\ db[d][i] \in Heights(d)
        BY <2>1, <2>2, <3>2 DEF StackOf
      <4>2. \A i, j \in 0 .. n : i < j => db'[d][i] < db'[d][j]
        <5> SUFFICES ASSUME NEW i \in 0 .. n, NEW j \in 0 .. n, i < j
                     PROVE  db'[d][i] < db'[d][j]
          OBVIOUS
        <5>1. i \in 0 .. n - 1
          BY <2>2
        <5>2. CASE j = n
          BY <2>3, <4>1, <5>1, <5>2
        <5>3. CASE j # n
          <6>1. j \in 0 .. n - 1
            BY <2>2, <5>3
          <6> QED BY <2>1, <4>1, <5>1, <6>1 DEF StackOf
        <5> QED BY <5>2, <5>3
      <4>3. \A i \in 0 .. n : db'[d][i] \in Heights(d)'
        BY <2>2, <3>3, <4>1
      <4>4. \A h \in Heights(d)' : \E i \in 0 .. n : db'[d][i] = h
        <5> SUFFICES ASSUME NEW h \in Heights(d)' PROVE \E i \in 0 .. n : db'[d][i] = h
          OBVIOUS
        <5>1. CASE h = l
          BY <2>2, <4>1, <5>1
        <5>2. CASE h \in Heights(d)
          <6>1. PICK i \in 0 .. n - 1 : db[d][i] = h
            BY <2>1, <5>2 DEF StackOf
          <6>2. i \in 0 .. n
            BY <2>2
          <6> QED BY <4>1, <6>1, <6>2
        <5> QED BY <3>3, <5>1, <5>2
      <4>5. (n + 1) - 1 = n
        BY <2>2
      <4> QED BY <4>1, <4>2, <4>3, <4>4, <4>5 DEF StackOf
    <3> QED BY <3>4, <3>5
  <2> QED BY <2>4, <2>5
<1> QED
  BY <1>2, <1>3 DEF IInv

LEMMA DisconnectIInv == ASSUME Short, IInv, Disconnect PROVE IInv'
<1> DEFINE l == Len(chain)
           K == chain[l]
<1>1. /\ chain \in Seq(SUBSET Kind) /\ chain # <<>>
      /\ chain' = SubSeq(chain, 1, l - 1)
  BY DEF IInv, Disconnect
<1>2. /\ chain' \in Seq(SUBSET Kind)
      /\ l \in Nat /\ 0 < l /\ DOMAIN chain = 1 .. l /\ DOMAIN chain' = 1 .. l - 1
      /\ \A h \in DOMAIN chain' : chain'[h] = chain[h]
  BY <1>1
<1>3. ASSUME NEW d \in Kind PROVE \E n \in 0 .. MaxEntries : StackOf(d, n)'
  <2>1. PICK n \in 0 .. MaxEntries : StackOf(d, n)
    BY DEF IInv
  <2>2. n \in Nat /\ n <= Byte
    BY ByteAssumption DEF Short
  <2>3. \A h \in Heights(d) : h \in Nat
    BY <1>2 DEF Heights
  <2>4. CASE d \notin K
    <3>1. db'[d] = db[d]
      BY <2>4 DEF Disconnect
    <3>2. Heights(d)' = Heights(d)
      BY <1>2, <2>4 DEF Heights
    <3> QED BY <2>1, <3>1, <3>2 DEF StackOf
  <2>5. CASE d \in K
    <3>1. DOMAIN db[d] # {} /\ db[d][last(db[d])] = l
      BY <2>5 DEF Disconnect
    <3>2. 0 < n
      BY <2>1, <2>2, <3>1 DEF StackOf
    <3>3. last(db[d]) = n - 1
      BY <2>1, <2>2, <3>2, LastKey DEF StackOf
    <3>4. db'[d] = [j \in DOMAIN db[d] \ {n - 1} |-> db[d][j]]
      BY <2>5, <3>3 DEF Disconnect
    <3>5. Heights(d)' = Heights(d) \ {l}
      BY <1>2, <2>5 DEF Heights
    <3>6. StackOf(d, n - 1)'
      <4>1. /\ DOMAIN db'[d] = 0 .. (n - 1) - 1
            /\ \A i \in 0 .. (n - 1) - 1 : i \in 0 .. n - 1 /\ i < n - 1 /\ db'[d][i] = db[d][i]
        BY <2>1, <2>2, <3>2, <3>4 DEF StackOf
      <4>2. db[d][n - 1] = l /\ n - 1 \in 0 .. n - 1
        BY <2>2, <3>1, <3>2, <3>3
      <4>3. \A i \in 0 .. (n - 1) - 1 : db'[d][i] \in Heights(d)'
        <5> SUFFICES ASSUME NEW i \in 0 .. (n - 1) - 1 PROVE db'[d][i] \in Heights(d)'
          OBVIOUS
        <5>1. db[d][i] \in Heights(d) /\ db[d][i] < l
          BY <2>1, <4>1, <4>2 DEF StackOf
        <5>2. db[d][i] # l
          BY <1>2, <2>3, <5>1
        <5> QED BY <3>5, <4>1, <5>1, <5>2
      <4>4. \A h \in Heights(d)' : \E i \in 0 .. (n - 1) - 1 : db'[d][i] = h
        <5> SUFFICES ASSUME NEW h \in Heights(d)'
                     PROVE  \E i \in 0 .. (n - 1) - 1 : db'[d][i] = h
          OBVIOUS
        <5>1. PICK i \in 0 .. n - 1 : db[d][i] = h
          BY <2>1, <3>5 DEF StackOf
        <5>2. i # n - 1
          BY <3>5, <4>2, <5>1
        <5>3. i \in 0 .. (n - 1) - 1
          BY <2>2, <5>2
        <5> QED BY <4>1, <5>1, <5>3
      <4>5. \A i, j \in 0 .. (n - 1) - 1 : i < j => db'[d][i] < db'[d][j]
        BY <2>1, <4>1 DEF StackOf
      <4> QED BY <4>1, <4>3, <4>4, <4>5 DEF StackOf
    <3>7. n - 1 \in 0 .. MaxEntries
      BY <2>2, <3>2 DEF Short
    <3> QED BY <3>6, <3>7
  <2> QED BY <2>4, <2>5
<1> QED
  BY <1>2, <1>3 DEF IInv

LEMMA IInvSequential == ASSUME Short, IInv PROVE Sequential
<1> SUFFICES ASSUME NEW d \in Kind
             PROVE  /\ {db[d][k] : k \in DOMAIN db[d]} = Heights(d)
                    /\ Heights(d) # {} => \A h \in Heights(d) : h <= db[d][last(db[d])]
  BY DEF Sequential
<1>1. PICK n \in 0 .. MaxEntries : StackOf(d, n)
  BY DEF IInv
<1>2. n \in Nat /\ n <= Byte
  BY ByteAssumption DEF Short
<1>3. \A h \in Heights(d) : h \in Nat
  BY DEF Heights, IInv
<1>4. {db[d][k] : k \in DOMAIN db[d]} = Heights(d)
  BY <1>1 DEF StackOf
<1>5. ASSUME NEW h \in Heights(d) PROVE h <= db[d][last(db[d])]
  <2>1. PICK i \in 0 .. n - 1 : db[d][i] = h
    BY <1>1 DEF StackOf
  <2>2. 0 < n /\ n - 1 \in 0 .. n - 1
    BY <1>2
  <2>3. last(db[d]) = n - 1
    BY <1>1, <1>2, <2>2, LastKey DEF StackOf
  <2>4. CASE i = n - 1
    BY <1>3, <2>1, <2>3, <2>4
  <2>5. CASE i < n - 1
    <3>1. db[d][i] < db[d][n - 1] /\ db[d][n - 1] \in Nat
      BY <1>1, <1>3, <2>2, <2>5 DEF StackOf
    <3> QED BY <1>3, <2>1, <2>3, <3>1
  <2> QED BY <1>2, <2>4, <2>5
<1> QED
  BY <1>4, <1>5

\* For every number of values of a byte and every bound on the chain, as long
\* as no database has more entries than a byte has values, connect and
\* disconnect of the two-way peg find in deposit_blocks and
\* withdrawal_bundle_event_blocks the stacks they take them for.
THEOREM SequentialWhileShort == ASSUME Short PROVE Spec => []Sequential
<1>1. Init => IInv
  BY InitIInv
<1>2. IInv /\ [Next]_vars => IInv'
  <2> SUFFICES ASSUME IInv, [Next]_vars PROVE IInv'
    OBVIOUS
  <2>1. CASE \E K \in SUBSET Kind : Connect(K)
    BY <2>1, ConnectIInv
  <2>2. CASE Disconnect
    BY <2>2, DisconnectIInv
  <2>3. CASE UNCHANGED vars
    BY <2>3 DEF vars, IInv, StackOf, Heights
  <2> QED
    BY <2>1, <2>2, <2>3 DEF Next
<1>3. IInv => Sequential
  BY IInvSequential
<1> QED
  BY <1>1, <1>2, <1>3, PTL DEF Spec
=============================================================================
