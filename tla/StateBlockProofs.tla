--------------------------- MODULE StateBlockProofs ---------------------------
(***************************************************************************)
(* Proofs about blocks, for amounts of any size and any transactions: what *)
(* one operation does to one pool or one auction, what blocks do to pools  *)
(* and auctions, that a disconnect restores every database, that the two   *)
(* copies of connect agree, what the histories of names answer, and which  *)
(* blocks make the node panic.                                             *)
(***************************************************************************)
EXTENDS StateBlock, WellFoundedInduction, FiniteSetTheorems, TLAPS


\* Products of naturals grow with their factors.
LEMMA ProductMonotone ==
    ASSUME NEW a \in Nat, NEW b \in Nat, NEW c \in Nat, a <= b
    PROVE  a * c <= b * c /\ a * c \in Nat /\ b * c \in Nat
  BY Z3

\* A quotient that is rounded down, times the divisor, is at most the dividend.
LEMMA RoundedDown ==
    ASSUME NEW x \in Nat, NEW y \in Nat, 0 < y
    PROVE  x \div y \in Nat /\ (x \div y) * y <= x
<1> DEFINE q == x \div y
           r == x % y
<1>1. q \in Nat /\ r \in 0 .. y - 1 /\ x = y * q + r
  BY Z3
<1> HIDE DEF q, r
<1>2. q \in Nat /\ r \in Nat /\ x = y * q + r
  BY <1>1
<1>3. q * y <= x
  BY <1>2, Z3
<1> QED
  BY <1>2, <1>3 DEF q

\* One that is rounded up is at least the dividend.
LEMMA RoundedUp ==
    ASSUME NEW x \in Nat, NEW y \in Nat, 0 < y
    PROVE  div_ceil(x, y) \in Nat /\ x <= div_ceil(x, y) * y
<1> DEFINE z == x + y - 1
           q == z \div y
           r == z % y
<1>1. z \in Nat
  OBVIOUS
<1>2. q \in Nat /\ r \in 0 .. y - 1 /\ z = y * q + r
  <2> HIDE DEF z
  <2> QED BY <1>1, Z3
<1>3. x <= q * y
  <2>1. x + y - 1 = y * q + r
    BY <1>2
  <2> HIDE DEF z, q, r
  <2> QED BY <1>2, <2>1, Z3
<1> QED
  BY <1>2, <1>3 DEF div_ceil

\* A quotient of at most y is still at most y when it is rounded up.
LEMMA RoundedUpBound ==
    ASSUME NEW x \in Nat, NEW y \in Nat, NEW e \in Nat, 0 < e, x <= y * e
    PROVE  div_ceil(x, e) <= y
<1> DEFINE z == x + e - 1
           q == z \div e
           r == z % e
<1>1. z \in Nat
  OBVIOUS
<1>2. q \in Nat /\ r \in 0 .. e - 1 /\ z = e * q + r
  <2> HIDE DEF z
  <2> QED BY <1>1, Z3
<1>3. y * e \in Nat /\ q * e \in Nat /\ (y + 1) * e \in Nat /\ (y + 1) * e = y * e + e
  <2> HIDE DEF q
  <2> QED BY <1>2, Z3
<1>4. q * e < (y + 1) * e
  <2>1. x + e - 1 = e * q + r
    BY <1>2
  <2> HIDE DEF z, q, r
  <2>2. e * q = q * e
    BY <1>2, Z3
  <2> QED BY <1>2, <1>3, <2>1, <2>2
<1> HIDE DEF z, q, r
<1>5. CASE q <= y
  BY <1>5 DEF div_ceil, q, z
<1>6. CASE y + 1 <= q
  <2>1. (y + 1) * e <= q * e
    BY <1>2, <1>6, ProductMonotone
  <2> QED BY <1>3, <1>4, <2>1
<1> QED
  BY <1>2, <1>5, <1>6

\* The fee leaves at most what there was.
LEMMA FeeBound ==
    ASSUME NEW a \in Nat
    PROVE  after_fee(a) \in Nat /\ after_fee(a) <= a
  BY DEF after_fee

-----------------------------------------------------------------------------
\* Every LP token of q has at least the share of both reserves that one of p has.
ShareKept(p, q) ==
    /\ p.reserve0 * q.outstanding_lp_tokens <= q.reserve0 * p.outstanding_lp_tokens
    /\ p.reserve1 * q.outstanding_lp_tokens <= q.reserve1 * p.outstanding_lp_tokens

\* The arithmetic of a mint on one side: r and l before, a added, m minted.
LEMMA MintSide ==
    ASSUME NEW r \in Nat, NEW l \in Nat, NEW a \in Nat, NEW m \in Nat,
           0 < r, m <= (l * a) \div r
    PROVE  r * (l + m) <= (r + a) * l
<1>1. l * a \in Nat
  BY Z3
<1>2. (l * a) \div r \in Nat /\ ((l * a) \div r) * r <= l * a
  BY <1>1, RoundedDown
<1>3. m * r <= ((l * a) \div r) * r
  BY <1>2, ProductMonotone
<1>4. m * r <= l * a /\ m * r \in Nat
  <2>1. m * r \in Nat /\ ((l * a) \div r) * r \in Nat
    BY <1>2, ProductMonotone
  <2> QED BY <1>1, <1>2, <1>3, <2>1
<1> QED
  BY <1>4, Z3

\* A position that is minted in a pool that has one takes nothing from the
\* others: lp_tokens_minted is the smaller of the two shares, rounded down.
THEOREM MintKeepsShares ==
    ASSUME NEW p \in PoolState, NEW amount0 \in Amount, NEW amount1 \in Amount, ~is_empty(p)
    PROVE  ShareKept(p, mint(p, amount0, amount1))
<1> DEFINE r0 == p.reserve0
           r1 == p.reserve1
           l == p.outstanding_lp_tokens
           s0 == (l * amount0) \div r0
           s1 == (l * amount1) \div r1
           m == lp_tokens_minted(p, amount0, amount1)
<1>1. r0 \in Nat /\ r1 \in Nat /\ l \in Nat /\ amount0 \in Nat /\ amount1 \in Nat
  BY U64Assumption DEF PoolState, Amount
<1>2. 0 < r0 /\ 0 < r1
  BY <1>1 DEF is_empty
<1>3. m = IntMin(s0, s1)
  BY DEF lp_tokens_minted
<1>4. s0 \in Nat /\ s1 \in Nat
  <2>1. l * amount0 \in Nat /\ l * amount1 \in Nat
    BY <1>1, Z3
  <2> QED BY <1>1, <1>2, <2>1, RoundedDown
<1>5. m \in Nat /\ m <= s0 /\ m <= s1
  <2> HIDE DEF s0, s1, m
  <2> QED BY <1>3, <1>4 DEF IntMin
<1>6. r0 * (l + m) <= (r0 + amount0) * l /\ r1 * (l + m) <= (r1 + amount1) * l
  <2> HIDE DEF r0, r1, l, m
  <2> QED BY <1>1, <1>2, <1>5, MintSide
<1>7. /\ mint(p, amount0, amount1).reserve0 = r0 + amount0
      /\ mint(p, amount0, amount1).reserve1 = r1 + amount1
      /\ mint(p, amount0, amount1).outstanding_lp_tokens = l + m
  BY DEF mint, PoolState
<1> QED
  BY <1>6, <1>7 DEF ShareKept

\* The arithmetic of a burn on one side.
LEMMA BurnSide ==
    ASSUME NEW r \in Nat, NEW l \in Nat, NEW b \in Nat, 0 < l, b <= l
    PROVE  r * (l - b) <= (r - (r * b) \div l) * l
<1>1. r * b \in Nat
  BY Z3
<1> DEFINE q == (r * b) \div l
<1>2. q \in Nat /\ q * l <= r * b
  BY <1>1, RoundedDown
<1> HIDE DEF q
<1>3. r * (l - b) <= (r - q) * l
  BY <1>1, <1>2, Z3
<1> QED
  BY <1>3 DEF q

\* A burn pays out at most the share of the tokens that are burned.
THEOREM BurnKeepsShares ==
    ASSUME NEW p \in PoolState, NEW lp_token_burn \in Amount, ~burn_refused(p, lp_token_burn)
    PROVE  ShareKept(p, burn(p, lp_token_burn))
<1> DEFINE r0 == p.reserve0
           r1 == p.reserve1
           l == p.outstanding_lp_tokens
<1>1. r0 \in Nat /\ r1 \in Nat /\ l \in Nat /\ lp_token_burn \in Nat
  BY U64Assumption DEF PoolState, Amount
<1>2. 0 < l /\ lp_token_burn <= l
  BY <1>1 DEF burn_refused
<1>3. /\ burn(p, lp_token_burn).reserve0 = r0 - (r0 * lp_token_burn) \div l
      /\ burn(p, lp_token_burn).reserve1 = r1 - (r1 * lp_token_burn) \div l
      /\ burn(p, lp_token_burn).outstanding_lp_tokens = l - lp_token_burn
  BY DEF burn, payout, PoolState
<1>4. /\ r0 * (l - lp_token_burn) <= (r0 - (r0 * lp_token_burn) \div l) * l
      /\ r1 * (l - lp_token_burn) <= (r1 - (r1 * lp_token_burn) \div l) * l
  <2> HIDE DEF r0, r1, l
  <2> QED BY <1>1, <1>2, BurnSide
<1> QED
  BY <1>3, <1>4 DEF ShareKept

-----------------------------------------------------------------------------
\* The reserve that the rounded division leaves is a number.
LEMMA NewReserveNat ==
    ASSUME NEW x \in Nat, NEW y \in Nat, NEW a \in Nat, ~swap_panics(x, a)
    PROVE  new_receive_asset_reserve_before_fee(x, y, a) \in Nat
<1> DEFINE e == effective_spend_asset_reserve(x, a)
<1>1. e \in Nat /\ 0 < e
  BY FeeBound DEF effective_spend_asset_reserve, swap_panics
<1>2. x * y \in Nat
  BY Z3
<1>3. div_ceil(x * y, e) \in Nat
  <2> HIDE DEF e
  <2> QED BY <1>1, <1>2, RoundedUp
<1> QED
  BY <1>3 DEF new_receive_asset_reserve_before_fee

\* The arithmetic of a swap: x is the reserve that grows by a, y the other.
LEMMA SwapSides ==
    ASSUME NEW x \in Nat, NEW y \in Nat, NEW a \in Nat,
           ~swap_panics(x, a)
    PROVE  /\ new_receive_asset_reserve_before_fee(x, y, a) <= y
           /\ y - amount_receive_after_fee(x, y, a) \in Nat
           /\ amount_receive_after_fee(x, y, a) \in Nat
           /\ x * y <= (x + a) * (y - amount_receive_after_fee(x, y, a))
<1> DEFINE e == effective_spend_asset_reserve(x, a)
           n == new_receive_asset_reserve_before_fee(x, y, a)
           got == amount_receive_after_fee(x, y, a)
<1>1. e \in Nat /\ 0 < e /\ x <= e /\ e <= x + a
  BY FeeBound DEF effective_spend_asset_reserve, swap_panics
<1>2. n \in Nat /\ x * y <= n * e
  <2>1. x * y \in Nat
    BY Z3
  <2>2. n = div_ceil(x * y, e)
    BY DEF new_receive_asset_reserve_before_fee
  <2> HIDE DEF e, n
  <2> QED BY <1>1, <2>1, <2>2, RoundedUp
<1>3. n <= y
  <2>1. x * y \in Nat
    BY Z3
  <2>2. n = div_ceil(x * y, e)
    BY DEF new_receive_asset_reserve_before_fee
  <2> HIDE DEF e, n
  <2>3. x * y <= e * y /\ e * y = y * e /\ y * e \in Nat
    <3>1. x * y <= e * y
      BY <1>1, ProductMonotone
    <3>2. e * y = y * e /\ y * e \in Nat
      BY <1>1, Z3
    <3> QED BY <3>1, <3>2
  <2>4. x * y <= y * e
    BY <2>3
  <2> QED BY <1>1, <2>1, <2>2, <2>4, RoundedUpBound
<1>4. got \in Nat /\ got <= y - n
  <2>1. got = after_fee(y - n)
    BY DEF amount_receive_after_fee
  <2>2. y - n \in Nat
    <3> HIDE DEF n
    <3> QED BY <1>2, <1>3
  <2> HIDE DEF n, got
  <2> QED BY <2>1, <2>2, FeeBound
<1> HIDE DEF e, n, got
<1>5. y - got \in Nat /\ n <= y - got
  BY <1>2, <1>3, <1>4
<1>6. n * e <= (x + a) * (y - got)
  <2>1. n * e <= (y - got) * e
    BY <1>1, <1>2, <1>5, ProductMonotone
  <2>2. e * (y - got) <= (x + a) * (y - got)
    BY <1>1, <1>5, ProductMonotone
  <2>3. (y - got) * e = e * (y - got)
    BY <1>1, <1>5, Z3
  <2>4. n * e \in Nat /\ e * (y - got) \in Nat /\ (x + a) * (y - got) \in Nat
    BY <1>1, <1>2, <1>5, Z3
  <2> QED BY <2>1, <2>2, <2>3, <2>4
<1>7. x * y <= (x + a) * (y - got)
  <2>1. x * y \in Nat /\ n * e \in Nat /\ (x + a) * (y - got) \in Nat
    BY <1>1, <1>2, <1>5, Z3
  <2> QED BY <1>2, <1>6, <2>1
<1> QED
  BY <1>3, <1>4, <1>5, <1>7 DEF got, n

Product(p) == p.reserve0 * p.reserve1

\* A swap, either way, is refused only when a reserve would overflow: the
\* checked subtractions never fail, and the reserve that pays does not
\* underflow (no InsufficientLiquidity).  It never lets the product of the
\* reserves fall.
THEOREM SwapKeepsProduct ==
    ASSUME NEW p \in PoolState, NEW amount_spend \in Amount
    PROVE  /\ ~swap_panics(p.reserve0, amount_spend)
              => LET q == swap_asset0_for_asset1(p, amount_spend)
                 IN  /\ swap_refused(p.reserve0, p.reserve1, amount_spend)
                           <=> p.reserve0 + amount_spend > U64
                     /\ q.reserve1 \in Nat /\ Product(p) <= Product(q)
           /\ ~swap_panics(p.reserve1, amount_spend)
              => LET q == swap_asset1_for_asset0(p, amount_spend)
                 IN  /\ swap_refused(p.reserve1, p.reserve0, amount_spend)
                           <=> p.reserve1 + amount_spend > U64
                     /\ q.reserve0 \in Nat /\ Product(p) <= Product(q)
<1> DEFINE r0 == p.reserve0
           r1 == p.reserve1
           f == swap_asset0_for_asset1(p, amount_spend)
           b == swap_asset1_for_asset0(p, amount_spend)
           g1 == amount_receive_after_fee(r0, r1, amount_spend)
           g0 == amount_receive_after_fee(r1, r0, amount_spend)
           n1 == new_receive_asset_reserve_before_fee(r0, r1, amount_spend)
           n0 == new_receive_asset_reserve_before_fee(r1, r0, amount_spend)
<1>1. r0 \in Nat /\ r1 \in Nat /\ amount_spend \in Nat
  BY U64Assumption DEF PoolState, Amount
<1>2. ASSUME ~swap_panics(r0, amount_spend)
      PROVE  /\ swap_refused(r0, r1, amount_spend) <=> r0 + amount_spend > U64
             /\ f.reserve1 \in Nat /\ Product(p) <= Product(f)
  <2>1. n1 <= r1 /\ r1 - g1 \in Nat /\ r0 * r1 <= (r0 + amount_spend) * (r1 - g1)
    <3> HIDE DEF r0, r1
    <3> QED BY <1>1, <1>2, SwapSides
  <2>2. f.reserve0 = r0 + amount_spend /\ f.reserve1 = r1 - g1
    BY DEF swap_asset0_for_asset1, PoolState
  <2>3. n1 \in Nat
    <3> HIDE DEF r0, r1
    <3> QED BY <1>1, <1>2, NewReserveNat
  <2>4. swap_refused(r0, r1, amount_spend) <=> r0 + amount_spend > U64
    <3> HIDE DEF r0, r1, n1
    <3>1. swap_refused(r0, r1, amount_spend) <=> n1 > r1 \/ r0 + amount_spend > U64
      BY DEF swap_refused, n1
    <3> QED BY <1>1, <2>1, <2>3, <3>1
  <2>5. f.reserve1 \in Nat /\ Product(p) <= Product(f)
    BY <2>1, <2>2 DEF Product
  <2> QED BY <2>4, <2>5
<1>3. ASSUME ~swap_panics(r1, amount_spend)
      PROVE  /\ swap_refused(r1, r0, amount_spend) <=> r1 + amount_spend > U64
             /\ b.reserve0 \in Nat /\ Product(p) <= Product(b)
  <2>1. n0 <= r0 /\ r0 - g0 \in Nat /\ r1 * r0 <= (r1 + amount_spend) * (r0 - g0)
    <3> HIDE DEF r0, r1
    <3> QED BY <1>1, <1>3, SwapSides
  <2>2. b.reserve0 = r0 - g0 /\ b.reserve1 = r1 + amount_spend
    BY DEF swap_asset1_for_asset0, PoolState
  <2>3. r0 * r1 <= (r0 - g0) * (r1 + amount_spend)
    <3> HIDE DEF r0, r1, g0
    <3> QED BY <1>1, <2>1, Z3
  <2>4. n0 \in Nat
    <3> HIDE DEF r0, r1
    <3> QED BY <1>1, <1>3, NewReserveNat
  <2>5. swap_refused(r1, r0, amount_spend) <=> r1 + amount_spend > U64
    <3> HIDE DEF r0, r1, n0
    <3>1. swap_refused(r1, r0, amount_spend) <=> n0 > r0 \/ r1 + amount_spend > U64
      BY DEF swap_refused, n0
    <3> QED BY <1>1, <2>1, <2>4, <3>1
  <2>6. b.reserve0 \in Nat /\ Product(p) <= Product(b)
    BY <2>1, <2>2, <2>3 DEF Product
  <2> QED BY <2>5, <2>6
<1> QED
  BY <1>2, <1>3

-----------------------------------------------------------------------------
\* A set of numbers has a least one.
LEMMA LeastNatural ==
    ASSUME NEW S, S \subseteq Nat, S # {}
    PROVE  \E n \in S : \A k \in S : n <= k
<1> DEFINE R == OpToRel(<, Nat)
<1>1. IsWellFoundedOn(R, Nat)
  BY NatLessThanWellFounded
<1> HIDE DEF R
<1>2. PICK n \in S : \A k \in S : ~(<<k, n>> \in R)
  BY <1>1, WFMin
<1>3. \A k \in S : ~(k < n)
  BY <1>2 DEF R, OpToRel
<1> QED
  BY <1>3

-----------------------------------------------------------------------------
(***************************************************************************)
(* One auction.  T is the set of all transactions.                         *)
(*                                                                         *)
(* Bids push an entry onto every history of an auction and a collect onto  *)
(* two of them: the first entries of these two are those of the bids, and  *)
(* what lies above was pushed by collects and is zero.                     *)
(***************************************************************************)
Stamped == [data : Nat, txid : STRING, height : Int]

OnlyBy(T, txid, kind) == \A t \in T : t.txid = txid => t.data.kind = kind

Limits(a, base, quote, price_, end_price) ==
    /\ base <= a.initial_base_amount
    /\ price_ + quote <= a.initial_price
    /\ end_price <= price_

\* The histories B of the base that remains, Q of the quote received, P of the
\* price and E of the end price.
BidsOK(T, a, B, Q, P, E) ==
    \A i \in 1 .. Len(P) :
        /\ Limits(a, B[i].data, Q[i].data, P[i].data, E[i].data)
        /\ i > 1 => OnlyBy(T, B[i].txid, "DutchAuctionBid")

CollectsOK(T, B, Q, P) ==
    \A i \in (Len(P) + 1) .. Len(Q) :
        /\ B[i].data = 0 /\ Q[i].data = 0
        /\ OnlyBy(T, Q[i].txid, "DutchAuctionCollect")

Ledger(T, a, B, Q, P, E) ==
    /\ B \in Seq(Stamped) /\ Q \in Seq(Stamped) /\ P \in Seq(Stamped) /\ E \in Seq(Stamped)
    /\ Len(B) = Len(Q) /\ Len(P) = Len(E) /\ 1 <= Len(P) /\ Len(P) <= Len(Q)
    /\ BidsOK(T, a, B, Q, P, E)
    /\ CollectsOK(T, B, Q, P)

AuctionFields ==
    {"start_block", "duration", "base_asset", "initial_base_amount", "quote_asset",
     "initial_price", "initial_end_price", "most_recent_bid_block", "base_amount_remaining",
     "quote_amount", "price_after_most_recent_bid", "end_price_after_most_recent_bid"}

AuctionOK(T, a) ==
    /\ DOMAIN a = AuctionFields
    /\ a.start_block \in Nat /\ a.duration \in Nat
    /\ a.initial_base_amount \in Nat /\ a.initial_price \in Nat
    /\ a.most_recent_bid_block \in Seq(Stamped)
    /\ Len(a.most_recent_bid_block) = Len(a.price_after_most_recent_bid)
    /\ Ledger(T, a, a.base_amount_remaining, a.quote_amount, a.price_after_most_recent_bid,
              a.end_price_after_most_recent_bid)

LEMMA PushBid ==
    ASSUME NEW T, NEW a, NEW B, NEW Q, NEW P, NEW E, Ledger(T, a, B, Q, P, E), Len(Q) = Len(P),
           NEW b \in Stamped, NEW q \in Stamped, NEW p \in Stamped, NEW e \in Stamped,
           Limits(a, b.data, q.data, p.data, e.data), OnlyBy(T, b.txid, "DutchAuctionBid")
    PROVE  Ledger(T, a, Append(B, b), Append(Q, q), Append(P, p), Append(E, e))
<1> USE DEF Ledger
<1>1. /\ Append(B, b) \in Seq(Stamped) /\ Append(Q, q) \in Seq(Stamped)
      /\ Append(P, p) \in Seq(Stamped) /\ Append(E, e) \in Seq(Stamped)
      /\ Len(Append(B, b)) = Len(P) + 1 /\ Len(Append(Q, q)) = Len(P) + 1
      /\ Len(Append(P, p)) = Len(P) + 1 /\ Len(Append(E, e)) = Len(P) + 1
  OBVIOUS
<1>2. BidsOK(T, a, Append(B, b), Append(Q, q), Append(P, p), Append(E, e))
  <2> SUFFICES ASSUME NEW i \in 1 .. Len(P) + 1
               PROVE  /\ Limits(a, Append(B, b)[i].data, Append(Q, q)[i].data,
                                   Append(P, p)[i].data, Append(E, e)[i].data)
                      /\ i > 1 => OnlyBy(T, Append(B, b)[i].txid, "DutchAuctionBid")
    BY <1>1 DEF BidsOK
  <2>1. CASE i = Len(P) + 1
    <3>1. Append(B, b)[i] = b /\ Append(Q, q)[i] = q /\ Append(P, p)[i] = p /\ Append(E, e)[i] = e
      BY <2>1
    <3> QED
      BY <3>1
  <2>2. CASE i # Len(P) + 1
    <3>1. i \in 1 .. Len(P)
      BY <2>2
    <3>2. /\ Append(B, b)[i] = B[i] /\ Append(Q, q)[i] = Q[i]
          /\ Append(P, p)[i] = P[i] /\ Append(E, e)[i] = E[i]
      BY <3>1
    <3> QED
      BY <3>1, <3>2 DEF BidsOK
  <2> QED
    BY <2>1, <2>2
<1>3. CollectsOK(T, Append(B, b), Append(Q, q), Append(P, p))
  BY <1>1 DEF CollectsOK
<1> QED
  BY <1>1, <1>2, <1>3

LEMMA WithoutLast ==
    ASSUME NEW m \in Nat, NEW n \in Nat, NEW i \in (m + 1) .. (n + 1), i # n + 1
    PROVE  i \in (m + 1) .. n /\ i \in 1 .. n
  OBVIOUS

LEMMA PushCollect ==
    ASSUME NEW T, NEW a, NEW B, NEW Q, NEW P, NEW E, Ledger(T, a, B, Q, P, E),
           NEW b \in Stamped, NEW q \in Stamped, b.data = 0, q.data = 0,
           OnlyBy(T, q.txid, "DutchAuctionCollect")
    PROVE  Ledger(T, a, Append(B, b), Append(Q, q), P, E)
<1> USE DEF Ledger
<1>1. /\ Append(B, b) \in Seq(Stamped) /\ Append(Q, q) \in Seq(Stamped)
      /\ Len(Append(B, b)) = Len(Q) + 1 /\ Len(Append(Q, q)) = Len(Q) + 1
      /\ \A i \in 1 .. Len(Q) : Append(B, b)[i] = B[i] /\ Append(Q, q)[i] = Q[i]
      /\ Append(B, b)[Len(Q) + 1] = b /\ Append(Q, q)[Len(Q) + 1] = q
  <2>1. B \in Seq(Stamped) /\ Q \in Seq(Stamped) /\ Len(B) = Len(Q)
    OBVIOUS
  <2>2. \A S \in Seq(Stamped), x \in Stamped :
            /\ Append(S, x) \in Seq(Stamped) /\ Len(Append(S, x)) = Len(S) + 1
            /\ \A i \in 1 .. Len(S) : Append(S, x)[i] = S[i]
            /\ Append(S, x)[Len(S) + 1] = x
    OBVIOUS
  <2> QED BY <2>1, <2>2
<1>2. BidsOK(T, a, Append(B, b), Append(Q, q), P, E)
  <2> SUFFICES ASSUME NEW i \in 1 .. Len(P)
               PROVE  /\ Limits(a, Append(B, b)[i].data, Append(Q, q)[i].data, P[i].data, E[i].data)
                      /\ i > 1 => OnlyBy(T, Append(B, b)[i].txid, "DutchAuctionBid")
    BY DEF BidsOK
  <2>1. Append(B, b)[i] = B[i] /\ Append(Q, q)[i] = Q[i]
    BY <1>1
  <2> QED
    BY <2>1 DEF BidsOK
<1>3. CollectsOK(T, Append(B, b), Append(Q, q), P)
  <2> SUFFICES ASSUME NEW i \in (Len(P) + 1) .. (Len(Q) + 1)
               PROVE  /\ Append(B, b)[i].data = 0 /\ Append(Q, q)[i].data = 0
                      /\ OnlyBy(T, Append(Q, q)[i].txid, "DutchAuctionCollect")
    BY <1>1 DEF CollectsOK
  <2>1. CASE i = Len(Q) + 1
    BY <1>1, <2>1
  <2>2. CASE i # Len(Q) + 1
    <3>0. Len(P) \in Nat /\ Len(Q) \in Nat
      OBVIOUS
    <3>2. i \in (Len(P) + 1) .. Len(Q) /\ i \in 1 .. Len(Q)
      BY <2>2, <3>0, WithoutLast
    <3> QED
      BY <1>1, <3>2 DEF CollectsOK
  <2> QED
    BY <2>1, <2>2
<1> QED
  BY <1>1, <1>2, <1>3

\* What pop_stamped leaves.
LEMMA Popped ==
    ASSUME NEW S, NEW r \in Seq(S), CanPop(r)
    PROVE  /\ pop_stamped(r) \in Seq(S)
           /\ Len(pop_stamped(r)) = Len(r) - 1 /\ Len(r) \in Nat /\ Len(r) > 1
           /\ \A i \in 1 .. Len(r) - 1 : pop_stamped(r)[i] = r[i]
<1>1. Len(r) \in Nat /\ Len(r) > 1
  BY DEF CanPop
<1>2. pop_stamped(r) = SubSeq(r, 1, Len(r) - 1)
  BY DEF pop_stamped
<1>3. SubSeq(r, 1, Len(r) - 1) = [i \in 1 .. Len(r) - 1 |-> r[i]]
  BY <1>1
<1> DEFINE s == [i \in 1 .. Len(r) - 1 |-> r[i]]
<1>4. s \in Seq(S) /\ Len(s) = Len(r) - 1
  BY <1>1
<1> QED
  BY <1>1, <1>2, <1>3, <1>4

LEMMA PopBid ==
    ASSUME NEW T, NEW a, NEW B, NEW Q, NEW P, NEW E, Ledger(T, a, B, Q, P, E),
           NEW t \in T, t.data.kind = "DutchAuctionBid",
           PoppedBy(B, t.txid), PoppedBy(Q, t.txid), PoppedBy(P, t.txid), PoppedBy(E, t.txid)
    PROVE  Ledger(T, a, pop_stamped(B), pop_stamped(Q), pop_stamped(P), pop_stamped(E))
<1> USE DEF Ledger
<1>1. CanPop(B) /\ CanPop(Q) /\ CanPop(P) /\ CanPop(E)
  BY DEF PoppedBy
<1>2. Len(Q) \in Nat /\ Len(P) \in Nat
  OBVIOUS
<1>3. Len(Q) = Len(P)
  <2> SUFFICES ASSUME Len(Q) # Len(P) PROVE FALSE
    OBVIOUS
  <2>1. Len(Q) \in (Len(P) + 1) .. Len(Q)
    BY <1>2
  <2>2. OnlyBy(T, Q[Len(Q)].txid, "DutchAuctionCollect")
    BY <2>1 DEF CollectsOK
  <2>3. Q[Len(Q)].txid = t.txid
    BY DEF PoppedBy, latest_of
  <2> QED
    BY <2>2, <2>3 DEF OnlyBy
<1>4. /\ pop_stamped(B) \in Seq(Stamped) /\ Len(pop_stamped(B)) = Len(P) - 1
      /\ pop_stamped(Q) \in Seq(Stamped) /\ Len(pop_stamped(Q)) = Len(P) - 1
      /\ pop_stamped(P) \in Seq(Stamped) /\ Len(pop_stamped(P)) = Len(P) - 1
      /\ pop_stamped(E) \in Seq(Stamped) /\ Len(pop_stamped(E)) = Len(P) - 1
      /\ Len(P) > 1
      /\ \A i \in 1 .. Len(P) - 1 : pop_stamped(B)[i] = B[i] /\ pop_stamped(Q)[i] = Q[i]
      /\ \A i \in 1 .. Len(P) - 1 : pop_stamped(P)[i] = P[i] /\ pop_stamped(E)[i] = E[i]
  BY <1>1, <1>3, Popped
<1>5. BidsOK(T, a, pop_stamped(B), pop_stamped(Q), pop_stamped(P), pop_stamped(E))
  <2> SUFFICES ASSUME NEW i \in 1 .. Len(P) - 1
               PROVE  /\ Limits(a, pop_stamped(B)[i].data, pop_stamped(Q)[i].data,
                                pop_stamped(P)[i].data, pop_stamped(E)[i].data)
                      /\ i > 1 => OnlyBy(T, pop_stamped(B)[i].txid, "DutchAuctionBid")
    BY <1>4 DEF BidsOK
  <2>1. i \in 1 .. Len(P)
    BY <1>2
  <2> QED
    BY <1>4, <2>1 DEF BidsOK
<1>6. CollectsOK(T, pop_stamped(B), pop_stamped(Q), pop_stamped(P))
  BY <1>2, <1>4 DEF CollectsOK
<1> QED
  BY <1>2, <1>4, <1>5, <1>6

LEMMA PopCollect ==
    ASSUME NEW T, NEW a, NEW B, NEW Q, NEW P, NEW E, Ledger(T, a, B, Q, P, E),
           NEW t \in T, t.data.kind = "DutchAuctionCollect",
           PoppedBy(B, t.txid), PoppedBy(Q, t.txid)
    PROVE  Ledger(T, a, pop_stamped(B), pop_stamped(Q), P, E)
<1> USE DEF Ledger
<1>1. CanPop(B) /\ CanPop(Q)
  BY DEF PoppedBy
<1>2. Len(Q) \in Nat /\ Len(P) \in Nat /\ Len(Q) > 1
  BY <1>1 DEF CanPop
<1>3. Len(P) < Len(Q)
  <2> SUFFICES ASSUME ~(Len(P) < Len(Q)) PROVE FALSE
    OBVIOUS
  <2>1. Len(B) \in 1 .. Len(P) /\ Len(B) > 1
    BY <1>2
  <2>2. OnlyBy(T, B[Len(B)].txid, "DutchAuctionBid")
    BY <2>1 DEF BidsOK
  <2>3. B[Len(B)].txid = t.txid
    BY DEF PoppedBy, latest_of
  <2> QED
    BY <2>2, <2>3 DEF OnlyBy
<1>4. /\ pop_stamped(B) \in Seq(Stamped) /\ Len(pop_stamped(B)) = Len(Q) - 1
      /\ pop_stamped(Q) \in Seq(Stamped) /\ Len(pop_stamped(Q)) = Len(Q) - 1
      /\ \A i \in 1 .. Len(Q) - 1 : pop_stamped(B)[i] = B[i] /\ pop_stamped(Q)[i] = Q[i]
  BY <1>1, Popped
<1>5. BidsOK(T, a, pop_stamped(B), pop_stamped(Q), P, E)
  <2> SUFFICES ASSUME NEW i \in 1 .. Len(P)
               PROVE  /\ Limits(a, pop_stamped(B)[i].data, pop_stamped(Q)[i].data, P[i].data, E[i].data)
                      /\ i > 1 => OnlyBy(T, pop_stamped(B)[i].txid, "DutchAuctionBid")
    BY DEF BidsOK
  <2>1. i \in 1 .. Len(Q) - 1
    BY <1>2, <1>3
  <2>2. pop_stamped(B)[i] = B[i] /\ pop_stamped(Q)[i] = Q[i]
    BY <1>4, <2>1
  <2> QED
    BY <2>2 DEF BidsOK
<1>6. CollectsOK(T, pop_stamped(B), pop_stamped(Q), P)
  <2> SUFFICES ASSUME NEW i \in (Len(P) + 1) .. (Len(Q) - 1)
               PROVE  /\ pop_stamped(B)[i].data = 0 /\ pop_stamped(Q)[i].data = 0
                      /\ OnlyBy(T, pop_stamped(Q)[i].txid, "DutchAuctionCollect")
    BY <1>2, <1>4 DEF CollectsOK
  <2>1. i \in 1 .. Len(Q) - 1 /\ i \in (Len(P) + 1) .. Len(Q)
    BY <1>2, <1>3
  <2>2. pop_stamped(B)[i] = B[i] /\ pop_stamped(Q)[i] = Q[i]
    BY <1>4, <2>1
  <2> QED
    BY <2>1, <2>2 DEF CollectsOK
<1> QED
  BY <1>2, <1>3, <1>4, <1>5, <1>6

\* A share of x that is at most the whole.
LEMMA ShareOf ==
    ASSUME NEW x \in Nat, NEW y \in Nat, NEW z \in Nat, y <= z, 0 < z
    PROVE  (x * y) \div z \in Nat /\ (x * y) \div z <= x
<1>1. x * y \in Nat /\ x * z \in Nat /\ x * y <= x * z
  BY Z3
<1> DEFINE q == (x * y) \div z
<1>2. q \in Nat /\ q * z <= x * y
  BY <1>1, RoundedDown
<1> HIDE DEF q
<1>3. q <= x
  <2> SUFFICES ASSUME x + 1 <= q PROVE FALSE
    BY <1>2
  <2>1. (x + 1) * z <= q * z /\ (x + 1) * z \in Nat /\ q * z \in Nat
    BY <1>2, ProductMonotone
  <2>2. (x + 1) * z = x * z + z
    BY Z3
  <2> QED
    BY <1>1, <1>2, <2>1, <2>2
<1> QED
  BY <1>2, <1>3 DEF q

\* A bid of v at price p for its share of the base b: what it pays for is
\* rounded up, and so is the end price e for what remains.
LEMMA BidShare ==
    ASSUME NEW b \in Nat, NEW p \in Nat, NEW e \in Nat, NEW v \in Nat, 0 < b, 0 < p, e <= p,
           div_ceil(v * b, p) <= b
    PROVE  /\ div_ceil(v * b, p) \in Nat
           /\ v <= p
           /\ div_ceil(e * (b - div_ceil(v * b, p)), b) \in Nat
           /\ div_ceil(e * (b - div_ceil(v * b, p)), b) <= p - v
<1> DEFINE q == div_ceil(v * b, p)
<1>1. v * b \in Nat
  BY Z3
<1>2. q \in Nat /\ v * b <= q * p
  BY <1>1, RoundedUp
<1>3. q <= b
  OBVIOUS
<1> HIDE DEF q
<1>4. q * p <= b * p /\ q * p \in Nat /\ b * p \in Nat
  BY <1>2, <1>3, ProductMonotone
<1>5. v <= p
  <2> SUFFICES ASSUME p + 1 <= v PROVE FALSE
    OBVIOUS
  <2>1. (p + 1) * b <= v * b
    BY ProductMonotone
  <2>2. (p + 1) * b = b * p + b
    BY Z3
  <2> QED
    BY <1>1, <1>2, <1>4, <2>1, <2>2
<1> DEFINE n == b - q
<1>6. n \in Nat
  BY <1>2, <1>3
<1>7. e * n <= (p - v) * b
  <2>1. e * n <= p * n /\ e * n \in Nat /\ p * n \in Nat
    BY <1>6, ProductMonotone
  <2>2. p * n = b * p - q * p
    BY <1>2, Z3
  <2>3. (p - v) * b = b * p - v * b
    BY Z3
  <2> QED
    BY <1>1, <1>2, <1>4, <2>1, <2>2, <2>3
<1> HIDE DEF n
<1>8. e * n \in Nat /\ p - v \in Nat
  BY <1>5, <1>6, Z3
<1>9. div_ceil(e * n, b) \in Nat
  BY <1>8, RoundedUp
<1>10. div_ceil(e * n, b) <= p - v
  BY <1>7, <1>8, RoundedUpBound
<1> QED
  BY <1>2, <1>5, <1>9, <1>10 DEF n, q

\* The latest values of an auction.
LEMMA LatestValues ==
    ASSUME NEW T, NEW a, AuctionOK(T, a)
    PROVE  /\ bid_block(a) \in Nat /\ base_remaining(a) \in Nat /\ quote_received(a) \in Nat
           /\ price_after(a) \in Nat /\ end_price_after(a) \in Nat
           /\ end_price_after(a) <= price_after(a)
           /\ base_remaining(a) <= a.initial_base_amount
           /\ quote_received(a) <= a.initial_price
           /\ base_remaining(a) # 0 =>
                /\ Len(a.quote_amount) = Len(a.price_after_most_recent_bid)
                /\ Limits(a, base_remaining(a), quote_received(a), price_after(a), end_price_after(a))
<1> DEFINE B == a.base_amount_remaining
           Q == a.quote_amount
           P == a.price_after_most_recent_bid
           E == a.end_price_after_most_recent_bid
           M == a.most_recent_bid_block
<1>1. Ledger(T, a, B, Q, P, E) /\ M \in Seq(Stamped) /\ Len(M) = Len(P)
      /\ a.initial_base_amount \in Nat /\ a.initial_price \in Nat
  BY DEF AuctionOK
<1>2. /\ bid_block(a) = M[Len(M)].data /\ base_remaining(a) = B[Len(B)].data
      /\ quote_received(a) = Q[Len(Q)].data /\ price_after(a) = P[Len(P)].data
      /\ end_price_after(a) = E[Len(E)].data
  BY DEF bid_block, base_remaining, quote_received, price_after, end_price_after, latest_of
<1> HIDE DEF B, Q, P, E, M
<1>3. /\ B \in Seq(Stamped) /\ Q \in Seq(Stamped) /\ P \in Seq(Stamped) /\ E \in Seq(Stamped)
      /\ Len(B) = Len(Q) /\ Len(P) = Len(E) /\ 1 <= Len(P) /\ Len(P) <= Len(Q)
      /\ Len(P) \in Nat /\ Len(Q) \in Nat
  BY <1>1 DEF Ledger
<1>4. /\ M[Len(M)] \in Stamped /\ B[Len(B)] \in Stamped /\ Q[Len(Q)] \in Stamped
      /\ P[Len(P)] \in Stamped /\ E[Len(E)] \in Stamped
  BY <1>1, <1>3
<1>5. /\ bid_block(a) \in Nat /\ base_remaining(a) \in Nat /\ quote_received(a) \in Nat
      /\ price_after(a) \in Nat /\ end_price_after(a) \in Nat
  BY <1>2, <1>4 DEF Stamped
<1>6. Len(P) \in 1 .. Len(P)
  BY <1>3
<1>7. Limits(a, B[Len(P)].data, Q[Len(P)].data, P[Len(P)].data, E[Len(P)].data)
  BY <1>1, <1>6 DEF Ledger, BidsOK
<1>8. end_price_after(a) <= price_after(a)
  BY <1>2, <1>3, <1>7 DEF Limits
<1>9. CASE Len(Q) = Len(P)
  <2>1. Limits(a, base_remaining(a), quote_received(a), price_after(a), end_price_after(a))
    BY <1>2, <1>3, <1>7, <1>9
  <2>2. base_remaining(a) <= a.initial_base_amount /\ quote_received(a) <= a.initial_price
    BY <1>1, <1>5, <2>1 DEF Limits
  <2> QED
    BY <1>5, <1>8, <1>9, <2>1, <2>2 DEF Q, P
<1>10. CASE Len(Q) # Len(P)
  <2>1. Len(Q) \in (Len(P) + 1) .. Len(Q)
    BY <1>3, <1>10
  <2>2. B[Len(Q)].data = 0 /\ Q[Len(Q)].data = 0
    BY <1>1, <2>1 DEF Ledger, CollectsOK
  <2>3. base_remaining(a) = 0 /\ quote_received(a) = 0
    BY <1>2, <1>3, <2>2
  <2> QED
    BY <1>1, <1>5, <1>8, <2>3
<1> QED
  BY <1>9, <1>10

-----------------------------------------------------------------------------
\* A quotient below one.
LEMMA BelowDivisor ==
    ASSUME NEW l \in Nat, NEW r \in Nat, 0 < r, ~(l \div r >= 1)
    PROVE  l <= r
<1> DEFINE q == l \div r
           m == l % r
<1>1. q \in Nat /\ m \in 0 .. r - 1 /\ l = r * q + m
  BY Z3
<1>2. q = 0
  BY <1>1
<1> HIDE DEF q, m
<1>3. r * q = 0
  BY <1>2, Z3
<1> QED
  BY <1>1, <1>3

\* The price falls from the one after the most recent bid, never below the end
\* price.
LEMMA PriceBetween ==
    ASSUME NEW T, NEW a, AuctionOK(T, a), NEW height \in Int, NEW v,
           ~bid_panics(a, v, height), ~bid_not_open(a, height)
    PROVE  /\ price(a, height) \in Nat /\ height \in Nat
           /\ end_price_after(a) <= price(a, height) /\ price(a, height) <= price_after(a)
<1>1. /\ bid_block(a) \in Nat /\ price_after(a) \in Nat /\ end_price_after(a) \in Nat
      /\ end_price_after(a) <= price_after(a)
  BY LatestValues
<1>2. a.start_block \in Nat /\ a.duration \in Nat
  BY DEF AuctionOK
<1>3. height >= a.start_block
  BY <1>2 DEF bid_not_open
<1>4. height \in Nat /\ bid_block(a) <= height
  BY <1>1, <1>2, <1>3 DEF bid_panics
<1> DEFINE r == remaining_duration(a)
           l == elapsed_blocks(a, height)
           d == price_after(a) - end_price_after(a)
<1>5. r \in Int /\ l \in Nat /\ d \in Nat
  BY <1>1, <1>2, <1>4, U32Assumption DEF remaining_duration, elapsed_blocks, end_block, IntMin
<1>6. CASE r = 0
  BY <1>1, <1>4, <1>6 DEF price
<1>7. CASE r # 0
  <2>1. ~(r < 0) /\ ~(l \div r >= 1)
    BY <1>3, <1>7 DEF bid_panics
  <2>2. r \in Nat /\ 0 < r
    BY <1>5, <1>7, <2>1
  <2> HIDE DEF r, l, d
  <2>3. l <= r
    BY <1>5, <2>1, <2>2, BelowDivisor
  <2>4. (d * l) \div r \in Nat /\ (d * l) \div r <= d
    BY <1>5, <2>2, <2>3, ShareOf
  <2>5. price(a, height) = price_after(a) - (d * l) \div r
    BY <1>7 DEF price, price_decrease, r, l, d
  <2>6. price_after(a) - d = end_price_after(a)
    BY <1>1 DEF d
  <2> QED
    BY <1>1, <1>4, <1>5, <2>4, <2>5, <2>6
<1> QED
  BY <1>6, <1>7

\* A stamp of a number.
LEMMA StampTyped ==
    ASSUME NEW v \in Nat, NEW txid \in STRING, NEW height \in Int
    PROVE  /\ stamp(v, txid, height) \in Stamped
           /\ stamp(v, txid, height).data = v /\ stamp(v, txid, height).txid = txid
  BY DEF stamp, Stamped

LEMMA CreateKeeps ==
    ASSUME NEW T, NEW params, NEW txid \in STRING, NEW height \in Int,
           params.start_block \in Nat, params.duration \in Nat, params.base_amount \in Nat,
           params.initial_price \in Nat, params.final_price \in Nat,
           ~create_refused(params, height)
    PROVE  AuctionOK(T, create(params, txid, height))
<1> DEFINE a == create(params, txid, height)
           h(v) == <<stamp(v, txid, height)>>
<1>1. /\ DOMAIN a = AuctionFields
      /\ a.start_block \in Nat /\ a.duration \in Nat
      /\ a.initial_base_amount = params.base_amount /\ a.initial_price = params.initial_price
      /\ a.most_recent_bid_block = h(params.start_block)
      /\ a.base_amount_remaining = h(params.base_amount)
      /\ a.quote_amount = h(0)
      /\ a.price_after_most_recent_bid = h(params.initial_price)
      /\ a.end_price_after_most_recent_bid = h(params.final_price)
  BY DEF create, AuctionFields, new_history
<1>2. \A v \in Nat : h(v) \in Seq(Stamped) /\ Len(h(v)) = 1 /\ h(v)[1].data = v
  BY StampTyped
<1>3. params.final_price <= params.initial_price
  BY DEF create_refused
<1>4. Ledger(T, a, h(params.base_amount), h(0), h(params.initial_price), h(params.final_price))
  <2> HIDE DEF a, h
  <2>1. BidsOK(T, a, h(params.base_amount), h(0), h(params.initial_price), h(params.final_price))
    BY <1>1, <1>2, <1>3 DEF BidsOK, Limits
  <2>2. CollectsOK(T, h(params.base_amount), h(0), h(params.initial_price))
    BY <1>2 DEF CollectsOK
  <2> QED
    BY <1>2, <2>1, <2>2 DEF Ledger
<1>5. Len(h(params.start_block)) = Len(h(params.initial_price))
  BY <1>2
<1> HIDE DEF a, h
<1> QED
  BY <1>1, <1>2, <1>4, <1>5 DEF AuctionOK, a

LEMMA BidKeeps ==
    ASSUME NEW T, NEW a, AuctionOK(T, a), NEW txid \in STRING, NEW v \in Nat, NEW height \in Int,
           OnlyBy(T, txid, "DutchAuctionBid"),
           ~bid_panics(a, v, height), ~bid_refused(a, v, height)
    PROVE  AuctionOK(T, bid(a, txid, v, height))
<1> DEFINE B == a.base_amount_remaining
           Q == a.quote_amount
           P == a.price_after_most_recent_bid
           E == a.end_price_after_most_recent_bid
           M == a.most_recent_bid_block
           c == bid(a, txid, v, height)
           new_base == base_remaining(a) - order_quantity(a, v, height)
           st(x) == stamp(x, txid, height)
<1>1. ~bid_not_open(a, height) /\ price(a, height) # 0
      /\ order_quantity(a, v, height) <= base_remaining(a)
  <2>1. order_quantity(a, v, height) \in Int /\ base_remaining(a) \in Nat /\ price(a, height) \in Nat
    <3>1. ~bid_not_open(a, height) /\ price(a, height) # 0
      BY DEF bid_refused
    <3>2. price(a, height) \in Nat /\ base_remaining(a) \in Nat
      BY <3>1, PriceBetween, LatestValues
    <3>3. v * base_remaining(a) \in Nat
      BY <3>2, Z3
    <3>4. div_ceil(v * base_remaining(a), price(a, height)) \in Nat
      BY <3>1, <3>2, <3>3, RoundedUp
    <3> QED
      BY <3>2, <3>4 DEF order_quantity
  <2> QED
    BY <2>1 DEF bid_refused
<1>2. /\ price(a, height) \in Nat /\ height \in Nat
      /\ end_price_after(a) <= price(a, height) /\ price(a, height) <= price_after(a)
  BY <1>1, PriceBetween
<1>3. /\ base_remaining(a) \in Nat /\ base_remaining(a) # 0 /\ quote_received(a) \in Nat
      /\ price_after(a) \in Nat /\ end_price_after(a) \in Nat
      /\ Len(Q) = Len(P)
      /\ Limits(a, base_remaining(a), quote_received(a), price_after(a), end_price_after(a))
  BY <1>1, LatestValues DEF bid_not_open
<1>4. /\ order_quantity(a, v, height) \in Nat
      /\ v <= price(a, height)
      /\ end_price_next(a, new_base) \in Nat
      /\ end_price_next(a, new_base) <= price(a, height) - v
  BY <1>1, <1>2, <1>3, BidShare DEF order_quantity, end_price_next
<1>5. /\ DOMAIN a = AuctionFields
      /\ a.start_block \in Nat /\ a.duration \in Nat
      /\ a.initial_base_amount \in Nat /\ a.initial_price \in Nat
      /\ M \in Seq(Stamped) /\ Len(M) = Len(P)
      /\ Ledger(T, a, B, Q, P, E)
  BY DEF AuctionOK
<1>6. /\ DOMAIN c = AuctionFields
      /\ c.start_block = a.start_block /\ c.duration = a.duration
      /\ c.initial_base_amount = a.initial_base_amount /\ c.initial_price = a.initial_price
      /\ c.most_recent_bid_block = Append(M, st(height))
      /\ c.base_amount_remaining = Append(B, st(new_base))
      /\ c.quote_amount = Append(Q, st(quote_received(a) + v))
      /\ c.price_after_most_recent_bid = Append(P, st(price(a, height) - v))
      /\ c.end_price_after_most_recent_bid = Append(E, st(end_price_next(a, new_base)))
  BY <1>5 DEF bid, push_stamped, AuctionFields
<1>7. /\ new_base \in Nat /\ new_base <= base_remaining(a)
      /\ quote_received(a) + v \in Nat /\ price(a, height) - v \in Nat
  <2>1. \A x, y \in Nat : y <= x => x - y \in Nat /\ x - y <= x
    OBVIOUS
  <2>2. \A x, y \in Nat : x + y \in Nat
    OBVIOUS
  <2>3. new_base \in Nat /\ new_base <= base_remaining(a)
    BY <1>1, <1>3, <1>4, <2>1
  <2>4. price(a, height) - v \in Nat
    BY <1>2, <1>4, <2>1
  <2> QED
    BY <1>3, <2>2, <2>3, <2>4
<1>8. Limits(a, new_base, quote_received(a) + v, price(a, height) - v, end_price_next(a, new_base))
  <2>1. /\ base_remaining(a) <= a.initial_base_amount
        /\ price_after(a) + quote_received(a) <= a.initial_price
    BY <1>3 DEF Limits
  <2>2. new_base <= a.initial_base_amount
    BY <1>3, <1>5, <1>7, <2>1
  <2>3. (price(a, height) - v) + (quote_received(a) + v) <= a.initial_price
    BY <1>2, <1>3, <1>5, <2>1
  <2> QED
    BY <1>4, <2>2, <2>3 DEF Limits
<1> HIDE DEF new_base, c, B, Q, P, E, M
<1>9. \A x \in Nat : st(x) \in Stamped /\ st(x).data = x /\ st(x).txid = txid
  BY StampTyped
<1>10. /\ st(height) \in Stamped /\ st(new_base) \in Stamped /\ st(quote_received(a) + v) \in Stamped
       /\ st(price(a, height) - v) \in Stamped /\ st(end_price_next(a, new_base)) \in Stamped
       /\ Limits(a, st(new_base).data, st(quote_received(a) + v).data,
                 st(price(a, height) - v).data, st(end_price_next(a, new_base)).data)
       /\ OnlyBy(T, st(new_base).txid, "DutchAuctionBid")
  BY <1>2, <1>4, <1>7, <1>8, <1>9
<1> HIDE DEF st
<1>11. Ledger(T, a, Append(B, st(new_base)), Append(Q, st(quote_received(a) + v)),
              Append(P, st(price(a, height) - v)), Append(E, st(end_price_next(a, new_base))))
  BY <1>3, <1>5, <1>10, PushBid
<1>12. Ledger(T, c, Append(B, st(new_base)), Append(Q, st(quote_received(a) + v)),
              Append(P, st(price(a, height) - v)), Append(E, st(end_price_next(a, new_base))))
  BY <1>6, <1>11 DEF Ledger, BidsOK, Limits
<1>13. /\ Append(M, st(height)) \in Seq(Stamped)
       /\ Len(Append(M, st(height))) = Len(Append(P, st(price(a, height) - v)))
  BY <1>5, <1>10 DEF Ledger
<1> QED
  BY <1>5, <1>6, <1>12, <1>13 DEF AuctionOK, c

LEMMA CollectKeeps ==
    ASSUME NEW T, NEW a, AuctionOK(T, a), NEW txid \in STRING, NEW height \in Int,
           OnlyBy(T, txid, "DutchAuctionCollect")
    PROVE  AuctionOK(T, collect(a, txid, height))
<1> DEFINE B == a.base_amount_remaining
           Q == a.quote_amount
           P == a.price_after_most_recent_bid
           E == a.end_price_after_most_recent_bid
           c == collect(a, txid, height)
           z == stamp(0, txid, height)
<1>1. /\ DOMAIN a = AuctionFields
      /\ a.start_block \in Nat /\ a.duration \in Nat
      /\ a.initial_base_amount \in Nat /\ a.initial_price \in Nat
      /\ a.most_recent_bid_block \in Seq(Stamped) /\ Len(a.most_recent_bid_block) = Len(P)
      /\ Ledger(T, a, B, Q, P, E)
  BY DEF AuctionOK
<1>2. /\ DOMAIN c = AuctionFields
      /\ c.start_block = a.start_block /\ c.duration = a.duration
      /\ c.initial_base_amount = a.initial_base_amount /\ c.initial_price = a.initial_price
      /\ c.most_recent_bid_block = a.most_recent_bid_block
      /\ c.base_amount_remaining = Append(B, z) /\ c.quote_amount = Append(Q, z)
      /\ c.price_after_most_recent_bid = P /\ c.end_price_after_most_recent_bid = E
  BY <1>1 DEF collect, push_stamped, AuctionFields
<1>3. z \in Stamped /\ z.data = 0 /\ z.txid = txid
  BY StampTyped
<1> HIDE DEF B, Q, P, E, c, z
<1>4. Ledger(T, a, Append(B, z), Append(Q, z), P, E)
  BY <1>1, <1>3, PushCollect
<1>5. Ledger(T, c, Append(B, z), Append(Q, z), P, E)
  BY <1>2, <1>4 DEF Ledger, BidsOK, Limits
<1> QED
  BY <1>1, <1>2, <1>5 DEF AuctionOK, c

LEMMA RevertBidKeeps ==
    ASSUME NEW T, NEW a, AuctionOK(T, a), NEW t \in T, t.data.kind = "DutchAuctionBid",
           ~revert_bid_panics(a, t.txid)
    PROVE  AuctionOK(T, revert_bid(a))
<1> DEFINE B == a.base_amount_remaining
           Q == a.quote_amount
           P == a.price_after_most_recent_bid
           E == a.end_price_after_most_recent_bid
           M == a.most_recent_bid_block
           c == revert_bid(a)
<1>1. /\ DOMAIN a = AuctionFields
      /\ a.start_block \in Nat /\ a.duration \in Nat
      /\ a.initial_base_amount \in Nat /\ a.initial_price \in Nat
      /\ M \in Seq(Stamped) /\ Len(M) = Len(P)
      /\ Ledger(T, a, B, Q, P, E)
  BY DEF AuctionOK
<1>2. /\ DOMAIN c = AuctionFields
      /\ c.start_block = a.start_block /\ c.duration = a.duration
      /\ c.initial_base_amount = a.initial_base_amount /\ c.initial_price = a.initial_price
      /\ c.most_recent_bid_block = pop_stamped(M)
      /\ c.base_amount_remaining = pop_stamped(B) /\ c.quote_amount = pop_stamped(Q)
      /\ c.price_after_most_recent_bid = pop_stamped(P)
      /\ c.end_price_after_most_recent_bid = pop_stamped(E)
  BY <1>1 DEF revert_bid, AuctionFields
<1>3. /\ PoppedBy(M, t.txid) /\ PoppedBy(B, t.txid) /\ PoppedBy(Q, t.txid)
      /\ PoppedBy(P, t.txid) /\ PoppedBy(E, t.txid)
  BY DEF revert_bid_panics
<1> HIDE DEF B, Q, P, E, M, c
<1>4. Ledger(T, a, pop_stamped(B), pop_stamped(Q), pop_stamped(P), pop_stamped(E))
  BY <1>1, <1>3, PopBid
<1>5. Ledger(T, c, pop_stamped(B), pop_stamped(Q), pop_stamped(P), pop_stamped(E))
  BY <1>2, <1>4 DEF Ledger, BidsOK, Limits
<1>6. pop_stamped(M) \in Seq(Stamped) /\ Len(pop_stamped(M)) = Len(pop_stamped(P))
  <2>1. CanPop(M) /\ CanPop(P) /\ P \in Seq(Stamped)
    BY <1>1, <1>3 DEF PoppedBy, Ledger
  <2> QED
    BY <1>1, <2>1, Popped
<1> QED
  BY <1>1, <1>2, <1>5, <1>6 DEF AuctionOK, c

LEMMA RevertCollectKeeps ==
    ASSUME NEW T, NEW a, AuctionOK(T, a), NEW t \in T, t.data.kind = "DutchAuctionCollect",
           NEW data, ~revert_collect_panics(a, data, t.txid)
    PROVE  AuctionOK(T, revert_collect(a))
<1> DEFINE B == a.base_amount_remaining
           Q == a.quote_amount
           P == a.price_after_most_recent_bid
           E == a.end_price_after_most_recent_bid
           c == revert_collect(a)
<1>1. /\ DOMAIN a = AuctionFields
      /\ a.start_block \in Nat /\ a.duration \in Nat
      /\ a.initial_base_amount \in Nat /\ a.initial_price \in Nat
      /\ a.most_recent_bid_block \in Seq(Stamped) /\ Len(a.most_recent_bid_block) = Len(P)
      /\ Ledger(T, a, B, Q, P, E)
  BY DEF AuctionOK
<1>2. /\ DOMAIN c = AuctionFields
      /\ c.start_block = a.start_block /\ c.duration = a.duration
      /\ c.initial_base_amount = a.initial_base_amount /\ c.initial_price = a.initial_price
      /\ c.most_recent_bid_block = a.most_recent_bid_block
      /\ c.base_amount_remaining = pop_stamped(B) /\ c.quote_amount = pop_stamped(Q)
      /\ c.price_after_most_recent_bid = P /\ c.end_price_after_most_recent_bid = E
  BY <1>1 DEF revert_collect, AuctionFields
<1>3. PoppedBy(B, t.txid) /\ PoppedBy(Q, t.txid)
  BY DEF revert_collect_panics
<1> HIDE DEF B, Q, P, E, c
<1>4. Ledger(T, a, pop_stamped(B), pop_stamped(Q), P, E)
  BY <1>1, <1>3, PopCollect
<1>5. Ledger(T, c, pop_stamped(B), pop_stamped(Q), P, E)
  BY <1>2, <1>4 DEF Ledger, BidsOK, Limits
<1> QED
  BY <1>1, <1>2, <1>5 DEF AuctionOK, c

-----------------------------------------------------------------------------
(***************************************************************************)
(* What one transaction does to the pools and the auctions.                *)
(***************************************************************************)
DbFields ==
    {"utxos", "stxos", "amm_pools", "dutch_auctions", "reservations", "bitassets",
     "seq_to_bitasset", "bitasset_to_seq", "tip", "height"}

PoolsOK(pools) == \A pair \in DOMAIN pools : pools[pair] \in PoolState

AuctionsOK(T, auctions) == \A id \in DOMAIN auctions : AuctionOK(T, auctions[id])

\* The invariant of a database whose blocks hold transactions of T.
DbInv(T, d) ==
    /\ DOMAIN d = DbFields
    /\ d.height \in Int
    /\ PoolsOK(d.amm_pools)
    /\ AuctionsOK(T, d.dutch_auctions)

\* f is a transaction of T, filled.
FilledOf(T, f) ==
    \E t \in T : /\ TransactionOK(t)
                 /\ \A u \in T : u.txid = t.txid => u = t
                 /\ f.data = t.data /\ f.txid = t.txid

\* Each unit of LP token is worth at least as much of the product of the
\* reserves.
Worth(p, q) ==
    p.outstanding_lp_tokens > 0 /\ q.outstanding_lp_tokens > 0 =>
        q.reserve0 * q.reserve1 * p.outstanding_lp_tokens * p.outstanding_lp_tokens
        >= p.reserve0 * p.reserve1 * q.outstanding_lp_tokens * q.outstanding_lp_tokens

\* What a transaction of this kind may do to a pool.
PoolMoved(kind, p, q) ==
    /\ Worth(p, q)
    /\ kind # "AmmMint" /\ p.outstanding_lp_tokens = 0 => q.outstanding_lp_tokens = 0
    /\ kind # "AmmBurn" /\ p.outstanding_lp_tokens > 0 => q.outstanding_lp_tokens > 0

PoolsMoved(kind, P, Q) ==
    /\ DOMAIN P \subseteq DOMAIN Q
    /\ \A pair \in DOMAIN P : PoolMoved(kind, P[pair], Q[pair])

LEMMA WorthSelf ==
    ASSUME NEW p \in PoolState, NEW kind
    PROVE  PoolMoved(kind, p, p)
<1>1. p.reserve0 \in Nat /\ p.reserve1 \in Nat /\ p.outstanding_lp_tokens \in Nat
  BY DEF PoolState, Amount
<1>2. \A x, y, z \in Nat : x * y * z * z \in Int
  BY Z3
<1> QED
  BY <1>1, <1>2 DEF PoolMoved, Worth

LEMMA WorthOfShares ==
    ASSUME NEW a \in Nat, NEW b \in Nat, NEW l \in Nat, NEW c \in Nat, NEW d \in Nat, NEW m \in Nat,
           a * m <= c * l, b * m <= d * l
    PROVE  a * b * m * m <= c * d * l * l
<1>1. a * m \in Nat /\ c * l \in Nat /\ b * m \in Nat /\ d * l \in Nat
  BY Z3
<1> DEFINE x == a * m
           y == c * l
           u == b * m
           v == d * l
<1> HIDE DEF x, y, u, v
<1>2. x * u <= y * u /\ x * u \in Nat /\ y * u \in Nat
  BY <1>1, ProductMonotone DEF x, y, u, v
<1>3. u * y <= v * y /\ u * y \in Nat /\ v * y \in Nat
  BY <1>1, ProductMonotone DEF x, y, u, v
<1>4. y * u = u * y
  BY <1>1, Z3 DEF x, y, u, v
<1>5. x * u = a * b * m * m /\ v * y = c * d * l * l
  BY <1>1, Z3 DEF x, y, u, v
<1> QED
  BY <1>2, <1>3, <1>4, <1>5

\* Of three pools: what holds from the first to the second and from the second
\* to the third holds from the first to the third.
LEMMA WorthChain ==
    ASSUME NEW a \in Nat, NEW b \in Nat, NEW c \in Nat, NEW l \in Nat, NEW m \in Nat, NEW n \in Nat,
           0 < m, b * l * l >= a * m * m, c * m * m >= b * n * n
    PROVE  c * l * l >= a * n * n
<1> DEFINE L == l * l
           M == m * m
           N == n * n
<1>1. L \in Nat /\ M \in Nat /\ N \in Nat /\ 0 < M
  BY Z3
<1>2. b * L >= a * M /\ c * M >= b * N
  <2>1. b * l * l = b * (l * l) /\ a * m * m = a * (m * m)
    BY Z3
  <2>2. c * m * m = c * (m * m) /\ b * n * n = b * (n * n)
    BY Z3
  <2> QED
    BY <2>1, <2>2
<1> HIDE DEF L, M, N
<1>3. b * L \in Nat /\ a * M \in Nat /\ c * M \in Nat /\ b * N \in Nat
  BY <1>1, Z3
<1> DEFINE x == a * M
           y == b * L
           u == b * N
           v == c * M
<1> HIDE DEF x, y, u, v
<1>4. x * N <= y * N /\ u * L <= v * L
  BY <1>1, <1>2, <1>3, ProductMonotone DEF x, y, u, v
<1>5. y * N = u * L /\ x * N \in Nat /\ y * N \in Nat /\ v * L \in Nat
  BY <1>1, Z3 DEF x, y, u, v
<1>6. x * N <= v * L
  BY <1>4, <1>5
<1>7. x * N = (a * N) * M /\ v * L = (c * L) * M /\ a * N \in Nat /\ c * L \in Nat
  BY <1>1, Z3 DEF x, v
<1> DEFINE p == a * N
           q == c * L
<1> HIDE DEF p, q
<1>8. p \in Nat /\ q \in Nat /\ p * M <= q * M
  BY <1>6, <1>7 DEF p, q
<1>9. p <= q
  <2> SUFFICES ASSUME q + 1 <= p PROVE FALSE
    BY <1>8
  <2>1. (q + 1) * M <= p * M /\ (q + 1) * M \in Nat /\ p * M \in Nat
    BY <1>1, <1>8, ProductMonotone
  <2>2. (q + 1) * M = q * M + M /\ q * M \in Nat
    BY <1>1, <1>8, Z3
  <2> QED
    BY <1>1, <1>8, <2>1, <2>2
<1>10. c * l * l = c * (l * l) /\ a * n * n = a * (n * n)
  BY Z3
<1> QED
  BY <1>9, <1>10 DEF p, q, L, N

\* The integer square root exists.
LEMMA SqrtNat ==
    ASSUME NEW n \in Nat
    PROVE  sqrt(n) \in Nat
<1> DEFINE S == {r \in Nat : (r + 1) * (r + 1) > n}
<1>1. n \in S
  <2>1. (n + 1) * (n + 1) = n * n + n + n + 1 /\ n * n \in Nat
    BY Z3
  <2> QED
    BY <2>1
<1>2. PICK r \in S : \A k \in S : r <= k
  BY <1>1, LeastNatural
<1>3. r \in 0 .. n
  BY <1>1, <1>2
<1>4. r * r <= n
  <2>1. CASE r = 0
    BY <2>1
  <2>2. CASE r # 0
    <3>1. r - 1 \in Nat /\ ~(r <= r - 1)
      BY <1>3, <2>2
    <3>2. r - 1 \notin S
      BY <1>2, <3>1
    <3>3. (r - 1) + 1 = r
      BY <1>3
    <3>4. r * r \in Nat
      BY <1>3, Z3
    <3> QED
      BY <3>1, <3>2, <3>3, <3>4
  <2> QED
    BY <2>1, <2>2
<1>5. \E x \in 0 .. n : x * x <= n /\ (x + 1) * (x + 1) > n
  BY <1>2, <1>3, <1>4
<1>6. sqrt(n) \in 0 .. n
  BY <1>5 DEF sqrt
<1> QED
  BY <1>6

LEMMA MintedNat ==
    ASSUME NEW p \in PoolState, NEW amount0 \in Amount, NEW amount1 \in Amount
    PROVE  lp_tokens_minted(p, amount0, amount1) \in Nat
<1>1. /\ p.reserve0 \in Nat /\ p.reserve1 \in Nat /\ p.outstanding_lp_tokens \in Nat
      /\ amount0 \in Nat /\ amount1 \in Nat
  BY U64Assumption DEF PoolState, Amount
<1>2. CASE is_empty(p)
  <2>1. (p.reserve0 + amount0) * (p.reserve1 + amount1) \in Nat
    BY <1>1, Z3
  <2> QED
    BY <1>2, <2>1, SqrtNat DEF lp_tokens_minted
<1>3. CASE ~is_empty(p)
  <2>1. p.outstanding_lp_tokens * amount0 \in Nat /\ p.outstanding_lp_tokens * amount1 \in Nat
    BY <1>1, Z3
  <2>2. 0 < p.reserve0 /\ 0 < p.reserve1
    BY <1>1, <1>3 DEF is_empty
  <2>3. /\ (p.outstanding_lp_tokens * amount0) \div p.reserve0 \in Nat
        /\ (p.outstanding_lp_tokens * amount1) \div p.reserve1 \in Nat
    BY <1>1, <2>1, <2>2, RoundedDown
  <2> QED
    BY <1>3, <2>3 DEF lp_tokens_minted, IntMin
<1> QED
  BY <1>2, <1>3

LEMMA MintMoves ==
    ASSUME NEW p \in PoolState, NEW amount0 \in Amount, NEW amount1 \in Amount,
           ~mint_refused(p, amount0, amount1)
    PROVE  /\ mint(p, amount0, amount1) \in PoolState
           /\ PoolMoved("AmmMint", p, mint(p, amount0, amount1))
<1> DEFINE q == mint(p, amount0, amount1)
           m == lp_tokens_minted(p, amount0, amount1)
<1>1. /\ p.reserve0 \in Nat /\ p.reserve1 \in Nat /\ p.outstanding_lp_tokens \in Nat
      /\ amount0 \in Nat /\ amount1 \in Nat /\ m \in Nat
  BY MintedNat, U64Assumption DEF PoolState, Amount
<1>2. /\ q.reserve0 = p.reserve0 + amount0 /\ q.reserve1 = p.reserve1 + amount1
      /\ q.outstanding_lp_tokens = p.outstanding_lp_tokens + m
  BY DEF mint, PoolState
<1>3. q \in PoolState
  <2>1. /\ p.reserve0 + amount0 \in Amount /\ p.reserve1 + amount1 \in Amount
        /\ p.outstanding_lp_tokens + m \in Amount
    BY <1>1, U64Assumption DEF mint_refused, Amount
  <2> QED
    BY <2>1 DEF mint, PoolState
<1>4. Worth(p, q)
  <2>1. CASE is_empty(p)
    <3> SUFFICES ASSUME p.outstanding_lp_tokens > 0
                 PROVE  q.reserve0 * q.reserve1 * p.outstanding_lp_tokens * p.outstanding_lp_tokens
                        >= p.reserve0 * p.reserve1 * q.outstanding_lp_tokens * q.outstanding_lp_tokens
      BY DEF Worth
    <3>1. p.reserve0 = 0 \/ p.reserve1 = 0
      BY <1>1, <2>1 DEF is_empty
    <3>2. \A x, y, z \in Nat : x * y * z * z \in Nat
      BY Z3
    <3>3. \A y, z \in Nat : 0 * y * z * z = 0 /\ y * 0 * z * z = 0
      BY Z3
    <3>4. q.reserve0 \in Nat /\ q.reserve1 \in Nat /\ q.outstanding_lp_tokens \in Nat
      BY <1>1, <1>2
    <3>5. p.reserve0 * p.reserve1 * q.outstanding_lp_tokens * q.outstanding_lp_tokens = 0
      BY <1>1, <3>1, <3>3, <3>4
    <3>6. q.reserve0 * q.reserve1 * p.outstanding_lp_tokens * p.outstanding_lp_tokens \in Nat
      BY <1>1, <3>2, <3>4
    <3> QED
      BY <3>5, <3>6
  <2>2. CASE ~is_empty(p)
    <3>1. ShareKept(p, q)
      BY <2>2, MintKeepsShares
    <3> HIDE DEF q
    <3>2. q.reserve0 \in Nat /\ q.reserve1 \in Nat /\ q.outstanding_lp_tokens \in Nat
      BY <1>3 DEF PoolState, Amount
    <3> QED
      BY <1>1, <3>1, <3>2, WorthOfShares DEF ShareKept, Worth
  <2> QED
    BY <2>1, <2>2
<1> QED
  BY <1>1, <1>2, <1>3, <1>4 DEF PoolMoved

LEMMA BurnMoves ==
    ASSUME NEW p \in PoolState, NEW lp \in Amount, ~burn_refused(p, lp)
    PROVE  burn(p, lp) \in PoolState /\ PoolMoved("AmmBurn", p, burn(p, lp))
<1> DEFINE q == burn(p, lp)
<1>1. /\ p.reserve0 \in Nat /\ p.reserve1 \in Nat /\ p.outstanding_lp_tokens \in Nat
      /\ lp \in Nat
  BY U64Assumption DEF PoolState, Amount
<1>2. 0 < p.outstanding_lp_tokens /\ lp <= p.outstanding_lp_tokens
  BY <1>1 DEF burn_refused
<1>3. /\ payout(p, p.reserve0, lp) \in Nat /\ payout(p, p.reserve0, lp) <= p.reserve0
      /\ payout(p, p.reserve1, lp) \in Nat /\ payout(p, p.reserve1, lp) <= p.reserve1
  BY <1>1, <1>2, ShareOf DEF payout
<1>4. q \in PoolState
  <2>1. /\ p.reserve0 - payout(p, p.reserve0, lp) \in Amount
        /\ p.reserve1 - payout(p, p.reserve1, lp) \in Amount
        /\ p.outstanding_lp_tokens - lp \in Amount
    BY <1>1, <1>2, <1>3, U64Assumption DEF PoolState, Amount
  <2> QED
    BY <2>1 DEF burn, PoolState
<1>5. ShareKept(p, q)
  BY BurnKeepsShares
<1> HIDE DEF q
<1>6. q.reserve0 \in Nat /\ q.reserve1 \in Nat /\ q.outstanding_lp_tokens \in Nat
  BY <1>4 DEF PoolState, Amount
<1>7. Worth(p, q)
  BY <1>1, <1>5, <1>6, WorthOfShares DEF ShareKept, Worth
<1> QED
  BY <1>2, <1>4, <1>7 DEF PoolMoved, q

LEMMA SwapMoves ==
    ASSUME NEW p \in PoolState, NEW forward \in BOOLEAN, NEW v \in Amount,
           ~swap_panics(IF forward THEN p.reserve0 ELSE p.reserve1, v),
           ~swap_refused(IF forward THEN p.reserve0 ELSE p.reserve1,
                         IF forward THEN p.reserve1 ELSE p.reserve0, v)
    PROVE  reswapped(p, forward, v) \in PoolState /\ PoolMoved("AmmSwap", p, reswapped(p, forward, v))
<1> DEFINE q == reswapped(p, forward, v)
<1>1. /\ p.reserve0 \in Nat /\ p.reserve1 \in Nat /\ p.outstanding_lp_tokens \in Nat /\ v \in Nat
      /\ p.reserve0 <= U64 /\ p.reserve1 <= U64
  BY U64Assumption DEF PoolState, Amount
<1>2. /\ q.outstanding_lp_tokens = p.outstanding_lp_tokens
      /\ q \in PoolState /\ Product(p) <= Product(q)
  <2>1. CASE forward
    <3>1. ~swap_panics(p.reserve0, v) /\ ~swap_refused(p.reserve0, p.reserve1, v)
      BY <2>1
    <3>2. q = swap_asset0_for_asset1(p, v)
      BY <2>1 DEF reswapped
    <3>3. Product(p) <= Product(q) /\ p.reserve0 + v <= U64
      BY <1>1, <3>1, <3>2, SwapKeepsProduct, U64Assumption
    <3>4. /\ p.reserve1 - amount_receive_after_fee(p.reserve0, p.reserve1, v) \in Nat
          /\ amount_receive_after_fee(p.reserve0, p.reserve1, v) \in Nat
      BY <1>1, <3>1, SwapSides
    <3>5. /\ p.reserve0 + v \in Amount
          /\ p.reserve1 - amount_receive_after_fee(p.reserve0, p.reserve1, v) \in Amount
      BY <1>1, <3>3, <3>4, U64Assumption DEF Amount
    <3> QED
      BY <3>2, <3>3, <3>5 DEF swap_asset0_for_asset1, PoolState
  <2>2. CASE ~forward
    <3>1. ~swap_panics(p.reserve1, v) /\ ~swap_refused(p.reserve1, p.reserve0, v)
      BY <2>2
    <3>2. q = swap_asset1_for_asset0(p, v)
      BY <2>2 DEF reswapped
    <3>3. Product(p) <= Product(q) /\ p.reserve1 + v <= U64
      BY <1>1, <3>1, <3>2, SwapKeepsProduct, U64Assumption
    <3>4. /\ p.reserve0 - amount_receive_after_fee(p.reserve1, p.reserve0, v) \in Nat
          /\ amount_receive_after_fee(p.reserve1, p.reserve0, v) \in Nat
      BY <1>1, <3>1, SwapSides
    <3>5. /\ p.reserve1 + v \in Amount
          /\ p.reserve0 - amount_receive_after_fee(p.reserve1, p.reserve0, v) \in Amount
      BY <1>1, <3>3, <3>4, U64Assumption DEF Amount
    <3> QED
      BY <3>2, <3>3, <3>5 DEF swap_asset1_for_asset0, PoolState
  <2> QED
    BY <2>1, <2>2
<1> HIDE DEF q
<1>3. q.reserve0 \in Nat /\ q.reserve1 \in Nat
  BY <1>2 DEF PoolState, Amount
<1>4. Worth(p, q)
  <2> DEFINE l == p.outstanding_lp_tokens
             x == Product(p)
             y == Product(q)
  <2>1. x = p.reserve0 * p.reserve1 /\ y = q.reserve0 * q.reserve1
    BY DEF Product
  <2>2. x \in Nat /\ y \in Nat
    BY <1>1, <1>3, <2>1, Z3
  <2>3. x <= y
    BY <1>2
  <2> HIDE DEF x, y
  <2>4. x * l <= y * l /\ x * l \in Nat /\ y * l \in Nat
    BY <1>1, <2>2, <2>3, ProductMonotone
  <2>5. x * l * l <= y * l * l
    BY <1>1, <2>4, ProductMonotone
  <2>6. x * l * l \in Nat /\ y * l * l \in Nat
    BY <1>1, <2>2, Z3
  <2> QED
    BY <1>2, <2>1, <2>5, <2>6 DEF Worth
<1> QED
  BY <1>1, <1>2, <1>4 DEF PoolMoved, q

\* What a transaction leaves of the database, pools and auctions aside.
Kept(d, e) == DOMAIN e = DbFields /\ e.height = d.height

SamePools(d, e) == Kept(d, e) /\ e.amm_pools = d.amm_pools
SameAuctions(d, e) == Kept(d, e) /\ e.dutch_auctions = d.dutch_auctions

LEMMA PutPoolIs ==
    ASSUME NEW d, DOMAIN d = DbFields, NEW pair, NEW q
    PROVE  /\ SameAuctions(d, PutPool(d, pair, q))
           /\ PutPool(d, pair, q).amm_pools = put(d.amm_pools, pair, q)
  BY DEF PutPool, SameAuctions, Kept, DbFields

LEMMA PutAuctionIs ==
    ASSUME NEW d, DOMAIN d = DbFields, NEW id, NEW a
    PROVE  /\ SamePools(d, PutAuction(d, id, a))
           /\ PutAuction(d, id, a).dutch_auctions = put(d.dutch_auctions, id, a)
  BY DEF PutAuction, SamePools, Kept, DbFields

LEMMA PoolPut ==
    ASSUME NEW T, NEW d, DbInv(T, d), NEW pair, NEW q \in PoolState
    PROVE  DbInv(T, PutPool(d, pair, q))
<1>1. SameAuctions(d, PutPool(d, pair, q)) /\ PutPool(d, pair, q).amm_pools = put(d.amm_pools, pair, q)
  BY PutPoolIs DEF DbInv
<1>2. PoolsOK(put(d.amm_pools, pair, q))
  BY DEF DbInv, PoolsOK, put
<1> QED
  BY <1>1, <1>2 DEF DbInv, SameAuctions, Kept

LEMMA PoolPutMoves ==
    ASSUME NEW T, NEW d, DbInv(T, d), NEW pair, NEW q \in PoolState, NEW kind,
           pair \in DOMAIN d.amm_pools => PoolMoved(kind, d.amm_pools[pair], q)
    PROVE  PoolsMoved(kind, d.amm_pools, PutPool(d, pair, q).amm_pools)
<1>1. PutPool(d, pair, q).amm_pools = put(d.amm_pools, pair, q)
  BY PutPoolIs DEF DbInv
<1>2. ASSUME NEW k \in DOMAIN d.amm_pools
      PROVE  PoolMoved(kind, d.amm_pools[k], put(d.amm_pools, pair, q)[k])
  <2>1. CASE k = pair
    BY <2>1 DEF put
  <2>2. CASE k # pair
    BY <1>2, <2>2, WorthSelf DEF DbInv, PoolsOK, put
  <2> QED
    BY <2>1, <2>2
<1>3. DOMAIN d.amm_pools \subseteq DOMAIN put(d.amm_pools, pair, q)
  BY DEF put
<1> QED
  BY <1>1, <1>2, <1>3 DEF PoolsMoved

LEMMA AuctionPut ==
    ASSUME NEW T, NEW d, DbInv(T, d), NEW id, NEW a, AuctionOK(T, a)
    PROVE  DbInv(T, PutAuction(d, id, a)) /\ PutAuction(d, id, a).amm_pools = d.amm_pools
<1>1. /\ SamePools(d, PutAuction(d, id, a))
      /\ PutAuction(d, id, a).dutch_auctions = put(d.dutch_auctions, id, a)
  BY PutAuctionIs DEF DbInv
<1>2. AuctionsOK(T, put(d.dutch_auctions, id, a))
  BY DEF DbInv, AuctionsOK, put
<1> QED
  BY <1>1, <1>2 DEF DbInv, SamePools, Kept

LEMMA Unmoved ==
    ASSUME NEW T, NEW d, DbInv(T, d), NEW kind
    PROVE  PoolsMoved(kind, d.amm_pools, d.amm_pools)
  BY WorthSelf DEF DbInv, PoolsOK, PoolsMoved

\* The amounts of a filled transaction.
LEMMA AmountsTyped ==
    ASSUME NEW T, NEW f, FilledOf(T, f)
    PROVE  /\ f.txid \in STRING /\ f.data.kind \in DataKinds
           /\ Is(f, "AmmBurn") => /\ f.data.lp_token_burn \in Amount
                                  /\ f.data.amount0 \in Amount /\ f.data.amount1 \in Amount
           /\ Is(f, "AmmMint") => /\ f.data.lp_token_mint \in Amount
                                  /\ f.data.amount0 \in Amount /\ f.data.amount1 \in Amount
           /\ Is(f, "AmmSwap") => f.data.amount_spent \in Amount /\ f.data.amount_receive \in Amount
           /\ Is(f, "DutchAuctionCreate") =>
                /\ f.data.start_block \in Nat /\ f.data.duration \in Nat
                /\ f.data.base_amount \in Nat /\ f.data.initial_price \in Nat
                /\ f.data.final_price \in Nat
           /\ Is(f, "DutchAuctionBid") => f.data.bid_size \in Nat
<1>1. PICK t \in T : TransactionOK(t) /\ f.data = t.data /\ f.txid = t.txid
  BY DEF FilledOf
<1>2. /\ t.txid \in STRING /\ t.data.kind \in DataKinds
      /\ \A x \in AmountsOf(t.data.kind) : t.data[x] \in Amount
      /\ t.data.kind = "DutchAuctionCreate" => {t.data.start_block, t.data.duration} \subseteq 0 .. U32
  BY <1>1 DEF TransactionOK, Is
<1>3. /\ AmountsOf("AmmBurn") = {"amount0", "amount1", "lp_token_burn"}
      /\ AmountsOf("AmmMint") = {"amount0", "amount1", "lp_token_mint"}
      /\ AmountsOf("AmmSwap") = {"amount_spent", "amount_receive"}
      /\ AmountsOf("DutchAuctionCreate") = {"base_amount", "initial_price", "final_price"}
      /\ AmountsOf("DutchAuctionBid") = {"bid_size", "quantity"}
  BY DEF AmountsOf
<1>4. Amount \subseteq Nat /\ 0 .. U32 \subseteq Nat
  BY U64Assumption, U32Assumption DEF Amount
<1> QED
  BY <1>1, <1>2, <1>3, <1>4 DEF Is

\* The transaction that an entry was pushed by.
LEMMA PushedBy ==
    ASSUME NEW T, NEW f, FilledOf(T, f)
    PROVE  OnlyBy(T, f.txid, f.data.kind)
  BY DEF FilledOf, OnlyBy

-----------------------------------------------------------------------------
\* One transaction of a block that connects.
Applied(T, d, f, r) ==
    r.tag = "ok" => DbInv(T, r.db) /\ PoolsMoved(f.data.kind, d.amm_pools, r.db.amm_pools)

LEMMA AppliedBurn ==
    ASSUME NEW T, NEW d, DbInv(T, d), NEW f, FilledOf(T, f), Is(f, "AmmBurn")
    PROVE  Applied(T, d, f, apply_amm_burn(d, f))
<1> DEFINE p == d.amm_pools[burn_pair(f)]
           q == burn(p, f.data.lp_token_burn)
<1> SUFFICES ASSUME apply_amm_burn(d, f).tag = "ok"
             PROVE  /\ DbInv(T, apply_amm_burn(d, f).db)
                    /\ PoolsMoved("AmmBurn", d.amm_pools, apply_amm_burn(d, f).db.amm_pools)
  BY DEF Applied, Is
<1>1. /\ apply_amm_burn(d, f).db = PutPool(d, burn_pair(f), q)
      /\ burn_pair(f) \in DOMAIN d.amm_pools
      /\ ~burn_refused(p, f.data.lp_token_burn)
  BY DEF apply_amm_burn, Guarded, Ok, Err, Panic, Has
<1>2. p \in PoolState /\ f.data.lp_token_burn \in Amount
  BY <1>1, AmountsTyped DEF DbInv, PoolsOK
<1>3. q \in PoolState /\ PoolMoved("AmmBurn", p, q)
  BY <1>1, <1>2, BurnMoves
<1> HIDE DEF q
<1> QED
  BY <1>1, <1>3, PoolPut, PoolPutMoves

LEMMA AppliedMint ==
    ASSUME NEW T, NEW d, DbInv(T, d), NEW f, FilledOf(T, f), Is(f, "AmmMint")
    PROVE  Applied(T, d, f, apply_amm_mint(d, f))
<1> DEFINE pair == mint_pair(f)
           p == IF Has(d.amm_pools, pair) THEN d.amm_pools[pair] ELSE new_pool(f.txid)
           q == mint(p, f.data.amount0, f.data.amount1)
<1> SUFFICES ASSUME apply_amm_mint(d, f).tag = "ok"
             PROVE  /\ DbInv(T, apply_amm_mint(d, f).db)
                    /\ PoolsMoved("AmmMint", d.amm_pools, apply_amm_mint(d, f).db.amm_pools)
  BY DEF Applied, Is
<1>1. /\ apply_amm_mint(d, f).db = PutPool(d, pair, q)
      /\ ~mint_refused(p, f.data.amount0, f.data.amount1)
  BY DEF apply_amm_mint, Guarded, Ok, Err, Panic
<1>2. f.data.amount0 \in Amount /\ f.data.amount1 \in Amount /\ f.txid \in STRING
  BY AmountsTyped
<1>3. p \in PoolState
  <2>1. new_pool(f.txid) \in PoolState
    BY <1>2, U64Assumption DEF new_pool, PoolState, Amount
  <2> QED
    BY <2>1 DEF DbInv, PoolsOK, Has
<1>4. pair \in DOMAIN d.amm_pools => p = d.amm_pools[pair]
  BY DEF Has
<1> HIDE DEF p
<1>5. q \in PoolState /\ PoolMoved("AmmMint", p, q)
  BY <1>1, <1>2, <1>3, MintMoves
<1> HIDE DEF q, pair
<1> QED
  BY <1>1, <1>4, <1>5, PoolPut, PoolPutMoves

LEMMA AppliedSwap ==
    ASSUME NEW T, NEW d, DbInv(T, d), NEW f, FilledOf(T, f), Is(f, "AmmSwap")
    PROVE  Applied(T, d, f, apply_amm_swap(d, f))
<1> DEFINE p == d.amm_pools[swap_pair(f)]
           v == f.data.amount_spent
           q == reswapped(p, Forward(f), v)
<1> SUFFICES ASSUME apply_amm_swap(d, f).tag = "ok"
             PROVE  /\ DbInv(T, apply_amm_swap(d, f).db)
                    /\ PoolsMoved("AmmSwap", d.amm_pools, apply_amm_swap(d, f).db.amm_pools)
  BY DEF Applied, Is
<1>1. /\ apply_amm_swap(d, f).db = PutPool(d, swap_pair(f), q)
      /\ swap_pair(f) \in DOMAIN d.amm_pools
      /\ ~swap_panics(swap_reserves(p, f)[1], v)
      /\ ~swap_refused(swap_reserves(p, f)[1], swap_reserves(p, f)[2], v)
  BY DEF apply_amm_swap, Guarded, Ok, Err, Panic, Has
<1>2. p \in PoolState /\ v \in Amount
  BY <1>1, AmountsTyped DEF DbInv, PoolsOK
<1>3. /\ swap_reserves(p, f)[1] = IF Forward(f) THEN p.reserve0 ELSE p.reserve1
      /\ swap_reserves(p, f)[2] = IF Forward(f) THEN p.reserve1 ELSE p.reserve0
  BY DEF swap_reserves
<1>4. Forward(f) \in BOOLEAN
  BY DEF Forward, Precedes
<1>5. q \in PoolState /\ PoolMoved("AmmSwap", p, q)
  BY <1>1, <1>2, <1>3, <1>4, SwapMoves
<1> HIDE DEF q
<1> QED
  BY <1>1, <1>5, PoolPut, PoolPutMoves

LEMMA AppliedCreate ==
    ASSUME NEW T, NEW d, DbInv(T, d), NEW f, FilledOf(T, f), Is(f, "DutchAuctionCreate"),
           NEW height \in Int
    PROVE  Applied(T, d, f, apply_auction_create(d, f, height))
<1> DEFINE a == create(f.data, f.txid, height)
           r == apply_auction_create(d, f, height)
<1> SUFFICES ASSUME r.tag = "ok"
             PROVE  DbInv(T, r.db) /\ PoolsMoved(f.data.kind, d.amm_pools, r.db.amm_pools)
  BY DEF Applied
<1>1. r.db = PutAuction(d, f.txid, a) /\ ~create_refused(f.data, height)
  BY DEF apply_auction_create, Guarded, Ok, Err, Panic
<1>2. AuctionOK(T, a)
  BY <1>1, AmountsTyped, CreateKeeps
<1> HIDE DEF a, r
<1> QED
  BY <1>1, <1>2, AuctionPut, Unmoved

LEMMA AppliedBid ==
    ASSUME NEW T, NEW d, DbInv(T, d), NEW f, FilledOf(T, f), Is(f, "DutchAuctionBid"),
           NEW height \in Int
    PROVE  Applied(T, d, f, apply_auction_bid(d, f, height))
<1> DEFINE a == d.dutch_auctions[f.data.auction_id]
           b == bid(a, f.txid, f.data.bid_size, height)
           r == apply_auction_bid(d, f, height)
<1> SUFFICES ASSUME r.tag = "ok"
             PROVE  DbInv(T, r.db) /\ PoolsMoved(f.data.kind, d.amm_pools, r.db.amm_pools)
  BY DEF Applied
<1>1. /\ r.db = PutAuction(d, f.data.auction_id, b)
      /\ f.data.auction_id \in DOMAIN d.dutch_auctions
      /\ ~bid_panics(a, f.data.bid_size, height) /\ ~bid_refused(a, f.data.bid_size, height)
  BY DEF apply_auction_bid, Guarded, Ok, Err, Panic, Has
<1>2. AuctionOK(T, a)
  BY <1>1 DEF DbInv, AuctionsOK
<1>3. OnlyBy(T, f.txid, "DutchAuctionBid")
  BY PushedBy DEF Is
<1>4. f.txid \in STRING /\ f.data.bid_size \in Nat
  BY AmountsTyped
<1> HIDE DEF a
<1>5. AuctionOK(T, b)
  BY <1>1, <1>2, <1>3, <1>4, BidKeeps
<1> HIDE DEF b, r
<1> QED
  BY <1>1, <1>5, AuctionPut, Unmoved

LEMMA AppliedCollect ==
    ASSUME NEW T, NEW d, DbInv(T, d), NEW f, FilledOf(T, f), Is(f, "DutchAuctionCollect"),
           NEW height \in Int
    PROVE  Applied(T, d, f, apply_auction_collect(d, f, height))
<1> DEFINE a == d.dutch_auctions[collected_auction(f)]
           b == collect(a, f.txid, height)
           r == apply_auction_collect(d, f, height)
<1> SUFFICES ASSUME r.tag = "ok"
             PROVE  DbInv(T, r.db) /\ PoolsMoved(f.data.kind, d.amm_pools, r.db.amm_pools)
  BY DEF Applied
<1>1. /\ r.db = PutAuction(d, collected_auction(f), b)
      /\ collected_auction(f) \in DOMAIN d.dutch_auctions
  BY DEF apply_auction_collect, Guarded, Ok, Err, Panic, Has
<1>2. AuctionOK(T, a)
  BY <1>1 DEF DbInv, AuctionsOK
<1>3. OnlyBy(T, f.txid, "DutchAuctionCollect")
  BY PushedBy DEF Is
<1>4. f.txid \in STRING
  BY AmountsTyped
<1> HIDE DEF a
<1>5. AuctionOK(T, b)
  BY <1>2, <1>3, <1>4, CollectKeeps
<1> HIDE DEF b, r
<1> QED
  BY <1>1, <1>5, AuctionPut, Unmoved

\* The names of BitAssets are no concern of pools and auctions.
LEMMA SameBoth ==
    ASSUME NEW T, NEW d, DbInv(T, d), NEW e, SamePools(d, e), SameAuctions(d, e)
    PROVE  DbInv(T, e) /\ \A kind : PoolsMoved(kind, d.amm_pools, e.amm_pools)
<1>1. DbInv(T, e)
  BY DEF DbInv, SamePools, SameAuctions, Kept
<1> QED
  BY <1>1, Unmoved DEF SamePools

NamesOnly(d, e) == SamePools(d, e) /\ SameAuctions(d, e)

LEMMA Reserved ==
    ASSUME NEW d, DOMAIN d = DbFields, NEW f
    PROVE  NamesOnly(d, [d EXCEPT !.reservations = put(@, f.txid, f.data.commitment)])
  BY DEF NamesOnly, SamePools, SameAuctions, Kept, DbFields

LEMMA Unreserved ==
    ASSUME NEW d, DOMAIN d = DbFields, NEW f
    PROVE  NamesOnly(d, [d EXCEPT !.reservations = delete(@, f.txid)])
  BY DEF NamesOnly, SamePools, SameAuctions, Kept, DbFields

LEMMA Registered ==
    ASSUME NEW d, DOMAIN d = DbFields, NEW f, NEW height
    PROVE  NamesOnly(d, apply_registration(d, f, height))
  BY DEF NamesOnly, SamePools, SameAuctions, Kept, DbFields, apply_registration

LEMMA Unregistered ==
    ASSUME NEW d, DOMAIN d = DbFields, NEW f
    PROVE  NamesOnly(d, revert_registration(d, f))
  BY DEF NamesOnly, SamePools, SameAuctions, Kept, DbFields, revert_registration

LEMMA Minted ==
    ASSUME NEW d, DOMAIN d = DbFields, NEW f, NEW height
    PROVE  NamesOnly(d, apply_mint(d, f, height))
  BY DEF NamesOnly, SamePools, SameAuctions, Kept, DbFields, apply_mint

LEMMA Unminted ==
    ASSUME NEW d, DOMAIN d = DbFields, NEW f
    PROVE  NamesOnly(d, revert_mint(d, f))
  BY DEF NamesOnly, SamePools, SameAuctions, Kept, DbFields, revert_mint

LEMMA Updated ==
    ASSUME NEW d, DOMAIN d = DbFields, NEW f, NEW height
    PROVE  NamesOnly(d, apply_updates(d, f, height))
  BY DEF NamesOnly, SamePools, SameAuctions, Kept, DbFields, apply_updates

LEMMA Reupdated ==
    ASSUME NEW d, DOMAIN d = DbFields, NEW f
    PROVE  NamesOnly(d, revert_updates(d, f))
  BY DEF NamesOnly, SamePools, SameAuctions, Kept, DbFields, revert_updates

LEMMA AppliedNames ==
    ASSUME NEW T, NEW d, DbInv(T, d), NEW f, NEW r,
           r.tag = "ok" => NamesOnly(d, r.db)
    PROVE  Applied(T, d, f, r)
  BY SameBoth DEF Applied, NamesOnly

LEMMA AppliedData ==
    ASSUME NEW T, NEW d, DbInv(T, d), NEW f, FilledOf(T, f), NEW height \in Int
    PROVE  Applied(T, d, f, apply_data(d, f, height))
<1> DEFINE r == apply_data(d, f, height)
<1>0. DOMAIN d = DbFields /\ f.data.kind \in DataKinds
  BY AmountsTyped DEF DbInv
<1>1. CASE Is(f, "Regular")
  <2>1. r = Ok(d)
    BY <1>1 DEF apply_data, Is
  <2>2. NamesOnly(d, r.db)
    BY <1>0, <2>1 DEF Ok, NamesOnly, SamePools, SameAuctions, Kept
  <2> QED
    BY <2>2, AppliedNames
<1>2. CASE Is(f, "AmmBurn")
  <2>1. r = apply_amm_burn(d, f)
    BY <1>2 DEF apply_data, Is
  <2> QED
    BY <1>2, <2>1, AppliedBurn
<1>3. CASE Is(f, "AmmMint")
  <2>1. r = apply_amm_mint(d, f)
    BY <1>3 DEF apply_data, Is
  <2> QED
    BY <1>3, <2>1, AppliedMint
<1>4. CASE Is(f, "AmmSwap")
  <2>1. r = apply_amm_swap(d, f)
    BY <1>4 DEF apply_data, Is
  <2> QED
    BY <1>4, <2>1, AppliedSwap
<1>5. CASE Is(f, "BitAssetReservation")
  <2>1. r = Ok([d EXCEPT !.reservations = put(@, f.txid, f.data.commitment)])
    BY <1>5 DEF apply_data, Is
  <2>2. NamesOnly(d, [d EXCEPT !.reservations = put(@, f.txid, f.data.commitment)])
    BY <1>0, Reserved
  <2> HIDE DEF r
  <2>3. NamesOnly(d, r.db)
    BY <2>1, <2>2 DEF Ok
  <2> QED
    BY <2>3, AppliedNames DEF r
<1>6. CASE Is(f, "BitAssetRegistration")
  <2>1. r.tag = "ok" => r.db = apply_registration(d, f, height)
    BY <1>6 DEF apply_data, Is, Guarded, Ok, Err, Panic
  <2>2. NamesOnly(d, apply_registration(d, f, height))
    BY <1>0, Registered
  <2> HIDE DEF r
  <2>3. r.tag = "ok" => NamesOnly(d, r.db)
    BY <2>1, <2>2
  <2> QED
    BY <2>3, AppliedNames DEF r
<1>7. CASE Is(f, "BitAssetMint")
  <2>1. r.tag = "ok" => r.db = apply_mint(d, f, height)
    BY <1>7 DEF apply_data, Is, Guarded, Ok, Err, Panic
  <2>2. NamesOnly(d, apply_mint(d, f, height))
    BY <1>0, Minted
  <2> HIDE DEF r
  <2>3. r.tag = "ok" => NamesOnly(d, r.db)
    BY <2>1, <2>2
  <2> QED
    BY <2>3, AppliedNames DEF r
<1>8. CASE Is(f, "BitAssetUpdate")
  <2>1. r.tag = "ok" => r.db = apply_updates(d, f, height)
    BY <1>8 DEF apply_data, Is, Guarded, Ok, Err, Panic
  <2>2. NamesOnly(d, apply_updates(d, f, height))
    BY <1>0, Updated
  <2> HIDE DEF r
  <2>3. r.tag = "ok" => NamesOnly(d, r.db)
    BY <2>1, <2>2
  <2> QED
    BY <2>3, AppliedNames DEF r
<1>9. CASE Is(f, "DutchAuctionCreate")
  <2>1. r = apply_auction_create(d, f, height)
    BY <1>9 DEF apply_data, Is
  <2> QED
    BY <1>9, <2>1, AppliedCreate
<1>10. CASE Is(f, "DutchAuctionBid")
  <2>1. r = apply_auction_bid(d, f, height)
    BY <1>10 DEF apply_data, Is
  <2> QED
    BY <1>10, <2>1, AppliedBid
<1>11. CASE Is(f, "DutchAuctionCollect")
  <2>1. r = apply_auction_collect(d, f, height)
    BY <1>11 DEF apply_data, Is
  <2> QED
    BY <1>11, <2>1, AppliedCollect
<1> QED
  BY <1>0, <1>1, <1>2, <1>3, <1>4, <1>5, <1>6, <1>7, <1>8, <1>9, <1>10, <1>11 DEF DataKinds, Is

-----------------------------------------------------------------------------
\* One transaction of a block that is disconnected.
Reverted(T, r) == r.tag = "ok" => DbInv(T, r.db)

LEMMA RevertedBurn ==
    ASSUME NEW T, NEW d, DbInv(T, d), NEW f, FilledOf(T, f), Is(f, "AmmBurn")
    PROVE  Reverted(T, revert_amm_burn(d, f))
<1> DEFINE p == d.amm_pools[burn_pair(f)]
           q == unburn(p, f.data.lp_token_burn, f.data.amount0, f.data.amount1)
           r == revert_amm_burn(d, f)
<1> SUFFICES ASSUME r.tag = "ok" PROVE DbInv(T, r.db)
  BY DEF Reverted
<1>1. /\ r.db = PutPool(d, burn_pair(f), q)
      /\ burn_pair(f) \in DOMAIN d.amm_pools
      /\ ~unburn_refused(p, f.data.lp_token_burn, f.data.amount0, f.data.amount1)
  BY DEF revert_amm_burn, Guarded, Ok, Err, Panic, Has
<1>2. /\ p \in PoolState
      /\ f.data.lp_token_burn \in Amount /\ f.data.amount0 \in Amount /\ f.data.amount1 \in Amount
  BY <1>1, AmountsTyped DEF DbInv, PoolsOK
<1>3. /\ p.outstanding_lp_tokens + f.data.lp_token_burn \in Amount
      /\ p.reserve0 + f.data.amount0 \in Amount /\ p.reserve1 + f.data.amount1 \in Amount
  BY <1>1, <1>2, U64Assumption DEF unburn_refused, PoolState, Amount
<1>4. q \in PoolState
  BY <1>2, <1>3 DEF unburn, PoolState
<1> HIDE DEF q, r
<1> QED
  BY <1>1, <1>4, PoolPut

LEMMA RevertedMint ==
    ASSUME NEW T, NEW d, DbInv(T, d), NEW f, FilledOf(T, f), Is(f, "AmmMint")
    PROVE  Reverted(T, revert_amm_mint(d, f))
<1> DEFINE p == d.amm_pools[mint_pair(f)]
           q == unminted(p, f.data.amount0, f.data.amount1, f.data.lp_token_mint)
           e == [d EXCEPT !.amm_pools = delete(@, mint_pair(f))]
           r == revert_amm_mint(d, f)
<1> SUFFICES ASSUME r.tag = "ok" PROVE DbInv(T, r.db)
  BY DEF Reverted
<1>1. mint_pair(f) \in DOMAIN d.amm_pools
  BY DEF revert_amm_mint, Ok, Err, Has
<1>2. CASE p.creation_txid = f.txid
  <2>1. r.db = e
    BY <1>2 DEF revert_amm_mint, Ok, Err
  <2>2. SameAuctions(d, e) /\ e.amm_pools = delete(d.amm_pools, mint_pair(f))
    BY DEF SameAuctions, Kept, DbInv, DbFields
  <2>3. PoolsOK(delete(d.amm_pools, mint_pair(f)))
    BY DEF DbInv, PoolsOK, delete
  <2> HIDE DEF e, r
  <2> QED
    BY <2>1, <2>2, <2>3 DEF DbInv, SameAuctions, Kept
<1>3. CASE p.creation_txid # f.txid
  <2>1. /\ r.db = PutPool(d, mint_pair(f), q)
        /\ ~revert_mint_refused(p, f.data.amount0, f.data.amount1, f.data.lp_token_mint)
    BY <1>3 DEF revert_amm_mint, Guarded, Ok, Err, Panic
  <2>2. /\ p \in PoolState
        /\ f.data.lp_token_mint \in Amount /\ f.data.amount0 \in Amount /\ f.data.amount1 \in Amount
    BY <1>1, AmountsTyped DEF DbInv, PoolsOK
  <2>3. /\ f.data.amount0 <= p.reserve0 /\ f.data.amount1 <= p.reserve1
        /\ f.data.lp_token_mint <= p.outstanding_lp_tokens
    BY <2>1, <2>2, U64Assumption DEF revert_mint_refused, PoolState, Amount
  <2>4. /\ p.outstanding_lp_tokens - f.data.lp_token_mint \in Amount
        /\ p.reserve0 - f.data.amount0 \in Amount /\ p.reserve1 - f.data.amount1 \in Amount
    BY <2>2, <2>3, U64Assumption DEF PoolState, Amount
  <2>5. q \in PoolState
    BY <2>2, <2>4 DEF unminted, PoolState
  <2> HIDE DEF q, r
  <2> QED
    BY <2>1, <2>5, PoolPut
<1> QED
  BY <1>2, <1>3

LEMMA RevertedSwap ==
    ASSUME NEW T, NEW d, DbInv(T, d), NEW f, FilledOf(T, f), Is(f, "AmmSwap")
    PROVE  Reverted(T, revert_amm_swap(d, f))
<1> DEFINE p == d.amm_pools[swap_pair(f)]
           v == f.data.amount_spent
           w == f.data.amount_receive
           q == unswapped(p, Forward(f), v, w)
           r == revert_amm_swap(d, f)
<1> SUFFICES ASSUME r.tag = "ok" PROVE DbInv(T, r.db)
  BY DEF Reverted
<1>1. /\ r.db = PutPool(d, swap_pair(f), q)
      /\ swap_pair(f) \in DOMAIN d.amm_pools
      /\ ~revert_swap_panics(p, Forward(f), v, w)
  BY DEF revert_amm_swap, Guarded, Ok, Err, Panic, Has
<1>2. p \in PoolState
  BY <1>1 DEF DbInv, PoolsOK
<1>3. q.reserve0 \in Amount /\ q.reserve1 \in Amount
  BY <1>1 DEF revert_swap_panics
<1>4. q \in PoolState
  BY <1>2, <1>3 DEF unswapped, PoolState
<1> HIDE DEF q, r
<1> QED
  BY <1>1, <1>4, PoolPut

LEMMA RevertedCreate ==
    ASSUME NEW T, NEW d, DbInv(T, d), NEW f
    PROVE  Reverted(T, revert_auction_create(d, f))
<1> DEFINE e == [d EXCEPT !.dutch_auctions = delete(@, f.txid)]
           r == revert_auction_create(d, f)
<1> SUFFICES ASSUME r.tag = "ok" PROVE DbInv(T, r.db)
  BY DEF Reverted
<1>1. r.db = e
  BY DEF revert_auction_create, Guarded, Ok, Err, Panic
<1>2. SamePools(d, e) /\ e.dutch_auctions = delete(d.dutch_auctions, f.txid)
  BY DEF SamePools, Kept, DbInv, DbFields
<1>3. AuctionsOK(T, delete(d.dutch_auctions, f.txid))
  BY DEF DbInv, AuctionsOK, delete
<1> HIDE DEF e, r
<1> QED
  BY <1>1, <1>2, <1>3 DEF DbInv, SamePools, Kept

LEMMA RevertedBid ==
    ASSUME NEW T, NEW d, DbInv(T, d), NEW f, FilledOf(T, f), Is(f, "DutchAuctionBid")
    PROVE  Reverted(T, revert_auction_bid(d, f))
<1> DEFINE a == d.dutch_auctions[f.data.auction_id]
           r == revert_auction_bid(d, f)
<1> SUFFICES ASSUME r.tag = "ok" PROVE DbInv(T, r.db)
  BY DEF Reverted
<1>1. /\ r.db = PutAuction(d, f.data.auction_id, revert_bid(a))
      /\ f.data.auction_id \in DOMAIN d.dutch_auctions
      /\ ~revert_bid_panics(a, f.txid)
  BY DEF revert_auction_bid, Guarded, Ok, Err, Panic, Has
<1>2. AuctionOK(T, a)
  BY <1>1 DEF DbInv, AuctionsOK
<1>3. PICK t \in T : f.data = t.data /\ f.txid = t.txid
  BY DEF FilledOf
<1>4. t.data.kind = "DutchAuctionBid" /\ ~revert_bid_panics(a, t.txid)
  BY <1>1, <1>3 DEF Is
<1> HIDE DEF a
<1>5. AuctionOK(T, revert_bid(a))
  BY <1>2, <1>4, RevertBidKeeps
<1> HIDE DEF r
<1> QED
  BY <1>1, <1>5, AuctionPut

LEMMA RevertedCollect ==
    ASSUME NEW T, NEW d, DbInv(T, d), NEW f, FilledOf(T, f), Is(f, "DutchAuctionCollect")
    PROVE  Reverted(T, revert_auction_collect(d, f))
<1> DEFINE a == d.dutch_auctions[collected_auction(f)]
           r == revert_auction_collect(d, f)
<1> SUFFICES ASSUME r.tag = "ok" PROVE DbInv(T, r.db)
  BY DEF Reverted
<1>1. /\ r.db = PutAuction(d, collected_auction(f), revert_collect(a))
      /\ collected_auction(f) \in DOMAIN d.dutch_auctions
      /\ ~revert_collect_panics(a, f.data, f.txid)
  BY DEF revert_auction_collect, Guarded, Ok, Err, Panic, Has
<1>2. AuctionOK(T, a)
  BY <1>1 DEF DbInv, AuctionsOK
<1>3. PICK t \in T : f.data = t.data /\ f.txid = t.txid
  BY DEF FilledOf
<1>4. t.data.kind = "DutchAuctionCollect" /\ ~revert_collect_panics(a, f.data, t.txid)
  BY <1>1, <1>3 DEF Is
<1> HIDE DEF a
<1>5. AuctionOK(T, revert_collect(a))
  BY <1>2, <1>4, RevertCollectKeeps
<1> HIDE DEF r
<1> QED
  BY <1>1, <1>5, AuctionPut

LEMMA RevertedNames ==
    ASSUME NEW T, NEW d, DbInv(T, d), NEW r, r.tag = "ok" => NamesOnly(d, r.db)
    PROVE  Reverted(T, r)
  BY SameBoth DEF Reverted, NamesOnly

LEMMA RevertedData ==
    ASSUME NEW T, NEW d, DbInv(T, d), NEW f, FilledOf(T, f), NEW height \in Int
    PROVE  Reverted(T, revert_data(d, f, height))
<1> DEFINE r == revert_data(d, f, height)
<1>0. DOMAIN d = DbFields /\ f.data.kind \in DataKinds
  BY AmountsTyped DEF DbInv
<1>1. CASE Is(f, "Regular")
  <2>1. r = Ok(d)
    BY <1>1 DEF revert_data, Is
  <2>2. NamesOnly(d, r.db)
    BY <1>0, <2>1 DEF Ok, NamesOnly, SamePools, SameAuctions, Kept
  <2> QED
    BY <2>2, RevertedNames
<1>2. CASE Is(f, "AmmBurn")
  <2>1. r = revert_amm_burn(d, f)
    BY <1>2 DEF revert_data, Is
  <2> QED
    BY <1>2, <2>1, RevertedBurn
<1>3. CASE Is(f, "AmmMint")
  <2>1. r = revert_amm_mint(d, f)
    BY <1>3 DEF revert_data, Is
  <2> QED
    BY <1>3, <2>1, RevertedMint
<1>4. CASE Is(f, "AmmSwap")
  <2>1. r = revert_amm_swap(d, f)
    BY <1>4 DEF revert_data, Is
  <2> QED
    BY <1>4, <2>1, RevertedSwap
<1>5. CASE Is(f, "BitAssetReservation")
  <2>1. r.tag = "ok" => r.db = [d EXCEPT !.reservations = delete(@, f.txid)]
    BY <1>5 DEF revert_data, Is, Guarded, Ok, Err, Panic
  <2>2. NamesOnly(d, [d EXCEPT !.reservations = delete(@, f.txid)])
    BY <1>0, Unreserved
  <2> HIDE DEF r
  <2>3. r.tag = "ok" => NamesOnly(d, r.db)
    BY <2>1, <2>2
  <2> QED
    BY <2>3, RevertedNames DEF r
<1>6. CASE Is(f, "BitAssetRegistration")
  <2>1. r.tag = "ok" => r.db = revert_registration(d, f)
    BY <1>6 DEF revert_data, Is, Guarded, Ok, Err, Panic
  <2>2. NamesOnly(d, revert_registration(d, f))
    BY <1>0, Unregistered
  <2> HIDE DEF r
  <2>3. r.tag = "ok" => NamesOnly(d, r.db)
    BY <2>1, <2>2
  <2> QED
    BY <2>3, RevertedNames DEF r
<1>7. CASE Is(f, "BitAssetMint")
  <2>1. r.tag = "ok" => r.db = revert_mint(d, f)
    BY <1>7 DEF revert_data, Is, Guarded, Ok, Err, Panic
  <2>2. NamesOnly(d, revert_mint(d, f))
    BY <1>0, Unminted
  <2> HIDE DEF r
  <2>3. r.tag = "ok" => NamesOnly(d, r.db)
    BY <2>1, <2>2
  <2> QED
    BY <2>3, RevertedNames DEF r
<1>8. CASE Is(f, "BitAssetUpdate")
  <2>1. r.tag = "ok" => r.db = revert_updates(d, f)
    BY <1>8 DEF revert_data, Is, Guarded, Ok, Err, Panic
  <2>2. NamesOnly(d, revert_updates(d, f))
    BY <1>0, Reupdated
  <2> HIDE DEF r
  <2>3. r.tag = "ok" => NamesOnly(d, r.db)
    BY <2>1, <2>2
  <2> QED
    BY <2>3, RevertedNames DEF r
<1>9. CASE Is(f, "DutchAuctionCreate")
  <2>1. r = revert_auction_create(d, f)
    BY <1>9 DEF revert_data, Is
  <2> QED
    BY <1>9, <2>1, RevertedCreate
<1>10. CASE Is(f, "DutchAuctionBid")
  <2>1. r = revert_auction_bid(d, f)
    BY <1>10 DEF revert_data, Is
  <2> QED
    BY <1>10, <2>1, RevertedBid
<1>11. CASE Is(f, "DutchAuctionCollect")
  <2>1. r = revert_auction_collect(d, f)
    BY <1>11 DEF revert_data, Is
  <2> QED
    BY <1>11, <2>1, RevertedCollect
<1> QED
  BY <1>0, <1>1, <1>2, <1>3, <1>4, <1>5, <1>6, <1>7, <1>8, <1>9, <1>10, <1>11 DEF DataKinds, Is

-----------------------------------------------------------------------------
(***************************************************************************)
(* The loops over the transactions of a block and over the blocks of a     *)
(* prefix.                                                                 *)
(***************************************************************************)
Step(what, d, x, height) ==
    CASE what = "connect" -> apply_filled(d, x, height)
      [] what = "disconnect" -> disconnect_tx(d, x, height)
      [] what = "prefix" -> ConnectBody(d, x)
      [] what = "recheck" -> connect_tx(d, x, height)

\* One step of ForEach.
StepFrom(what, r, x, height) == IF r.tag = "ok" THEN Step(what, r.db, x, height) ELSE r

\* after, the function of ForEach, up to k.
AfterEq(g, k, what, d, seq, height) ==
    g = [n \in 0 .. k |-> IF n = 0 THEN Ok(d) ELSE StepFrom(what, g[n - 1], seq[n], height)]

LEMMA AfterExists ==
    ASSUME NEW what, NEW d, NEW seq, NEW height, NEW N \in Nat
    PROVE  \E g : AfterEq(g, N, what, d, seq, height)
<1> DEFINE S == {k \in Nat : ~\E g : AfterEq(g, k, what, d, seq, height)}
<1> SUFFICES ASSUME S # {} PROVE FALSE
  OBVIOUS
<1>1. PICK k \in S : \A j \in S : k <= j
  BY LeastNatural
<1>2. k # 0
  <2> DEFINE h == [n \in 0 .. 0 |-> Ok(d)]
  <2>1. AfterEq(h, 0, what, d, seq, height)
    BY DEF AfterEq
  <2> QED
    BY <2>1
<1>3. k - 1 \in Nat /\ k - 1 \notin S
  BY <1>1, <1>2
<1>4. PICK g : AfterEq(g, k - 1, what, d, seq, height)
  BY <1>3
<1> DEFINE h == [n \in 0 .. k |-> IF n < k THEN g[n] ELSE StepFrom(what, g[k - 1], seq[k], height)]
<1>5. ASSUME NEW n \in 0 .. k
      PROVE  h[n] = IF n = 0 THEN Ok(d) ELSE StepFrom(what, h[n - 1], seq[n], height)
  <2>1. CASE n = k
    <3>1. h[n] = StepFrom(what, g[k - 1], seq[k], height) /\ h[n - 1] = g[k - 1]
      BY <1>2, <1>3, <2>1
    <3> QED
      BY <1>2, <2>1, <3>1
  <2>2. CASE n # k
    <3>1. n \in 0 .. (k - 1) /\ n < k
      BY <2>2
    <3>2. h[n] = g[n] /\ (n # 0 => h[n - 1] = g[n - 1])
      BY <3>1
    <3>3. g[n] = IF n = 0 THEN Ok(d) ELSE StepFrom(what, g[n - 1], seq[n], height)
      BY <1>4, <3>1 DEF AfterEq
    <3> QED
      BY <3>2, <3>3
  <2> QED
    BY <2>1, <2>2
<1>6. h = [n \in 0 .. k |-> IF n = 0 THEN Ok(d) ELSE StepFrom(what, h[n - 1], seq[n], height)]
  BY <1>5
<1>7. AfterEq(h, k, what, d, seq, height)
  BY <1>6 DEF AfterEq
<1> QED
  BY <1>7

\* The four uses of ForEach.
LEMMA ForEachConnect ==
    ASSUME NEW d, NEW seq, NEW height, Len(seq) \in Nat
    PROVE  \E g : /\ AfterEq(g, Len(seq), "connect", d, seq, height)
                  /\ apply_all(d, seq, height) = g[Len(seq)]
<1>1. \E g : AfterEq(g, Len(seq), "connect", d, seq, height)
  BY AfterExists
<1> QED
  BY <1>1 DEF apply_all, ForEach, Then, AfterEq, StepFrom, Step

LEMMA ForEachDisconnect ==
    ASSUME NEW d, NEW seq, NEW height, Len(seq) \in Nat
    PROVE  \E g : /\ AfterEq(g, Len(seq), "disconnect", d, seq, height)
                  /\ disconnect_all(d, seq, height) = g[Len(seq)]
<1>1. \E g : AfterEq(g, Len(seq), "disconnect", d, seq, height)
  BY AfterExists
<1> QED
  BY <1>1 DEF disconnect_all, ForEach, Then, AfterEq, StepFrom, Step

LEMMA ForEachPrefix ==
    ASSUME NEW d, NEW seq, NEW height, Len(seq) \in Nat
    PROVE  \E g : /\ AfterEq(g, Len(seq), "prefix", d, seq, height)
                  /\ ConnectAll(d, seq) = g[Len(seq)].db
<1>1. \E g : AfterEq(g, Len(seq), "prefix", d, seq, height)
  BY AfterExists
<1> QED
  BY <1>1 DEF ConnectAll, ForEach, Then, AfterEq, StepFrom, Step

LEMMA ForEachRecheck ==
    ASSUME NEW d, NEW seq, NEW height, Len(seq) \in Nat
    PROVE  \E g : /\ AfterEq(g, Len(seq), "recheck", d, seq, height)
                  /\ connect_all(d, seq, height) = g[Len(seq)]
<1>1. \E g : AfterEq(g, Len(seq), "recheck", d, seq, height)
  BY AfterExists
<1> QED
  BY <1>1 DEF connect_all, ForEach, Then, AfterEq, StepFrom, Step

\* What every step keeps, the loop keeps.
StepsKeep(T, what, seq, height, N) ==
    \A n \in 1 .. N : \A e : DbInv(T, e) => Reverted(T, Step(what, e, seq[n], height))

LEMMA LoopKeeps ==
    ASSUME NEW T, NEW what, NEW d, DbInv(T, d), NEW seq, NEW height, NEW N \in Nat,
           NEW g, AfterEq(g, N, what, d, seq, height),
           StepsKeep(T, what, seq, height, N)
    PROVE  \A n \in 0 .. N : Reverted(T, g[n])
<1> DEFINE S == {n \in 0 .. N : ~Reverted(T, g[n])}
<1> SUFFICES ASSUME S # {} PROVE FALSE
  OBVIOUS
<1>1. PICK n \in S : \A j \in S : n <= j
  <2>1. S \subseteq Nat
    OBVIOUS
  <2> HIDE DEF S
  <2> QED
    BY <2>1, LeastNatural
<1>2. n # 0
  <2>1. g[0] = Ok(d)
    BY DEF AfterEq
  <2> QED
    BY <1>1, <2>1 DEF Reverted, Ok
<1>3. n - 1 \in 0 .. N /\ n - 1 \notin S /\ n \in 1 .. N
  BY <1>1, <1>2
<1>4. Reverted(T, g[n - 1])
  BY <1>3
<1>5. g[n] = StepFrom(what, g[n - 1], seq[n], height)
  BY <1>2 DEF AfterEq
<1>6. Reverted(T, g[n])
  <2>1. CASE g[n - 1].tag = "ok"
    <3>1. DbInv(T, g[n - 1].db)
      BY <1>4, <2>1 DEF Reverted
    <3>2. Reverted(T, Step(what, g[n - 1].db, seq[n], height))
      BY <1>3, <3>1 DEF StepsKeep
    <3> QED
      BY <1>5, <2>1, <3>2 DEF StepFrom
  <2>2. CASE g[n - 1].tag # "ok"
    BY <1>4, <1>5, <2>2 DEF StepFrom
  <2> QED
    BY <2>1, <2>2
<1> QED
  BY <1>6

\* The transactions of T are what FilledOf asks for.
Typed(T) ==
    /\ \A t \in T : TransactionOK(t)
    /\ \A t, u \in T : t.txid = u.txid => t = u

LEMMA FilledIs ==
    ASSUME NEW T, Typed(T), NEW t \in T, NEW spent
    PROVE  FilledOf(T, filled_with(t, spent))
  BY DEF Typed, FilledOf, filled_with

LEMMA OutputsMoved ==
    ASSUME NEW T, NEW d, DbInv(T, d), NEW u, NEW s
    PROVE  /\ NamesOnly(d, [d EXCEPT !.utxos = u, !.stxos = s])
           /\ NamesOnly(d, [d EXCEPT !.utxos = u])
  BY DEF NamesOnly, SamePools, SameAuctions, Kept, DbInv, DbFields

\* apply_filled is all that a transaction does in connect_prevalidated.
LEMMA StepConnect ==
    ASSUME NEW T, NEW d, DbInv(T, d), NEW f, FilledOf(T, f), NEW height \in Int
    PROVE  Applied(T, d, f, Step("connect", d, f, height))
<1>1. CASE filled_outputs(f).ok
  BY <1>1, AppliedData DEF Step, apply_filled
<1>2. CASE ~filled_outputs(f).ok
  BY <1>2 DEF Step, apply_filled, Err, Applied
<1> QED
  BY <1>1, <1>2

LEMMA StepDisconnect ==
    ASSUME NEW T, Typed(T), NEW d, DbInv(T, d), NEW tx \in T, NEW height \in Int
    PROVE  Reverted(T, Step("disconnect", d, tx, height))
<1> DEFINE f == fill_transaction_from_stxos(d, tx)
           r == revert_data(d, f, height)
           O == {Regular(tx.txid, i) : i \in DOMAIN tx.outputs}
           s == DeleteUtxos(r.db, O)
           v == unspend(s.db, tx)
           w == Step("disconnect", d, tx, height)
<1> SUFFICES ASSUME w.tag = "ok" PROVE DbInv(T, w.db)
  BY DEF Reverted
<1>1. r.tag = "ok" /\ s.tag = "ok" /\ v.tag = "ok" /\ w = v
  BY DEF Step, disconnect_tx, Then, Err, Panic
<1>2. FilledOf(T, f)
  BY FilledIs DEF fill_transaction_from_stxos
<1>3. DbInv(T, r.db)
  <2> HIDE DEF f
  <2> QED
    BY <1>1, <1>2, RevertedData DEF Reverted
<1> HIDE DEF r, O
<1>4. DbInv(T, s.db)
  <2>1. s.db = [r.db EXCEPT !.utxos = Without(@, O)]
    BY <1>1 DEF DeleteUtxos, Guarded, Ok, Err, Panic
  <2> HIDE DEF s
  <2> QED
    BY <1>3, <2>1, OutputsMoved, SameBoth DEF NamesOnly
<1> HIDE DEF s
<1>5. DbInv(T, v.db)
  <2> DEFINE e == s.db
             u == put_all(e.utxos, [o \in Range(tx.inputs) |-> e.stxos[o].output])
             x == Without(e.stxos, Range(tx.inputs))
  <2>1. v.db = [e EXCEPT !.utxos = u, !.stxos = x]
    BY <1>1 DEF unspend, Guarded, Ok, Err, Panic
  <2> HIDE DEF u, x, v, e
  <2>2. DbInv(T, e)
    BY <1>4 DEF e
  <2> QED
    BY <2>1, <2>2, OutputsMoved, SameBoth DEF NamesOnly
<1> HIDE DEF v, w
<1> QED
  BY <1>1, <1>5

-----------------------------------------------------------------------------
(***************************************************************************)
(* A block.                                                                *)
(***************************************************************************)
FilledSeq(d, txs) == [i \in DOMAIN txs |-> fill_transaction(d, txs[i])]

LEMMA FilledSeqIs ==
    ASSUME NEW T, Typed(T), NEW d, NEW txs \in Seq(T)
    PROVE  /\ Len(FilledSeq(d, txs)) = Len(txs) /\ Len(txs) \in Nat /\ DOMAIN txs = 1 .. Len(txs)
           /\ \A i \in 1 .. Len(txs) : FilledOf(T, FilledSeq(d, txs)[i])
           /\ \A i \in 1 .. Len(txs) : FilledSeq(d, txs)[i].data = txs[i].data
<1>1. Len(txs) \in Nat /\ DOMAIN txs = 1 .. Len(txs) /\ \A i \in 1 .. Len(txs) : txs[i] \in T
  OBVIOUS
<1>2. \A i \in 1 .. Len(txs) : FilledSeq(d, txs)[i] = fill_transaction(d, txs[i])
  BY <1>1 DEF FilledSeq
<1>3. Len(FilledSeq(d, txs)) = Len(txs)
  BY <1>1 DEF FilledSeq
<1>4. \A i \in 1 .. Len(txs) : FilledOf(T, fill_transaction(d, txs[i]))
  BY <1>1, FilledIs DEF fill_transaction
<1>5. \A i \in 1 .. Len(txs) : fill_transaction(d, txs[i]).data = txs[i].data
  BY DEF fill_transaction, filled_with
<1> QED
  BY <1>1, <1>2, <1>3, <1>4, <1>5

\* A block that connects is the loop over its filled transactions, and then
\* changes neither pools nor auctions.
ConnectedBy(d, b, r, g) ==
    LET F == FilledSeq(d, b.txs)
    IN  /\ AfterEq(g, Len(b.txs), "connect", d, F, next_height(d))
        /\ g[Len(b.txs)].tag = "ok"
        /\ DOMAIN g[Len(b.txs)].db = DbFields =>
              /\ DOMAIN r.db = DbFields /\ r.db.height = next_height(d)
              /\ r.db.amm_pools = g[Len(b.txs)].db.amm_pools
              /\ r.db.dutch_auctions = g[Len(b.txs)].db.dutch_auctions

LEMMA ApplyBlockIs ==
    ASSUME NEW T, Typed(T), NEW d, NEW b, b.txs \in Seq(T), apply_block(d, b).tag = "ok"
    PROVE  \E g : ConnectedBy(d, b, apply_block(d, b), g)
<1> DEFINE F == FilledSeq(d, b.txs)
           h == next_height(d)
           r == apply_block(d, b)
           l == apply_all(d, F, h)
           m == move_outputs(l.db, b, F)
<1>1. r = connect_prevalidated(d, b, F, h)
  BY DEF apply_block, Err, FilledSeq
<1>2. l.tag = "ok" /\ m.tag = "ok" /\ r = set_tip(m.db, b, h)
  BY <1>1 DEF connect_prevalidated, Then, Err
<1>3. Len(F) = Len(b.txs) /\ Len(F) \in Nat
  BY FilledSeqIs
<1>4. PICK g : AfterEq(g, Len(F), "connect", d, F, h) /\ l = g[Len(F)]
  BY <1>3, ForEachConnect
<1> HIDE DEF l
<1>5. ASSUME DOMAIN l.db = DbFields
      PROVE  /\ DOMAIN m.db = DbFields
             /\ m.db.amm_pools = l.db.amm_pools /\ m.db.dutch_auctions = l.db.dutch_auctions
  BY <1>5 DEF move_outputs, Ok, DbFields
<1> HIDE DEF m
<1> HIDE DEF r
<1>6. ASSUME DOMAIN m.db = DbFields
      PROVE  /\ DOMAIN r.db = DbFields /\ r.db.height = h
             /\ r.db.amm_pools = m.db.amm_pools /\ r.db.dutch_auctions = m.db.dutch_auctions
  BY <1>2, <1>6 DEF set_tip, Ok, DbFields
<1> HIDE DEF F, h
<1>7. DOMAIN l.db = DbFields =>
          /\ DOMAIN r.db = DbFields /\ r.db.height = h
          /\ r.db.amm_pools = l.db.amm_pools /\ r.db.dutch_auctions = l.db.dutch_auctions
  BY <1>5, <1>6
<1>8. ConnectedBy(d, b, r, g)
  BY <1>2, <1>3, <1>4, <1>7 DEF ConnectedBy, F, h
<1> QED
  BY <1>8 DEF r

LEMMA ApplyBlockKeeps ==
    ASSUME NEW T, Typed(T), NEW d, DbInv(T, d), NEW b, b.txs \in Seq(T),
           apply_block(d, b).tag = "ok"
    PROVE  DbInv(T, apply_block(d, b).db)
<1> DEFINE F == FilledSeq(d, b.txs)
           h == next_height(d)
           r == apply_block(d, b)
<1>1. PICK g : ConnectedBy(d, b, r, g)
  BY ApplyBlockIs
<1>2. /\ Len(b.txs) \in Nat /\ \A i \in 1 .. Len(b.txs) : FilledOf(T, F[i])
      /\ h \in Int
  BY FilledSeqIs DEF next_height, DbInv
<1>3. AfterEq(g, Len(b.txs), "connect", d, F, h) /\ g[Len(b.txs)].tag = "ok"
  BY <1>1 DEF ConnectedBy
<1> HIDE DEF F, h, r
<1>4. StepsKeep(T, "connect", F, h, Len(b.txs))
  BY <1>2, StepConnect DEF Applied, Reverted, StepsKeep
<1>5. DbInv(T, g[Len(b.txs)].db)
  <2> DEFINE N == Len(b.txs)
  <2>1. N \in Nat /\ DbInv(T, d) /\ AfterEq(g, N, "connect", d, F, h)
        /\ StepsKeep(T, "connect", F, h, N)
    BY <1>2, <1>3, <1>4
  <2> HIDE DEF N
  <2>2. \A n \in 0 .. N : Reverted(T, g[n])
    BY <2>1, LoopKeeps
  <2>3. N \in 0 .. N
    BY <2>1
  <2> QED
    BY <1>3, <2>2, <2>3 DEF Reverted, N
<1>6. /\ DOMAIN r.db = DbFields /\ r.db.height = h
      /\ r.db.amm_pools = g[Len(b.txs)].db.amm_pools
      /\ r.db.dutch_auctions = g[Len(b.txs)].db.dutch_auctions
  BY <1>1, <1>5 DEF ConnectedBy, DbInv, h
<1>7. DbInv(T, r.db)
  BY <1>2, <1>5, <1>6 DEF DbInv
<1> QED
  BY <1>7 DEF r

LEMMA DisconnectTipKeeps ==
    ASSUME NEW T, Typed(T), NEW d, DbInv(T, d), NEW b, b.txs \in Seq(T),
           disconnect_tip(d, b).tag = "ok"
    PROVE  DbInv(T, disconnect_tip(d, b).db)
<1> DEFINE h == d.height
           R == revert_order(b.txs)
           r == disconnect_tip(d, b)
           l == disconnect_all(d, R, h)
           O == {Coinbase(hash(b), i) : i \in DOMAIN b.coinbase}
           m == DeleteUtxos(l.db, O)
<1>1. l.tag = "ok" /\ m.tag = "ok"
      /\ r = Ok([m.db EXCEPT !.tip = b.prev_side_hash, !.height = h - 1])
  BY DEF disconnect_tip, Then, Err
<1>2. /\ Len(R) \in Nat /\ \A i \in 1 .. Len(R) : R[i] \in T
      /\ h \in Int
  BY DEF revert_order, Reverse, DbInv
<1>3. PICK g : AfterEq(g, Len(R), "disconnect", d, R, h) /\ l = g[Len(R)]
  BY <1>2, ForEachDisconnect
<1> HIDE DEF l, R, h, O
<1>4. StepsKeep(T, "disconnect", R, h, Len(R))
  BY <1>2, StepDisconnect DEF StepsKeep
<1>5. DbInv(T, l.db)
  <2>1. l.tag = "ok" /\ Len(R) \in 0 .. Len(R)
    BY <1>1, <1>2
  <2>2. \A n \in 0 .. Len(R) : Reverted(T, g[n])
    BY <1>2, <1>3, <1>4, LoopKeeps
  <2> QED
    BY <1>3, <2>1, <2>2 DEF Reverted
<1>6. DbInv(T, m.db)
  <2>1. m.db = [l.db EXCEPT !.utxos = Without(@, O)]
    BY <1>1 DEF DeleteUtxos, Guarded, Ok, Err, Panic
  <2> HIDE DEF m
  <2> QED
    BY <1>5, <2>1, OutputsMoved, SameBoth DEF NamesOnly
<1> HIDE DEF m
<1>7. DbInv(T, [m.db EXCEPT !.tip = b.prev_side_hash, !.height = h - 1])
  BY <1>2, <1>6 DEF DbInv, DbFields
<1> HIDE DEF r
<1>8. DbInv(T, r.db)
  BY <1>1, <1>7 DEF Ok
<1> QED
  BY <1>8 DEF r

LEMMA ConnectAllKeeps ==
    ASSUME NEW T, Typed(T), NEW d, DbInv(T, d), NEW bodies \in Seq(Seq(T))
    PROVE  DbInv(T, ConnectAll(d, bodies))
<1>1. Len(bodies) \in Nat /\ \A n \in 1 .. Len(bodies) : bodies[n] \in Seq(T)
  OBVIOUS
<1>2. PICK g : /\ AfterEq(g, Len(bodies), "prefix", d, bodies, 0)
               /\ ConnectAll(d, bodies) = g[Len(bodies)].db
  BY <1>1, ForEachPrefix
<1>4. ASSUME NEW n \in 1 .. Len(bodies), NEW e, DbInv(T, e)
      PROVE  /\ Reverted(T, Step("prefix", e, bodies[n], 0))
             /\ Step("prefix", e, bodies[n], 0).tag = "ok"
  <2> DEFINE b == BlockOf(e, bodies[n])
             r == apply_block(e, b)
  <2>1. b.txs \in Seq(T)
    BY <1>1 DEF BlockOf
  <2>2. Step("prefix", e, bodies[n], 0) = IF r.tag = "ok" THEN r ELSE Ok(e)
    BY DEF Step, ConnectBody
  <2>3. r.tag = "ok" => DbInv(T, r.db)
    <3> HIDE DEF b
    <3> QED
      BY <1>4, <2>1, ApplyBlockKeeps
  <2> HIDE DEF r
  <2> QED
    BY <1>4, <2>2, <2>3 DEF Reverted, Ok
<1>5. \A n \in 0 .. Len(bodies) : Reverted(T, g[n])
  <2>1. StepsKeep(T, "prefix", bodies, 0, Len(bodies))
    BY <1>4 DEF StepsKeep
  <2> QED
    BY <1>1, <1>2, <2>1, LoopKeeps
<1>6. g[Len(bodies)].tag = "ok"
  <2> DEFINE S == {n \in 0 .. Len(bodies) : g[n].tag # "ok"}
  <2> SUFFICES ASSUME S # {} PROVE FALSE
    BY <1>1
  <2>1. PICK n \in S : \A j \in S : n <= j
    <3>1. S \subseteq Nat
      OBVIOUS
    <3> HIDE DEF S
    <3> QED
      BY <3>1, LeastNatural
  <2>2. n # 0
    BY <1>1, <1>2, <2>1 DEF AfterEq, Ok
  <2>3. n - 1 \in 0 .. Len(bodies) /\ n - 1 \notin S /\ n \in 1 .. Len(bodies)
    BY <1>1, <2>1, <2>2
  <2>4. g[n - 1].tag = "ok" /\ DbInv(T, g[n - 1].db)
    BY <1>5, <2>3 DEF Reverted
  <2>5. g[n] = StepFrom("prefix", g[n - 1], bodies[n], 0)
    BY <1>2, <2>2 DEF AfterEq
  <2>6. g[n].tag = "ok"
    BY <1>4, <2>3, <2>4, <2>5 DEF StepFrom
  <2> QED
    BY <2>6
<1> QED
  BY <1>1, <1>2, <1>5, <1>6 DEF Reverted

-----------------------------------------------------------------------------
(***************************************************************************)
(* The specification.                                                      *)
(***************************************************************************)
ChainOf(T) == \E S : chain \in Seq(S) /\ \A c \in S : c.block.txs \in Seq(T)

\* The inductive invariant: every transaction is one of the scenario, and the
\* pools and auctions are those that such transactions leave.
IInv ==
    \E s \in Scenario : offered = s.offered /\ ChainOf(Txs(s)) /\ DbInv(Txs(s), db)

LEMMA ScenarioTyped ==
    ASSUME NEW s \in Scenario
    PROVE  Typed(Txs(s)) /\ s.prefix \in Seq(Seq(Txs(s))) /\ s.offered \subseteq Txs(s)
  BY StateBlockAssumption DEF Typed, Txs

LEMMA InitInvariant == Init => IInv
<1> SUFFICES ASSUME Init PROVE IInv
  OBVIOUS
<1>1. PICK s \in Scenario : /\ offered = s.offered
                            /\ db = ConnectAll([EmptyDb EXCEPT !.utxos = s.utxos], s.prefix)
                            /\ chain = <<>>
  BY DEF Init
<1> DEFINE T == Txs(s)
           e == [EmptyDb EXCEPT !.utxos = s.utxos]
<1>2. Typed(T) /\ s.prefix \in Seq(Seq(T))
  BY ScenarioTyped
<1> HIDE DEF T
<1>3. DbInv(T, e)
  <2>1. e.amm_pools = <<>> /\ e.dutch_auctions = <<>> /\ e.height = -1 /\ DOMAIN e = DbFields
    BY DEF EmptyDb, DbFields
  <2>2. PoolsOK(<<>>) /\ AuctionsOK(T, <<>>)
    BY DEF PoolsOK, AuctionsOK
  <2> HIDE DEF e
  <2> QED
    BY <2>1, <2>2 DEF DbInv
<1> HIDE DEF e
<1>4. DbInv(T, db)
  BY <1>1, <1>2, <1>3, ConnectAllKeeps DEF e
<1>5. ChainOf(T)
  <2>1. chain \in Seq({})
    BY <1>1
  <2> QED
    BY <2>1 DEF ChainOf
<1> QED
  BY <1>1, <1>4, <1>5 DEF IInv, T

\* The block of Connect and what becomes of it.
ConnectStep(T, b) ==
    /\ b.txs \in Seq(T)
    /\ apply_block(db, b).tag = "ok"
    /\ db' = apply_block(db, b).db
    /\ chain' = Append(chain, [block |-> b, before |-> db])

LEMMA ConnectIs ==
    ASSUME NEW T, offered \subseteq T, NEW body \in Bodies, Connect(body)
    PROVE  \E b : ConnectStep(T, b)
<1> DEFINE b == BlockOf(db, body)
<1>1. PICK n \in 0 .. MaxTxs : body \in [1 .. n -> offered]
  BY DEF Bodies
<1>2. n \in Nat
  BY <1>1, StateBlockAssumption
<1>3. body \in Seq(T)
  BY <1>1, <1>2
<1>4. b.txs = body
  BY DEF BlockOf
<1> HIDE DEF b
<1>5. ConnectStep(T, b)
  BY <1>3, <1>4 DEF Connect, ConnectStep, b
<1> QED
  BY <1>5

LEMMA NextInvariant == IInv /\ [Next]_vars => IInv'
<1> SUFFICES ASSUME IInv, [Next]_vars PROVE IInv'
  OBVIOUS
<1>1. PICK s \in Scenario : offered = s.offered /\ ChainOf(Txs(s)) /\ DbInv(Txs(s), db)
  BY DEF IInv
<1> DEFINE T == Txs(s)
<1>2. Typed(T) /\ offered \subseteq T
  BY <1>1, ScenarioTyped
<1>3. ChainOf(T) /\ DbInv(T, db)
  BY <1>1
<1>4. PICK S : chain \in Seq(S) /\ \A c \in S : c.block.txs \in Seq(T)
  BY <1>1 DEF ChainOf
<1> SUFFICES ASSUME TRUE PROVE offered' = offered /\ ChainOf(T)' /\ DbInv(T, db')
  BY <1>1 DEF IInv
<1> HIDE DEF T
<1>5. ASSUME NEW body \in Bodies, Connect(body)
      PROVE  offered' = offered /\ ChainOf(T)' /\ DbInv(T, db')
  <2>1. PICK b : ConnectStep(T, b)
    BY <1>2, <1>5, ConnectIs
  <2>2. DbInv(T, db')
    BY <1>2, <1>3, <2>1, ApplyBlockKeeps DEF ConnectStep
  <2>3. ChainOf(T)'
    <3> DEFINE c == [block |-> b, before |-> db]
               U == S \cup {c}
    <3>1. chain' = Append(chain, c) /\ c.block.txs \in Seq(T)
      BY <2>1 DEF ConnectStep
    <3> HIDE DEF c
    <3>2. chain' \in Seq(U) /\ \A x \in U : x.block.txs \in Seq(T)
      BY <1>4, <3>1
    <3> QED
      BY <3>2 DEF ChainOf
  <2> QED
    BY <1>5, <2>2, <2>3 DEF Connect
<1>6. ASSUME Disconnect
      PROVE  offered' = offered /\ ChainOf(T)' /\ DbInv(T, db')
  <2>1. /\ chain # <<>> /\ chain' = Front(chain)
        /\ disconnect_tip(db, Last(chain).block).tag = "ok"
        /\ db' = disconnect_tip(db, Last(chain).block).db
        /\ offered' = offered
    BY <1>6 DEF Disconnect
  <2>2. Last(chain) \in S /\ chain' \in Seq(S)
    BY <1>4, <2>1 DEF Last, Front
  <2>3. DbInv(T, db')
    BY <1>2, <1>3, <1>4, <2>1, <2>2, DisconnectTipKeeps
  <2> QED
    BY <1>4, <2>1, <2>2, <2>3 DEF ChainOf
<1>7. CASE UNCHANGED vars
  BY <1>3, <1>7 DEF vars, ChainOf
<1> QED
  BY <1>5, <1>6, <1>7 DEF Next

LEMMA Invariant == Spec => []IInv
<1>1. Init => IInv
  BY InitInvariant
<1>2. IInv /\ [Next]_vars => IInv'
  BY NextInvariant
<1> QED
  BY <1>1, <1>2, PTL DEF Spec

\* Through any blocks connected and disconnected, the price of an auction never
\* falls below its end price and it never sells more than it was given
\* (DutchAuctionState::bid and revert_bid, their divisions rounded up).
THEOREM AuctionsSound == Spec => []AuctionSound
<1>1. IInv => AuctionSound
  <2> SUFFICES ASSUME IInv, NEW id \in DOMAIN db.dutch_auctions
               PROVE  LET a == db.dutch_auctions[id]
                      IN  /\ end_price_after(a) <= price_after(a)
                          /\ base_remaining(a) <= a.initial_base_amount
                          /\ quote_received(a) <= a.initial_price
    BY DEF AuctionSound
  <2>1. PICK s \in Scenario : DbInv(Txs(s), db)
    BY DEF IInv
  <2>2. AuctionOK(Txs(s), db.dutch_auctions[id])
    BY <2>1 DEF DbInv, AuctionsOK
  <2> QED
    BY <2>2, LatestValues
<1> QED
  BY <1>1, Invariant, PTL

-----------------------------------------------------------------------------
(***************************************************************************)
(* The holders of LP tokens.                                               *)
(***************************************************************************)
BurnsUpTo(F, n) == \E i \in 1 .. n : F[i].data.kind = "AmmBurn"

\* The pools before the block and after its first n transactions.
PoolsOver(F, P, Q, n) ==
    /\ DOMAIN P \subseteq DOMAIN Q
    /\ \A pair \in DOMAIN P :
        /\ Worth(P[pair], Q[pair])
        /\ P[pair].outstanding_lp_tokens > 0 /\ Q[pair].outstanding_lp_tokens = 0 => BurnsUpTo(F, n)

NoMintAfterBurn(F, N) ==
    \A i, j \in 1 .. N : ~(i < j /\ F[i].data.kind = "AmmBurn" /\ F[j].data.kind = "AmmMint")

LEMMA OverStep ==
    ASSUME NEW F, NEW N \in Nat, NoMintAfterBurn(F, N), NEW n \in 1 .. N,
           NEW P, NEW Q, NEW R, PoolsOK(P), PoolsOK(Q), PoolsOK(R),
           PoolsOver(F, P, Q, n - 1), PoolsMoved(F[n].data.kind, Q, R)
    PROVE  PoolsOver(F, P, R, n)
<1>1. DOMAIN P \subseteq DOMAIN R
  BY DEF PoolsOver, PoolsMoved
<1> SUFFICES ASSUME NEW pair \in DOMAIN P, P[pair].outstanding_lp_tokens > 0
             PROVE  /\ Worth(P[pair], R[pair])
                    /\ R[pair].outstanding_lp_tokens = 0 => BurnsUpTo(F, n)
  BY <1>1 DEF PoolsOver, Worth
<1> DEFINE p == P[pair]
           q == Q[pair]
           z == R[pair]
<1>2. p \in PoolState /\ q \in PoolState /\ z \in PoolState
  BY <1>1 DEF PoolsOver, PoolsOK
<1>3. /\ Worth(p, q) /\ PoolMoved(F[n].data.kind, q, z)
      /\ q.outstanding_lp_tokens = 0 => BurnsUpTo(F, n - 1)
  BY DEF PoolsOver, PoolsMoved
<1>4. p.outstanding_lp_tokens > 0
  OBVIOUS
<1> HIDE DEF p, q, z
<1>5. /\ p.reserve0 \in Nat /\ p.reserve1 \in Nat /\ p.outstanding_lp_tokens \in Nat
      /\ q.reserve0 \in Nat /\ q.reserve1 \in Nat /\ q.outstanding_lp_tokens \in Nat
      /\ z.reserve0 \in Nat /\ z.reserve1 \in Nat /\ z.outstanding_lp_tokens \in Nat
  BY <1>2 DEF PoolState, Amount
<1>6. CASE q.outstanding_lp_tokens > 0
  <2>1. Worth(p, z)
    <3> SUFFICES ASSUME z.outstanding_lp_tokens > 0
                 PROVE  z.reserve0 * z.reserve1 * p.outstanding_lp_tokens * p.outstanding_lp_tokens
                        >= p.reserve0 * p.reserve1 * z.outstanding_lp_tokens * z.outstanding_lp_tokens
      BY DEF Worth
    <3> DEFINE a == p.reserve0 * p.reserve1
               b == q.reserve0 * q.reserve1
               c == z.reserve0 * z.reserve1
               l == p.outstanding_lp_tokens
               m == q.outstanding_lp_tokens
               k == z.outstanding_lp_tokens
    <3>1. a \in Nat /\ b \in Nat /\ c \in Nat
      BY <1>5, Z3
    <3>2. b * l * l >= a * m * m
      BY <1>3, <1>4, <1>6 DEF Worth
    <3>3. c * m * m >= b * k * k
      BY <1>3, <1>6 DEF Worth, PoolMoved
    <3>4. l \in Nat /\ m \in Nat /\ k \in Nat /\ 0 < m
      BY <1>5, <1>6
    <3> HIDE DEF a, b, c, l, m, k
    <3>5. c * l * l >= a * k * k
      BY <3>1, <3>2, <3>3, <3>4, WorthChain
    <3> QED
      BY <3>5 DEF a, c, l, k
  <2>2. z.outstanding_lp_tokens = 0 => BurnsUpTo(F, n)
    <3>1. z.outstanding_lp_tokens = 0 => F[n].data.kind = "AmmBurn"
      BY <1>3, <1>5, <1>6 DEF PoolMoved
    <3> QED
      BY <3>1 DEF BurnsUpTo
  <2> QED
    BY <2>1, <2>2 DEF p, z
<1>7. CASE q.outstanding_lp_tokens = 0
  <2>1. PICK i \in 1 .. (n - 1) : F[i].data.kind = "AmmBurn"
    BY <1>3, <1>7 DEF BurnsUpTo
  <2>2. i \in 1 .. N /\ i \in 1 .. n /\ i < n
    OBVIOUS
  <2>3. F[n].data.kind # "AmmMint"
    BY <2>1, <2>2 DEF NoMintAfterBurn
  <2>4. z.outstanding_lp_tokens = 0
    BY <1>3, <1>7, <2>3 DEF PoolMoved
  <2>5. BurnsUpTo(F, n)
    BY <2>1, <2>2 DEF BurnsUpTo
  <2> QED
    BY <2>4, <2>5 DEF Worth, z
<1> QED
  BY <1>5, <1>6, <1>7

LEMMA LoopNotDiluted ==
    ASSUME NEW T, NEW d, DbInv(T, d), NEW F, NEW height \in Int, NEW N \in Nat,
           \A n \in 1 .. N : FilledOf(T, F[n]), NoMintAfterBurn(F, N),
           NEW g, AfterEq(g, N, "connect", d, F, height), g[N].tag = "ok"
    PROVE  DbInv(T, g[N].db) /\ PoolsOver(F, d.amm_pools, g[N].db.amm_pools, N)
<1> DEFINE Fine(n) ==
             g[n].tag = "ok" => DbInv(T, g[n].db) /\ PoolsOver(F, d.amm_pools, g[n].db.amm_pools, n)
           S == {n \in 0 .. N : ~Fine(n)}
<1>1. S = {}
  <2> SUFFICES ASSUME S # {} PROVE FALSE
    OBVIOUS
  <2>1. PICK n \in S : \A j \in S : n <= j
    <3>1. S \subseteq Nat
      OBVIOUS
    <3> HIDE DEF S
    <3> QED
      BY <3>1, LeastNatural
  <2>2. n # 0
    <3>1. g[0] = Ok(d)
      BY DEF AfterEq
    <3>2. PoolsOver(F, d.amm_pools, d.amm_pools, 0)
      <4>1. ASSUME NEW pair \in DOMAIN d.amm_pools
            PROVE  /\ Worth(d.amm_pools[pair], d.amm_pools[pair])
                   /\ d.amm_pools[pair].outstanding_lp_tokens \in Nat
        BY <4>1, WorthSelf DEF DbInv, PoolsOK, PoolMoved, PoolState, Amount
      <4> QED
        BY <4>1 DEF PoolsOver
    <3> QED
      BY <2>1, <3>1, <3>2 DEF Ok
  <2>3. n - 1 \in 0 .. N /\ n - 1 \notin S /\ n \in 1 .. N
    BY <2>1, <2>2
  <2>4. Fine(n - 1)
    BY <2>3
  <2>5. g[n] = StepFrom("connect", g[n - 1], F[n], height)
    BY <2>2 DEF AfterEq
  <2>6. ASSUME g[n].tag = "ok"
        PROVE  DbInv(T, g[n].db) /\ PoolsOver(F, d.amm_pools, g[n].db.amm_pools, n)
    <3>1. g[n - 1].tag = "ok" /\ g[n] = Step("connect", g[n - 1].db, F[n], height)
      BY <2>5, <2>6 DEF StepFrom
    <3>2. DbInv(T, g[n - 1].db) /\ PoolsOver(F, d.amm_pools, g[n - 1].db.amm_pools, n - 1)
      BY <2>4, <3>1
    <3>3. Applied(T, g[n - 1].db, F[n], g[n])
      BY <2>3, <3>1, <3>2, StepConnect
    <3>4. DbInv(T, g[n].db) /\ PoolsMoved(F[n].data.kind, g[n - 1].db.amm_pools, g[n].db.amm_pools)
      BY <2>6, <3>3 DEF Applied
    <3>5. PoolsOK(d.amm_pools) /\ PoolsOK(g[n - 1].db.amm_pools) /\ PoolsOK(g[n].db.amm_pools)
      BY <3>2, <3>4 DEF DbInv
    <3> QED
      BY <2>3, <3>2, <3>4, <3>5, OverStep
  <2> QED
    BY <2>1, <2>6
<1> QED
  BY <1>1

LEMMA BlockNotDiluted ==
    ASSUME NEW T, Typed(T), NEW d, DbInv(T, d), NEW b, b.txs \in Seq(T),
           apply_block(d, b).tag = "ok", ~MintsAfterBurn(b), NEW pair \in DOMAIN d.amm_pools
    PROVE  Worth(d.amm_pools[pair], apply_block(d, b).db.amm_pools[pair])
<1> DEFINE F == FilledSeq(d, b.txs)
           h == next_height(d)
           r == apply_block(d, b)
           N == Len(b.txs)
<1>1. PICK g : ConnectedBy(d, b, r, g)
  BY ApplyBlockIs
<1>2. /\ N \in Nat /\ DOMAIN b.txs = 1 .. N /\ \A i \in 1 .. N : FilledOf(T, F[i])
      /\ \A i \in 1 .. N : F[i].data = b.txs[i].data
      /\ h \in Int
  BY FilledSeqIs DEF next_height, DbInv
<1>3. NoMintAfterBurn(F, N)
  BY <1>2 DEF MintsAfterBurn, NoMintAfterBurn, Is
<1>4. AfterEq(g, N, "connect", d, F, h) /\ g[N].tag = "ok"
  BY <1>1 DEF ConnectedBy
<1> HIDE DEF F, h, r, N
<1>5. DbInv(T, g[N].db) /\ PoolsOver(F, d.amm_pools, g[N].db.amm_pools, N)
  BY <1>2, <1>3, <1>4, LoopNotDiluted
<1>6. r.db.amm_pools = g[N].db.amm_pools
  BY <1>1, <1>5 DEF ConnectedBy, DbInv, N
<1> QED
  BY <1>5, <1>6 DEF PoolsOver, r

LEMMA FrontLen ==
    ASSUME NEW S, NEW r \in Seq(S), Len(r) >= 1
    PROVE  Len(Front(r)) = Len(r) - 1
<1>1. SubSeq(r, 1, Len(r) - 1) = [i \in 1 .. Len(r) - 1 |-> r[i]]
  OBVIOUS
<1>2. Len([i \in 1 .. Len(r) - 1 |-> r[i]]) = Len(r) - 1
  OBVIOUS
<1> QED
  BY <1>1, <1>2 DEF Front

\* No block, whatever its transactions, takes value from those who hold LP
\* tokens (PoolState::mint, burn and the two swaps, their divisions rounded in
\* favour of the pool): the product of the reserves relative to the square of
\* the outstanding tokens never falls while tokens are outstanding.
THEOREM HoldersNotDiluted == Spec => NotDiluted
<1> DEFINE A == Len(chain') > Len(chain) /\ ~MintsAfterBurn(Last(chain').block) =>
                  \A pair \in DOMAIN db.amm_pools :
                      LET p == db.amm_pools[pair]
                          q == db.amm_pools'[pair]
                      IN  p.outstanding_lp_tokens > 0 /\ q.outstanding_lp_tokens > 0 =>
                              q.reserve0 * q.reserve1 * p.outstanding_lp_tokens * p.outstanding_lp_tokens
                              >= p.reserve0 * p.reserve1 * q.outstanding_lp_tokens * q.outstanding_lp_tokens
<1>1. IInv /\ [Next]_vars => A
  <2> SUFFICES ASSUME IInv, [Next]_vars, Len(chain') > Len(chain),
                      ~MintsAfterBurn(Last(chain').block)
               PROVE  \A pair \in DOMAIN db.amm_pools :
                          Worth(db.amm_pools[pair], db'.amm_pools[pair])
    BY DEF Worth
  <2>1. PICK s \in Scenario : offered = s.offered /\ ChainOf(Txs(s)) /\ DbInv(Txs(s), db)
    BY DEF IInv
  <2> DEFINE T == Txs(s)
  <2>2. Typed(T) /\ offered \subseteq T /\ DbInv(T, db)
    BY <2>1, ScenarioTyped
  <2>3. PICK S : chain \in Seq(S)
    BY <2>1 DEF ChainOf
  <2> HIDE DEF T
  <2>4. ~Disconnect /\ ~UNCHANGED vars
    <3>1. Disconnect => chain # <<>> /\ chain' = Front(chain)
      BY DEF Disconnect
    <3>2. chain # <<>> => Len(chain) >= 1
      BY <2>3
    <3>3. Len(chain) \in Nat /\ (Len(chain) >= 1 => Len(Front(chain)) = Len(chain) - 1)
      BY <2>3, FrontLen
    <3> QED
      BY <3>1, <3>2, <3>3 DEF vars
  <2>5. PICK body \in Bodies : Connect(body)
    BY <2>4 DEF Next
  <2>6. PICK b : ConnectStep(T, b)
    BY <2>2, <2>5, ConnectIs
  <2>7. Last(chain').block = b
    <3> DEFINE c == [block |-> b, before |-> db]
    <3>1. chain' = Append(chain, c) /\ c.block = b
      BY <2>6 DEF ConnectStep
    <3> HIDE DEF c
    <3> QED
      BY <2>3, <3>1 DEF Last
  <2> QED
    BY <2>2, <2>6, <2>7, BlockNotDiluted DEF ConnectStep
<1>2. IInv /\ [Next]_vars => [A]_vars
  BY <1>1
<1> QED
  BY <1>2, Invariant, PTL DEF Spec, NotDiluted
-----------------------------------------------------------------------------
(***************************************************************************)
(* Undoing a transaction.  First its outputs: functions are undone as they *)
(* were overridden.                                                        *)
(***************************************************************************)
IsFun(f) == f = [x \in DOMAIN f |-> f[x]]

LEMMA FunsEqual ==
    ASSUME NEW f, NEW g, IsFun(f), IsFun(g), DOMAIN f = DOMAIN g,
           \A x \in DOMAIN f : f[x] = g[x]
    PROVE  f = g
  BY DEF IsFun

LEMMA PutAllIs ==
    ASSUME NEW f, NEW g
    PROVE  /\ IsFun(put_all(f, g)) /\ DOMAIN put_all(f, g) = DOMAIN f \cup DOMAIN g
           /\ \A x \in DOMAIN g : put_all(f, g)[x] = g[x]
           /\ \A x \in DOMAIN f \ DOMAIN g : put_all(f, g)[x] = f[x]
  BY DEF put_all, IsFun

LEMMA WithoutIs ==
    ASSUME NEW f, NEW S
    PROVE  /\ IsFun(Without(f, S)) /\ DOMAIN Without(f, S) = DOMAIN f \ S
           /\ \A x \in DOMAIN f \ S : Without(f, S)[x] = f[x]
  BY DEF Without, IsFun

\* I is spent and N created; N is deleted and I restored.
LEMMA MovedBack ==
    ASSUME NEW V, IsFun(V), NEW I, I \subseteq DOMAIN V, NEW N, DOMAIN N \cap DOMAIN V = {},
           NEW W, W = put_all(Without(V, I), N), NEW R, IsFun(R), DOMAIN R = I,
           \A o \in I : R[o] = V[o]
    PROVE  DOMAIN N \subseteq DOMAIN W /\ put_all(Without(W, DOMAIN N), R) = V
<1> DEFINE X == put_all(Without(W, DOMAIN N), R)
<1>1. /\ DOMAIN W = (DOMAIN V \ I) \cup DOMAIN N
      /\ \A o \in (DOMAIN V \ I) : W[o] = V[o]
  BY DEF put_all, Without, IsFun
<1>2. /\ IsFun(X) /\ DOMAIN X = (DOMAIN W \ DOMAIN N) \cup I
      /\ \A o \in I : X[o] = V[o]
      /\ \A o \in (DOMAIN W \ DOMAIN N) \ I : X[o] = W[o]
  BY DEF put_all, Without, IsFun
<1> HIDE DEF X
<1>3. X = V
  BY <1>1, <1>2, FunsEqual
<1> QED
  BY <1>1, <1>3 DEF X

\* What is added to stxos is taken out again.
LEMMA TakenBack ==
    ASSUME NEW S, IsFun(S), NEW N, DOMAIN N \cap DOMAIN S = {}
    PROVE  Without(put_all(S, N), DOMAIN N) = S
<1> DEFINE X == Without(put_all(S, N), DOMAIN N)
<1>1. IsFun(X) /\ DOMAIN X = DOMAIN S /\ \A o \in DOMAIN S : X[o] = S[o]
  BY DEF put_all, Without, IsFun
<1> HIDE DEF X
<1> QED
  BY <1>1, FunsEqual DEF X

\* The outputs of a block, moved at once and one transaction after another.
LEMMA MovedNext ==
    ASSUME NEW V, NEW A, NEW P, NEW I, NEW N, I \cap DOMAIN A = {}
    PROVE  put_all(Without(V, P \cup I), put_all(A, N))
             = put_all(Without(put_all(Without(V, P), A), I), N)
<1> DEFINE X == put_all(Without(V, P \cup I), put_all(A, N))
           Y == put_all(Without(put_all(Without(V, P), A), I), N)
           Z == put_all(Without(V, P), A)
           B == put_all(A, N)
<1>1. /\ DOMAIN B = DOMAIN A \cup DOMAIN N
      /\ \A o \in DOMAIN N : B[o] = N[o]
      /\ \A o \in DOMAIN A \ DOMAIN N : B[o] = A[o]
  BY PutAllIs
<1>2. /\ DOMAIN Z = (DOMAIN V \ P) \cup DOMAIN A
      /\ \A o \in DOMAIN A : Z[o] = A[o]
      /\ \A o \in (DOMAIN V \ P) \ DOMAIN A : Z[o] = V[o]
  BY DEF put_all, Without, IsFun
<1> HIDE DEF Z, B
<1>3. /\ IsFun(X) /\ DOMAIN X = (DOMAIN V \ (P \cup I)) \cup DOMAIN B
      /\ \A o \in DOMAIN B : X[o] = B[o]
      /\ \A o \in (DOMAIN V \ (P \cup I)) \ DOMAIN B : X[o] = V[o]
  BY DEF B, put_all, Without, IsFun
<1>4. /\ IsFun(Y) /\ DOMAIN Y = (DOMAIN Z \ I) \cup DOMAIN N
      /\ \A o \in DOMAIN N : Y[o] = N[o]
      /\ \A o \in (DOMAIN Z \ I) \ DOMAIN N : Y[o] = Z[o]
  BY DEF Z, put_all, Without, IsFun
<1> HIDE DEF X, Y
<1>5. DOMAIN X = DOMAIN Y
  BY <1>1, <1>2, <1>3, <1>4
<1>6. ASSUME NEW o \in DOMAIN X PROVE X[o] = Y[o]
  <2>1. CASE o \in DOMAIN N
    BY <1>1, <1>3, <1>4, <2>1
  <2>2. CASE o \notin DOMAIN N /\ o \in DOMAIN A
    BY <1>1, <1>2, <1>3, <1>4, <2>2
  <2>3. CASE o \notin DOMAIN N /\ o \notin DOMAIN A
    BY <1>1, <1>2, <1>3, <1>4, <1>6, <2>3
  <2> QED BY <2>1, <2>2, <2>3
<1>7. X = Y
  BY <1>3, <1>4, <1>5, <1>6, FunsEqual
<1> QED
  BY <1>7 DEF X, Y

\* put and delete.
LEMMA PutDeleted ==
    ASSUME NEW f, IsFun(f), NEW k, NEW v
    PROVE  /\ k \notin DOMAIN f => delete(put(f, k, v), k) = f
           /\ k \in DOMAIN f => put(put(f, k, v), k, f[k]) = f
           /\ k \in DOMAIN f => put(delete(f, k), k, f[k]) = f
  BY DEF put, delete, IsFun

LEMMA PutIs ==
    ASSUME NEW f, NEW k, NEW v
    PROVE  /\ IsFun(put(f, k, v)) /\ DOMAIN put(f, k, v) = DOMAIN f \cup {k}
           /\ put(f, k, v)[k] = v
           /\ \A x \in DOMAIN f \ {k} : put(f, k, v)[x] = f[x]
           /\ IsFun(delete(f, k)) /\ DOMAIN delete(f, k) = DOMAIN f \ {k}
           /\ \A x \in DOMAIN f \ {k} : delete(f, k)[x] = f[x]
  BY DEF put, delete, IsFun

-----------------------------------------------------------------------------
(***************************************************************************)
(* The databases of the data of transactions, and the others.              *)
(***************************************************************************)
IsDb(d) == d = [x \in DbFields |-> d[x]]

SameData(d, e) ==
    /\ d.amm_pools = e.amm_pools /\ d.dutch_auctions = e.dutch_auctions
    /\ d.reservations = e.reservations /\ d.bitassets = e.bitassets
    /\ d.seq_to_bitasset = e.seq_to_bitasset /\ d.bitasset_to_seq = e.bitasset_to_seq

SameRest(d, e) ==
    d.utxos = e.utxos /\ d.stxos = e.stxos /\ d.tip = e.tip /\ d.height = e.height

LEMMA DbsEqual ==
    ASSUME NEW d, NEW e, IsDb(d), IsDb(e), SameData(d, e), SameRest(d, e)
    PROVE  d = e
<1>1. \A x \in DbFields : d[x] = e[x]
  BY DEF DbFields, SameData, SameRest
<1> QED
  BY <1>1 DEF IsDb
-----------------------------------------------------------------------------
(***************************************************************************)
(* What the data of a transaction does depends on the databases of the     *)
(* data only, and changes no other.                                        *)
(***************************************************************************)
Follows(r, d, q, g) ==
    /\ r.tag = q.tag
    /\ r.tag = "ok" => /\ IsDb(r.db) /\ IsDb(q.db) /\ SameData(r.db, q.db)
                       /\ SameRest(r.db, d) /\ SameRest(q.db, g)

LEMMA FollowsGuarded ==
    ASSUME NEW d, NEW g, NEW x, NEW y, IsDb(x), IsDb(y), SameData(x, y), SameRest(x, d),
           SameRest(y, g), NEW p, NEW e
    PROVE  Follows(Guarded(p, e, x), d, Guarded(p, e, y), g)
  BY DEF Follows, Guarded, Ok, Err, Panic

LEMMA FollowsErr ==
    ASSUME NEW d, NEW g
    PROVE  Follows(Err, d, Err, g)
  BY DEF Follows, Err

LEMMA FollowsPutPool ==
    ASSUME NEW d, NEW g, IsDb(d), IsDb(g), SameData(d, g), NEW pair, NEW q
    PROVE  LET x == PutPool(d, pair, q)
               y == PutPool(g, pair, q)
           IN  IsDb(x) /\ IsDb(y) /\ SameData(x, y) /\ SameRest(x, d) /\ SameRest(y, g)
  BY DEF PutPool, IsDb, DbFields, SameData, SameRest

LEMMA FollowsPutAuction ==
    ASSUME NEW d, NEW g, IsDb(d), IsDb(g), SameData(d, g), NEW id, NEW a
    PROVE  LET x == PutAuction(d, id, a)
               y == PutAuction(g, id, a)
           IN  IsDb(x) /\ IsDb(y) /\ SameData(x, y) /\ SameRest(x, d) /\ SameRest(y, g)
  BY DEF PutAuction, IsDb, DbFields, SameData, SameRest

LEMMA FollowsBurn ==
    ASSUME NEW d, NEW g, IsDb(d), IsDb(g), SameData(d, g), NEW f
    PROVE  Follows(apply_amm_burn(d, f), d, apply_amm_burn(g, f), g)
<1>1. d.amm_pools = g.amm_pools
  BY DEF SameData
<1> DEFINE p == d.amm_pools[burn_pair(f)]
           q == burn(p, f.data.lp_token_burn)
           R == \/ ~HasBurn(f) \/ ~Has(d.amm_pools, burn_pair(f))
                \/ burn_refused(p, f.data.lp_token_burn)
                \/ p.reserve0 - q.reserve0 # f.data.amount0
                \/ p.reserve1 - q.reserve1 # f.data.amount1
<1>2. apply_amm_burn(d, f) = Guarded(FALSE, R, PutPool(d, burn_pair(f), q))
  BY DEF apply_amm_burn
<1>3. apply_amm_burn(g, f) = Guarded(FALSE, R, PutPool(g, burn_pair(f), q))
  BY <1>1 DEF apply_amm_burn
<1> HIDE DEF R, q
<1> QED
  BY <1>2, <1>3, FollowsPutPool, FollowsGuarded

LEMMA FollowsMint ==
    ASSUME NEW d, NEW g, IsDb(d), IsDb(g), SameData(d, g), NEW f
    PROVE  Follows(apply_amm_mint(d, f), d, apply_amm_mint(g, f), g)
<1>1. d.amm_pools = g.amm_pools
  BY DEF SameData
<1>2. CASE ~HasMint(f)
  BY <1>2, FollowsErr DEF apply_amm_mint
<1>3. CASE HasMint(f)
  <2> DEFINE pair == mint_pair(f)
             p == IF Has(d.amm_pools, pair) THEN d.amm_pools[pair] ELSE new_pool(f.txid)
             q == mint(p, f.data.amount0, f.data.amount1)
             R == \/ mint_refused(p, f.data.amount0, f.data.amount1)
                  \/ q.outstanding_lp_tokens - p.outstanding_lp_tokens # f.data.lp_token_mint
  <2>1. apply_amm_mint(d, f) = Guarded(FALSE, R, PutPool(d, pair, q))
    BY <1>3 DEF apply_amm_mint
  <2>2. apply_amm_mint(g, f) = Guarded(FALSE, R, PutPool(g, pair, q))
    BY <1>1, <1>3 DEF apply_amm_mint
  <2> HIDE DEF R, q, pair
  <2> QED
    BY <2>1, <2>2, FollowsPutPool, FollowsGuarded
<1> QED
  BY <1>2, <1>3

LEMMA FollowsSwap ==
    ASSUME NEW d, NEW g, IsDb(d), IsDb(g), SameData(d, g), NEW f
    PROVE  Follows(apply_amm_swap(d, f), d, apply_amm_swap(g, f), g)
<1>1. d.amm_pools = g.amm_pools
  BY DEF SameData
<1>2. CASE ~HasSwap(f) \/ ~Has(d.amm_pools, swap_pair(f))
  BY <1>1, <1>2, FollowsErr DEF apply_amm_swap
<1>3. CASE ~(~HasSwap(f) \/ ~Has(d.amm_pools, swap_pair(f)))
  <2> DEFINE p == d.amm_pools[swap_pair(f)]
             r == swap_reserves(p, f)
             q == reswapped(p, Forward(f), f.data.amount_spent)
             P == swap_panics(r[1], f.data.amount_spent)
             R == \/ swap_refused(r[1], r[2], f.data.amount_spent)
                  \/ r[2] - swap_reserves(q, f)[2] # f.data.amount_receive
  <2>1. apply_amm_swap(d, f) = Guarded(P, R, PutPool(d, swap_pair(f), q))
    BY <1>3 DEF apply_amm_swap
  <2>2. apply_amm_swap(g, f) = Guarded(P, R, PutPool(g, swap_pair(f), q))
    BY <1>1, <1>3 DEF apply_amm_swap
  <2> HIDE DEF P, R, q
  <2> QED
    BY <2>1, <2>2, FollowsPutPool, FollowsGuarded
<1> QED
  BY <1>2, <1>3

LEMMA FollowsBid ==
    ASSUME NEW d, NEW g, IsDb(d), IsDb(g), SameData(d, g), NEW f, NEW height
    PROVE  Follows(apply_auction_bid(d, f, height), d, apply_auction_bid(g, f, height), g)
<1>1. d.dutch_auctions = g.dutch_auctions
  BY DEF SameData
<1> DEFINE id == f.data.auction_id
           a == d.dutch_auctions[id]
           b == bid(a, f.txid, f.data.bid_size, height)
           E == \/ ~HasBid(f) \/ ~Has(d.dutch_auctions, id)
                \/ f.data.receive_asset # a.base_asset
                \/ asset_spend(f) # a.quote_asset
                \/ f.data.quantity > base_remaining(a)
           P == bid_panics(a, f.data.bid_size, height)
           R == \/ bid_refused(a, f.data.bid_size, height)
                \/ f.data.quantity # base_remaining(a) - base_remaining(b)
<1>2. apply_auction_bid(d, f, height) = IF E THEN Err ELSE Guarded(P, R, PutAuction(d, id, b))
  BY DEF apply_auction_bid
<1>3. apply_auction_bid(g, f, height) = IF E THEN Err ELSE Guarded(P, R, PutAuction(g, id, b))
  BY <1>1 DEF apply_auction_bid
<1> HIDE DEF P, R, E, b, id
<1>4. Follows(Guarded(P, R, PutAuction(d, id, b)), d, Guarded(P, R, PutAuction(g, id, b)), g)
  BY FollowsPutAuction, FollowsGuarded
<1> QED
  BY <1>2, <1>3, <1>4, FollowsErr

LEMMA FollowsCollect ==
    ASSUME NEW d, NEW g, IsDb(d), IsDb(g), SameData(d, g), NEW f, NEW height
    PROVE  Follows(apply_auction_collect(d, f, height), d, apply_auction_collect(g, f, height), g)
<1>1. d.dutch_auctions = g.dutch_auctions
  BY DEF SameData
<1> DEFINE id == collected_auction(f)
           a == d.dutch_auctions[id]
           R == \/ ~HasCollect(f) \/ ~Has(d.dutch_auctions, id)
                \/ collect_refused(a, f.data, height)
           b == collect(a, f.txid, height)
<1>2. apply_auction_collect(d, f, height) = Guarded(FALSE, R, PutAuction(d, id, b))
  BY DEF apply_auction_collect
<1>3. apply_auction_collect(g, f, height) = Guarded(FALSE, R, PutAuction(g, id, b))
  BY <1>1 DEF apply_auction_collect
<1> HIDE DEF R, b, id
<1> QED
  BY <1>2, <1>3, FollowsPutAuction, FollowsGuarded

LEMMA FollowsCreate ==
    ASSUME NEW d, NEW g, IsDb(d), IsDb(g), SameData(d, g), NEW f, NEW height
    PROVE  Follows(apply_auction_create(d, f, height), d, apply_auction_create(g, f, height), g)
<1> DEFINE a == create(f.data, f.txid, height)
<1>1. /\ apply_auction_create(d, f, height)
           = Guarded(FALSE, create_refused(f.data, height), PutAuction(d, f.txid, a))
      /\ apply_auction_create(g, f, height)
           = Guarded(FALSE, create_refused(f.data, height), PutAuction(g, f.txid, a))
  BY DEF apply_auction_create
<1> HIDE DEF a
<1> QED
  BY <1>1, FollowsPutAuction, FollowsGuarded

\* The names.
LEMMA FollowsNames ==
    ASSUME NEW d, NEW g, IsDb(d), IsDb(g), SameData(d, g), NEW f, NEW height
    PROVE  /\ LET x == [d EXCEPT !.reservations = put(@, f.txid, f.data.commitment)]
                  y == [g EXCEPT !.reservations = put(@, f.txid, f.data.commitment)]
              IN  IsDb(x) /\ IsDb(y) /\ SameData(x, y) /\ SameRest(x, d) /\ SameRest(y, g)
           /\ LET x == apply_registration(d, f, height)
                  y == apply_registration(g, f, height)
              IN  IsDb(x) /\ IsDb(y) /\ SameData(x, y) /\ SameRest(x, d) /\ SameRest(y, g)
           /\ LET x == apply_mint(d, f, height)
                  y == apply_mint(g, f, height)
              IN  IsDb(x) /\ IsDb(y) /\ SameData(x, y) /\ SameRest(x, d) /\ SameRest(y, g)
           /\ LET x == apply_updates(d, f, height)
                  y == apply_updates(g, f, height)
              IN  IsDb(x) /\ IsDb(y) /\ SameData(x, y) /\ SameRest(x, d) /\ SameRest(y, g)
<1> USE DEF IsDb, DbFields, SameData, SameRest
<1>1. LET x == [d EXCEPT !.reservations = put(@, f.txid, f.data.commitment)]
          y == [g EXCEPT !.reservations = put(@, f.txid, f.data.commitment)]
      IN  IsDb(x) /\ IsDb(y) /\ SameData(x, y) /\ SameRest(x, d) /\ SameRest(y, g)
  OBVIOUS
<1>2. LET x == apply_registration(d, f, height)
          y == apply_registration(g, f, height)
      IN  IsDb(x) /\ IsDb(y) /\ SameData(x, y) /\ SameRest(x, d) /\ SameRest(y, g)
  <2>1. next_seq(d) = next_seq(g)
    BY DEF next_seq
  <2> QED
    BY <2>1 DEF apply_registration
<1>3. LET x == apply_mint(d, f, height)
          y == apply_mint(g, f, height)
      IN  IsDb(x) /\ IsDb(y) /\ SameData(x, y) /\ SameRest(x, d) /\ SameRest(y, g)
  BY DEF apply_mint
<1>4. LET x == apply_updates(d, f, height)
          y == apply_updates(g, f, height)
      IN  IsDb(x) /\ IsDb(y) /\ SameData(x, y) /\ SameRest(x, d) /\ SameRest(y, g)
  BY DEF apply_updates
<1> QED
  BY <1>1, <1>2, <1>3, <1>4

LEMMA FollowsData ==
    ASSUME NEW d, NEW g, IsDb(d), IsDb(g), SameData(d, g), NEW f, f.data.kind \in DataKinds,
           NEW height
    PROVE  Follows(apply_data(d, f, height), d, apply_data(g, f, height), g)
<1>1. CASE Is(f, "Regular")
  <2>1. apply_data(d, f, height) = Ok(d) /\ apply_data(g, f, height) = Ok(g)
    BY <1>1 DEF apply_data, Is
  <2> QED
    BY <2>1 DEF Follows, Ok, SameRest
<1>2. CASE Is(f, "AmmBurn")
  <2>1. apply_data(d, f, height) = apply_amm_burn(d, f) /\ apply_data(g, f, height) = apply_amm_burn(g, f)
    BY <1>2 DEF apply_data, Is
  <2> QED
    BY <2>1, FollowsBurn
<1>3. CASE Is(f, "AmmMint")
  <2>1. apply_data(d, f, height) = apply_amm_mint(d, f) /\ apply_data(g, f, height) = apply_amm_mint(g, f)
    BY <1>3 DEF apply_data, Is
  <2> QED
    BY <2>1, FollowsMint
<1>4. CASE Is(f, "AmmSwap")
  <2>1. apply_data(d, f, height) = apply_amm_swap(d, f) /\ apply_data(g, f, height) = apply_amm_swap(g, f)
    BY <1>4 DEF apply_data, Is
  <2> QED
    BY <2>1, FollowsSwap
<1>5. CASE Is(f, "BitAssetReservation")
  <2> DEFINE x == [d EXCEPT !.reservations = put(@, f.txid, f.data.commitment)]
             y == [g EXCEPT !.reservations = put(@, f.txid, f.data.commitment)]
  <2>1. apply_data(d, f, height) = Ok(x) /\ apply_data(g, f, height) = Ok(y)
    BY <1>5 DEF apply_data, Is
  <2>2. IsDb(x) /\ IsDb(y) /\ SameData(x, y) /\ SameRest(x, d) /\ SameRest(y, g)
    BY FollowsNames
  <2> HIDE DEF x, y
  <2> QED
    BY <2>1, <2>2 DEF Follows, Ok
<1>6. CASE Is(f, "BitAssetRegistration")
  <2> DEFINE x == apply_registration(d, f, height)
             y == apply_registration(g, f, height)
             R == registration_refused(d, f)
  <2>1. R = registration_refused(g, f)
    BY DEF SameData, registration_refused
  <2>2. apply_data(d, f, height) = Guarded(FALSE, R, x) /\ apply_data(g, f, height) = Guarded(FALSE, R, y)
    BY <1>6, <2>1 DEF apply_data, Is
  <2>3. IsDb(x) /\ IsDb(y) /\ SameData(x, y) /\ SameRest(x, d) /\ SameRest(y, g)
    BY FollowsNames
  <2> HIDE DEF x, y, R
  <2> QED
    BY <2>2, <2>3, FollowsGuarded
<1>7. CASE Is(f, "BitAssetMint")
  <2> DEFINE x == apply_mint(d, f, height)
             y == apply_mint(g, f, height)
             R == mint_refused_of(d, f)
  <2>1. R = mint_refused_of(g, f)
    BY DEF SameData, mint_refused_of
  <2>2. apply_data(d, f, height) = Guarded(FALSE, R, x) /\ apply_data(g, f, height) = Guarded(FALSE, R, y)
    BY <1>7, <2>1 DEF apply_data, Is
  <2>3. IsDb(x) /\ IsDb(y) /\ SameData(x, y) /\ SameRest(x, d) /\ SameRest(y, g)
    BY FollowsNames
  <2> HIDE DEF x, y, R
  <2> QED
    BY <2>2, <2>3, FollowsGuarded
<1>8. CASE Is(f, "BitAssetUpdate")
  <2> DEFINE x == apply_updates(d, f, height)
             y == apply_updates(g, f, height)
             R == update_refused(d, f)
  <2>1. R = update_refused(g, f)
    BY DEF SameData, update_refused
  <2>2. apply_data(d, f, height) = Guarded(FALSE, R, x) /\ apply_data(g, f, height) = Guarded(FALSE, R, y)
    BY <1>8, <2>1 DEF apply_data, Is
  <2>3. IsDb(x) /\ IsDb(y) /\ SameData(x, y) /\ SameRest(x, d) /\ SameRest(y, g)
    BY FollowsNames
  <2> HIDE DEF x, y, R
  <2> QED
    BY <2>2, <2>3, FollowsGuarded
<1>9. CASE Is(f, "DutchAuctionCreate")
  <2>1. /\ apply_data(d, f, height) = apply_auction_create(d, f, height)
        /\ apply_data(g, f, height) = apply_auction_create(g, f, height)
    BY <1>9 DEF apply_data, Is
  <2> QED
    BY <2>1, FollowsCreate
<1>10. CASE Is(f, "DutchAuctionBid")
  <2>1. /\ apply_data(d, f, height) = apply_auction_bid(d, f, height)
        /\ apply_data(g, f, height) = apply_auction_bid(g, f, height)
    BY <1>10 DEF apply_data, Is
  <2> QED
    BY <2>1, FollowsBid
<1>11. CASE Is(f, "DutchAuctionCollect")
  <2>1. /\ apply_data(d, f, height) = apply_auction_collect(d, f, height)
        /\ apply_data(g, f, height) = apply_auction_collect(g, f, height)
    BY <1>11 DEF apply_data, Is
  <2> QED
    BY <2>1, FollowsCollect
<1> QED
  BY <1>1, <1>2, <1>3, <1>4, <1>5, <1>6, <1>7, <1>8, <1>9, <1>10, <1>11 DEF DataKinds, Is

-----------------------------------------------------------------------------
(***************************************************************************)
(* One pool and one auction, undone.                                       *)
(***************************************************************************)
LEMMA PoolsEqual ==
    ASSUME NEW p \in PoolState, NEW q \in PoolState, p.reserve0 = q.reserve0,
           p.reserve1 = q.reserve1, p.outstanding_lp_tokens = q.outstanding_lp_tokens,
           p.creation_txid = q.creation_txid
    PROVE  p = q
  BY DEF PoolState

LEMMA Differences ==
    ASSUME NEW x \in Nat, NEW y \in Nat
    PROVE  /\ (x + y) - y = x /\ y + (x - y) = x /\ y - (y - x) = x
           /\ y <= x + y /\ y - x \in Int /\ x + y \in Nat /\ (x <= y => y - x <= y)
  OBVIOUS

LEMMA BurnUndone ==
    ASSUME NEW p \in PoolState, NEW lp \in Amount, ~burn_refused(p, lp),
           NEW q, q = burn(p, lp)
    PROVE  /\ ~unburn_refused(q, lp, p.reserve0 - q.reserve0, p.reserve1 - q.reserve1)
           /\ unburn(q, lp, p.reserve0 - q.reserve0, p.reserve1 - q.reserve1) = p
<1> DEFINE a0 == p.reserve0 - q.reserve0
           a1 == p.reserve1 - q.reserve1
           u == unburn(q, lp, a0, a1)
<1>1. q \in PoolState
  BY BurnMoves
<1>2. q.outstanding_lp_tokens = p.outstanding_lp_tokens - lp /\ q.creation_txid = p.creation_txid
  BY DEF burn, PoolState
<1>3. /\ p.reserve0 \in 0 .. U64 /\ p.reserve1 \in 0 .. U64 /\ p.outstanding_lp_tokens \in 0 .. U64
      /\ q.reserve0 \in 0 .. U64 /\ q.reserve1 \in 0 .. U64 /\ lp \in 0 .. U64
  BY <1>1 DEF PoolState, Amount
<1>4. /\ q.reserve0 + a0 = p.reserve0 /\ q.reserve1 + a1 = p.reserve1
      /\ q.outstanding_lp_tokens + lp = p.outstanding_lp_tokens
  BY <1>2, <1>3, U64Assumption
<1> HIDE DEF a0, a1
<1>5. ~unburn_refused(q, lp, a0, a1)
  BY <1>3, <1>4, U64Assumption DEF unburn_refused
<1>6. /\ u.reserve0 = p.reserve0 /\ u.reserve1 = p.reserve1
      /\ u.outstanding_lp_tokens = p.outstanding_lp_tokens /\ u.creation_txid = p.creation_txid
      /\ u \in PoolState
  BY <1>1, <1>2, <1>4 DEF unburn, PoolState
<1>7. u = p
  BY <1>6, PoolsEqual
<1> QED
  BY <1>5, <1>7 DEF a0, a1

LEMMA MintUndone ==
    ASSUME NEW p \in PoolState, NEW a0 \in Amount, NEW a1 \in Amount, ~mint_refused(p, a0, a1),
           NEW q, q = mint(p, a0, a1),
           NEW lp, lp = q.outstanding_lp_tokens - p.outstanding_lp_tokens
    PROVE  /\ ~revert_mint_refused(q, a0, a1, lp)
           /\ unminted(q, a0, a1, lp) = p
           /\ q.creation_txid = p.creation_txid
<1> DEFINE u == unminted(q, a0, a1, lp)
           l == lp_tokens_minted(p, a0, a1)
<1>1. q \in PoolState
  BY MintMoves
<1>2. /\ q.reserve0 = p.reserve0 + a0 /\ q.reserve1 = p.reserve1 + a1
      /\ q.outstanding_lp_tokens = p.outstanding_lp_tokens + l /\ q.creation_txid = p.creation_txid
  BY DEF mint, PoolState
<1>3. /\ p.reserve0 \in 0 .. U64 /\ p.reserve1 \in 0 .. U64 /\ p.outstanding_lp_tokens \in 0 .. U64
      /\ a0 \in 0 .. U64 /\ a1 \in 0 .. U64 /\ q.outstanding_lp_tokens \in 0 .. U64
  BY <1>1 DEF PoolState, Amount
<1>4. l \in Nat
  <2>1. /\ p.reserve0 \in Nat /\ p.reserve1 \in Nat /\ p.outstanding_lp_tokens \in Nat
        /\ a0 \in Nat /\ a1 \in Nat
    BY <1>3, U64Assumption
  <2> QED
    BY <2>1, MintedNat
<1> HIDE DEF l
<1>5. /\ q.reserve0 - a0 = p.reserve0 /\ q.reserve1 - a1 = p.reserve1
      /\ q.outstanding_lp_tokens - lp = p.outstanding_lp_tokens
      /\ a0 <= q.reserve0 /\ a1 <= q.reserve1 /\ lp <= q.outstanding_lp_tokens
  <2>1. /\ p.reserve0 \in Nat /\ p.reserve1 \in Nat /\ p.outstanding_lp_tokens \in Nat
        /\ a0 \in Nat /\ a1 \in Nat /\ q.outstanding_lp_tokens \in Nat
    BY <1>3, U64Assumption
  <2>2. p.outstanding_lp_tokens <= q.outstanding_lp_tokens
    BY <1>2, <1>4, <2>1
  <2> QED
    BY <1>2, <2>1, <2>2, Differences
<1>6. /\ u.reserve0 = p.reserve0 /\ u.reserve1 = p.reserve1
      /\ u.outstanding_lp_tokens = p.outstanding_lp_tokens /\ u.creation_txid = p.creation_txid
      /\ u \in PoolState
  BY <1>1, <1>2, <1>5 DEF unminted, PoolState
<1>7. u = p
  BY <1>6, PoolsEqual
<1>8. ~(a0 > q.reserve0) /\ ~(a1 > q.reserve1) /\ ~(lp > q.outstanding_lp_tokens)
  <2>1. q.reserve0 \in Int /\ q.reserve1 \in Int /\ q.outstanding_lp_tokens \in Int
        /\ a0 \in Int /\ a1 \in Int /\ lp \in Int
    BY <1>2, <1>3, <1>4, U64Assumption
  <2> QED
    BY <1>5, <2>1
<1> HIDE DEF u
<1>9. ~revert_mint_refused(q, a0, a1, lp)
  BY <1>7, <1>8 DEF revert_mint_refused, u
<1> QED
  BY <1>2, <1>7, <1>9 DEF u

LEMMA SwapUndone ==
    ASSUME NEW p \in PoolState, NEW forward \in BOOLEAN, NEW v \in Amount,
           ~swap_panics(IF forward THEN p.reserve0 ELSE p.reserve1, v),
           ~swap_refused(IF forward THEN p.reserve0 ELSE p.reserve1,
                         IF forward THEN p.reserve1 ELSE p.reserve0, v),
           NEW q, q = reswapped(p, forward, v),
           NEW w, w = IF forward THEN p.reserve1 - q.reserve1 ELSE p.reserve0 - q.reserve0
    PROVE  /\ ~revert_swap_panics(q, forward, v, w)
           /\ ~revert_swap_refused(q, forward, v, w)
           /\ unswapped(q, forward, v, w) = p
<1> DEFINE u == unswapped(q, forward, v, w)
<1>1. q \in PoolState
  BY SwapMoves
<1>2. /\ q.outstanding_lp_tokens = p.outstanding_lp_tokens /\ q.creation_txid = p.creation_txid
      /\ forward => q.reserve0 = p.reserve0 + v
      /\ ~forward => q.reserve1 = p.reserve1 + v
  BY DEF reswapped, swap_asset0_for_asset1, swap_asset1_for_asset0, PoolState
<1>3. /\ p.reserve0 \in 0 .. U64 /\ p.reserve1 \in 0 .. U64 /\ v \in 0 .. U64
      /\ q.reserve0 \in 0 .. U64 /\ q.reserve1 \in 0 .. U64
  BY <1>1 DEF PoolState, Amount
<1>4. /\ forward => q.reserve0 - v = p.reserve0 /\ q.reserve1 + w = p.reserve1
      /\ ~forward => q.reserve1 - v = p.reserve1 /\ q.reserve0 + w = p.reserve0
  <2>1. /\ p.reserve0 \in Nat /\ p.reserve1 \in Nat /\ v \in Nat
        /\ q.reserve0 \in Nat /\ q.reserve1 \in Nat
    BY <1>3, U64Assumption
  <2>2. CASE forward
    <3>1. w = p.reserve1 - q.reserve1 /\ q.reserve0 = p.reserve0 + v
      BY <1>2, <2>2
    <3>2. q.reserve0 - v = p.reserve0 /\ q.reserve1 + w = p.reserve1
      BY <2>1, <3>1, Differences
    <3> QED
      BY <2>2, <3>2
  <2>3. CASE ~forward
    <3>1. w = p.reserve0 - q.reserve0 /\ q.reserve1 = p.reserve1 + v
      BY <1>2, <2>3
    <3>2. q.reserve1 - v = p.reserve1 /\ q.reserve0 + w = p.reserve0
      BY <2>1, <3>1, Differences
    <3> QED
      BY <2>3, <3>2
  <2> QED
    BY <2>2, <2>3
<1>5. /\ u.reserve0 = p.reserve0 /\ u.reserve1 = p.reserve1
      /\ u.outstanding_lp_tokens = p.outstanding_lp_tokens /\ u.creation_txid = p.creation_txid
      /\ u \in PoolState
  <2>1. CASE forward
    BY <1>1, <1>2, <1>4, <2>1 DEF unswapped, PoolState
  <2>2. CASE ~forward
    BY <1>1, <1>2, <1>4, <2>2 DEF unswapped, PoolState
  <2> QED
    BY <2>1, <2>2
<1>6. u = p
  BY <1>5, PoolsEqual
<1> HIDE DEF u
<1>7. ~revert_swap_panics(q, forward, v, w)
  BY <1>6 DEF revert_swap_panics, u, PoolState
<1>8. ~revert_swap_refused(q, forward, v, w)
  BY <1>6 DEF revert_swap_refused, u
<1> QED
  BY <1>6, <1>7, <1>8 DEF u

\* A history that is pushed and popped.
History(r) == \E S : r \in Seq(S) /\ r # <<>>

LEMMA PushPop ==
    ASSUME NEW r, History(r), NEW value, NEW txid, NEW height
    PROVE  LET q == push_stamped(r, value, txid, height)
           IN  /\ pop_stamped(q) = r /\ CanPop(q) /\ PoppedBy(q, txid) /\ History(q)
               /\ latest_of(q).data = value /\ latest_of(q).height = height
<1> DEFINE e == stamp(value, txid, height)
           q == Append(r, e)
<1>0. PICK S : r \in Seq(S) /\ r # <<>>
  BY DEF History
<1>1. q \in Seq(S \cup {e}) /\ Len(q) = Len(r) + 1 /\ Len(r) \in Nat /\ Len(r) > 0
      /\ q[Len(q)] = e /\ \A i \in 1 .. Len(r) : q[i] = r[i]
  BY <1>0
<1>2. q = push_stamped(r, value, txid, height)
  BY DEF push_stamped
<1> HIDE DEF q
<1>3. CanPop(q) /\ latest_of(q) = e
  BY <1>1 DEF CanPop, latest_of
<1>4. e.data = value /\ e.txid = txid /\ e.height = height
  BY DEF stamp
<1>5. pop_stamped(q) = r
  <2> DEFINE p == pop_stamped(q)
  <2>1. /\ p \in Seq(S \cup {e}) /\ Len(p) = Len(r)
        /\ \A i \in 1 .. Len(r) : p[i] = q[i]
    BY <1>1, <1>3, Popped
  <2> HIDE DEF p
  <2>2. r \in Seq(S \cup {e})
    BY <1>0
  <2>3. p = r
    BY <1>1, <2>1, <2>2
  <2> QED
    BY <2>3 DEF p
<1>6. History(q)
  <2>1. q # <<>>
    BY <1>1
  <2> QED
    BY <1>1, <2>1 DEF History
<1> QED
  BY <1>2, <1>3, <1>4, <1>5, <1>6 DEF PoppedBy

AuctionHistories(a) ==
    /\ IsFun(a) /\ DOMAIN a = AuctionFields
    /\ History(a.most_recent_bid_block) /\ History(a.base_amount_remaining)
    /\ History(a.quote_amount) /\ History(a.price_after_most_recent_bid)
    /\ History(a.end_price_after_most_recent_bid)

LEMMA AuctionsEqual ==
    ASSUME NEW a, NEW b, IsFun(a), IsFun(b), DOMAIN a = AuctionFields, DOMAIN b = AuctionFields,
           \A x \in AuctionFields : a[x] = b[x]
    PROVE  a = b
  BY DEF IsFun

LEMMA BidUndone ==
    ASSUME NEW a, AuctionHistories(a), NEW txid, NEW v, NEW height,
           NEW b, b = bid(a, txid, v, height)
    PROVE  /\ ~revert_bid_panics(b, txid) /\ revert_bid(b) = a
           /\ b.base_asset = a.base_asset /\ b.quote_asset = a.quote_asset
           /\ b.start_block = a.start_block /\ b.duration = a.duration
           /\ AuctionHistories(b)
<1> DEFINE N == base_remaining(a) - order_quantity(a, v, height)
           v1 == height
           v2 == quote_received(a) + v
           v3 == price(a, height) - v
           v4 == end_price_next(a, N)
<1>1. b = [a EXCEPT !.most_recent_bid_block = push_stamped(@, v1, txid, height),
                    !.base_amount_remaining = push_stamped(@, N, txid, height),
                    !.quote_amount = push_stamped(@, v2, txid, height),
                    !.price_after_most_recent_bid = push_stamped(@, v3, txid, height),
                    !.end_price_after_most_recent_bid = push_stamped(@, v4, txid, height)]
  BY DEF bid
<1> HIDE DEF N, v1, v2, v3, v4
<1>2. /\ DOMAIN b = AuctionFields /\ IsFun(b)
      /\ b.most_recent_bid_block = push_stamped(a.most_recent_bid_block, v1, txid, height)
      /\ b.base_amount_remaining = push_stamped(a.base_amount_remaining, N, txid, height)
      /\ b.quote_amount = push_stamped(a.quote_amount, v2, txid, height)
      /\ b.price_after_most_recent_bid = push_stamped(a.price_after_most_recent_bid, v3, txid, height)
      /\ b.end_price_after_most_recent_bid
           = push_stamped(a.end_price_after_most_recent_bid, v4, txid, height)
      /\ b.start_block = a.start_block /\ b.duration = a.duration
      /\ b.base_asset = a.base_asset /\ b.initial_base_amount = a.initial_base_amount
      /\ b.quote_asset = a.quote_asset /\ b.initial_price = a.initial_price
      /\ b.initial_end_price = a.initial_end_price
  BY <1>1 DEF AuctionHistories, AuctionFields, IsFun
<1>3. /\ pop_stamped(b.most_recent_bid_block) = a.most_recent_bid_block
      /\ pop_stamped(b.base_amount_remaining) = a.base_amount_remaining
      /\ pop_stamped(b.quote_amount) = a.quote_amount
      /\ pop_stamped(b.price_after_most_recent_bid) = a.price_after_most_recent_bid
      /\ pop_stamped(b.end_price_after_most_recent_bid) = a.end_price_after_most_recent_bid
      /\ PoppedBy(b.most_recent_bid_block, txid) /\ PoppedBy(b.base_amount_remaining, txid)
      /\ PoppedBy(b.quote_amount, txid) /\ PoppedBy(b.price_after_most_recent_bid, txid)
      /\ PoppedBy(b.end_price_after_most_recent_bid, txid)
      /\ History(b.most_recent_bid_block) /\ History(b.base_amount_remaining)
      /\ History(b.quote_amount) /\ History(b.price_after_most_recent_bid)
      /\ History(b.end_price_after_most_recent_bid)
  BY <1>2, PushPop DEF AuctionHistories
<1>4. revert_bid(b) = a
  <2> DEFINE c == revert_bid(b)
  <2>1. /\ DOMAIN c = AuctionFields /\ IsFun(c)
        /\ \A x \in AuctionFields : c[x] = a[x]
    BY <1>2, <1>3 DEF revert_bid, AuctionFields, IsFun
  <2> HIDE DEF c
  <2>2. c = a
    BY <2>1, AuctionsEqual DEF AuctionHistories
  <2> QED
    BY <2>2 DEF c
<1>5. ~revert_bid_panics(b, txid)
  BY <1>3 DEF revert_bid_panics
<1> QED
  BY <1>2, <1>3, <1>4, <1>5 DEF AuctionHistories

LEMMA CollectUndone ==
    ASSUME NEW a, AuctionHistories(a), NEW txid, NEW c, NEW height,
           c.amount_offered_remaining = base_remaining(a), c.amount_received = quote_received(a),
           NEW b, b = collect(a, txid, height)
    PROVE  /\ ~revert_collect_panics(b, c, txid) /\ revert_collect(b) = a
           /\ b.start_block = a.start_block /\ b.duration = a.duration
           /\ b.most_recent_bid_block = a.most_recent_bid_block
           /\ AuctionHistories(b)
<1>1. b = [a EXCEPT !.base_amount_remaining = push_stamped(@, 0, txid, height),
                    !.quote_amount = push_stamped(@, 0, txid, height)]
  BY DEF collect
<1>2. /\ DOMAIN b = AuctionFields /\ IsFun(b)
      /\ b.base_amount_remaining = push_stamped(a.base_amount_remaining, 0, txid, height)
      /\ b.quote_amount = push_stamped(a.quote_amount, 0, txid, height)
      /\ \A x \in AuctionFields \ {"base_amount_remaining", "quote_amount"} : b[x] = a[x]
      /\ b.start_block = a.start_block /\ b.duration = a.duration
      /\ b.most_recent_bid_block = a.most_recent_bid_block
      /\ b.price_after_most_recent_bid = a.price_after_most_recent_bid
      /\ b.end_price_after_most_recent_bid = a.end_price_after_most_recent_bid
  BY <1>1 DEF AuctionHistories, AuctionFields, IsFun
<1>3. /\ pop_stamped(b.base_amount_remaining) = a.base_amount_remaining
      /\ pop_stamped(b.quote_amount) = a.quote_amount
      /\ PoppedBy(b.base_amount_remaining, txid) /\ PoppedBy(b.quote_amount, txid)
      /\ latest_of(b.base_amount_remaining).data = 0 /\ latest_of(b.quote_amount).data = 0
      /\ History(b.base_amount_remaining) /\ History(b.quote_amount)
  BY <1>2, PushPop DEF AuctionHistories
<1>4. revert_collect(b) = a
  <2> DEFINE e == revert_collect(b)
  <2>1. /\ DOMAIN e = AuctionFields /\ IsFun(e)
        /\ \A x \in AuctionFields : e[x] = a[x]
    BY <1>2, <1>3 DEF revert_collect, AuctionFields, IsFun
  <2> HIDE DEF e
  <2>2. e = a
    BY <2>1, AuctionsEqual DEF AuctionHistories
  <2> QED
    BY <2>2 DEF e
<1>5. ~revert_collect_panics(b, c, txid)
  BY <1>3, <1>4 DEF revert_collect_panics, base_remaining, quote_received
<1> QED
  BY <1>2, <1>3, <1>4, <1>5 DEF AuctionHistories

-----------------------------------------------------------------------------
(***************************************************************************)
(* The data of one transaction, undone.                                    *)
(***************************************************************************)
BitAssetOK(a) ==
    /\ IsFun(a) /\ DOMAIN a = {"fields", "total_supply"}
    /\ IsFun(a.fields) /\ DOMAIN a.fields = Field
    /\ \A x \in Field : History(a.fields[x])
    /\ History(a.total_supply) /\ supply(a) \in Nat

DataOK(d) ==
    /\ IsDb(d)
    /\ IsFun(d.amm_pools) /\ IsFun(d.dutch_auctions) /\ IsFun(d.reservations)
    /\ IsFun(d.bitassets) /\ IsFun(d.seq_to_bitasset) /\ IsFun(d.bitasset_to_seq)
    /\ PoolsOK(d.amm_pools)
    /\ \A id \in DOMAIN d.dutch_auctions : AuctionHistories(d.dutch_auctions[id])
    /\ \A x \in DOMAIN d.bitassets : BitAssetOK(d.bitassets[x])
    /\ DOMAIN d.bitasset_to_seq = DOMAIN d.bitassets

\* Nothing in d is of this transaction.
FreshData(d, txid) ==
    /\ txid \notin DOMAIN d.reservations
    /\ txid \notin DOMAIN d.dutch_auctions
    /\ \A pair \in DOMAIN d.amm_pools : d.amm_pools[pair].creation_txid # txid

\* A name that is registered is new, and gets a new number, for a reservation
\* that commits to it.
NewName(d, f) ==
    /\ BitAsset(f.data.name_hash) \notin DOMAIN d.bitassets
    /\ next_seq(d) \notin DOMAIN d.seq_to_bitasset
    /\ BurnedReservations(f) # {} /\ Has(d.reservations, burned_reservation_txid(f)) =>
          d.reservations[burned_reservation_txid(f)] = implied_reservation_commitment(f)

RevertsTo(q, d, g) == q.tag = "ok" /\ IsDb(q.db) /\ SameData(q.db, d) /\ SameRest(q.db, g)

\* All but the pools; all but the auctions.
ElsePools(g, d) ==
    /\ g.dutch_auctions = d.dutch_auctions
    /\ g.reservations = d.reservations /\ g.bitassets = d.bitassets
    /\ g.seq_to_bitasset = d.seq_to_bitasset /\ g.bitasset_to_seq = d.bitasset_to_seq

ElseAuctions(g, d) ==
    /\ g.amm_pools = d.amm_pools
    /\ g.reservations = d.reservations /\ g.bitassets = d.bitassets
    /\ g.seq_to_bitasset = d.seq_to_bitasset /\ g.bitasset_to_seq = d.bitasset_to_seq

DropPool(g, pair) == [g EXCEPT !.amm_pools = delete(@, pair)]

LEMMA PoolBack ==
    ASSUME NEW d, DataOK(d), NEW g, IsDb(g), NEW pair, NEW q, SameData(g, PutPool(d, pair, q))
    PROVE  /\ pair \in DOMAIN g.amm_pools /\ g.amm_pools[pair] = q
           /\ pair \in DOMAIN d.amm_pools =>
                RevertsTo(Ok(PutPool(g, pair, d.amm_pools[pair])), d, g)
           /\ pair \notin DOMAIN d.amm_pools =>
                RevertsTo(Ok(DropPool(g, pair)), d, g)
<1>1. g.amm_pools = put(d.amm_pools, pair, q) /\ ElsePools(g, d)
  BY DEF SameData, PutPool, DataOK, IsDb, DbFields, ElsePools
<1>2. pair \in DOMAIN g.amm_pools /\ g.amm_pools[pair] = q
  BY <1>1 DEF put
<1>3. /\ pair \in DOMAIN d.amm_pools => put(g.amm_pools, pair, d.amm_pools[pair]) = d.amm_pools
      /\ pair \notin DOMAIN d.amm_pools => delete(g.amm_pools, pair) = d.amm_pools
  BY <1>1, PutDeleted DEF DataOK
<1>4. ASSUME pair \in DOMAIN d.amm_pools
      PROVE  RevertsTo(Ok(PutPool(g, pair, d.amm_pools[pair])), d, g)
  BY <1>1, <1>3, <1>4 DEF RevertsTo, Ok, PutPool, IsDb, DbFields, SameData, SameRest, ElsePools
<1>5. ASSUME pair \notin DOMAIN d.amm_pools
      PROVE  RevertsTo(Ok(DropPool(g, pair)), d, g)
  BY <1>1, <1>3, <1>5 DEF RevertsTo, Ok, IsDb, DbFields, SameData, SameRest, ElsePools, DropPool
<1> QED
  BY <1>2, <1>4, <1>5

LEMMA AuctionBack ==
    ASSUME NEW d, DataOK(d), NEW g, IsDb(g), NEW id, NEW a, SameData(g, PutAuction(d, id, a))
    PROVE  /\ id \in DOMAIN g.dutch_auctions /\ g.dutch_auctions[id] = a
           /\ id \in DOMAIN d.dutch_auctions =>
                RevertsTo(Ok(PutAuction(g, id, d.dutch_auctions[id])), d, g)
           /\ id \notin DOMAIN d.dutch_auctions =>
                RevertsTo(Ok([g EXCEPT !.dutch_auctions = delete(@, id)]), d, g)
<1>1. g.dutch_auctions = put(d.dutch_auctions, id, a) /\ ElseAuctions(g, d)
  BY DEF SameData, PutAuction, DataOK, IsDb, DbFields, ElseAuctions
<1>2. id \in DOMAIN g.dutch_auctions /\ g.dutch_auctions[id] = a
  BY <1>1 DEF put
<1>3. /\ id \in DOMAIN d.dutch_auctions =>
            put(g.dutch_auctions, id, d.dutch_auctions[id]) = d.dutch_auctions
      /\ id \notin DOMAIN d.dutch_auctions => delete(g.dutch_auctions, id) = d.dutch_auctions
  BY <1>1, PutDeleted DEF DataOK
<1>4. ASSUME id \in DOMAIN d.dutch_auctions
      PROVE  RevertsTo(Ok(PutAuction(g, id, d.dutch_auctions[id])), d, g)
  BY <1>1, <1>3, <1>4 DEF RevertsTo, Ok, PutAuction, IsDb, DbFields, SameData, SameRest, ElseAuctions
<1>5. ASSUME id \notin DOMAIN d.dutch_auctions
      PROVE  RevertsTo(Ok([g EXCEPT !.dutch_auctions = delete(@, id)]), d, g)
  BY <1>1, <1>3, <1>5 DEF RevertsTo, Ok, IsDb, DbFields, SameData, SameRest, ElseAuctions
<1> QED
  BY <1>2, <1>4, <1>5

LEMMA UndoBurn ==
    ASSUME NEW d, DataOK(d), NEW g, IsDb(g), NEW T, NEW f, FilledOf(T, f), Is(f, "AmmBurn"),
           apply_amm_burn(d, f).tag = "ok", SameData(g, apply_amm_burn(d, f).db)
    PROVE  RevertsTo(revert_amm_burn(g, f), d, g)
<1> DEFINE pair == burn_pair(f)
           p == d.amm_pools[pair]
           lp == f.data.lp_token_burn
           q == burn(p, lp)
<1>1. /\ HasBurn(f) /\ Has(d.amm_pools, pair) /\ ~burn_refused(p, lp)
      /\ p.reserve0 - q.reserve0 = f.data.amount0 /\ p.reserve1 - q.reserve1 = f.data.amount1
      /\ apply_amm_burn(d, f).db = PutPool(d, pair, q)
  BY DEF apply_amm_burn, Guarded, Ok, Err, Panic
<1>2. p \in PoolState /\ lp \in Amount /\ pair \in DOMAIN d.amm_pools
  BY <1>1, AmountsTyped DEF DataOK, PoolsOK, Has
<1>3. SameData(g, PutPool(d, pair, q))
  BY <1>1
<1> HIDE DEF pair, p, q, lp
<1>4. /\ pair \in DOMAIN g.amm_pools /\ g.amm_pools[pair] = q
      /\ RevertsTo(Ok(PutPool(g, pair, p)), d, g)
  BY <1>2, <1>3, PoolBack DEF p
<1>5. /\ ~unburn_refused(q, lp, f.data.amount0, f.data.amount1)
      /\ unburn(q, lp, f.data.amount0, f.data.amount1) = p
  BY <1>1, <1>2, BurnUndone DEF q
<1>6. revert_amm_burn(g, f) = Ok(PutPool(g, pair, p))
  BY <1>1, <1>4, <1>5 DEF revert_amm_burn, Guarded, Has, pair, lp
<1> QED
  BY <1>4, <1>6

LEMMA UndoMint ==
    ASSUME NEW d, DataOK(d), NEW g, IsDb(g), NEW T, NEW f, FilledOf(T, f), Is(f, "AmmMint"),
           FreshData(d, f.txid),
           apply_amm_mint(d, f).tag = "ok", SameData(g, apply_amm_mint(d, f).db)
    PROVE  RevertsTo(revert_amm_mint(g, f), d, g)
<1> DEFINE pair == mint_pair(f)
           p == IF Has(d.amm_pools, pair) THEN d.amm_pools[pair] ELSE new_pool(f.txid)
           a0 == f.data.amount0
           a1 == f.data.amount1
           q == mint(p, a0, a1)
           lp == f.data.lp_token_mint
<1>1. /\ HasMint(f) /\ ~mint_refused(p, a0, a1)
      /\ q.outstanding_lp_tokens - p.outstanding_lp_tokens = lp
      /\ apply_amm_mint(d, f).db = PutPool(d, pair, q)
  BY DEF apply_amm_mint, Guarded, Ok, Err, Panic
<1>2. /\ p \in PoolState /\ a0 \in Amount /\ a1 \in Amount
      /\ pair \notin DOMAIN d.amm_pools => p.creation_txid = f.txid
      /\ pair \in DOMAIN d.amm_pools => p.creation_txid # f.txid /\ p = d.amm_pools[pair]
  <2>1. a0 \in Amount /\ a1 \in Amount /\ f.txid \in STRING
    BY AmountsTyped
  <2>2. CASE pair \in DOMAIN d.amm_pools
    BY <2>1, <2>2 DEF DataOK, PoolsOK, Has, FreshData
  <2>3. CASE pair \notin DOMAIN d.amm_pools
    BY <2>1, <2>3, U64Assumption DEF Has, new_pool, PoolState, Amount
  <2> QED
    BY <2>1, <2>2, <2>3
<1>3. SameData(g, PutPool(d, pair, q))
  BY <1>1
<1> HIDE DEF pair, p, q, lp, a0, a1
<1>4. /\ pair \in DOMAIN g.amm_pools /\ g.amm_pools[pair] = q
      /\ pair \in DOMAIN d.amm_pools => RevertsTo(Ok(PutPool(g, pair, p)), d, g)
      /\ pair \notin DOMAIN d.amm_pools =>
            RevertsTo(Ok(DropPool(g, pair)), d, g)
  BY <1>2, <1>3, PoolBack
<1>5. /\ ~revert_mint_refused(q, a0, a1, lp) /\ unminted(q, a0, a1, lp) = p
      /\ q.creation_txid = p.creation_txid
  BY <1>1, <1>2, MintUndone DEF q
<1>6. CASE pair \in DOMAIN d.amm_pools
  <2>1. revert_amm_mint(g, f) = Ok(PutPool(g, pair, p))
    BY <1>1, <1>2, <1>4, <1>5, <1>6 DEF revert_amm_mint, Guarded, Has, pair, lp, a0, a1
  <2> QED
    BY <1>4, <1>6, <2>1
<1>7. CASE pair \notin DOMAIN d.amm_pools
  <2>1. revert_amm_mint(g, f) = Ok(DropPool(g, pair))
    BY <1>1, <1>2, <1>4, <1>5, <1>7 DEF revert_amm_mint, Has, pair, DropPool
  <2> QED
    BY <1>4, <1>7, <2>1
<1> QED
  BY <1>6, <1>7

LEMMA UndoSwap ==
    ASSUME NEW d, DataOK(d), NEW g, IsDb(g), NEW T, NEW f, FilledOf(T, f), Is(f, "AmmSwap"),
           apply_amm_swap(d, f).tag = "ok", SameData(g, apply_amm_swap(d, f).db)
    PROVE  RevertsTo(revert_amm_swap(g, f), d, g)
<1> DEFINE pair == swap_pair(f)
           p == d.amm_pools[pair]
           F == Forward(f)
           v == f.data.amount_spent
           w == f.data.amount_receive
           r == swap_reserves(p, f)
           q == reswapped(p, F, v)
<1>1. /\ HasSwap(f) /\ Has(d.amm_pools, pair) /\ ~swap_panics(r[1], v) /\ ~swap_refused(r[1], r[2], v)
      /\ r[2] - swap_reserves(q, f)[2] = w
      /\ apply_amm_swap(d, f).db = PutPool(d, pair, q)
  BY DEF apply_amm_swap, Guarded, Ok, Err, Panic
<1>2. p \in PoolState /\ v \in Amount /\ pair \in DOMAIN d.amm_pools /\ F \in BOOLEAN
  BY <1>1, AmountsTyped DEF DataOK, PoolsOK, Has, Forward, Precedes
<1>3. /\ r[1] = (IF F THEN p.reserve0 ELSE p.reserve1)
      /\ r[2] = (IF F THEN p.reserve1 ELSE p.reserve0)
      /\ w = IF F THEN p.reserve1 - q.reserve1 ELSE p.reserve0 - q.reserve0
  BY <1>1 DEF swap_reserves
<1>4. SameData(g, PutPool(d, pair, q))
  BY <1>1
<1> HIDE DEF pair, p, q, v, w, F, r
<1>5. /\ pair \in DOMAIN g.amm_pools /\ g.amm_pools[pair] = q
      /\ RevertsTo(Ok(PutPool(g, pair, p)), d, g)
  BY <1>2, <1>4, PoolBack DEF p
<1>6. ~revert_swap_panics(q, F, v, w) /\ ~revert_swap_refused(q, F, v, w) /\ unswapped(q, F, v, w) = p
  <2>1. /\ ~swap_panics(IF F THEN p.reserve0 ELSE p.reserve1, v)
        /\ ~swap_refused(IF F THEN p.reserve0 ELSE p.reserve1,
                         IF F THEN p.reserve1 ELSE p.reserve0, v)
    BY <1>1, <1>3
  <2> QED
    BY <1>2, <1>3, <2>1, SwapUndone DEF q
<1>7. revert_amm_swap(g, f) = Ok(PutPool(g, pair, p))
  BY <1>1, <1>5, <1>6 DEF revert_amm_swap, Guarded, Has, pair, v, w, F
<1> QED
  BY <1>5, <1>7

LEMMA UndoCreate ==
    ASSUME NEW d, DataOK(d), NEW g, IsDb(g), NEW f, NEW height, FreshData(d, f.txid),
           apply_auction_create(d, f, height).tag = "ok",
           SameData(g, apply_auction_create(d, f, height).db)
    PROVE  RevertsTo(revert_auction_create(g, f), d, g)
<1> DEFINE a == create(f.data, f.txid, height)
<1>1. SameData(g, PutAuction(d, f.txid, a))
  BY DEF apply_auction_create, Guarded, Ok, Err, Panic
<1> HIDE DEF a
<1>2. /\ f.txid \in DOMAIN g.dutch_auctions
      /\ RevertsTo(Ok([g EXCEPT !.dutch_auctions = delete(@, f.txid)]), d, g)
  BY <1>1, AuctionBack DEF FreshData
<1>3. revert_auction_create(g, f) = Ok([g EXCEPT !.dutch_auctions = delete(@, f.txid)])
  BY <1>2 DEF revert_auction_create, Guarded, Has
<1> QED
  BY <1>2, <1>3

LEMMA UndoBid ==
    ASSUME NEW d, DataOK(d), NEW g, IsDb(g), NEW f, NEW height,
           apply_auction_bid(d, f, height).tag = "ok",
           SameData(g, apply_auction_bid(d, f, height).db)
    PROVE  RevertsTo(revert_auction_bid(g, f), d, g)
<1> DEFINE id == f.data.auction_id
           a == d.dutch_auctions[id]
           b == bid(a, f.txid, f.data.bid_size, height)
<1>1. /\ HasBid(f) /\ Has(d.dutch_auctions, id)
      /\ f.data.receive_asset = a.base_asset /\ asset_spend(f) = a.quote_asset
      /\ apply_auction_bid(d, f, height).db = PutAuction(d, id, b)
  BY DEF apply_auction_bid, Guarded, Ok, Err, Panic
<1>2. SameData(g, PutAuction(d, id, b)) /\ AuctionHistories(a) /\ id \in DOMAIN d.dutch_auctions
  BY <1>1 DEF DataOK, Has
<1> HIDE DEF a, b, id
<1>3. /\ id \in DOMAIN g.dutch_auctions /\ g.dutch_auctions[id] = b
      /\ RevertsTo(Ok(PutAuction(g, id, a)), d, g)
  BY <1>2, AuctionBack DEF a
<1>4. /\ ~revert_bid_panics(b, f.txid) /\ revert_bid(b) = a
      /\ b.base_asset = a.base_asset /\ b.quote_asset = a.quote_asset
  BY <1>2, BidUndone DEF b
<1>5. revert_auction_bid(g, f) = Ok(PutAuction(g, id, a))
  BY <1>1, <1>3, <1>4 DEF revert_auction_bid, Guarded, Has, id
<1> QED
  BY <1>3, <1>5

LEMMA UndoCollect ==
    ASSUME NEW d, DataOK(d), NEW g, IsDb(g), NEW f, NEW height,
           apply_auction_collect(d, f, height).tag = "ok",
           SameData(g, apply_auction_collect(d, f, height).db)
    PROVE  RevertsTo(revert_auction_collect(g, f), d, g)
<1> DEFINE id == collected_auction(f)
           a == d.dutch_auctions[id]
           b == collect(a, f.txid, height)
<1>1. /\ HasCollect(f) /\ Has(d.dutch_auctions, id) /\ ~collect_refused(a, f.data, height)
      /\ apply_auction_collect(d, f, height).db = PutAuction(d, id, b)
  BY DEF apply_auction_collect, Guarded, Ok, Err, Panic
<1>2. SameData(g, PutAuction(d, id, b)) /\ AuctionHistories(a) /\ id \in DOMAIN d.dutch_auctions
      /\ f.data.amount_offered_remaining = base_remaining(a)
      /\ f.data.amount_received = quote_received(a)
  BY <1>1 DEF DataOK, Has, collect_refused
<1> HIDE DEF a, b, id
<1>3. /\ id \in DOMAIN g.dutch_auctions /\ g.dutch_auctions[id] = b
      /\ RevertsTo(Ok(PutAuction(g, id, a)), d, g)
  BY <1>2, AuctionBack DEF a
<1>4. ~revert_collect_panics(b, f.data, f.txid) /\ revert_collect(b) = a
  BY <1>2, CollectUndone DEF b
<1>5. revert_auction_collect(g, f) = Ok(PutAuction(g, id, a))
  BY <1>1, <1>3, <1>4 DEF revert_auction_collect, Guarded, Has, id
<1> QED
  BY <1>3, <1>5

\* All but the reservations; all but the BitAssets.
ElseReservations(g, d) ==
    /\ g.amm_pools = d.amm_pools /\ g.dutch_auctions = d.dutch_auctions
    /\ g.bitassets = d.bitassets
    /\ g.seq_to_bitasset = d.seq_to_bitasset /\ g.bitasset_to_seq = d.bitasset_to_seq

ElseBitAssets(g, d) ==
    /\ g.amm_pools = d.amm_pools /\ g.dutch_auctions = d.dutch_auctions
    /\ g.reservations = d.reservations
    /\ g.seq_to_bitasset = d.seq_to_bitasset /\ g.bitasset_to_seq = d.bitasset_to_seq

LEMMA UndoReservation ==
    ASSUME NEW d, DataOK(d), NEW g, IsDb(g), NEW f, FreshData(d, f.txid),
           SameData(g, [d EXCEPT !.reservations = put(@, f.txid, f.data.commitment)])
    PROVE  RevertsTo(Guarded(FALSE, ~Has(g.reservations, f.txid),
                             [g EXCEPT !.reservations = delete(@, f.txid)]), d, g)
<1>1. g.reservations = put(d.reservations, f.txid, f.data.commitment) /\ ElseReservations(g, d)
  BY DEF SameData, DataOK, IsDb, DbFields, ElseReservations
<1>2. Has(g.reservations, f.txid)
  BY <1>1 DEF put, Has
<1>3. delete(g.reservations, f.txid) = d.reservations
  BY <1>1, PutDeleted DEF DataOK, FreshData
<1> QED
  BY <1>1, <1>2, <1>3
  DEF RevertsTo, Guarded, Ok, IsDb, DbFields, SameData, SameRest, ElseReservations

LEMMA UndoRegistration ==
    ASSUME NEW d, DataOK(d), NEW g, IsDb(g), NEW f, NEW height, NewName(d, f),
           ~registration_refused(d, f), SameData(g, apply_registration(d, f, height))
    PROVE  /\ ~unregistration_refused(g, f) /\ ~unregistration_panics(f)
           /\ RevertsTo(Ok(revert_registration(g, f)), d, g)
<1> DEFINE x == BitAsset(f.data.name_hash)
           k == burned_reservation_txid(f)
           n == next_seq(d)
           a == init_data(f.data.bitasset_data, f.data.initial_supply, f.txid, height)
<1>1. /\ g.reservations = delete(d.reservations, k)
      /\ g.seq_to_bitasset = put(d.seq_to_bitasset, n, x)
      /\ g.bitasset_to_seq = put(d.bitasset_to_seq, x, n)
      /\ g.bitassets = put(d.bitassets, x, a)
      /\ g.amm_pools = d.amm_pools /\ g.dutch_auctions = d.dutch_auctions
  BY DEF SameData, apply_registration, DataOK, IsDb, DbFields
<1>2. /\ BurnedReservations(f) # {} /\ k \in DOMAIN d.reservations
      /\ d.reservations[k] = implied_reservation_commitment(f)
      /\ x \notin DOMAIN d.bitassets /\ x \notin DOMAIN d.bitasset_to_seq
      /\ n \notin DOMAIN d.seq_to_bitasset
  BY DEF registration_refused, NewName, Has, DataOK
<1> HIDE DEF x, k, n, a
<1>3. /\ x \in DOMAIN g.bitasset_to_seq /\ g.bitasset_to_seq[x] = n
      /\ n \in DOMAIN g.seq_to_bitasset /\ x \in DOMAIN g.bitassets
  BY <1>1 DEF put
<1>4. /\ delete(g.bitasset_to_seq, x) = d.bitasset_to_seq
      /\ delete(g.seq_to_bitasset, n) = d.seq_to_bitasset
      /\ delete(g.bitassets, x) = d.bitassets
      /\ put(g.reservations, k, implied_reservation_commitment(f)) = d.reservations
  BY <1>1, <1>2, PutDeleted DEF DataOK
<1>5. ~unregistration_refused(g, f) /\ ~unregistration_panics(f)
  BY <1>2, <1>3 DEF unregistration_refused, unregistration_panics, Has, x
<1>6. revert_registration(g, f)
        = [g EXCEPT !.bitasset_to_seq = d.bitasset_to_seq,
                    !.seq_to_bitasset = d.seq_to_bitasset,
                    !.bitassets = d.bitassets,
                    !.reservations = d.reservations]
  BY <1>3, <1>4 DEF revert_registration, x, k
<1>7. RevertsTo(Ok(revert_registration(g, f)), d, g)
  BY <1>1, <1>6 DEF RevertsTo, Ok, IsDb, DbFields, SameData, SameRest
<1> QED
  BY <1>5, <1>7

\* One BitAsset is replaced and put back.
ReplaceBitAsset(d, y, b) == [d EXCEPT !.bitassets = put(@, y, b)]

LEMMA BitAssetBack ==
    ASSUME NEW d, DataOK(d), NEW g, IsDb(g), NEW y \in DOMAIN d.bitassets, NEW b,
           SameData(g, ReplaceBitAsset(d, y, b))
    PROVE  /\ y \in DOMAIN g.bitassets /\ g.bitassets[y] = b
           /\ RevertsTo(Ok(ReplaceBitAsset(g, y, d.bitassets[y])), d, g)
<1>1. g.bitassets = put(d.bitassets, y, b) /\ ElseBitAssets(g, d)
  BY DEF SameData, ReplaceBitAsset, DataOK, IsDb, DbFields, ElseBitAssets
<1>2. y \in DOMAIN g.bitassets /\ g.bitassets[y] = b
  BY <1>1 DEF put
<1>3. put(g.bitassets, y, d.bitassets[y]) = d.bitassets
  BY <1>1, PutDeleted DEF DataOK
<1> QED
  BY <1>1, <1>2, <1>3
  DEF RevertsTo, Ok, ReplaceBitAsset, IsDb, DbFields, SameData, SameRest, ElseBitAssets

WithSupply(a, r) == [a EXCEPT !.total_supply = r]
WithFields(a, v) == [a EXCEPT !.fields = v]
SetSupply(d, y, r) == [d EXCEPT !.bitassets[y].total_supply = r]
SetFields(d, y, v) == [d EXCEPT !.bitassets[y].fields = v]

LEMMA BitAssetsEqual ==
    ASSUME NEW a, BitAssetOK(a), NEW r, NEW v
    PROVE  /\ WithSupply(WithSupply(a, r), a.total_supply) = a
           /\ WithFields(WithFields(a, v), a.fields) = a
           /\ WithSupply(a, r).total_supply = r /\ WithSupply(a, r).fields = a.fields
           /\ WithFields(a, v).fields = v /\ WithFields(a, v).total_supply = a.total_supply
           /\ IsFun(WithSupply(a, r)) /\ DOMAIN WithSupply(a, r) = {"fields", "total_supply"}
           /\ IsFun(WithFields(a, v)) /\ DOMAIN WithFields(a, v) = {"fields", "total_supply"}
  BY DEF WithSupply, WithFields, BitAssetOK, IsFun

\* An update of one BitAsset replaces it.
LEMMA ReplaceIs ==
    ASSUME NEW d, IsDb(d), IsFun(d.bitassets), NEW y \in DOMAIN d.bitassets, NEW r, NEW v
    PROVE  /\ SetSupply(d, y, r) = ReplaceBitAsset(d, y, WithSupply(d.bitassets[y], r))
           /\ SetFields(d, y, v) = ReplaceBitAsset(d, y, WithFields(d.bitassets[y], v))
<1>1. /\ [d.bitassets EXCEPT ![y] = WithSupply(d.bitassets[y], r)]
           = put(d.bitassets, y, WithSupply(d.bitassets[y], r))
      /\ [d.bitassets EXCEPT ![y] = WithFields(d.bitassets[y], v)]
           = put(d.bitassets, y, WithFields(d.bitassets[y], v))
  BY DEF put, IsFun
<1>2. /\ [d EXCEPT !.bitassets[y].total_supply = r]
           = [d EXCEPT !.bitassets = [@ EXCEPT ![y] = WithSupply(d.bitassets[y], r)]]
      /\ [d EXCEPT !.bitassets[y].fields = v]
           = [d EXCEPT !.bitassets = [@ EXCEPT ![y] = WithFields(d.bitassets[y], v)]]
  BY DEF WithSupply, WithFields
<1> QED
  BY <1>1, <1>2 DEF ReplaceBitAsset, SetSupply, SetFields

LEMMA UndoIssue ==
    ASSUME NEW d, DataOK(d), NEW g, IsDb(g), NEW f, NEW height, f.data.amount \in Nat,
           ~mint_refused_of(d, f), SameData(g, apply_mint(d, f, height))
    PROVE  /\ ~revert_mint_refused_of(g, f) /\ ~revert_mint_panics(g, f)
           /\ RevertsTo(Ok(revert_mint(g, f)), d, g)
<1> DEFINE y == minted_bitasset(f)
           a == d.bitassets[y]
           r == push_stamped(a.total_supply, latest_of(a.total_supply).data + f.data.amount,
                             f.txid, height)
           b == WithSupply(a, r)
<1>1. HasBitAssetMint(f) /\ y \in DOMAIN d.bitassets /\ BitAssetOK(a)
  BY DEF mint_refused_of, Has, DataOK
<1>2. apply_mint(d, f, height) = ReplaceBitAsset(d, y, b)
  <2>1. apply_mint(d, f, height) = SetSupply(d, y, r)
    BY DEF apply_mint, SetSupply
  <2> HIDE DEF y, r
  <2> QED
    BY <1>1, <2>1, ReplaceIs DEF DataOK
<1>3. /\ pop_stamped(r) = a.total_supply
      /\ latest_of(r).data = supply(a) + f.data.amount
  <2>1. History(a.total_supply)
    BY <1>1 DEF BitAssetOK
  <2> HIDE DEF a
  <2>2. pop_stamped(r) = a.total_supply
        /\ latest_of(r).data = latest_of(a.total_supply).data + f.data.amount
    BY <2>1, PushPop
  <2> QED
    BY <2>2 DEF supply
<1> HIDE DEF y, a, r
<1>4. b.total_supply = r /\ WithSupply(b, a.total_supply) = a
  BY <1>1, BitAssetsEqual
<1> HIDE DEF b
<1>5. /\ y \in DOMAIN g.bitassets /\ g.bitassets[y] = b
      /\ RevertsTo(Ok(ReplaceBitAsset(g, y, a)), d, g)
  BY <1>1, <1>2, BitAssetBack DEF a
<1>6. supply(b) = supply(a) + f.data.amount /\ supply(a) \in Nat
  BY <1>1, <1>3, <1>4 DEF supply, BitAssetOK
<1>7. ~revert_mint_refused_of(g, f)
  <2>1. ~(f.data.amount > supply(b))
    BY <1>6
  <2> QED
    BY <1>1, <1>5, <2>1 DEF revert_mint_refused_of, Has, y
<1>8. ~revert_mint_panics(g, f)
  <2>1. latest_of(pop_stamped(b.total_supply)).data = supply(a)
    BY <1>3, <1>4 DEF supply
  <2>2. supply(b) - f.data.amount = supply(a)
    BY <1>6
  <2> QED
    BY <1>5, <2>1, <2>2 DEF revert_mint_panics, y
<1>9. revert_mint(g, f) = ReplaceBitAsset(g, y, a)
  <2>1. revert_mint(g, f) = SetSupply(g, y, a.total_supply)
    BY <1>3, <1>4, <1>5 DEF revert_mint, SetSupply, y
  <2>2. IsFun(g.bitassets)
    BY <1>2 DEF SameData, ReplaceBitAsset, DataOK, IsDb, DbFields, put, IsFun
  <2> QED
    BY <1>4, <1>5, <2>1, <2>2, ReplaceIs
<1> QED
  BY <1>5, <1>7, <1>8, <1>9

LEMMA UndoUpdate ==
    ASSUME NEW d, DataOK(d), NEW g, IsDb(g), NEW f, NEW height,
           \A x \in Field : f.data.updates[x].op \in {"Retain", "Delete", "Set"},
           ~update_refused(d, f), SameData(g, apply_updates(d, f, height))
    PROVE  /\ ~update_refused(g, f) /\ ~revert_updates_panics(g, f, height)
           /\ RevertsTo(Ok(revert_updates(g, f)), d, g)
<1> DEFINE y == updated_bitasset(f)
           a == d.bitassets[y]
           U == f.data.updates
           v == [x \in Field |-> apply_field_update(a.fields[x], U[x], f.txid, height)]
           b == WithFields(a, v)
<1>1. spent_bitassets(f) # <<>> /\ y \in DOMAIN d.bitassets /\ BitAssetOK(a)
  BY DEF update_refused, Has, DataOK
<1>2. apply_updates(d, f, height) = ReplaceBitAsset(d, y, b)
  <2>1. apply_updates(d, f, height) = SetFields(d, y, v)
    BY DEF apply_updates, SetFields
  <2> HIDE DEF y, v
  <2> QED
    BY <1>1, <2>1, ReplaceIs DEF DataOK
<1>3. ASSUME NEW x \in Field
      PROVE  /\ revert_field_update(v[x], U[x]) = a.fields[x]
             /\ ~revert_field_panics(v[x], U[x], f.txid, height)
  <2>1. History(a.fields[x]) /\ U[x].op \in {"Retain", "Delete", "Set"}
        /\ v[x] = apply_field_update(a.fields[x], U[x], f.txid, height)
    BY <1>1 DEF BitAssetOK
  <2> HIDE DEF a, v
  <2>2. CASE U[x].op = "Retain"
    BY <2>1, <2>2 DEF apply_field_update, revert_field_update, revert_field_panics
  <2>3. CASE U[x].op = "Delete"
    <3>1. v[x] = push_stamped(a.fields[x], NoValue, f.txid, height)
      BY <2>1, <2>3 DEF apply_field_update
    <3>2. /\ pop_stamped(v[x]) = a.fields[x] /\ PoppedBy(v[x], f.txid)
          /\ latest_of(v[x]).height = height /\ latest_of(v[x]).data = NoValue
      BY <2>1, <3>1, PushPop
    <3> QED
      BY <2>3, <3>2 DEF revert_field_update, revert_field_panics
  <2>4. CASE U[x].op = "Set"
    <3>1. v[x] = push_stamped(a.fields[x], U[x].value, f.txid, height)
      BY <2>1, <2>4 DEF apply_field_update
    <3>2. /\ pop_stamped(v[x]) = a.fields[x] /\ PoppedBy(v[x], f.txid)
          /\ latest_of(v[x]).height = height /\ latest_of(v[x]).data = U[x].value
      BY <2>1, <3>1, PushPop
    <3> QED
      BY <2>4, <3>2 DEF revert_field_update, revert_field_panics
  <2> QED
    BY <2>1, <2>2, <2>3, <2>4
<1>4. [x \in Field |-> revert_field_update(v[x], U[x])] = a.fields
  BY <1>1, <1>3 DEF BitAssetOK, IsFun
<1> HIDE DEF y, a, v
<1>5. b.fields = v /\ WithFields(b, a.fields) = a
  BY <1>1, BitAssetsEqual
<1> HIDE DEF b
<1>6. /\ y \in DOMAIN g.bitassets /\ g.bitassets[y] = b
      /\ RevertsTo(Ok(ReplaceBitAsset(g, y, a)), d, g)
  BY <1>1, <1>2, BitAssetBack DEF a
<1>7. ~update_refused(g, f)
  BY <1>1, <1>6 DEF update_refused, Has, y
<1>8. ~revert_updates_panics(g, f, height)
  BY <1>3, <1>5, <1>6 DEF revert_updates_panics, y
<1>9. revert_updates(g, f) = ReplaceBitAsset(g, y, a)
  <2>1. revert_updates(g, f) = SetFields(g, y, a.fields)
    BY <1>4, <1>5, <1>6 DEF revert_updates, SetFields, y
  <2>2. IsFun(g.bitassets)
    BY <1>2 DEF SameData, ReplaceBitAsset, DataOK, IsDb, DbFields, put, IsFun
  <2> QED
    BY <1>5, <1>6, <2>1, <2>2, ReplaceIs
<1> QED
  BY <1>6, <1>7, <1>8, <1>9

LEMMA MoreTyped ==
    ASSUME NEW T, NEW f, FilledOf(T, f)
    PROVE  /\ Is(f, "BitAssetMint") => f.data.amount \in Nat
           /\ Is(f, "BitAssetRegistration") => f.data.initial_supply \in Nat
           /\ Is(f, "BitAssetUpdate") =>
                \A x \in Field : f.data.updates[x].op \in {"Retain", "Delete", "Set"}
<1>1. PICK t \in T : TransactionOK(t) /\ f.data = t.data
  BY DEF FilledOf
<1>2. /\ AmountsOf("BitAssetMint") = {"amount"}
      /\ AmountsOf("BitAssetRegistration") = {"initial_supply"}
  BY DEF AmountsOf
<1>3. Amount \subseteq Nat
  BY U64Assumption DEF Amount
<1>4. \A x \in AmountsOf(t.data.kind) : t.data[x] \in Amount
  BY <1>1 DEF TransactionOK
<1>5. Is(t, "BitAssetUpdate") =>
        \A x \in Field : t.data.updates[x].op \in {"Retain", "Delete", "Set"}
  BY <1>1 DEF TransactionOK
<1> QED
  BY <1>1, <1>2, <1>3, <1>4, <1>5 DEF Is

\* What the data of a transaction did is undone, whatever became of the utxos
\* since.
LEMMA UndoData ==
    ASSUME NEW d, DataOK(d), NEW g, IsDb(g), NEW T, NEW f, FilledOf(T, f), NEW height,
           FreshData(d, f.txid), Is(f, "BitAssetRegistration") => NewName(d, f),
           apply_data(d, f, height).tag = "ok", SameData(g, apply_data(d, f, height).db)
    PROVE  RevertsTo(revert_data(g, f, height), d, g)
<1> DEFINE r == apply_data(d, f, height)
           q == revert_data(g, f, height)
<1>0. f.data.kind \in DataKinds
  BY AmountsTyped
<1>1. CASE Is(f, "Regular")
  <2>1. r = Ok(d) /\ q = Ok(g)
    BY <1>1 DEF apply_data, revert_data, Is
  <2> QED
    BY <2>1 DEF RevertsTo, Ok, SameData, SameRest
<1>2. CASE Is(f, "AmmBurn")
  <2>1. r = apply_amm_burn(d, f) /\ q = revert_amm_burn(g, f)
    BY <1>2 DEF apply_data, revert_data, Is
  <2> QED
    BY <1>2, <2>1, UndoBurn
<1>3. CASE Is(f, "AmmMint")
  <2>1. r = apply_amm_mint(d, f) /\ q = revert_amm_mint(g, f)
    BY <1>3 DEF apply_data, revert_data, Is
  <2> QED
    BY <1>3, <2>1, UndoMint
<1>4. CASE Is(f, "AmmSwap")
  <2>1. r = apply_amm_swap(d, f) /\ q = revert_amm_swap(g, f)
    BY <1>4 DEF apply_data, revert_data, Is
  <2> QED
    BY <1>4, <2>1, UndoSwap
<1>5. CASE Is(f, "BitAssetReservation")
  <2>1. /\ r = Ok([d EXCEPT !.reservations = put(@, f.txid, f.data.commitment)])
        /\ q = Guarded(FALSE, ~Has(g.reservations, f.txid),
                       [g EXCEPT !.reservations = delete(@, f.txid)])
    BY <1>5 DEF apply_data, revert_data, Is
  <2>2. SameData(g, [d EXCEPT !.reservations = put(@, f.txid, f.data.commitment)])
    <3> DEFINE x == [d EXCEPT !.reservations = put(@, f.txid, f.data.commitment)]
    <3>1. r.db = x
      BY <2>1 DEF Ok
    <3> QED
      BY <3>1
  <2> QED
    BY <2>1, <2>2, UndoReservation
<1>6. CASE Is(f, "BitAssetRegistration")
  <2>1. ~registration_refused(d, f) /\ r.db = apply_registration(d, f, height)
    BY <1>6 DEF apply_data, Is, Guarded, Ok, Err, Panic
  <2>2. q = IF unregistration_refused(g, f) THEN Err
            ELSE Guarded(unregistration_panics(f), FALSE, revert_registration(g, f))
    BY <1>6 DEF revert_data, Is
  <2> HIDE DEF q
  <2>3. /\ ~unregistration_refused(g, f) /\ ~unregistration_panics(f)
        /\ RevertsTo(Ok(revert_registration(g, f)), d, g)
    BY <1>6, <2>1, UndoRegistration
  <2> QED
    BY <2>2, <2>3 DEF Guarded, q
<1>7. CASE Is(f, "BitAssetMint")
  <2>1. ~mint_refused_of(d, f) /\ r.db = apply_mint(d, f, height)
    BY <1>7 DEF apply_data, Is, Guarded, Ok, Err, Panic
  <2>2. q = IF revert_mint_refused_of(g, f) THEN Err
            ELSE Guarded(revert_mint_panics(g, f), FALSE, revert_mint(g, f))
    BY <1>7 DEF revert_data, Is
  <2> HIDE DEF q
  <2>3. f.data.amount \in Nat
    BY <1>7, MoreTyped
  <2>4. /\ ~revert_mint_refused_of(g, f) /\ ~revert_mint_panics(g, f)
        /\ RevertsTo(Ok(revert_mint(g, f)), d, g)
    BY <2>1, <2>3, UndoIssue
  <2> QED
    BY <2>2, <2>4 DEF Guarded, q
<1>8. CASE Is(f, "BitAssetUpdate")
  <2>1. ~update_refused(d, f) /\ r.db = apply_updates(d, f, height)
    BY <1>8 DEF apply_data, Is, Guarded, Ok, Err, Panic
  <2>2. q = IF update_refused(g, f) THEN Err
            ELSE Guarded(revert_updates_panics(g, f, height), FALSE, revert_updates(g, f))
    BY <1>8 DEF revert_data, Is
  <2> HIDE DEF q
  <2>3. \A x \in Field : f.data.updates[x].op \in {"Retain", "Delete", "Set"}
    BY <1>8, MoreTyped
  <2>4. /\ ~update_refused(g, f) /\ ~revert_updates_panics(g, f, height)
        /\ RevertsTo(Ok(revert_updates(g, f)), d, g)
    BY <2>1, <2>3, UndoUpdate
  <2> QED
    BY <2>2, <2>4 DEF Guarded, q
<1>9. CASE Is(f, "DutchAuctionCreate")
  <2>1. r = apply_auction_create(d, f, height) /\ q = revert_auction_create(g, f)
    BY <1>9 DEF apply_data, revert_data, Is
  <2> QED
    BY <2>1, UndoCreate
<1>10. CASE Is(f, "DutchAuctionBid")
  <2>1. r = apply_auction_bid(d, f, height) /\ q = revert_auction_bid(g, f)
    BY <1>10 DEF apply_data, revert_data, Is
  <2> QED
    BY <2>1, UndoBid
<1>11. CASE Is(f, "DutchAuctionCollect")
  <2>1. r = apply_auction_collect(d, f, height) /\ q = revert_auction_collect(g, f)
    BY <1>11 DEF apply_data, revert_data, Is
  <2> QED
    BY <2>1, UndoCollect
<1> QED
  BY <1>0, <1>1, <1>2, <1>3, <1>4, <1>5, <1>6, <1>7, <1>8, <1>9, <1>10, <1>11 DEF DataKinds, Is

-----------------------------------------------------------------------------
(***************************************************************************)
(* What the data of a transaction adds.                                    *)
(***************************************************************************)
NameOf(f) == BitAsset(f.data.name_hash)

\* Entries of y are those of x, or of the transaction f.
GrowsReservations(x, y, f) ==
    \A k \in DOMAIN y.reservations :
        \/ k \in DOMAIN x.reservations /\ y.reservations[k] = x.reservations[k]
        \/ /\ Is(f, "BitAssetReservation")
           /\ k = f.txid /\ y.reservations[k] = f.data.commitment

GrowsPools(x, y, f) ==
    \A pair \in DOMAIN y.amm_pools :
        \/ y.amm_pools[pair].creation_txid = f.txid
        \/ /\ pair \in DOMAIN x.amm_pools
           /\ y.amm_pools[pair].creation_txid = x.amm_pools[pair].creation_txid

GrowsNames(x, y, f) ==
    IF Is(f, "BitAssetRegistration")
    THEN /\ y.seq_to_bitasset = put(x.seq_to_bitasset, next_seq(x), NameOf(f))
         /\ y.bitasset_to_seq = put(x.bitasset_to_seq, NameOf(f), next_seq(x))
         /\ DOMAIN y.bitassets = DOMAIN x.bitassets \cup {NameOf(f)}
    ELSE /\ y.seq_to_bitasset = x.seq_to_bitasset
         /\ y.bitasset_to_seq = x.bitasset_to_seq
         /\ DOMAIN y.bitassets = DOMAIN x.bitassets

Grows(x, y, f) ==
    /\ DataOK(y) /\ SameRest(y, x)
    /\ GrowsReservations(x, y, f)
    /\ DOMAIN y.dutch_auctions \subseteq DOMAIN x.dutch_auctions \cup {f.txid}
    /\ GrowsPools(x, y, f)
    /\ GrowsNames(x, y, f)

LEMMA GrowsSelf ==
    ASSUME NEW x, DataOK(x), NEW f, ~Is(f, "BitAssetRegistration")
    PROVE  Grows(x, x, f)
  BY DEF Grows, SameRest, GrowsReservations, GrowsPools, GrowsNames

LEMMA GrowsPutPool ==
    ASSUME NEW x, DataOK(x), NEW f, ~Is(f, "BitAssetRegistration"), NEW pair, NEW q \in PoolState,
           \/ q.creation_txid = f.txid
           \/ pair \in DOMAIN x.amm_pools /\ q.creation_txid = x.amm_pools[pair].creation_txid
    PROVE  Grows(x, PutPool(x, pair, q), f)
<1> DEFINE y == PutPool(x, pair, q)
<1>1. /\ IsDb(y) /\ SameRest(y, x) /\ ElsePools(y, x)
      /\ y.amm_pools = put(x.amm_pools, pair, q)
  BY DEF DataOK, PutPool, IsDb, DbFields, SameRest, ElsePools
<1> HIDE DEF y
<1>2. IsFun(y.amm_pools) /\ PoolsOK(y.amm_pools) /\ GrowsPools(x, y, f)
  BY <1>1 DEF put, IsFun, PoolsOK, GrowsPools, DataOK
<1>3. DataOK(y)
  BY <1>1, <1>2 DEF DataOK, ElsePools
<1> QED
  BY <1>1, <1>2, <1>3 DEF Grows, GrowsReservations, GrowsNames, ElsePools, y

LEMMA GrowsPutAuction ==
    ASSUME NEW x, DataOK(x), NEW f, ~Is(f, "BitAssetRegistration"), NEW id, NEW a,
           AuctionHistories(a), id \in DOMAIN x.dutch_auctions \cup {f.txid}
    PROVE  Grows(x, PutAuction(x, id, a), f)
<1> DEFINE y == PutAuction(x, id, a)
<1>1. /\ IsDb(y) /\ SameRest(y, x) /\ ElseAuctions(y, x)
      /\ y.dutch_auctions = put(x.dutch_auctions, id, a)
  BY DEF DataOK, PutAuction, IsDb, DbFields, SameRest, ElseAuctions
<1> HIDE DEF y
<1>2. /\ IsFun(y.dutch_auctions)
      /\ DOMAIN y.dutch_auctions = DOMAIN x.dutch_auctions \cup {id}
      /\ \A k \in DOMAIN y.dutch_auctions : AuctionHistories(y.dutch_auctions[k])
  <2>1. /\ IsFun(y.dutch_auctions)
        /\ DOMAIN y.dutch_auctions = DOMAIN x.dutch_auctions \cup {id}
        /\ y.dutch_auctions[id] = a
        /\ \A k \in DOMAIN x.dutch_auctions \ {id} : y.dutch_auctions[k] = x.dutch_auctions[k]
    BY <1>1 DEF put, delete, IsFun
  <2> QED
    BY <2>1 DEF DataOK
<1>3. DataOK(y)
  BY <1>1, <1>2 DEF DataOK, ElseAuctions
<1> QED
  BY <1>1, <1>2, <1>3 DEF Grows, GrowsReservations, GrowsPools, GrowsNames, ElseAuctions, y

LEMMA GrowsReplace ==
    ASSUME NEW x, DataOK(x), NEW f, ~Is(f, "BitAssetRegistration"), NEW k \in DOMAIN x.bitassets,
           NEW a, BitAssetOK(a)
    PROVE  Grows(x, ReplaceBitAsset(x, k, a), f)
<1> DEFINE y == ReplaceBitAsset(x, k, a)
<1>1. /\ IsDb(y) /\ SameRest(y, x) /\ ElseBitAssets(y, x)
      /\ y.bitassets = put(x.bitassets, k, a)
  BY DEF DataOK, ReplaceBitAsset, IsDb, DbFields, SameRest, ElseBitAssets
<1> HIDE DEF y
<1>2. /\ IsFun(y.bitassets)
      /\ DOMAIN y.bitassets = DOMAIN x.bitassets
      /\ \A j \in DOMAIN y.bitassets : BitAssetOK(y.bitassets[j])
  <2>1. /\ IsFun(y.bitassets)
        /\ DOMAIN y.bitassets = DOMAIN x.bitassets \cup {k}
        /\ y.bitassets[k] = a
        /\ \A j \in DOMAIN x.bitassets \ {k} : y.bitassets[j] = x.bitassets[j]
    BY <1>1 DEF put, delete, IsFun
  <2> QED
    BY <2>1 DEF DataOK
<1>3. DataOK(y)
  BY <1>1, <1>2 DEF DataOK, ElseBitAssets
<1> QED
  BY <1>1, <1>2, <1>3 DEF Grows, GrowsReservations, GrowsPools, GrowsNames, ElseBitAssets, y

Reserve(d, f) == [d EXCEPT !.reservations = put(@, f.txid, f.data.commitment)]

LEMMA GrowsReserve ==
    ASSUME NEW x, DataOK(x), NEW f, Is(f, "BitAssetReservation")
    PROVE  Grows(x, Reserve(x, f), f)
<1> DEFINE y == Reserve(x, f)
<1>1. /\ IsDb(y) /\ SameRest(y, x) /\ ElseReservations(y, x)
      /\ y.reservations = put(x.reservations, f.txid, f.data.commitment)
  BY DEF DataOK, Reserve, IsDb, DbFields, SameRest, ElseReservations
<1> HIDE DEF y
<1>2. IsFun(y.reservations) /\ GrowsReservations(x, y, f)
  BY <1>1 DEF put, IsFun, GrowsReservations
<1>3. DataOK(y)
  BY <1>1, <1>2 DEF DataOK, ElseReservations
<1> QED
  BY <1>1, <1>2, <1>3 DEF Grows, GrowsPools, GrowsNames, ElseReservations, Is, y

LEMMA InitDataOK ==
    ASSUME NEW D, NEW n \in Nat, NEW txid, NEW height
    PROVE  BitAssetOK(init_data(D, n, txid, height))
<1> DEFINE a == init_data(D, n, txid, height)
           h(v) == new_history(v, txid, height)
<1>1. \A v : h(v) = <<stamp(v, txid, height)>>
  BY DEF new_history
<1>2. \A v : History(h(v)) /\ latest_of(h(v)).data = v
  <2> TAKE v
  <2>1. h(v) \in Seq({stamp(v, txid, height)}) /\ h(v) # <<>> /\ h(v)[Len(h(v))] = stamp(v, txid, height)
    BY <1>1
  <2>2. History(h(v))
    BY <2>1 DEF History
  <2> QED
    BY <2>1, <2>2 DEF latest_of, stamp
<1> HIDE DEF h
<1>3. a = [fields |-> [x \in Field |-> h(D[x])], total_supply |-> h(n)]
  BY DEF init_data, h
<1> HIDE DEF a
<1>4. /\ IsFun(a) /\ DOMAIN a = {"fields", "total_supply"}
      /\ a.fields = [x \in Field |-> h(D[x])] /\ a.total_supply = h(n)
  BY <1>3 DEF IsFun
<1>5. IsFun(a.fields) /\ DOMAIN a.fields = Field /\ \A x \in Field : History(a.fields[x])
  BY <1>2, <1>4 DEF IsFun
<1>6. History(a.total_supply) /\ supply(a) \in Nat
  BY <1>2, <1>4 DEF supply
<1> QED
  BY <1>4, <1>5, <1>6 DEF BitAssetOK, a

LEMMA GrowsRegister ==
    ASSUME NEW x, DataOK(x), NEW f, Is(f, "BitAssetRegistration"),
           f.data.initial_supply \in Nat, NEW height
    PROVE  Grows(x, apply_registration(x, f, height), f)
<1> DEFINE y == apply_registration(x, f, height)
           n == next_seq(x)
           k == NameOf(f)
           a == init_data(f.data.bitasset_data, f.data.initial_supply, f.txid, height)
           t == burned_reservation_txid(f)
<1>1. /\ IsDb(y) /\ SameRest(y, x)
      /\ y.amm_pools = x.amm_pools /\ y.dutch_auctions = x.dutch_auctions
      /\ y.reservations = delete(x.reservations, t)
      /\ y.seq_to_bitasset = put(x.seq_to_bitasset, n, k)
      /\ y.bitasset_to_seq = put(x.bitasset_to_seq, k, n)
      /\ y.bitassets = put(x.bitassets, k, a)
  BY DEF DataOK, apply_registration, IsDb, DbFields, SameRest, NameOf
<1>2. BitAssetOK(a)
  BY InitDataOK
<1>10. n = next_seq(x) /\ k = NameOf(f)
  OBVIOUS
<1> HIDE DEF y, n, k, a, t
<1>3. /\ IsFun(y.bitassets)
      /\ DOMAIN y.bitassets = DOMAIN x.bitassets \cup {k}
      /\ \A j \in DOMAIN y.bitassets : BitAssetOK(y.bitassets[j])
  <2>1. /\ IsFun(y.bitassets)
        /\ DOMAIN y.bitassets = DOMAIN x.bitassets \cup {k}
        /\ y.bitassets[k] = a
        /\ \A j \in DOMAIN x.bitassets \ {k} : y.bitassets[j] = x.bitassets[j]
    BY <1>1 DEF put, delete, IsFun
  <2> QED
    BY <1>2, <2>1 DEF DataOK
<1>4. /\ IsFun(y.seq_to_bitasset) /\ IsFun(y.bitasset_to_seq) /\ IsFun(y.reservations)
      /\ DOMAIN y.bitasset_to_seq = DOMAIN x.bitasset_to_seq \cup {k}
  BY <1>1 DEF put, delete, IsFun
<1>5. GrowsReservations(x, y, f)
  BY <1>1 DEF delete, GrowsReservations
<1>6. DataOK(y)
  BY <1>1, <1>3, <1>4 DEF DataOK
<1>7. GrowsNames(x, y, f)
  BY <1>1, <1>3, <1>10 DEF GrowsNames
<1>8. GrowsPools(x, y, f) /\ DOMAIN y.dutch_auctions \subseteq DOMAIN x.dutch_auctions \cup {f.txid}
  BY <1>1 DEF GrowsPools
<1> QED
  BY <1>1, <1>5, <1>6, <1>7, <1>8 DEF Grows, y

LEMMA GrowsBurn ==
    ASSUME NEW x, DataOK(x), NEW T, NEW f, FilledOf(T, f), Is(f, "AmmBurn"),
           apply_amm_burn(x, f).tag = "ok"
    PROVE  Grows(x, apply_amm_burn(x, f).db, f)
<1> DEFINE pair == burn_pair(f)
           p == x.amm_pools[pair]
           q == burn(p, f.data.lp_token_burn)
<1>1. /\ apply_amm_burn(x, f).db = PutPool(x, pair, q) /\ pair \in DOMAIN x.amm_pools
      /\ ~burn_refused(p, f.data.lp_token_burn)
  BY DEF apply_amm_burn, Guarded, Ok, Err, Panic, Has
<1>2. p \in PoolState /\ f.data.lp_token_burn \in Amount
  BY <1>1, AmountsTyped DEF DataOK, PoolsOK
<1>3. q \in PoolState
  BY <1>1, <1>2, BurnMoves
<1>4. q.creation_txid = p.creation_txid
  BY <1>2 DEF burn, PoolState
<1>5. ~Is(f, "BitAssetRegistration")
  BY DEF Is
<1> HIDE DEF q, pair
<1> QED
  BY <1>1, <1>3, <1>4, <1>5, GrowsPutPool

LEMMA GrowsMint ==
    ASSUME NEW x, DataOK(x), NEW T, NEW f, FilledOf(T, f), Is(f, "AmmMint"),
           apply_amm_mint(x, f).tag = "ok"
    PROVE  Grows(x, apply_amm_mint(x, f).db, f)
<1> DEFINE pair == mint_pair(f)
           p == IF Has(x.amm_pools, pair) THEN x.amm_pools[pair] ELSE new_pool(f.txid)
           q == mint(p, f.data.amount0, f.data.amount1)
<1>1. /\ apply_amm_mint(x, f).db = PutPool(x, pair, q)
      /\ ~mint_refused(p, f.data.amount0, f.data.amount1)
  BY DEF apply_amm_mint, Guarded, Ok, Err, Panic
<1>2. f.data.amount0 \in Amount /\ f.data.amount1 \in Amount /\ f.txid \in STRING
  BY AmountsTyped
<1>3. p \in PoolState
  <2>1. new_pool(f.txid) \in PoolState
    BY <1>2, U64Assumption DEF new_pool, PoolState, Amount
  <2> QED
    BY <2>1 DEF DataOK, PoolsOK, Has
<1>4. \/ p.creation_txid = f.txid
      \/ pair \in DOMAIN x.amm_pools /\ p.creation_txid = x.amm_pools[pair].creation_txid
  BY DEF Has, new_pool
<1> HIDE DEF p
<1>5. q \in PoolState
  BY <1>1, <1>2, <1>3, MintMoves
<1>6. q.creation_txid = p.creation_txid
  BY <1>3 DEF mint, PoolState
<1>7. ~Is(f, "BitAssetRegistration")
  BY DEF Is
<1> HIDE DEF q, pair
<1> QED
  BY <1>1, <1>4, <1>5, <1>6, <1>7, GrowsPutPool

LEMMA GrowsSwap ==
    ASSUME NEW x, DataOK(x), NEW T, NEW f, FilledOf(T, f), Is(f, "AmmSwap"),
           apply_amm_swap(x, f).tag = "ok"
    PROVE  Grows(x, apply_amm_swap(x, f).db, f)
<1> DEFINE pair == swap_pair(f)
           p == x.amm_pools[pair]
           v == f.data.amount_spent
           q == reswapped(p, Forward(f), v)
<1>1. /\ apply_amm_swap(x, f).db = PutPool(x, pair, q)
      /\ pair \in DOMAIN x.amm_pools
      /\ ~swap_panics(swap_reserves(p, f)[1], v)
      /\ ~swap_refused(swap_reserves(p, f)[1], swap_reserves(p, f)[2], v)
  BY DEF apply_amm_swap, Guarded, Ok, Err, Panic, Has
<1>2. p \in PoolState /\ v \in Amount
  BY <1>1, AmountsTyped DEF DataOK, PoolsOK
<1>3. /\ swap_reserves(p, f)[1] = IF Forward(f) THEN p.reserve0 ELSE p.reserve1
      /\ swap_reserves(p, f)[2] = IF Forward(f) THEN p.reserve1 ELSE p.reserve0
  BY DEF swap_reserves
<1>4. Forward(f) \in BOOLEAN
  BY DEF Forward, Precedes
<1>5. q \in PoolState
  BY <1>1, <1>2, <1>3, <1>4, SwapMoves
<1>6. q.creation_txid = p.creation_txid
  BY <1>2, <1>4 DEF reswapped, swap_asset0_for_asset1, swap_asset1_for_asset0, PoolState
<1>7. ~Is(f, "BitAssetRegistration")
  BY DEF Is
<1> HIDE DEF q, pair
<1> QED
  BY <1>1, <1>5, <1>6, <1>7, GrowsPutPool

LEMMA GrowsCreate ==
    ASSUME NEW x, DataOK(x), NEW f, Is(f, "DutchAuctionCreate"), NEW height,
           apply_auction_create(x, f, height).tag = "ok"
    PROVE  Grows(x, apply_auction_create(x, f, height).db, f)
<1> DEFINE a == create(f.data, f.txid, height)
<1>1. apply_auction_create(x, f, height).db = PutAuction(x, f.txid, a)
  BY DEF apply_auction_create, Guarded, Ok, Err, Panic
<1>2. AuctionHistories(a)
  <2> DEFINE h(v) == new_history(v, f.txid, height)
  <2>1. \A v : History(h(v))
    <3> TAKE v
    <3>1. h(v) \in Seq({stamp(v, f.txid, height)}) /\ h(v) # <<>>
      BY DEF new_history
    <3> QED
      BY <3>1 DEF History
  <2>2. /\ IsFun(a) /\ DOMAIN a = AuctionFields
        /\ a.most_recent_bid_block = h(f.data.start_block)
        /\ a.base_amount_remaining = h(f.data.base_amount)
        /\ a.quote_amount = h(0)
        /\ a.price_after_most_recent_bid = h(f.data.initial_price)
        /\ a.end_price_after_most_recent_bid = h(f.data.final_price)
    BY DEF create, IsFun, AuctionFields
  <2> HIDE DEF h, a
  <2> QED
    BY <2>1, <2>2 DEF AuctionHistories
<1>3. ~Is(f, "BitAssetRegistration")
  BY DEF Is
<1> HIDE DEF a
<1> QED
  BY <1>1, <1>2, <1>3, GrowsPutAuction

LEMMA GrowsBid ==
    ASSUME NEW x, DataOK(x), NEW f, Is(f, "DutchAuctionBid"), NEW height,
           apply_auction_bid(x, f, height).tag = "ok"
    PROVE  Grows(x, apply_auction_bid(x, f, height).db, f)
<1> DEFINE id == f.data.auction_id
           a == x.dutch_auctions[id]
           b == bid(a, f.txid, f.data.bid_size, height)
<1>1. apply_auction_bid(x, f, height).db = PutAuction(x, id, b) /\ id \in DOMAIN x.dutch_auctions
  BY DEF apply_auction_bid, Guarded, Ok, Err, Panic, Has
<1>2. AuctionHistories(a)
  BY <1>1 DEF DataOK
<1> HIDE DEF a
<1>3. AuctionHistories(b)
  BY <1>2, BidUndone
<1>4. ~Is(f, "BitAssetRegistration")
  BY DEF Is
<1> HIDE DEF b, id
<1> QED
  BY <1>1, <1>3, <1>4, GrowsPutAuction

LEMMA GrowsCollect ==
    ASSUME NEW x, DataOK(x), NEW f, Is(f, "DutchAuctionCollect"), NEW height,
           apply_auction_collect(x, f, height).tag = "ok"
    PROVE  Grows(x, apply_auction_collect(x, f, height).db, f)
<1> DEFINE id == collected_auction(f)
           a == x.dutch_auctions[id]
           b == collect(a, f.txid, height)
<1>1. /\ apply_auction_collect(x, f, height).db = PutAuction(x, id, b)
      /\ id \in DOMAIN x.dutch_auctions /\ ~collect_refused(a, f.data, height)
  BY DEF apply_auction_collect, Guarded, Ok, Err, Panic, Has
<1>2. AuctionHistories(a)
  BY <1>1 DEF DataOK
<1>3. f.data.amount_offered_remaining = base_remaining(a) /\ f.data.amount_received = quote_received(a)
  BY <1>1 DEF collect_refused
<1> HIDE DEF a
<1>4. AuctionHistories(b)
  BY <1>2, <1>3, CollectUndone
<1>5. ~Is(f, "BitAssetRegistration")
  BY DEF Is
<1> HIDE DEF b, id
<1> QED
  BY <1>1, <1>4, <1>5, GrowsPutAuction

LEMMA GrowsIssue ==
    ASSUME NEW x, DataOK(x), NEW f, Is(f, "BitAssetMint"), NEW height, f.data.amount \in Nat,
           ~mint_refused_of(x, f)
    PROVE  Grows(x, apply_mint(x, f, height), f)
<1> DEFINE y == minted_bitasset(f)
           a == x.bitassets[y]
           r == push_stamped(a.total_supply, latest_of(a.total_supply).data + f.data.amount,
                             f.txid, height)
           b == WithSupply(a, r)
<1>1. y \in DOMAIN x.bitassets /\ BitAssetOK(a)
  BY DEF mint_refused_of, Has, DataOK
<1>2. apply_mint(x, f, height) = ReplaceBitAsset(x, y, b)
  <2>1. apply_mint(x, f, height) = SetSupply(x, y, r)
    BY DEF apply_mint, SetSupply
  <2> HIDE DEF y, r
  <2> QED
    BY <1>1, <2>1, ReplaceIs DEF DataOK
<1> HIDE DEF a
<1>3. History(r) /\ latest_of(r).data = supply(a) + f.data.amount
  BY <1>1, PushPop DEF BitAssetOK, supply
<1> HIDE DEF r
<1>4. BitAssetOK(b)
  <2>1. /\ b.total_supply = r /\ b.fields = a.fields
        /\ IsFun(b) /\ DOMAIN b = {"fields", "total_supply"}
    BY <1>1, BitAssetsEqual
  <2> HIDE DEF b
  <2>2. supply(b) \in Nat
    BY <1>1, <1>3, <2>1 DEF supply, BitAssetOK
  <2> QED
    BY <1>1, <1>3, <2>1, <2>2 DEF BitAssetOK
<1>5. ~Is(f, "BitAssetRegistration")
  BY DEF Is
<1> HIDE DEF b, y
<1> QED
  BY <1>1, <1>2, <1>4, <1>5, GrowsReplace

LEMMA FieldUpdated ==
    ASSUME NEW r, History(r), NEW u, u.op \in {"Retain", "Delete", "Set"}, NEW txid, NEW height
    PROVE  History(apply_field_update(r, u, txid, height))
<1>1. CASE u.op = "Retain"
  BY <1>1 DEF apply_field_update
<1>2. CASE u.op = "Delete"
  <2>1. apply_field_update(r, u, txid, height) = push_stamped(r, NoValue, txid, height)
    BY <1>2 DEF apply_field_update
  <2> QED BY <2>1, PushPop
<1>3. CASE u.op = "Set"
  <2>1. apply_field_update(r, u, txid, height) = push_stamped(r, u.value, txid, height)
    BY <1>3 DEF apply_field_update
  <2> QED BY <2>1, PushPop
<1> QED
  BY <1>1, <1>2, <1>3

LEMMA GrowsUpdate ==
    ASSUME NEW x, DataOK(x), NEW f, Is(f, "BitAssetUpdate"), NEW height,
           \A k \in Field : f.data.updates[k].op \in {"Retain", "Delete", "Set"},
           ~update_refused(x, f)
    PROVE  Grows(x, apply_updates(x, f, height), f)
<1> DEFINE y == updated_bitasset(f)
           a == x.bitassets[y]
           U == f.data.updates
           v == [k \in Field |-> apply_field_update(a.fields[k], U[k], f.txid, height)]
           b == WithFields(a, v)
<1>1. y \in DOMAIN x.bitassets /\ BitAssetOK(a)
  BY DEF update_refused, Has, DataOK
<1>2. apply_updates(x, f, height) = ReplaceBitAsset(x, y, b)
  <2>1. apply_updates(x, f, height) = SetFields(x, y, v)
    BY DEF apply_updates, SetFields
  <2> HIDE DEF y, v
  <2> QED
    BY <1>1, <2>1, ReplaceIs DEF DataOK
<1> HIDE DEF a
<1>3. \A k \in Field : History(a.fields[k])
  BY <1>1 DEF BitAssetOK
<1>4. \A k \in Field : History(v[k])
  BY <1>3, FieldUpdated
<1>5. IsFun(v) /\ DOMAIN v = Field
  BY DEF IsFun
<1> HIDE DEF v
<1>6. BitAssetOK(b)
  <2>1. /\ b.total_supply = a.total_supply /\ b.fields = v
        /\ IsFun(b) /\ DOMAIN b = {"fields", "total_supply"}
    BY <1>1, BitAssetsEqual
  <2> HIDE DEF b
  <2> QED
    BY <1>1, <1>4, <1>5, <2>1 DEF BitAssetOK, supply
<1>7. ~Is(f, "BitAssetRegistration")
  BY DEF Is
<1> HIDE DEF b, y
<1> QED
  BY <1>1, <1>2, <1>6, <1>7, GrowsReplace

LEMMA GrowsData ==
    ASSUME NEW x, DataOK(x), NEW T, NEW f, FilledOf(T, f), NEW height,
           apply_data(x, f, height).tag = "ok"
    PROVE  Grows(x, apply_data(x, f, height).db, f)
<1> DEFINE r == apply_data(x, f, height)
<1>0. f.data.kind \in DataKinds
  BY AmountsTyped
<1>1. CASE Is(f, "Regular")
  <2>1. r = Ok(x) /\ ~Is(f, "BitAssetRegistration")
    BY <1>1 DEF apply_data, Is
  <2> QED
    BY <2>1, GrowsSelf DEF Ok
<1>2. CASE Is(f, "AmmBurn")
  <2>1. r = apply_amm_burn(x, f)
    BY <1>2 DEF apply_data, Is
  <2> QED
    BY <1>2, <2>1, GrowsBurn
<1>3. CASE Is(f, "AmmMint")
  <2>1. r = apply_amm_mint(x, f)
    BY <1>3 DEF apply_data, Is
  <2> QED
    BY <1>3, <2>1, GrowsMint
<1>4. CASE Is(f, "AmmSwap")
  <2>1. r = apply_amm_swap(x, f)
    BY <1>4 DEF apply_data, Is
  <2> QED
    BY <1>4, <2>1, GrowsSwap
<1>5. CASE Is(f, "BitAssetReservation")
  <2>1. r = Ok(Reserve(x, f))
    BY <1>5 DEF apply_data, Is, Reserve
  <2> HIDE DEF r
  <2>2. r.db = Reserve(x, f)
    BY <2>1 DEF Ok
  <2> QED
    BY <1>5, <2>2, GrowsReserve DEF r
<1>6. CASE Is(f, "BitAssetRegistration")
  <2>1. r.db = apply_registration(x, f, height)
    BY <1>6 DEF apply_data, Is, Guarded, Ok, Err, Panic
  <2> QED
    BY <1>6, <2>1, GrowsRegister, MoreTyped
<1>7. CASE Is(f, "BitAssetMint")
  <2>1. ~mint_refused_of(x, f) /\ r.db = apply_mint(x, f, height)
    BY <1>7 DEF apply_data, Is, Guarded, Ok, Err, Panic
  <2> QED
    BY <1>7, <2>1, GrowsIssue, MoreTyped
<1>8. CASE Is(f, "BitAssetUpdate")
  <2>1. ~update_refused(x, f) /\ r.db = apply_updates(x, f, height)
    BY <1>8 DEF apply_data, Is, Guarded, Ok, Err, Panic
  <2> QED
    BY <1>8, <2>1, GrowsUpdate, MoreTyped
<1>9. CASE Is(f, "DutchAuctionCreate")
  <2>1. r = apply_auction_create(x, f, height)
    BY <1>9 DEF apply_data, Is
  <2> QED
    BY <1>9, <2>1, GrowsCreate
<1>10. CASE Is(f, "DutchAuctionBid")
  <2>1. r = apply_auction_bid(x, f, height)
    BY <1>10 DEF apply_data, Is
  <2> QED
    BY <1>10, <2>1, GrowsBid
<1>11. CASE Is(f, "DutchAuctionCollect")
  <2>1. r = apply_auction_collect(x, f, height)
    BY <1>11 DEF apply_data, Is
  <2> QED
    BY <1>11, <2>1, GrowsCollect
<1> QED
  BY <1>0, <1>1, <1>2, <1>3, <1>4, <1>5, <1>6, <1>7, <1>8, <1>9, <1>10, <1>11 DEF DataKinds, Is

-----------------------------------------------------------------------------
(***************************************************************************)
(* The folds over the transactions of a block and over contents.           *)
(***************************************************************************)
FoldStep(what, acc, x, p) ==
    CASE what = "utxos" -> put_all(acc, NewUtxos(x.txid, filled_outputs(x).outputs))
      [] what = "stxos" -> put_all(acc, NewStxos(x))
      [] what = "kinds" -> AppendOf(acc, x, p)
      [] what = "fill" -> fill_output(acc, x)

\* after, the function of Fold, up to k.
FoldEq(g, k, what, start, seq, p) ==
    g = [n \in 0 .. k |-> IF n = 0 THEN start ELSE FoldStep(what, g[n - 1], seq[n], p)]

LEMMA FoldExists ==
    ASSUME NEW what, NEW start, NEW seq, NEW p, NEW N \in Nat
    PROVE  \E g : FoldEq(g, N, what, start, seq, p)
<1> DEFINE S == {k \in Nat : ~\E g : FoldEq(g, k, what, start, seq, p)}
<1> SUFFICES ASSUME S # {} PROVE FALSE
  OBVIOUS
<1>1. PICK k \in S : \A j \in S : k <= j
  BY LeastNatural
<1>2. k # 0
  <2> DEFINE h == [n \in 0 .. 0 |-> start]
  <2>1. FoldEq(h, 0, what, start, seq, p)
    BY DEF FoldEq
  <2> QED
    BY <2>1
<1>3. k - 1 \in Nat /\ k - 1 \notin S
  BY <1>1, <1>2
<1>4. PICK g : FoldEq(g, k - 1, what, start, seq, p)
  BY <1>3
<1> DEFINE h == [n \in 0 .. k |-> IF n < k THEN g[n] ELSE FoldStep(what, g[k - 1], seq[k], p)]
<1>5. ASSUME NEW n \in 0 .. k
      PROVE  h[n] = IF n = 0 THEN start ELSE FoldStep(what, h[n - 1], seq[n], p)
  <2>1. CASE n = k
    <3>1. h[n] = FoldStep(what, g[k - 1], seq[k], p) /\ h[n - 1] = g[k - 1]
      BY <1>2, <1>3, <2>1
    <3> QED
      BY <1>2, <2>1, <3>1
  <2>2. CASE n # k
    <3>1. n \in 0 .. (k - 1) /\ n < k
      BY <2>2
    <3>2. h[n] = g[n] /\ (n # 0 => h[n - 1] = g[n - 1])
      BY <3>1
    <3>3. g[n] = IF n = 0 THEN start ELSE FoldStep(what, g[n - 1], seq[n], p)
      BY <1>4, <3>1 DEF FoldEq
    <3> QED
      BY <3>2, <3>3
  <2> QED
    BY <2>1, <2>2
<1>6. h = [n \in 0 .. k |-> IF n = 0 THEN start ELSE FoldStep(what, h[n - 1], seq[n], p)]
  BY <1>5
<1>7. FoldEq(h, k, what, start, seq, p)
  BY <1>6 DEF FoldEq
<1> QED
  BY <1>7

\* The four uses of Fold.
LEMMA FoldUtxos ==
    ASSUME NEW b, NEW filled, Len(filled) \in Nat
    PROVE  \E g : /\ FoldEq(g, Len(filled), "utxos", CoinbaseUtxos(b), filled, 0)
                  /\ BlockUtxos(b, filled) = g[Len(filled)]
<1>1. \E g : FoldEq(g, Len(filled), "utxos", CoinbaseUtxos(b), filled, 0)
  BY FoldExists
<1> QED
  BY <1>1 DEF BlockUtxos, Fold, FoldEq, FoldStep

LEMMA FoldStxos ==
    ASSUME NEW stxos, NEW filled, Len(filled) \in Nat
    PROVE  \E g : /\ FoldEq(g, Len(filled), "stxos", stxos, filled, 0)
                  /\ BlockStxos(stxos, filled) = g[Len(filled)]
<1>1. \E g : FoldEq(g, Len(filled), "stxos", stxos, filled, 0)
  BY FoldExists
<1> QED
  BY <1>1 DEF BlockStxos, Fold, FoldEq, FoldStep

LEMMA FoldKinds ==
    ASSUME NEW contents, NEW kinds, Len(contents) \in Nat
    PROVE  \E g : /\ FoldEq(g, Len(contents), "kinds", <<>>, contents, kinds)
                  /\ OfKind(contents, kinds) = g[Len(contents)]
<1>1. \E g : FoldEq(g, Len(contents), "kinds", <<>>, contents, kinds)
  BY FoldExists
<1> QED
  BY <1>1 DEF OfKind, Fold, FoldEq, FoldStep

LEMMA FoldFill ==
    ASSUME NEW f, Len(f.outputs) \in Nat
    PROVE  \E g : /\ FoldEq(g, Len(f.outputs), "fill", fill_start(f), f.outputs, 0)
                  /\ filled_outputs(f) = g[Len(f.outputs)]
<1>1. \E g : FoldEq(g, Len(f.outputs), "fill", fill_start(f), f.outputs, 0)
  BY FoldExists
<1> QED
  BY <1>1 DEF filled_outputs, Fold, FoldEq, FoldStep

\* The first index at which something fails.
LEMMA FirstIndex ==
    ASSUME NEW N \in Nat, NEW B, B \subseteq 0 .. N, B # {}, 0 \notin B
    PROVE  \E n \in 1 .. N : n \in B /\ n - 1 \in 0 .. N /\ n - 1 \notin B
<1>1. B \subseteq Nat
  OBVIOUS
<1>2. PICK n \in B : \A j \in B : n <= j
  BY <1>1, LeastNatural
<1> QED
  BY <1>2

\* OfKind filters.
LEMMA OfKindIs ==
    ASSUME NEW S, NEW contents \in Seq(S), NEW kinds
    PROVE  OfKind(contents, kinds) \in Seq({c \in S : c.kind \in kinds})
<1> DEFINE K == {c \in S : c.kind \in kinds}
           N == Len(contents)
<1>0. N \in Nat /\ \A n \in 1 .. N : contents[n] \in S
  OBVIOUS
<1>1. PICK g : /\ FoldEq(g, N, "kinds", <<>>, contents, kinds)
               /\ OfKind(contents, kinds) = g[N]
  BY <1>0, FoldKinds
<1>2. \A n \in 0 .. N : g[n] \in Seq(K)
  <2> DEFINE B == {n \in 0 .. N : g[n] \notin Seq(K)}
  <2> SUFFICES ASSUME B # {} PROVE FALSE
    OBVIOUS
  <2>1. g[0] = <<>>
    BY <1>0, <1>1 DEF FoldEq
  <2>2. B \subseteq 0 .. N /\ 0 \notin B
    <3> HIDE DEF K
    <3>1. <<>> \in Seq(K)
      OBVIOUS
    <3> QED
      BY <2>1, <3>1
  <2>3. PICK n \in 1 .. N : n \in B /\ n - 1 \in 0 .. N /\ n - 1 \notin B
    <3> HIDE DEF B, N
    <3> QED
      BY <1>0, <2>2, FirstIndex
  <2>4. g[n] = AppendOf(g[n - 1], contents[n], kinds)
    BY <1>1, <2>3 DEF FoldEq, FoldStep
  <2>5. g[n] \in Seq(K)
    BY <1>0, <2>3, <2>4 DEF AppendOf
  <2> QED
    BY <2>3, <2>5
<1> QED
  BY <1>0, <1>1, <1>2
-----------------------------------------------------------------------------
(***************************************************************************)
(* The outputs that a transaction fills.                                   *)
(***************************************************************************)
\* A reservation is one that a transaction of T made.
GoodContent(T, c) ==
    c.kind = "BitAssetReservation" =>
        \E t \in T : c.of[1] = t.txid /\ c.of[2] = t.data.commitment

GoodSeq(T, q) == \E S : q \in Seq(S) /\ \A c \in S : GoodContent(T, c)

LEMMA GoodSeqs ==
    ASSUME NEW T, NEW q, GoodSeq(T, q)
    PROVE  /\ Len(q) \in Nat /\ DOMAIN q = 1 .. Len(q)
           /\ \A i \in DOMAIN q : GoodContent(T, q[i])
           /\ q # <<>> => GoodContent(T, q[1]) /\ GoodSeq(T, Tail(q))
           /\ \A c : GoodContent(T, c) => GoodSeq(T, Append(q, c)) /\ Len(Append(q, c)) = Len(q) + 1
           /\ \A r : GoodSeq(T, r) => GoodSeq(T, q \o r)
           /\ \A i \in DOMAIN q : GoodSeq(T, RemoveAt(q, i))
<1>1. PICK S : q \in Seq(S) /\ \A c \in S : GoodContent(T, c)
  BY DEF GoodSeq
<1>2. /\ Len(q) \in Nat /\ DOMAIN q = 1 .. Len(q)
      /\ \A i \in DOMAIN q : GoodContent(T, q[i])
  BY <1>1
<1>3. q # <<>> => GoodContent(T, q[1]) /\ GoodSeq(T, Tail(q))
  <2> SUFFICES ASSUME q # <<>> PROVE GoodContent(T, q[1]) /\ GoodSeq(T, Tail(q))
    OBVIOUS
  <2>1. q[1] \in S /\ Tail(q) \in Seq(S)
    BY <1>1
  <2> QED
    BY <1>1, <2>1 DEF GoodSeq
<1>4. ASSUME NEW c, GoodContent(T, c)
      PROVE  GoodSeq(T, Append(q, c)) /\ Len(Append(q, c)) = Len(q) + 1
  <2> DEFINE Z == S \cup {c}
  <2>1. Append(q, c) \in Seq(Z) /\ Len(Append(q, c)) = Len(q) + 1
    BY <1>1
  <2>2. \A x \in Z : GoodContent(T, x)
    BY <1>1, <1>4
  <2> HIDE DEF Z
  <2> QED
    BY <2>1, <2>2 DEF GoodSeq
<1>5. ASSUME NEW r, GoodSeq(T, r)
      PROVE  GoodSeq(T, q \o r)
  <2>1. PICK R : r \in Seq(R) /\ \A c \in R : GoodContent(T, c)
    BY <1>5 DEF GoodSeq
  <2> DEFINE Z == S \cup R
  <2>2. \A x \in Z : GoodContent(T, x)
    BY <1>1, <2>1
  <2>3. q \o r \in Seq(Z)
    <3>1. q \in Seq(Z) /\ r \in Seq(Z)
      BY <1>1, <2>1
    <3> HIDE DEF Z
    <3> QED
      BY <3>1
  <2> HIDE DEF Z
  <2> QED
    BY <2>2, <2>3 DEF GoodSeq
<1>6. ASSUME NEW i \in DOMAIN q
      PROVE  GoodSeq(T, RemoveAt(q, i))
  <2>0. i \in 1 .. Len(q) /\ Len(q) \in Nat
    BY <1>2
  <2>1. SubSeq(q, 1, i - 1) \in Seq(S) /\ SubSeq(q, i + 1, Len(q)) \in Seq(S)
    BY <1>1, <2>0
  <2>2. RemoveAt(q, i) \in Seq(S)
    BY <2>1 DEF RemoveAt
  <2> QED
    BY <1>1, <2>2 DEF GoodSeq
<1> QED
  BY <1>2, <1>3, <1>4, <1>5, <1>6

FillFields ==
    {"ok", "bitcoin", "bitassets", "lps", "controls", "receipts", "reservations", "outputs"}

FillOK(T, fill, n) ==
    /\ DOMAIN fill = FillFields
    /\ GoodSeq(T, fill.receipts) /\ GoodSeq(T, fill.reservations) /\ GoodSeq(T, fill.outputs)
    /\ fill.ok => Len(fill.outputs) = n

LEMMA FillStart ==
    ASSUME NEW T, NEW t \in T, NEW f, f.txid = t.txid, f.data = t.data, GoodSeq(T, f.spent_utxos)
    PROVE  FillOK(T, fill_start(f), 0)
<1>0. PICK S : f.spent_utxos \in Seq(S) /\ \A c \in S : GoodContent(T, c)
  BY DEF GoodSeq
<1>1. ASSUME NEW kinds
      PROVE  GoodSeq(T, OfKind(f.spent_utxos, kinds))
  <2> DEFINE K == {c \in S : c.kind \in kinds}
  <2>1. OfKind(f.spent_utxos, kinds) \in Seq(K)
    BY <1>0, OfKindIs
  <2>2. \A c \in K : GoodContent(T, c)
    BY <1>0
  <2> HIDE DEF K
  <2> QED
    BY <2>1, <2>2 DEF GoodSeq
<1>2. GoodSeq(T, <<>>)
  <2>1. <<>> \in Seq({})
    OBVIOUS
  <2> QED
    BY <2>1 DEF GoodSeq
<1>3. GoodSeq(T, filled_dutch_auction_receipts(f))
  <2> DEFINE q == spent_dutch_auction_receipts(f)
             c == ReceiptContent(f.txid)
             u == IF Is(f, "DutchAuctionCollect") /\ q # <<>> THEN Tail(q) ELSE q
             v == IF Is(f, "DutchAuctionCreate") THEN <<c>> ELSE <<>>
  <2>1. GoodSeq(T, q)
    BY <1>1 DEF spent_dutch_auction_receipts
  <2>2. filled_dutch_auction_receipts(f) = u \o v
    BY DEF filled_dutch_auction_receipts
  <2>3. GoodContent(T, c)
    BY DEF GoodContent, ReceiptContent
  <2> HIDE DEF q, c
  <2>4. GoodSeq(T, u)
    BY <2>1, GoodSeqs
  <2>5. GoodSeq(T, <<c>>)
    <3>1. <<c>> = Append(<<>>, c)
      OBVIOUS
    <3> QED
      BY <1>2, <2>3, <3>1, GoodSeqs
  <2>6. GoodSeq(T, v)
    BY <1>2, <2>5
  <2> HIDE DEF u, v
  <2> QED
    BY <2>2, <2>4, <2>6, GoodSeqs
<1>4. GoodSeq(T, filled_reservation_output_content(f))
  <2> DEFINE q == spent_reservations(f)
             c == ReservationContent(f.txid, f.data.commitment)
             B == BurnedReservations(f)
             u == IF B = {} THEN q ELSE RemoveAt(q, Min(B))
             v == IF Is(f, "BitAssetReservation") THEN <<c>> ELSE <<>>
  <2>1. GoodSeq(T, q)
    BY <1>1 DEF spent_reservations
  <2>2. filled_reservation_output_content(f) = u \o v
    BY DEF filled_reservation_output_content
  <2>3. GoodContent(T, c)
    BY DEF GoodContent, ReservationContent
  <2>4. B \subseteq DOMAIN q
    BY DEF BurnedReservations
  <2>5. B # {} => Min(B) \in B
    <3>1. B \subseteq Nat
      <4>1. DOMAIN q = 1 .. Len(q) /\ Len(q) \in Nat
        BY <2>1, GoodSeqs
      <4> QED
        BY <2>4, <4>1
    <3> HIDE DEF B
    <3>2. B # {} => \E n \in B : \A k \in B : n <= k
      BY <3>1, LeastNatural
    <3> QED
      BY <3>2 DEF Min
  <2> HIDE DEF q, c, B
  <2>6. GoodSeq(T, u)
    BY <2>1, <2>4, <2>5, GoodSeqs
  <2>7. GoodSeq(T, <<c>>)
    <3>1. <<c>> = Append(<<>>, c)
      OBVIOUS
    <3> QED
      BY <1>2, <2>3, <3>1, GoodSeqs
  <2>8. GoodSeq(T, v)
    BY <1>2, <2>7
  <2> HIDE DEF u, v
  <2> QED
    BY <2>2, <2>6, <2>8, GoodSeqs
<1>5. LET s == fill_start(f)
      IN  /\ DOMAIN s = FillFields
          /\ s.receipts = filled_dutch_auction_receipts(f)
          /\ s.reservations = filled_reservation_output_content(f)
          /\ s.outputs = <<>>
  BY DEF fill_start, FillFields
<1> QED
  BY <1>2, <1>3, <1>4, <1>5 DEF FillOK

LEMMA FillStep ==
    ASSUME NEW T, NEW fill, NEW n \in Nat, FillOK(T, fill, n), NEW out, out.kind \in OutputKinds
    PROVE  FillOK(T, fill_output(fill, out), n + 1)
<1> DEFINE r == fill_output(fill, out)
<1>1. /\ DOMAIN fill = FillFields
      /\ GoodSeq(T, fill.receipts) /\ GoodSeq(T, fill.reservations) /\ GoodSeq(T, fill.outputs)
      /\ fill.ok => Len(fill.outputs) = n
  BY DEF FillOK
<1>2. ASSUME ~fill.ok, r = fill \/ r = Refused(fill) PROVE FillOK(T, r, n + 1)
  BY <1>1, <1>2 DEF FillOK, Refused, FillFields
<1>3. FillOK(T, Refused(fill), n + 1)
  BY <1>1 DEF FillOK, Refused, FillFields
<1>4. ASSUME fill.ok, NEW c, GoodContent(T, c), DOMAIN r = FillFields,
             r.outputs = Append(fill.outputs, c),
             GoodSeq(T, r.receipts), GoodSeq(T, r.reservations)
      PROVE  FillOK(T, r, n + 1)
  <2> HIDE DEF r
  <2>1. GoodSeq(T, Append(fill.outputs, c)) /\ Len(Append(fill.outputs, c)) = n + 1
    BY <1>1, <1>4, GoodSeqs
  <2> QED
    BY <1>4, <2>1 DEF FillOK
<1>5. CASE ~fill.ok
  BY <1>2, <1>5 DEF fill_output
<1>6. ASSUME fill.ok, out.kind = "BitAsset" PROVE FillOK(T, r, n + 1)
  <2> DEFINE c == BitAssetContent(fill.bitassets[1].of, out.value)
  <2>1. CASE CanTake(fill.bitassets, out.value)
    <3>1. r = [fill EXCEPT !.bitassets = take(@, out.value), !.outputs = Append(@, c)]
      BY <1>6, <2>1 DEF fill_output
    <3>2. GoodContent(T, c)
      BY DEF GoodContent, BitAssetContent
    <3> HIDE DEF r, c
    <3>3. /\ DOMAIN r = FillFields /\ r.outputs = Append(fill.outputs, c)
          /\ r.receipts = fill.receipts /\ r.reservations = fill.reservations
      BY <1>1, <3>1 DEF FillFields
    <3> QED
      BY <1>1, <1>4, <1>6, <3>2, <3>3
  <2>2. CASE ~CanTake(fill.bitassets, out.value)
    BY <1>3, <1>6, <2>2 DEF fill_output
  <2> QED
    BY <2>1, <2>2
<1>7. ASSUME fill.ok, out.kind = "AmmLpToken" PROVE FillOK(T, r, n + 1)
  <2> DEFINE c == LpContent(fill.lps[1].of, out.value)
  <2>1. CASE CanTake(fill.lps, out.value)
    <3>1. r = [fill EXCEPT !.lps = take(@, out.value), !.outputs = Append(@, c)]
      BY <1>7, <2>1 DEF fill_output
    <3>2. GoodContent(T, c)
      BY DEF GoodContent, LpContent
    <3> HIDE DEF r, c
    <3>3. /\ DOMAIN r = FillFields /\ r.outputs = Append(fill.outputs, c)
          /\ r.receipts = fill.receipts /\ r.reservations = fill.reservations
      BY <1>1, <3>1 DEF FillFields
    <3> QED
      BY <1>1, <1>4, <1>7, <3>2, <3>3
  <2>2. CASE ~CanTake(fill.lps, out.value)
    BY <1>3, <1>7, <2>2 DEF fill_output
  <2> QED
    BY <2>1, <2>2
<1>8. ASSUME fill.ok, out.kind = "BitAssetControl" PROVE FillOK(T, r, n + 1)
  <2> DEFINE c == ControlContent(fill.controls[1].of)
  <2>1. CASE fill.controls # <<>>
    <3>1. r = [fill EXCEPT !.controls = Tail(@), !.outputs = Append(@, c)]
      BY <1>8, <2>1 DEF fill_output
    <3>2. GoodContent(T, c)
      BY DEF GoodContent, ControlContent
    <3> HIDE DEF r, c
    <3>3. /\ DOMAIN r = FillFields /\ r.outputs = Append(fill.outputs, c)
          /\ r.receipts = fill.receipts /\ r.reservations = fill.reservations
      BY <1>1, <3>1 DEF FillFields
    <3> QED
      BY <1>1, <1>4, <1>8, <3>2, <3>3
  <2>2. CASE fill.controls = <<>>
    BY <1>3, <1>8, <2>2 DEF fill_output
  <2> QED
    BY <2>1, <2>2
<1>9. ASSUME fill.ok, out.kind = "BitAssetReservation" PROVE FillOK(T, r, n + 1)
  <2> DEFINE c == fill.reservations[1]
  <2>1. CASE fill.reservations # <<>>
    <3>1. r = [fill EXCEPT !.reservations = Tail(@), !.outputs = Append(@, c)]
      BY <1>9, <2>1 DEF fill_output
    <3>2. GoodContent(T, c) /\ GoodSeq(T, Tail(fill.reservations))
      BY <1>1, <2>1, GoodSeqs
    <3> HIDE DEF r, c
    <3>3. /\ DOMAIN r = FillFields /\ r.outputs = Append(fill.outputs, c)
          /\ r.receipts = fill.receipts /\ r.reservations = Tail(fill.reservations)
      BY <1>1, <3>1 DEF FillFields
    <3> QED
      BY <1>1, <1>4, <1>9, <3>2, <3>3
  <2>2. CASE fill.reservations = <<>>
    BY <1>3, <1>9, <2>2 DEF fill_output
  <2> QED
    BY <2>1, <2>2
<1>10. ASSUME fill.ok, out.kind = "DutchAuctionReceipt" PROVE FillOK(T, r, n + 1)
  <2> DEFINE c == fill.receipts[1]
  <2>1. CASE fill.receipts # <<>>
    <3>1. r = [fill EXCEPT !.receipts = Tail(@), !.outputs = Append(@, c)]
      BY <1>10, <2>1 DEF fill_output
    <3>2. GoodContent(T, c) /\ GoodSeq(T, Tail(fill.receipts))
      BY <1>1, <2>1, GoodSeqs
    <3> HIDE DEF r, c
    <3>3. /\ DOMAIN r = FillFields /\ r.outputs = Append(fill.outputs, c)
          /\ r.receipts = Tail(fill.receipts) /\ r.reservations = fill.reservations
      BY <1>1, <3>1 DEF FillFields
    <3> QED
      BY <1>1, <1>4, <1>10, <3>2, <3>3
  <2>2. CASE fill.receipts = <<>>
    BY <1>3, <1>10, <2>2 DEF fill_output
  <2> QED
    BY <2>1, <2>2
<1>11. ASSUME fill.ok, out.kind = "Bitcoin" PROVE FillOK(T, r, n + 1)
  <2> DEFINE c == BitcoinContent(out.value)
  <2>1. CASE out.value <= fill.bitcoin
    <3>1. r = [fill EXCEPT !.bitcoin = @ - out.value, !.outputs = Append(@, c)]
      BY <1>11, <2>1 DEF fill_output
    <3>2. GoodContent(T, c)
      BY DEF GoodContent, BitcoinContent
    <3> HIDE DEF r, c
    <3>3. /\ DOMAIN r = FillFields /\ r.outputs = Append(fill.outputs, c)
          /\ r.receipts = fill.receipts /\ r.reservations = fill.reservations
      BY <1>1, <3>1 DEF FillFields
    <3> QED
      BY <1>1, <1>4, <1>11, <3>2, <3>3
  <2>2. CASE ~(out.value <= fill.bitcoin)
    BY <1>3, <1>11, <2>2 DEF fill_output
  <2> QED
    BY <2>1, <2>2
<1>12. ASSUME fill.ok, out.kind = "Withdrawal" PROVE FillOK(T, r, n + 1)
  <2> DEFINE c == WithdrawalContent(out.value)
  <2>1. r = [fill EXCEPT !.outputs = Append(@, c)]
    BY <1>12 DEF fill_output
  <2>2. GoodContent(T, c)
    BY DEF GoodContent, WithdrawalContent
  <2> HIDE DEF r, c
  <2>3. /\ DOMAIN r = FillFields /\ r.outputs = Append(fill.outputs, c)
        /\ r.receipts = fill.receipts /\ r.reservations = fill.reservations
    BY <1>1, <2>1 DEF FillFields
  <2> QED
    BY <1>1, <1>4, <1>12, <2>2, <2>3
<1> QED
  BY <1>5, <1>6, <1>7, <1>8, <1>9, <1>10, <1>11, <1>12 DEF OutputKinds

\* A transaction that can be filled has a content for each of its outputs.
LEMMA FilledOutputs ==
    ASSUME NEW T, NEW t \in T, TransactionOK(t), NEW f, f.txid = t.txid, f.data = t.data,
           f.outputs = t.outputs, GoodSeq(T, f.spent_utxos), filled_outputs(f).ok
    PROVE  /\ DOMAIN filled_outputs(f).outputs = DOMAIN t.outputs
           /\ \A i \in DOMAIN t.outputs : GoodContent(T, filled_outputs(f).outputs[i])
<1> DEFINE N == Len(f.outputs)
<1>0. /\ N \in Nat /\ DOMAIN t.outputs = 1 .. N
      /\ \A n \in 1 .. N : f.outputs[n].kind \in OutputKinds
  <2> DEFINE R == [kind : OutputKinds, value : Amount]
  <2>1. f.outputs \in Seq(R) /\ f.outputs = t.outputs
    BY DEF TransactionOK
  <2>2. \A r \in R : r.kind \in OutputKinds
    OBVIOUS
  <2> HIDE DEF R
  <2>3. N \in Nat /\ DOMAIN f.outputs = 1 .. N /\ \A n \in 1 .. N : f.outputs[n] \in R
    BY <2>1
  <2> QED
    BY <2>1, <2>2, <2>3
<1>1. PICK g : /\ FoldEq(g, N, "fill", fill_start(f), f.outputs, 0)
               /\ filled_outputs(f) = g[N]
  BY <1>0, FoldFill
<1> HIDE DEF N
<1>2. \A n \in 0 .. N : FillOK(T, g[n], n)
  <2> DEFINE B == {n \in 0 .. N : ~FillOK(T, g[n], n)}
  <2> SUFFICES ASSUME B # {} PROVE FALSE
    OBVIOUS
  <2>1. g[0] = fill_start(f)
    BY <1>0, <1>1 DEF FoldEq
  <2>2. B \subseteq 0 .. N /\ 0 \notin B
    BY <2>1, FillStart
  <2>3. PICK n \in 1 .. N : n \in B /\ n - 1 \in 0 .. N /\ n - 1 \notin B
    <3> HIDE DEF B
    <3> QED
      BY <1>0, <2>2, FirstIndex
  <2>4. g[n] = fill_output(g[n - 1], f.outputs[n])
    BY <1>1, <2>3 DEF FoldEq, FoldStep
  <2>5. FillOK(T, g[n - 1], n - 1) /\ n - 1 \in Nat /\ (n - 1) + 1 = n
    BY <2>3, <1>0
  <2>6. FillOK(T, g[n], n)
    BY <1>0, <2>4, <2>5, FillStep
  <2> QED
    BY <2>3, <2>6
<1>3. FillOK(T, g[N], N)
  BY <1>0, <1>2
<1>4. GoodSeq(T, filled_outputs(f).outputs) /\ Len(filled_outputs(f).outputs) = N
  BY <1>1, <1>3 DEF FillOK
<1> QED
  BY <1>0, <1>4, GoodSeqs

-----------------------------------------------------------------------------
(***************************************************************************)
(* The sequence numbers of names: while they fit one byte, the last key of *)
(* the database is the greatest.                                           *)
(***************************************************************************)
\* A number below the divisor is its own remainder.
LEMMA SmallDivision ==
    ASSUME NEW k \in Nat, NEW n \in Nat, k < n
    PROVE  k \div n = 0 /\ k % n = k
  BY Z3

\* A key below Byte takes up one byte.
LEMMA OneByte ==
    ASSUME NEW k \in 0 .. Byte - 1
    PROVE  bincode(k) = <<k, 0, 0, 0>>
<1>1. Byte \in Nat /\ Byte >= 2 /\ k \in Nat /\ k < Byte
  BY ByteAssumption
<1>2. Byte * Byte \in Nat /\ Byte <= Byte * Byte
  BY <1>1, Z3
<1>3. Byte * Byte * Byte \in Nat /\ Byte * Byte <= Byte * Byte * Byte
  BY <1>1, <1>2, Z3
<1>4. k \div Byte = 0 /\ k % Byte = k
  BY <1>1, SmallDivision
<1>5. k \div (Byte * Byte) = 0
  <2>1. k < Byte * Byte
    BY <1>1, <1>2
  <2> QED BY <1>1, <1>2, <2>1, SmallDivision
<1>6. k \div (Byte * Byte * Byte) = 0
  <2>1. k < Byte * Byte * Byte
    BY <1>1, <1>2, <1>3
  <2> QED BY <1>1, <1>3, <2>1, SmallDivision
<1>7. 0 % Byte = 0
  BY <1>1, SmallDivision
<1> QED
  BY <1>4, <1>5, <1>6, <1>7, Zenon DEF bincode

\* Among such keys the order of the bytes is the order of the numbers.
LEMMA ByteOrder ==
    ASSUME NEW j \in 0 .. Byte - 1, NEW k \in 0 .. Byte - 1
    PROVE  memcmp_less(bincode(j), bincode(k)) <=> j < k
<1> DEFINE s == <<j, 0, 0, 0>>
           t == <<k, 0, 0, 0>>
<1>1. bincode(j) = s /\ bincode(k) = t
  BY OneByte, Zenon
<1>2. j \in Nat /\ k \in Nat
  BY ByteAssumption
<1>3. ASSUME j < k PROVE memcmp_less(s, t)
  <2>1. s[1] < t[1] /\ \A i \in 1 .. 1 - 1 : s[i] = t[i]
    BY <1>2, <1>3
  <2>2. 1 \in 1 .. 4
    OBVIOUS
  <2> HIDE DEF s, t
  <2> QED BY <2>1, <2>2, Zenon DEF memcmp_less
<1>4. ASSUME memcmp_less(s, t) PROVE j < k
  <2>1. PICK i \in 1 .. 4 : s[i] < t[i] /\ \A h \in 1 .. i - 1 : s[h] = t[h]
    BY <1>4, Zenon DEF memcmp_less
  <2>2. CASE i = 1
    BY <2>1, <2>2
  <2>3. CASE i # 1
    <3>1. s[i] = 0 /\ t[i] = 0
      BY <2>3
    <3> QED BY <2>1, <3>1
  <2> QED BY <2>2, <2>3
<1> QED
  BY <1>1, <1>3, <1>4, Zenon

\* The last entry of a database with the keys 0 .. n - 1 is the newest one.
LEMMA LastKey ==
    ASSUME NEW f, NEW n \in Nat, 0 < n, n <= Byte, DOMAIN f = 0 .. n - 1
    PROVE  last(f) = n - 1
<1> DEFINE Greatest(k) == \A j \in DOMAIN f \ {k} : memcmp_less(bincode(j), bincode(k))
<1>1. Byte \in Nat
  BY ByteAssumption
<1>2. n - 1 \in DOMAIN f /\ DOMAIN f \subseteq 0 .. Byte - 1
  BY <1>1
<1>3. Greatest(n - 1)
  <2> SUFFICES ASSUME NEW j \in DOMAIN f \ {n - 1} PROVE memcmp_less(bincode(j), bincode(n - 1))
    OBVIOUS
  <2>1. j < n - 1 /\ j \in 0 .. Byte - 1 /\ n - 1 \in 0 .. Byte - 1
    BY <1>1
  <2> QED BY <2>1, ByteOrder
<1>4. ASSUME NEW k \in DOMAIN f, Greatest(k) PROVE k = n - 1
  <2> SUFFICES ASSUME k # n - 1 PROVE FALSE
    OBVIOUS
  <2>1. memcmp_less(bincode(n - 1), bincode(k))
    BY <1>2, <1>4
  <2>2. n - 1 \in 0 .. Byte - 1 /\ k \in 0 .. Byte - 1
    BY <1>2
  <2>3. n - 1 < k
    BY <2>1, <2>2, ByteOrder
  <2> QED BY <2>3, <1>1
<1>5. last(f) = CHOOSE k \in DOMAIN f : Greatest(k)
  BY Zenon DEF last
<1> HIDE DEF Greatest
<1> QED
  BY <1>2, <1>3, <1>4, <1>5, Zenon

\* The next one gets the key n.
LEMMA NextKey ==
    ASSUME NEW f, NEW n \in Nat, n <= Byte, DOMAIN f = 0 .. n - 1
    PROVE  next_key(f) = n
<1>1. CASE n = 0
  <2>1. DOMAIN f = {}
    BY <1>1
  <2> QED BY <1>1, <2>1, Zenon DEF next_key
<1>2. CASE 0 < n
  <2>1. DOMAIN f # {} /\ last(f) = n - 1
    BY <1>2, LastKey
  <2>2. next_key(f) = last(f) + 1
    BY <2>1, Zenon DEF next_key
  <2> QED BY <2>1, <2>2
<1> QED
  BY <1>1, <1>2

\* The numbers are 0 .. n - 1, or one of them no longer fits one byte.
SeqOK(d) == Few(d) => \E n \in Nat : DOMAIN d.seq_to_bitasset = 0 .. n - 1

LEMMA NextSeq ==
    ASSUME NEW d, SeqOK(d), Few(d)
    PROVE  \E n \in Nat : /\ n <= Byte /\ DOMAIN d.seq_to_bitasset = 0 .. n - 1
                          /\ next_seq(d) = n /\ next_seq(d) \notin DOMAIN d.seq_to_bitasset
<1>1. PICK n \in Nat : DOMAIN d.seq_to_bitasset = 0 .. n - 1
  BY DEF SeqOK
<1>2. n <= Byte
  <2>1. CASE n = 0
    BY <2>1, ByteAssumption
  <2>2. CASE n # 0
    <3>1. n - 1 \in DOMAIN d.seq_to_bitasset
      BY <1>1, <2>2
    <3>2. n - 1 < Byte
      BY <3>1 DEF Few
    <3> QED
      BY <3>2, ByteAssumption
  <2> QED
    BY <2>1, <2>2
<1>3. next_seq(d) = n
  BY <1>1, <1>2, NextKey DEF next_seq
<1> QED
  BY <1>1, <1>2, <1>3

LEMMA SeqKept ==
    ASSUME NEW x, NEW y, NEW f, GrowsNames(x, y, f), SeqOK(x)
    PROVE  /\ DOMAIN x.seq_to_bitasset \subseteq DOMAIN y.seq_to_bitasset
           /\ Few(y) => Few(x)
           /\ SeqOK(y)
<1>1. CASE ~Is(f, "BitAssetRegistration")
  BY <1>1 DEF GrowsNames, Few, SeqOK
<1>2. CASE Is(f, "BitAssetRegistration")
  <2>1. DOMAIN y.seq_to_bitasset = DOMAIN x.seq_to_bitasset \cup {next_seq(x)}
    BY <1>2 DEF GrowsNames, put
  <2>2. Few(y) => Few(x)
    BY <2>1 DEF Few
  <2>3. ASSUME Few(y) PROVE \E n \in Nat : DOMAIN y.seq_to_bitasset = 0 .. n - 1
    <3>1. PICK n \in Nat : DOMAIN x.seq_to_bitasset = 0 .. n - 1 /\ next_seq(x) = n
      BY <2>2, <2>3, NextSeq
    <3>2. DOMAIN y.seq_to_bitasset = 0 .. (n + 1) - 1 /\ n + 1 \in Nat
      BY <2>1, <3>1
    <3> QED
      BY <3>2
  <2> QED
    BY <2>1, <2>2, <2>3 DEF SeqOK
<1> QED
  BY <1>1, <1>2

-----------------------------------------------------------------------------
(***************************************************************************)
(* One transaction, undone.                                                *)
(***************************************************************************)
CreatedBy(t) == {Regular(t.txid, i) : i \in DOMAIN t.outputs}

LEMMA RegularIs ==
    ASSUME NEW txid, NEW i
    PROVE  /\ Regular(txid, i)[1] = "Regular" /\ Regular(txid, i)[2] = txid
           /\ Regular(txid, i)[3] = i
  BY DEF Regular

LEMMA NewUtxosIs ==
    ASSUME NEW txid, NEW out
    PROVE  /\ IsFun(NewUtxos(txid, out))
           /\ DOMAIN NewUtxos(txid, out) = {Regular(txid, i) : i \in DOMAIN out}
           /\ \A o \in DOMAIN NewUtxos(txid, out) :
                \E i \in DOMAIN out : NewUtxos(txid, out)[o] = out[i]
  BY RegularIs DEF NewUtxos, IsFun

\* The entries of stxos that a transaction makes.
LEMMA NewStxosIs ==
    ASSUME NEW f, IsInjective(f.inputs), DOMAIN f.inputs \subseteq Nat
    PROVE  /\ IsFun(NewStxos(f)) /\ DOMAIN NewStxos(f) = Range(f.inputs)
           /\ \A i \in DOMAIN f.inputs :
                /\ NewStxos(f)[f.inputs[i]].output = f.spent_utxos[i]
                /\ NewStxos(f)[f.inputs[i]].inpoint = <<f.txid, i>>
<1>1. IsFun(NewStxos(f)) /\ DOMAIN NewStxos(f) = Range(f.inputs)
  BY DEF NewStxos, IsFun
<1>2. ASSUME NEW i \in DOMAIN f.inputs
      PROVE  /\ NewStxos(f)[f.inputs[i]].output = f.spent_utxos[i]
             /\ NewStxos(f)[f.inputs[i]].inpoint = <<f.txid, i>>
  <2> DEFINE o == f.inputs[i]
             M == Max({j \in DOMAIN f.inputs : f.inputs[j] = o})
  <2>1. {j \in DOMAIN f.inputs : f.inputs[j] = o} = {i}
    BY DEF IsInjective
  <2>2. M = i
    <3>1. Max({i}) = i
      BY <1>2 DEF Max
    <3> QED
      BY <2>1, <3>1
  <2>3. o \in Range(f.inputs)
    BY DEF Range
  <2>4. NewStxos(f)[o] = [output |-> f.spent_utxos[M], inpoint |-> <<f.txid, M>>]
    BY <2>3 DEF NewStxos
  <2> QED
    BY <2>2, <2>4
<1> QED
  BY <1>1, <1>2

\* f is t, filled from V, where its inputs are; S has none of them.
Spends(t, f, V, S) ==
    /\ IsFun(V) /\ IsFun(S)
    /\ DOMAIN t.inputs \subseteq Nat /\ IsInjective(t.inputs)
    /\ f = filled_with(t, [i \in DOMAIN t.inputs |-> V[t.inputs[i]]])
    /\ Range(t.inputs) \subseteq DOMAIN V
    /\ Range(t.inputs) \cap DOMAIN S = {}

\* f was applied to y, and X holds what it left.
MovedTo(t, f, V, S, X) ==
    \E out : /\ DOMAIN out = DOMAIN t.outputs
             /\ X.utxos = put_all(Without(V, Range(t.inputs)), NewUtxos(t.txid, out))
             /\ X.stxos = put_all(S, NewStxos(f))

LEMMA UndoTx ==
    ASSUME NEW T, NEW t, NEW f, FilledOf(T, f), NEW V, NEW S, Spends(t, f, V, S),
           CreatedBy(t) \cap DOMAIN V = {},
           NEW X, IsDb(X), MovedTo(t, f, V, S, X),
           NEW y, DataOK(y), NEW height, FreshData(y, f.txid),
           Is(f, "BitAssetRegistration") => NewName(y, f),
           apply_data(y, f, height).tag = "ok", SameData(X, apply_data(y, f, height).db)
    PROVE  LET r == disconnect_tx(X, t, height)
           IN  /\ r.tag = "ok" /\ IsDb(r.db) /\ SameData(r.db, y)
               /\ r.db.utxos = V /\ r.db.stxos = S
               /\ r.db.tip = X.tip /\ r.db.height = X.height
<1> DEFINE I == Range(t.inputs)
           r == disconnect_tx(X, t, height)
<1>1. /\ f.txid = t.txid /\ f.inputs = t.inputs /\ f.outputs = t.outputs /\ f.data = t.data
      /\ f.spent_utxos = [i \in DOMAIN t.inputs |-> V[t.inputs[i]]]
  BY DEF Spends, filled_with
<1>2. PICK out : /\ DOMAIN out = DOMAIN t.outputs
                 /\ X.utxos = put_all(Without(V, I), NewUtxos(t.txid, out))
                 /\ X.stxos = put_all(S, NewStxos(f))
  BY DEF MovedTo
<1>3. /\ IsFun(NewStxos(f)) /\ DOMAIN NewStxos(f) = I
      /\ \A i \in DOMAIN t.inputs :
            /\ NewStxos(f)[t.inputs[i]].output = V[t.inputs[i]]
            /\ NewStxos(f)[t.inputs[i]].inpoint = <<t.txid, i>>
  BY <1>1, NewStxosIs DEF Spends
<1>4. \A i \in DOMAIN t.inputs : t.inputs[i] \in I
  BY DEF Range
<1>5. \A o \in I : o \in DOMAIN X.stxos /\ X.stxos[o] = NewStxos(f)[o]
  BY <1>2, <1>3 DEF put_all
<1>6. CanFillFrom(X.stxos, t) /\ ~stxos_panic(X, t)
  BY <1>3, <1>4, <1>5 DEF CanFillFrom, Has, stxos_panic
<1>7. fill_transaction_from_stxos(X, t) = f
  <2>1. \A i \in DOMAIN t.inputs : X.stxos[t.inputs[i]].output = V[t.inputs[i]]
    BY <1>3, <1>4, <1>5
  <2>2. [i \in DOMAIN t.inputs |-> X.stxos[t.inputs[i]].output]
          = [i \in DOMAIN t.inputs |-> V[t.inputs[i]]]
    BY <2>1
  <2> QED
    BY <2>2 DEF fill_transaction_from_stxos, Spends
<1> DEFINE q == revert_data(X, f, height)
           e == q.db
           s == DeleteUtxos(e, CreatedBy(t))
           w == unspend(s.db, t)
<1>8. q.tag = "ok" /\ IsDb(e) /\ SameData(e, y) /\ SameRest(e, X)
  <2>1. RevertsTo(q, y, X)
    BY UndoData
  <2> QED
    BY <2>1 DEF RevertsTo
<1>9. r = IF s.tag = "ok" THEN w ELSE s
  BY <1>6, <1>7, <1>8 DEF disconnect_tx, Then, CreatedBy
<1> HIDE DEF q, r
<1> DEFINE N == NewUtxos(t.txid, out)
           R == [o \in I |-> X.stxos[o].output]
<1>10. DOMAIN N = CreatedBy(t)
  BY <1>2 DEF NewUtxos, CreatedBy
<1>11. IsFun(R) /\ DOMAIN R = I /\ \A o \in I : R[o] = V[o]
  <2>1. ASSUME NEW o \in I PROVE R[o] = V[o]
    <3>1. PICK i \in DOMAIN t.inputs : o = t.inputs[i]
      BY DEF Range
    <3> QED
      BY <1>3, <1>5, <3>1
  <2> QED
    BY <2>1 DEF IsFun
<1>12. CreatedBy(t) \subseteq DOMAIN X.utxos /\ put_all(Without(X.utxos, CreatedBy(t)), R) = V
  <2>1. IsFun(V) /\ I \subseteq DOMAIN V
    BY DEF Spends
  <2>2. DOMAIN N \cap DOMAIN V = {}
    BY <1>10
  <2>3. X.utxos = put_all(Without(V, I), N)
    BY <1>2
  <2> HIDE DEF I, N, R
  <2> QED
    BY <1>10, <1>11, <2>1, <2>2, <2>3, MovedBack
<1>13. Without(X.stxos, I) = S
  <2>1. IsFun(S) /\ I \cap DOMAIN S = {}
    BY DEF Spends
  <2> HIDE DEF I
  <2>2. DOMAIN NewStxos(f) \cap DOMAIN S = {}
    BY <1>3, <2>1
  <2>3. Without(put_all(S, NewStxos(f)), DOMAIN NewStxos(f)) = S
    BY <2>1, <2>2, TakenBack
  <2> QED
    BY <1>2, <1>3, <2>3
<1>14. e.utxos = X.utxos /\ e.stxos = X.stxos /\ e.tip = X.tip /\ e.height = X.height
  BY <1>8 DEF SameRest
<1> HIDE DEF e
<1>15. /\ s.tag = "ok" /\ IsDb(s.db) /\ SameData(s.db, y)
       /\ s.db.utxos = Without(X.utxos, CreatedBy(t))
       /\ s.db.stxos = X.stxos /\ s.db.tip = X.tip /\ s.db.height = X.height
  <2>1. s = Ok([e EXCEPT !.utxos = Without(@, CreatedBy(t))])
    BY <1>12, <1>14 DEF DeleteUtxos, Guarded, Has
  <2> HIDE DEF s
  <2> QED
    BY <1>8, <1>14, <2>1 DEF Ok, IsDb, DbFields, SameData
<1> HIDE DEF s
<1>16. /\ w.tag = "ok" /\ IsDb(w.db) /\ SameData(w.db, y)
       /\ w.db.utxos = put_all(Without(X.utxos, CreatedBy(t)), R)
       /\ w.db.stxos = Without(X.stxos, I) /\ w.db.tip = X.tip /\ w.db.height = X.height
  <2>1. CanFillFrom(s.db.stxos, t) /\ IsInjective(t.inputs)
    BY <1>6, <1>15 DEF Spends
  <2>2. w = Ok([s.db EXCEPT !.utxos = put_all(@, R), !.stxos = Without(@, I)])
    BY <1>15, <2>1 DEF unspend, Guarded
  <2> HIDE DEF w, R, I
  <2> QED
    BY <1>15, <2>2 DEF Ok, IsDb, DbFields, SameData
<1> HIDE DEF w
<1> QED
  BY <1>9, <1>12, <1>13, <1>15, <1>16 DEF r
-----------------------------------------------------------------------------
(***************************************************************************)
(* The state.  T is the set of all transactions.  A transaction spends     *)
(* outputs, so it is in at most one block of a chain: either its inputs    *)
(* are in stxos, or nothing in the state is of it.                         *)
(***************************************************************************)
Spending(T) == \A t \in T : t.inputs # <<>>

Used(d, t) == Range(t.inputs) \subseteq DOMAIN d.stxos

Fresh(d, t) ==
    /\ FreshData(d, t.txid)
    /\ \A i : Regular(t.txid, i) \notin DOMAIN d.utxos \cup DOMAIN d.stxos

\* A reservation is of a transaction of T.
GoodReservations(T, d) ==
    \A k \in DOMAIN d.reservations :
        \E t \in T : t.txid = k /\ d.reservations[k] = t.data.commitment

UtxosOK(T, d) ==
    /\ IsFun(d.utxos) /\ IsFun(d.stxos) /\ DOMAIN d.utxos \cap DOMAIN d.stxos = {}
    /\ \A o \in DOMAIN d.utxos : GoodContent(T, d.utxos[o])

\* The tip is the list of the blocks up to it, and the coinbase outputs are of
\* those.
TipOK(d) ==
    /\ \E S : d.tip \in Seq(S)
    /\ d.height \in Int /\ Len(d.tip) = d.height + 1
    /\ \A o \in DOMAIN d.utxos \cup DOMAIN d.stxos : 
          o[1] = "Coinbase" => Len(o[2]) \in Nat /\ Len(o[2]) <= Len(d.tip)

StateOK(T, d) ==
    /\ DataOK(d) /\ GoodReservations(T, d) /\ SeqOK(d)
    /\ UtxosOK(T, d) /\ TipOK(d)
    /\ \A t \in T : Used(d, t) \/ Fresh(d, t)

-----------------------------------------------------------------------------
(***************************************************************************)
(* A block that is valid on a state.                                       *)
(***************************************************************************)
In(b, i) == Range(b.txs[i].inputs)

Valid(T, d, b) ==
    /\ Typed(T) /\ Spending(T) /\ StateOK(T, d)
    /\ b.txs \in Seq(T) /\ (\E S : b.coinbase \in Seq(S))
    /\ ~validate_refused(d, b) /\ ~BadCoinbase(b)

LEMMA ValidTxs ==
    ASSUME NEW T, NEW d, NEW b, Valid(T, d, b)
    PROVE  /\ Len(b.txs) \in Nat /\ DOMAIN b.txs = 1 .. Len(b.txs)
           /\ \A i \in 1 .. Len(b.txs) : b.txs[i] \in T /\ TransactionOK(b.txs[i])
           /\ d.tip = b.prev_side_hash
  BY DEF Valid, Typed, validate_refused

LEMMA ValidInputs ==
    ASSUME NEW T, NEW d, NEW b, Valid(T, d, b), NEW i \in 1 .. Len(b.txs)
    PROVE  /\ DOMAIN b.txs[i].inputs \subseteq Nat /\ IsInjective(b.txs[i].inputs)
           /\ In(b, i) \subseteq DOMAIN d.utxos /\ In(b, i) # {}
           /\ Fresh(d, b.txs[i])
           /\ \A j \in 1 .. Len(b.txs) :
                j # i => In(b, i) \cap In(b, j) = {} /\ b.txs[i].txid # b.txs[j].txid
<1>1. /\ DOMAIN b.txs = 1 .. Len(b.txs)
      /\ \A j \in 1 .. Len(b.txs) : b.txs[j] \in T /\ TransactionOK(b.txs[j])
  BY ValidTxs
<1>2. \A j \in 1 .. Len(b.txs) : DOMAIN b.txs[j].inputs \subseteq Nat /\ b.txs[j].inputs # <<>>
                                 /\ b.txs[j].inputs \in Seq(Range(b.txs[j].inputs))
  BY <1>1 DEF TransactionOK, Valid, Spending
<1>3. \A j \in 1 .. Len(b.txs) : In(b, j) \subseteq DOMAIN d.utxos
  <2>1. \A j \in 1 .. Len(b.txs) : CanFillFrom(d.utxos, b.txs[j])
    BY <1>1 DEF Valid, validate_refused
  <2> QED
    BY <2>1 DEF CanFillFrom, Has, In, Range
<1>4. ASSUME NEW j \in 1 .. Len(b.txs), NEW k \in 1 .. Len(b.txs),
             NEW m \in DOMAIN b.txs[j].inputs, NEW n \in DOMAIN b.txs[k].inputs,
             b.txs[j].inputs[m] = b.txs[k].inputs[n]
      PROVE  j = k /\ m = n
  <2> DEFINE P == UNION {{l} \X DOMAIN b.txs[l].inputs : l \in DOMAIN b.txs}
             p == <<j, m>>
             q == <<k, n>>
  <2>1. p \in P /\ q \in P
    BY <1>1, <1>4
  <2>2. InputAt(b, p) = InputAt(b, q)
    BY <1>4 DEF InputAt
  <2>3. ~SpentTwice(b)
    BY DEF Valid, validate_refused
  <2> HIDE DEF p, q
  <2>4. p = q
    BY <2>1, <2>2, <2>3 DEF SpentTwice
  <2> QED
    BY <2>4 DEF p, q
<1>5. IsInjective(b.txs[i].inputs)
  BY <1>4 DEF IsInjective
<1>6. In(b, i) # {}
  <2> DEFINE q == b.txs[i].inputs
  <2>1. q \in Seq(Range(q)) /\ q # <<>>
    BY <1>2
  <2> HIDE DEF q
  <2>2. Len(q) \in Nat /\ DOMAIN q = 1 .. Len(q) /\ Len(q) # 0
    BY <2>1
  <2>3. 1 \in DOMAIN q
    BY <2>2
  <2> QED
    BY <2>3 DEF In, Range, q
<1>7. ~Used(d, b.txs[i])
  BY <1>3, <1>6 DEF Used, In, Valid, StateOK, UtxosOK
<1>8. Fresh(d, b.txs[i])
  BY <1>1, <1>7 DEF Valid, StateOK
<1>9. ASSUME NEW j \in 1 .. Len(b.txs), j # i
      PROVE  In(b, i) \cap In(b, j) = {}
  BY <1>4, <1>9 DEF In, Range
<1>10. ASSUME NEW j \in 1 .. Len(b.txs), j # i
       PROVE  b.txs[i].txid # b.txs[j].txid
  <2> SUFFICES ASSUME b.txs[i].txid = b.txs[j].txid PROVE FALSE
    OBVIOUS
  <2>1. b.txs[i] = b.txs[j]
    BY <1>1 DEF Valid, Typed
  <2>2. In(b, i) = In(b, j)
    BY <2>1 DEF In
  <2> QED
    BY <1>6, <1>9, <1>10, <2>2
<1> QED
  BY <1>2, <1>3, <1>5, <1>6, <1>8, <1>9, <1>10

\* A transaction of the block, filled.
FilledFrom(f, t, V) == f = filled_with(t, [k \in DOMAIN t.inputs |-> V[t.inputs[k]]])

LEMMA ValidFilled ==
    ASSUME NEW T, NEW d, NEW b, Valid(T, d, b), NEW i \in 1 .. Len(b.txs)
    PROVE  LET t == b.txs[i]
               f == FilledSeq(d, b.txs)[i]
           IN  /\ f = fill_transaction(d, t)
               /\ FilledFrom(f, t, d.utxos)
               /\ f.txid = t.txid /\ f.data = t.data /\ f.inputs = t.inputs /\ f.outputs = t.outputs
               /\ FilledOf(T, f) /\ GoodSeq(T, f.spent_utxos)
               /\ ~validate_filled_transaction_refused(d, f)
<1> DEFINE t == b.txs[i]
           f == FilledSeq(d, b.txs)[i]
           s == [k \in DOMAIN t.inputs |-> d.utxos[t.inputs[k]]]
<1>1. DOMAIN b.txs = 1 .. Len(b.txs) /\ t \in T /\ TransactionOK(t)
  BY ValidTxs
<1>2. f = fill_transaction(d, t)
  BY <1>1 DEF FilledSeq
<1>3. f = filled_with(t, s)
  BY <1>2 DEF fill_transaction
<1>4. /\ f.txid = t.txid /\ f.data = t.data /\ f.inputs = t.inputs /\ f.outputs = t.outputs
      /\ f.spent_utxos = s
  BY <1>3 DEF filled_with
<1>5. FilledOf(T, f)
  <2>1. FilledOf(T, filled_with(t, s))
    BY <1>1, FilledIs DEF Valid
  <2> QED
    BY <1>3, <2>1
<1>6. GoodSeq(T, s)
  <2> DEFINE S == {d.utxos[o] : o \in In(b, i)}
  <2>1. t.inputs \in Seq(In(b, i))
    BY <1>1 DEF TransactionOK, In
  <2>2. s \in Seq(S)
    <3> HIDE DEF t
    <3> QED
      BY <2>1
  <2>3. \A c \in S : GoodContent(T, c)
    BY ValidInputs DEF Valid, StateOK, UtxosOK
  <2> HIDE DEF S, s
  <2> QED
    BY <2>2, <2>3 DEF GoodSeq
<1>7. ~validate_filled_transaction_refused(d, f)
  <2>1. ~\E k \in DOMAIN b.txs : validate_filled_transaction_refused(d, fill_transaction(d, b.txs[k]))
    BY DEF Valid, validate_refused
  <2> QED
    BY <1>1, <1>2, <2>1
<1>8. FilledFrom(f, t, d.utxos)
  BY <1>3 DEF FilledFrom
<1> QED
  BY <1>2, <1>4, <1>5, <1>6, <1>7, <1>8

-----------------------------------------------------------------------------
(***************************************************************************)
(* The outputs of a block: A and S are what the folds of BlockUtxos and    *)
(* BlockStxos come by.                                                     *)
(***************************************************************************)
SpentBy(b, n) == {o \in UNION {In(b, j) : j \in 1 .. Len(b.txs)} :
                    \E j \in 1 .. n : o \in In(b, j)}

\* The first M transactions can be filled.
FilledOk(d, b, M) == \A i \in 1 .. M : filled_outputs(FilledSeq(d, b.txs)[i]).ok

Folded(d, b, A, S) ==
    /\ FoldEq(A, Len(b.txs), "utxos", CoinbaseUtxos(b), FilledSeq(d, b.txs), 0)
    /\ FoldEq(S, Len(b.txs), "stxos", d.stxos, FilledSeq(d, b.txs), 0)

\* The utxos after n transactions.
UtxosAt(d, b, A, n) == put_all(Without(d.utxos, SpentBy(b, n)), A[n])

NewOf(d, b, n) == NewUtxos(b.txs[n].txid, filled_outputs(FilledSeq(d, b.txs)[n]).outputs)

CoinbaseOuts(b) == {Coinbase(hash(b), i) : i \in DOMAIN b.coinbase}

LEMMA CoinbaseIs ==
    ASSUME NEW h, NEW i
    PROVE  Coinbase(h, i)[1] = "Coinbase" /\ Coinbase(h, i)[2] = h /\ Coinbase(h, i)[3] = i
  BY DEF Coinbase

LEMMA HashIs ==
    ASSUME NEW T, NEW d, NEW b, Valid(T, d, b)
    PROVE  /\ \E S : hash(b) \in Seq(S)
           /\ Len(hash(b)) = Len(d.tip) + 1 /\ Len(d.tip) \in Nat
<1> DEFINE c == [txs |-> [i \in DOMAIN b.txs |-> b.txs[i].txid], coinbase |-> b.coinbase]
<1>1. PICK S : d.tip \in Seq(S)
  BY DEF Valid, StateOK, TipOK
<1>2. hash(b) = Append(d.tip, c)
  BY ValidTxs DEF hash
<1> HIDE DEF c
<1>3. hash(b) \in Seq(S \cup {c}) /\ Len(hash(b)) = Len(d.tip) + 1 /\ Len(d.tip) \in Nat
  BY <1>1, <1>2
<1> QED
  BY <1>3

LEMMA CoinbaseFresh ==
    ASSUME NEW T, NEW d, NEW b, Valid(T, d, b), NEW o \in CoinbaseOuts(b)
    PROVE  /\ o[1] = "Coinbase" /\ o[2] = hash(b)
           /\ o \notin DOMAIN d.utxos /\ o \notin DOMAIN d.stxos
<1>1. o[1] = "Coinbase" /\ o[2] = hash(b)
  BY CoinbaseIs DEF CoinbaseOuts
<1>2. Len(o[2]) = Len(d.tip) + 1 /\ Len(d.tip) \in Nat
  BY <1>1, HashIs
<1>3. \A q \in DOMAIN d.utxos \cup DOMAIN d.stxos : q[1] = "Coinbase" => Len(q[2]) <= Len(d.tip)
  BY DEF Valid, StateOK, TipOK
<1> QED
  BY <1>1, <1>2, <1>3

LEMMA CreatedFresh ==
    ASSUME NEW T, NEW d, NEW b, Valid(T, d, b), NEW n \in 1 .. Len(b.txs),
           NEW o \in CreatedBy(b.txs[n])
    PROVE  /\ o[1] = "Regular" /\ o[2] = b.txs[n].txid
           /\ o \notin DOMAIN d.utxos /\ o \notin DOMAIN d.stxos
<1>1. PICK i \in DOMAIN b.txs[n].outputs : o = Regular(b.txs[n].txid, i)
  BY DEF CreatedBy
<1>2. Fresh(d, b.txs[n])
  BY ValidInputs
<1> QED
  BY <1>1, <1>2, RegularIs DEF Fresh

\* The contents of a coinbase are bitcoin.
LEMMA CoinbaseGood ==
    ASSUME NEW T, NEW d, NEW b, Valid(T, d, b)
    PROVE  /\ IsFun(CoinbaseUtxos(b)) /\ DOMAIN CoinbaseUtxos(b) = CoinbaseOuts(b)
           /\ \A o \in CoinbaseOuts(b) : GoodContent(T, CoinbaseUtxos(b)[o])
<1>1. IsFun(CoinbaseUtxos(b)) /\ DOMAIN CoinbaseUtxos(b) = CoinbaseOuts(b)
  BY DEF CoinbaseUtxos, CoinbaseOuts, IsFun
<1>2. PICK S : b.coinbase \in Seq(S)
  BY DEF Valid
<1> DEFINE K == {c \in S : c.kind \in {"Bitcoin", "Withdrawal"}}
<1>3. b.coinbase \in Seq(K)
  <2>1. OfKind(b.coinbase, {"Bitcoin", "Withdrawal"}) \in Seq(K)
    BY <1>2, OfKindIs
  <2>2. OfKind(b.coinbase, {"Bitcoin", "Withdrawal"}) = b.coinbase
    BY DEF Valid, BadCoinbase
  <2> QED
    BY <2>1, <2>2
<1>4. \A c \in K : GoodContent(T, c)
  BY DEF GoodContent
<1>5. ASSUME NEW o \in CoinbaseOuts(b) PROVE GoodContent(T, CoinbaseUtxos(b)[o])
  <2>1. PICK i \in DOMAIN b.coinbase : o = Coinbase(hash(b), i)
    BY DEF CoinbaseOuts
  <2>2. CoinbaseUtxos(b)[o] = b.coinbase[i]
    BY <2>1, CoinbaseIs DEF CoinbaseUtxos
  <2> HIDE DEF K
  <2>3. b.coinbase[i] \in K
    BY <1>3
  <2> QED
    BY <1>4, <2>2, <2>3
<1> QED
  BY <1>1, <1>5

LEMMA NewOfIs ==
    ASSUME NEW T, NEW d, NEW b, Valid(T, d, b), NEW n \in 1 .. Len(b.txs),
           filled_outputs(FilledSeq(d, b.txs)[n]).ok
    PROVE  /\ DOMAIN filled_outputs(FilledSeq(d, b.txs)[n]).outputs = DOMAIN b.txs[n].outputs
           /\ IsFun(NewOf(d, b, n)) /\ DOMAIN NewOf(d, b, n) = CreatedBy(b.txs[n])
           /\ \A o \in CreatedBy(b.txs[n]) : GoodContent(T, NewOf(d, b, n)[o])
<1> DEFINE t == b.txs[n]
           f == FilledSeq(d, b.txs)[n]
           out == filled_outputs(f).outputs
<1>1. /\ f.txid = t.txid /\ f.data = t.data /\ f.inputs = t.inputs /\ f.outputs = t.outputs
      /\ GoodSeq(T, f.spent_utxos)
  BY ValidFilled
<1>2. t \in T /\ TransactionOK(t)
  BY ValidTxs
<1>3. filled_outputs(f).ok
  OBVIOUS
<1> HIDE DEF f, t
<1>4. DOMAIN out = DOMAIN t.outputs /\ \A i \in DOMAIN t.outputs : GoodContent(T, out[i])
  BY <1>1, <1>2, <1>3, FilledOutputs
<1> HIDE DEF out
<1>5. NewOf(d, b, n) = NewUtxos(t.txid, out)
  BY DEF NewOf, f, t, out
<1>6. /\ IsFun(NewOf(d, b, n)) /\ DOMAIN NewOf(d, b, n) = CreatedBy(t)
      /\ \A o \in CreatedBy(t) : \E i \in DOMAIN t.outputs : NewOf(d, b, n)[o] = out[i]
  <2>1. {Regular(t.txid, i) : i \in DOMAIN out} = CreatedBy(t)
    BY <1>4 DEF CreatedBy
  <2>2. NewOf(d, b, n) = [o \in CreatedBy(t) |-> out[o[3]]]
    BY <1>5, <2>1 DEF NewUtxos
  <2>3. \A o \in CreatedBy(t) : o[3] \in DOMAIN t.outputs
    BY RegularIs DEF CreatedBy
  <2> QED
    BY <2>2, <2>3 DEF IsFun
<1> QED
  BY <1>4, <1>6 DEF f, t, out

\* What the folds have after n transactions.
FoldedAt(T, d, b, A, S, n) ==
    /\ IsFun(A[n]) /\ IsFun(S[n])
    /\ \A o : o \in DOMAIN A[n] <=>
                \/ o \in CoinbaseOuts(b)
                \/ \E j \in 1 .. n : o \in CreatedBy(b.txs[j])
    /\ \A o \in DOMAIN A[n] : GoodContent(T, A[n][o])
    /\ \A o : o \in DOMAIN S[n] <=> o \in DOMAIN d.stxos \/ \E j \in 1 .. n : o \in In(b, j)

LEMMA FoldedNext ==
    ASSUME NEW T, NEW d, NEW b, Valid(T, d, b), NEW A, NEW S, Folded(d, b, A, S),
           NEW n \in 1 .. Len(b.txs)
    PROVE  A[n] = put_all(A[n - 1], NewOf(d, b, n))
           /\ S[n] = put_all(S[n - 1], NewStxos(FilledSeq(d, b.txs)[n]))
<1>1. Len(b.txs) \in Nat /\ n \in 0 .. Len(b.txs) /\ n # 0
  BY ValidTxs
<1>2. FilledSeq(d, b.txs)[n].txid = b.txs[n].txid
  BY ValidFilled
<1> QED
  BY <1>1, <1>2 DEF Folded, FoldEq, FoldStep, NewOf

LEMMA FoldedFirst ==
    ASSUME NEW T, NEW d, NEW b, Valid(T, d, b), NEW A, NEW S, Folded(d, b, A, S)
    PROVE  A[0] = CoinbaseUtxos(b) /\ S[0] = d.stxos
<1>1. Len(b.txs) \in Nat /\ 0 \in 0 .. Len(b.txs)
  BY ValidTxs
<1> QED
  BY <1>1 DEF Folded, FoldEq

LEMMA FilledStxos ==
    ASSUME NEW T, NEW d, NEW b, Valid(T, d, b), NEW n \in 1 .. Len(b.txs)
    PROVE  LET N == NewStxos(FilledSeq(d, b.txs)[n])
           IN  IsFun(N) /\ DOMAIN N = In(b, n)
<1>1. FilledSeq(d, b.txs)[n].inputs = b.txs[n].inputs
  BY ValidFilled
<1> QED
  BY <1>1 DEF NewStxos, IsFun, In

LEMMA FoldedIs ==
    ASSUME NEW T, NEW d, NEW b, Valid(T, d, b), NEW A, NEW S, Folded(d, b, A, S),
           NEW N \in 0 .. Len(b.txs), FilledOk(d, b, N)
    PROVE  \A n \in 0 .. N : FoldedAt(T, d, b, A, S, n)
<1> DEFINE B == {n \in 0 .. N : ~FoldedAt(T, d, b, A, S, n)}
<1> SUFFICES ASSUME B # {} PROVE FALSE
  OBVIOUS
<1>0. N \in Nat /\ Len(b.txs) \in Nat /\ 1 .. N \subseteq 1 .. Len(b.txs)
  BY ValidTxs
<1>1. FoldedAt(T, d, b, A, S, 0)
  <2>1. A[0] = CoinbaseUtxos(b) /\ S[0] = d.stxos
    BY FoldedFirst
  <2>2. 1 .. 0 = {}
    OBVIOUS
  <2> QED
    BY <2>1, <2>2, CoinbaseGood DEF FoldedAt, Valid, StateOK, UtxosOK
<1>2. PICK n \in 1 .. N : n \in B /\ n - 1 \in 0 .. N /\ n - 1 \notin B
  <2>1. B \subseteq 0 .. N /\ 0 \notin B
    BY <1>1
  <2> HIDE DEF B
  <2> QED
    BY <1>0, <2>1, FirstIndex
<1>3. FoldedAt(T, d, b, A, S, n - 1)
  BY <1>2
<1> DEFINE a == A[n - 1]
           s == S[n - 1]
           p == NewOf(d, b, n)
           q == NewStxos(FilledSeq(d, b.txs)[n])
<1>4. A[n] = put_all(a, p) /\ S[n] = put_all(s, q)
  BY <1>0, FoldedNext
<1>5. /\ DOMAIN p = CreatedBy(b.txs[n])
      /\ \A o \in CreatedBy(b.txs[n]) : GoodContent(T, p[o])
  <2>1. n \in 1 .. Len(b.txs) /\ filled_outputs(FilledSeq(d, b.txs)[n]).ok
    BY <1>0 DEF FilledOk
  <2> QED
    BY <2>1, NewOfIs
<1>6. DOMAIN q = In(b, n)
  BY <1>0, FilledStxos
<1>7. \A j : j \in 1 .. n <=> j \in 1 .. n - 1 \/ j = n
  BY <1>0
<1> HIDE DEF p, q, B
<1>8. /\ IsFun(A[n]) /\ DOMAIN A[n] = DOMAIN a \cup CreatedBy(b.txs[n])
      /\ \A o \in DOMAIN A[n] : A[n][o] = IF o \in CreatedBy(b.txs[n]) THEN p[o] ELSE a[o]
  BY <1>4, <1>5 DEF put_all, IsFun
<1>9. IsFun(S[n]) /\ DOMAIN S[n] = DOMAIN s \cup In(b, n)
  BY <1>4, <1>6 DEF put_all, IsFun
<1>10. \A o \in DOMAIN A[n] : GoodContent(T, A[n][o])
  BY <1>3, <1>5, <1>8 DEF FoldedAt
<1>11. \A o : o \in DOMAIN A[n] <=>
                \/ o \in CoinbaseOuts(b)
                \/ \E j \in 1 .. n : o \in CreatedBy(b.txs[j])
  BY <1>3, <1>7, <1>8 DEF FoldedAt
<1>12. \A o : o \in DOMAIN S[n] <=> o \in DOMAIN d.stxos \/ \E j \in 1 .. n : o \in In(b, j)
  BY <1>3, <1>7, <1>9 DEF FoldedAt
<1>13. FoldedAt(T, d, b, A, S, n)
  BY <1>8, <1>9, <1>10, <1>11, <1>12 DEF FoldedAt
<1> QED
  BY <1>2, <1>13 DEF B

LEMMA SpentByIs ==
    ASSUME NEW T, NEW d, NEW b, Valid(T, d, b), NEW n \in 0 .. Len(b.txs)
    PROVE  /\ \A o : o \in SpentBy(b, n) <=> \E j \in 1 .. n : o \in In(b, j)
           /\ SpentBy(b, n) \subseteq DOMAIN d.utxos
<1>1. 1 .. n \subseteq 1 .. Len(b.txs)
  BY ValidTxs
<1>2. \A o : o \in SpentBy(b, n) <=> \E j \in 1 .. n : o \in In(b, j)
  BY <1>1 DEF SpentBy
<1>3. \A j \in 1 .. Len(b.txs) : In(b, j) \subseteq DOMAIN d.utxos
  BY ValidInputs
<1> QED
  BY <1>1, <1>2, <1>3

\* The n-th transaction of a block spends from the utxos that the ones before
\* it left, and moves its outputs.
LEMMA BlockSpends ==
    ASSUME NEW T, NEW d, NEW b, Valid(T, d, b), NEW A, NEW S, Folded(d, b, A, S),
           NEW n \in 1 .. Len(b.txs), FilledOk(d, b, n - 1)
    PROVE  LET t == b.txs[n]
               f == FilledSeq(d, b.txs)[n]
               V == UtxosAt(d, b, A, n - 1)
           IN  /\ Spends(t, f, V, S[n - 1])
               /\ CreatedBy(t) \cap DOMAIN V = {}
               /\ UtxosAt(d, b, A, n) = put_all(Without(V, In(b, n)), NewOf(d, b, n))
               /\ S[n] = put_all(S[n - 1], NewStxos(f))
<1> DEFINE t == b.txs[n]
           f == FilledSeq(d, b.txs)[n]
           V == UtxosAt(d, b, A, n - 1)
           I == In(b, n)
           P == SpentBy(b, n - 1)
           a == A[n - 1]
<1>0. Len(b.txs) \in Nat /\ n - 1 \in 0 .. Len(b.txs) /\ n \in 0 .. Len(b.txs)
      /\ (\A j : j \in 1 .. n <=> j \in 1 .. n - 1 \/ j = n) /\ n \notin 1 .. n - 1
      /\ 1 .. n - 1 \subseteq 1 .. Len(b.txs)
  BY ValidTxs
<1>1. FoldedAt(T, d, b, A, S, n - 1)
  BY <1>0, FoldedIs
<1>2. A[n] = put_all(a, NewOf(d, b, n)) /\ S[n] = put_all(S[n - 1], NewStxos(f))
  BY FoldedNext
<1>3. /\ DOMAIN t.inputs \subseteq Nat /\ IsInjective(t.inputs)
      /\ I \subseteq DOMAIN d.utxos
      /\ \A j \in 1 .. Len(b.txs) : j # n => I \cap In(b, j) = {} /\ t.txid # b.txs[j].txid
  BY ValidInputs
<1>4. \A o : o \in P <=> \E j \in 1 .. n - 1 : o \in In(b, j)
  BY <1>0, SpentByIs
<1>5. SpentBy(b, n) = P \cup I
  <2>1. \A o : o \in SpentBy(b, n) <=> \E j \in 1 .. n : o \in In(b, j)
    BY <1>0, SpentByIs
  <2> HIDE DEF P
  <2>2. \A o : o \in SpentBy(b, n) <=> o \in P \/ o \in I
    BY <1>0, <1>4, <2>1
  <2> QED
    BY <2>2
<1>6. \A o \in DOMAIN a : o \notin DOMAIN d.utxos /\ o \notin DOMAIN d.stxos /\ o \notin CreatedBy(t)
  <2>1. ASSUME NEW o \in CoinbaseOuts(b)
        PROVE  o \notin DOMAIN d.utxos /\ o \notin DOMAIN d.stxos /\ o \notin CreatedBy(t)
    <3>1. o[1] = "Coinbase"
      BY CoinbaseFresh
    <3>2. \A q \in CreatedBy(t) : q[1] = "Regular"
      BY CreatedFresh
    <3> QED
      BY <3>1, <3>2, CoinbaseFresh
  <2>2. ASSUME NEW j \in 1 .. n - 1, NEW o \in CreatedBy(b.txs[j])
        PROVE  o \notin DOMAIN d.utxos /\ o \notin DOMAIN d.stxos /\ o \notin CreatedBy(t)
    <3>1. j \in 1 .. Len(b.txs) /\ j # n
      BY <1>0
    <3>2. o[2] = b.txs[j].txid /\ o \notin DOMAIN d.utxos /\ o \notin DOMAIN d.stxos
      BY <3>1, CreatedFresh
    <3>3. \A q \in CreatedBy(t) : q[2] = t.txid
      BY CreatedFresh
    <3> QED
      BY <1>3, <3>1, <3>2, <3>3
  <2> QED
    BY <1>1, <2>1, <2>2 DEF FoldedAt
<1> HIDE DEF P
<1>7. /\ IsFun(V) /\ DOMAIN V = (DOMAIN d.utxos \ P) \cup DOMAIN a
      /\ \A o \in (DOMAIN d.utxos \ P) \ DOMAIN a : V[o] = d.utxos[o]
  BY DEF UtxosAt, P, put_all, Without, IsFun
<1>8. I \cap P = {}
  BY <1>0, <1>3, <1>4
<1>9. I \subseteq DOMAIN V /\ \A o \in I : V[o] = d.utxos[o]
  BY <1>3, <1>6, <1>7, <1>8
<1>10. f = filled_with(t, [i \in DOMAIN t.inputs |-> V[t.inputs[i]]])
  <2>1. FilledFrom(f, t, d.utxos)
    BY ValidFilled
  <2>2. \A i \in DOMAIN t.inputs : t.inputs[i] \in I
    BY DEF In, Range
  <2> HIDE DEF V, f, t, I
  <2>3. [i \in DOMAIN t.inputs |-> V[t.inputs[i]]] = [i \in DOMAIN t.inputs |-> d.utxos[t.inputs[i]]]
    BY <1>9, <2>2
  <2> QED
    BY <2>1, <2>3 DEF FilledFrom
<1>11. I \cap DOMAIN S[n - 1] = {}
  <2>1. DOMAIN d.utxos \cap DOMAIN d.stxos = {}
    BY DEF Valid, StateOK, UtxosOK
  <2> QED
    BY <1>0, <1>1, <1>3, <2>1 DEF FoldedAt
<1>12. Spends(t, f, V, S[n - 1])
  <2>1. IsFun(S[n - 1])
    BY <1>1 DEF FoldedAt
  <2> QED
    BY <1>3, <1>7, <1>9, <1>10, <1>11, <2>1 DEF Spends, In
<1>13. CreatedBy(t) \cap DOMAIN V = {}
  <2>1. \A o \in CreatedBy(t) : o \notin DOMAIN d.utxos
    BY CreatedFresh
  <2> QED
    BY <1>6, <1>7, <2>1
<1>14. UtxosAt(d, b, A, n) = put_all(Without(V, I), NewOf(d, b, n))
  <2>1. I \cap DOMAIN a = {}
    BY <1>3, <1>6
  <2>2. UtxosAt(d, b, A, n) = put_all(Without(d.utxos, P \cup I), put_all(a, NewOf(d, b, n)))
    BY <1>2, <1>5 DEF UtxosAt
  <2>3. V = put_all(Without(d.utxos, P), a)
    BY DEF UtxosAt, P
  <2> HIDE DEF I, a, V
  <2>4. put_all(Without(d.utxos, P \cup I), put_all(a, NewOf(d, b, n)))
          = put_all(Without(put_all(Without(d.utxos, P), a), I), NewOf(d, b, n))
    BY <2>1, MovedNext
  <2> QED
    BY <2>2, <2>3, <2>4
<1> QED
  BY <1>2, <1>12, <1>13, <1>14

-----------------------------------------------------------------------------
(***************************************************************************)
(* The data of a block: g is what the loop of connect_prevalidated comes   *)
(* by.                                                                     *)
(***************************************************************************)
\* A loop that ends well was well all along.
LEMMA LoopOk ==
    ASSUME NEW M \in Nat, NEW g, NEW what, NEW d, NEW seq, NEW height,
           AfterEq(g, M, what, d, seq, height), NEW N \in 0 .. M, g[N].tag = "ok"
    PROVE  \A n \in 0 .. N : g[n].tag = "ok"
<1> DEFINE B == {k \in 0 .. N : g[N - k].tag # "ok"}
<1>1. B = {}
  <2> SUFFICES ASSUME B # {} PROVE FALSE
    OBVIOUS
  <2>1. B \subseteq 0 .. N /\ 0 \notin B /\ N \in Nat
    OBVIOUS
  <2>2. PICK k \in 1 .. N : k \in B /\ k - 1 \in 0 .. N /\ k - 1 \notin B
    <3> HIDE DEF B
    <3> QED
      BY <2>1, FirstIndex
  <2>3. g[N - k].tag # "ok" /\ g[N - (k - 1)].tag = "ok"
    BY <2>2
  <2> DEFINE n == N - (k - 1)
  <2>4. n \in 0 .. N /\ n \in 0 .. M /\ n # 0 /\ n - 1 = N - k
    OBVIOUS
  <2> HIDE DEF n
  <2>5. g[n] = StepFrom(what, g[n - 1], seq[n], height)
    BY <2>4 DEF AfterEq
  <2> QED
    BY <2>3, <2>4, <2>5 DEF StepFrom, n
<1>2. ASSUME NEW n \in 0 .. N PROVE g[n].tag = "ok"
  <2>1. N - n \in 0 .. N /\ N - (N - n) = n
    OBVIOUS
  <2> QED
    BY <1>1, <2>1
<1> QED
  BY <1>2

\* It is well after the first M transactions.
Looped(d, b, g, M) ==
    /\ AfterEq(g, Len(b.txs), "connect", d, FilledSeq(d, b.txs), next_height(d))
    /\ M \in 0 .. Len(b.txs) /\ g[M].tag = "ok"

\* A step of the loop applies the data of a transaction whose outputs can be
\* filled.
LEMMA LoopedNext ==
    ASSUME NEW T, NEW d, NEW b, Valid(T, d, b), NEW g, NEW M, Looped(d, b, g, M),
           NEW n \in 1 .. M
    PROVE  LET f == FilledSeq(d, b.txs)[n]
           IN  /\ g[n - 1].tag = "ok" /\ g[n].tag = "ok"
               /\ filled_outputs(f).ok
               /\ apply_data(g[n - 1].db, f, next_height(d)) = g[n]
<1> DEFINE f == FilledSeq(d, b.txs)[n]
           h == next_height(d)
<1>1. Len(b.txs) \in Nat /\ n \in 0 .. Len(b.txs) /\ n \in 0 .. M /\ n - 1 \in 0 .. M /\ n # 0
  BY ValidTxs DEF Looped
<1>2. \A k \in 0 .. M : g[k].tag = "ok"
  BY <1>1, LoopOk DEF Looped
<1>3. g[n - 1].tag = "ok" /\ g[n].tag = "ok"
  BY <1>1, <1>2
<1>4. g[n] = StepFrom("connect", g[n - 1], f, h)
  BY <1>1 DEF Looped, AfterEq
<1> HIDE DEF f, h
<1>5. g[n] = apply_filled(g[n - 1].db, f, h)
  BY <1>3, <1>4 DEF StepFrom, Step
<1>6. filled_outputs(f).ok
  BY <1>3, <1>5 DEF apply_filled, Err
<1>7. apply_data(g[n - 1].db, f, h) = g[n]
  BY <1>5, <1>6 DEF apply_filled
<1> QED
  BY <1>3, <1>6, <1>7 DEF f, h

\* The databases of the data after n transactions.
LoopedAt(T, d, b, y, n) ==
    /\ DataOK(y) /\ SameRest(y, d) /\ GoodReservations(T, y) /\ SeqOK(y)
    /\ \A t \in T : /\ FreshData(d, t.txid)
                    /\ \A j \in 1 .. n : b.txs[j].txid # t.txid
                    => FreshData(y, t.txid)
    /\ \A x \in DOMAIN y.bitassets :
        \/ x \in DOMAIN d.bitassets
        \/ \E j \in 1 .. n : Is(b.txs[j], "BitAssetRegistration") /\ x = NameOf(b.txs[j])

LEMMA FreshKept ==
    ASSUME NEW x, NEW y, NEW f, Grows(x, y, f), NEW txid, FreshData(x, txid), f.txid # txid
    PROVE  FreshData(y, txid)
  BY DEF Grows, GrowsReservations, GrowsPools, FreshData

LEMMA ReservationsKept ==
    ASSUME NEW T, NEW x, NEW y, NEW f, NEW t \in T, f.txid = t.txid, f.data = t.data,
           Grows(x, y, f), GoodReservations(T, x)
    PROVE  GoodReservations(T, y)
<1>1. GrowsReservations(x, y, f)
  BY DEF Grows
<1> QED
  BY <1>1 DEF GrowsReservations, GoodReservations

LEMMA LoopedStep ==
    ASSUME NEW T, NEW d, NEW b, Valid(T, d, b), NEW n \in 1 .. Len(b.txs), NEW x, NEW y,
           LoopedAt(T, d, b, x, n - 1), NEW f, f.txid = b.txs[n].txid, f.data = b.txs[n].data,
           Grows(x, y, f)
    PROVE  LoopedAt(T, d, b, y, n)
<1>0. \A j : j \in 1 .. n <=> j \in 1 .. n - 1 \/ j = n
  BY ValidTxs
<1>1. b.txs[n] \in T
  BY ValidTxs
<1>2. DataOK(y) /\ SameRest(y, d) /\ SeqOK(y)
  BY SeqKept DEF LoopedAt, Grows, SameRest
<1>3. GoodReservations(T, y)
  BY <1>1, ReservationsKept DEF LoopedAt
<1>4. ASSUME NEW t \in T, FreshData(d, t.txid), \A j \in 1 .. n : b.txs[j].txid # t.txid
      PROVE  FreshData(y, t.txid)
  <2>1. FreshData(x, t.txid) /\ f.txid # t.txid
    BY <1>0, <1>4 DEF LoopedAt
  <2> QED
    BY <2>1, FreshKept
<1>5. ASSUME NEW a \in DOMAIN y.bitassets
      PROVE  \/ a \in DOMAIN d.bitassets
             \/ \E j \in 1 .. n : Is(b.txs[j], "BitAssetRegistration") /\ a = NameOf(b.txs[j])
  <2>1. \/ a \in DOMAIN x.bitassets
        \/ Is(b.txs[n], "BitAssetRegistration") /\ a = NameOf(b.txs[n])
    BY <1>5 DEF Grows, GrowsNames, Is, NameOf
  <2> QED
    BY <1>0, <2>1 DEF LoopedAt
<1> QED
  BY <1>2, <1>3, <1>4, <1>5 DEF LoopedAt

LEMMA LoopedIs ==
    ASSUME NEW T, NEW d, NEW b, Valid(T, d, b), NEW g, NEW N, Looped(d, b, g, N)
    PROVE  \A n \in 0 .. N : LoopedAt(T, d, b, g[n].db, n)
<1> DEFINE B == {n \in 0 .. N : ~LoopedAt(T, d, b, g[n].db, n)}
<1> SUFFICES ASSUME B # {} PROVE FALSE
  OBVIOUS
<1>0. N \in Nat /\ Len(b.txs) \in Nat /\ 1 .. N \subseteq 1 .. Len(b.txs)
  BY ValidTxs DEF Looped
<1>1. LoopedAt(T, d, b, g[0].db, 0)
  <2>1. g[0].db = d
    BY <1>0 DEF Looped, AfterEq, Ok
  <2> QED
    BY <2>1 DEF LoopedAt, SameRest, Valid, StateOK
<1>2. PICK n \in 1 .. N : n \in B /\ n - 1 \in 0 .. N /\ n - 1 \notin B
  <2>1. B \subseteq 0 .. N /\ 0 \notin B
    BY <1>1
  <2> HIDE DEF B
  <2> QED
    BY <1>0, <2>1, FirstIndex
<1>3. LoopedAt(T, d, b, g[n - 1].db, n - 1)
  BY <1>2
<1> DEFINE f == FilledSeq(d, b.txs)[n]
           x == g[n - 1].db
           h == next_height(d)
<1>4. apply_data(x, f, h) = g[n] /\ g[n].tag = "ok"
  BY LoopedNext
<1>5. f.txid = b.txs[n].txid /\ f.data = b.txs[n].data /\ FilledOf(T, f)
  BY <1>0, ValidFilled
<1> HIDE DEF f, x, h, B
<1>6. Grows(x, g[n].db, f)
  <2>1. Grows(x, apply_data(x, f, h).db, f)
    BY <1>3, <1>4, <1>5, GrowsData DEF LoopedAt, x
  <2> QED
    BY <1>4, <2>1
<1>7. LoopedAt(T, d, b, g[n].db, n)
  BY <1>0, <1>3, <1>5, <1>6, LoopedStep DEF x
<1> QED
  BY <1>2, <1>7 DEF B

\* The names only grow.
LEMMA LoopedFew ==
    ASSUME NEW T, NEW d, NEW b, Valid(T, d, b), NEW g, NEW N, Looped(d, b, g, N), Few(g[N].db)
    PROVE  \A n \in 0 .. N : Few(g[n].db)
<1> DEFINE B == {k \in 0 .. N : ~Few(g[N - k].db)}
<1>0. N \in Nat /\ Len(b.txs) \in Nat /\ 1 .. N \subseteq 1 .. Len(b.txs)
  BY ValidTxs DEF Looped
<1>1. B = {}
  <2> SUFFICES ASSUME B # {} PROVE FALSE
    OBVIOUS
  <2>1. B \subseteq 0 .. N /\ 0 \notin B
    BY <1>0
  <2>2. PICK k \in 1 .. N : k \in B /\ k - 1 \in 0 .. N /\ k - 1 \notin B
    <3> HIDE DEF B
    <3> QED
      BY <1>0, <2>1, FirstIndex
  <2> DEFINE n == N - (k - 1)
  <2>3. n \in 1 .. N /\ n - 1 = N - k /\ n - 1 \in 0 .. N
    BY <1>0
  <2>4. ~Few(g[n - 1].db) /\ Few(g[n].db)
    BY <2>2, <2>3
  <2> DEFINE f == FilledSeq(d, b.txs)[n]
             x == g[n - 1].db
             h == next_height(d)
  <2> HIDE DEF n
  <2>5. apply_data(x, f, h) = g[n] /\ g[n].tag = "ok" /\ FilledOf(T, f)
    <3>1. n \in 1 .. Len(b.txs)
      BY <1>0, <2>3
    <3>2. apply_data(x, f, h) = g[n] /\ g[n].tag = "ok"
      BY <2>3, LoopedNext
    <3>3. FilledOf(T, f)
      BY <3>1, ValidFilled
    <3> QED
      BY <3>2, <3>3
  <2>6. DataOK(x) /\ SeqOK(x)
    BY <2>3, LoopedIs DEF LoopedAt
  <2> HIDE DEF f, x, h
  <2>7. GrowsNames(x, g[n].db, f)
    <3>1. Grows(x, apply_data(x, f, h).db, f)
      BY <2>5, <2>6, GrowsData
    <3> QED
      BY <2>5, <3>1 DEF Grows
  <2> QED
    BY <2>4, <2>6, <2>7, SeqKept DEF x
<1>2. ASSUME NEW n \in 0 .. N PROVE Few(g[n].db)
  <2>1. N - n \in 0 .. N /\ N - (N - n) = n
    BY <1>0
  <2> QED
    BY <1>1, <2>1
<1> QED
  BY <1>2
-----------------------------------------------------------------------------
(***************************************************************************)
(* What a block that connects makes of the state.                          *)
(***************************************************************************)
BlockEffect(d, b, e, g, A, S) ==
    LET N == Len(b.txs)
    IN  /\ Looped(d, b, g, N) /\ Folded(d, b, A, S) /\ FilledOk(d, b, N)
        /\ IsDb(e) /\ SameData(e, g[N].db)
        /\ e.utxos = UtxosAt(d, b, A, N) /\ e.stxos = S[N]
        /\ e.tip = hash(b) /\ e.height = next_height(d)

\* A block on a state, of transactions of T.
BlockOn(T, d, b) ==
    /\ Typed(T) /\ Spending(T) /\ StateOK(T, d)
    /\ b.txs \in Seq(T) /\ (\E S : b.coinbase \in Seq(S))

LEMMA BlockIs ==
    ASSUME NEW T, NEW d, NEW b, BlockOn(T, d, b), apply_block(d, b).tag = "ok"
    PROVE  /\ Valid(T, d, b)
           /\ \E g, A, S : BlockEffect(d, b, apply_block(d, b).db, g, A, S)
<1> DEFINE F == FilledSeq(d, b.txs)
           N == Len(b.txs)
           h == next_height(d)
           r == apply_block(d, b)
           l == apply_all(d, F, h)
           m == move_outputs(l.db, b, F)
<1>1. Valid(T, d, b)
  BY DEF apply_block, prevalidate_refused, connect_prevalidated, Err, BlockOn, Valid
<1>2. r = connect_prevalidated(d, b, F, h)
  BY DEF apply_block, Err, FilledSeq
<1>3. l.tag = "ok" /\ m.tag = "ok" /\ r = set_tip(m.db, b, h)
  BY <1>2 DEF connect_prevalidated, Then, Err
<1>4. Len(F) = N /\ N \in Nat /\ DOMAIN F = 1 .. N /\ DOMAIN b.txs = 1 .. N
  <2>1. DOMAIN b.txs = 1 .. Len(b.txs) /\ Len(b.txs) \in Nat
    BY <1>1, ValidTxs
  <2> QED
    BY <2>1 DEF FilledSeq
<1>5. PICK g : AfterEq(g, Len(F), "connect", d, F, h) /\ l = g[Len(F)]
  BY <1>4, ForEachConnect
<1>6. Looped(d, b, g, N) /\ l = g[N]
  BY <1>3, <1>4, <1>5 DEF Looped
<1>7. PICK A : FoldEq(A, Len(F), "utxos", CoinbaseUtxos(b), F, 0) /\ BlockUtxos(b, F) = A[Len(F)]
  BY <1>4, FoldUtxos
<1>8. PICK S : FoldEq(S, Len(F), "stxos", d.stxos, F, 0) /\ BlockStxos(d.stxos, F) = S[Len(F)]
  BY <1>4, FoldStxos
<1>9. Folded(d, b, A, S) /\ BlockUtxos(b, F) = A[N] /\ BlockStxos(d.stxos, F) = S[N]
  BY <1>4, <1>7, <1>8 DEF Folded
<1>10. FilledOk(d, b, N)
  BY <1>1, <1>6, LoopedNext DEF FilledOk
<1>11. DataOK(l.db) /\ SameRest(l.db, d)
  <2>1. LoopedAt(T, d, b, g[N].db, N)
    BY <1>1, <1>4, <1>6, LoopedIs
  <2> QED
    BY <1>6, <2>1 DEF LoopedAt
<1>12. UNION {Range(F[i].inputs) : i \in DOMAIN F} = SpentBy(b, N)
  <2>1. \A i \in 1 .. N : Range(F[i].inputs) = In(b, i)
    BY <1>1, ValidFilled DEF In
  <2>2. N \in 0 .. Len(b.txs)
    BY <1>4
  <2>3. \A o : o \in SpentBy(b, N) <=> \E j \in 1 .. N : o \in In(b, j)
    BY <1>1, <2>2, SpentByIs
  <2> HIDE DEF F, N
  <2> QED
    BY <1>4, <2>1, <2>3
<1> HIDE DEF l, F, h
<1> DEFINE U == put_all(Without(l.db.utxos, UNION {Range(F[i].inputs) : i \in DOMAIN F}),
                        BlockUtxos(b, F))
           W == BlockStxos(l.db.stxos, F)
<1>13. U = UtxosAt(d, b, A, N) /\ W = S[N]
  <2>1. l.db.utxos = d.utxos /\ l.db.stxos = d.stxos
    BY <1>11 DEF SameRest
  <2> QED
    BY <1>9, <1>12, <2>1 DEF UtxosAt
<1>14. m.db = [l.db EXCEPT !.utxos = U, !.stxos = W]
  BY DEF move_outputs, Ok
<1> HIDE DEF U, W, m
<1>15. /\ IsDb(m.db) /\ SameData(m.db, l.db) /\ m.db.utxos = U /\ m.db.stxos = W
  BY <1>11, <1>14 DEF DataOK, IsDb, DbFields, SameData
<1> HIDE DEF r
<1>16. /\ IsDb(r.db) /\ SameData(r.db, m.db) /\ r.db.utxos = m.db.utxos
       /\ r.db.stxos = m.db.stxos /\ r.db.tip = hash(b) /\ r.db.height = h
  BY <1>3, <1>15 DEF set_tip, Ok, IsDb, DbFields, SameData
<1>17. BlockEffect(d, b, r.db, g, A, S)
  <2>1. SameData(r.db, g[N].db)
    BY <1>6, <1>15, <1>16 DEF SameData
  <2>2. r.db.utxos = UtxosAt(d, b, A, N) /\ r.db.stxos = S[N] /\ h = next_height(d)
    BY <1>13, <1>15, <1>16 DEF h
  <2> QED
    BY <1>6, <1>9, <1>10, <1>16, <2>1, <2>2 DEF BlockEffect
<1> QED
  BY <1>1, <1>17 DEF r

-----------------------------------------------------------------------------
(***************************************************************************)
(* The state after a block is as good as the one before it.                *)
(***************************************************************************)
LEMMA EffectDomains ==
    ASSUME NEW T, NEW d, NEW b, Valid(T, d, b), NEW e, NEW g, NEW A, NEW S,
           BlockEffect(d, b, e, g, A, S)
    PROVE  LET N == Len(b.txs)
               New(o) == o \in CoinbaseOuts(b) \/ \E j \in 1 .. N : o \in CreatedBy(b.txs[j])
           IN  /\ IsFun(e.utxos) /\ IsFun(e.stxos)
               /\ \A o \in DOMAIN e.utxos :
                    /\ GoodContent(T, e.utxos[o])
                    /\ New(o) \/ (o \in DOMAIN d.utxos /\ \A j \in 1 .. N : o \notin In(b, j))
               /\ \A o \in DOMAIN d.utxos : (\A j \in 1 .. N : o \notin In(b, j)) => o \in DOMAIN e.utxos
               /\ \A o : New(o) => o \in DOMAIN e.utxos
               /\ \A o : o \in DOMAIN e.stxos <=>
                            o \in DOMAIN d.stxos \/ \E j \in 1 .. N : o \in In(b, j)
<1> DEFINE N == Len(b.txs)
           New(o) == o \in CoinbaseOuts(b) \/ \E j \in 1 .. N : o \in CreatedBy(b.txs[j])
<1>1. N \in Nat /\ N \in 0 .. N
  BY ValidTxs
<1>2. FoldedAt(T, d, b, A, S, N)
  BY <1>1, FoldedIs DEF BlockEffect
<1>3. \A o : o \in SpentBy(b, N) <=> \E j \in 1 .. N : o \in In(b, j)
  BY <1>1, SpentByIs
<1>4. e.utxos = put_all(Without(d.utxos, SpentBy(b, N)), A[N]) /\ e.stxos = S[N]
  BY DEF BlockEffect, UtxosAt
<1>5. \A o \in DOMAIN d.utxos : GoodContent(T, d.utxos[o])
  BY DEF Valid, StateOK, UtxosOK
<1>6. /\ IsFun(e.utxos) /\ DOMAIN e.utxos = (DOMAIN d.utxos \ SpentBy(b, N)) \cup DOMAIN A[N]
      /\ \A o \in DOMAIN A[N] : e.utxos[o] = A[N][o]
      /\ \A o \in (DOMAIN d.utxos \ SpentBy(b, N)) \ DOMAIN A[N] : e.utxos[o] = d.utxos[o]
  BY <1>4 DEF put_all, Without, IsFun
<1>7. \A o : o \in DOMAIN A[N] <=> New(o)
  BY <1>2 DEF FoldedAt
<1>8. \A o : o \in DOMAIN S[N] <=> o \in DOMAIN d.stxos \/ \E j \in 1 .. N : o \in In(b, j)
  BY <1>2 DEF FoldedAt
<1>9. IsFun(S[N]) /\ \A o \in DOMAIN A[N] : GoodContent(T, A[N][o])
  BY <1>2 DEF FoldedAt
<1> HIDE DEF N, New
<1>10. \A o \in DOMAIN e.utxos :
          /\ GoodContent(T, e.utxos[o])
          /\ New(o) \/ (o \in DOMAIN d.utxos /\ \A j \in 1 .. N : o \notin In(b, j))
  BY <1>3, <1>5, <1>6, <1>7, <1>9
<1>11. \A o \in DOMAIN d.utxos : (\A j \in 1 .. N : o \notin In(b, j)) => o \in DOMAIN e.utxos
  BY <1>3, <1>6
<1> QED
  BY <1>4, <1>6, <1>7, <1>8, <1>9, <1>10, <1>11 DEF N, New

LEMMA StateKept ==
    ASSUME NEW T, NEW d, NEW b, Valid(T, d, b), NEW e, NEW g, NEW A, NEW S,
           BlockEffect(d, b, e, g, A, S)
    PROVE  StateOK(T, e)
<1> DEFINE N == Len(b.txs)
           New(o) == o \in CoinbaseOuts(b) \/ \E j \in 1 .. N : o \in CreatedBy(b.txs[j])
           y == g[N].db
<1>1. N \in Nat /\ N \in 0 .. N /\ \A j \in 1 .. N : b.txs[j] \in T
  BY ValidTxs
<1>2. LoopedAt(T, d, b, y, N)
  BY <1>1, LoopedIs DEF BlockEffect
<1>3. IsDb(e) /\ SameData(e, y) /\ e.tip = hash(b) /\ e.height = next_height(d)
  BY DEF BlockEffect
<1> HIDE DEF y
<1>4. DataOK(e) /\ GoodReservations(T, e) /\ SeqOK(e)
  BY <1>2, <1>3 DEF LoopedAt, SameData, DataOK, GoodReservations, SeqOK, Few
<1>5. /\ IsFun(e.utxos) /\ IsFun(e.stxos)
      /\ \A o \in DOMAIN e.utxos :
            /\ GoodContent(T, e.utxos[o])
            /\ New(o) \/ (o \in DOMAIN d.utxos /\ \A j \in 1 .. N : o \notin In(b, j))
      /\ \A o : o \in DOMAIN e.stxos <=> o \in DOMAIN d.stxos \/ \E j \in 1 .. N : o \in In(b, j)
  BY EffectDomains
<1>6. \A o : New(o) => o \notin DOMAIN d.utxos /\ o \notin DOMAIN d.stxos
  BY CoinbaseFresh, CreatedFresh
<1>7. \A j \in 1 .. N : In(b, j) \subseteq DOMAIN d.utxos
  BY ValidInputs
<1>8. DOMAIN d.utxos \cap DOMAIN d.stxos = {}
  BY DEF Valid, StateOK, UtxosOK
<1>9. UtxosOK(T, e)
  <2> HIDE DEF N, New
  <2> QED
    BY <1>5, <1>6, <1>7, <1>8 DEF UtxosOK
<1>10. TipOK(e)
  <2>1. (\E Z : e.tip \in Seq(Z)) /\ Len(e.tip) = Len(d.tip) + 1 /\ Len(d.tip) \in Nat
    BY <1>3, HashIs
  <2>2. d.height \in Int /\ Len(d.tip) = d.height + 1
    BY DEF Valid, StateOK, TipOK
  <2>3. e.height \in Int /\ Len(e.tip) = e.height + 1
    BY <1>3, <2>1, <2>2 DEF next_height
  <2>4. \A o \in DOMAIN d.utxos \cup DOMAIN d.stxos : o[1] = "Coinbase" => Len(o[2]) <= Len(d.tip)
    BY DEF Valid, StateOK, TipOK
  <2>5. ASSUME NEW o \in DOMAIN e.utxos \cup DOMAIN e.stxos, o[1] = "Coinbase"
        PROVE  Len(o[2]) <= Len(e.tip)
    <3>1. CASE o \in DOMAIN d.utxos \cup DOMAIN d.stxos
      <4>1. Len(o[2]) <= Len(d.tip)
        BY <2>4, <2>5, <3>1
      <4>2. Len(o[2]) \in Int
        BY <2>5, <3>1 DEF Valid, StateOK, TipOK
      <4> QED
        BY <2>1, <4>1, <4>2
    <3>2. CASE o \notin DOMAIN d.utxos \cup DOMAIN d.stxos
      <4>1. New(o)
        BY <1>5, <1>7, <2>5, <3>2
      <4>2. o \in CoinbaseOuts(b)
        <5>1. \A j \in 1 .. N : \A p \in CreatedBy(b.txs[j]) : p[1] = "Regular"
          BY CreatedFresh
        <5> QED
          BY <2>5, <4>1, <5>1
      <4>3. o[2] = e.tip
        BY <1>3, <4>2, CoinbaseFresh
      <4> QED
        BY <2>1, <4>3
    <3> QED
      BY <3>1, <3>2
  <2> QED
    BY <2>1, <2>3, <2>5 DEF TipOK
<1>11. ASSUME NEW t \in T PROVE Used(e, t) \/ Fresh(e, t)
  <2>1. CASE Used(d, t)
    BY <1>5, <2>1 DEF Used
  <2>2. CASE ~Used(d, t) /\ \E j \in 1 .. N : t = b.txs[j]
    <3>1. PICK j \in 1 .. N : t = b.txs[j]
      BY <2>2
    <3>2. Range(t.inputs) \subseteq DOMAIN e.stxos
      BY <1>5, <3>1 DEF In
    <3> QED
      BY <3>2 DEF Used
  <2>3. CASE ~Used(d, t) /\ ~\E j \in 1 .. N : t = b.txs[j]
    <3>1. Fresh(d, t)
      BY <2>3 DEF Valid, StateOK
    <3>2. \A j \in 1 .. N : b.txs[j].txid # t.txid
      BY <1>1, <2>3 DEF Valid, Typed
    <3>3. FreshData(e, t.txid)
      <4>1. FreshData(y, t.txid)
        BY <1>2, <3>1, <3>2 DEF LoopedAt, Fresh
      <4> QED
        BY <1>3, <4>1 DEF FreshData, SameData
    <3>4. ASSUME NEW i PROVE Regular(t.txid, i) \notin DOMAIN e.utxos \cup DOMAIN e.stxos
      <4> DEFINE o == Regular(t.txid, i)
      <4>1. o[1] = "Regular" /\ o[2] = t.txid
        BY RegularIs
      <4>2. o \notin DOMAIN d.utxos /\ o \notin DOMAIN d.stxos
        BY <3>1 DEF Fresh
      <4> HIDE DEF o
      <4>3. o \notin CoinbaseOuts(b)
        BY <4>1, CoinbaseFresh
      <4>4. \A j \in 1 .. N : o \notin CreatedBy(b.txs[j])
        BY <3>2, <4>1, CreatedFresh
      <4>5. ~New(o)
        BY <4>3, <4>4
      <4> QED
        BY <1>5, <1>7, <4>2, <4>5 DEF o
    <3> QED
      BY <3>3, <3>4 DEF Fresh
  <2> QED
    BY <2>1, <2>2, <2>3
<1> QED
  BY <1>4, <1>9, <1>10, <1>11 DEF StateOK

-----------------------------------------------------------------------------
(***************************************************************************)
(* A block, undone.                                                        *)
(***************************************************************************)
LEMMA MinIs ==
    ASSUME NEW S, S \subseteq Nat, S # {}
    PROVE  Min(S) \in S
<1>1. \E n \in S : \A j \in S : n <= j
  BY LeastNatural
<1> QED
  BY <1>1 DEF Min

\* The reservation that a registration burns is of the transaction that it
\* names, and so is the commitment.
LEMMA BurnedIs ==
    ASSUME NEW T, Typed(T), NEW y, GoodReservations(T, y), NEW f, GoodSeq(T, f.spent_utxos),
           BurnedReservations(f) # {}, Has(y.reservations, burned_reservation_txid(f))
    PROVE  y.reservations[burned_reservation_txid(f)] = implied_reservation_commitment(f)
<1> DEFINE R == spent_reservations(f)
           i == Min(BurnedReservations(f))
           k == burned_reservation_txid(f)
<1>1. PICK S : f.spent_utxos \in Seq(S) /\ \A c \in S : GoodContent(T, c)
  BY DEF GoodSeq
<1> DEFINE K == {c \in S : c.kind \in {"BitAssetReservation"}}
<1>2. R \in Seq(K)
  BY <1>1, OfKindIs DEF spent_reservations
<1>3. \A c \in K : \E t \in T : c.of[1] = t.txid /\ c.of[2] = t.data.commitment
  BY <1>1 DEF GoodContent
<1> HIDE DEF K, R
<1>4. BurnedReservations(f) \subseteq Nat
  BY <1>2 DEF BurnedReservations, R
<1>5. i \in BurnedReservations(f)
  BY <1>4, MinIs
<1> HIDE DEF i
<1>6. i \in DOMAIN R /\ R[i].of[2] = implied_reservation_commitment(f) /\ R[i].of[1] = k
  BY <1>5 DEF BurnedReservations, R, burned_reservation_txid, i
<1>7. R[i] \in K
  BY <1>2, <1>6
<1>8. PICK t \in T : R[i].of[1] = t.txid /\ R[i].of[2] = t.data.commitment
  BY <1>3, <1>7
<1> HIDE DEF k
<1>9. k \in DOMAIN y.reservations
  BY DEF Has, k
<1>10. PICK u \in T : u.txid = k /\ y.reservations[k] = u.data.commitment
  BY <1>9 DEF GoodReservations
<1>11. u = t
  BY <1>6, <1>8, <1>10 DEF Typed
<1> QED
  BY <1>6, <1>8, <1>10, <1>11 DEF k

LEMMA NameIsNew ==
    ASSUME NEW T, NEW d, NEW b, Valid(T, d, b), ~RegistersTwice(b), NEW n \in 1 .. Len(b.txs),
           NEW y, LoopedAt(T, d, b, y, n - 1), Few(y),
           Is(b.txs[n], "BitAssetRegistration")
    PROVE  NewName(y, FilledSeq(d, b.txs)[n])
<1> DEFINE f == FilledSeq(d, b.txs)[n]
           x == NameOf(f)
<1>1. /\ f.data = b.txs[n].data /\ GoodSeq(T, f.spent_utxos)
      /\ ~validate_filled_transaction_refused(d, f)
  BY ValidFilled
<1>2. DOMAIN b.txs = 1 .. Len(b.txs) /\ Len(b.txs) \in Nat
  BY ValidTxs
<1>3. x \notin DOMAIN d.bitassets
  BY <1>1 DEF validate_filled_transaction_refused, BitAssetAlreadyRegistered, Has, Is, NameOf
<1>4. \A j \in 1 .. n - 1 : Is(b.txs[j], "BitAssetRegistration") => x # NameOf(b.txs[j])
  <2>1. \A j \in 1 .. n - 1 : j \in DOMAIN b.txs /\ j # n /\ n \in DOMAIN b.txs
    BY <1>2
  <2>2. ASSUME NEW j \in 1 .. n - 1, Is(b.txs[j], "BitAssetRegistration"), x = NameOf(b.txs[j])
        PROVE  FALSE
    <3>1. f.data.name_hash = b.txs[j].data.name_hash
      BY <2>2 DEF NameOf, BitAsset
    <3> QED
      BY <1>1, <2>1, <2>2, <3>1 DEF RegistersTwice
  <2> QED
    BY <2>2
<1> HIDE DEF f
<1>5. x \notin DOMAIN y.bitassets
  BY <1>3, <1>4 DEF LoopedAt
<1>6. next_seq(y) \notin DOMAIN y.seq_to_bitasset
  BY NextSeq DEF LoopedAt
<1>7. Typed(T) /\ GoodReservations(T, y)
  BY DEF Valid, LoopedAt
<1>8. BurnedReservations(f) # {} /\ Has(y.reservations, burned_reservation_txid(f)) =>
          y.reservations[burned_reservation_txid(f)] = implied_reservation_commitment(f)
  BY <1>1, <1>7, BurnedIs
<1>9. NewName(y, f)
  BY <1>5, <1>6, <1>8 DEF NewName, NameOf
<1> QED
  BY <1>9 DEF f

\* The state when all but n transactions are undone.
UndoneAt(d, b, e, g, A, S, r, n) ==
    /\ r.tag = "ok" /\ IsDb(r.db) /\ SameData(r.db, g[n].db)
    /\ r.db.utxos = UtxosAt(d, b, A, n) /\ r.db.stxos = S[n]
    /\ r.db.tip = e.tip /\ r.db.height = e.height

LEMMA UndoneStep ==
    ASSUME NEW T, NEW d, NEW b, Valid(T, d, b), ~RegistersTwice(b), NEW e, NEW g, NEW A, NEW S,
           BlockEffect(d, b, e, g, A, S), Few(e), NEW n \in 1 .. Len(b.txs), NEW r,
           UndoneAt(d, b, e, g, A, S, r, n)
    PROVE  UndoneAt(d, b, e, g, A, S, disconnect_tx(r.db, b.txs[n], e.height), n - 1)
<1> DEFINE t == b.txs[n]
           f == FilledSeq(d, b.txs)[n]
           V == UtxosAt(d, b, A, n - 1)
           W == S[n - 1]
           X == r.db
           y == g[n - 1].db
           h == next_height(d)
           q == disconnect_tx(X, t, h)
<1>0. Len(b.txs) \in Nat /\ n - 1 \in 0 .. Len(b.txs) /\ 1 .. n - 1 \subseteq 1 .. Len(b.txs)
  BY ValidTxs
<1>1. /\ Looped(d, b, g, Len(b.txs)) /\ Folded(d, b, A, S) /\ e.height = h
      /\ FilledOk(d, b, n - 1) /\ filled_outputs(f).ok
  BY <1>0 DEF BlockEffect, FilledOk
<1>2. FilledOf(T, f) /\ f.txid = t.txid /\ f.data = t.data
  BY ValidFilled
<1>3. /\ Spends(t, f, V, W) /\ CreatedBy(t) \cap DOMAIN V = {}
      /\ UtxosAt(d, b, A, n) = put_all(Without(V, In(b, n)), NewOf(d, b, n))
      /\ S[n] = put_all(W, NewStxos(f))
  BY <1>1, BlockSpends
<1>4. IsDb(X) /\ MovedTo(t, f, V, W, X)
  <2> DEFINE out == filled_outputs(f).outputs
  <2>1. DOMAIN out = DOMAIN t.outputs
    BY <1>1, NewOfIs
  <2>2. X.utxos = put_all(Without(V, Range(t.inputs)), NewUtxos(t.txid, out))
        /\ X.stxos = put_all(W, NewStxos(f)) /\ IsDb(X)
    BY <1>3 DEF UndoneAt, NewOf, In
  <2> QED
    BY <2>1, <2>2 DEF MovedTo
<1>5. LoopedAt(T, d, b, y, n - 1)
  BY <1>0, <1>1, LoopedIs
<1>6. Few(y)
  <2>1. Few(g[Len(b.txs)].db)
    BY DEF BlockEffect, SameData, Few
  <2> QED
    BY <1>0, <1>1, <2>1, LoopedFew
<1>7. FreshData(y, f.txid)
  <2>1. t \in T /\ FreshData(d, t.txid)
    BY ValidTxs, ValidInputs DEF Fresh
  <2>2. \A j \in 1 .. n - 1 : b.txs[j].txid # t.txid
    <3>1. \A j \in 1 .. n - 1 : j \in 1 .. Len(b.txs) /\ j # n
      BY <1>0
    <3> QED
      BY <3>1, ValidInputs
  <2> QED
    BY <1>2, <1>5, <2>1, <2>2 DEF LoopedAt
<1>8. Is(f, "BitAssetRegistration") => NewName(y, f)
  <2>1. Is(f, "BitAssetRegistration") => Is(t, "BitAssetRegistration")
    BY <1>2 DEF Is
  <2> QED
    BY <1>5, <1>6, <2>1, NameIsNew
<1>9. apply_data(y, f, h).tag = "ok" /\ SameData(X, apply_data(y, f, h).db)
  <2>1. apply_data(y, f, h) = g[n] /\ g[n].tag = "ok"
    BY <1>1, LoopedNext
  <2> QED
    BY <2>1 DEF UndoneAt
<1>10. DataOK(y)
  BY <1>5 DEF LoopedAt
<1> HIDE DEF t, f, V, W, X, y, h
<1>11. /\ q.tag = "ok" /\ IsDb(q.db) /\ SameData(q.db, y) /\ q.db.utxos = V /\ q.db.stxos = W
       /\ q.db.tip = X.tip /\ q.db.height = X.height
  BY <1>2, <1>3, <1>4, <1>7, <1>8, <1>9, <1>10, UndoTx
<1> HIDE DEF q
<1>12. UndoneAt(d, b, e, g, A, S, q, n - 1)
  BY <1>11 DEF UndoneAt, V, W, X, y
<1> QED
  BY <1>1, <1>12 DEF q, t, X

LEMMA ReverseIs ==
    ASSUME NEW S, NEW q \in Seq(S)
    PROVE  /\ Len(revert_order(q)) = Len(q)
           /\ \A k \in 1 .. Len(q) : revert_order(q)[k] = q[Len(q) - (k - 1)]
<1>1. revert_order(q) = [i \in 1 .. Len(q) |-> q[(Len(q) - i) + 1]]
  BY DEF revert_order, Reverse
<1>2. \A k \in 1 .. Len(q) : (Len(q) - k) + 1 = Len(q) - (k - 1)
  OBVIOUS
<1> QED
  BY <1>1, <1>2

\* All transactions, last to first.
LEMMA AllUndone ==
    ASSUME NEW T, NEW d, NEW b, Valid(T, d, b), ~RegistersTwice(b), NEW e, NEW g, NEW A, NEW S,
           BlockEffect(d, b, e, g, A, S), Few(e)
    PROVE  UndoneAt(d, b, e, g, A, S, disconnect_all(e, revert_order(b.txs), e.height), 0)
<1> DEFINE N == Len(b.txs)
           R == revert_order(b.txs)
           h == e.height
<1>0. N \in Nat /\ Len(R) = N /\ \A k \in 1 .. N : R[k] = b.txs[N - (k - 1)]
  <2>1. b.txs \in Seq(T)
    BY DEF Valid
  <2> QED
    BY <2>1, ValidTxs, ReverseIs
<1>1. PICK G : AfterEq(G, Len(R), "disconnect", e, R, h) /\ disconnect_all(e, R, h) = G[Len(R)]
  BY <1>0, ForEachDisconnect
<1> HIDE DEF R, h
<1> DEFINE B == {k \in 0 .. N : ~UndoneAt(d, b, e, g, A, S, G[k], N - k)}
<1>2. B = {}
  <2> SUFFICES ASSUME B # {} PROVE FALSE
    OBVIOUS
  <2>1. UndoneAt(d, b, e, g, A, S, G[0], N - 0)
    <3>1. G[0] = Ok(e) /\ N - 0 = N
      BY <1>0, <1>1 DEF AfterEq
    <3> QED
      BY <3>1 DEF Ok, UndoneAt, BlockEffect
  <2>2. PICK k \in 1 .. N : k \in B /\ k - 1 \in 0 .. N /\ k - 1 \notin B
    <3>1. B \subseteq 0 .. N /\ 0 \notin B
      BY <2>1
    <3> HIDE DEF B, N
    <3> QED
      BY <1>0, <3>1, FirstIndex
  <2> DEFINE n == N - (k - 1)
             r == G[k - 1]
  <2>3. n \in 1 .. N /\ n - 1 = N - k
    BY <1>0
  <2>4. UndoneAt(d, b, e, g, A, S, r, n)
    BY <2>2, Zenon
  <2>5. G[k] = StepFrom("disconnect", r, R[k], h) /\ R[k] = b.txs[n]
    <3>1. k \in 0 .. Len(R) /\ k # 0
      BY <1>0
    <3>2. G[k] = StepFrom("disconnect", G[k - 1], R[k], h)
      BY <1>1, <3>1 DEF AfterEq
    <3>3. R[k] = b.txs[n]
      BY <1>0
    <3> QED
      BY <3>2, <3>3
  <2> HIDE DEF n, r
  <2>6. G[k] = disconnect_tx(r.db, b.txs[n], e.height)
    BY <2>4, <2>5 DEF StepFrom, Step, UndoneAt, h
  <2>7. UndoneAt(d, b, e, g, A, S, disconnect_tx(r.db, b.txs[n], e.height), n - 1)
    BY <2>3, <2>4, UndoneStep
  <2>8. UndoneAt(d, b, e, g, A, S, G[k], N - k)
    BY <2>3, <2>6, <2>7, Zenon
  <2> QED
    BY <2>2, <2>8
<1>3. UndoneAt(d, b, e, g, A, S, G[N], N - N) /\ N - N = 0
  BY <1>0, <1>2
<1> QED
  BY <1>0, <1>1, <1>3 DEF R, h

LEMMA BlockUndone ==
    ASSUME NEW T, NEW d, NEW b, BlockOn(T, d, b), ~RegistersTwice(b), NEW e,
           apply_block(d, b) = Ok(e), Few(e)
    PROVE  disconnect_tip(e, b) = Ok(d)
<1>1. apply_block(d, b).tag = "ok" /\ apply_block(d, b).db = e
  BY DEF Ok
<1>2. Valid(T, d, b) /\ \E g, A, S : BlockEffect(d, b, e, g, A, S)
  BY <1>1, BlockIs
<1>3. PICK g, A, S : BlockEffect(d, b, e, g, A, S)
  BY <1>2
<1> DEFINE h == e.height
           l == disconnect_all(e, revert_order(b.txs), h)
           m == DeleteUtxos(l.db, CoinbaseOuts(b))
           x == [m.db EXCEPT !.tip = b.prev_side_hash, !.height = h - 1]
<1>4. /\ l.tag = "ok" /\ IsDb(l.db) /\ SameData(l.db, d)
      /\ l.db.utxos = put_all(d.utxos, CoinbaseUtxos(b)) /\ l.db.stxos = d.stxos
  <2>1. UndoneAt(d, b, e, g, A, S, l, 0)
    BY <1>2, <1>3, AllUndone
  <2>2. A[0] = CoinbaseUtxos(b) /\ S[0] = d.stxos
    BY <1>2, <1>3, FoldedFirst DEF BlockEffect
  <2>3. g[0].db = d
    BY <1>2, <1>3, ValidTxs DEF BlockEffect, Looped, AfterEq, Ok
  <2>4. UtxosAt(d, b, A, 0) = put_all(d.utxos, CoinbaseUtxos(b))
    <3>1. SpentBy(b, 0) = {}
      BY DEF SpentBy
    <3>2. Without(d.utxos, {}) = d.utxos
      BY <1>2 DEF Without, Valid, StateOK, UtxosOK, IsFun
    <3> QED
      BY <2>2, <3>1, <3>2 DEF UtxosAt
  <2> HIDE DEF l
  <2> QED
    BY <2>1, <2>2, <2>3, <2>4 DEF UndoneAt
<1>5. /\ e.tip = hash(b) /\ h = d.height + 1 /\ d.tip = b.prev_side_hash
      /\ d.height \in Int /\ Len(d.tip) = h /\ \E Z : d.tip \in Seq(Z)
  <2>1. d.tip = b.prev_side_hash
    BY <1>2, ValidTxs
  <2>2. d.height \in Int /\ Len(d.tip) = d.height + 1 /\ \E Z : d.tip \in Seq(Z)
    BY <1>2 DEF Valid, StateOK, TipOK
  <2> QED
    BY <1>3, <2>1, <2>2 DEF BlockEffect, next_height
<1> HIDE DEF h
<1>6. (b.prev_side_hash = NoTip) = (h = 0)
  <2>1. (d.tip = <<>>) <=> (Len(d.tip) = 0)
    BY <1>5
  <2> QED
    BY <1>5, <2>1 DEF NoTip
<1>7. \A i \in DOMAIN b.txs : CanFillFrom(e.stxos, b.txs[i])
  <2>1. \A o : o \in DOMAIN e.stxos <=>
                  o \in DOMAIN d.stxos \/ \E j \in 1 .. Len(b.txs) : o \in In(b, j)
    BY <1>2, <1>3, EffectDomains
  <2>2. DOMAIN b.txs = 1 .. Len(b.txs)
    BY <1>2, ValidTxs
  <2> QED
    BY <2>1, <2>2 DEF CanFillFrom, Has, In, Range
<1>8. disconnect_tip(e, b) = IF m.tag = "ok" THEN Ok(x) ELSE m
  BY <1>4, <1>5, <1>6, <1>7 DEF disconnect_tip, Then, CoinbaseOuts, h
<1> HIDE DEF l
<1> DEFINE C == CoinbaseUtxos(b)
<1>9. /\ IsFun(d.utxos) /\ DOMAIN C = CoinbaseOuts(b) /\ DOMAIN C \cap DOMAIN d.utxos = {}
  <2>1. DOMAIN C = CoinbaseOuts(b)
    BY <1>2, CoinbaseGood
  <2>2. \A o \in CoinbaseOuts(b) : o \notin DOMAIN d.utxos
    BY <1>2, CoinbaseFresh
  <2>3. IsFun(d.utxos)
    BY <1>2 DEF Valid, StateOK, UtxosOK
  <2> HIDE DEF C
  <2> QED
    BY <2>1, <2>2, <2>3
<1> HIDE DEF C
<1>10. Without(put_all(d.utxos, C), DOMAIN C) = d.utxos
  BY <1>9, TakenBack
<1>11. /\ m.tag = "ok" /\ IsDb(m.db) /\ SameData(m.db, d) /\ m.db.utxos = d.utxos
       /\ m.db.stxos = d.stxos
  <2>1. \A o \in CoinbaseOuts(b) : Has(l.db.utxos, o)
    BY <1>4, <1>9 DEF Has, put_all, C
  <2>2. m = Ok([l.db EXCEPT !.utxos = Without(@, CoinbaseOuts(b))])
    BY <2>1 DEF DeleteUtxos, Guarded
  <2>3. Without(l.db.utxos, CoinbaseOuts(b)) = d.utxos
    BY <1>4, <1>9, <1>10 DEF C
  <2> HIDE DEF m
  <2> QED
    BY <1>4, <2>2, <2>3 DEF Ok, IsDb, DbFields, SameData
<1> HIDE DEF m
<1>12. /\ IsDb(x) /\ SameData(x, d) /\ x.utxos = d.utxos /\ x.stxos = d.stxos
       /\ x.tip = d.tip /\ x.height = d.height
  <2>1. h - 1 = d.height
    BY <1>5
  <2> QED
    BY <1>5, <1>11, <2>1 DEF IsDb, DbFields, SameData
<1> HIDE DEF x
<1>13. x = d
  <2>1. IsDb(d)
    BY <1>2 DEF Valid, StateOK, DataOK
  <2> QED
    BY <1>12, <2>1, DbsEqual DEF SameRest
<1> QED
  BY <1>8, <1>11, <1>13

-----------------------------------------------------------------------------
(***************************************************************************)
(* A block that registers a name twice is not undone at all: the second    *)
(* registration in the order of disconnect_tip finds the name gone.        *)
(***************************************************************************)
\* The index of the names loses the name of a registration and gains none.
Unnames(r, d, f) ==
    r.tag = "ok" =>
        /\ DOMAIN r.db = DbFields
        /\ DOMAIN r.db.bitasset_to_seq \subseteq DOMAIN d.bitasset_to_seq
        /\ Is(f, "BitAssetRegistration") =>
              /\ NameOf(f) \in DOMAIN d.bitasset_to_seq
              /\ NameOf(f) \notin DOMAIN r.db.bitasset_to_seq

\* What may change of the state but the names.
SameNames(r, d) ==
    r.tag = "ok" => DOMAIN r.db = DbFields /\ r.db.bitasset_to_seq = d.bitasset_to_seq

LEMMA SameNamesPool ==
    ASSUME NEW d, DOMAIN d = DbFields, NEW f
    PROVE  /\ SameNames(revert_amm_burn(d, f), d) /\ SameNames(revert_amm_mint(d, f), d)
           /\ SameNames(revert_amm_swap(d, f), d)
<1>1. \A k, v : DOMAIN PutPool(d, k, v) = DbFields
                /\ PutPool(d, k, v).bitasset_to_seq = d.bitasset_to_seq
  BY DEF PutPool, DbFields
<1>2. \A p, q, k, v : SameNames(Guarded(p, q, PutPool(d, k, v)), d)
  BY <1>1 DEF SameNames, Guarded, Ok, Err, Panic
<1>3. SameNames(Err, d)
  BY DEF SameNames, Err
<1>4. SameNames(revert_amm_burn(d, f), d)
  BY <1>2 DEF revert_amm_burn
<1>5. SameNames(revert_amm_swap(d, f), d)
  BY <1>2, <1>3 DEF revert_amm_swap
<1>6. SameNames(revert_amm_mint(d, f), d)
  <2>1. SameNames(Ok([d EXCEPT !.amm_pools = delete(@, mint_pair(f))]), d)
    BY DEF SameNames, Ok, DbFields
  <2> QED
    BY <1>2, <1>3, <2>1 DEF revert_amm_mint
<1> QED
  BY <1>4, <1>5, <1>6

LEMMA SameNamesAuction ==
    ASSUME NEW d, DOMAIN d = DbFields, NEW f
    PROVE  /\ SameNames(revert_auction_create(d, f), d) /\ SameNames(revert_auction_bid(d, f), d)
           /\ SameNames(revert_auction_collect(d, f), d)
<1>1. \A k, v : DOMAIN PutAuction(d, k, v) = DbFields
                /\ PutAuction(d, k, v).bitasset_to_seq = d.bitasset_to_seq
  BY DEF PutAuction, DbFields
<1>2. \A p, q, k, v : SameNames(Guarded(p, q, PutAuction(d, k, v)), d)
  BY <1>1 DEF SameNames, Guarded, Ok, Err, Panic
<1>3. SameNames(Err, d)
  BY DEF SameNames, Err
<1>4. SameNames(revert_auction_bid(d, f), d)
  BY <1>2, <1>3 DEF revert_auction_bid
<1>5. SameNames(revert_auction_collect(d, f), d)
  BY <1>2, <1>3 DEF revert_auction_collect
<1>6. SameNames(revert_auction_create(d, f), d)
  BY DEF revert_auction_create, SameNames, Guarded, Ok, Err, Panic, DbFields
<1> QED
  BY <1>4, <1>5, <1>6

LEMMA UnnamesData ==
    ASSUME NEW d, DOMAIN d = DbFields, NEW f, f.data.kind \in DataKinds, NEW height
    PROVE  Unnames(revert_data(d, f, height), d, f)
<1> DEFINE r == revert_data(d, f, height)
<1>1. CASE ~Is(f, "BitAssetRegistration")
  <2>1. SameNames(r, d)
    <3>1. CASE Is(f, "Regular")
      <4>1. r = Ok(d)
        BY <3>1 DEF revert_data, Is
      <4> QED
        BY <4>1 DEF SameNames, Ok
    <3>2. CASE Is(f, "AmmBurn")
      BY <3>2, SameNamesPool DEF revert_data, Is
    <3>3. CASE Is(f, "AmmMint")
      BY <3>3, SameNamesPool DEF revert_data, Is
    <3>4. CASE Is(f, "AmmSwap")
      BY <3>4, SameNamesPool DEF revert_data, Is
    <3>5. CASE Is(f, "BitAssetReservation")
      <4>1. r.tag = "ok" => r.db = [d EXCEPT !.reservations = delete(@, f.txid)]
        BY <3>5 DEF revert_data, Is, Guarded, Ok, Err, Panic
      <4> HIDE DEF r
      <4> QED
        BY <4>1 DEF SameNames, DbFields
    <3>6. CASE Is(f, "BitAssetMint")
      <4>1. r.tag = "ok" => r.db = revert_mint(d, f)
        BY <3>6 DEF revert_data, Is, Guarded, Ok, Err, Panic
      <4> HIDE DEF r
      <4> QED
        BY <4>1 DEF SameNames, DbFields, revert_mint
    <3>7. CASE Is(f, "BitAssetUpdate")
      <4>1. r.tag = "ok" => r.db = revert_updates(d, f)
        BY <3>7 DEF revert_data, Is, Guarded, Ok, Err, Panic
      <4> HIDE DEF r
      <4> QED
        BY <4>1 DEF SameNames, DbFields, revert_updates
    <3>8. CASE Is(f, "DutchAuctionCreate")
      BY <3>8, SameNamesAuction DEF revert_data, Is
    <3>9. CASE Is(f, "DutchAuctionBid")
      BY <3>9, SameNamesAuction DEF revert_data, Is
    <3>10. CASE Is(f, "DutchAuctionCollect")
      BY <3>10, SameNamesAuction DEF revert_data, Is
    <3> HIDE DEF r
    <3> QED
      BY <1>1, <3>1, <3>2, <3>3, <3>4, <3>5, <3>6, <3>7, <3>8, <3>9, <3>10 DEF DataKinds, Is
  <2> HIDE DEF r
  <2>2. Unnames(r, d, f)
    BY <1>1, <2>1 DEF SameNames, Unnames
  <2> QED
    BY <2>2 DEF r
<1>2. CASE Is(f, "BitAssetRegistration")
  <2>1. r.tag = "ok" => r.db = revert_registration(d, f) /\ Has(d.bitasset_to_seq, NameOf(f))
    BY <1>2 DEF revert_data, Is, Guarded, Ok, Err, Panic, unregistration_refused, NameOf
  <2>2. /\ DOMAIN revert_registration(d, f) = DbFields
        /\ revert_registration(d, f).bitasset_to_seq = delete(d.bitasset_to_seq, NameOf(f))
    BY DEF revert_registration, DbFields, NameOf
  <2>3. DOMAIN delete(d.bitasset_to_seq, NameOf(f)) = DOMAIN d.bitasset_to_seq \ {NameOf(f)}
    BY DEF delete
  <2> HIDE DEF r
  <2>4. Unnames(r, d, f)
    BY <1>2, <2>1, <2>2, <2>3 DEF Unnames, Has
  <2> QED
    BY <2>4 DEF r
<1> QED
  BY <1>1, <1>2

LEMMA UnnamesTx ==
    ASSUME NEW d, DOMAIN d = DbFields, NEW t, t.data.kind \in DataKinds, NEW height
    PROVE  Unnames(disconnect_tx(d, t, height), d, t)
<1> DEFINE f == fill_transaction_from_stxos(d, t)
           r == revert_data(d, f, height)
           s == DeleteUtxos(r.db, CreatedBy(t))
           v == unspend(s.db, t)
           w == disconnect_tx(d, t, height)
<1> SUFFICES ASSUME w.tag = "ok"
             PROVE  Unnames(w, d, t)
  BY DEF Unnames
<1>1. r.tag = "ok" /\ s.tag = "ok" /\ v.tag = "ok" /\ w = v
  BY DEF disconnect_tx, Then, Err, Panic, CreatedBy
<1>2. f.data = t.data
  BY DEF fill_transaction_from_stxos, filled_with
<1> HIDE DEF f
<1>3. Unnames(r, d, f)
  BY <1>2, UnnamesData
<1> HIDE DEF r, w
<1>4. DOMAIN r.db = DbFields
  BY <1>1, <1>3 DEF Unnames
<1>5. DOMAIN s.db = DbFields /\ s.db.bitasset_to_seq = r.db.bitasset_to_seq
  <2>1. s.db = [r.db EXCEPT !.utxos = Without(@, CreatedBy(t))]
    BY <1>1 DEF DeleteUtxos, Guarded, Ok, Err, Panic
  <2> HIDE DEF s
  <2> QED
    BY <1>4, <2>1 DEF DbFields
<1> HIDE DEF s
<1>6. DOMAIN v.db = DbFields /\ v.db.bitasset_to_seq = s.db.bitasset_to_seq
  <2> DEFINE e == s.db
             u == put_all(e.utxos, [o \in Range(t.inputs) |-> e.stxos[o].output])
             x == Without(e.stxos, Range(t.inputs))
  <2>1. v.db = [e EXCEPT !.utxos = u, !.stxos = x]
    BY <1>1 DEF unspend, Guarded, Ok, Err, Panic
  <2> HIDE DEF u, x, v
  <2> QED
    BY <1>5, <2>1 DEF DbFields
<1> HIDE DEF v
<1> QED
  BY <1>1, <1>2, <1>3, <1>5, <1>6 DEF Unnames, Is, NameOf

\* A name that is gone stays away while the others are undone.
LEMMA NamesGone ==
    ASSUME NEW T, Typed(T), NEW q \in Seq(T), NEW e, DOMAIN e = DbFields, NEW height,
           NEW G, AfterEq(G, Len(q), "disconnect", e, q, height), G[Len(q)].tag = "ok",
           NEW x, NEW k \in 0 .. Len(q), x \notin DOMAIN G[k].db.bitasset_to_seq
    PROVE  \A n \in k .. Len(q) : x \notin DOMAIN G[n].db.bitasset_to_seq
<1> DEFINE N == Len(q)
           Gone(n) == /\ DOMAIN G[n].db = DbFields
                      /\ n >= k => x \notin DOMAIN G[n].db.bitasset_to_seq
           B == {n \in 0 .. N : ~Gone(n)}
<1>0. N \in Nat /\ \A n \in 1 .. N : q[n] \in T /\ q[n].data.kind \in DataKinds
  BY DEF Typed, TransactionOK
<1>1. \A n \in 0 .. N : G[n].tag = "ok"
  BY <1>0, LoopOk
<1>2. B = {}
  <2> SUFFICES ASSUME B # {} PROVE FALSE
    OBVIOUS
  <2>1. Gone(0)
    <3>1. G[0].db = e
      BY <1>0 DEF AfterEq, Ok
    <3> QED
      BY <3>1
  <2>2. PICK n \in 1 .. N : n \in B /\ n - 1 \in 0 .. N /\ n - 1 \notin B
    <3>1. B \subseteq 0 .. N /\ 0 \notin B
      BY <2>1
    <3> HIDE DEF B, N
    <3> QED
      BY <1>0, <3>1, FirstIndex
  <2>3. Gone(n - 1) /\ n \in 0 .. N /\ n # 0
    BY <1>0, <2>2
  <2> DEFINE y == G[n - 1].db
  <2>4. G[n] = disconnect_tx(y, q[n], height)
    <3>1. G[n] = StepFrom("disconnect", G[n - 1], q[n], height)
      BY <2>3 DEF AfterEq
    <3> QED
      BY <1>1, <2>2, <3>1 DEF StepFrom, Step
  <2> HIDE DEF y
  <2>5. Unnames(G[n], y, q[n])
    BY <1>0, <2>3, <2>4, UnnamesTx DEF y
  <2>6. DOMAIN G[n].db = DbFields /\ DOMAIN G[n].db.bitasset_to_seq \subseteq DOMAIN y.bitasset_to_seq
    BY <1>1, <2>3, <2>5 DEF Unnames
  <2>7. Gone(n)
    <3>1. CASE n = k
      BY <2>6, <3>1
    <3>2. CASE n # k
      <4>1. n >= k => n - 1 >= k
        BY <1>0, <3>2
      <4> QED
        BY <2>3, <2>6, <4>1 DEF y
    <3> QED
      BY <3>1, <3>2
  <2> QED
    BY <2>2, <2>7
<1>3. \A n \in k .. N : n \in 0 .. N /\ n >= k
  BY <1>0
<1> QED
  BY <1>2, <1>3

LEMMA TwiceNotUndone ==
    ASSUME NEW T, Typed(T), NEW b, b.txs \in Seq(T), RegistersTwice(b), NEW e, DOMAIN e = DbFields
    PROVE  disconnect_tip(e, b).tag # "ok"
<1> DEFINE N == Len(b.txs)
           R == revert_order(b.txs)
           h == e.height
           l == disconnect_all(e, R, h)
<1> SUFFICES ASSUME disconnect_tip(e, b).tag = "ok" PROVE FALSE
  OBVIOUS
<1>1. l.tag = "ok"
  BY DEF disconnect_tip, Then, Err
<1>2. /\ N \in Nat /\ DOMAIN b.txs = 1 .. N /\ Len(R) = N
      /\ \A k \in 1 .. N : R[k] = b.txs[N - (k - 1)]
  BY ReverseIs
<1>3. R \in Seq(T)
  <2>1. R = [k \in 1 .. N |-> b.txs[(N - k) + 1]] /\ \A k \in 1 .. N : (N - k) + 1 \in 1 .. N
    BY <1>2 DEF revert_order, Reverse
  <2>2. \A k \in 1 .. N : b.txs[k] \in T
    OBVIOUS
  <2>3. \A k \in 1 .. N : b.txs[(N - k) + 1] \in T
    BY <2>1, <2>2
  <2> HIDE DEF N, R
  <2> QED
    BY <1>2, <2>1, <2>3
<1>4. PICK G : AfterEq(G, Len(R), "disconnect", e, R, h) /\ l = G[Len(R)]
  BY <1>2, ForEachDisconnect
<1> HIDE DEF R, h, l
<1>5. PICK i, j \in 1 .. N :
        /\ i < j
        /\ Is(b.txs[i], "BitAssetRegistration") /\ Is(b.txs[j], "BitAssetRegistration")
        /\ b.txs[i].data.name_hash = b.txs[j].data.name_hash
  <2>1. PICK i, j \in 1 .. N :
          /\ i # j
          /\ Is(b.txs[i], "BitAssetRegistration") /\ Is(b.txs[j], "BitAssetRegistration")
          /\ b.txs[i].data.name_hash = b.txs[j].data.name_hash
    BY <1>2 DEF RegistersTwice
  <2>2. i < j \/ j < i
    BY <1>2, <2>1
  <2> QED
    BY <2>1, <2>2
<1> DEFINE p == N - (j - 1)
           q == N - (i - 1)
           x == NameOf(b.txs[i])
<1>6. /\ p \in 1 .. N /\ q \in 1 .. N /\ p <= q - 1 /\ q - 1 \in p .. N
      /\ N - (p - 1) = j /\ N - (q - 1) = i
  BY <1>2, <1>5
<1>7. R[p] = b.txs[j] /\ R[q] = b.txs[i] /\ x = NameOf(R[p]) /\ x = NameOf(R[q])
      /\ Is(R[p], "BitAssetRegistration") /\ Is(R[q], "BitAssetRegistration")
  <2>1. R[p] = b.txs[j] /\ R[q] = b.txs[i]
    BY <1>2, <1>6
  <2> QED
    BY <1>5, <2>1 DEF NameOf
<1> HIDE DEF p, q, x
<1>8. \A n \in 0 .. N : G[n].tag = "ok"
  <2>1. N \in 0 .. N
    BY <1>1
  <2> QED
    BY <1>1, <1>2, <1>4, <2>1, LoopOk
<1>9. ASSUME NEW n \in 1 .. N, DOMAIN G[n - 1].db = DbFields
      PROVE  Unnames(G[n], G[n - 1].db, R[n])
  <2>1. n \in 0 .. Len(R) /\ n # 0 /\ n - 1 \in 0 .. N
    BY <1>2
  <2>2. G[n] = StepFrom("disconnect", G[n - 1], R[n], h)
    BY <1>4, <2>1 DEF AfterEq
  <2>3. G[n] = disconnect_tx(G[n - 1].db, R[n], h)
    BY <1>8, <2>1, <2>2 DEF StepFrom, Step
  <2>4. R[n] \in T
    BY <1>2, <1>3
  <2>5. R[n].data.kind \in DataKinds
    BY <2>4 DEF Typed, TransactionOK
  <2> QED
    BY <1>9, <2>3, <2>5, UnnamesTx
<1>10. \A n \in 0 .. N : DOMAIN G[n].db = DbFields
  <2> DEFINE B == {n \in 0 .. N : DOMAIN G[n].db # DbFields}
  <2> SUFFICES ASSUME B # {} PROVE FALSE
    OBVIOUS
  <2>1. G[0].db = e
    BY <1>2, <1>4 DEF AfterEq, Ok
  <2>2. PICK n \in 1 .. N : n \in B /\ n - 1 \in 0 .. N /\ n - 1 \notin B
    <3>1. B \subseteq 0 .. N /\ 0 \notin B
      BY <2>1
    <3> HIDE DEF B, N
    <3> QED
      BY <1>2, <3>1, FirstIndex
  <2>3. Unnames(G[n], G[n - 1].db, R[n]) /\ G[n].tag = "ok"
    BY <1>8, <1>9, <2>2
  <2> QED
    BY <2>2, <2>3 DEF Unnames
<1>11. x \notin DOMAIN G[p].db.bitasset_to_seq
  <2>1. p - 1 \in 0 .. N /\ p \in 0 .. N
    <3>1. \A n \in 1 .. N : n - 1 \in 0 .. N /\ n \in 0 .. N
      BY <1>2
    <3> HIDE DEF N
    <3> QED
      BY <1>6, <3>1
  <2>2. Unnames(G[p], G[p - 1].db, R[p]) /\ G[p].tag = "ok"
    BY <1>6, <1>8, <1>9, <1>10, <2>1
  <2> QED
    BY <1>7, <2>2 DEF Unnames
<1>12. x \notin DOMAIN G[q - 1].db.bitasset_to_seq
  <2>1. p \in 0 .. Len(R) /\ q - 1 \in p .. Len(R)
    BY <1>2, <1>6
  <2>2. \A n \in p .. Len(R) : x \notin DOMAIN G[n].db.bitasset_to_seq
    BY <1>1, <1>3, <1>4, <1>11, <2>1, NamesGone
  <2> QED
    BY <2>1, <2>2
<1>13. Unnames(G[q], G[q - 1].db, R[q]) /\ G[q].tag = "ok"
  <2>1. q - 1 \in 0 .. N /\ q \in 0 .. N
    BY <1>2, <1>6
  <2> QED
    BY <1>6, <1>8, <1>9, <1>10, <2>1
<1> QED
  BY <1>7, <1>12, <1>13 DEF Unnames
-----------------------------------------------------------------------------
(***************************************************************************)
(* The chain: every block on it connects to the state before it and gives  *)
(* the state after it.                                                     *)
(***************************************************************************)

LEMMA BlockKeeps ==
    ASSUME NEW T, NEW d, NEW b, BlockOn(T, d, b), apply_block(d, b).tag = "ok"
    PROVE  /\ StateOK(T, apply_block(d, b).db)
           /\ apply_block(d, b) = Ok(apply_block(d, b).db)
<1> DEFINE r == apply_block(d, b)
<1>1. Valid(T, d, b) /\ \E g, A, S : BlockEffect(d, b, r.db, g, A, S)
  BY BlockIs
<1>2. StateOK(T, r.db)
  BY <1>1, StateKept
<1>3. r = Ok(r.db)
  <2> DEFINE F == [i \in DOMAIN b.txs |-> fill_transaction(d, b.txs[i])]
             h == next_height(d)
             l == apply_all(d, F, h)
             m == move_outputs(l.db, b, F)
  <2>1. r = connect_prevalidated(d, b, F, h)
    BY DEF apply_block, Err
  <2>2. r = set_tip(m.db, b, h)
    BY <2>1 DEF connect_prevalidated, Then, Err
  <2> HIDE DEF r, m
  <2>3. \A x : Ok(x).db = x
    BY DEF Ok
  <2> QED
    BY <2>2, <2>3 DEF set_tip
<1> QED
  BY <1>2, <1>3

LEMMA BlockOfIs ==
    ASSUME NEW T, Typed(T), Spending(T), NEW d, StateOK(T, d), NEW body \in Seq(T)
    PROVE  BlockOn(T, d, BlockOf(d, body))
<1> DEFINE b == BlockOf(d, body)
           c == BitcoinContent(SumOf([i \in DOMAIN body |-> fill_transaction(d, body[i])], bitcoin_fee))
<1>1. b.txs = body /\ b.coinbase = <<c>>
  BY DEF BlockOf
<1> HIDE DEF b, c
<1>2. b.coinbase \in Seq({c})
  BY <1>1
<1> QED
  BY <1>1, <1>2 DEF BlockOn, b

LEMMA BodyKeeps ==
    ASSUME NEW T, Typed(T), Spending(T), NEW d, StateOK(T, d), NEW body \in Seq(T)
    PROVE  ConnectBody(d, body).tag = "ok" /\ StateOK(T, ConnectBody(d, body).db)
<1> DEFINE b == BlockOf(d, body)
           r == apply_block(d, b)
<1>1. ConnectBody(d, body) = IF r.tag = "ok" THEN r ELSE Ok(d)
  BY DEF ConnectBody
<1>2. BlockOn(T, d, b)
  BY BlockOfIs
<1> HIDE DEF b
<1>3. r.tag = "ok" => StateOK(T, r.db)
  BY <1>2, BlockKeeps
<1> HIDE DEF r
<1> QED
  BY <1>1, <1>3 DEF Ok

LEMMA PrefixKeeps ==
    ASSUME NEW T, Typed(T), Spending(T), NEW d, StateOK(T, d), NEW bodies \in Seq(Seq(T))
    PROVE  StateOK(T, ConnectAll(d, bodies))
<1> DEFINE N == Len(bodies)
<1>1. N \in Nat /\ \A n \in 1 .. N : bodies[n] \in Seq(T)
  OBVIOUS
<1>2. PICK g : AfterEq(g, N, "prefix", d, bodies, 0) /\ ConnectAll(d, bodies) = g[N].db
  BY <1>1, ForEachPrefix
<1> HIDE DEF N
<1> DEFINE B == {n \in 0 .. N : ~(g[n].tag = "ok" /\ StateOK(T, g[n].db))}
<1>3. B = {}
  <2> SUFFICES ASSUME B # {} PROVE FALSE
    OBVIOUS
  <2>1. g[0] = Ok(d)
    BY <1>1, <1>2 DEF AfterEq
  <2>2. PICK n \in 1 .. N : n \in B /\ n - 1 \in 0 .. N /\ n - 1 \notin B
    <3>1. B \subseteq 0 .. N /\ 0 \notin B
      BY <2>1 DEF Ok
    <3> HIDE DEF B
    <3> QED
      BY <1>1, <3>1, FirstIndex
  <2> DEFINE y == g[n - 1].db
  <2>3. g[n - 1].tag = "ok" /\ StateOK(T, y)
    BY <2>2
  <2>4. g[n] = ConnectBody(y, bodies[n])
    <3>1. n \in 0 .. N /\ n # 0
      BY <1>1
    <3>2. g[n] = StepFrom("prefix", g[n - 1], bodies[n], 0)
      BY <1>2, <3>1 DEF AfterEq
    <3> QED
      BY <2>3, <3>2 DEF StepFrom, Step
  <2> HIDE DEF y
  <2>5. g[n].tag = "ok" /\ StateOK(T, g[n].db)
    BY <1>1, <2>3, <2>4, BodyKeeps
  <2> QED
    BY <2>2, <2>5
<1> QED
  BY <1>1, <1>2, <1>3

LEMMA FirstState ==
    ASSUME NEW T, NEW utxos, Deposits(utxos)
    PROVE  StateOK(T, [EmptyDb EXCEPT !.utxos = utxos])
<1> DEFINE e == [EmptyDb EXCEPT !.utxos = utxos]
<1>1. /\ e = [x \in DbFields |-> e[x]]
      /\ e.utxos = utxos /\ e.stxos = <<>> /\ e.amm_pools = <<>> /\ e.dutch_auctions = <<>>
      /\ e.reservations = <<>> /\ e.bitassets = <<>> /\ e.seq_to_bitasset = <<>>
      /\ e.bitasset_to_seq = <<>> /\ e.tip = <<>> /\ e.height = -1
  BY DEF EmptyDb, DbFields, NoTip
<1> HIDE DEF e
<1>2. DOMAIN <<>> = {} /\ IsFun(<<>>)
  BY DEF IsFun
<1>3. DataOK(e)
  BY <1>1, <1>2 DEF DataOK, IsDb, PoolsOK
<1>4. GoodReservations(T, e)
  BY <1>1, <1>2 DEF GoodReservations
<1>5. SeqOK(e)
  <2>1. 0 \in Nat /\ 0 .. 0 - 1 = {}
    OBVIOUS
  <2> QED
    BY <1>1, <1>2, <2>1 DEF SeqOK
<1>6. /\ IsFun(utxos) /\ \A o \in DOMAIN utxos : o[1] = "Deposit" /\ utxos[o].kind = "Bitcoin"
  <2> DEFINE R == [kind : {"Bitcoin"}, of : {Bitcoin}, value : Amount]
  <2>1. \A c \in R : c.kind = "Bitcoin"
    OBVIOUS
  <2>2. utxos \in [DOMAIN utxos -> R] /\ \A o \in DOMAIN utxos : o[1] = "Deposit"
    BY DEF Deposits
  <2> HIDE DEF R
  <2> QED
    BY <2>1, <2>2 DEF IsFun
<1>7. UtxosOK(T, e)
  BY <1>1, <1>2, <1>6 DEF UtxosOK, GoodContent
<1>8. TipOK(e)
  <2>1. <<>> \in Seq({}) /\ Len(<<>>) = -1 + 1 /\ -1 \in Int
    OBVIOUS
  <2>2. \A o \in DOMAIN e.utxos \cup DOMAIN e.stxos : o[1] # "Coinbase"
    BY <1>1, <1>2, <1>6
  <2> QED
    BY <1>1, <2>1, <2>2 DEF TipOK
<1>9. ASSUME NEW t \in T PROVE Fresh(e, t)
  <2>1. FreshData(e, t.txid)
    BY <1>1, <1>2 DEF FreshData
  <2>2. ASSUME NEW i PROVE Regular(t.txid, i) \notin DOMAIN e.utxos \cup DOMAIN e.stxos
    BY <1>1, <1>2, <1>6, RegularIs
  <2> QED
    BY <2>1, <2>2 DEF Fresh
<1>10. StateOK(T, e)
  BY <1>3, <1>4, <1>5, <1>7, <1>8, <1>9 DEF StateOK
<1> QED
  BY <1>10 DEF e

-----------------------------------------------------------------------------
\* The state after the i-th block.
After(i) == IF i = Len(chain) THEN db ELSE chain[i + 1].before

\* Every block on the chain connected to the state before it.
Linked(T) ==
    /\ \E S : chain \in Seq(S)
    /\ StateOK(T, db)
    /\ \A i \in 1 .. Len(chain) :
        /\ BlockOn(T, chain[i].before, chain[i].block)
        /\ apply_block(chain[i].before, chain[i].block) = Ok(After(i))

LInv == \E s \in Scenario : offered = s.offered /\ Linked(Txs(s))

LEMMA LInit == AllSpend /\ Init => LInv
<1> SUFFICES ASSUME AllSpend, Init PROVE LInv
  OBVIOUS
<1>1. PICK s \in Scenario : /\ offered = s.offered
                            /\ db = ConnectAll([EmptyDb EXCEPT !.utxos = s.utxos], s.prefix)
                            /\ chain = <<>>
  BY DEF Init
<1> DEFINE T == Txs(s)
           e == [EmptyDb EXCEPT !.utxos = s.utxos]
<1>2. Typed(T) /\ s.prefix \in Seq(Seq(T)) /\ Deposits(s.utxos) /\ Spending(T)
  BY ScenarioTyped, StateBlockAssumption DEF AllSpend, Spending
<1>3. StateOK(T, e)
  BY <1>2, FirstState
<1> HIDE DEF T, e
<1>4. StateOK(T, db)
  BY <1>1, <1>2, <1>3, PrefixKeeps DEF e
<1>5. chain \in Seq({}) /\ Len(chain) = 0
  BY <1>1
<1>6. Linked(T)
  BY <1>4, <1>5 DEF Linked
<1> QED
  BY <1>1, <1>6 DEF LInv, T

\* The block that is undone.
LEMMA TipIs ==
    ASSUME NEW T, Linked(T), chain # <<>>
    PROVE  /\ Len(chain) \in Nat /\ Len(chain) >= 1 /\ Last(chain) = chain[Len(chain)]
           /\ BlockOn(T, Last(chain).before, Last(chain).block)
           /\ apply_block(Last(chain).before, Last(chain).block) = Ok(db)
<1>1. PICK S : chain \in Seq(S)
  BY DEF Linked
<1>2. Len(chain) \in Nat /\ Len(chain) >= 1 /\ Last(chain) = chain[Len(chain)]
  BY <1>1 DEF Last
<1>3. Len(chain) \in 1 .. Len(chain) /\ After(Len(chain)) = db
  BY <1>2 DEF After
<1> QED
  BY <1>2, <1>3 DEF Linked

LEMMA UndoneIs ==
    ASSUME NEW T, Linked(T), chain # <<>>, Few(db), ~RegistersTwice(Last(chain).block)
    PROVE  disconnect_tip(db, Last(chain).block) = Ok(Last(chain).before)
  BY TipIs, BlockUndone

LEMMA FrontIs ==
    ASSUME NEW S, NEW q \in Seq(S), Len(q) >= 1
    PROVE  /\ Front(q) \in Seq(S) /\ Len(Front(q)) = Len(q) - 1
           /\ \A i \in 1 .. Len(q) - 1 : Front(q)[i] = q[i]
<1>1. Front(q) = [i \in 1 .. Len(q) - 1 |-> q[i]]
  BY DEF Front
<1>2. Len(Front(q)) = Len(q) - 1
  BY FrontLen
<1>3. Front(q) \in Seq(S)
  BY DEF Front
<1> QED
  BY <1>1, <1>2, <1>3

LEMMA LNext == AllSpend /\ LInv /\ FewNames /\ [Next]_vars => LInv'
<1> SUFFICES ASSUME AllSpend, LInv, FewNames, [Next]_vars PROVE LInv'
  OBVIOUS
<1>1. PICK s \in Scenario : offered = s.offered /\ Linked(Txs(s))
  BY DEF LInv
<1> DEFINE T == Txs(s)
<1>2. Typed(T) /\ offered \subseteq T /\ Spending(T)
  BY <1>1, ScenarioTyped DEF AllSpend, Spending
<1>3. Linked(T)
  BY <1>1
<1>4. PICK S : chain \in Seq(S)
  BY <1>3 DEF Linked
<1> SUFFICES ASSUME TRUE PROVE offered' = offered /\ Linked(T)'
  BY <1>1 DEF LInv
<1> HIDE DEF T
<1>5. ASSUME NEW body \in Bodies, Connect(body)
      PROVE  offered' = offered /\ Linked(T)'
  <2> DEFINE b == BlockOf(db, body)
             c == [block |-> b, before |-> db]
             N == Len(chain)
  <2>1. /\ apply_block(db, b).tag = "ok" /\ db' = apply_block(db, b).db
        /\ chain' = Append(chain, c) /\ offered' = offered
    BY <1>5 DEF Connect
  <2>2. body \in Seq(T)
    <3>1. PICK n \in 0 .. MaxTxs : body \in [1 .. n -> offered]
      BY DEF Bodies
    <3>2. n \in Nat
      BY <3>1, StateBlockAssumption
    <3> QED
      BY <1>2, <3>1, <3>2
  <2>3. BlockOn(T, db, b)
    BY <1>2, <1>3, <2>2, BlockOfIs DEF Linked
  <2>4. c.block = b /\ c.before = db
    OBVIOUS
  <2> HIDE DEF b, c
  <2>5. StateOK(T, db') /\ apply_block(db, b) = Ok(db')
    BY <2>1, <2>3, BlockKeeps
  <2>6. /\ N \in Nat /\ chain' \in Seq(S \cup {c}) /\ Len(chain') = N + 1 /\ chain'[N + 1] = c
        /\ \A i \in 1 .. N : chain'[i] = chain[i]
    BY <1>4, <2>1
  <2> HIDE DEF N
  <2>7. ASSUME NEW i \in 1 .. Len(chain')
        PROVE  /\ BlockOn(T, chain'[i].before, chain'[i].block)
               /\ apply_block(chain'[i].before, chain'[i].block) = Ok(After(i)')
    <3>1. CASE i = N + 1
      <4>1. After(i)' = db'
        BY <2>6, <3>1 DEF After
      <4> QED
        BY <2>3, <2>4, <2>5, <2>6, <3>1, <4>1
    <3>2. CASE i # N + 1
      <4>1. i \in 1 .. N /\ i # Len(chain') /\ chain'[i] = chain[i]
        BY <2>6, <3>2
      <4>2. After(i)' = chain'[i + 1].before
        BY <4>1 DEF After
      <4>3. chain'[i + 1].before = After(i)
        <5>1. CASE i = N
          BY <2>4, <2>6, <5>1 DEF After, N
        <5>2. CASE i # N
          <6>1. i + 1 \in 1 .. N
            BY <2>6, <4>1, <5>2
          <6> QED
            BY <2>6, <5>2, <6>1 DEF After, N
        <5> QED
          BY <5>1, <5>2
      <4> QED
        BY <1>3, <4>1, <4>2, <4>3 DEF Linked, N
    <3> QED
      BY <3>1, <3>2
  <2> QED
    BY <2>1, <2>5, <2>6, <2>7 DEF Linked
<1>6. ASSUME Disconnect
      PROVE  offered' = offered /\ Linked(T)'
  <2> DEFINE N == Len(chain)
             b == Last(chain).block
  <2>1. /\ chain # <<>> /\ chain' = Front(chain)
        /\ disconnect_tip(db, b).tag = "ok" /\ db' = disconnect_tip(db, b).db
        /\ offered' = offered
    BY <1>6 DEF Disconnect
  <2>2. /\ N \in Nat /\ N >= 1 /\ Last(chain) = chain[N]
        /\ BlockOn(T, Last(chain).before, b)
    BY <1>3, <2>1, TipIs
  <2>3. ~RegistersTwice(b)
    <3>1. DOMAIN db = DbFields
      BY <1>3 DEF Linked, StateOK, DataOK, IsDb
    <3>2. b.txs \in Seq(T)
      BY <2>2 DEF BlockOn
    <3> HIDE DEF b
    <3> QED
      BY <1>2, <2>1, <3>1, <3>2, TwiceNotUndone
  <2>4. disconnect_tip(db, b) = Ok(Last(chain).before)
    BY <1>3, <2>1, <2>3, UndoneIs DEF FewNames
  <2>5. db' = chain[N].before
    BY <2>1, <2>2, <2>4 DEF Ok
  <2>6. chain' \in Seq(S) /\ Len(chain') = N - 1 /\ \A i \in 1 .. N - 1 : chain'[i] = chain[i]
    BY <1>4, <2>1, <2>2, FrontIs
  <2>7. StateOK(T, db')
    BY <2>2, <2>5 DEF BlockOn
  <2> HIDE DEF N
  <2>8. ASSUME NEW i \in 1 .. Len(chain')
        PROVE  /\ BlockOn(T, chain'[i].before, chain'[i].block)
               /\ apply_block(chain'[i].before, chain'[i].block) = Ok(After(i)')
    <3>1. i \in 1 .. N - 1 /\ i \in 1 .. N /\ i # N /\ chain'[i] = chain[i]
      BY <2>2, <2>6
    <3>2. After(i) = chain[i + 1].before
      BY <3>1 DEF After, N
    <3>3. After(i)' = chain[i + 1].before
      <4>1. CASE i = N - 1
        <5>1. i + 1 = N
          BY <2>2, <4>1
        <5> QED
          BY <2>5, <2>6, <4>1, <5>1 DEF After
      <4>2. CASE i # N - 1
        <5>1. i + 1 \in 1 .. N - 1 /\ i # Len(chain')
          BY <2>2, <2>6, <3>1, <4>2
        <5> QED
          BY <2>6, <5>1 DEF After
      <4> QED
        BY <4>1, <4>2
    <3> QED
      BY <1>3, <3>1, <3>2, <3>3 DEF Linked, N
  <2> QED
    BY <2>1, <2>6, <2>7, <2>8 DEF Linked
<1>7. CASE UNCHANGED vars
  BY <1>3, <1>7 DEF vars, Linked, After
<1> QED
  BY <1>5, <1>6, <1>7 DEF Next

LEMMA LInvariant ==
    ASSUME AllSpend
    PROVE  Spec /\ []FewNames => []LInv
<1>1. Init => LInv
  BY LInit
<1>2. LInv /\ FewNames /\ [Next]_vars => LInv'
  BY LNext
<1> QED
  BY <1>1, <1>2, PTL DEF Spec

\* disconnect_tip restores exactly the state before the tip, whatever mix of
\* transactions the blocks hold, if no block registers a name twice, every
\* transaction spends something and the numbers of names take up one byte.
THEOREM DisconnectIsExact ==
    ASSUME AllSpend
    PROVE  Spec /\ []FewNames => []DisconnectExact
<1>1. LInv /\ FewNames => DisconnectExact
  <2> SUFFICES ASSUME LInv, FewNames, chain # <<>>, RegisteredOnce
               PROVE  disconnect_tip(db, Last(chain).block) = Ok(Last(chain).before)
    BY DEF DisconnectExact
  <2>1. PICK s \in Scenario : Linked(Txs(s))
    BY DEF LInv
  <2>2. ~RegistersTwice(Last(chain).block)
    <3>1. PICK S : chain \in Seq(S)
      BY <2>1 DEF Linked
    <3>2. Len(chain) \in DOMAIN chain
      BY <3>1
    <3> QED
      BY <3>2 DEF RegisteredOnce, Last
  <2> QED
    BY <2>1, <2>2, UndoneIs DEF FewNames
<1> QED
  BY <1>1, LInvariant, PTL
-----------------------------------------------------------------------------
(***************************************************************************)
(* The two ways to connect a block.  H is what the loop of connect comes   *)
(* by, g that of connect_prevalidated.                                     *)
(***************************************************************************)
LEMMA FailedGuarded ==
    ASSUME NEW p, NEW e, NEW x
    PROVE  Guarded(p, e, x).tag # "ok" => Guarded(p, e, x) \in {Err, Panic}
  BY DEF Guarded, Ok

LEMMA FailedData ==
    ASSUME NEW d, NEW f, f.data.kind \in DataKinds, NEW height,
           apply_data(d, f, height).tag # "ok"
    PROVE  apply_data(d, f, height) \in {Err, Panic}
<1> DEFINE r == apply_data(d, f, height)
<1>1. CASE Is(f, "Regular")
  BY <1>1 DEF apply_data, Is, Ok
<1>2. CASE Is(f, "AmmBurn")
  <2>1. r = apply_amm_burn(d, f)
    BY <1>2 DEF apply_data, Is
  <2> QED
    BY <2>1, FailedGuarded DEF apply_amm_burn
<1>3. CASE Is(f, "AmmMint")
  <2>1. r = apply_amm_mint(d, f)
    BY <1>3 DEF apply_data, Is
  <2> QED
    BY <2>1, FailedGuarded DEF apply_amm_mint
<1>4. CASE Is(f, "AmmSwap")
  <2>1. r = apply_amm_swap(d, f)
    BY <1>4 DEF apply_data, Is
  <2> QED
    BY <2>1, FailedGuarded DEF apply_amm_swap
<1>5. CASE Is(f, "BitAssetReservation")
  BY <1>5 DEF apply_data, Is, Ok
<1>6. CASE Is(f, "BitAssetRegistration")
  <2>1. r = Guarded(FALSE, registration_refused(d, f), apply_registration(d, f, height))
    BY <1>6 DEF apply_data, Is
  <2> QED
    BY <2>1, FailedGuarded
<1>7. CASE Is(f, "BitAssetMint")
  <2>1. r = Guarded(FALSE, mint_refused_of(d, f), apply_mint(d, f, height))
    BY <1>7 DEF apply_data, Is
  <2> QED
    BY <2>1, FailedGuarded
<1>8. CASE Is(f, "BitAssetUpdate")
  <2>1. r = Guarded(FALSE, update_refused(d, f), apply_updates(d, f, height))
    BY <1>8 DEF apply_data, Is
  <2> QED
    BY <2>1, FailedGuarded
<1>9. CASE Is(f, "DutchAuctionCreate")
  <2>1. r = apply_auction_create(d, f, height)
    BY <1>9 DEF apply_data, Is
  <2> QED
    BY <2>1, FailedGuarded DEF apply_auction_create
<1>10. CASE Is(f, "DutchAuctionBid")
  <2>1. r = apply_auction_bid(d, f, height)
    BY <1>10 DEF apply_data, Is
  <2> QED
    BY <2>1, FailedGuarded DEF apply_auction_bid
<1>11. CASE Is(f, "DutchAuctionCollect")
  <2>1. r = apply_auction_collect(d, f, height)
    BY <1>11 DEF apply_data, Is
  <2> QED
    BY <2>1, FailedGuarded DEF apply_auction_collect
<1> QED
  BY <1>1, <1>2, <1>3, <1>4, <1>5, <1>6, <1>7, <1>8, <1>9, <1>10, <1>11 DEF DataKinds, Is

\* The two loops after n transactions: they failed alike, or the databases of
\* the data are the same and connect has moved the outputs.
Matches(d, b, A, S, r, q, n) ==
    /\ r.tag = q.tag
    /\ q.tag # "ok" => r = q
    /\ q.tag = "ok" =>
        /\ IsDb(r.db) /\ SameData(r.db, q.db)
        /\ r.db.utxos = UtxosAt(d, b, A, n) /\ r.db.stxos = S[n]
        /\ r.db.tip = d.tip /\ r.db.height = d.height

Start(d, b) == [d EXCEPT !.utxos = put_all(@, CoinbaseUtxos(b))]

LEMMA MatchesFirst ==
    ASSUME NEW T, NEW d, NEW b, Valid(T, d, b), NEW A, NEW S, Folded(d, b, A, S)
    PROVE  Matches(d, b, A, S, Ok(Start(d, b)), Ok(d), 0)
<1>1. A[0] = CoinbaseUtxos(b) /\ S[0] = d.stxos
  BY FoldedFirst
<1>2. IsDb(d) /\ IsFun(d.utxos)
  BY DEF Valid, StateOK, DataOK, UtxosOK
<1>3. SpentBy(b, 0) = {}
  BY DEF SpentBy
<1>4. Without(d.utxos, SpentBy(b, 0)) = d.utxos
  BY <1>2, <1>3 DEF Without, IsFun
<1> DEFINE e == Start(d, b)
<1>5. IsDb(e) /\ SameData(e, d) /\ e.stxos = d.stxos /\ e.tip = d.tip /\ e.height = d.height
      /\ e.utxos = put_all(d.utxos, CoinbaseUtxos(b))
  BY <1>2 DEF Start, IsDb, DbFields, SameData
<1>6. e.utxos = UtxosAt(d, b, A, 0)
  BY <1>1, <1>4, <1>5 DEF UtxosAt
<1> HIDE DEF e
<1>7. Matches(d, b, A, S, Ok(e), Ok(d), 0)
  BY <1>1, <1>5, <1>6 DEF Matches, Ok
<1> QED
  BY <1>7 DEF e

\* What connect_tx moves.
Moved(d, tx, f, outputs) ==
    [d EXCEPT !.utxos = put_all(Without(@, Range(tx.inputs)), NewUtxos(f.txid, outputs)),
              !.stxos = put_all(@, NewStxos(f))]

LEMMA ConnectTxIs ==
    ASSUME NEW x, NEW t, NEW f, NEW S, Spends(t, f, x.utxos, S), NEW height
    PROVE  connect_tx(x, t, height) =
               IF filled_outputs(f).ok
               THEN apply_data(Moved(x, t, f, filled_outputs(f).outputs), f, height) ELSE Err
<1>1. fill_transaction(x, t) = f
  BY DEF Spends, fill_transaction
<1>2. CanFillFrom(x.utxos, t) /\ IsInjective(t.inputs)
  BY DEF Spends, CanFillFrom, Has, Range
<1> QED
  BY <1>1, <1>2 DEF connect_tx, Moved

\* One transaction: g and H are the results before and after it.
LEMMA MatchesStep ==
    ASSUME NEW T, NEW d, NEW b, Valid(T, d, b), NEW A, NEW S, Folded(d, b, A, S),
           NEW n \in 1 .. Len(b.txs), FilledOk(d, b, n - 1),
           NEW x, NEW y, DataOK(y), Matches(d, b, A, S, Ok(x), Ok(y), n - 1), NEW height
    PROVE  Matches(d, b, A, S, connect_tx(x, b.txs[n], height),
                   apply_filled(y, FilledSeq(d, b.txs)[n], height), n)
<1> DEFINE t == b.txs[n]
           f == FilledSeq(d, b.txs)[n]
           V == UtxosAt(d, b, A, n - 1)
           W == S[n - 1]
           out == filled_outputs(f)
           m == Moved(x, t, f, out.outputs)
           r == apply_data(m, f, height)
           q == apply_data(y, f, height)
<1>1. /\ IsDb(x) /\ SameData(x, y) /\ x.utxos = V /\ x.stxos = W
      /\ x.tip = d.tip /\ x.height = d.height
  BY DEF Matches, Ok
<1>2. /\ Spends(t, f, V, W)
      /\ UtxosAt(d, b, A, n) = put_all(Without(V, In(b, n)), NewOf(d, b, n))
      /\ S[n] = put_all(W, NewStxos(f))
  BY BlockSpends
<1>3. FilledOf(T, f) /\ f.txid = t.txid
  BY ValidFilled
<1>4. f.data.kind \in DataKinds
  BY <1>3, AmountsTyped
<1>5. NewOf(d, b, n) = NewUtxos(f.txid, out.outputs) /\ In(b, n) = Range(t.inputs)
  BY <1>3 DEF NewOf, In
<1> HIDE DEF t, f, V, W
<1>6. /\ IsDb(m) /\ SameData(m, y) /\ m.utxos = UtxosAt(d, b, A, n) /\ m.stxos = S[n]
      /\ m.tip = d.tip /\ m.height = d.height
  BY <1>1, <1>2, <1>5 DEF Moved, IsDb, DbFields, SameData
<1>7. connect_tx(x, t, height) = IF out.ok THEN r ELSE Err
  BY <1>1, <1>2, ConnectTxIs
<1>8. apply_filled(y, f, height) = IF out.ok THEN q ELSE Err
  BY DEF apply_filled
<1>9. CASE ~out.ok
  <2>1. Matches(d, b, A, S, Err, Err, n)
    BY DEF Matches, Err
  <2> QED
    BY <1>7, <1>8, <1>9, <2>1 DEF t, f
<1>10. CASE out.ok
  <2> HIDE DEF m, out
  <2>1. IsDb(y)
    BY DEF DataOK
  <2>2. Follows(r, m, q, y)
    BY <1>4, <1>6, <2>1, FollowsData
  <2>3. (r.tag # "ok" => r \in {Err, Panic}) /\ (q.tag # "ok" => q \in {Err, Panic})
    BY <1>4, FailedData
  <2> HIDE DEF r, q
  <2>4. r.tag = q.tag
    BY <2>2 DEF Follows
  <2>5. q.tag # "ok" => r = q
    BY <2>3, <2>4 DEF Err, Panic
  <2>6. q.tag = "ok" =>
          /\ IsDb(r.db) /\ SameData(r.db, q.db)
          /\ r.db.utxos = UtxosAt(d, b, A, n) /\ r.db.stxos = S[n]
          /\ r.db.tip = d.tip /\ r.db.height = d.height
    BY <1>6, <2>2 DEF Follows, SameRest
  <2>7. Matches(d, b, A, S, r, q, n)
    BY <2>4, <2>5, <2>6 DEF Matches
  <2> QED
    BY <1>7, <1>8, <1>10, <2>7 DEF t, f
<1> QED
  BY <1>9, <1>10

LEMMA MatchesAll ==
    ASSUME NEW T, NEW d, NEW b, Valid(T, d, b), NEW A, NEW S, Folded(d, b, A, S),
           NEW g, AfterEq(g, Len(b.txs), "connect", d, FilledSeq(d, b.txs), next_height(d)),
           NEW H, AfterEq(H, Len(b.txs), "recheck", Start(d, b), b.txs, next_height(d))
    PROVE  Matches(d, b, A, S, H[Len(b.txs)], g[Len(b.txs)], Len(b.txs))
<1> DEFINE N == Len(b.txs)
           F == FilledSeq(d, b.txs)
           h == next_height(d)
           B == {n \in 0 .. N : ~Matches(d, b, A, S, H[n], g[n], n)}
<1>0. N \in Nat
  BY ValidTxs
<1>1. B = {}
  <2> SUFFICES ASSUME B # {} PROVE FALSE
    OBVIOUS
  <2>1. g[0] = Ok(d) /\ H[0] = Ok(Start(d, b))
    BY <1>0 DEF AfterEq
  <2>2. Matches(d, b, A, S, H[0], g[0], 0)
    BY <2>1, MatchesFirst
  <2>3. PICK n \in 1 .. N : n \in B /\ n - 1 \in 0 .. N /\ n - 1 \notin B
    <3>1. B \subseteq 0 .. N /\ 0 \notin B
      BY <2>2
    <3> HIDE DEF B, N
    <3> QED
      BY <1>0, <3>1, FirstIndex
  <2>4. Matches(d, b, A, S, H[n - 1], g[n - 1], n - 1)
    BY <2>3
  <2>5. n \in 0 .. N /\ n # 0
    BY <1>0
  <2>6. g[n] = StepFrom("connect", g[n - 1], F[n], h)
    BY <2>5 DEF AfterEq
  <2>7. H[n] = StepFrom("recheck", H[n - 1], b.txs[n], h)
    BY <2>5 DEF AfterEq
  <2> HIDE DEF B, F, h
  <2>8. CASE g[n - 1].tag # "ok"
    <3>1. g[n] = g[n - 1] /\ H[n] = H[n - 1] /\ H[n - 1] = g[n - 1]
      BY <2>4, <2>6, <2>7, <2>8 DEF StepFrom, Matches
    <3>2. Matches(d, b, A, S, H[n], g[n], n)
      BY <2>8, <3>1 DEF Matches
    <3> QED
      BY <2>3, <3>2 DEF B
  <2>9. CASE g[n - 1].tag = "ok"
    <3> DEFINE x == H[n - 1].db
               y == g[n - 1].db
    <3>1. Looped(d, b, g, n - 1)
      BY <2>3, <2>9 DEF Looped
    <3>2. FilledOk(d, b, n - 1)
      BY <3>1, LoopedNext DEF FilledOk
    <3>3. DataOK(y)
      <4>1. n - 1 \in 0 .. n - 1
        BY <1>0
      <4> QED
        BY <3>1, <4>1, LoopedIs DEF LoopedAt
    <3>4. H[n - 1].tag = "ok"
      BY <2>4, <2>9 DEF Matches
    <3>5. g[n] = apply_filled(y, F[n], h) /\ H[n] = connect_tx(x, b.txs[n], h)
      BY <2>6, <2>7, <2>9, <3>4 DEF StepFrom, Step
    <3>6. Matches(d, b, A, S, Ok(x), Ok(y), n - 1)
      BY <2>4, <2>9 DEF Matches, Ok
    <3> HIDE DEF x, y
    <3>7. Matches(d, b, A, S, connect_tx(x, b.txs[n], h), apply_filled(y, F[n], h), n)
      BY <3>2, <3>3, <3>6, MatchesStep DEF F
    <3>8. Matches(d, b, A, S, H[n], g[n], n)
      BY <3>5, <3>7
    <3> QED
      BY <2>3, <3>8 DEF B
  <2> QED
    BY <2>8, <2>9
<1> QED
  BY <1>0, <1>1

\* On a block that validate lets pass, connect gives what prevalidate with
\* connect_prevalidated gives.
LEMMA BothConnect ==
    ASSUME NEW T, NEW d, NEW b, BlockOn(T, d, b), ~validate_refused(d, b)
    PROVE  connect(d, b) = apply_block(d, b)
<1> DEFINE N == Len(b.txs)
           F == FilledSeq(d, b.txs)
           h == next_height(d)
           l == apply_all(d, F, h)
           L == connect_all(Start(d, b), b.txs, h)
<1>1. CASE BadCoinbase(b)
  BY <1>1 DEF connect, apply_block, connect_prevalidated, Err, prevalidate_refused
<1>2. CASE ~BadCoinbase(b)
  <2>1. Valid(T, d, b)
    BY <1>2 DEF Valid, BlockOn
  <2>2. apply_block(d, b) = IF l.tag = "ok" THEN set_tip(move_outputs(l.db, b, F).db, b, h) ELSE l
    <3>1. \A e : move_outputs(e, b, F).tag = "ok"
      BY DEF move_outputs, Ok
    <3>2. apply_block(d, b) = connect_prevalidated(d, b, F, h)
      BY DEF apply_block, prevalidate_refused, FilledSeq
    <3> QED
      BY <1>2, <3>1, <3>2 DEF connect_prevalidated, Then
  <2>3. connect(d, b) = IF L.tag = "ok" THEN set_tip(L.db, b, h) ELSE L
    BY <1>2 DEF connect, connect_height, validate_refused, Start, Then
  <2>4. N \in Nat /\ Len(F) = N
    <3>1. DOMAIN b.txs = 1 .. Len(b.txs) /\ Len(b.txs) \in Nat
      BY <2>1, ValidTxs
    <3> QED
      BY <3>1 DEF FilledSeq
  <2>5. PICK H : AfterEq(H, N, "recheck", Start(d, b), b.txs, h) /\ L = H[N]
    BY <2>4, ForEachRecheck
  <2>6. CASE apply_block(d, b).tag = "ok"
    <3> DEFINE r == apply_block(d, b)
               e == set_tip(L.db, b, h)
    <3>1. PICK g, A, S : BlockEffect(d, b, r.db, g, A, S)
      BY <2>6, BlockIs
    <3>2. AfterEq(g, N, "connect", d, F, h) /\ Folded(d, b, A, S) /\ g[N].tag = "ok"
      BY <3>1 DEF BlockEffect, Looped
    <3>3. Matches(d, b, A, S, H[N], g[N], N)
      BY <2>1, <2>5, <3>2, MatchesAll
    <3>4. r = Ok(r.db)
      BY <2>6, BlockKeeps
    <3> HIDE DEF r, L, N, h
    <3>5. /\ L.tag = "ok" /\ IsDb(L.db) /\ SameData(L.db, g[N].db)
          /\ L.db.utxos = UtxosAt(d, b, A, N) /\ L.db.stxos = S[N]
      BY <2>5, <3>2, <3>3 DEF Matches
    <3>6. e = Ok(e.db) /\ IsDb(e.db) /\ SameData(e.db, L.db) /\ e.db.utxos = L.db.utxos
          /\ e.db.stxos = L.db.stxos /\ e.db.tip = hash(b) /\ e.db.height = h
      BY <3>5 DEF set_tip, Ok, IsDb, DbFields, SameData
    <3> HIDE DEF e
    <3>7. IsDb(r.db) /\ SameData(e.db, r.db) /\ SameRest(e.db, r.db)
      BY <3>1, <3>5, <3>6 DEF BlockEffect, SameData, SameRest, N, h
    <3>8. e.db = r.db
      BY <3>6, <3>7, DbsEqual
    <3>9. connect(d, b) = e
      BY <2>3, <3>5 DEF e
    <3> QED
      BY <3>4, <3>6, <3>8, <3>9 DEF r
  <2>7. CASE apply_block(d, b).tag # "ok"
    <3>1. PICK g : AfterEq(g, N, "connect", d, F, h) /\ l = g[N]
      BY <2>4, ForEachConnect
    <3>2. PICK A : FoldEq(A, N, "utxos", CoinbaseUtxos(b), F, 0)
      BY <2>4, FoldExists
    <3>3. PICK S : FoldEq(S, N, "stxos", d.stxos, F, 0)
      BY <2>4, FoldExists
    <3>4. Matches(d, b, A, S, H[N], g[N], N)
      BY <2>1, <2>5, <3>1, <3>2, <3>3, MatchesAll DEF Folded
    <3> HIDE DEF l, L, N, F, h
    <3>5. l.tag # "ok" /\ apply_block(d, b) = l
      BY <2>2, <2>7 DEF set_tip, Ok
    <3>6. L = l
      BY <2>5, <3>1, <3>4, <3>5 DEF Matches
    <3> QED
      BY <2>3, <3>5, <3>6
  <2> QED
    BY <2>6, <2>7
<1> QED
  BY <1>1, <1>2

\* A sequence of transactions that are offered.
LEMMA BodyIs ==
    ASSUME NEW T, offered \subseteq T, NEW body \in Bodies
    PROVE  body \in Seq(T)
<1>1. PICK n \in 0 .. MaxTxs : body \in [1 .. n -> offered]
  BY DEF Bodies
<1>2. n \in Nat
  BY <1>1, StateBlockAssumption
<1> QED
  BY <1>1, <1>2

\* validate with connect and prevalidate with connect_prevalidated agree on
\* every block that passes validation: the same error, the same panic or the
\* same state, to the last entry.
THEOREM PathsDoAgree ==
    ASSUME AllSpend
    PROVE  Spec /\ []FewNames => []PathsAgree
<1>1. LInv => PathsAgree
  <2> SUFFICES ASSUME LInv, NEW body \in Bodies, ~validate_refused(db, BlockOf(db, body))
               PROVE  connect(db, BlockOf(db, body)) = apply_block(db, BlockOf(db, body))
    BY DEF PathsAgree
  <2>1. PICK s \in Scenario : offered = s.offered /\ Linked(Txs(s))
    BY DEF LInv
  <2> DEFINE T == Txs(s)
             b == BlockOf(db, body)
  <2>2. Typed(T) /\ offered \subseteq T /\ Spending(T) /\ StateOK(T, db)
    BY <2>1, ScenarioTyped DEF AllSpend, Spending, Linked
  <2> HIDE DEF T
  <2>3. body \in Seq(T)
    BY <2>2, BodyIs
  <2>4. BlockOn(T, db, b)
    BY <2>2, <2>3, BlockOfIs
  <2> HIDE DEF b
  <2>5. ~validate_refused(db, b)
    BY DEF b
  <2>6. connect(db, b) = apply_block(db, b)
    BY <2>4, <2>5, BothConnect
  <2> QED
    BY <2>6 DEF b
<1> QED
  BY <1>1, LInvariant, PTL
-----------------------------------------------------------------------------
(***************************************************************************)
(* The numbers of the names: dense, and the two indexes inverse.           *)
(***************************************************************************)
Named(d) ==
    \E n \in Nat :
        /\ DOMAIN d.seq_to_bitasset = 0 .. n - 1
        /\ IsFiniteSet(DOMAIN d.bitassets) /\ Cardinality(DOMAIN d.bitassets) = n
        /\ DOMAIN d.bitasset_to_seq = DOMAIN d.bitassets
        /\ \A x \in DOMAIN d.bitasset_to_seq :
            /\ d.bitasset_to_seq[x] \in DOMAIN d.seq_to_bitasset
            /\ d.seq_to_bitasset[d.bitasset_to_seq[x]] = x

LEMMA NamedStep ==
    ASSUME NEW x, NEW y, NEW f, GrowsNames(x, y, f), SeqOK(x), Few(x), Named(x),
           Is(f, "BitAssetRegistration") => NameOf(f) \notin DOMAIN x.bitassets
    PROVE  Named(y)
<1>1. CASE ~Is(f, "BitAssetRegistration")
  BY <1>1 DEF GrowsNames, Named
<1>2. CASE Is(f, "BitAssetRegistration")
  <2> DEFINE k == NameOf(f)
             s == next_seq(x)
  <2>1. /\ y.seq_to_bitasset = put(x.seq_to_bitasset, s, k)
        /\ y.bitasset_to_seq = put(x.bitasset_to_seq, k, s)
        /\ DOMAIN y.bitassets = DOMAIN x.bitassets \cup {k} /\ k \notin DOMAIN x.bitassets
    BY <1>2 DEF GrowsNames
  <2>2. PICK n \in Nat :
          /\ DOMAIN x.seq_to_bitasset = 0 .. n - 1
          /\ IsFiniteSet(DOMAIN x.bitassets) /\ Cardinality(DOMAIN x.bitassets) = n
          /\ DOMAIN x.bitasset_to_seq = DOMAIN x.bitassets
          /\ \A z \in DOMAIN x.bitasset_to_seq :
              /\ x.bitasset_to_seq[z] \in DOMAIN x.seq_to_bitasset
              /\ x.seq_to_bitasset[x.bitasset_to_seq[z]] = z
    BY DEF Named
  <2>3. s = n
    <3>1. PICK m \in Nat : DOMAIN x.seq_to_bitasset = 0 .. m - 1 /\ s = m
      BY NextSeq
    <3>2. 0 .. m - 1 = 0 .. n - 1
      BY <2>2, <3>1
    <3>3. m = n
      <4>1. CASE m < n
        <5>1. n - 1 \in 0 .. n - 1 /\ ~(n - 1 \in 0 .. m - 1)
          BY <4>1
        <5> QED
          BY <3>2, <5>1
      <4>2. CASE n < m
        <5>1. m - 1 \in 0 .. m - 1 /\ ~(m - 1 \in 0 .. n - 1)
          BY <4>2
        <5> QED
          BY <3>2, <5>1
      <4> QED
        BY <4>1, <4>2
    <3> QED
      BY <3>1, <3>3
  <2> HIDE DEF k, s
  <2>4. DOMAIN y.seq_to_bitasset = 0 .. (n + 1) - 1 /\ n + 1 \in Nat /\ n \notin 0 .. n - 1
    <3>1. DOMAIN y.seq_to_bitasset = (0 .. n - 1) \cup {n}
      BY <2>1, <2>2, <2>3 DEF put
    <3> QED
      BY <3>1
  <2>5. IsFiniteSet(DOMAIN y.bitassets) /\ Cardinality(DOMAIN y.bitassets) = n + 1
    <3> DEFINE X == DOMAIN x.bitassets
    <3>1. DOMAIN y.bitassets = X \cup {k} /\ k \notin X /\ IsFiniteSet(X) /\ Cardinality(X) = n
      BY <2>1, <2>2 DEF put
    <3> HIDE DEF X
    <3>2. IsFiniteSet(X \cup {k}) /\ Cardinality(X \cup {k}) = Cardinality(X) + 1
      BY <3>1, FS_AddElement
    <3> QED
      BY <3>1, <3>2
  <2>6. DOMAIN y.bitasset_to_seq = DOMAIN y.bitassets
    BY <2>1, <2>2 DEF put
  <2>7. ASSUME NEW z \in DOMAIN y.bitasset_to_seq
        PROVE  /\ y.bitasset_to_seq[z] \in DOMAIN y.seq_to_bitasset
               /\ y.seq_to_bitasset[y.bitasset_to_seq[z]] = z
    <3>1. CASE z = k
      BY <2>1, <3>1 DEF put
    <3>2. CASE z # k
      <4>1. z \in DOMAIN x.bitasset_to_seq /\ y.bitasset_to_seq[z] = x.bitasset_to_seq[z]
        BY <2>1, <3>2 DEF put
      <4>2. x.bitasset_to_seq[z] # s
        BY <2>2, <2>3, <2>4, <4>1
      <4> QED
        BY <2>1, <2>2, <4>1, <4>2 DEF put
    <3> QED
      BY <3>1, <3>2
  <2> QED
    BY <2>4, <2>5, <2>6, <2>7 DEF Named
<1> QED
  BY <1>1, <1>2

\* The names after a block that registers none twice.
LEMMA BlockNamed ==
    ASSUME NEW T, NEW d, NEW b, BlockOn(T, d, b), apply_block(d, b).tag = "ok",
           ~RegistersTwice(b), Few(apply_block(d, b).db), Few(d) => Named(d)
    PROVE  Few(d) /\ Named(apply_block(d, b).db)
<1> DEFINE e == apply_block(d, b).db
           N == Len(b.txs)
<1>1. Valid(T, d, b) /\ \E g, A, S : BlockEffect(d, b, e, g, A, S)
  BY BlockIs
<1>2. PICK g, A, S : BlockEffect(d, b, e, g, A, S)
  BY <1>1
<1> HIDE DEF e
<1>3. Looped(d, b, g, N) /\ SameData(e, g[N].db)
  BY <1>2 DEF BlockEffect
<1>4. Few(g[N].db)
  BY <1>3 DEF SameData, Few, e
<1>5. \A n \in 0 .. N : Few(g[n].db)
  BY <1>1, <1>3, <1>4, LoopedFew
<1>6. \A n \in 0 .. N : LoopedAt(T, d, b, g[n].db, n)
  BY <1>1, <1>3, LoopedIs
<1>0. N \in Nat
  BY <1>1, ValidTxs
<1>7. g[0].db = d
  BY <1>0, <1>3 DEF Looped, AfterEq, Ok
<1>8. Few(d)
  BY <1>0, <1>5, <1>7
<1> DEFINE B == {n \in 0 .. N : ~Named(g[n].db)}
<1>9. B = {}
  <2> SUFFICES ASSUME B # {} PROVE FALSE
    OBVIOUS
  <2>1. PICK n \in 1 .. N : n \in B /\ n - 1 \in 0 .. N /\ n - 1 \notin B
    <3>1. B \subseteq 0 .. N /\ 0 \notin B
      BY <1>7, <1>8
    <3> HIDE DEF B, N
    <3> QED
      BY <1>0, <3>1, FirstIndex
  <2> DEFINE f == FilledSeq(d, b.txs)[n]
             x == g[n - 1].db
             h == next_height(d)
  <2>2. Named(x) /\ Few(x) /\ LoopedAt(T, d, b, x, n - 1)
    BY <1>5, <1>6, <2>1
  <2>3. apply_data(x, f, h) = g[n] /\ g[n].tag = "ok"
    BY <1>1, <1>3, LoopedNext
  <2>4. FilledOf(T, f) /\ f.data = b.txs[n].data
    BY <1>1, ValidFilled
  <2>5. Is(f, "BitAssetRegistration") => NewName(x, f)
    BY <1>1, <2>2, <2>4, NameIsNew DEF Is
  <2> HIDE DEF f, x, h
  <2>6. GrowsNames(x, g[n].db, f)
    <3>1. Grows(x, apply_data(x, f, h).db, f)
      BY <2>2, <2>3, <2>4, GrowsData DEF LoopedAt
    <3> QED
      BY <2>3, <3>1 DEF Grows
  <2>7. Named(g[n].db)
    BY <2>2, <2>5, <2>6, NamedStep DEF LoopedAt, NewName, NameOf
  <2> QED
    BY <2>1, <2>7
<1>10. Named(g[N].db)
  BY <1>0, <1>9
<1>11. Named(e)
  BY <1>3, <1>10 DEF SameData, Named
<1> QED
  BY <1>8, <1>11 DEF e

LEMMA PrefixNamed ==
    ASSUME NEW T, Typed(T), Spending(T), NEW d, StateOK(T, d), Few(d) => Named(d),
           NEW bodies \in Seq(Seq(T)),
           \A i \in 1 .. Len(bodies) : ~RegistersTwice([txs |-> bodies[i]])
    PROVE  Few(ConnectAll(d, bodies)) => Named(ConnectAll(d, bodies))
<1> DEFINE N == Len(bodies)
           Good(e) == StateOK(T, e) /\ (Few(e) => Named(e))
<1>1. N \in Nat /\ \A n \in 1 .. N : bodies[n] \in Seq(T)
  OBVIOUS
<1>2. PICK g : AfterEq(g, N, "prefix", d, bodies, 0) /\ ConnectAll(d, bodies) = g[N].db
  BY <1>1, ForEachPrefix
<1>9. \A i \in 1 .. N : ~RegistersTwice([txs |-> bodies[i]])
  OBVIOUS
<1> HIDE DEF N
<1> DEFINE B == {n \in 0 .. N : ~(g[n].tag = "ok" /\ Good(g[n].db))}
<1>3. B = {}
  <2> SUFFICES ASSUME B # {} PROVE FALSE
    OBVIOUS
  <2>1. g[0] = Ok(d)
    BY <1>1, <1>2 DEF AfterEq
  <2>2. PICK n \in 1 .. N : n \in B /\ n - 1 \in 0 .. N /\ n - 1 \notin B
    <3>1. B \subseteq 0 .. N /\ 0 \notin B
      BY <2>1 DEF Ok
    <3> HIDE DEF B
    <3> QED
      BY <1>1, <3>1, FirstIndex
  <2> DEFINE y == g[n - 1].db
             b == BlockOf(y, bodies[n])
             r == apply_block(y, b)
  <2>3. g[n - 1].tag = "ok" /\ Good(y)
    BY <2>2
  <2>4. g[n] = ConnectBody(y, bodies[n])
    <3>1. n \in 0 .. N /\ n # 0
      BY <1>1
    <3>2. g[n] = StepFrom("prefix", g[n - 1], bodies[n], 0)
      BY <1>2, <3>1 DEF AfterEq
    <3> QED
      BY <2>3, <3>2 DEF StepFrom, Step
  <2>5. g[n] = IF r.tag = "ok" THEN r ELSE Ok(y)
    BY <2>4 DEF ConnectBody
  <2>6. ~RegistersTwice(b)
    <3>1. b.txs = bodies[n]
      BY DEF BlockOf
    <3> QED
      BY <1>9, <3>1 DEF RegistersTwice
  <2> HIDE DEF y
  <2>7. BlockOn(T, y, b)
    BY <1>1, <2>3, BlockOfIs
  <2> HIDE DEF b
  <2>8. r.tag = "ok" => Good(r.db)
    BY <2>3, <2>6, <2>7, BlockKeeps, BlockNamed
  <2> HIDE DEF r
  <2>9. g[n].tag = "ok" /\ Good(g[n].db)
    BY <2>3, <2>5, <2>8 DEF Ok
  <2> QED
    BY <2>2, <2>9
<1> QED
  BY <1>1, <1>2, <1>3

-----------------------------------------------------------------------------
(***************************************************************************)
(* The state at the bottom of the chain is always the same.                *)
(***************************************************************************)
First == IF chain = <<>> THEN db ELSE chain[1].before

LEMMA DisconnectIs ==
    ASSUME AllSpend, LInv, FewNames, Disconnect
    PROVE  db' = Last(chain).before
<1>1. PICK s \in Scenario : offered = s.offered /\ Linked(Txs(s))
  BY DEF LInv
<1> DEFINE T == Txs(s)
           b == Last(chain).block
<1>2. Typed(T)
  BY <1>1, ScenarioTyped
<1>3. chain # <<>> /\ disconnect_tip(db, b).tag = "ok" /\ db' = disconnect_tip(db, b).db
  BY DEF Disconnect
<1> HIDE DEF T
<1>4. BlockOn(T, Last(chain).before, b)
  BY <1>1, <1>3, TipIs DEF T
<1>5. ~RegistersTwice(b)
  <2>1. DOMAIN db = DbFields
    BY <1>1 DEF Linked, StateOK, DataOK, IsDb
  <2>2. b.txs \in Seq(T)
    BY <1>4 DEF BlockOn
  <2> HIDE DEF b
  <2> QED
    BY <1>2, <1>3, <2>1, <2>2, TwiceNotUndone
<1>6. disconnect_tip(db, b) = Ok(Last(chain).before)
  BY <1>1, <1>3, <1>5, UndoneIs DEF FewNames
<1> QED
  BY <1>3, <1>6 DEF Ok

LEMMA FirstKept ==
    ASSUME AllSpend, LInv, FewNames, [Next]_vars
    PROVE  First' = First
<1>1. PICK S : chain \in Seq(S)
  BY DEF LInv, Linked
<1>2. ASSUME NEW body \in Bodies, Connect(body)
      PROVE  First' = First
  <2> DEFINE c == [block |-> BlockOf(db, body), before |-> db]
  <2>1. chain' = Append(chain, c) /\ c.before = db
    BY <1>2 DEF Connect
  <2> HIDE DEF c
  <2>2. chain' # <<>> /\ Len(chain) \in Nat /\ chain'[Len(chain) + 1] = c
        /\ \A i \in 1 .. Len(chain) : chain'[i] = chain[i]
    BY <1>1, <2>1
  <2>3. CASE chain = <<>>
    BY <2>1, <2>2, <2>3 DEF First
  <2>4. CASE chain # <<>>
    <3>1. 1 \in 1 .. Len(chain)
      BY <1>1, <2>4
    <3> QED
      BY <2>2, <2>4, <3>1 DEF First
  <2> QED
    BY <2>3, <2>4
<1>3. ASSUME Disconnect PROVE First' = First
  <2>1. db' = Last(chain).before /\ chain # <<>> /\ chain' = Front(chain)
    BY <1>3, DisconnectIs DEF Disconnect
  <2>2. Len(chain) \in Nat /\ Len(chain) >= 1 /\ Last(chain) = chain[Len(chain)]
    BY <1>1, <2>1 DEF Last
  <2>3. chain' \in Seq(S) /\ Len(chain') = Len(chain) - 1
        /\ \A i \in 1 .. Len(chain) - 1 : chain'[i] = chain[i]
    BY <1>1, <2>1, <2>2, FrontIs
  <2>4. CASE Len(chain) = 1
    <3>1. chain' = <<>>
      BY <2>3, <2>4
    <3> QED
      BY <2>1, <2>2, <2>4, <3>1 DEF First
  <2>5. CASE Len(chain) # 1
    <3>1. 1 \in 1 .. Len(chain) - 1 /\ chain' # <<>>
      BY <2>2, <2>3, <2>5
    <3> QED
      BY <2>1, <2>3, <3>1 DEF First
  <2> QED
    BY <2>4, <2>5
<1>4. CASE UNCHANGED vars
  BY <1>4 DEF vars, First
<1> QED
  BY <1>2, <1>3, <1>4 DEF Next

\* The i-th block connects the state after the block before it.
LEMMA LinkIs ==
    ASSUME NEW T, Linked(T), NEW i \in 1 .. Len(chain)
    PROVE  /\ BlockOn(T, After(i - 1), chain[i].block)
           /\ apply_block(After(i - 1), chain[i].block) = Ok(After(i))
           /\ chain[i].before = After(i - 1)
           /\ i \in DOMAIN chain
<1>1. PICK S : chain \in Seq(S)
  BY DEF Linked
<1>2. i - 1 # Len(chain) /\ (i - 1) + 1 = i /\ i \in DOMAIN chain
  BY <1>1
<1>3. chain[i].before = After(i - 1)
  BY <1>2 DEF After
<1> QED
  BY <1>2, <1>3 DEF Linked

LEMMA FirstIs ==
    ASSUME NEW T, Linked(T)
    PROVE  First = After(0) /\ Len(chain) \in Nat /\ db = After(Len(chain))
<1>1. PICK S : chain \in Seq(S)
  BY DEF Linked
<1>2. Len(chain) \in Nat /\ (chain = <<>> <=> Len(chain) = 0) /\ 0 + 1 = 1
  BY <1>1
<1> QED
  BY <1>2 DEF First, After

LEMMA ChainNamed ==
    ASSUME NEW T, Linked(T), Few(First) => Named(First), RegisteredOnce, Few(db)
    PROVE  Named(db)
<1> DEFINE N == Len(chain)
           Good(i) == Few(After(i)) => Named(After(i))
           B == {i \in 0 .. N : ~Good(i)}
<1>1. N \in Nat /\ Good(0) /\ db = After(N)
  BY FirstIs
<1>2. B = {}
  <2> SUFFICES ASSUME B # {} PROVE FALSE
    OBVIOUS
  <2>1. PICK i \in 1 .. N : i \in B /\ i - 1 \in 0 .. N /\ i - 1 \notin B
    <3>1. B \subseteq 0 .. N /\ 0 \notin B
      BY <1>1
    <3> HIDE DEF B, N
    <3> QED
      BY <1>1, <3>1, FirstIndex
  <2> DEFINE d == After(i - 1)
             b == chain[i].block
  <2>2. BlockOn(T, d, b) /\ apply_block(d, b) = Ok(After(i)) /\ ~RegistersTwice(b)
    BY LinkIs DEF RegisteredOnce
  <2>3. Few(d) => Named(d)
    BY <2>1
  <2> HIDE DEF d, b
  <2>4. apply_block(d, b).tag = "ok" /\ apply_block(d, b).db = After(i)
    BY <2>2 DEF Ok
  <2>5. Good(i)
    BY <2>2, <2>3, <2>4, BlockNamed
  <2> QED
    BY <2>1, <2>5
<1> QED
  BY <1>1, <1>2

FirstNamed == Few(First) => Named(First)

LEMMA FirstNamedInit ==
    ASSUME AllSpend, PrefixOnce, Init
    PROVE  FirstNamed
<1>1. PICK s \in Scenario : /\ offered = s.offered
                            /\ db = ConnectAll([EmptyDb EXCEPT !.utxos = s.utxos], s.prefix)
                            /\ chain = <<>>
  BY DEF Init
<1> DEFINE T == Txs(s)
           e == [EmptyDb EXCEPT !.utxos = s.utxos]
<1>2. Typed(T) /\ s.prefix \in Seq(Seq(T)) /\ Deposits(s.utxos) /\ Spending(T)
  BY ScenarioTyped, StateBlockAssumption DEF AllSpend, Spending
<1>3. StateOK(T, e)
  BY <1>2, FirstState
<1>4. Named(e)
  <2>1. e.seq_to_bitasset = <<>> /\ e.bitassets = <<>> /\ e.bitasset_to_seq = <<>>
    BY DEF EmptyDb
  <2>2. DOMAIN <<>> = {} /\ 0 .. 0 - 1 = {} /\ 0 \in Nat
    OBVIOUS
  <2>3. IsFiniteSet({}) /\ Cardinality({}) = 0
    BY FS_EmptySet
  <2> HIDE DEF e
  <2> QED
    BY <2>1, <2>2, <2>3 DEF Named
<1>5. \A i \in 1 .. Len(s.prefix) : ~RegistersTwice([txs |-> s.prefix[i]])
  <2>1. DOMAIN s.prefix = 1 .. Len(s.prefix)
    BY <1>2
  <2> QED
    BY <2>1 DEF PrefixOnce
<1> HIDE DEF T, e
<1>6. Few(db) => Named(db)
  BY <1>1, <1>2, <1>3, <1>4, <1>5, PrefixNamed DEF e
<1> QED
  BY <1>1, <1>6 DEF FirstNamed, First

\* The numbers of the names are dense and the two indexes inverse to each
\* other, along every chain without a block that registers a name twice.
THEOREM SeqIsExact ==
    ASSUME AllSpend, PrefixOnce
    PROVE  Spec /\ []FewNames => []SeqExact
<1>1. Init => FirstNamed
  BY FirstNamedInit
<1>2. FirstNamed /\ LInv /\ FewNames /\ [Next]_vars => FirstNamed'
  <2> SUFFICES ASSUME FirstNamed, LInv, FewNames, [Next]_vars PROVE FirstNamed'
    OBVIOUS
  <2>1. First' = First
    BY FirstKept
  <2> QED
    BY <2>1 DEF FirstNamed
<1>3. FirstNamed /\ LInv /\ FewNames => SeqExact
  <2> SUFFICES ASSUME FirstNamed, LInv, FewNames, RegisteredOnce PROVE SeqExact
    BY DEF SeqExact
  <2>1. PICK s \in Scenario : Linked(Txs(s))
    BY DEF LInv
  <2>2. Named(db)
    BY <2>1, ChainNamed DEF FirstNamed, FewNames
  <2> QED
    BY <2>2 DEF Named, SeqExact
<1> QED
  BY <1>1, <1>2, <1>3, LInvariant, PTL DEF Spec
-----------------------------------------------------------------------------
(***************************************************************************)
(* The histories of BitAssets: what a transaction at height h pushes.      *)
(***************************************************************************)
Pushed(r, q, h) == q = r \/ \E v, txid : q = push_stamped(r, v, txid, h)

HistoryStep(x, y, f, h) ==
    /\ DOMAIN x.bitassets \subseteq DOMAIN y.bitassets
    /\ \A k \in DOMAIN y.bitassets : \A z \in Field :
        IF Is(f, "BitAssetRegistration") /\ k = NameOf(f)
        THEN \E v, txid : y.bitassets[k].fields[z] = new_history(v, txid, h)
        ELSE /\ k \in DOMAIN x.bitassets
             /\ Pushed(x.bitassets[k].fields[z], y.bitassets[k].fields[z], h)

LEMMA HistorySame ==
    ASSUME NEW x, NEW y, NEW f, NEW h, ~Is(f, "BitAssetRegistration"), y.bitassets = x.bitassets
    PROVE  HistoryStep(x, y, f, h)
  BY DEF HistoryStep, Pushed

LEMMA PutPoolNames ==
    ASSUME NEW x, DataOK(x), NEW pair, NEW q
    PROVE  PutPool(x, pair, q).bitassets = x.bitassets
  BY DEF PutPool, DataOK, IsDb, DbFields

LEMMA PutAuctionNames ==
    ASSUME NEW x, DataOK(x), NEW id, NEW a
    PROVE  PutAuction(x, id, a).bitassets = x.bitassets
  BY DEF PutAuction, DataOK, IsDb, DbFields

LEMMA HistoryRegister ==
    ASSUME NEW x, DataOK(x), NEW f, Is(f, "BitAssetRegistration"), NEW h
    PROVE  HistoryStep(x, apply_registration(x, f, h), f, h)
<1> DEFINE y == apply_registration(x, f, h)
           k == NameOf(f)
           a == init_data(f.data.bitasset_data, f.data.initial_supply, f.txid, h)
<1>1. y.bitassets = put(x.bitassets, k, a)
  BY DEF apply_registration, DataOK, IsDb, DbFields, NameOf
<1>2. \A z \in Field : a.fields[z] = new_history(f.data.bitasset_data[z], f.txid, h)
  BY DEF init_data
<1> HIDE DEF y, a
<1>3. HistoryStep(x, y, f, h)
  BY <1>1, <1>2 DEF HistoryStep, put, Pushed
<1> QED
  BY <1>3 DEF y

LEMMA HistoryMint ==
    ASSUME NEW x, DataOK(x), NEW f, ~Is(f, "BitAssetRegistration"), NEW h,
           ~mint_refused_of(x, f)
    PROVE  HistoryStep(x, apply_mint(x, f, h), f, h)
<1> DEFINE y == apply_mint(x, f, h)
           k == minted_bitasset(f)
<1>1. k \in DOMAIN x.bitassets
  BY DEF mint_refused_of, Has
<1>2. /\ IsFun(x.bitassets) /\ IsDb(x)
      /\ \A j \in DOMAIN x.bitassets : IsFun(x.bitassets[j])
                                       /\ DOMAIN x.bitassets[j] = {"fields", "total_supply"}
  BY DEF DataOK, BitAssetOK
<1>3. /\ DOMAIN y.bitassets = DOMAIN x.bitassets
      /\ \A j \in DOMAIN x.bitassets : y.bitassets[j].fields = x.bitassets[j].fields
  BY <1>1, <1>2 DEF apply_mint, IsDb, DbFields, IsFun
<1> HIDE DEF y
<1>4. HistoryStep(x, y, f, h)
  BY <1>3 DEF HistoryStep, Pushed
<1> QED
  BY <1>4 DEF y

LEMMA HistoryUpdate ==
    ASSUME NEW x, DataOK(x), NEW f, ~Is(f, "BitAssetRegistration"), NEW h,
           ~update_refused(x, f),
           \A z \in Field : f.data.updates[z].op \in {"Retain", "Delete", "Set"}
    PROVE  HistoryStep(x, apply_updates(x, f, h), f, h)
<1> DEFINE y == apply_updates(x, f, h)
           k == updated_bitasset(f)
           U(z) == apply_field_update(x.bitassets[k].fields[z], f.data.updates[z], f.txid, h)
<1>1. k \in DOMAIN x.bitassets
  BY DEF update_refused, Has
<1>2. /\ IsFun(x.bitassets) /\ IsDb(x)
      /\ \A j \in DOMAIN x.bitassets : IsFun(x.bitassets[j])
                                       /\ DOMAIN x.bitassets[j] = {"fields", "total_supply"}
  BY DEF DataOK, BitAssetOK
<1>3. /\ DOMAIN y.bitassets = DOMAIN x.bitassets
      /\ \A j \in DOMAIN x.bitassets \ {k} : y.bitassets[j].fields = x.bitassets[j].fields
      /\ y.bitassets[k].fields = [z \in Field |-> U(z)]
  BY <1>1, <1>2 DEF apply_updates, IsDb, DbFields, IsFun
<1>4. \A z \in Field : Pushed(x.bitassets[k].fields[z], U(z), h)
  BY DEF apply_field_update, Pushed
<1> HIDE DEF y, U, k
<1>5. \A z \in Field : y.bitassets[k].fields[z] = U(z)
  BY <1>3
<1>6. HistoryStep(x, y, f, h)
  BY <1>3, <1>4, <1>5 DEF HistoryStep, Pushed
<1> QED
  BY <1>6 DEF y

LEMMA HistoryData ==
    ASSUME NEW x, DataOK(x), NEW T, NEW f, FilledOf(T, f), NEW h,
           apply_data(x, f, h).tag = "ok"
    PROVE  HistoryStep(x, apply_data(x, f, h).db, f, h)
<1> DEFINE r == apply_data(x, f, h)
<1>0. f.data.kind \in DataKinds
  BY AmountsTyped
<1>1. CASE Is(f, "Regular")
  <2>1. r = Ok(x) /\ ~Is(f, "BitAssetRegistration")
    BY <1>1 DEF apply_data, Is
  <2> QED
    BY <2>1, HistorySame DEF Ok
<1>2. CASE Is(f, "AmmBurn")
  <2>1. r = apply_amm_burn(x, f) /\ ~Is(f, "BitAssetRegistration")
    BY <1>2 DEF apply_data, Is
  <2>2. \E pair, q : apply_amm_burn(x, f).db = PutPool(x, pair, q)
    BY <2>1 DEF apply_amm_burn, Guarded, Ok, Err, Panic
  <2> QED
    BY <2>1, <2>2, PutPoolNames, HistorySame
<1>3. CASE Is(f, "AmmMint")
  <2>1. r = apply_amm_mint(x, f) /\ ~Is(f, "BitAssetRegistration")
    BY <1>3 DEF apply_data, Is
  <2>2. \E pair, q : apply_amm_mint(x, f).db = PutPool(x, pair, q)
    BY <2>1 DEF apply_amm_mint, Guarded, Ok, Err, Panic
  <2> QED
    BY <2>1, <2>2, PutPoolNames, HistorySame
<1>4. CASE Is(f, "AmmSwap")
  <2>1. r = apply_amm_swap(x, f) /\ ~Is(f, "BitAssetRegistration")
    BY <1>4 DEF apply_data, Is
  <2>2. \E pair, q : apply_amm_swap(x, f).db = PutPool(x, pair, q)
    BY <2>1 DEF apply_amm_swap, Guarded, Ok, Err, Panic
  <2> QED
    BY <2>1, <2>2, PutPoolNames, HistorySame
<1>5. CASE Is(f, "BitAssetReservation")
  <2>1. r = Ok(Reserve(x, f)) /\ ~Is(f, "BitAssetRegistration")
    BY <1>5 DEF apply_data, Is, Reserve
  <2>2. Reserve(x, f).bitassets = x.bitassets
    BY DEF Reserve, DataOK, IsDb, DbFields
  <2> HIDE DEF r
  <2>3. r.db.bitassets = x.bitassets
    BY <2>1, <2>2 DEF Ok
  <2> QED
    BY <2>1, <2>3, HistorySame DEF r
<1>6. CASE Is(f, "BitAssetRegistration")
  <2>1. r.db = apply_registration(x, f, h)
    BY <1>6 DEF apply_data, Is, Guarded, Ok, Err, Panic
  <2> QED
    BY <1>6, <2>1, HistoryRegister
<1>7. CASE Is(f, "BitAssetMint")
  <2>1. ~mint_refused_of(x, f) /\ r.db = apply_mint(x, f, h) /\ ~Is(f, "BitAssetRegistration")
    BY <1>7 DEF apply_data, Is, Guarded, Ok, Err, Panic
  <2> QED
    BY <2>1, HistoryMint
<1>8. CASE Is(f, "BitAssetUpdate")
  <2>1. ~update_refused(x, f) /\ r.db = apply_updates(x, f, h) /\ ~Is(f, "BitAssetRegistration")
    BY <1>8 DEF apply_data, Is, Guarded, Ok, Err, Panic
  <2>2. \A z \in Field : f.data.updates[z].op \in {"Retain", "Delete", "Set"}
    BY <1>8, MoreTyped
  <2> QED
    BY <2>1, <2>2, HistoryUpdate
<1>9. CASE Is(f, "DutchAuctionCreate")
  <2>1. r = apply_auction_create(x, f, h) /\ ~Is(f, "BitAssetRegistration")
    BY <1>9 DEF apply_data, Is
  <2>2. \E id, a : apply_auction_create(x, f, h).db = PutAuction(x, id, a)
    BY <2>1 DEF apply_auction_create, Guarded, Ok, Err, Panic
  <2> QED
    BY <2>1, <2>2, PutAuctionNames, HistorySame
<1>10. CASE Is(f, "DutchAuctionBid")
  <2>1. r = apply_auction_bid(x, f, h) /\ ~Is(f, "BitAssetRegistration")
    BY <1>10 DEF apply_data, Is
  <2>2. \E id, a : apply_auction_bid(x, f, h).db = PutAuction(x, id, a)
    BY <2>1 DEF apply_auction_bid, Guarded, Ok, Err, Panic
  <2> QED
    BY <2>1, <2>2, PutAuctionNames, HistorySame
<1>11. CASE Is(f, "DutchAuctionCollect")
  <2>1. r = apply_auction_collect(x, f, h) /\ ~Is(f, "BitAssetRegistration")
    BY <1>11 DEF apply_data, Is
  <2>2. \E id, a : apply_auction_collect(x, f, h).db = PutAuction(x, id, a)
    BY <2>1 DEF apply_auction_collect, Guarded, Ok, Err, Panic
  <2> QED
    BY <2>1, <2>2, PutAuctionNames, HistorySame
<1> QED
  BY <1>0, <1>1, <1>2, <1>3, <1>4, <1>5, <1>6, <1>7, <1>8, <1>9, <1>10, <1>11 DEF DataKinds, Is

-----------------------------------------------------------------------------
\* q is r, with entries above the height t after it.
Longer(r, q, t) ==
    /\ DOMAIN r \subseteq DOMAIN q
    /\ \A i \in DOMAIN r : q[i] = r[i]
    /\ \A i \in DOMAIN q \ DOMAIN r : q[i].height > t /\ \A j \in DOMAIN r : j < i

\* The entries of y that are not in d came after the height t.
Since(d, t, y) ==
    /\ DOMAIN d.bitassets \subseteq DOMAIN y.bitassets
    /\ \A k \in DOMAIN y.bitassets : \A z \in Field :
        IF k \in DOMAIN d.bitassets
        THEN Longer(d.bitassets[k].fields[z], y.bitassets[k].fields[z], t)
        ELSE \A i \in DOMAIN y.bitassets[k].fields[z] : y.bitassets[k].fields[z][i].height > t

\* No entry of y is above the height h.
Below(y, h) ==
    \A k \in DOMAIN y.bitassets : \A z \in Field :
        \A i \in DOMAIN y.bitassets[k].fields[z] :
            y.bitassets[k].fields[z][i].height \in Int /\ y.bitassets[k].fields[z][i].height <= h

LEMMA PushedIs ==
    ASSUME NEW r, History(r), NEW q, NEW h, Pushed(r, q, h)
    PROVE  /\ DOMAIN r \subseteq DOMAIN q /\ DOMAIN r \subseteq Nat
           /\ \A i \in DOMAIN r : q[i] = r[i]
           /\ \A i \in DOMAIN q \ DOMAIN r :
                q[i].height = h /\ i \in Nat /\ \A j \in DOMAIN r : j < i
<1>0. PICK S : r \in Seq(S) /\ r # <<>>
  BY DEF History
<1>1. CASE q = r
  BY <1>0, <1>1
<1>2. CASE q # r
  <2>1. PICK v, txid : q = push_stamped(r, v, txid, h)
    BY <1>2 DEF Pushed
  <2> DEFINE e == stamp(v, txid, h)
  <2>2. q = Append(r, e)
    BY <2>1 DEF push_stamped
  <2>3. e.height = h
    BY DEF stamp
  <2> HIDE DEF e
  <2>4. /\ DOMAIN r = 1 .. Len(r) /\ Len(r) \in Nat /\ DOMAIN q = 1 .. Len(r) + 1
        /\ q[Len(r) + 1] = e /\ \A i \in 1 .. Len(r) : q[i] = r[i]
    BY <1>0, <2>2
  <2>5. \A i \in DOMAIN q \ DOMAIN r : i = Len(r) + 1
    BY <2>4
  <2> QED
    BY <2>3, <2>4, <2>5
<1> QED
  BY <1>1, <1>2

LEMMA LongerStep ==
    ASSUME NEW p, NEW r, History(r), NEW q, NEW t \in Int, NEW h \in Int, h > t,
           Longer(p, r, t), Pushed(r, q, h)
    PROVE  Longer(p, q, t)
<1>1. /\ DOMAIN r \subseteq DOMAIN q /\ DOMAIN r \subseteq Nat
      /\ \A i \in DOMAIN r : q[i] = r[i]
      /\ \A i \in DOMAIN q \ DOMAIN r :
           q[i].height = h /\ i \in Nat /\ \A j \in DOMAIN r : j < i
  BY PushedIs
<1> QED
  BY <1>1 DEF Longer

LEMMA NewHistoryIs ==
    ASSUME NEW v, NEW txid, NEW h, NEW i \in DOMAIN new_history(v, txid, h)
    PROVE  new_history(v, txid, h)[i].height = h
<1>1. i = 1
  BY DEF new_history
<1> QED
  BY <1>1 DEF new_history, stamp

Later(h, t) == t \in Int /\ h \in Int /\ h > t

LEMMA SinceStep ==
    ASSUME NEW d, NEW t, NEW h, Later(h, t), NEW x, DataOK(x), NEW y, NEW f,
           HistoryStep(x, y, f, h), Since(d, t, x), Below(x, h),
           Is(f, "BitAssetRegistration") => NameOf(f) \notin DOMAIN d.bitassets
    PROVE  Since(d, t, y) /\ Below(y, h)
<1>0. t \in Int /\ h \in Int /\ h > t
  BY DEF Later
<1>1. DOMAIN d.bitassets \subseteq DOMAIN y.bitassets
  BY DEF HistoryStep, Since
<1>2. ASSUME NEW k \in DOMAIN y.bitassets, NEW z \in Field
      PROVE  /\ IF k \in DOMAIN d.bitassets
                THEN Longer(d.bitassets[k].fields[z], y.bitassets[k].fields[z], t)
                ELSE \A i \in DOMAIN y.bitassets[k].fields[z] : y.bitassets[k].fields[z][i].height > t
             /\ \A i \in DOMAIN y.bitassets[k].fields[z] :
                  /\ y.bitassets[k].fields[z][i].height \in Int
                  /\ y.bitassets[k].fields[z][i].height <= h
  <2> DEFINE q == y.bitassets[k].fields[z]
             r == x.bitassets[k].fields[z]
  <2>1. CASE Is(f, "BitAssetRegistration") /\ k = NameOf(f)
    <3>1. PICK v, txid : q = new_history(v, txid, h)
      BY <1>2, <2>1 DEF HistoryStep
    <3> HIDE DEF q
    <3>2. \A i \in DOMAIN q : q[i].height = h
      BY <3>1, NewHistoryIs
    <3> QED
      BY <1>0, <2>1, <3>2 DEF q
  <2>2. CASE ~(Is(f, "BitAssetRegistration") /\ k = NameOf(f))
    <3>1. k \in DOMAIN x.bitassets /\ Pushed(r, q, h)
      BY <1>2, <2>2 DEF HistoryStep
    <3>2. History(r)
      BY <1>2, <3>1 DEF DataOK, BitAssetOK
    <3>3. \A i \in DOMAIN r : r[i].height \in Int /\ r[i].height <= h
      BY <1>2, <3>1 DEF Below
    <3>4. IF k \in DOMAIN d.bitassets THEN Longer(d.bitassets[k].fields[z], r, t)
          ELSE \A i \in DOMAIN r : r[i].height > t
      BY <1>2, <3>1 DEF Since
    <3> HIDE DEF q, r
    <3>5. /\ \A i \in DOMAIN r : q[i] = r[i]
          /\ \A i \in DOMAIN q \ DOMAIN r : q[i].height = h
      BY <3>1, <3>2, PushedIs
    <3>6. \A i \in DOMAIN q : q[i].height \in Int /\ q[i].height <= h
      BY <1>0, <3>3, <3>5
    <3>7. k \in DOMAIN d.bitassets => Longer(d.bitassets[k].fields[z], q, t)
      BY <1>0, <3>1, <3>2, <3>4, LongerStep
    <3>8. k \notin DOMAIN d.bitassets => \A i \in DOMAIN q : q[i].height > t
      BY <1>0, <3>3, <3>4, <3>5
    <3> QED
      BY <3>6, <3>7, <3>8 DEF q
  <2> QED
    BY <2>1, <2>2
<1> QED
  BY <1>1, <1>2 DEF Since, Below

\* A block keeps the histories and writes at its own height.
LEMMA BlockSince ==
    ASSUME NEW T, NEW d, NEW b, BlockOn(T, d, b), apply_block(d, b).tag = "ok",
           NEW D, NEW t \in Int, t <= d.height, Since(D, t, d), Below(d, d.height)
    PROVE  LET e == apply_block(d, b).db
           IN  e.height = d.height + 1 /\ Since(D, t, e) /\ Below(e, e.height)
<1> DEFINE e == apply_block(d, b).db
           N == Len(b.txs)
           h == next_height(d)
<1>1. Valid(T, d, b) /\ \E g, A, S : BlockEffect(d, b, e, g, A, S)
  BY BlockIs
<1>2. PICK g, A, S : BlockEffect(d, b, e, g, A, S)
  BY <1>1
<1> HIDE DEF e
<1>3. Looped(d, b, g, N) /\ SameData(e, g[N].db) /\ e.height = h
  BY <1>2 DEF BlockEffect
<1>4. d.height \in Int /\ h = d.height + 1 /\ h \in Int /\ h > t
  BY <1>1 DEF Valid, StateOK, TipOK, next_height
<1>5. \A n \in 0 .. N : LoopedAt(T, d, b, g[n].db, n)
  BY <1>1, <1>3, LoopedIs
<1>6. N \in Nat
  BY <1>1, ValidTxs
<1>7. g[0].db = d
  BY <1>3, <1>6 DEF Looped, AfterEq, Ok
<1> HIDE DEF h
<1>8. Below(d, h)
  <2>1. \A i \in Int : i <= d.height => i <= h
    BY <1>4
  <2> QED
    BY <2>1 DEF Below
<1> DEFINE Good(n) == Since(D, t, g[n].db) /\ Below(g[n].db, h)
           B == {n \in 0 .. N : ~Good(n)}
<1>9. B = {}
  <2> SUFFICES ASSUME B # {} PROVE FALSE
    OBVIOUS
  <2>1. PICK n \in 1 .. N : n \in B /\ n - 1 \in 0 .. N /\ n - 1 \notin B
    <3>1. B \subseteq 0 .. N /\ 0 \notin B
      BY <1>7, <1>8
    <3> HIDE DEF B, N
    <3> QED
      BY <1>6, <3>1, FirstIndex
  <2> DEFINE f == FilledSeq(d, b.txs)[n]
             x == g[n - 1].db
  <2>2. Since(D, t, x) /\ Below(x, h) /\ DataOK(x)
    BY <1>5, <2>1 DEF LoopedAt
  <2>3. apply_data(x, f, h) = g[n] /\ g[n].tag = "ok"
    BY <1>1, <1>3, LoopedNext DEF h
  <2>4. FilledOf(T, f) /\ ~validate_filled_transaction_refused(d, f)
    BY <1>1, ValidFilled
  <2> HIDE DEF f, x
  <2>5. Is(f, "BitAssetRegistration") => NameOf(f) \notin DOMAIN D.bitassets
    <3>1. Is(f, "BitAssetRegistration") => NameOf(f) \notin DOMAIN d.bitassets
      BY <2>4 DEF validate_filled_transaction_refused, BitAssetAlreadyRegistered, Has, NameOf
    <3> QED
      BY <3>1 DEF Since
  <2>6. HistoryStep(x, g[n].db, f, h)
    <3>1. HistoryStep(x, apply_data(x, f, h).db, f, h)
      BY <2>2, <2>3, <2>4, HistoryData
    <3> QED
      BY <2>3, <3>1
  <2>7. Later(h, t)
    BY <1>4 DEF Later
  <2>8. Since(D, t, g[n].db) /\ Below(g[n].db, h)
    <3> DEFINE y == g[n].db
    <3>1. HistoryStep(x, y, f, h)
      BY <2>6
    <3> HIDE DEF y
    <3>2. Since(D, t, y) /\ Below(y, h)
      BY <2>2, <2>5, <2>7, <3>1, SinceStep, Zenon
    <3> QED
      BY <3>2 DEF y
  <2> QED
    BY <2>1, <2>8
<1>10. Good(N)
  BY <1>6, <1>9
<1>11. Since(D, t, e) /\ Below(e, h)
  BY <1>3, <1>10 DEF SameData, Since, Below
<1> QED
  BY <1>3, <1>4, <1>11 DEF e

\* A state is as old as itself.
LEMMA SinceSelf ==
    ASSUME NEW d
    PROVE  Since(d, d.height, d)
  BY DEF Since, Longer

LEMMA PrefixBelow ==
    ASSUME NEW T, Typed(T), Spending(T), NEW d, StateOK(T, d), Below(d, d.height),
           NEW bodies \in Seq(Seq(T))
    PROVE  Below(ConnectAll(d, bodies), ConnectAll(d, bodies).height)
<1> DEFINE N == Len(bodies)
           Good(e) == StateOK(T, e) /\ Below(e, e.height)
<1>1. N \in Nat /\ \A n \in 1 .. N : bodies[n] \in Seq(T)
  OBVIOUS
<1>2. PICK g : AfterEq(g, N, "prefix", d, bodies, 0) /\ ConnectAll(d, bodies) = g[N].db
  BY <1>1, ForEachPrefix
<1> HIDE DEF N
<1> DEFINE B == {n \in 0 .. N : ~(g[n].tag = "ok" /\ Good(g[n].db))}
<1>3. B = {}
  <2> SUFFICES ASSUME B # {} PROVE FALSE
    OBVIOUS
  <2>1. g[0] = Ok(d)
    BY <1>1, <1>2 DEF AfterEq
  <2>2. PICK n \in 1 .. N : n \in B /\ n - 1 \in 0 .. N /\ n - 1 \notin B
    <3>1. B \subseteq 0 .. N /\ 0 \notin B
      BY <2>1 DEF Ok
    <3> HIDE DEF B
    <3> QED
      BY <1>1, <3>1, FirstIndex
  <2> DEFINE y == g[n - 1].db
             b == BlockOf(y, bodies[n])
             r == apply_block(y, b)
  <2>3. g[n - 1].tag = "ok" /\ Good(y)
    BY <2>2
  <2>4. g[n] = ConnectBody(y, bodies[n])
    <3>1. n \in 0 .. N /\ n # 0
      BY <1>1
    <3>2. g[n] = StepFrom("prefix", g[n - 1], bodies[n], 0)
      BY <1>2, <3>1 DEF AfterEq
    <3> QED
      BY <2>3, <3>2 DEF StepFrom, Step
  <2>5. g[n] = IF r.tag = "ok" THEN r ELSE Ok(y)
    BY <2>4 DEF ConnectBody
  <2> HIDE DEF y
  <2>6. BlockOn(T, y, b)
    BY <1>1, <2>3, BlockOfIs
  <2>7. y.height \in Int /\ y.height <= y.height
    BY <2>3 DEF StateOK, TipOK
  <2> HIDE DEF b
  <2>8. r.tag = "ok" => Good(r.db)
    <3> SUFFICES ASSUME r.tag = "ok" PROVE Good(r.db)
      OBVIOUS
    <3>1. StateOK(T, r.db)
      BY <2>6, BlockKeeps
    <3>2. Since(y, y.height, y)
      BY SinceSelf
    <3>3. Below(r.db, r.db.height)
      BY <2>3, <2>6, <2>7, <3>2, BlockSince
    <3> QED
      BY <3>1, <3>3
  <2> HIDE DEF r
  <2>9. g[n].tag = "ok" /\ Good(g[n].db)
    BY <2>3, <2>5, <2>8 DEF Ok
  <2> QED
    BY <2>2, <2>9
<1> QED
  BY <1>1, <1>2, <1>3

FirstBelow == Below(First, First.height)

LEMMA FirstBelowInit ==
    ASSUME AllSpend, Init
    PROVE  FirstBelow
<1>1. PICK s \in Scenario : /\ offered = s.offered
                            /\ db = ConnectAll([EmptyDb EXCEPT !.utxos = s.utxos], s.prefix)
                            /\ chain = <<>>
  BY DEF Init
<1> DEFINE T == Txs(s)
           e == [EmptyDb EXCEPT !.utxos = s.utxos]
<1>2. Typed(T) /\ s.prefix \in Seq(Seq(T)) /\ Deposits(s.utxos) /\ Spending(T)
  BY ScenarioTyped, StateBlockAssumption DEF AllSpend, Spending
<1>3. StateOK(T, e)
  BY <1>2, FirstState
<1>4. Below(e, e.height)
  <2>1. e.bitassets = <<>> /\ DOMAIN <<>> = {}
    BY DEF EmptyDb
  <2> HIDE DEF e
  <2> QED
    BY <2>1 DEF Below
<1> HIDE DEF T, e
<1>5. Below(db, db.height)
  BY <1>1, <1>2, <1>3, <1>4, PrefixBelow DEF e
<1> QED
  BY <1>1, <1>5 DEF FirstBelow, First

\* Every state of the chain is below its height.
LEMMA ChainBelow ==
    ASSUME NEW T, Linked(T), FirstBelow
    PROVE  \A i \in 0 .. Len(chain) : Below(After(i), After(i).height)
<1> DEFINE N == Len(chain)
           Good(i) == Below(After(i), After(i).height)
           B == {i \in 0 .. N : ~Good(i)}
<1>1. N \in Nat /\ Good(0)
  BY FirstIs DEF FirstBelow
<1>2. B = {}
  <2> SUFFICES ASSUME B # {} PROVE FALSE
    OBVIOUS
  <2>1. PICK i \in 1 .. N : i \in B /\ i - 1 \in 0 .. N /\ i - 1 \notin B
    <3>1. B \subseteq 0 .. N /\ 0 \notin B
      BY <1>1
    <3> HIDE DEF B, N
    <3> QED
      BY <1>1, <3>1, FirstIndex
  <2> DEFINE d == After(i - 1)
             b == chain[i].block
  <2>2. BlockOn(T, d, b) /\ apply_block(d, b) = Ok(After(i))
    BY LinkIs
  <2>3. Below(d, d.height)
    BY <2>1
  <2> HIDE DEF d, b
  <2>4. apply_block(d, b).tag = "ok" /\ apply_block(d, b).db = After(i)
    BY <2>2 DEF Ok
  <2>5. d.height \in Int /\ d.height <= d.height /\ Since(d, d.height, d)
    BY <2>2, SinceSelf DEF BlockOn, StateOK, TipOK
  <2>6. Below(apply_block(d, b).db, apply_block(d, b).db.height)
    BY <2>2, <2>3, <2>4, <2>5, BlockSince
  <2> QED
    BY <2>1, <2>4, <2>6
<1> QED
  BY <1>2

\* Every state holds the histories of the ones before it.
LEMMA ChainSince ==
    ASSUME NEW T, Linked(T), FirstBelow, NEW k \in 0 .. Len(chain)
    PROVE  \A i \in k .. Len(chain) : Since(After(k), After(k).height, After(i))
<1> DEFINE N == Len(chain)
           D == After(k)
           t == D.height
           Good(i) == i >= k => Since(D, t, After(i)) /\ t \in Int /\ t <= After(i).height
                                /\ After(i).height \in Int
           B == {i \in 0 .. N : ~Good(i)}
<1>1. N \in Nat
  BY FirstIs
<1>2. \A i \in 0 .. N : StateOK(T, After(i))
  <2>1. ASSUME NEW i \in 0 .. N, i # N PROVE StateOK(T, After(i))
    <3>1. i + 1 \in 1 .. N /\ (i + 1) - 1 = i
      BY <1>1, <2>1
    <3> QED
      BY <3>1, LinkIs DEF BlockOn
  <2>2. StateOK(T, After(N))
    BY FirstIs DEF Linked
  <2> QED
    BY <2>1, <2>2
<1>3. t \in Int /\ Good(k)
  <2>1. t \in Int
    BY <1>2 DEF StateOK, TipOK
  <2>2. t <= t /\ Since(D, t, D)
    BY <2>1, SinceSelf
  <2> QED
    BY <2>1, <2>2
<1>4. Good(0)
  <2>1. CASE k = 0
    BY <1>3, <2>1
  <2>2. CASE k # 0
    BY <2>2
  <2> QED
    BY <2>1, <2>2
<1>5. B = {}
  <2> SUFFICES ASSUME B # {} PROVE FALSE
    OBVIOUS
  <2>1. PICK i \in 1 .. N : i \in B /\ i - 1 \in 0 .. N /\ i - 1 \notin B
    <3>1. B \subseteq 0 .. N /\ 0 \notin B
      BY <1>4
    <3> HIDE DEF B, N
    <3> QED
      BY <1>1, <3>1, FirstIndex
  <2>2. ~Good(i) /\ Good(i - 1) /\ i \in 0 .. N /\ i > k
    <3>1. ~Good(i) /\ Good(i - 1) /\ i \in 0 .. N
      BY <2>1
    <3>2. i # k /\ i >= k
      BY <1>3, <3>1
    <3> QED
      BY <3>1, <3>2
  <2>3. i - 1 >= k
    BY <2>2
  <2> DEFINE d == After(i - 1)
             b == chain[i].block
  <2>4. Since(D, t, d) /\ t <= d.height /\ d.height \in Int
    BY <2>2, <2>3
  <2>5. BlockOn(T, d, b) /\ apply_block(d, b) = Ok(After(i))
    BY LinkIs
  <2>6. Below(d, d.height)
    BY <2>1, ChainBelow
  <2> HIDE DEF d, b, D, t
  <2>7. apply_block(d, b).tag = "ok" /\ apply_block(d, b).db = After(i)
    BY <2>5 DEF Ok
  <2>8. Since(D, t, apply_block(d, b).db) /\ apply_block(d, b).db.height = d.height + 1
    BY <1>3, <2>4, <2>5, <2>6, <2>7, BlockSince
  <2>9. Good(i)
    BY <1>3, <2>4, <2>7, <2>8
  <2> QED
    BY <2>2, <2>9
<1>6. ASSUME NEW i \in k .. N PROVE Since(D, t, After(i))
  <2>1. i \in 0 .. N /\ i >= k
    OBVIOUS
  <2> QED
    BY <1>5, <2>1
<1> QED
  BY <1>6

\* What a history answers for an earlier height.
LEMMA AnswerThen ==
    ASSUME NEW r, History(r), NEW q, NEW t \in Int, Longer(r, q, t),
           \A i \in DOMAIN r : r[i].height \in Int /\ r[i].height <= t,
           \A i \in DOMAIN q : q[i].height \in Int
    PROVE  /\ at_block_height_exists(q, t)
           /\ at_block_height(q, t) = latest_of(r).data
<1>1. PICK S : r \in Seq(S) /\ r # <<>>
  BY DEF History
<1>2. Len(r) \in Nat /\ Len(r) >= 1 /\ DOMAIN r = 1 .. Len(r)
  BY <1>1
<1>3. UpTo(q, t) = 1 .. Len(r)
  BY <1>2 DEF UpTo, Longer
<1>4. Max(1 .. Len(r)) = Len(r)
  BY <1>2 DEF Max
<1>5. q[Len(r)] = r[Len(r)]
  BY <1>2 DEF Longer
<1> QED
  BY <1>2, <1>3, <1>4, <1>5 DEF at_block_height_exists, at_block_height, latest_of

LEMMA HistoryIs ==
    ASSUME NEW d, DataOK(d), NEW e, NEW t \in Int, Since(d, t, e), Below(d, t), NEW u, Below(e, u),
           NEW x \in DOMAIN e.bitassets
    PROVE  IF Has(d.bitassets, x)
           THEN /\ known_at(e.bitassets[x], t)
                /\ data_at(e.bitassets[x], t) = current(d.bitassets[x])
           ELSE ~known_at(e.bitassets[x], t)
<1>1. CASE x \in DOMAIN d.bitassets
  <2>1. ASSUME NEW z \in Field
        PROVE  /\ at_block_height_exists(e.bitassets[x].fields[z], t)
               /\ at_block_height(e.bitassets[x].fields[z], t) = latest_of(d.bitassets[x].fields[z]).data
    <3> DEFINE r == d.bitassets[x].fields[z]
               q == e.bitassets[x].fields[z]
    <3>1. History(r)
      BY <1>1 DEF DataOK, BitAssetOK
    <3>2. Longer(r, q, t)
      BY <1>1 DEF Since
    <3>3. \A i \in DOMAIN r : r[i].height \in Int /\ r[i].height <= t
      BY <1>1 DEF Below
    <3>4. \A i \in DOMAIN q : q[i].height \in Int
      BY DEF Below
    <3> HIDE DEF r, q
    <3>5. at_block_height_exists(q, t) /\ at_block_height(q, t) = latest_of(r).data
      BY <3>1, <3>2, <3>3, <3>4, AnswerThen
    <3> QED
      BY <3>5 DEF r, q
  <2> QED
    BY <1>1, <2>1 DEF Has, known_at, data_at, current
<1>2. CASE x \notin DOMAIN d.bitassets
  <2>1. PICK z \in Field : TRUE
    BY FieldAssumption
  <2> DEFINE q == e.bitassets[x].fields[z]
  <2>2. \A i \in DOMAIN q : q[i].height > t /\ q[i].height \in Int
    BY <1>2 DEF Since, Below
  <2> HIDE DEF q
  <2>3. ~at_block_height_exists(q, t)
    BY <2>2 DEF at_block_height_exists, UpTo
  <2> QED
    BY <1>2, <2>3 DEF Has, known_at, q
<1> QED
  BY <1>1, <1>2

\* The history of a BitAsset answers for the height of every earlier state of
\* the chain with the data of that state, and with none for a name that was not
\* registered then.
THEOREM HistoryIsExact ==
    ASSUME AllSpend
    PROVE  Spec /\ []FewNames => []HistoryExact
<1>1. Init => FirstBelow
  BY FirstBelowInit
<1>2. FirstBelow /\ LInv /\ FewNames /\ [Next]_vars => FirstBelow'
  <2> SUFFICES ASSUME FirstBelow, LInv, FewNames, [Next]_vars PROVE FirstBelow'
    OBVIOUS
  <2>1. First' = First
    BY FirstKept
  <2> QED
    BY <2>1 DEF FirstBelow
<1>3. FirstBelow /\ LInv => HistoryExact
  <2> SUFFICES ASSUME FirstBelow, LInv, NEW i \in DOMAIN chain, NEW x \in DOMAIN db.bitassets
               PROVE  LET then == chain[i].before
                      IN  IF Has(then.bitassets, x)
                          THEN /\ known_at(db.bitassets[x], then.height)
                               /\ data_at(db.bitassets[x], then.height) = current(then.bitassets[x])
                          ELSE ~known_at(db.bitassets[x], then.height)
    BY DEF HistoryExact
  <2>1. PICK s \in Scenario : Linked(Txs(s))
    BY DEF LInv
  <2> DEFINE T == Txs(s)
             N == Len(chain)
             d == chain[i].before
  <2>2. N \in Nat /\ i \in 1 .. N /\ i - 1 \in 0 .. N /\ N \in 0 .. N /\ N \in i - 1 .. N
    <3>1. PICK S : chain \in Seq(S)
      BY <2>1 DEF Linked
    <3> QED
      BY <3>1
  <2>3. d = After(i - 1) /\ BlockOn(T, d, chain[i].block)
    BY <2>1, <2>2, LinkIs
  <2>4. Since(d, d.height, After(N))
    BY <2>1, <2>2, <2>3, ChainSince
  <2>5. Below(d, d.height) /\ Below(After(N), After(N).height)
    BY <2>1, <2>2, <2>3, ChainBelow
  <2>6. DataOK(d) /\ d.height \in Int
    BY <2>3 DEF BlockOn, StateOK, TipOK
  <2>7. After(N) = db
    BY <2>1, FirstIs
  <2> HIDE DEF d
  <2>8. IF Has(d.bitassets, x)
        THEN /\ known_at(db.bitassets[x], d.height)
             /\ data_at(db.bitassets[x], d.height) = current(d.bitassets[x])
        ELSE ~known_at(db.bitassets[x], d.height)
    BY <2>4, <2>5, <2>6, <2>7, HistoryIs
  <2> QED
    BY <2>8 DEF d
<1> QED
  BY <1>1, <1>2, <1>3, LInvariant, PTL DEF Spec
-----------------------------------------------------------------------------
(***************************************************************************)
(* The panics.  The block of the most recent bid is within the auction and *)
(* not after the height h, and an auction that has begun by then is in d   *)
(* with the same end: what a block creates begins after it.                *)
(***************************************************************************)
AuctionAt(a, h) ==
    /\ a.start_block \in 0 .. U32 /\ a.duration \in Nat /\ a.duration >= 1
    /\ bid_block(a) \in Int
    /\ a.start_block <= bid_block(a) /\ bid_block(a) <= end_block(a)
    /\ bid_block(a) <= a.start_block \/ bid_block(a) <= h

AuctionsAt(e, h) == \A id \in DOMAIN e.dutch_auctions : AuctionAt(e.dutch_auctions[id], h)

SameEnd(d, id, a, h) ==
    \/ a.start_block > h
    \/ id \in DOMAIN d.dutch_auctions /\ end_block(d.dutch_auctions[id]) = end_block(a)

SameEnds(d, e, h) ==
    \A id \in DOMAIN e.dutch_auctions : SameEnd(d, id, e.dutch_auctions[id], h)

InTime(d, e, h) == AuctionsAt(e, h) /\ SameEnds(d, e, h)

LEMMA InTimePut ==
    ASSUME NEW d, NEW x, NEW h, InTime(d, x, h), DOMAIN x = DbFields,
           NEW id, NEW a, AuctionAt(a, h), SameEnd(d, id, a, h)
    PROVE  InTime(d, PutAuction(x, id, a), h)
<1>1. PutAuction(x, id, a).dutch_auctions = put(x.dutch_auctions, id, a)
  BY PutAuctionIs
<1>2. \A k \in DOMAIN put(x.dutch_auctions, id, a) :
        /\ AuctionAt(put(x.dutch_auctions, id, a)[k], h)
        /\ SameEnd(d, k, put(x.dutch_auctions, id, a)[k], h)
  BY DEF InTime, AuctionsAt, SameEnds, put
<1> QED
  BY <1>1, <1>2 DEF InTime, AuctionsAt, SameEnds

LEMMA InTimeSame ==
    ASSUME NEW d, NEW x, NEW h, InTime(d, x, h), NEW y, SameAuctions(x, y)
    PROVE  InTime(d, y, h)
  BY DEF InTime, AuctionsAt, SameEnds, SameAuctions

LEMMA InTimeCreate ==
    ASSUME NEW T, NEW d, NEW x, DbInv(T, x), NEW h \in Int, InTime(d, x, h),
           NEW f, FilledOf(T, f), Is(f, "DutchAuctionCreate"),
           apply_auction_create(x, f, h).tag = "ok"
    PROVE  InTime(d, apply_auction_create(x, f, h).db, h)
<1> DEFINE a == create(f.data, f.txid, h)
           r == apply_auction_create(x, f, h)
<1>1. r.db = PutAuction(x, f.txid, a) /\ ~create_refused(f.data, h)
  BY DEF apply_auction_create, Guarded, Ok, Err, Panic
<1>2. f.data.start_block \in 0 .. U32 /\ f.data.duration \in 0 .. U32
  <2>1. PICK t \in T : TransactionOK(t) /\ f.data = t.data
    BY DEF FilledOf
  <2> QED
    BY <2>1 DEF TransactionOK, Is
<1>3. f.data.start_block > h /\ f.data.duration >= 1
  BY <1>1, <1>2, U32Assumption DEF create_refused
<1>4. a.start_block = f.data.start_block /\ a.duration = f.data.duration
      /\ bid_block(a) = f.data.start_block
  <2>1. a.start_block = f.data.start_block /\ a.duration = f.data.duration
        /\ a.most_recent_bid_block = <<stamp(f.data.start_block, f.txid, h)>>
    BY DEF create, new_history
  <2> HIDE DEF a
  <2> QED
    BY <2>1 DEF bid_block, latest_of, stamp
<1> HIDE DEF a, r
<1>5. AuctionAt(a, h) /\ SameEnd(d, f.txid, a, h)
  BY <1>2, <1>3, <1>4, U32Assumption DEF AuctionAt, SameEnd, end_block, IntMin
<1>6. InTime(d, PutAuction(x, f.txid, a), h)
  BY <1>5, InTimePut DEF DbInv
<1> QED
  BY <1>1, <1>6 DEF r

LEMMA InTimeBid ==
    ASSUME NEW T, NEW d, NEW x, DbInv(T, x), NEW h \in Int, InTime(d, x, h),
           NEW f, FilledOf(T, f), Is(f, "DutchAuctionBid"),
           apply_auction_bid(x, f, h).tag = "ok"
    PROVE  InTime(d, apply_auction_bid(x, f, h).db, h)
<1> DEFINE id == f.data.auction_id
           a == x.dutch_auctions[id]
           v == f.data.bid_size
           b == bid(a, f.txid, v, h)
           r == apply_auction_bid(x, f, h)
<1>1. /\ r.db = PutAuction(x, id, b)
      /\ id \in DOMAIN x.dutch_auctions
      /\ ~bid_panics(a, v, h) /\ ~bid_refused(a, v, h)
  BY DEF apply_auction_bid, Guarded, Ok, Err, Panic, Has
<1>2. AuctionOK(T, a) /\ AuctionAt(a, h) /\ SameEnd(d, id, a, h)
  BY <1>1 DEF DbInv, AuctionsOK, InTime, AuctionsAt, SameEnds
<1> HIDE DEF a
<1>3. ~bid_not_open(a, h)
  BY <1>1 DEF bid_refused
<1>4. h >= a.start_block /\ h <= end_block(a) /\ end_block(a) \in Int
  BY <1>2, <1>3, U32Assumption DEF bid_not_open, AuctionAt, end_block, IntMin
<1>5. b.start_block = a.start_block /\ b.duration = a.duration
      /\ b.most_recent_bid_block = Append(a.most_recent_bid_block, stamp(h, f.txid, h))
  BY <1>2 DEF bid, push_stamped, AuctionOK, AuctionFields
<1>6. bid_block(b) = h
  <2> DEFINE s == stamp(h, f.txid, h)
             M == a.most_recent_bid_block
  <2>1. s.data = h
    BY DEF stamp
  <2>2. M \in Seq(Stamped)
    BY <1>2 DEF AuctionOK
  <2> HIDE DEF b, s, M
  <2>3. b.most_recent_bid_block = Append(M, s)
    BY <1>5 DEF M, s
  <2>4. Append(M, s)[Len(Append(M, s))] = s
    BY <2>2
  <2> QED
    BY <2>1, <2>3, <2>4 DEF bid_block, latest_of
<1> HIDE DEF b
<1>7. end_block(b) = end_block(a)
  BY <1>5 DEF end_block
<1>8. AuctionAt(b, h)
  BY <1>2, <1>4, <1>5, <1>6, <1>7 DEF AuctionAt
<1>9. SameEnd(d, id, b, h)
  BY <1>2, <1>5, <1>7 DEF SameEnd
<1> HIDE DEF id, r
<1>10. InTime(d, PutAuction(x, id, b), h)
  BY <1>8, <1>9, InTimePut DEF DbInv
<1> QED
  BY <1>1, <1>10 DEF r

LEMMA InTimeCollect ==
    ASSUME NEW T, NEW d, NEW x, DbInv(T, x), NEW h \in Int, InTime(d, x, h),
           NEW f, apply_auction_collect(x, f, h).tag = "ok"
    PROVE  InTime(d, apply_auction_collect(x, f, h).db, h)
<1> DEFINE id == collected_auction(f)
           a == x.dutch_auctions[id]
           b == collect(a, f.txid, h)
           r == apply_auction_collect(x, f, h)
<1>1. r.db = PutAuction(x, id, b) /\ id \in DOMAIN x.dutch_auctions
  BY DEF apply_auction_collect, Guarded, Ok, Err, Panic, Has
<1>2. AuctionOK(T, a) /\ AuctionAt(a, h) /\ SameEnd(d, id, a, h)
  BY <1>1 DEF DbInv, AuctionsOK, InTime, AuctionsAt, SameEnds
<1> HIDE DEF a
<1>3. b.start_block = a.start_block /\ b.duration = a.duration
      /\ b.most_recent_bid_block = a.most_recent_bid_block
  BY <1>2 DEF collect, push_stamped, AuctionOK, AuctionFields
<1> HIDE DEF b
<1>4. end_block(b) = end_block(a) /\ bid_block(b) = bid_block(a)
  BY <1>3 DEF end_block, bid_block
<1>5. AuctionAt(b, h) /\ SameEnd(d, id, b, h)
  BY <1>2, <1>3, <1>4 DEF AuctionAt, SameEnd
<1> HIDE DEF id, r
<1>6. InTime(d, PutAuction(x, id, b), h)
  BY <1>5, InTimePut DEF DbInv
<1> QED
  BY <1>1, <1>6 DEF r

\* What the data of a transaction does to auctions.
LEMMA InTimeData ==
    ASSUME NEW T, NEW d, NEW x, DbInv(T, x), NEW h \in Int, InTime(d, x, h),
           NEW f, FilledOf(T, f), apply_data(x, f, h).tag = "ok"
    PROVE  InTime(d, apply_data(x, f, h).db, h)
<1> DEFINE r == apply_data(x, f, h)
<1>0. DOMAIN x = DbFields /\ f.data.kind \in DataKinds
  BY AmountsTyped DEF DbInv
<1>1. CASE Is(f, "DutchAuctionCreate")
  <2>1. r = apply_auction_create(x, f, h)
    BY <1>1 DEF apply_data, Is
  <2> QED
    BY <1>1, <2>1, InTimeCreate
<1>2. CASE Is(f, "DutchAuctionBid")
  <2>1. r = apply_auction_bid(x, f, h)
    BY <1>2 DEF apply_data, Is
  <2> QED
    BY <1>2, <2>1, InTimeBid
<1>3. CASE Is(f, "DutchAuctionCollect")
  <2>1. r = apply_auction_collect(x, f, h)
    BY <1>3 DEF apply_data, Is
  <2> QED
    BY <1>3, <2>1, InTimeCollect
<1>4. CASE Is(f, "AmmBurn")
  <2>1. r = apply_amm_burn(x, f)
    BY <1>4 DEF apply_data, Is
  <2>2. PICK pair, q : r.db = PutPool(x, pair, q)
    BY <2>1 DEF apply_amm_burn, Guarded, Ok, Err, Panic
  <2> QED
    BY <1>0, <2>2, PutPoolIs, InTimeSame
<1>5. CASE Is(f, "AmmMint")
  <2>1. r = apply_amm_mint(x, f)
    BY <1>5 DEF apply_data, Is
  <2>2. PICK pair, q : r.db = PutPool(x, pair, q)
    BY <2>1 DEF apply_amm_mint, Guarded, Ok, Err, Panic
  <2> QED
    BY <1>0, <2>2, PutPoolIs, InTimeSame
<1>6. CASE Is(f, "AmmSwap")
  <2>1. r = apply_amm_swap(x, f)
    BY <1>6 DEF apply_data, Is
  <2>2. PICK pair, q : r.db = PutPool(x, pair, q)
    BY <2>1 DEF apply_amm_swap, Guarded, Ok, Err, Panic
  <2> QED
    BY <1>0, <2>2, PutPoolIs, InTimeSame
<1>7. CASE Is(f, "Regular")
  <2>1. r.db = x
    BY <1>7 DEF apply_data, Is, Ok
  <2> QED
    BY <2>1
<1>8. CASE f.data.kind \in {"BitAssetReservation", "BitAssetRegistration", "BitAssetMint",
                            "BitAssetUpdate"}
  <2>1. \/ r.db = [x EXCEPT !.reservations = put(@, f.txid, f.data.commitment)]
        \/ r.db = apply_registration(x, f, h)
        \/ r.db = apply_mint(x, f, h)
        \/ r.db = apply_updates(x, f, h)
    BY <1>8 DEF apply_data, Is, Guarded, Ok, Err, Panic
  <2> HIDE DEF r
  <2>2. NamesOnly(x, r.db)
    <3>1. NamesOnly(x, [x EXCEPT !.reservations = put(@, f.txid, f.data.commitment)])
      BY <1>0, Reserved
    <3>2. NamesOnly(x, apply_registration(x, f, h)) /\ NamesOnly(x, apply_mint(x, f, h))
          /\ NamesOnly(x, apply_updates(x, f, h))
      BY <1>0, Registered, Minted, Updated
    <3> QED
      BY <2>1, <3>1, <3>2
  <2>3. InTime(d, r.db, h)
    BY <2>2, InTimeSame DEF NamesOnly
  <2> QED
    BY <2>3 DEF r
<1> QED
  BY <1>0, <1>1, <1>2, <1>3, <1>4, <1>5, <1>6, <1>7, <1>8 DEF DataKinds, Is

\* A bid panics at the end of an auction, and there only.
LEMMA BidPanics ==
    ASSUME NEW T, NEW a, AuctionOK(T, a), NEW h \in Int, AuctionAt(a, h), NEW v, bid_panics(a, v, h)
    PROVE  h = end_block(a) /\ a.start_block <= h
<1>1. /\ end_price_after(a) \in Nat /\ price_after(a) \in Nat
      /\ end_price_after(a) <= price_after(a)
  BY LatestValues
<1>2. /\ a.start_block \in Int /\ bid_block(a) \in Int /\ end_block(a) \in Int
      /\ bid_block(a) <= end_block(a)
      /\ bid_block(a) <= a.start_block \/ bid_block(a) <= h
  BY U32Assumption DEF AuctionAt, end_block, IntMin
<1>3. h >= a.start_block
  BY DEF bid_panics
<1>4. ~(h < bid_block(a))
  BY <1>2, <1>3
<1>5. /\ ~bid_not_open(a, h)
      /\ \/ remaining_duration(a) < 0
         \/ /\ remaining_duration(a) # 0
            /\ elapsed_blocks(a, h) \div remaining_duration(a) >= 1
  BY <1>1, <1>4 DEF bid_panics
<1>6. h <= end_block(a)
  BY <1>2, <1>5 DEF bid_not_open
<1> DEFINE r == remaining_duration(a)
           l == elapsed_blocks(a, h)
<1>7. r = end_block(a) - bid_block(a) /\ l = h - bid_block(a) /\ r \in Nat /\ l \in Nat
  BY <1>2, <1>4 DEF remaining_duration, elapsed_blocks
<1>8. r # 0 /\ l \div r >= 1
  BY <1>5, <1>7
<1> HIDE DEF r, l
<1>9. l >= r
  <2>1. l \div r \in Nat /\ (l \div r) * r <= l
    BY <1>7, <1>8, RoundedDown
  <2> DEFINE q == l \div r
  <2>2. q \in Nat /\ q >= 1 /\ q * r <= l
    BY <1>8, <2>1
  <2> HIDE DEF q
  <2>3. 1 * r <= q * r
    BY <1>7, <2>2, ProductMonotone
  <2> QED
    BY <1>7, <2>2, <2>3
<1> QED
  BY <1>2, <1>3, <1>6, <1>7, <1>9

\* A swap panics when the fee takes all of it, and then only.
LEMMA SwapPanics ==
    ASSUME NEW r \in Nat, NEW v \in Nat, swap_panics(r, v)
    PROVE  v <= 1
  BY DEF swap_panics, effective_spend_asset_reserve, after_fee

LEMMA PanicData ==
    ASSUME NEW T, NEW d, NEW x, DbInv(T, x), NEW h \in Int, h = next_height(d), InTime(d, x, h),
           NEW f, FilledOf(T, f), apply_data(x, f, h).tag = "panic", NEW tx, tx.data = f.data
    PROVE  KnownPanic(d, tx)
<1> DEFINE r == apply_data(x, f, h)
<1>0. f.data.kind \in DataKinds
  BY AmountsTyped
<1>1. CASE Is(f, "DutchAuctionBid")
  <2> DEFINE id == f.data.auction_id
             a == x.dutch_auctions[id]
  <2>1. apply_auction_bid(x, f, h).tag = "panic"
    BY <1>1 DEF apply_data, Is
  <2>2. id \in DOMAIN x.dutch_auctions /\ bid_panics(a, f.data.bid_size, h)
    BY <2>1 DEF apply_auction_bid, Guarded, Ok, Err, Has
  <2>3. AuctionOK(T, a) /\ AuctionAt(a, h) /\ SameEnd(d, id, a, h)
    BY <2>2 DEF DbInv, AuctionsOK, InTime, AuctionsAt, SameEnds
  <2> HIDE DEF a
  <2>4. h = end_block(a) /\ a.start_block <= h /\ a.start_block \in Int
    BY <2>2, <2>3, BidPanics DEF AuctionAt
  <2>5. id \in DOMAIN d.dutch_auctions /\ end_block(d.dutch_auctions[id]) = h
    BY <2>3, <2>4 DEF SameEnd
  <2> QED
    BY <1>1, <2>5 DEF KnownPanic, Is, Has
<1>2. CASE Is(f, "AmmSwap")
  <2> DEFINE p == x.amm_pools[swap_pair(f)]
             v == f.data.amount_spent
             R == swap_reserves(p, f)
  <2>1. apply_amm_swap(x, f).tag = "panic"
    BY <1>2 DEF apply_data, Is
  <2>2. swap_pair(f) \in DOMAIN x.amm_pools /\ swap_panics(R[1], v)
    BY <2>1 DEF apply_amm_swap, Guarded, Ok, Err, Has
  <2>3. p \in PoolState /\ v \in Amount
    BY <1>2, <2>2, AmountsTyped DEF DbInv, PoolsOK
  <2> HIDE DEF p
  <2>4. R[1] \in Nat /\ v \in Nat
    BY <2>3, U64Assumption DEF swap_reserves, PoolState, Amount
  <2> HIDE DEF R
  <2>5. v <= 1
    BY <2>2, <2>4, SwapPanics
  <2> QED
    BY <1>2, <2>5 DEF KnownPanic, Is
<1>3. CASE ~Is(f, "DutchAuctionBid") /\ ~Is(f, "AmmSwap")
  <2>1. CASE Is(f, "AmmMint")
    BY <2>1 DEF apply_data, Is, apply_amm_mint, Guarded, Ok, Err
  <2>2. CASE Is(f, "AmmBurn")
    BY <2>2 DEF apply_data, Is, apply_amm_burn, Guarded, Ok, Err
  <2>3. CASE Is(f, "DutchAuctionCreate")
    BY <2>3 DEF apply_data, Is, apply_auction_create, Guarded, Ok, Err
  <2>4. CASE Is(f, "DutchAuctionCollect")
    BY <2>4 DEF apply_data, Is, apply_auction_collect, Guarded, Ok, Err
  <2>5. CASE f.data.kind \in {"Regular", "BitAssetReservation", "BitAssetRegistration",
                              "BitAssetMint", "BitAssetUpdate"}
    BY <2>5 DEF apply_data, Is, Guarded, Ok, Err
  <2> QED
    BY <1>0, <1>3, <2>1, <2>2, <2>3, <2>4, <2>5 DEF DataKinds, Is
<1> QED
  BY <1>1, <1>2, <1>3

-----------------------------------------------------------------------------
\* A state whose auctions are in time for its height.
Timely(T, d) == DbInv(T, d) /\ AuctionsAt(d, d.height)

\* After n transactions of a block on d.
TimelyLoop(T, d, txs, h, r) ==
    /\ r.tag = "ok" => DbInv(T, r.db) /\ InTime(d, r.db, h)
    /\ r.tag = "panic" => \E i \in DOMAIN txs : KnownPanic(d, txs[i])

LEMMA InTimeStart ==
    ASSUME NEW T, NEW d, Timely(T, d)
    PROVE  InTime(d, d, next_height(d))
<1> DEFINE h == next_height(d)
<1>1. d.height \in Int /\ h \in Int /\ d.height <= h
  BY DEF Timely, DbInv, next_height
<1> HIDE DEF h
<1>2. ASSUME NEW a, AuctionAt(a, d.height) PROVE AuctionAt(a, h)
  BY <1>1, <1>2 DEF AuctionAt
<1>3. AuctionsAt(d, h) /\ SameEnds(d, d, h)
  BY <1>2 DEF Timely, AuctionsAt, SameEnds, SameEnd
<1> QED
  BY <1>3 DEF InTime, h

LEMMA LoopTimely ==
    ASSUME NEW T, Typed(T), NEW d, Timely(T, d), NEW txs \in Seq(T), NEW g,
           AfterEq(g, Len(txs), "connect", d, FilledSeq(d, txs), next_height(d))
    PROVE  TimelyLoop(T, d, txs, next_height(d), g[Len(txs)])
<1> DEFINE N == Len(txs)
           F == FilledSeq(d, txs)
           h == next_height(d)
           Good(n) == TimelyLoop(T, d, txs, h, g[n])
           B == {n \in 0 .. N : ~Good(n)}
<1>1. /\ N \in Nat /\ DOMAIN txs = 1 .. N
      /\ \A i \in 1 .. N : FilledOf(T, F[i]) /\ F[i].data = txs[i].data
  BY FilledSeqIs
<1>2. DbInv(T, d) /\ InTime(d, d, h) /\ h \in Int
  <2>1. InTime(d, d, h)
    BY InTimeStart
  <2>2. DbInv(T, d) /\ d.height \in Int
    BY DEF Timely, DbInv
  <2>3. h \in Int
    BY <2>2 DEF next_height
  <2> QED
    BY <2>1, <2>2, <2>3
<1>3. AfterEq(g, N, "connect", d, F, h)
  OBVIOUS
<1>3a. h = next_height(d)
  OBVIOUS
<1> HIDE DEF N, F, h
<1>4. Good(0)
  <2>1. g[0] = Ok(d)
    BY <1>1, <1>3 DEF AfterEq
  <2> QED
    BY <1>2, <2>1 DEF TimelyLoop, Ok
<1>5. B = {}
  <2> SUFFICES ASSUME B # {} PROVE FALSE
    OBVIOUS
  <2>1. PICK n \in 1 .. N : n \in B /\ n - 1 \in 0 .. N /\ n - 1 \notin B
    <3>1. B \subseteq 0 .. N /\ 0 \notin B
      BY <1>4
    <3> HIDE DEF B
    <3> QED
      BY <1>1, <3>1, FirstIndex
  <2>2. ~Good(n) /\ Good(n - 1)
    BY <2>1
  <2>3. g[n] = StepFrom("connect", g[n - 1], F[n], h)
    <3>1. n \in 0 .. N /\ n # 0
      BY <1>1
    <3> QED
      BY <1>3, <3>1 DEF AfterEq
  <2>4. CASE g[n - 1].tag # "ok"
    <3>1. g[n] = g[n - 1]
      BY <2>3, <2>4 DEF StepFrom
    <3> QED
      BY <2>2, <3>1
  <2>5. CASE g[n - 1].tag = "ok"
    <3> DEFINE x == g[n - 1].db
               f == F[n]
               r == apply_data(x, f, h)
    <3>1. DbInv(T, x) /\ InTime(d, x, h)
      BY <2>2, <2>5 DEF TimelyLoop
    <3>2. FilledOf(T, f) /\ f.data = txs[n].data /\ n \in DOMAIN txs
      BY <1>1
    <3>3. g[n] = Step("connect", x, f, h)
      BY <2>3, <2>5 DEF StepFrom
    <3>4. g[n] = Err \/ g[n] = r
      BY <3>3 DEF Step, apply_filled
    <3> HIDE DEF x, f
    <3>5. r.tag = "ok" => DbInv(T, r.db) /\ InTime(d, r.db, h)
      BY <1>2, <3>1, <3>2, AppliedData, InTimeData DEF Applied
    <3>6. r.tag = "panic" => KnownPanic(d, txs[n])
      BY <1>2, <1>3a, <3>1, <3>2, PanicData
    <3> HIDE DEF r
    <3>7. Good(n)
      BY <3>2, <3>4, <3>5, <3>6 DEF TimelyLoop, Err
    <3> QED
      BY <2>2, <3>7
  <2> QED
    BY <2>4, <2>5
<1>6. Good(N)
  BY <1>1, <1>5
<1> QED
  BY <1>6 DEF N, h

LEMMA BlockTimely ==
    ASSUME NEW T, Typed(T), NEW d, Timely(T, d), NEW b, b.txs \in Seq(T),
           apply_block(d, b).tag = "ok"
    PROVE  Timely(T, apply_block(d, b).db)
<1> DEFINE r == apply_block(d, b)
           N == Len(b.txs)
           h == next_height(d)
<1>1. PICK g : ConnectedBy(d, b, r, g)
  BY ApplyBlockIs
<1>2. DbInv(T, r.db)
  BY ApplyBlockKeeps DEF Timely
<1>3. AfterEq(g, N, "connect", d, FilledSeq(d, b.txs), h) /\ g[N].tag = "ok"
  BY <1>1 DEF ConnectedBy
<1>4. DbInv(T, g[N].db) /\ InTime(d, g[N].db, h)
  BY <1>3, LoopTimely DEF TimelyLoop
<1> HIDE DEF r, N, h
<1>5. r.db.height = h /\ r.db.dutch_auctions = g[N].db.dutch_auctions
  BY <1>1, <1>4 DEF ConnectedBy, DbInv, N, h
<1>6. AuctionsAt(r.db, r.db.height)
  BY <1>4, <1>5 DEF InTime, AuctionsAt
<1> QED
  BY <1>2, <1>6 DEF Timely, r

LEMMA BlockPanics ==
    ASSUME NEW T, Typed(T), NEW d, Timely(T, d), NEW b, b.txs \in Seq(T),
           apply_block(d, b).tag = "panic"
    PROVE  \E i \in DOMAIN b.txs : KnownPanic(d, b.txs[i])
<1> DEFINE F == FilledSeq(d, b.txs)
           h == next_height(d)
           l == apply_all(d, F, h)
<1>1. apply_block(d, b) = connect_prevalidated(d, b, F, h)
  BY DEF apply_block, Err, FilledSeq
<1>2. l.tag = "panic"
  <2>1. \A e : move_outputs(e, b, F).tag = "ok"
    BY DEF move_outputs, Ok
  <2>2. \A e : set_tip(e, b, h).tag = "ok"
    BY DEF set_tip, Ok
  <2> HIDE DEF l, F, h
  <2>3. ~BadCoinbase(b)
    BY <1>1 DEF connect_prevalidated, Err
  <2>4. connect_prevalidated(d, b, F, h) =
            IF l.tag = "ok" THEN set_tip(move_outputs(l.db, b, F).db, b, h) ELSE l
    BY <2>1, <2>3 DEF connect_prevalidated, Then, l
  <2> QED
    BY <1>1, <2>2, <2>4
<1>3. Len(F) = Len(b.txs) /\ Len(F) \in Nat
  BY FilledSeqIs
<1>4. PICK g : AfterEq(g, Len(F), "connect", d, F, h) /\ l = g[Len(F)]
  BY <1>3, ForEachConnect
<1>5. TimelyLoop(T, d, b.txs, h, g[Len(b.txs)])
  BY <1>3, <1>4, LoopTimely
<1> HIDE DEF l, F, h
<1> QED
  BY <1>2, <1>3, <1>4, <1>5 DEF TimelyLoop

LEMMA PrefixTimely ==
    ASSUME NEW T, Typed(T), NEW d, Timely(T, d), NEW bodies \in Seq(Seq(T))
    PROVE  Timely(T, ConnectAll(d, bodies))
<1> DEFINE N == Len(bodies)
           Good(r) == r.tag = "ok" /\ Timely(T, r.db)
<1>1. N \in Nat /\ \A n \in 1 .. N : bodies[n] \in Seq(T)
  OBVIOUS
<1>2. PICK g : AfterEq(g, N, "prefix", d, bodies, 0) /\ ConnectAll(d, bodies) = g[N].db
  BY <1>1, ForEachPrefix
<1> HIDE DEF N
<1> DEFINE B == {n \in 0 .. N : ~Good(g[n])}
<1>3. B = {}
  <2> SUFFICES ASSUME B # {} PROVE FALSE
    OBVIOUS
  <2>1. g[0] = Ok(d)
    BY <1>1, <1>2 DEF AfterEq
  <2>2. PICK n \in 1 .. N : n \in B /\ n - 1 \in 0 .. N /\ n - 1 \notin B
    <3>1. B \subseteq 0 .. N /\ 0 \notin B
      BY <2>1 DEF Ok
    <3> HIDE DEF B
    <3> QED
      BY <1>1, <3>1, FirstIndex
  <2> DEFINE y == g[n - 1].db
             b == BlockOf(y, bodies[n])
             r == apply_block(y, b)
  <2>3. g[n - 1].tag = "ok" /\ Timely(T, y)
    BY <2>2
  <2>4. g[n] = ConnectBody(y, bodies[n])
    <3>1. n \in 0 .. N /\ n # 0
      BY <1>1
    <3>2. g[n] = StepFrom("prefix", g[n - 1], bodies[n], 0)
      BY <1>2, <3>1 DEF AfterEq
    <3> QED
      BY <2>3, <3>2 DEF StepFrom, Step
  <2>5. g[n] = IF r.tag = "ok" THEN r ELSE Ok(y)
    BY <2>4 DEF ConnectBody
  <2> HIDE DEF y
  <2>6. b.txs \in Seq(T)
    BY <1>1 DEF BlockOf
  <2> HIDE DEF b
  <2>7. r.tag = "ok" => Timely(T, r.db)
    BY <2>3, <2>6, BlockTimely
  <2> HIDE DEF r
  <2>8. Good(g[n])
    BY <2>3, <2>5, <2>7 DEF Ok
  <2> QED
    BY <2>2, <2>8
<1> QED
  BY <1>1, <1>2, <1>3

-----------------------------------------------------------------------------
\* Every state that a disconnect may come back to is timely.
ChainTimely(T) ==
    /\ \E S : chain \in Seq(S)
    /\ Timely(T, db)
    /\ \A i \in 1 .. Len(chain) : Timely(T, chain[i].before) /\ chain[i].block.txs \in Seq(T)

TimelyInv == \E s \in Scenario : offered = s.offered /\ ChainTimely(Txs(s))

LEMMA TimelyInit == Init => TimelyInv
<1> SUFFICES ASSUME Init PROVE TimelyInv
  OBVIOUS
<1>1. PICK s \in Scenario : /\ offered = s.offered
                            /\ db = ConnectAll([EmptyDb EXCEPT !.utxos = s.utxos], s.prefix)
                            /\ chain = <<>>
  BY DEF Init
<1> DEFINE T == Txs(s)
           e == [EmptyDb EXCEPT !.utxos = s.utxos]
<1>2. Typed(T) /\ s.prefix \in Seq(Seq(T))
  BY ScenarioTyped
<1> HIDE DEF T
<1>3. Timely(T, e)
  <2>1. e.amm_pools = <<>> /\ e.dutch_auctions = <<>> /\ e.height = -1 /\ DOMAIN e = DbFields
    BY DEF EmptyDb, DbFields
  <2>2. PoolsOK(<<>>) /\ AuctionsOK(T, <<>>)
    BY DEF PoolsOK, AuctionsOK
  <2> HIDE DEF e
  <2>3. AuctionsAt(e, e.height)
    BY <2>1 DEF AuctionsAt
  <2> QED
    BY <2>1, <2>2, <2>3 DEF DbInv, Timely
<1> HIDE DEF e
<1>4. Timely(T, db)
  BY <1>1, <1>2, <1>3, PrefixTimely DEF e
<1>5. chain \in Seq({}) /\ Len(chain) = 0
  BY <1>1
<1>6. ChainTimely(T)
  BY <1>4, <1>5 DEF ChainTimely
<1> QED
  BY <1>1, <1>6 DEF TimelyInv, T

LEMMA TimelyNext ==
    ASSUME AllSpend, LInv, FewNames, TimelyInv, [Next]_vars
    PROVE  TimelyInv'
<1>1. PICK s \in Scenario : offered = s.offered /\ ChainTimely(Txs(s))
  BY DEF TimelyInv
<1> DEFINE T == Txs(s)
<1>2. Typed(T) /\ offered \subseteq T
  BY <1>1, ScenarioTyped
<1>3. ChainTimely(T)
  BY <1>1
<1>4. PICK S : chain \in Seq(S)
  BY <1>3 DEF ChainTimely
<1> SUFFICES ASSUME TRUE PROVE offered' = offered /\ ChainTimely(T)'
  BY <1>1 DEF TimelyInv
<1> HIDE DEF T
<1>5. ASSUME NEW body \in Bodies, Connect(body)
      PROVE  offered' = offered /\ ChainTimely(T)'
  <2>1. PICK b : ConnectStep(T, b)
    BY <1>2, <1>5, ConnectIs
  <2>2. Timely(T, db')
    BY <1>2, <1>3, <2>1, BlockTimely DEF ConnectStep, ChainTimely
  <2> DEFINE c == [block |-> b, before |-> db]
             U == S \cup {c}
             N == Len(chain)
  <2>3. chain' = Append(chain, c) /\ c.block.txs \in Seq(T) /\ c.before = db
    BY <2>1 DEF ConnectStep
  <2> HIDE DEF c
  <2>4. chain' \in Seq(U) /\ N \in Nat /\ Len(chain') = N + 1 /\ chain'[N + 1] = c
        /\ \A i \in 1 .. N : chain'[i] = chain[i]
    BY <1>4, <2>3
  <2>5. ASSUME NEW i \in 1 .. Len(chain')
        PROVE  Timely(T, chain'[i].before) /\ chain'[i].block.txs \in Seq(T)
    <3>1. CASE i = N + 1
      BY <1>3, <2>3, <2>4, <3>1 DEF ChainTimely
    <3>2. CASE i # N + 1
      <4>1. i \in 1 .. N
        BY <2>4, <3>2
      <4> QED
        BY <1>3, <2>4, <4>1 DEF ChainTimely
    <3> QED
      BY <3>1, <3>2
  <2> QED
    BY <1>5, <2>2, <2>4, <2>5 DEF Connect, ChainTimely
<1>6. ASSUME Disconnect
      PROVE  offered' = offered /\ ChainTimely(T)'
  <2> DEFINE N == Len(chain)
  <2>1. chain # <<>> /\ chain' = Front(chain) /\ offered' = offered
    BY <1>6 DEF Disconnect
  <2>2. db' = Last(chain).before
    BY <1>6, DisconnectIs
  <2>3. /\ N \in Nat /\ N \in 1 .. N /\ Last(chain) = chain[N]
        /\ chain' \in Seq(S) /\ Len(chain') = N - 1
        /\ \A i \in 1 .. N - 1 : chain'[i] = chain[i] /\ i \in 1 .. N
    <3>1. N \in Nat /\ N >= 1 /\ Last(chain) = chain[N]
      BY <1>4, <2>1 DEF Last
    <3>2. chain' \in Seq(S) /\ Len(chain') = N - 1 /\ \A i \in 1 .. N - 1 : chain'[i] = chain[i]
      BY <1>4, <2>1, <3>1, FrontIs
    <3> QED
      BY <3>1, <3>2
  <2> HIDE DEF N
  <2>4. Timely(T, db')
    BY <1>3, <2>2, <2>3 DEF ChainTimely, N
  <2>5. \A i \in 1 .. Len(chain') : Timely(T, chain'[i].before) /\ chain'[i].block.txs \in Seq(T)
    BY <1>3, <2>3 DEF ChainTimely, N
  <2> QED
    BY <2>1, <2>3, <2>4, <2>5 DEF ChainTimely
<1>7. CASE UNCHANGED vars
  BY <1>3, <1>7 DEF vars, ChainTimely
<1> QED
  BY <1>5, <1>6, <1>7 DEF Next

\* Whatever blocks were connected and disconnected before, the next one makes
\* the node panic in the two known cases only: a bid in the last block of an
\* auction that began before it (the assertion on the elapsed blocks), and a swap of at most
\* one unit (the division by the effective reserve).
THEOREM OnlyKnownPanics ==
    ASSUME AllSpend
    PROVE  Spec /\ []FewNames => []PanicsKnown
<1>1. Init => TimelyInv
  BY TimelyInit
<1>2. TimelyInv /\ LInv /\ FewNames /\ [Next]_vars => TimelyInv'
  BY TimelyNext
<1>3. TimelyInv => PanicsKnown
  <2> SUFFICES ASSUME TimelyInv, NEW body \in Bodies,
                      apply_block(db, BlockOf(db, body)).tag = "panic"
               PROVE  \E i \in DOMAIN body : KnownPanic(db, body[i])
    BY DEF PanicsKnown
  <2>1. PICK s \in Scenario : offered = s.offered /\ ChainTimely(Txs(s))
    BY DEF TimelyInv
  <2> DEFINE T == Txs(s)
             b == BlockOf(db, body)
  <2>2. Typed(T) /\ offered \subseteq T /\ Timely(T, db)
    BY <2>1, ScenarioTyped DEF ChainTimely
  <2> HIDE DEF T
  <2>3. body \in Seq(T)
    BY <2>2, BodyIs
  <2>4. b.txs = body /\ apply_block(db, b).tag = "panic"
    BY DEF BlockOf
  <2> HIDE DEF b
  <2> QED
    BY <2>2, <2>3, <2>4, BlockPanics
<1> QED
  BY <1>1, <1>2, <1>3, LInvariant, PTL DEF Spec
=============================================================================
