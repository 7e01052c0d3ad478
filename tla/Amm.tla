--------------------------------- MODULE Amm ---------------------------------
(***************************************************************************)
(* Pools of the automated market maker (lib/state/amm.rs): PoolState and   *)
(* its methods, as operators on one pool.  Beside an operator f stand      *)
(* f_refused (the method returns an error) and, where a division by zero   *)
(* can happen, f_panics.  Products are u128 in the code and never overflow. *)
(***************************************************************************)
EXTENDS Integers

CONSTANT U64   \* the greatest u64: 2^64 - 1 in the code

ASSUME U64Assumption == U64 \in Nat

Amount == 0 .. U64

PoolState == [reserve0 : Amount, reserve1 : Amount,
              outstanding_lp_tokens : Amount, creation_txid : STRING]

new_pool(txid) ==
    [reserve0 |-> 0, reserve1 |-> 0, outstanding_lp_tokens |-> 0, creation_txid |-> txid]

div_ceil(x, y) == (x + y - 1) \div y

IntMin(x, y) == IF x <= y THEN x ELSE y

\* num::integer::sqrt
sqrt(n) == CHOOSE r \in 0 .. n : r * r <= n /\ (r + 1) * (r + 1) > n

-----------------------------------------------------------------------------
is_empty(p) == p.reserve0 = 0 \/ p.reserve1 = 0 \/ p.outstanding_lp_tokens = 0

\* The first position is worth the geometric mean of its amounts, a later one
\* its share of the smaller side.
lp_tokens_minted(p, amount0, amount1) ==
    IF is_empty(p)
    THEN sqrt((p.reserve0 + amount0) * (p.reserve1 + amount1))
    ELSE IntMin((p.outstanding_lp_tokens * amount0) \div p.reserve0,
                (p.outstanding_lp_tokens * amount1) \div p.reserve1)

\* The code adds the amounts to an empty pool unchecked; what exists of an
\* asset fits in a u64, so that the two do not differ.
mint_refused(p, amount0, amount1) ==
    \/ p.reserve0 + amount0 > U64
    \/ p.reserve1 + amount1 > U64
    \/ p.outstanding_lp_tokens + lp_tokens_minted(p, amount0, amount1) > U64

\* Mutant: a later position counts the larger side.
mint_larger_side(p, amount0, amount1) ==
    LET lp(amount, reserve) == (p.outstanding_lp_tokens * amount) \div reserve
        minted == IF is_empty(p)
                  THEN lp_tokens_minted(p, amount0, amount1)
                  ELSE lp(amount0, p.reserve0) + lp(amount1, p.reserve1)
                       - lp_tokens_minted(p, amount0, amount1)
    IN  [p EXCEPT !.reserve0 = @ + amount0, !.reserve1 = @ + amount1,
                  !.outstanding_lp_tokens = @ + minted]

mint(p, amount0, amount1) ==
    [p EXCEPT !.reserve0 = @ + amount0,
              !.reserve1 = @ + amount1,
              !.outstanding_lp_tokens = @ + lp_tokens_minted(p, amount0, amount1)]

\* revert_mint subtracts, and mints again to see whether it gets back.
unminted(p, amount0, amount1, lp) ==
    [p EXCEPT !.reserve0 = @ - amount0, !.reserve1 = @ - amount1,
              !.outstanding_lp_tokens = @ - lp]

revert_mint_refused(p, amount0, amount1, lp) ==
    \/ amount0 > p.reserve0
    \/ amount1 > p.reserve1
    \/ lp > p.outstanding_lp_tokens
    \/ LET q == unminted(p, amount0, amount1, lp)
       IN  mint_refused(q, amount0, amount1) \/ mint(q, amount0, amount1) # p

-----------------------------------------------------------------------------
payout(p, reserve, lp_token_burn) == (reserve * lp_token_burn) \div p.outstanding_lp_tokens

burn_refused(p, lp_token_burn) ==
    \/ p.outstanding_lp_tokens = 0
    \/ payout(p, p.reserve0, lp_token_burn) > p.reserve0
    \/ payout(p, p.reserve1, lp_token_burn) > p.reserve1
    \/ lp_token_burn > p.outstanding_lp_tokens

burn(p, lp_token_burn) ==
    [p EXCEPT !.reserve0 = @ - payout(p, p.reserve0, lp_token_burn),
              !.reserve1 = @ - payout(p, p.reserve1, lp_token_burn),
              !.outstanding_lp_tokens = @ - lp_token_burn]

unburn_refused(p, lp_token_unburn, payout0, payout1) ==
    \/ p.outstanding_lp_tokens + lp_token_unburn > U64
    \/ p.reserve0 + payout0 > U64
    \/ p.reserve1 + payout1 > U64

unburn(p, lp_token_unburn, payout0, payout1) ==
    [p EXCEPT !.reserve0 = @ + payout0,
              !.reserve1 = @ + payout1,
              !.outstanding_lp_tokens = @ + lp_token_unburn]

-----------------------------------------------------------------------------
\* A swap of amount_spend into a pool with spend_reserve of that asset and
\* receive_reserve of the other.  A fee of 3/1000 is taken on both sides; the
\* division that fixes the price rounds up, in favour of the pool.

\* Mutant: the fee is what is left.
after_fee_swapped(amount) == (amount * 3) \div 1000

after_fee(amount) == (amount * 997) \div 1000

effective_spend_asset_reserve(spend_reserve, amount_spend) ==
    spend_reserve + after_fee(amount_spend)

new_receive_asset_reserve_before_fee(spend_reserve, receive_reserve, amount_spend) ==
    div_ceil(spend_reserve * receive_reserve,
             effective_spend_asset_reserve(spend_reserve, amount_spend))

amount_receive_after_fee(spend_reserve, receive_reserve, amount_spend) ==
    after_fee(receive_reserve
              - new_receive_asset_reserve_before_fee(spend_reserve, receive_reserve, amount_spend))

\* div_ceil by zero: an empty side, and an amount that the fee takes whole.
swap_panics(spend_reserve, amount_spend) ==
    effective_spend_asset_reserve(spend_reserve, amount_spend) = 0

swap_refused(spend_reserve, receive_reserve, amount_spend) ==
    \/ new_receive_asset_reserve_before_fee(spend_reserve, receive_reserve, amount_spend)
            > receive_reserve
    \/ spend_reserve + amount_spend > U64

swap_asset0_for_asset1(p, amount_spend) ==
    [p EXCEPT !.reserve0 = @ + amount_spend,
              !.reserve1 = @ - amount_receive_after_fee(p.reserve0, p.reserve1, amount_spend)]

swap_asset1_for_asset0(p, amount_spend) ==
    [p EXCEPT !.reserve0 = @ - amount_receive_after_fee(p.reserve1, p.reserve0, amount_spend),
              !.reserve1 = @ + amount_spend]

\* PoolState::revert_swap undoes the amounts, and swaps again to see whether it
\* gets back.  forward: asset0 was spent.
unswapped(p, forward, amount_spend, amount_receive) ==
    IF forward
    THEN [p EXCEPT !.reserve0 = @ - amount_spend, !.reserve1 = @ + amount_receive]
    ELSE [p EXCEPT !.reserve0 = @ + amount_receive, !.reserve1 = @ - amount_spend]

reswapped(q, forward, amount_spend) ==
    IF forward THEN swap_asset0_for_asset1(q, amount_spend)
               ELSE swap_asset1_for_asset0(q, amount_spend)

\* The unchecked subtraction wraps or panics; no swap that was applied gets
\* there.
revert_swap_panics(p, forward, amount_spend, amount_receive) ==
    LET q == unswapped(p, forward, amount_spend, amount_receive)
    IN  \/ q.reserve0 \notin Amount
        \/ q.reserve1 \notin Amount
        \/ swap_panics(IF forward THEN q.reserve0 ELSE q.reserve1, amount_spend)

revert_swap_refused(p, forward, amount_spend, amount_receive) ==
    LET q == unswapped(p, forward, amount_spend, amount_receive)
    IN  \/ swap_refused(IF forward THEN q.reserve0 ELSE q.reserve1,
                        IF forward THEN q.reserve1 ELSE q.reserve0, amount_spend)
        \/ reswapped(q, forward, amount_spend) # p
=============================================================================
