---------------------------- MODULE DutchAuction ----------------------------
(***************************************************************************)
(* Dutch auctions (lib/state/dutch_auction.rs): DutchAuctionState and its  *)
(* methods, as operators on one auction a.  Beside an operator f stand     *)
(* f_refused (the method returns an error) and f_panics (an assert! fails  *)
(* or an unsigned subtraction underflows).                                 *)
(***************************************************************************)
EXTENDS Amm, TxidStamped

CONSTANT U32   \* the greatest u32, a block height

ASSUME U32Assumption == U32 \in Nat

-----------------------------------------------------------------------------
\* apply_create: params are the DutchAuctionParams of the transaction.
create_refused(params, height) ==
    \/ height >= params.start_block
    \/ params.final_price > params.initial_price
    \/ params.duration = 0
    \/ params.duration = 1 /\ params.final_price # params.initial_price

create(params, txid, height) ==
    LET new_at(value) == new_history(value, txid, height)
    IN  [start_block |-> params.start_block,
         duration |-> params.duration,
         base_asset |-> params.base_asset,
         initial_base_amount |-> params.base_amount,
         quote_asset |-> params.quote_asset,
         initial_price |-> params.initial_price,
         initial_end_price |-> params.final_price,
         most_recent_bid_block |-> new_at(params.start_block),
         base_amount_remaining |-> new_at(params.base_amount),
         quote_amount |-> new_at(0),
         price_after_most_recent_bid |-> new_at(params.initial_price),
         end_price_after_most_recent_bid |-> new_at(params.final_price)]

-----------------------------------------------------------------------------
\* The latest value of each history.
bid_block(a) == latest_of(a.most_recent_bid_block).data
base_remaining(a) == latest_of(a.base_amount_remaining).data
quote_received(a) == latest_of(a.quote_amount).data
price_after(a) == latest_of(a.price_after_most_recent_bid).data
end_price_after(a) == latest_of(a.end_price_after_most_recent_bid).data

\* start_block.saturating_add(duration - 1), and of the duration itself.
end_block(a) == IntMin(a.start_block + a.duration - 1, U32)
finish_block(a) == IntMin(a.start_block + a.duration, U32)

elapsed_blocks(a, height) == height - bid_block(a)
remaining_duration(a) == end_block(a) - bid_block(a)

\* The price falls linearly from the one after the most recent bid.
price_decrease(a, height) ==
    ((price_after(a) - end_price_after(a)) * elapsed_blocks(a, height))
        \div remaining_duration(a)

price(a, height) ==
    IF remaining_duration(a) = 0
    THEN price_after(a)
    ELSE price_after(a) - price_decrease(a, height)

order_quantity(a, bid_amount, height) ==
    div_ceil(bid_amount * base_remaining(a), price(a, height))

bid_not_open(a, height) ==
    \/ height < a.start_block
    \/ height > end_block(a)
    \/ base_remaining(a) = 0

\* assert!(elapsed_blocks / remaining_duration < 1), and the subtractions.
bid_panics(a, bid_amount, height) ==
    /\ height >= a.start_block
    /\ \/ height < bid_block(a)
       \/ /\ ~bid_not_open(a, height)
          /\ \/ remaining_duration(a) < 0
             \/ /\ remaining_duration(a) # 0
                /\ \/ price_after(a) < end_price_after(a)
                   \/ elapsed_blocks(a, height) \div remaining_duration(a) >= 1

bid_refused(a, bid_amount, height) ==
    \/ bid_not_open(a, height)
    \/ price(a, height) = 0
    \/ order_quantity(a, bid_amount, height) > base_remaining(a)

end_price_next(a, new_base) == div_ceil(end_price_after(a) * new_base, base_remaining(a))

\* Mutant: the end price is not scaled to what is left.
bid_keeps_end_price(a, txid, bid_amount, height) ==
    [a EXCEPT !.most_recent_bid_block = push_stamped(@, height, txid, height),
              !.base_amount_remaining =
                  push_stamped(@, base_remaining(a) - order_quantity(a, bid_amount, height),
                               txid, height),
              !.quote_amount = push_stamped(@, quote_received(a) + bid_amount, txid, height),
              !.price_after_most_recent_bid =
                  push_stamped(@, price(a, height) - bid_amount, txid, height),
              !.end_price_after_most_recent_bid =
                  push_stamped(@, end_price_after(a), txid, height)]

bid(a, txid, bid_amount, height) ==
    LET new_base == base_remaining(a) - order_quantity(a, bid_amount, height)
        pushed(r, value) == push_stamped(r, value, txid, height)
    IN  [a EXCEPT !.most_recent_bid_block = pushed(@, height),
                  !.base_amount_remaining = pushed(@, new_base),
                  !.quote_amount = pushed(@, quote_received(a) + bid_amount),
                  !.price_after_most_recent_bid = pushed(@, price(a, height) - bid_amount),
                  !.end_price_after_most_recent_bid = pushed(@, end_price_next(a, new_base))]

\* Every history must have been pushed last by this transaction.
revert_bid_panics(a, txid) ==
    ~(/\ PoppedBy(a.most_recent_bid_block, txid)
      /\ PoppedBy(a.base_amount_remaining, txid)
      /\ PoppedBy(a.quote_amount, txid)
      /\ PoppedBy(a.price_after_most_recent_bid, txid)
      /\ PoppedBy(a.end_price_after_most_recent_bid, txid))

revert_bid(a) ==
    [a EXCEPT !.most_recent_bid_block = pop_stamped(@),
              !.base_amount_remaining = pop_stamped(@),
              !.quote_amount = pop_stamped(@),
              !.price_after_most_recent_bid = pop_stamped(@),
              !.end_price_after_most_recent_bid = pop_stamped(@)]

-----------------------------------------------------------------------------
\* c is the DutchAuctionCollect of the transaction.
collect_refused(a, c, height) ==
    \/ a.base_asset # c.asset_offered
    \/ a.quote_asset # c.asset_receive
    \/ height < finish_block(a)
    \/ c.amount_offered_remaining # base_remaining(a)
    \/ c.amount_received # quote_received(a)

collect(a, txid, height) ==
    [a EXCEPT !.base_amount_remaining = push_stamped(@, 0, txid, height),
              !.quote_amount = push_stamped(@, 0, txid, height)]

revert_collect(a) ==
    [a EXCEPT !.base_amount_remaining = pop_stamped(@),
              !.quote_amount = pop_stamped(@)]

revert_collect_panics(a, c, txid) ==
    ~(/\ PoppedBy(a.base_amount_remaining, txid)
      /\ PoppedBy(a.quote_amount, txid)
      /\ base_remaining(a) = 0
      /\ quote_received(a) = 0
      /\ base_remaining(revert_collect(a)) = c.amount_offered_remaining
      /\ quote_received(revert_collect(a)) = c.amount_received)
=============================================================================
