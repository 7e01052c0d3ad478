------------------------------- MODULE FilledTx -------------------------------
(***************************************************************************)
(* Transactions filled with the outputs they spend                         *)
(* (lib/types/transaction/mod.rs, output.rs), and the outputs that a       *)
(* filled transaction creates.                                             *)
(*                                                                         *)
(* A transaction is [txid, inputs, outputs, data]; a filled one carries    *)
(* spent_utxos beside it.  An output is its content: [kind, of, value],    *)
(* where of says which asset, pair, reservation or auction the content     *)
(* belongs to; the contents that a transaction lists have kind and value   *)
(* only.  Addresses and memos are left out.                                *)
(***************************************************************************)
EXTENDS Integers, Sequences, SequencesExt, FiniteSetsExt

CONSTANT MaxAmount   \* the greatest u64

Overflow == -1       \* Option<u64>::None

checked_add(x, y) == IF x + y > MaxAmount THEN Overflow ELSE x + y
checked_sub(x, y) == IF y > x THEN Overflow ELSE x - y

-----------------------------------------------------------------------------
\* AssetId, and its derived order.
Bitcoin == <<0, 0>>
BitAsset(id) == <<1, id>>
BitAssetControl(id) == <<2, id>>

Precedes(a, b) == a[1] < b[1] \/ (a[1] = b[1] /\ a[2] < b[2])

AmmPair(a, b) == IF Precedes(b, a) THEN <<b, a>> ELSE <<a, b>>

\* FilledOutputContent
BitcoinContent(v) == [kind |-> "Bitcoin", of |-> Bitcoin, value |-> v]
WithdrawalContent(v) == [kind |-> "Withdrawal", of |-> Bitcoin, value |-> v]
BitAssetContent(asset, v) == [kind |-> "BitAsset", of |-> asset, value |-> v]
ControlContent(asset) == [kind |-> "BitAssetControl", of |-> asset, value |-> 1]
LpContent(pair, v) == [kind |-> "AmmLpToken", of |-> pair, value |-> v]
ReservationContent(txid, commitment) ==
    [kind |-> "BitAssetReservation", of |-> <<txid, commitment>>, value |-> 0]
ReceiptContent(auction) == [kind |-> "DutchAuctionReceipt", of |-> <<auction>>, value |-> 0]

\* get_bitcoin_value: of a withdrawal, the payout and the mainchain fee.
get_bitcoin_value(c) == IF c.kind \in {"Bitcoin", "Withdrawal"} THEN c.value ELSE 0

\* keyed_hash(revealed_nonce, name_hash), without collisions.
keyed_hash(nonce, name_hash) == <<nonce, name_hash>>

-----------------------------------------------------------------------------
\* Transaction::is_...
Is(f, kind) == f.data.kind = kind

implied_reservation_commitment(f) == keyed_hash(f.data.revealed_nonce, f.data.name_hash)

\* FoldLeft, as a recursive function.
Fold(start, Op(_, _), seq) ==
    LET after[n \in 0 .. Len(seq)] == IF n = 0 THEN start ELSE Op(after[n - 1], seq[n])
    IN  after[Len(seq)]

\* The filter of an iterator.
AppendOf(kept, c, kinds) == IF c.kind \in kinds THEN Append(kept, c) ELSE kept

OfKind(contents, kinds) == Fold(<<>>, LAMBDA kept, c : AppendOf(kept, c, kinds), contents)

spent_reservations(f) == OfKind(f.spent_utxos, {"BitAssetReservation"})
spent_bitassets(f) == OfKind(f.spent_utxos, {"BitAsset"})
spent_bitasset_controls(f) == OfKind(f.spent_utxos, {"BitAssetControl"})
spent_assets(f) == OfKind(f.spent_utxos, {"Bitcoin", "BitAsset", "BitAssetControl"})
spent_dutch_auction_receipts(f) == OfKind(f.spent_utxos, {"DutchAuctionReceipt"})
spent_lp_tokens(f) == OfKind(f.spent_utxos, {"AmmLpToken"})

\* unique_by: what the contents belong to, in the order of first occurrence,
\* with the combined value, which stays below MaxAmount: u64 += in the code.
unique(contents) ==
    LET first(c) == {i \in DOMAIN contents : contents[i].of = c.of}
        total(c) == MapThenSumSet(LAMBDA i : contents[i].value, first(c))
        firsts == {i \in DOMAIN contents : i = Min(first(contents[i]))}
        order == SetToSortSeq(firsts, <)
    IN  [k \in DOMAIN order |->
            [of |-> contents[order[k]].of, value |-> total(contents[order[k]])]]

unique_spent_bitassets(f) == unique(spent_bitassets(f))
unique_spent_assets(f) == unique(spent_assets(f))
unique_spent_lp_tokens(f) == unique(spent_lp_tokens(f))

SumOf(contents, Value(_)) == Fold(0, LAMBDA n, c : n + Value(c), contents)

\* The checked sums do not overflow, with no more sats than there are.
spent_bitcoin_value(f) == SumOf(f.spent_utxos, get_bitcoin_value)
bitcoin_value_out(f) == SumOf(f.outputs, get_bitcoin_value)

Underfunded(f) == bitcoin_value_out(f) > spent_bitcoin_value(f)
bitcoin_fee(f) == spent_bitcoin_value(f) - bitcoin_value_out(f)

-----------------------------------------------------------------------------
\* The accessors amm_burn(), amm_mint(), ... return nothing when the inputs
\* they take their assets from are missing.
HasBurn(f) == Is(f, "AmmBurn") /\ spent_lp_tokens(f) # <<>>
HasMint(f) == Is(f, "AmmMint") /\ Len(unique_spent_assets(f)) >= 2
HasSwap(f) == Is(f, "AmmSwap") /\ spent_assets(f) # <<>>
HasBid(f) == Is(f, "DutchAuctionBid") /\ spent_assets(f) # <<>>
HasCollect(f) == Is(f, "DutchAuctionCollect") /\ spent_dutch_auction_receipts(f) # <<>>
HasBitAssetMint(f) == Is(f, "BitAssetMint") /\ spent_bitasset_controls(f) # <<>>

burn_pair(f) == unique_spent_lp_tokens(f)[1].of
mint_pair(f) ==
    LET pair(spent) == AmmPair(spent[1].of, spent[2].of) IN pair(unique_spent_assets(f))
asset_spend(f) == unique_spent_assets(f)[1].of
collected_auction(f) == spent_dutch_auction_receipts(f)[1].of[1]
minted_bitasset(f) == BitAsset(Last(spent_bitasset_controls(f)).of[2])

-----------------------------------------------------------------------------
\* What the data of the transaction adds to or takes from the assets that it
\* spends.
credit(asset, amount) == [of |-> asset, amount |-> amount, credit |-> TRUE]
debit(asset, amount) == [of |-> asset, amount |-> amount, credit |-> FALSE]

moves(f) ==
    CASE HasBurn(f) -> <<credit(burn_pair(f)[1], f.data.amount0),
                         credit(burn_pair(f)[2], f.data.amount1)>>
      [] HasMint(f) -> <<debit(mint_pair(f)[1], f.data.amount0),
                         debit(mint_pair(f)[2], f.data.amount1)>>
      [] HasSwap(f) -> <<debit(asset_spend(f), f.data.amount_spent),
                         credit(f.data.pair_asset, f.data.amount_receive)>>
      [] HasBid(f) -> <<credit(f.data.receive_asset, f.data.quantity),
                        debit(asset_spend(f), f.data.bid_size)>>
      [] Is(f, "DutchAuctionCreate") -> <<debit(f.data.base_asset, f.data.base_amount)>>
      [] HasCollect(f) -> <<credit(f.data.asset_offered, f.data.amount_offered_remaining),
                            credit(f.data.asset_receive, f.data.amount_received)>>
      [] OTHER -> <<>>

\* The total of a spent asset after the first of the moves that is about it.
moved_total(f, ms, u) ==
    LET hits == {i \in DOMAIN ms : ms[i].of = u.of}
        m == ms[Min(hits)]
        value == IF HasBitAssetMint(f) /\ minted_bitasset(f) = u.of
                 THEN checked_add(u.value, f.data.amount)
                 ELSE IF hits = {} THEN u.value
                 ELSE IF m.credit THEN checked_add(u.value, m.amount)
                 ELSE checked_sub(u.value, m.amount)
    IN  [of |-> u.of, value |-> value]

\* The chained entries: the closure of map() is move, so the Options that it
\* clears are its own copies, and every move is chained again.
chained(ms) ==
    [i \in DOMAIN ms |->
        [of |-> ms[i].of, value |-> IF ms[i].credit THEN ms[i].amount ELSE Overflow]]

new_bitasset(f) ==
    IF Is(f, "BitAssetRegistration") /\ f.data.initial_supply # 0
    THEN <<[of |-> BitAsset(f.data.name_hash), value |-> f.data.initial_supply],
           [of |-> BitAssetControl(f.data.name_hash), value |-> 1]>>
    ELSE <<>>

NonZero(totals) == SelectSeq(totals, LAMBDA t : t.value # 0)

output_asset_total_values(f) ==
    LET moved(ms, spent) == [i \in DOMAIN spent |-> moved_total(f, ms, spent[i])]
        totals(ms) == NonZero(moved(ms, unique_spent_assets(f))) \o chained(ms)
    IN  totals(moves(f)) \o new_bitasset(f)

OfRank(totals, rank) == SelectSeq(totals, LAMBDA t : t.of[1] = rank)

output_bitasset_total_values(totals) == OfRank(totals, 1)

\* The first entry that is about Bitcoin.
output_bitcoin_max_value(totals) ==
    LET entries == OfRank(totals, 0)
    IN  IF entries = <<>> THEN 0 ELSE entries[1].value

\* As above for LP tokens: a burn is chained as an underflow, a mint in full.
output_lp_token_total_amounts(f) ==
    LET spent == unique_spent_lp_tokens(f)
        amount(u) == IF HasBurn(f) /\ burn_pair(f) = u.of
                     THEN checked_sub(u.value, f.data.lp_token_burn)
                     ELSE IF HasMint(f) /\ mint_pair(f) = u.of
                     THEN checked_add(u.value, f.data.lp_token_mint)
                     ELSE u.value
    IN  [i \in DOMAIN spent |-> [of |-> spent[i].of, value |-> amount(spent[i])]]
        \o (IF HasBurn(f) THEN <<[of |-> burn_pair(f), value |-> Overflow]>> ELSE <<>>)
        \o (IF HasMint(f) THEN <<[of |-> mint_pair(f), value |-> f.data.lp_token_mint]>>
                          ELSE <<>>)

\* The control coins, by their assets.
filled_bitasset_control_output_content(totals) == OfRank(totals, 2)

\* A collect burns the first receipt; a create adds one at the end.
filled_dutch_auction_receipts(f) ==
    (IF Is(f, "DutchAuctionCollect") /\ spent_dutch_auction_receipts(f) # <<>>
     THEN Tail(spent_dutch_auction_receipts(f)) ELSE spent_dutch_auction_receipts(f))
    \o (IF Is(f, "DutchAuctionCreate") THEN <<ReceiptContent(f.txid)>> ELSE <<>>)

\* A registration burns the first reservation that commits to it; a
\* reservation adds one at the end.
BurnedReservations(f) ==
    {i \in DOMAIN spent_reservations(f) :
        /\ Is(f, "BitAssetRegistration")
        /\ spent_reservations(f)[i].of[2] = implied_reservation_commitment(f)}

filled_reservation_output_content(f) ==
    (IF BurnedReservations(f) = {} THEN spent_reservations(f)
     ELSE RemoveAt(spent_reservations(f), Min(BurnedReservations(f))))
    \o (IF Is(f, "BitAssetReservation")
        THEN <<ReservationContent(f.txid, f.data.commitment)>> ELSE <<>>)

-----------------------------------------------------------------------------
(***************************************************************************)
(* filled_outputs(): each output takes its content from the iterator of    *)
(* its kind.  fill is the state of the iterators; ok turns FALSE when an   *)
(* output cannot be filled.  What is left at the end is not looked at.     *)
(***************************************************************************)
fill_start(f) ==
    LET start(totals) ==
            [ok |-> output_bitcoin_max_value(totals) # Overflow,
             bitcoin |-> output_bitcoin_max_value(totals),
             bitassets |-> output_bitasset_total_values(totals),
             lps |-> output_lp_token_total_amounts(f),
             controls |-> filled_bitasset_control_output_content(totals),
             receipts |-> filled_dutch_auction_receipts(f),
             reservations |-> filled_reservation_output_content(f),
             outputs |-> <<>>]
    IN  start(output_asset_total_values(f))

Refused(fill) == [fill EXCEPT !.ok = FALSE]

\* Mutant: the Greater arm is missing.
CanTake_any(totals, amount) == totals # <<>>

\* peek_mut() and the three-way comparison with what remains.
CanTake(totals, amount) == totals # <<>> /\ totals[1].value # Overflow /\ amount <= totals[1].value

take(totals, amount) ==
    IF amount = totals[1].value THEN Tail(totals)
    ELSE [totals EXCEPT ![1].value = @ - amount]

fill_output(fill, out) ==
    IF ~fill.ok THEN fill
    ELSE CASE out.kind = "BitAsset" ->
                IF CanTake(fill.bitassets, out.value)
                THEN [fill EXCEPT !.bitassets = take(@, out.value),
                                  !.outputs = Append(@, BitAssetContent(fill.bitassets[1].of, out.value))]
                ELSE Refused(fill)
           [] out.kind = "AmmLpToken" ->
                IF CanTake(fill.lps, out.value)
                THEN [fill EXCEPT !.lps = take(@, out.value),
                                  !.outputs = Append(@, LpContent(fill.lps[1].of, out.value))]
                ELSE Refused(fill)
           [] out.kind = "BitAssetControl" ->
                IF fill.controls # <<>>
                THEN [fill EXCEPT !.controls = Tail(@),
                                  !.outputs = Append(@, ControlContent(fill.controls[1].of))]
                ELSE Refused(fill)
           [] out.kind = "BitAssetReservation" ->
                IF fill.reservations # <<>>
                THEN [fill EXCEPT !.reservations = Tail(@), !.outputs = Append(@, fill.reservations[1])]
                ELSE Refused(fill)
           [] out.kind = "DutchAuctionReceipt" ->
                IF fill.receipts # <<>>
                THEN [fill EXCEPT !.receipts = Tail(@), !.outputs = Append(@, fill.receipts[1])]
                ELSE Refused(fill)
           [] out.kind = "Bitcoin" ->
                IF out.value <= fill.bitcoin
                THEN [fill EXCEPT !.bitcoin = @ - out.value,
                                  !.outputs = Append(@, BitcoinContent(out.value))]
                ELSE Refused(fill)
           [] out.kind = "Withdrawal" ->
                [fill EXCEPT !.outputs = Append(@, WithdrawalContent(out.value))]

filled_outputs(f) == Fold(fill_start(f), fill_output, f.outputs)

-----------------------------------------------------------------------------
\* State::validate_reservations
UnbalancedReservations(f) ==
    LET n_in == Len(spent_reservations(f))
        n_out == Len(OfKind(f.outputs, {"BitAssetReservation"}))
    IN  CASE Is(f, "BitAssetReservation") -> n_out # n_in + 1
          [] Is(f, "BitAssetRegistration") -> n_in # n_out + 1
          [] OTHER -> n_in # n_out

\* The part of State::validate_bitassets that looks at the transaction only:
\* first of a registration.
InvalidRegistration(f) ==
    LET n_in == Len(unique_spent_bitassets(f))
        n_out == Len(OfKind(f.outputs, {"BitAsset"}))
        n == Len(f.outputs)
    IN  \/ Len(OfKind(f.outputs, {"BitAssetControl"})) # Len(spent_bitasset_controls(f)) + 1
        \/ f.outputs[n].kind # "BitAssetControl"
        \/ f.data.initial_supply = 0 /\ n_out < n_in
        \/ f.data.initial_supply # 0 /\ (n_out < n_in + 1 \/ f.outputs[n - 1].kind # "BitAsset")
        \/ BurnedReservations(f) = {}

\* n_unique_bitasset_outputs is computed from the inputs.
InvalidBitAssets(f) ==
    \E n_in, n_unique_out \in {Len(unique_spent_bitassets(f))} :
    \E n_out \in {Len(OfKind(f.outputs, {"BitAsset"}))} :
    \E controls_in \in {Len(spent_bitasset_controls(f))} :
    \E controls_out \in {Len(OfKind(f.outputs, {"BitAssetControl"}))} :
        \/ Is(f, "BitAssetUpdate") /\ (controls_in < 1 \/ controls_out < 1)
        \/ Is(f, "AmmBurn") /\ (n_unique_out < 2 \/ n_in > n_unique_out \/ n_unique_out > n_in + 2)
        \/ Is(f, "AmmMint") /\ (n_in < 2 \/ n_unique_out > n_in \/ n_in > n_unique_out + 2)
        \/ /\ Is(f, "AmmSwap") \/ Is(f, "DutchAuctionBid")
           /\ n_in < 1 \/ n_unique_out \notin (n_in - 1) .. (n_in + 1)
        \/ /\ Is(f, "DutchAuctionCreate")
           /\ n_in < 1 \/ n_unique_out > n_in \/ n_in > n_unique_out + 1
        \/ /\ Is(f, "DutchAuctionCollect")
           /\ n_unique_out < 1 \/ n_in > n_unique_out \/ n_unique_out > n_in + 2
        \/ Is(f, "BitAssetRegistration") /\ InvalidRegistration(f)
        \/ /\ ~Is(f, "BitAssetRegistration")
           /\ controls_out # controls_in \/ n_out < n_in \/ (n_in = 0 /\ n_out # 0)

SpendsWithdrawal(f) == \E i \in DOMAIN f.spent_utxos : f.spent_utxos[i].kind = "Withdrawal"
=============================================================================
