------------------------------ MODULE WalletBuild ------------------------------
(***************************************************************************)
(* How the wallet (lib/wallet.rs) selects coins and builds transactions.   *)
(*                                                                         *)
(* A wallet is [utxos, unconfirmed_utxos, next_index]; its coins are       *)
(* [content, addr], where the content of an unconfirmed one has no asset.  *)
(* An output of a transaction that is being built has, beside the kind and *)
(* the value that the transaction will list, the asset that it is meant to *)
(* hold and the index of its address, 0 for somebody else's; new addresses *)
(* are numbered by output.  A builder that fails returns Failed.  The keys *)
(* of a HashMap come in some order.                                        *)
(***************************************************************************)
EXTENDS FilledTx

Failed == [ok |-> FALSE]

Wallet(utxos, unconfirmed, next_index) ==
    [utxos |-> utxos, unconfirmed_utxos |-> unconfirmed, next_index |-> next_index]

NewAddress(w, k) == w.next_index + k

\* OutputContent: an amount of an asset, or its control coin.
OutputOf(asset, amount, addr) ==
    [kind |-> <<"Bitcoin", "BitAsset", "BitAssetControl">>[asset[1] + 1],
     value |-> IF asset[1] = 2 THEN 0 ELSE amount, meant |-> asset, addr |-> addr]
LpOutput(pair, amount, addr) ==
    [kind |-> "AmmLpToken", value |-> amount, meant |-> pair, addr |-> addr]
BareOutput(kind, addr) == [kind |-> kind, value |-> 0, meant |-> <<>>, addr |-> addr]

\* Only when there is change.
Change(asset, amount, addr) == IF amount = 0 THEN <<>> ELSE <<OutputOf(asset, amount, addr)>>

Built(inputs, outputs, data) ==
    [ok |-> TRUE, inputs |-> inputs, outputs |-> outputs, data |-> data]

\* Transaction::default()
EmptyTx == Built(<<>>, <<>>, [kind |-> "Regular"])

-----------------------------------------------------------------------------
\* sort_unstable_by_key on the value.
ByValue(coins, S) ==
    SetToSortSeq({[outpoint |-> o, value |-> coins[o].content.value] : o \in S},
                 LAMBDA a, b : a.value < b.value)

\* The loop over sorted coins, up to the one after which Enough holds.
SelectFrom(sorted, Enough(_)) ==
    FoldLeft(LAMBDA s, c : IF Enough(s.total) THEN s
                           ELSE [total |-> s.total + c.value, coins |-> s.coins \cup {c.outpoint}],
             [total |-> 0, coins |-> {}], sorted)

Selection(s, value) == [ok |-> s.total >= value, total |-> s.total, coins |-> s.coins]

Sats(coins) == {o \in DOMAIN coins : coins[o].content.kind = "Bitcoin" /\ coins[o].content.value # 0}

\* Mutant: what is unconfirmed first.
select_bitcoins_unconfirmed_first(w, value) ==
    Selection(SelectFrom(ByValue(w.unconfirmed_utxos, Sats(w.unconfirmed_utxos))
                             \o ByValue(w.utxos, Sats(w.utxos)),
                         LAMBDA total : total >= value), value)

\* What is confirmed first.  A coin in both databases is counted twice.
select_bitcoins(w, value) ==
    Selection(SelectFrom(ByValue(w.utxos, Sats(w.utxos))
                             \o ByValue(w.unconfirmed_utxos, Sats(w.unconfirmed_utxos)),
                         LAMBDA total : total >= value), value)

Holding(w, kind, of) ==
    {o \in DOMAIN w.utxos : w.utxos[o].content.kind = kind /\ w.utxos[o].content.of = of}

\* One coin more when the total is the amount.
select_bitasset_utxos(w, bitasset, value) ==
    Selection(SelectFrom(ByValue(w.utxos, Holding(w, "BitAsset", bitasset)),
                         LAMBDA total : total > value), value)

\* The first output with bitasset(), which a control coin does not have.
select_bitasset_control(w, id) ==
    LET held == Holding(w, "BitAsset", BitAsset(id))
    IN  IF held = {} THEN Failed ELSE [ok |-> TRUE, total |-> 1, coins |-> {CHOOSE o \in held : TRUE}]

select_asset_utxos(w, asset, amount) ==
    CASE asset[1] = 0 -> select_bitcoins(w, amount)
      [] asset[1] = 1 -> select_bitasset_utxos(w, asset, amount)
      [] asset[1] = 2 -> IF amount = 1 THEN select_bitasset_control(w, asset[2]) ELSE Failed

select_amm_lp_tokens(w, pair, amount) ==
    Selection(SelectFrom(ByValue(w.utxos, Holding(w, "AmmLpToken", pair)),
                         LAMBDA total : total > amount), amount)

Keys(selection) == SetToSeq(selection.coins)

-----------------------------------------------------------------------------
create_regular_transaction(w, fee) ==
    LET s == select_bitcoins(w, fee)
    IN  IF ~s.ok THEN Failed
        ELSE Built(Keys(s), <<OutputOf(Bitcoin, s.total - fee, NewAddress(w, 1))>>, [kind |-> "Regular"])

\* The payout and the mainchain fee are one value here.
create_withdrawal(w, value, fee) ==
    LET s == select_bitcoins(w, value + fee)
        payout == [kind |-> "Withdrawal", value |-> value, meant |-> Bitcoin, addr |-> NewAddress(w, 1)]
    IN  IF ~s.ok THEN Failed
        ELSE Built(Keys(s), <<payout, OutputOf(Bitcoin, s.total - value - fee, NewAddress(w, 2))>>,
                   [kind |-> "Regular"])

\* Mutant: the fee is not taken off the change.
create_transfer_many_without_fee(w, values, fee) ==
    LET value == SumOf(values, LAMBDA v : v)
        s == select_bitcoins(w, value + fee)
    IN  IF values = <<>> \/ ~s.ok THEN Failed
        ELSE Built(Keys(s), [i \in DOMAIN values |-> OutputOf(Bitcoin, values[i], 0)]
                                \o Change(Bitcoin, s.total - value, NewAddress(w, 1)),
                   [kind |-> "Regular"])

\* create_transfer_to: values, one for each destination.
create_transfer_many(w, values, fee) ==
    LET value == SumOf(values, LAMBDA v : v)
        s == select_bitcoins(w, value + fee)
    IN  IF values = <<>> \/ ~s.ok THEN Failed
        ELSE Built(Keys(s), [i \in DOMAIN values |-> OutputOf(Bitcoin, values[i], 0)]
                                \o Change(Bitcoin, s.total - value - fee, NewAddress(w, 1)),
                   [kind |-> "Regular"])

create_transfer(w, value, fee) == create_transfer_many(w, <<value>>, fee)

create_bitasset_transfer(w, asset, amount, fee) ==
    LET s == select_bitcoins(w, fee)
        b == select_bitasset_utxos(w, asset, amount)
    IN  IF ~s.ok \/ ~b.ok THEN Failed
        ELSE Built(Keys(s) \o Keys(b),
                   <<OutputOf(asset, amount, 0)>>
                       \o Change(Bitcoin, s.total - fee, NewAddress(w, 1))
                       \o Change(asset, b.total - amount, NewAddress(w, 2)),
                   [kind |-> "Regular"])

-----------------------------------------------------------------------------
\* hmac(signing key of the address, name hash)
Nonce(addr, name) == keyed_hash(addr, name)

\* The address of the last output, when it is the wallet's.
LastAddress(w, tx) ==
    IF tx.outputs # <<>> /\ Last(tx.outputs).addr # 0 THEN Last(tx.outputs).addr
    ELSE NewAddress(w, Len(tx.outputs) + 1)

\* A transaction that is a reservation already gets another name.
reserve_bitasset(w, tx, name) ==
    LET again == tx.data.kind = "BitAssetReservation"
        addr == IF again THEN Last(OfKind(tx.outputs, {"BitAssetReservation"})).addr
                ELSE LastAddress(w, tx)
    IN  Built(tx.inputs, IF again THEN tx.outputs
                         ELSE Append(tx.outputs, BareOutput("BitAssetReservation", addr)),
              [kind |-> "BitAssetReservation", commitment |-> keyed_hash(Nonce(addr, name), name)])

\* The reservations of the name, by the address that each of them pays.
ReservationsOf(w, name) ==
    {o \in DOMAIN w.utxos :
        /\ w.utxos[o].content.kind = "BitAssetReservation"
        /\ w.utxos[o].content.of[2] = keyed_hash(Nonce(w.utxos[o].addr, name), name)}

register_bitasset(w, tx, name, initial_supply) ==
    LET reservation == CHOOSE o \in ReservationsOf(w, name) : TRUE
        addr == LastAddress(w, tx)
    IN  IF ReservationsOf(w, name) = {} THEN Failed
        ELSE Built(Append(tx.inputs, reservation),
                   tx.outputs \o Change(BitAsset(name), initial_supply, addr)
                       \o <<OutputOf(BitAssetControl(name), 1, addr)>>,
                   [kind |-> "BitAssetRegistration", name_hash |-> name,
                    revealed_nonce |-> Nonce(w.utxos[reservation].addr, name),
                    bitasset_data |-> <<>>, initial_supply |-> initial_supply])

-----------------------------------------------------------------------------
\* The builders below are given a regular transaction tx, and add to it.
After(tx, k) == Len(tx.outputs) + k

amm_mint(w, tx, asset0, asset1, amount0, amount1, lp_token_mint) ==
    LET s0 == select_asset_utxos(w, asset0, amount0)
        s1 == select_asset_utxos(w, asset1, amount1)
    IN  IF ~s0.ok \/ ~s1.ok THEN Failed
        ELSE Built(Keys(s0) \o Keys(s1) \o tx.inputs,
                   tx.outputs \o Change(asset0, s0.total - amount0, NewAddress(w, After(tx, 1)))
                       \o Change(asset1, s1.total - amount1, NewAddress(w, After(tx, 2)))
                       \o <<LpOutput(AmmPair(asset0, asset1), lp_token_mint, NewAddress(w, After(tx, 3)))>>,
                   [kind |-> "AmmMint", amount0 |-> amount0, amount1 |-> amount1,
                    lp_token_mint |-> lp_token_mint])

amm_burn(w, tx, asset0, asset1, amount0, amount1, lp_token_burn) ==
    LET s == select_amm_lp_tokens(w, <<asset0, asset1>>, lp_token_burn)
    IN  IF ~s.ok THEN Failed
        ELSE Built(Keys(s) \o tx.inputs,
                   tx.outputs
                       \o (IF s.total = lp_token_burn THEN <<>>
                           ELSE <<LpOutput(<<asset0, asset1>>, s.total - lp_token_burn,
                                           NewAddress(w, After(tx, 1)))>>)
                       \o <<OutputOf(asset0, amount0, NewAddress(w, After(tx, 2))),
                            OutputOf(asset1, amount1, NewAddress(w, After(tx, 3)))>>,
                   [kind |-> "AmmBurn", amount0 |-> amount0, amount1 |-> amount1,
                    lp_token_burn |-> lp_token_burn])

amm_swap(w, tx, asset_spend_, asset_receive, amount_spend, amount_receive) ==
    LET s == select_asset_utxos(w, asset_spend_, amount_spend)
    IN  IF ~s.ok THEN Failed
        ELSE Built(Keys(s) \o tx.inputs,
                   tx.outputs \o Change(asset_spend_, s.total - amount_spend, NewAddress(w, After(tx, 1)))
                       \o <<OutputOf(asset_receive, amount_receive, NewAddress(w, After(tx, 2)))>>,
                   [kind |-> "AmmSwap", amount_spent |-> amount_spend,
                    amount_receive |-> amount_receive, pair_asset |-> asset_receive])

\* The base coins are added behind the inputs.
dutch_auction_create(w, tx, base_asset, base_amount, quote_asset) ==
    LET s == select_asset_utxos(w, base_asset, base_amount)
    IN  IF ~s.ok THEN Failed
        ELSE Built(tx.inputs \o Keys(s),
                   tx.outputs \o Change(base_asset, s.total - base_amount, NewAddress(w, After(tx, 1)))
                       \o <<BareOutput("DutchAuctionReceipt", NewAddress(w, After(tx, 2)))>>,
                   [kind |-> "DutchAuctionCreate", base_asset |-> base_asset,
                    base_amount |-> base_amount, quote_asset |-> quote_asset])

\* The change comes behind what the bid receives.
dutch_auction_bid(w, tx, auction_id, base_asset, quote_asset, bid_size, receive_quantity) ==
    LET s == select_asset_utxos(w, quote_asset, bid_size)
    IN  IF ~s.ok THEN Failed
        ELSE Built(Keys(s) \o tx.inputs,
                   tx.outputs
                       \o <<OutputOf(base_asset, receive_quantity, NewAddress(w, After(tx, 1)))>>
                       \o Change(quote_asset, s.total - bid_size, NewAddress(w, After(tx, 2))),
                   [kind |-> "DutchAuctionBid", auction_id |-> auction_id, receive_asset |-> base_asset,
                    quantity |-> receive_quantity, bid_size |-> bid_size])

select_dutch_auction_receipt(w, auction_id) ==
    {o \in DOMAIN w.utxos : w.utxos[o].content = ReceiptContent(auction_id)}

dutch_auction_collect(w, tx, auction_id, base_asset, quote_asset, amount_base, amount_quote) ==
    LET receipts == select_dutch_auction_receipt(w, auction_id)
    IN  IF receipts = {} THEN Failed
        ELSE Built(<<CHOOSE o \in receipts : TRUE>> \o tx.inputs,
                   tx.outputs \o Change(base_asset, amount_base, NewAddress(w, After(tx, 1)))
                       \o Change(quote_asset, amount_quote, NewAddress(w, After(tx, 2))),
                   [kind |-> "DutchAuctionCollect", asset_offered |-> base_asset,
                    asset_receive |-> quote_asset, amount_offered_remaining |-> amount_base,
                    amount_received |-> amount_quote])
=============================================================================
