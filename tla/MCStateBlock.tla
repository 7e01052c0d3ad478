----------------------------- MODULE MCStateBlock -----------------------------
(***************************************************************************)
(* Scenarios for StateBlock: names that compete and change, a pool and an  *)
(* auction.  Every scenario starts on the state that its prefix of blocks  *)
(* leaves; what its transactions do depends on the blocks they end up in.  *)
(***************************************************************************)
EXTENDS StateBlock

ASSUME AllSpend /\ PrefixOnce

Out(txid, vout) == Regular(txid, vout)
Coin(i) == <<"Deposit", "main", i>>

Sats(v) == [kind |-> "Bitcoin", value |-> v]
Asset(v) == [kind |-> "BitAsset", value |-> v]
Lp(v) == [kind |-> "AmmLpToken", value |-> v]
Peg(v) == [kind |-> "Withdrawal", value |-> v]
Control == [kind |-> "BitAssetControl", value |-> 0]
Reserved == [kind |-> "BitAssetReservation", value |-> 0]
Receipt == [kind |-> "DutchAuctionReceipt", value |-> 0]

Tx(txid, inputs, outputs, data) ==
    [txid |-> txid, inputs |-> inputs, outputs |-> outputs, data |-> data]

Blank == [x \in Field |-> NoValue]

Reserve(txid, coin, nonce, name) ==
    Tx(txid, <<Coin(coin)>>, <<Sats(9), Reserved>>,
       [kind |-> "BitAssetReservation", commitment |-> keyed_hash(nonce, name)])

Register(txid, reservation, nonce, name, amounts) ==
    Tx(txid, <<Out(reservation, 2)>>, [i \in DOMAIN amounts |-> Asset(amounts[i])] \o <<Control>>,
       [kind |-> "BitAssetRegistration", name_hash |-> name, revealed_nonce |-> nonce,
        bitasset_data |-> Blank, initial_supply |-> SumOf(amounts, LAMBDA v : v)])

\* Coins of 10 sats each.
Funded == [o \in {Coin(i) : i \in 1 .. 4} |-> BitcoinContent(10)]

-----------------------------------------------------------------------------
\* Two reservations of one name, by different nonces.
upd(txid, from, update) ==
    Tx(txid, <<Out(from, 1), Out(from, 2)>>, <<Asset(3), Control>>,
       [kind |-> "BitAssetUpdate", updates |-> [x \in Field |-> update]])

Names ==
    [utxos |-> Funded,
     prefix |-> <<<<Reserve("v1", 1, 7, 5), Reserve("v2", 2, 8, 5)>>>>,
     offered |-> {Register("g1", "v1", 7, 5, <<3>>),
                  Register("g2", "v2", 8, 5, <<4>>),
                  upd("u1", "g1", Set("x")),
                  upd("u2", "u1", Delete),
                  Tx("m1", <<Out("u1", 1), Out("u1", 2)>>, <<Asset(5), Control>>,
                     [kind |-> "BitAssetMint", amount |-> 2]),
                  Reserve("v3", 3, 9, 6),
                  Tx("w1", <<Out("v1", 1)>>, <<Peg(5), Sats(3)>>, [kind |-> "Regular"])}]

-----------------------------------------------------------------------------
\* Four BitAssets, registered in two blocks.
Issue(amounts) ==
    <<[i \in 1 .. 4 |-> Reserve(<<"v1", "v2", "v3", "v4">>[i], i, i, i)],
      [i \in 1 .. 4 |-> Register(<<"g1", "g2", "g3", "g4">>[i], <<"v1", "v2", "v3", "v4">>[i],
                                 i, i, amounts[i])]>>

Swap(txid, inputs, outputs, spent, receive, pair) ==
    Tx(txid, inputs, outputs, [kind |-> "AmmSwap", amount_spent |-> spent,
                               amount_receive |-> receive, pair_asset |-> BitAsset(pair)])

Mint(txid, inputs, outputs, amount0, amount1, lp) ==
    Tx(txid, inputs, outputs, [kind |-> "AmmMint", amount0 |-> amount0, amount1 |-> amount1,
                               lp_token_mint |-> lp])

Burn(txid, inputs, outputs, amount0, amount1, lp) ==
    Tx(txid, inputs, outputs, [kind |-> "AmmBurn", amount0 |-> amount0, amount1 |-> amount1,
                               lp_token_burn |-> lp])

PoolPrefix == Issue(<<<<20, 10, 10>>, <<20, 10, 10>>, <<1>>, <<1>>>>)

PoolTxs ==
    {Mint("p1", <<Out("g1", 1), Out("g2", 1)>>, <<Asset(8), Asset(5), Lp(13)>>, 12, 15, 13),
     Mint("p3", <<Out("g1", 1), Out("g2", 1)>>, <<Asset(9), Asset(5), Lp(13)>>, 12, 15, 13),
     Mint("p2", <<Out("g1", 2), Out("g2", 2)>>, <<Asset(4), Asset(4), Lp(5)>>, 6, 6, 5),
     Swap("s1", <<Out("g1", 3), Out("g2", 3)>>, <<Asset(6), Asset(12)>>, 4, 2, 2),
     Swap("s2", <<Out("s1", 2), Out("s1", 1)>>, <<Asset(7), Asset(8)>>, 5, 2, 1),
     Burn("b1", <<Out("p1", 3), Out("g3", 1), Out("g4", 1)>>,
          <<Asset(1), Asset(1), Asset(4), Asset(5), Lp(8)>>, 4, 5, 5),
     Burn("b2", <<Out("p1", 3), Out("g3", 1), Out("g4", 1)>>,
          <<Asset(1), Asset(1), Asset(12), Asset(15)>>, 12, 15, 13),
     Swap("s0", <<Out("g1", 3), Out("g2", 3)>>, <<Asset(9), Asset(10)>>, 1, 0, 2)}

\* The assets that a burn pays out are among its inputs, and a mint spends LP
\* tokens of its pair: both are paid twice.
PaidTwiceTxs ==
    {Burn("b3", <<Out("p1", 3), Out("g1", 2), Out("g2", 2)>>,
          <<Asset(14), Asset(15), Asset(4), Asset(5), Lp(8)>>, 4, 5, 5),
     Mint("p4", <<Out("g1", 2), Out("g2", 2), Out("p1", 3)>>,
          <<Asset(4), Asset(4), Lp(18), Lp(5)>>, 6, 6, 5)}

Pool == [utxos |-> Funded, prefix |-> PoolPrefix, offered |-> PoolTxs \cup PaidTwiceTxs]

-----------------------------------------------------------------------------
\* Base asset 1, quote asset 2: heights 3 to 5, from 12 down to 4.
Bid(txid, input, change, size, quantity) ==
    Tx(txid, <<input>>, <<Asset(change), Asset(quantity)>>,
       [kind |-> "DutchAuctionBid", auction_id |-> "c1", receive_asset |-> BitAsset(1),
        quantity |-> quantity, bid_size |-> size])

Collect(txid, base, quote) ==
    Tx(txid, <<Out("c1", 2), Out("g3", 1)>>, <<Asset(1), Asset(base), Asset(quote)>>,
       [kind |-> "DutchAuctionCollect", asset_offered |-> BitAsset(1),
        asset_receive |-> BitAsset(2), amount_offered_remaining |-> base,
        amount_received |-> quote])

Auction ==
    [utxos |-> Funded,
     prefix |-> Issue(<<<<10>>, <<10, 10, 10>>, <<1>>, <<1>>>>),
     offered |-> {Tx("c1", <<Out("g1", 1)>>, <<Asset(4), Receipt>>,
                     [kind |-> "DutchAuctionCreate", start_block |-> 3, duration |-> 3,
                      base_asset |-> BitAsset(1), base_amount |-> 6, quote_asset |-> BitAsset(2),
                      initial_price |-> 12, final_price |-> 4]),
                  Bid("b1", Out("g2", 1), 6, 4, 2),
                  Bid("b2", Out("g2", 2), 6, 4, 2),
                  Bid("b3", Out("g2", 3), 7, 3, 2),
                  Tx("b4", <<Out("g2", 2), Out("c1", 1)>>, <<Asset(6), Asset(6), Asset(2)>>,
                     [kind |-> "DutchAuctionBid", auction_id |-> "c1",
                      receive_asset |-> BitAsset(1), quantity |-> 2, bid_size |-> 4]),
                  Collect("k1", 4, 4),
                  Collect("k2", 2, 7)}]

MCScenario == {Names, Pool, Auction}
MCScenarioNames == {Names}
=============================================================================
