------------------------------ MODULE StateBlock ------------------------------
(***************************************************************************)
(* Blocks against the state of BitAssets, AMM pools and Dutch auctions     *)
(* (lib/state/block.rs and State of lib/state/mod.rs): validation, the two *)
(* ways to connect a block and disconnect_tip.                             *)
(*                                                                         *)
(* db is the state database inside the node's write transaction.  A        *)
(* function of the code that returns Result is an operator with a result   *)
(* Ok(db), Err or Panic; an error leaves the database as it was, for the   *)
(* caller drops the write transaction.  The two-way peg, which shares      *)
(* utxos and stxos, has a module of its own (TwoWayPeg); signatures are    *)
(* taken to be valid, and a header to commit to its body.                  *)
(***************************************************************************)
EXTENDS BitAssets, DutchAuction

CONSTANTS
    Scenario,     \* what the blocks are built from: a set of records
                  \*   [utxos, prefix : Seq(body), offered : SUBSET Transaction]
    MaxTxs,       \* bound: transactions of a block
    MaxBlocks     \* bound: blocks connected at a time

\* TransactionData: amounts are u64, heights u32.
AmountsOf(kind) ==
    CASE kind = "AmmBurn" -> {"amount0", "amount1", "lp_token_burn"}
      [] kind = "AmmMint" -> {"amount0", "amount1", "lp_token_mint"}
      [] kind = "AmmSwap" -> {"amount_spent", "amount_receive"}
      [] kind = "BitAssetMint" -> {"amount"}
      [] kind = "BitAssetRegistration" -> {"initial_supply"}
      [] kind = "DutchAuctionCreate" -> {"base_amount", "initial_price", "final_price"}
      [] kind = "DutchAuctionBid" -> {"bid_size", "quantity"}
      [] kind = "DutchAuctionCollect" -> {"amount_offered_remaining", "amount_received"}
      [] kind \in {"Regular", "BitAssetReservation", "BitAssetUpdate"} -> {}

DataKinds ==
    {"Regular", "AmmBurn", "AmmMint", "AmmSwap", "BitAssetReservation", "BitAssetRegistration",
     "BitAssetMint", "BitAssetUpdate", "DutchAuctionCreate", "DutchAuctionBid",
     "DutchAuctionCollect"}

OutputKinds ==
    {"Bitcoin", "Withdrawal", "BitAsset", "BitAssetControl", "AmmLpToken",
     "BitAssetReservation", "DutchAuctionReceipt"}

TransactionOK(tx) ==
    /\ tx.txid \in STRING
    /\ tx.inputs \in Seq(Range(tx.inputs))
    /\ tx.outputs \in Seq([kind : OutputKinds, value : Amount])
    /\ tx.data.kind \in DataKinds
    /\ \A x \in AmountsOf(tx.data.kind) : tx.data[x] \in Amount
    /\ Is(tx, "DutchAuctionCreate") => {tx.data.start_block, tx.data.duration} \subseteq 0 .. U32
    /\ Is(tx, "BitAssetUpdate") =>
        \A x \in Field : tx.data.updates[x].op \in {"Retain", "Delete", "Set"}

\* The state before the first block holds deposits only.
Deposits(utxos) ==
    /\ utxos \in [DOMAIN utxos -> [kind : {"Bitcoin"}, of : {Bitcoin}, value : Amount]]
    /\ \A o \in DOMAIN utxos : o[1] = "Deposit"

\* The transactions of a scenario.
Txs(s) == s.offered \cup UNION {Range(s.prefix[i]) : i \in DOMAIN s.prefix}

\* Every transaction spends outputs.  The code does not require it: the theorems
\* that need it say so.
AllSpend == \A s \in Scenario : \A tx \in Txs(s) : tx.inputs # <<>>

ASSUME StateBlockAssumption ==
    /\ MaxAmount = U64 /\ MaxTxs \in Nat /\ MaxBlocks \in Nat
    /\ \A s \in Scenario :
        /\ s.prefix \in Seq(Seq(Txs(s)))
        /\ Deposits(s.utxos)
        /\ \A tx \in Txs(s) : TransactionOK(tx)
        /\ \A t, u \in Txs(s) : t.txid = u.txid => t = u

VARIABLES
    offered,    \* the transactions that blocks are made of
    db,         \* the state
    chain       \* the connected blocks: [block, before], with the state before

vars == <<offered, db, chain>>

-----------------------------------------------------------------------------
Ok(d) == [tag |-> "ok", db |-> d]
Err == [tag |-> "err"]
Panic == [tag |-> "panic"]

\* The panic comes before the error wherever both are possible.
Guarded(panics, refused, d) == IF panics THEN Panic ELSE IF refused THEN Err ELSE Ok(d)

\* The ? operator.
Then(r, Op(_)) == IF r.tag = "ok" THEN Op(r.db) ELSE r

\* try_for_each over a sequence.
ForEach(r, Op(_, _), seq) ==
    LET after[n \in 0 .. Len(seq)] ==
            IF n = 0 THEN r ELSE Then(after[n - 1], LAMBDA d : Op(d, seq[n]))
    IN  after[Len(seq)]

NoTip == <<>>

\* A block hash, without collisions: it fixes the parent and the body.
hash(b) == Append(b.prev_side_hash, [txs |-> [i \in DOMAIN b.txs |-> b.txs[i].txid],
                                     coinbase |-> b.coinbase])

EmptyDb ==
    [utxos |-> <<>>, stxos |-> <<>>, amm_pools |-> <<>>, dutch_auctions |-> <<>>,
     reservations |-> <<>>, bitassets |-> <<>>, seq_to_bitasset |-> <<>>,
     bitasset_to_seq |-> <<>>, tip |-> NoTip, height |-> -1]

next_height(d) == d.height + 1

Regular(txid, vout) == <<"Regular", txid, vout>>
Coinbase(h, vout) == <<"Coinbase", h, vout>>

-----------------------------------------------------------------------------
\* fill_transaction, and fill_transaction_from_stxos with its assert_eq!.
CanFillFrom(fn, tx) == \A i \in DOMAIN tx.inputs : Has(fn, tx.inputs[i])

filled_with(tx, spent) ==
    [txid |-> tx.txid, inputs |-> tx.inputs, outputs |-> tx.outputs, data |-> tx.data,
     spent_utxos |-> spent]

fill_transaction(d, tx) == filled_with(tx, [i \in DOMAIN tx.inputs |-> d.utxos[tx.inputs[i]]])

fill_transaction_from_stxos(d, tx) ==
    filled_with(tx, [i \in DOMAIN tx.inputs |-> d.stxos[tx.inputs[i]].output])

stxos_panic(d, tx) ==
    \E i \in DOMAIN tx.inputs : d.stxos[tx.inputs[i]].inpoint # <<tx.txid, i>>

BitAssetAlreadyRegistered(d, f) ==
    Is(f, "BitAssetRegistration") /\ Has(d.bitassets, BitAsset(f.data.name_hash))

validate_filled_transaction_refused(d, f) ==
    \/ UnbalancedReservations(f)
    \/ InvalidBitAssets(f)
    \/ BitAssetAlreadyRegistered(d, f)
    \/ Underfunded(f)
    \/ SpendsWithdrawal(f)

\* The inputs of a block by their positions, and an output that two of them
\* spend.
InputAt(b, p) == b.txs[p[1]].inputs[p[2]]

SpentTwice(b) ==
    LET positions == UNION {{i} \X DOMAIN b.txs[i].inputs : i \in DOMAIN b.txs}
    IN  \E p, q \in positions : p # q /\ InputAt(b, p) = InputAt(b, q)

coinbase_value(b) == SumOf(b.coinbase, get_bitcoin_value)

\* Every transaction is filled from the state before the block, so none may
\* spend an output of another.
validate_refused(d, b) ==
    \/ b.prev_side_hash # d.tip
    \/ \E i \in DOMAIN b.txs : ~CanFillFrom(d.utxos, b.txs[i])
    \/ SpentTwice(b)
    \/ LET filled == [i \in DOMAIN b.txs |-> fill_transaction(d, b.txs[i])]
       IN  \/ \E i \in DOMAIN filled : validate_filled_transaction_refused(d, filled[i])
           \/ coinbase_value(b) > SumOf(filled, bitcoin_fee)

\* prevalidate repeats the checks of validate, check by check.
prevalidate_refused(d, b) == validate_refused(d, b)

-----------------------------------------------------------------------------
\* lib/state/amm.rs: apply_burn, apply_mint, apply_swap.
PutPool(d, pair, pool) == [d EXCEPT !.amm_pools = put(@, pair, pool)]

apply_amm_burn(d, f) ==
    LET p == d.amm_pools[burn_pair(f)]
        q == burn(p, f.data.lp_token_burn)
    IN  Guarded(FALSE,
                \/ ~HasBurn(f) \/ ~Has(d.amm_pools, burn_pair(f))
                \/ burn_refused(p, f.data.lp_token_burn)
                \/ p.reserve0 - q.reserve0 # f.data.amount0
                \/ p.reserve1 - q.reserve1 # f.data.amount1,
                PutPool(d, burn_pair(f), q))

apply_amm_mint(d, f) ==
    LET pool(pair) == IF Has(d.amm_pools, pair) THEN d.amm_pools[pair] ELSE new_pool(f.txid)
        minted(pair, p, q) ==
            Guarded(FALSE,
                    \/ mint_refused(p, f.data.amount0, f.data.amount1)
                    \/ q.outstanding_lp_tokens - p.outstanding_lp_tokens # f.data.lp_token_mint,
                    PutPool(d, pair, q))
        with(pair, p) == minted(pair, p, mint(p, f.data.amount0, f.data.amount1))
        of(pair) == with(pair, pool(pair))
    IN  IF HasMint(f) THEN of(mint_pair(f)) ELSE Err

swap_pair(f) == AmmPair(asset_spend(f), f.data.pair_asset)

\* asset0 is spent.
Forward(f) == Precedes(asset_spend(f), f.data.pair_asset)

swap_reserves(p, f) ==
    IF Forward(f) THEN <<p.reserve0, p.reserve1>> ELSE <<p.reserve1, p.reserve0>>

apply_amm_swap(d, f) ==
    LET p == d.amm_pools[swap_pair(f)]
        r == swap_reserves(p, f)
        q == reswapped(p, Forward(f), f.data.amount_spent)
    IN  IF ~HasSwap(f) \/ ~Has(d.amm_pools, swap_pair(f)) THEN Err
        ELSE Guarded(swap_panics(r[1], f.data.amount_spent),
                     \/ swap_refused(r[1], r[2], f.data.amount_spent)
                     \/ r[2] - swap_reserves(q, f)[2] # f.data.amount_receive,
                     PutPool(d, swap_pair(f), q))

revert_amm_burn(d, f) ==
    LET p == d.amm_pools[burn_pair(f)]
    IN  Guarded(FALSE,
                \/ ~HasBurn(f) \/ ~Has(d.amm_pools, burn_pair(f))
                \/ unburn_refused(p, f.data.lp_token_burn, f.data.amount0, f.data.amount1),
                PutPool(d, burn_pair(f),
                        unburn(p, f.data.lp_token_burn, f.data.amount0, f.data.amount1)))

\* The mint that created the pool deletes it.
revert_amm_mint(d, f) ==
    LET p == d.amm_pools[mint_pair(f)]
    IN  IF ~HasMint(f) \/ ~Has(d.amm_pools, mint_pair(f)) THEN Err
        ELSE IF p.creation_txid = f.txid
        THEN Ok([d EXCEPT !.amm_pools = delete(@, mint_pair(f))])
        ELSE Guarded(FALSE,
                     revert_mint_refused(p, f.data.amount0, f.data.amount1, f.data.lp_token_mint),
                     PutPool(d, mint_pair(f),
                             unminted(p, f.data.amount0, f.data.amount1, f.data.lp_token_mint)))

revert_amm_swap(d, f) ==
    LET p == d.amm_pools[swap_pair(f)]
    IN  IF ~HasSwap(f) \/ ~Has(d.amm_pools, swap_pair(f)) THEN Err
        ELSE Guarded(revert_swap_panics(p, Forward(f), f.data.amount_spent, f.data.amount_receive),
                     revert_swap_refused(p, Forward(f), f.data.amount_spent, f.data.amount_receive),
                     PutPool(d, swap_pair(f),
                             unswapped(p, Forward(f), f.data.amount_spent, f.data.amount_receive)))

-----------------------------------------------------------------------------
\* lib/state/dutch_auction.rs: apply_create, apply_bid, apply_collect.
PutAuction(d, id, a) == [d EXCEPT !.dutch_auctions = put(@, id, a)]

apply_auction_create(d, f, height) ==
    Guarded(FALSE, create_refused(f.data, height),
            PutAuction(d, f.txid, create(f.data, f.txid, height)))

apply_auction_bid(d, f, height) ==
    LET id == f.data.auction_id
        a == d.dutch_auctions[id]
        b == bid(a, f.txid, f.data.bid_size, height)
    IN  IF \/ ~HasBid(f) \/ ~Has(d.dutch_auctions, id)
           \/ f.data.receive_asset # a.base_asset
           \/ asset_spend(f) # a.quote_asset
           \/ f.data.quantity > base_remaining(a)
        THEN Err
        ELSE Guarded(bid_panics(a, f.data.bid_size, height),
                     \/ bid_refused(a, f.data.bid_size, height)
                     \/ f.data.quantity # base_remaining(a) - base_remaining(b),
                     PutAuction(d, id, b))

apply_auction_collect(d, f, height) ==
    LET id == collected_auction(f)
        a == d.dutch_auctions[id]
    IN  Guarded(FALSE,
                \/ ~HasCollect(f) \/ ~Has(d.dutch_auctions, id)
                \/ collect_refused(a, f.data, height),
                PutAuction(d, id, collect(a, f.txid, height)))

revert_auction_create(d, f) ==
    Guarded(FALSE, ~Has(d.dutch_auctions, f.txid),
            [d EXCEPT !.dutch_auctions = delete(@, f.txid)])

revert_auction_bid(d, f) ==
    LET id == f.data.auction_id
        a == d.dutch_auctions[id]
    IN  IF \/ ~HasBid(f) \/ ~Has(d.dutch_auctions, id)
           \/ f.data.receive_asset # a.base_asset
           \/ asset_spend(f) # a.quote_asset
        THEN Err
        ELSE Guarded(revert_bid_panics(a, f.txid), FALSE, PutAuction(d, id, revert_bid(a)))

revert_auction_collect(d, f) ==
    LET id == collected_auction(f)
        a == d.dutch_auctions[id]
    IN  IF ~HasCollect(f) \/ ~Has(d.dutch_auctions, id) THEN Err
        ELSE Guarded(revert_collect_panics(a, f.data, f.txid), FALSE,
                     PutAuction(d, id, revert_collect(a)))

-----------------------------------------------------------------------------
\* The match on transaction.data, of both ways to connect.
apply_data(d, f, height) ==
    CASE Is(f, "Regular") -> Ok(d)
      [] Is(f, "AmmBurn") -> apply_amm_burn(d, f)
      [] Is(f, "AmmMint") -> apply_amm_mint(d, f)
      [] Is(f, "AmmSwap") -> apply_amm_swap(d, f)
      [] Is(f, "BitAssetReservation") ->
            Ok([d EXCEPT !.reservations = put(@, f.txid, f.data.commitment)])
      [] Is(f, "BitAssetRegistration") ->
            Guarded(FALSE, registration_refused(d, f), apply_registration(d, f, height))
      [] Is(f, "BitAssetMint") -> Guarded(FALSE, mint_refused_of(d, f), apply_mint(d, f, height))
      [] Is(f, "BitAssetUpdate") ->
            Guarded(FALSE, update_refused(d, f), apply_updates(d, f, height))
      [] Is(f, "DutchAuctionCreate") -> apply_auction_create(d, f, height)
      [] Is(f, "DutchAuctionBid") -> apply_auction_bid(d, f, height)
      [] Is(f, "DutchAuctionCollect") -> apply_auction_collect(d, f, height)

\* The match on tx.data of disconnect_tip.
revert_data(d, f, height) ==
    CASE Is(f, "Regular") -> Ok(d)
      [] Is(f, "AmmBurn") -> revert_amm_burn(d, f)
      [] Is(f, "AmmMint") -> revert_amm_mint(d, f)
      [] Is(f, "AmmSwap") -> revert_amm_swap(d, f)
      [] Is(f, "BitAssetReservation") ->
            Guarded(FALSE, ~Has(d.reservations, f.txid),
                    [d EXCEPT !.reservations = delete(@, f.txid)])
      [] Is(f, "BitAssetRegistration") ->
            IF unregistration_refused(d, f) THEN Err
            ELSE Guarded(unregistration_panics(f), FALSE, revert_registration(d, f))
      [] Is(f, "BitAssetMint") ->
            IF revert_mint_refused_of(d, f) THEN Err
            ELSE Guarded(revert_mint_panics(d, f), FALSE, revert_mint(d, f))
      [] Is(f, "BitAssetUpdate") ->
            IF update_refused(d, f) THEN Err
            ELSE Guarded(revert_updates_panics(d, f, height), FALSE, revert_updates(d, f))
      [] Is(f, "DutchAuctionCreate") -> revert_auction_create(d, f)
      [] Is(f, "DutchAuctionBid") -> revert_auction_bid(d, f)
      [] Is(f, "DutchAuctionCollect") -> revert_auction_collect(d, f)

-----------------------------------------------------------------------------
BadCoinbase(b) == OfKind(b.coinbase, {"Bitcoin", "Withdrawal"}) # b.coinbase

\* The outputs that a block or a transaction creates, by outpoint.
CoinbaseUtxos(b) ==
    [o \in {Coinbase(hash(b), i) : i \in DOMAIN b.coinbase} |-> b.coinbase[o[3]]]
NewUtxos(txid, filled) == [o \in {Regular(txid, i) : i \in DOMAIN filled} |-> filled[o[3]]]
NewStxos(f) ==
    [o \in Range(f.inputs) |->
        LET i == Max({j \in DOMAIN f.inputs : f.inputs[j] = o})
        IN  [output |-> f.spent_utxos[i], inpoint |-> <<f.txid, i>>]]

Without(fn, keys) == [k \in DOMAIN fn \ keys |-> fn[k]]

set_tip(d, b, height) == Ok([d EXCEPT !.tip = hash(b), !.height = height])

(***************************************************************************)
(* connect_prevalidated: the effects of the data are applied transaction   *)
(* by transaction, the utxos and stxos of the whole block at the end, from *)
(* the transactions that prevalidate filled.                               *)
(***************************************************************************)
apply_filled(d, f, height) ==
    IF ~filled_outputs(f).ok THEN Err ELSE apply_data(d, f, height)

BlockUtxos(b, filled) ==
    Fold(CoinbaseUtxos(b),
         LAMBDA acc, f : put_all(acc, NewUtxos(f.txid, filled_outputs(f).outputs)), filled)
BlockStxos(stxos, filled) == Fold(stxos, LAMBDA acc, f : put_all(acc, NewStxos(f)), filled)

move_outputs(d, b, filled) ==
    Ok([d EXCEPT
        !.utxos = put_all(Without(@, UNION {Range(filled[i].inputs) : i \in DOMAIN filled}),
                          BlockUtxos(b, filled)),
        !.stxos = BlockStxos(@, filled)])

apply_all(d, filled, height) ==
    ForEach(Ok(d), LAMBDA e, f : apply_filled(e, f, height), filled)

connect_prevalidated(d, b, filled, height) ==
    IF BadCoinbase(b) THEN Err
    ELSE Then(Then(apply_all(d, filled, height), LAMBDA e : move_outputs(e, b, filled)),
              LAMBDA e : set_tip(e, b, height))

apply_block(d, b) ==
    IF prevalidate_refused(d, b) THEN Err
    ELSE connect_prevalidated(d, b, [i \in DOMAIN b.txs |-> fill_transaction(d, b.txs[i])],
                              next_height(d))

\* connect: every transaction is filled again, and its outputs are moved before
\* its data is applied.
connect_tx(d, tx, height) ==
    LET moved(f, outputs) ==
            [d EXCEPT !.utxos = put_all(Without(@, Range(tx.inputs)), NewUtxos(f.txid, outputs)),
                      !.stxos = put_all(@, NewStxos(f))]
        filled(f, out) == IF out.ok THEN apply_data(moved(f, out.outputs), f, height) ELSE Err
        of(f) == filled(f, filled_outputs(f))
    IN  IF ~CanFillFrom(d.utxos, tx) \/ ~IsInjective(tx.inputs) THEN Err
        ELSE of(fill_transaction(d, tx))

\* Mutant: connect stamps the height of its parent.
connect_height_stale(d) == d.height

connect_height(d) == next_height(d)

connect_all(d, txs, height) == ForEach(Ok(d), LAMBDA e, tx : connect_tx(e, tx, height), txs)

connect(d, b) ==
    LET height == connect_height(d)
        start == [d EXCEPT !.utxos = put_all(@, CoinbaseUtxos(b))]
    IN  IF \/ b.prev_side_hash # d.tip
           \/ \E i \in DOMAIN b.txs : ~CanFillFrom(d.utxos, b.txs[i])
           \/ BadCoinbase(b)
        THEN Err
        ELSE Then(connect_all(start, b.txs, height), LAMBDA e : set_tip(e, b, height))

-----------------------------------------------------------------------------
\* One transaction of disconnect_tip: its data, its outputs, its inputs.
DeleteUtxos(d, outpoints) ==
    Guarded(FALSE, \E o \in outpoints : ~Has(d.utxos, o),
            [d EXCEPT !.utxos = Without(@, outpoints)])

unspend(d, tx) ==
    Guarded(FALSE, ~CanFillFrom(d.stxos, tx) \/ ~IsInjective(tx.inputs),
            [d EXCEPT !.utxos = put_all(@, [o \in Range(tx.inputs) |-> d.stxos[o].output]),
                      !.stxos = Without(@, Range(tx.inputs))])

\* Mutant: the inputs come back, the outputs stay.
disconnect_tx_keeps_outputs(d, tx, height) ==
    IF ~CanFillFrom(d.stxos, tx) THEN Err
    ELSE Then(revert_data(d, fill_transaction_from_stxos(d, tx), height),
              LAMBDA e : unspend(e, tx))

disconnect_tx(d, tx, height) ==
    IF ~CanFillFrom(d.stxos, tx) THEN Err
    ELSE IF stxos_panic(d, tx) THEN Panic
    ELSE Then(Then(revert_data(d, fill_transaction_from_stxos(d, tx), height),
                   LAMBDA e : DeleteUtxos(e, {Regular(tx.txid, i) : i \in DOMAIN tx.outputs})),
              LAMBDA e : unspend(e, tx))

\* The outpoint of a transaction's output is put into the database again when
\* what spends it is undone, so the transactions are undone last to first.
revert_order(txs) == Reverse(txs)

disconnect_all(d, txs, height) ==
    ForEach(Ok(d), LAMBDA e, tx : disconnect_tx(e, tx, height), txs)

disconnect_tip(d, b) ==
    LET height == d.height
        uncoined == Then(disconnect_all(d, revert_order(b.txs), height), LAMBDA e :
                        DeleteUtxos(e, {Coinbase(hash(b), i) : i \in DOMAIN b.coinbase}))
    IN  IF \/ d.tip # hash(b)
           \/ \E i \in DOMAIN b.txs : ~CanFillFrom(d.stxos, b.txs[i])
           \/ (b.prev_side_hash = NoTip) # (height = 0)
        THEN Err
        ELSE Then(uncoined, LAMBDA e :
                  Ok([e EXCEPT !.tip = b.prev_side_hash, !.height = height - 1]))

-----------------------------------------------------------------------------
\* The block that a miner builds on d from these transactions, with the fees
\* paid out.
BlockOf(d, txs) ==
    LET fees == SumOf([i \in DOMAIN txs |-> fill_transaction(d, txs[i])], bitcoin_fee)
    IN  [prev_side_hash |-> d.tip, txs |-> txs,
         coinbase |-> <<BitcoinContent(fees)>>]

\* Sequences of transactions whose inputs are unspent; a block with any other
\* is refused and changes nothing.
Bodies ==
    LET fillable == {tx \in offered : CanFillFrom(db.utxos, tx)}
    IN  {body \in UNION {[1 .. n -> fillable] : n \in 0 .. MaxTxs} : IsInjective(body)}

\* The state after a prefix of blocks; one that is refused changes nothing.
ConnectBody(d, body) ==
    LET kept(r) == IF r.tag = "ok" THEN r ELSE Ok(d) IN kept(apply_block(d, BlockOf(d, body)))

ConnectAll(d, bodies) == ForEach(Ok(d), ConnectBody, bodies).db

Init ==
    \E s \in Scenario :
        /\ offered = s.offered
        /\ db = ConnectAll([EmptyDb EXCEPT !.utxos = s.utxos], s.prefix)
        /\ chain = <<>>

Connect(body) ==
    /\ Len(chain) < MaxBlocks
    /\ \E b \in {BlockOf(db, body)} : \E r \in {apply_block(db, b)} :
        /\ r.tag = "ok"
        /\ db' = r.db
        /\ chain' = Append(chain, [block |-> b, before |-> db])
    /\ UNCHANGED offered

Disconnect ==
    /\ chain # <<>>
    /\ \E r \in {disconnect_tip(db, Last(chain).block)} :
        /\ r.tag = "ok"
        /\ db' = r.db
        /\ chain' = Front(chain)
    /\ UNCHANGED offered

Next == (\E body \in Bodies : Connect(body)) \/ Disconnect

Spec == Init /\ [][Next]_vars

-----------------------------------------------------------------------------
\* Two transactions of one block register the same name: each is validated
\* against the state before the block.
RegistersTwice(b) ==
    \E i, j \in DOMAIN b.txs :
        /\ i # j
        /\ Is(b.txs[i], "BitAssetRegistration") /\ Is(b.txs[j], "BitAssetRegistration")
        /\ b.txs[i].data.name_hash = b.txs[j].data.name_hash

\* No block of a prefix does.
PrefixOnce ==
    \A s \in Scenario : \A i \in DOMAIN s.prefix : ~RegistersTwice([txs |-> s.prefix[i]])

\* Sequence numbers of one byte, whose last one last() finds.
Few(d) == \A k \in DOMAIN d.seq_to_bitasset : k < Byte
FewNames == Few(db)

RegisteredOnce == \A i \in DOMAIN chain : ~RegistersTwice(chain[i].block)

\* disconnect_tip always succeeds on the tip and restores exactly the state
\* before it, through any mix of transactions in the blocks -- but for a block
\* that registers a name twice.
DisconnectExact ==
    chain # <<>> /\ RegisteredOnce =>
        disconnect_tip(db, Last(chain).block) = Ok(Last(chain).before)

\* As DisconnectExact, for every block that connects, as the comment of
\* validate_bitassets would have it.
DisconnectAlways ==
    chain # <<>> => disconnect_tip(db, Last(chain).block) = Ok(Last(chain).before)

\* validate with connect and prevalidate with connect_prevalidated, two copies
\* of the same rules, agree on every block that passes validation.
PathsAgree ==
    \A body \in Bodies :
        LET b == BlockOf(db, body)
        IN  ~validate_refused(db, b) => connect(db, b) = apply_block(db, b)

\* Sequence numbers are dense, and the two indexes of BitAssets are inverse to
\* each other and cover the registered names.
SeqExact ==
    RegisteredOnce =>
        /\ DOMAIN db.seq_to_bitasset = 0 .. (Cardinality(DOMAIN db.bitassets) - 1)
        /\ DOMAIN db.bitasset_to_seq = DOMAIN db.bitassets
        /\ \A x \in DOMAIN db.bitasset_to_seq : db.seq_to_bitasset[db.bitasset_to_seq[x]] = x

\* The history of a BitAsset answers for every height of the chain: the data at
\* the height of an earlier state is the data that was current then, and there
\* is none for a name that was not registered.
HistoryExact ==
    RegisteredOnce =>
        \A i \in DOMAIN chain, x \in DOMAIN db.bitassets :
            LET then == chain[i].before
            IN  IF Has(then.bitassets, x)
                THEN /\ known_at(db.bitassets[x], then.height)
                     /\ data_at(db.bitassets[x], then.height) = current(then.bitassets[x])
                ELSE ~known_at(db.bitassets[x], then.height)

SumOver(S, Value(_)) == MapThenSumSet(Value, S)

\* What is held of an asset: in outputs, in pools and by auctions.
Held(x) ==
    SumOver({o \in DOMAIN db.utxos : db.utxos[o].kind \in {"BitAsset", "BitAssetControl"}
                                     /\ db.utxos[o].of = x},
            LAMBDA o : db.utxos[o].value)
    + SumOver(DOMAIN db.amm_pools, LAMBDA pair :
            IF pair[1] = x THEN db.amm_pools[pair].reserve0
            ELSE IF pair[2] = x THEN db.amm_pools[pair].reserve1 ELSE 0)
    + SumOver(DOMAIN db.dutch_auctions, LAMBDA id :
            LET a == db.dutch_auctions[id]
            IN  (IF a.base_asset = x THEN base_remaining(a) ELSE 0)
                + (IF a.quote_asset = x THEN quote_received(a) ELSE 0))

\* What a transaction is paid in an asset that it spends as well.  The total of
\* that asset counts the payment, and output_asset_total_values chains it once
\* more: the Options that its move closure clears are copies.  A mint that
\* spends LP tokens of its own pair is counted twice in the same way.
PaidTwice(f, x) ==
    LET spends == \E i \in DOMAIN spent_assets(f) : spent_assets(f)[i].of = x
        paid(m) == IF spends /\ m.credit /\ m.of = x THEN m.amount ELSE 0
    IN  SumOf(moves(f), paid)

LpPaidTwice(f, pair) ==
    IF /\ HasMint(f) /\ mint_pair(f) = pair
       /\ \E i \in DOMAIN spent_lp_tokens(f) : spent_lp_tokens(f)[i].of = pair
    THEN f.data.lp_token_mint ELSE 0

\* The sum of Value(f) over the transactions of the chain, filled.
OverChain(Value(_)) ==
    LET of(link) ==
            SumOf(link.block.txs, LAMBDA tx : Value(fill_transaction(link.before, tx)))
    IN  SumOf(chain, of)

\* Through any blocks and rollbacks there is never more of a BitAsset, in
\* outputs, pools and auctions together, than its registration and mints allow,
\* nor a second control coin, nor more LP tokens than the pool counts -- but for
\* what transactions were paid twice, and no more than that.
SupplyBacked == RegisteredOnce =>
    /\ \A x \in DOMAIN db.bitassets :
          /\ Held(x) <= supply(db.bitassets[x]) + OverChain(LAMBDA f : PaidTwice(f, x))
          /\ LET control == BitAssetControl(x[2])
             IN  Held(control) <= 1 + OverChain(LAMBDA f : PaidTwice(f, control))
    /\ \A pair \in DOMAIN db.amm_pools :
          SumOver({o \in DOMAIN db.utxos : db.utxos[o].kind = "AmmLpToken"
                                           /\ db.utxos[o].of = pair},
                  LAMBDA o : db.utxos[o].value)
              <= db.amm_pools[pair].outstanding_lp_tokens
                 + OverChain(LAMBDA f : LpPaidTwice(f, pair))

\* A bid in the last block of an auction that has run since an earlier block,
\* and a swap that the fee takes whole into an empty side: the known panics.
KnownPanic(d, tx) ==
    \/ /\ Is(tx, "DutchAuctionBid")
       /\ Has(d.dutch_auctions, tx.data.auction_id)
       /\ next_height(d) = end_block(d.dutch_auctions[tx.data.auction_id])
    \/ Is(tx, "AmmSwap") /\ tx.data.amount_spent <= 1

\* The price of an auction never falls below its end price, nor does it sell
\* more than it was given.
AuctionSound ==
    \A id \in DOMAIN db.dutch_auctions :
        LET a == db.dutch_auctions[id]
        IN  /\ end_price_after(a) <= price_after(a)
            /\ base_remaining(a) <= a.initial_base_amount
            /\ quote_received(a) <= a.initial_price

\* Connecting a block panics in the known cases only.
PanicsKnown ==
    \A body \in Bodies :
        apply_block(db, BlockOf(db, body)).tag = "panic" =>
            \E i \in DOMAIN body : KnownPanic(db, body[i])

\* No block that passes validation makes the node panic.
PanicFree == \A body \in Bodies : apply_block(db, BlockOf(db, body)).tag # "panic"

\* A pool that is burned whole starts anew with the next mint.
MintsAfterBurn(b) ==
    \E i, j \in DOMAIN b.txs : i < j /\ Is(b.txs[i], "AmmBurn") /\ Is(b.txs[j], "AmmMint")

\* A block never takes value from those who hold LP tokens: the product of the
\* reserves, relative to the square of the outstanding tokens, does not fall,
\* unless the block may burn a pool whole and start it anew.
NotDiluted ==
    [][Len(chain') > Len(chain) /\ ~MintsAfterBurn(Last(chain').block) =>
        \A pair \in DOMAIN db.amm_pools :
            LET p == db.amm_pools[pair]
                q == db.amm_pools'[pair]
            IN  p.outstanding_lp_tokens > 0 /\ q.outstanding_lp_tokens > 0 =>
                    q.reserve0 * q.reserve1 * p.outstanding_lp_tokens * p.outstanding_lp_tokens
                    >= p.reserve0 * p.reserve1 * q.outstanding_lp_tokens * q.outstanding_lp_tokens
      ]_vars
=============================================================================
