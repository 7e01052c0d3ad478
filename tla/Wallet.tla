-------------------------------- MODULE Wallet --------------------------------
(***************************************************************************)
(* The databases of the wallet (lib/wallet.rs) and how the application     *)
(* (app/app.rs) keeps them up with the node's chain and mempool: update,   *)
(* run by a task that watches the state and by everyone who broadcasts or  *)
(* mines, reads the node in four read transactions and then writes the     *)
(* wallet in three, while blocks are connected and disconnected,           *)
(* transactions leave the pool without a block, and the user builds and    *)
(* sends transactions.                                                     *)
(*                                                                         *)
(* The locks of App::utxos and App::unconfirmed_utxos let one update run   *)
(* at a time.  The node is its utxos, the blocks and the pool; it checks a *)
(* transaction by itself (pools, auctions and names are StateBlock's).  A  *)
(* scenario has the coins at the start, what the user may ask for and      *)
(* bounds on the steps that the wallet does not control.                   *)
(***************************************************************************)
EXTENDS WalletBuild, FiniteSets, Functions

CONSTANT Scenario    \* [coins, requests, sends, payments, reorgs, templates, removals]

VARIABLES
    scenario,
    chain,       \* Seq of blocks [txs, payments]: what was connected to the state at the start
    pool,        \* set of filled transactions
    utxos,       \* State::utxos
    stxos,       \* State::stxos
    wallet,      \* the Wallet
    spent,       \* [stxos, spent_unconfirmed_utxos] of the wallet
    draft,       \* the transaction that is built and not yet sent, or None
    template,    \* a block template [txs, coinbase, parent] that waits for the Miner, or None
    mining,      \* the block of the Miner, behind its lock, or None
    due,         \* updates that have been called for: by the "task", by a "caller"
    update,      \* [pc, addresses, ...]: the update that runs, or Idle
    steps,       \* [sends, payments, reorgs, templates, removals] so far
    freed        \* history: coins of transactions that left the pool with no update called for

nodeVars == <<chain, pool, utxos, stxos>>
minerVars == <<template, mining>>
vars == <<scenario, nodeVars, wallet, spent, draft, minerVars, due, update, steps, freed>>

None == [kind |-> "None"]
Idle == [pc |-> "idle"]

Spends(f) == Range(f.inputs)
SpentInPool == UNION {Spends(f) : f \in pool}
Outpoints(f) == {<<f.txid, i>> : i \in DOMAIN f.outputs}

put(db, entries) == entries @@ db
delete(db, S) == Restrict(db, DOMAIN db \ S)
Mine(coins, addresses) == Restrict(coins, {o \in DOMAIN coins : coins[o].addr \in addresses})

\* What a transaction creates: its outputs, filled or as they are listed.
Created(f, content(_)) ==
    [o \in Outpoints(f) |->
        [content |-> content(o[2]), addr |-> f.outputs[o[2]].addr]]

FilledCoins(f) == Created(f, LAMBDA i : filled_outputs(f).outputs[i])
ListedCoins(f) == Created(f, LAMBDA i : [kind |-> f.outputs[i].kind, value |-> f.outputs[i].value])

Merge(dbs) == FoldSet(put, <<>>, dbs)

\* MemPool::delete takes the transactions that spend outputs of S along.
WithDependents(S) ==
    LET Reached[n \in 0 .. Cardinality(pool)] ==
            IF n = 0 THEN S
            ELSE LET R == Reached[n - 1]
                 IN  R \cup {f \in pool : \E g \in R : Spends(f) \cap Outpoints(g) # {}}
    IN  Reached[Cardinality(pool)]

-----------------------------------------------------------------------------
\* index_to_address: the wallet has addresses 1 .. next_index.
Addresses == 1 .. wallet.next_index

Init ==
    /\ scenario \in Scenario
    /\ chain = <<>> /\ pool = {}
    /\ utxos = scenario.coins /\ stxos = <<>>
    /\ wallet = Wallet(scenario.coins, <<>>, 1)
    /\ spent = [stxos |-> <<>>, spent_unconfirmed_utxos |-> <<>>]
    /\ draft = None /\ template = None /\ mining = None /\ due = {} /\ update = Idle
    /\ steps = [sends |-> 0, payments |-> 0, reorgs |-> 0, templates |-> 0, removals |-> 0]
    /\ freed = {}

\* spent_unconfirmed_utxos is not looked at.
address_received(addr) ==
    \E coins \in {wallet.utxos, wallet.unconfirmed_utxos, spent.stxos} :
        \E o \in DOMAIN coins : coins[o].addr = addr

\* get_receive_address: a new one only when the last one has received.
get_receive_address ==
    IF address_received(wallet.next_index) THEN wallet.next_index + 1 ELSE wallet.next_index

GetReceiveAddress ==
    /\ scenario.payments > 0
    /\ address_received(wallet.next_index)
    /\ wallet' = [wallet EXCEPT !.next_index = get_receive_address]
    /\ UNCHANGED <<scenario, nodeVars, spent, draft, due, update, steps, freed, minerVars>>

\* A transaction of the request, from what the databases hold now.
build(w, r) ==
    LET tx == IF r.fee = 0 THEN EmptyTx ELSE create_regular_transaction(w, r.fee)
    IN  CASE r.kind = "transfer" -> create_transfer(w, r.value, r.fee)
          [] r.kind = "transfer_many" -> create_transfer_many(w, r.values, r.fee)
          [] r.kind = "withdrawal" -> create_withdrawal(w, r.value, r.fee)
          [] r.kind = "bitasset_transfer" -> create_bitasset_transfer(w, r.asset, r.value, r.fee)
          [] ~tx.ok -> Failed
          [] r.kind = "reserve" -> reserve_bitasset(w, tx, r.name)
          [] r.kind = "rename" -> reserve_bitasset(w, reserve_bitasset(w, tx, 0), r.name)
          [] r.kind = "register" -> register_bitasset(w, tx, r.name, r.value)
          [] r.kind = "mint" -> amm_mint(w, tx, r.a, r.b, r.x, r.y, r.value)
          [] r.kind = "burn" -> amm_burn(w, tx, r.a, r.b, r.x, r.y, r.value)
          [] r.kind = "swap" -> amm_swap(w, tx, r.a, r.b, r.x, r.y)
          [] r.kind = "create" -> dutch_auction_create(w, tx, r.a, r.x, r.b)
          [] r.kind = "bid" -> dutch_auction_bid(w, tx, r.auction, r.a, r.b, r.x, r.y)
          [] r.kind = "collect" -> dutch_auction_collect(w, tx, r.auction, r.a, r.b, r.x, r.y)

Build(r) ==
    /\ draft = None /\ steps.sends < scenario.sends
    /\ LET tx == build(wallet, r)
       IN  /\ tx.ok
           /\ draft' = [kind |-> "Draft", tx |-> tx, fee |-> r.fee]
           /\ wallet' = [wallet EXCEPT !.next_index = @ + Len(tx.outputs)]
    /\ UNCHANGED <<scenario, nodeVars, spent, due, update, steps, freed, minerVars>>

\* authorize: every input is a coin of the wallet, at one of its addresses.
Authorized(tx) ==
    \A o \in Range(tx.inputs) : o \in DOMAIN wallet.utxos \cup DOMAIN wallet.unconfirmed_utxos

Filled(tx, txid, fee) ==
    [txid |-> txid, inputs |-> tx.inputs, outputs |-> tx.outputs, data |-> tx.data, fee |-> fee,
     spent_utxos |-> [i \in DOMAIN tx.inputs |-> utxos[tx.inputs[i]].content]]

\* validate_transaction, without the pools, auctions and names.
Valid(tx, txid, fee) ==
    /\ Range(tx.inputs) \subseteq DOMAIN utxos
    /\ LET f == Filled(tx, txid, fee)
       IN  /\ ~SpendsWithdrawal(f) /\ ~UnbalancedReservations(f) /\ ~InvalidBitAssets(f)
           /\ ~Underfunded(f) /\ filled_outputs(f).ok

\* and MemPool::put.
Accepted(tx, txid, fee) ==
    /\ Valid(tx, txid, fee)
    /\ IsInjective(tx.inputs) /\ Range(tx.inputs) \cap SpentInPool = {}

ValidInPool == {f \in pool : Valid(f, f.txid, f.fee)}

NextTxid == steps.sends + 1

\* sign_and_send: a transaction that is refused is dropped.
Send ==
    /\ draft # None
    /\ draft' = None
    /\ steps' = [steps EXCEPT !.sends = @ + 1]
    /\ IF Authorized(draft.tx) /\ Accepted(draft.tx, NextTxid, draft.fee)
       THEN pool' = pool \cup {Filled(draft.tx, NextTxid, draft.fee)} /\ due' = due \cup {"caller"}
       ELSE UNCHANGED <<pool, due>>
    /\ UNCHANGED <<scenario, chain, utxos, stxos, wallet, spent, update, freed, minerVars>>

-----------------------------------------------------------------------------
\* The state connects a block of pooled transactions and payments to the
\* wallet's first or latest address, mined here or by a peer.
Connected(state, f) ==
    [utxos |-> put(delete(state.utxos, Spends(f)), FilledCoins(f)),
     stxos |-> put(state.stxos, Restrict(state.utxos, Spends(f)))]

Disconnected(state, f) ==
    [utxos |-> put(delete(state.utxos, DOMAIN FilledCoins(f)), Restrict(state.stxos, Spends(f))),
     stxos |-> delete(state.stxos, Spends(f))]

Payment(addr) ==
    <<-1, steps.payments>> :> [content |-> BitcoinContent(3), addr |-> addr]

ConnectBlock(txs, payments, callers) ==
    /\ \A f \in txs : Spends(f) \subseteq DOMAIN utxos
    /\ LET state == FoldSet(LAMBDA f, s : Connected(s, f), [utxos |-> utxos, stxos |-> stxos], txs)
       IN  utxos' = put(state.utxos, payments) /\ stxos' = state.stxos
    /\ chain' = Append(chain, [txs |-> txs, payments |-> payments])
    /\ pool' = pool \ WithDependents(pool \cap txs)
    /\ due' = due \cup callers
    /\ UNCHANGED <<scenario, wallet, spent, draft, update, freed>>

PeerBlock ==
    \E txs \in SUBSET pool, pays \in BOOLEAN, addr \in {1, wallet.next_index} :
        /\ pays => steps.payments < scenario.payments
        /\ txs # {} \/ pays
        /\ steps' = IF pays THEN [steps EXCEPT !.payments = @ + 1] ELSE steps
        /\ ConnectBlock(txs, IF pays THEN Payment(addr) ELSE <<>>, {"task"})
        /\ UNCHANGED minerVars

\* A transaction leaves the pool with its dependents and no block, and no
\* update is called for: its coins are free and the wallet may not know.
Drop(S) ==
    /\ pool' = pool \ WithDependents(S)
    /\ freed' = freed \cup UNION {Spends(f) : f \in WithDependents(S)}

\* remove_from_mempool, of the RPC server.
RemoveFromMempool(f) ==
    /\ steps.removals < scenario.removals
    /\ steps' = [steps EXCEPT !.removals = @ + 1]
    /\ Drop({f})
    /\ UNCHANGED <<scenario, chain, utxos, stxos, wallet, spent, draft, due, update, minerVars>>

\* relay_pending_transactions, for a new peer and by a timer, deletes what a
\* reorg has made invalid.
RelayPending ==
    /\ ValidInPool # pool
    /\ Drop(pool \ ValidInPool)
    /\ UNCHANGED <<scenario, chain, utxos, stxos, wallet, spent, draft, due, update, steps, minerVars>>

\* build_block_template on the tip (an empty block would change nothing
\* here), before the lock of the miner is taken: get_transactions deletes
\* what is not valid; the coinbase pays the fees to the wallet.
BuildTemplate ==
    /\ template = None /\ pool # {} /\ steps.templates < scenario.templates
    /\ steps' = [steps EXCEPT !.templates = @ + 1]
    /\ Drop(pool \ ValidInPool)
    /\ LET fees == MapThenSumSet(bitcoin_fee, ValidInPool)
           paid == <<-2, <<get_receive_address, {f.txid : f \in ValidInPool}>>>>
                       :> [content |-> BitcoinContent(fees), addr |-> get_receive_address]
       IN  /\ template' = [kind |-> "Template", txs |-> ValidInPool, parent |-> chain,
                           coinbase |-> IF fees = 0 THEN <<>> ELSE paid]
           /\ wallet' = IF fees = 0 THEN wallet
                        ELSE [wallet EXCEPT !.next_index = get_receive_address]
    /\ UNCHANGED <<scenario, chain, utxos, stxos, spent, draft, due, update, mining>>

\* mine, behind the lock: attempt_bmm requests BMM for the block or fails; a
\* template of get_block_template may be thrown away.
AttemptBmm(ok) ==
    /\ template # None /\ mining = None
    /\ template' = None
    /\ mining' = IF ok THEN template ELSE None
    /\ UNCHANGED <<scenario, nodeVars, wallet, spent, draft, due, update, steps, freed>>

\* submit_block takes the block for the new tip when it is built on the tip.
IsNextTip == mining.parent = chain

\* confirm_bmm: the request is in the next mainchain block or has expired,
\* and mine updates; an error of the mainchain's or of submit_block ends it
\* before that.
ConfirmBmm(outcome) ==
    /\ mining # None
    /\ mining' = None
    /\ IF outcome = "included" /\ IsNextTip
       THEN ConnectBlock(mining.txs, mining.coinbase, {"task", "caller"})
       ELSE /\ due' = IF outcome = "error" THEN due ELSE due \cup {"caller"}
            /\ UNCHANGED <<scenario, nodeVars, wallet, spent, draft, update, freed>>
    /\ UNCHANGED <<steps, template>>

\* The transactions of the tip go back to the pool.
DisconnectTip ==
    /\ chain # <<>> /\ steps.reorgs < scenario.reorgs
    /\ steps' = [steps EXCEPT !.reorgs = @ + 1]
    /\ LET block == Last(chain)
           state == FoldSet(LAMBDA f, s : Disconnected(s, f), [utxos |-> utxos, stxos |-> stxos], block.txs)
       IN  /\ \A f \in block.txs : Spends(f) \cap SpentInPool = {}
           /\ utxos' = delete(state.utxos, DOMAIN block.payments) /\ stxos' = state.stxos
           /\ chain' = Front(chain)
           /\ pool' = pool \cup block.txs
    /\ due' = due \cup {"task"}
    /\ UNCHANGED <<scenario, wallet, spent, draft, update, freed, minerVars>>

-----------------------------------------------------------------------------
\* update, called by the task or by a caller who waits for the locks:
\* the addresses, and the pool's outputs at them.
BeginUpdate(caller) ==
    /\ update = Idle /\ caller \in due
    /\ due' = due \ {caller}
    /\ update' = [pc |-> "utxos", addresses |-> Addresses,
                  unconfirmed |-> Mine(Merge({ListedCoins(f) : f \in pool}), Addresses)]
    /\ UNCHANGED <<scenario, nodeVars, wallet, spent, draft, steps, freed, minerVars>>

\* get_utxos_by_addresses
ReadUtxos ==
    /\ update.pc = "utxos"
    /\ update' = [pc |-> "spent", unconfirmed |-> update.unconfirmed,
                  utxos |-> Mine(utxos, update.addresses)]
    /\ UNCHANGED <<scenario, nodeVars, wallet, spent, draft, due, steps, freed, minerVars>>

\* get_spent_utxos of what the wallet holds.
ReadSpent ==
    /\ update.pc = "spent"
    /\ update' = [pc |-> "unconfirmed_spent", unconfirmed |-> update.unconfirmed, utxos |-> update.utxos,
                  spent |-> DOMAIN wallet.utxos \cap DOMAIN stxos]
    /\ UNCHANGED <<scenario, nodeVars, wallet, spent, draft, due, steps, freed, minerVars>>

\* get_unconfirmed_spent_utxos of the confirmed and the unconfirmed coins of
\* the wallet, which lists some coins again.
ReadUnconfirmedSpent ==
    /\ update.pc = "unconfirmed_spent"
    /\ LET confirmed == DOMAIN wallet.utxos \cap SpentInPool
           unconfirmed == DOMAIN wallet.unconfirmed_utxos \cap SpentInPool
       IN  update' = [pc |-> "put", unconfirmed |-> update.unconfirmed, utxos |-> update.utxos,
                      spent |-> update.spent \cup confirmed \cup unconfirmed,
                      again |-> (update.spent \cap (confirmed \cup unconfirmed))
                                    \cup (confirmed \cap unconfirmed)]
    /\ freed' = {}
    /\ UNCHANGED <<scenario, nodeVars, wallet, spent, draft, due, steps, minerVars>>

\* put_utxos
PutUtxos ==
    /\ update.pc = "put"
    /\ wallet' = [wallet EXCEPT !.utxos = put(@, update.utxos)]
    /\ update' = [pc |-> "put_unconfirmed", unconfirmed |-> update.unconfirmed,
                  spent |-> update.spent, again |-> update.again]
    /\ UNCHANGED <<scenario, nodeVars, spent, draft, due, steps, freed, minerVars>>

\* put_unconfirmed_utxos
PutUnconfirmedUtxos ==
    /\ update.pc = "put_unconfirmed"
    /\ wallet' = [wallet EXCEPT !.unconfirmed_utxos = put(@, update.unconfirmed)]
    /\ update' = [pc |-> "spend", spent |-> update.spent, again |-> update.again]
    /\ UNCHANGED <<scenario, nodeVars, spent, draft, due, steps, freed, minerVars>>

\* The coins that spend_utxos looks for in unconfirmed_utxos: those that
\* utxos does not have, or no longer has when they come again.
SpentUnconfirmed ==
    Restrict(wallet.unconfirmed_utxos,
             ((update.spent \ DOMAIN wallet.utxos) \cup update.again)
                 \cap DOMAIN wallet.unconfirmed_utxos)

\* Mutant: the notifications that came during the update are taken as seen.
SpendUtxos_takes_notice ==
    /\ update.pc = "spend"
    /\ wallet' = [wallet EXCEPT !.utxos = delete(@, update.spent),
                                !.unconfirmed_utxos = delete(@, DOMAIN SpentUnconfirmed)]
    /\ spent' = [stxos |-> put(spent.stxos, Restrict(wallet.utxos, update.spent \cap DOMAIN wallet.utxos)),
                 spent_unconfirmed_utxos |-> put(spent.spent_unconfirmed_utxos, SpentUnconfirmed)]
    /\ update' = Idle
    /\ due' = {}
    /\ UNCHANGED <<scenario, nodeVars, draft, steps, freed, minerVars>>

\* spend_utxos: from utxos, or else from unconfirmed_utxos.
SpendUtxos ==
    /\ update.pc = "spend"
    /\ wallet' = [wallet EXCEPT !.utxos = delete(@, update.spent),
                                !.unconfirmed_utxos = delete(@, DOMAIN SpentUnconfirmed)]
    /\ spent' = [stxos |-> put(spent.stxos, Restrict(wallet.utxos, update.spent \cap DOMAIN wallet.utxos)),
                 spent_unconfirmed_utxos |-> put(spent.spent_unconfirmed_utxos, SpentUnconfirmed)]
    /\ update' = Idle
    /\ UNCHANGED <<scenario, nodeVars, draft, due, steps, freed, minerVars>>

-----------------------------------------------------------------------------
Update ==
    \/ \E c \in {"task", "caller"} : BeginUpdate(c)
    \/ ReadUtxos
    \/ ReadSpent
    \/ ReadUnconfirmedSpent
    \/ PutUtxos
    \/ PutUnconfirmedUtxos
    \/ SpendUtxos

Next ==
    \/ GetReceiveAddress
    \/ \E r \in scenario.requests : Build(r)
    \/ Send
    \/ PeerBlock
    \/ \E f \in pool : RemoveFromMempool(f)
    \/ RelayPending
    \/ BuildTemplate
    \/ \E ok \in BOOLEAN : AttemptBmm(ok)
    \/ \E outcome \in {"included", "expired", "error"} : ConfirmBmm(outcome)
    \/ DisconnectTip
    \/ Update

\* Updates run to their end, and one that is due begins.
Spec == Init /\ [][Next]_vars /\ WF_vars(Update)

-----------------------------------------------------------------------------
\* What an output was meant to hold; receipts and reservations are of the
\* transaction itself.
Meant(f, out) ==
    CASE out.kind = "Bitcoin" -> BitcoinContent(out.value)
      [] out.kind = "Withdrawal" -> WithdrawalContent(out.value)
      [] out.kind = "BitAsset" -> BitAssetContent(out.meant, out.value)
      [] out.kind = "BitAssetControl" -> ControlContent(out.meant)
      [] out.kind = "AmmLpToken" -> LpContent(out.meant, out.value)
      [] out.kind = "DutchAuctionReceipt" -> ReceiptContent(f.txid)
      [] out.kind = "BitAssetReservation" -> ReservationContent(f.txid, f.data.commitment)

\* The outputs that hold a content, those of the wallet or the others.
Holders(f, contents, c, own) ==
    Cardinality({i \in DOMAIN contents : contents[i] = c /\ (f.outputs[i].addr # 0) = own})

\* The fee leaves out what pools and auctions pay or take in sats.
TradesBitcoin(f) == \E m \in Range(moves(f)) : m.of = Bitcoin

\* Whatever state the wallet's databases are in when it builds a
\* transaction (behind the node, ahead of it after a reorg, with a coin that
\* is counted as confirmed and as unconfirmed) and whatever happens until it
\* is sent: a transaction that the node accepts pays the fee that was asked
\* for, unless it trades Bitcoin, and filled_outputs gives the wallet and the others the coins that the
\* builder meant for them.
AsAsked ==
    \A f \in pool :
        LET filled == filled_outputs(f).outputs
            meant == [i \in DOMAIN f.outputs |-> Meant(f, f.outputs[i])]
        IN  /\ TradesBitcoin(f) \/ bitcoin_fee(f) = f.fee
            /\ \A c \in Range(filled) \cup Range(meant), own \in BOOLEAN :
                Holders(f, filled, c, own) = Holders(f, meant, c, own)

-----------------------------------------------------------------------------
\* The wallet has the node's coins, and none of them is spent in the pool.
Settled ==
    /\ update = Idle /\ draft = None
    /\ wallet.utxos = Mine(utxos, Addresses)
    /\ DOMAIN wallet.utxos \cap SpentInPool = {}

Balance(kind, of) ==
    MapThenSumSet(LAMBDA o : wallet.utxos[o].content.value, Holding(wallet, kind, of))

\* The confirmed balance covers a payment, a reservation or a registration.
CoveredBy(r) ==
    CASE r.kind \in {"transfer", "withdrawal"} -> r.value + r.fee <= Balance("Bitcoin", Bitcoin)
      [] r.kind = "transfer_many" ->
            SumOf(r.values, LAMBDA v : v) + r.fee <= Balance("Bitcoin", Bitcoin)
      [] r.kind = "bitasset_transfer" ->
            r.value <= Balance("BitAsset", r.asset) /\ r.fee <= Balance("Bitcoin", Bitcoin)
      [] r.kind \in {"reserve", "rename"} -> 0 < r.fee /\ r.fee <= Balance("Bitcoin", Bitcoin)
      [] r.kind = "register" ->
            ReservationsOf(wallet, r.name) # {} /\ r.fee <= Balance("Bitcoin", Bitcoin) /\ r.value # 0
      [] OTHER -> FALSE

\* What unconfirmed_utxos still holds of outputs that were confirmed, spent or
\* disconnected long ago does not get in the way: when the confirmed coins
\* cover a payment, a transfer of a BitAsset, a reservation or a
\* registration, the wallet builds it and the node accepts it.
CoveredSends ==
    Settled => \A r \in scenario.requests : CoveredBy(r) =>
        LET tx == build(wallet, r)
        IN  tx.ok /\ Authorized(tx) /\ Accepted(tx, NextTxid, r.fee)

\* Every block, connected or disconnected at any moment of an update, is
\* taken in by one that begins later: in the end no coin that a block has
\* spent is in the wallet's utxos, and every coin at its addresses is there
\* unless a transaction in the pool spends it or one that left the pool
\* without a block did, with no update since.
SyncedWith ==
    /\ DOMAIN wallet.utxos \cap DOMAIN stxos = {}
    /\ (DOMAIN Mine(utxos, Addresses) \ SpentInPool) \ freed \subseteq DOMAIN wallet.utxos
EventuallySynced == <>[]SyncedWith
=============================================================================
