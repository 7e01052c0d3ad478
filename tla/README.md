# A TLA+ model of the BitAssets/Truthcoin sidechain node

The repository is a node of a drivechain (BIP300/301) sidechain: every
sidechain block is *blind merge mined* (BMM), that is, committed to by a
mainchain block; coins come in by mainchain deposits and leave by withdrawal
bundles that the mainchain accepts or rejects. The node keeps all of its state
in LMDB databases, changes it in write transactions (one at a time in the whole
process), and runs several tasks: one that follows the mainchain, one that talks
to peers and moves the sidechain tip, one task per peer, a miner, and the RPC
server and GUI.

This directory models the parts of the program in which an order of events that
no test sets up, or a long sequence of legal steps, decides whether the node is
right: which tip it prefers, what it stores, how it reorganises, what mainchain
events and the blocks' transactions do to the state and how a reorg undoes them,
how blocks and transactions are passed on between nodes that lose connections,
how a node keeps its peers, the mempool, and the wallet beside all of this.

Contents: [inventory](#inventory) · [modules](#modules-and-the-code) ·
[runs](#runs) · [bounds](#bounds) · [fairness](#fairness) · [proofs](#proofs) ·
[findings](#findings) · [abstractions](#abstractions) ·
[not modelled](#not-modelled) · [plan](#plan)

## Inventory

| Component | State | Operations | Hard about it | What makes it right |
|---|---|---|---|---|
| Mempool (`mempool.rs`) | `transactions`, `spent_utxos`, `address_to_txs` | `put`, `delete` (with dependent transactions), lookups | a graph of dependent transactions, competing spends | indexes exact, no double spend, `delete` removes exactly the dependent ones |
| Two-way peg (`state/two_way_peg_data.rs`, `rollback.rs`) | utxos, stxos, `withdrawal_bundles` with status histories, `pending_withdrawal_bundle`, `latest_failed_withdrawal_bundle`, `deposit_blocks`, `withdrawal_bundle_event_blocks`, `block_index_events` | `connect`, `disconnect`, per event: deposit, bundle submitted, confirmed, failed; collection of a bundle | the mainchain fixes the order of events, every one must be undone; asserts | no output paid twice, no panic, a disconnect undoes a connect |
| Archive (`archive/mod.rs`) | headers, bodies, `bmm_results`, mainchain headers and infos, inclusions, invalid blocks | `put_header`, `put_body`, `put_main_*`, `delete_body`, `invalidate_block`, `better_tip`, walks over ancestors | headers, bodies and infos come in any order and more than once | results exact, closed under ancestors |
| SideTips (`archive/side_tips`) | `sidechain_tips`, `ordered_sidechain_tips`, `mainchain_tip` | connect/disconnect of mainchain and sidechain tips | two databases under different conditions, two tasks that write | the best tip is one on the active mainchain |
| Mainchain task (`node/mainchain_task.rs`) | the event stream, which requests are served | sync, block events, restart after an error | stream breaks between events, mainchain reorgs | SideTips follow the mainchain |
| Net task (`node/net_task.rs`) | locals of `reorg_to_tip`, tips waiting for blocks, mailboxes | `reorg_to_tip`, `connect_tip_`, `disconnect_tip_`, handlers of new tips, mainchain events, responses of peers, transactions | reorgs commit in pieces between which others write | applied events match the tip, never a worse tip, no panic |
| Node (`node/mod.rs`) | handles of the others | `submit_block`, `invalidate_block`, `broadcast_transaction`, `get_transactions`, accessors | runs beside the tasks | as above |
| State (`state/mod.rs`, `block.rs`) | tip, height, utxos, stxos and the databases of assets | validate, connect and disconnect of blocks | the same block is validated, connected and undone by different code | a disconnect undoes a connect; value is conserved |
| BitAssets (`state/bitassets.rs`) | reservations, BitAsset data with histories, sequence numbers | register, reserve, update, mint and reverts | histories stamped with txids | reverts restore |
| Dutch auctions, AMM pools (`state/dutch_auction.rs`, `amm.rs`) | auctions, pools | create, bid, collect; mint, burn, swap; reverts | integer rounding, boundaries of time | no value created, reverts restore |
| Peers (`net/`) | active peers, connections, request queue, heartbeats | connect, receive, request, time out | lost and repeated messages, ban and reconnect | requests are answered or made again |
| Miner (`miner.rs`) | the block that waits for its commitment | `attempt_bmm`, `confirm_bmm` | the mainchain moves between the two | a mined block is not lost |
| Wallet (`wallet.rs`) | keys, own utxos and stxos | create transactions, follow the chain | follows reorgs | coins are those of the chain |
| Transactions (`types/transaction/`) | – | filling of inputs and outputs, fees | the meaning of an output depends on its place | no value from nothing |
| Types, authorization | – | data, hashes, signatures | – | – |
| App (`app/app.rs`) | the wallet's view of the coins | `update`, sending, mining | updates in pieces while blocks come | the view follows the node |
| GUI, RPC, CLI | – | calls to the node | – | – |

How they interact: the mainchain task writes mainchain headers, infos and
SideTips to the archive and sends an event to the net task; the net task reads
the best tip of SideTips, or is told of a tip by a peer task or the miner, asks
`better_tip`, and moves the state from block to block, with the two-way peg data
between the `prev_main_hash` of one block and the next; every connected block
leaves the mempool, every disconnected one is put back, last
transaction first.
Peer tasks, the RPC server and the miner write to the archive and the mempool on
their own. A peer task compares the tips of the peer with the node's, asks for
headers, mainchain infos and bodies, and hands what it gets to the net task,
which wakes it when something it waits for is stored. The wallet reads the node
and writes its own databases. `PROJECT.json` lists what can go wrong where, under `hazards`.

## Modules and the code

```
Transactions <- Mempool <- MempoolProofs
            ^-- TxPool
Rollback     <- TwoWayPeg <- TwoWayPegProofs
SequentialKeys <- KeyedSequence <- KeyedSequenceProofs
              ^-- BitAssets <- StateBlock <- StateBlockProofs
FilledTx, TxidStamped ---^        |
            Amm <- DutchAuction --^
FilledTx <- WalletBuild <- Wallet
Blocks <- BetterTip <- TipOrder <- TipOrderProofs
     ^       ^---^--- TipOffers   (abstract)
     |       |   ^--- PeerSync    (implements TipOffers)
     |       ^------- Archive <- MainchainTask <- NodeTip <- NodeTipProofs
     |       ^-- BlocksProofs (extended by TipOrderProofs and NodeTipProofs)
PeerSet <- PeerSetProofs
```

(`A <- B`: B extends A.) Every state machine but KeyedSequence, whose constants
are numbers, has an `MC…` module with a small instance. Definitions keep
the names of the code. `PROJECT.json` maps every one to its lines. A definition
commented `Mutant:` is the next definition with a plausible mistake in it; no
run uses it, and with it in place of the right one a property named in
`PROJECT.json` fails. `f_refused` beside an operator `f` is the condition under
which the function returns an error, `f_panics` the one under which an `assert!`,
an `expect` or a division fails.

**Transactions, Mempool** – `mempool.rs`. The three databases are variables.
`Put` is `put()` with its refusal of double spends, also within one
transaction; `Delete` starts `delete()`, and `DeleteStep` is one iteration
of its loop over the queue, so that the invariants are checked in the middle.

**Rollback, TwoWayPeg** – the databases of the state that deposits and bundles
touch are one record `db`; every function `connect_x` of the code is an operator
from record to record. `BeginConnect`, `ConnectEvent`, `ConnectEnd` are one
block; `BeginDisconnect`, `DisconnectEvent`, `DisconnectEnd` undo it; `Abort`
drops the write transaction when one of them is refused. The mainchain is
`MainEvents`: a bundle is submitted, then confirmed or failed, a failed one may
be submitted again, and a bundle in `MainBundle` may be submitted without having
been collected here. `log` and `chain` are the events applied and the state
before each block; the history `early` has the bundles that a block collected
after the mainchain had reported them.

**SequentialKeys, KeyedSequence** – `deposit_blocks`,
`withdrawal_bundle_event_blocks` and `seq_to_bitasset` are LMDB databases with a
`u32` key in bincode, of which the code asks `last()`. SequentialKeys has the
keys byte by byte; KeyedSequence asks whether two of them, used together, are
stacks, and BitAssets takes its sequence numbers from it. TwoWayPeg and
NodeTip use sequences, which is right up to 256 entries
(`SequentialWhileShort`).

**Blocks, BetterTip, TipOrder** – the fields of headers are constant functions
of the block; heights and total work are functions of the parent's, as
`put_header` and `put_main_header_info` compute what they store. `better_tip` is translated case by case (`second_is_better`),
and so is the check that a peer task makes before it asks for anything.
TipOrder lets several nodes hear of the tips on the active mainchain in any
order, and the mainchain move to more work.

**Archive, MainchainTask** – all databases of the archive and SideTips are one
record; operations are operators from record to record. Where the code
disconnects or connects several tips in a loop within one write transaction,
the operator says at once what the loop leaves. MainchainTask has the
task (`Sync`, `ConnectBlock`, `DisconnectBlock`, `StreamCloses`) and the other
writers of the archive: infos asked for by anyone, headers and bodies from peers
(right or from `Forged`), the miner's own header, the body that fails
validation, the operator.

**NodeTip** – extends MainchainTask with the state's tip and which mainchain
blocks' events are applied. `BeginReorg` is `reorg_to_tip` up to its first
commit, `ContinueReorg` from there up to the next, `FinishReorg` the last write
transaction with its assertion, `DiscardBody` the removal of an invalid body
after an error. They are entered by `NewTipReady` and `MainchainEvent`. Between
any two of them the mainchain task, peers, the miner and the operator act.
`Mixed` names the blocks whose newest deposit and newest bundle event are in two
mainchain blocks, and `Clean` the tips with no such block up to them. The
blocks that a reorg has still to apply, with the bodies it read for them, are
the function `reorg.todo`; the loops that disconnect and connect them are
recursive functions along the parents (`DisconnectTo`, `ConnectBlocks`).

**FilledTx** – `FilledTransaction`: what a transaction spends by asset, what its
data adds and takes, the totals that its outputs may take, and `filled_outputs`,
which gives each output its content from the iterator of its kind.
**TxidStamped, BitAssets, Amm, DutchAuction** – the histories stamped with
txids, and the methods of the names, pools and auctions, each with its revert,
in the integer arithmetic of the code.

**StateBlock** – `state/block.rs`: `validate`, `prevalidate`, the two copies of
`connect` and `disconnect_tip`, with the `match` over all kinds of transaction
data, on the record of all databases of names, pools, auctions and
outputs. `Connect` and `Disconnect` are blocks of any of the offered
transactions that are fillable, in any order, with the fees paid out. `ForEach`
is a loop of fallible steps that ends at the first error or panic; `apply_all`
and `disconnect_all` are the loops over a block's transactions.

**TipOffers, PeerSync** – PeerSync is the download of blocks: the connection task
of a peer with its queue of tasks (`net/peer/task.rs`), the deduplicating request
queue, the answers, the streams into the net task, `handle_response`,
`NewTipReady` and the tips that wait for bodies (`descendant_tips`). A peer
is an honest node that moves along a course of tips and answers late, in any
order, with nothing or not at all; connections are lost and made again, and what
old ones had queued still arrives. TipOffers says what this is for, without
requests or queues: the node goes from tip to better tip, each offered by a peer
or an ancestor of an offered one, none of them invalid, and back only when the
operator says so. `ImplementsTipOffers` maps `offered` to the tips that peers
have had so far, `invalid` to `invalid_blocks` and `at` to the tip
with its best commitment. `sidechain_tips` only grows, as in the code: a block
that is invalidated stays listed, and the net task ends when it tries it.

**PeerSet** – `struct Net` and the part of `net_task.rs` that takes errors of
connections: the database of known peers, the table of active ones, dialling,
accepting, reconnects that sleep, the redial with its growing delay, starts and
stops of the node. The table and the reports are keyed by address, but every
connection has a stream of its own, so a late report of an old connection meets
a newer one; `conn` has both.

**TxPool** – pools of several nodes: `broadcast_transaction`, pushes between
connection tasks, `NewTransaction` taken by the net task after the
validation by the connection task, the retry interval, relays to peers that
connect, `get_transactions`, and `connect_tip_` and `disconnect_tip_` that
move transactions out of and back into the pool during a reorg.

**WalletBuild, Wallet** – WalletBuild has coin selection and every builder of
`wallet.rs`, from a wallet to a transaction or a failure. Wallet has the
databases, `update` of `app.rs` in its pieces (four reads of the node, three
writes), the node's chain and pool as far as the wallet sees them, and the miner:
`BuildTemplate` with the transactions that `get_transactions` deletes and the fees
it collects, `AttemptBmm` behind the miner's lock, and `ConfirmBmm`, which finds
the block included, expired or fails. A transaction leaves the pool by a block,
with what depends on it, by a template, by the relay to a new peer
(`RelayPending`) or by `remove_from_mempool` (`RemoveFromMempool`); the history
`freed` has the coins that one left behind with no update called for.

## Runs

| Run | States | Question and answer |
|---|---|---|
| `mempool` | 2 733 | Are the indexes exact at every iteration of `delete`, and does it remove what depends on its argument and nothing else? Yes: `SpentUtxosExact`, `AddressIndexExact`, `DeleteRemovesClosure`. |
| `peg` | 513 483 | Can the mainchain's order of events make the state pay an output twice, fail an assertion, or leave a tip that cannot be undone? `UtxoStxoDisjoint`, `BundleOwnership`, `PendingSpendable`, `DisconnectSucceeds`: not before a block collects a bundle that the mainchain had reported already (`NoneEarly`). `ConnectPanicFree`: after that the assertions of `connect` can fail, but only on an event about such a bundle. The pending bundle is always a known one (`PendingKnown`). A disconnect restores all but the bundles that `Leaked` names (`RestoresUpToLeak`). |
| `tip_order` | 2 282 | Do nodes that hear of tips in any order go back and forth, or come to rest on different tips? No: `NoReturn`, `Agreement`; and the check of a peer task agrees with the reorg's (`PeerCheckAgrees`). |
| `archive` | 73 618 | Are BMM results and tips right for any order of arrivals, mainchain reorgs and invalidations? `BmmExact`; the ordered tips are on the active mainchain, with their parents (`OrderedSound`); ancestors are kept (`AncestorsKept`). |
| `node_tip` | 285 474 | Does a reorg that commits in pieces keep state, archive and mainchain events together? `TipKnown`, and `PegExact` at every tip that no mixed block is up to, also with invalidations in the middle; until there is one, `NeverWorse`. `PanicsOnlyWhen`: an assertion fails when a block above a mixed one is disconnected, or at the end of a reorg whose target was invalidated after its commit, and at no other time. Both happen here. |
| `state_block` | 8 574 | Does `disconnect_tip` restore exactly what any block did (`DisconnectExact`), do the two copies of connect agree (`PathsAgree`), are sequence numbers and histories right after any blocks and reverts (`SeqExact`, `HistoryExact`), are pools never diluted, but for a block that may burn one whole and start it anew (`NotDiluted`), auctions within their limits (`AuctionSound`), and are the panics the two known ones (`PanicsKnown`)? Yes. Is nothing created from nothing (`SupplyBacked`)? Nothing but what a transaction is paid in an asset it also spends, which is paid twice (`PaidTwice`, `LpPaidTwice`): a burn, a mint and a bid of the scenarios do so. |
| `peer_sync` | 146 553 | Is every offered tip reached although requests are deduplicated and answers late? `Synced`: yes, but for a tip of which a request was dropped as a repeat of another tip's (`repeated`), which happens here. Does the net task survive? Until a block has been invalidated (`NetTaskRuns`). Are all moves those of TipOffers (`ImplementsTipOffers`)? Yes. |
| `peers` | 137 711 | Does what is stored never keep the node from starting again (`KnownDialable`), and does a node that knows a peer always get a connection again, whatever reports of old connections come late (`KeepsDialing`)? Yes. |
| `tx_pool` | 29 255 | Does a transaction that is refused by a node behind, or lost with a connection, get there in the end (`Propagates`)? Does one that was validated in another state leave (`StaleLeaves`)? Yes. |
| `wallet` | 417 432 | Does an accepted transaction do what was asked whatever state the wallet's databases were in (`AsAsked`)? Do confirmed coins that cover a payment suffice (`CoveredSends`)? Does an update in pieces never lose a block (`EventuallySynced`)? Yes; a coin may stay absent only if the transaction that spent it left the pool with no update since (`freed`). |

Two more, `keyed_sequence_long` and `tx_pool_conflict`, are expected to end in a
violation: see [Findings](#findings).

Properties with an exception say in their formula what it is, and all but
`RegisteredOnce`, which has a scenario of its own (findings), happen in the run:

* `NoneEarly` – the m6id of a bundle does not depend on the branch that collects
  it, so a bundle that was collected on a branch since reorged away may be
  submitted, and known as `Unknown`, before this branch collects it. Its status
  `Pending` then stands on a later one, the assertions of
  two_way_peg_data.rs:306 and :418 fail on the next event about it, and the
  invariants of the peg no longer hold.
* `Clean` – `disconnect_tip_` starts from the older of two mainchain blocks when
  the newest deposit and the newest bundle event below the tip came with one
  block (net_task.rs:264-281). It then undoes deposits of the block below, or
  fails an assertion of `disconnect`.
* `NeverWorse` and parts of `AncestorsKept` speak of behaviours in which no block
  has been invalidated: `invalidate_block` leaves SideTips alone and may move the
  tip back. The assertion at the end of `reorg_to_tip` (net_task.rs:494) is in a
  later transaction than the commit it is about, so that an invalidation between
  the two makes it fail (`PanicsOnlyWhen`).
* `RegisteredOnce` – `DisconnectExact`, `SeqExact`, `HistoryExact` and
  `SupplyBacked` leave out chains with a block that registers one name twice
  (`MCScenarioNames`).
* `repeated`, `freed`, `PaidTwice` – see the table.

`CoveredSends` speaks of payments, transfers, reservations and registrations, not
of trades. The type invariants of Mempool,
TwoWayPeg, MainchainTask and NodeTip are proved; that of TipOrder documents
the types of its variables.

## Bounds

* `mempool`: seven transactions – a diamond of dependent ones, a chain below it,
  two that compete for an output and one that lists an outpoint twice. Every way
  two dependency paths meet, and every refusal of `put`, occurs.
* `peg`: two deposits (so two bundles can exist at once, and a second can be
  collected in the block that submits the first), a bundle that the mainchain may
  report before a block collects it or, with other bodies, without any block
  ever doing so (`MCMainBundle`), `GAP` = 1 (the code: 5), at most 3 blocks, 5 events
  and 2 disconnects. Fewer blocks leave no
  room for collect – submit – fail – submit again; without a cap on disconnects the log
  of events does not bound the run.
* `tip_order`: two nodes (agreement is about pairs), five mainchain blocks and a
  fork of three, with blocks of different work, so that every case of
  `better_tip` decides some pair.
* `archive`: two mainchain branches that commit to the same genesis block, a
  child committed to on one, and a grandchild committed to on the other whose
  ancestors do not commit to its parent; one forged body; the operator may
  invalidate the child, which has a parent and a child of its own.
* `node_tip`: two branches of two blocks after the genesis block, with works
  chosen so that a reorg goes over and back (b2 is better than a1 and a2 than
  b2) and commits twice on the way; deposits and bundle events in blocks below
  and on the branches, those that come with b1 in two mainchain blocks, so that
  undoing b2 meets a mixed block and the branch of a2 has none; a wrong body for
  a2, which a reorg meets before its first commit when it comes from b2 and after
  one when it comes from the genesis block; the operator may invalidate the first
  block of either branch. Headers are synced at the start.
* `keyed_sequence_long`: a byte has 4 values instead of 256, which puts the carry
  into the second byte in reach.
* `state_block`: three scenarios, each on the state that a prefix of blocks
  leaves: two reservations that compete for a name, with updates and a mint; a
  pool with two mints, swaps both ways, burns in part and whole, and a swap that
  the fee takes whole; an auction of three blocks with bids in and after it and
  two ways to collect; among them a burn, a mint and a bid that are paid in what
  they spend. Up to two transactions a block (two that touch one name,
  pool or auction meet) and five blocks; amounts up to 1000, far above
  what occurs, except in the checks for overflow. The bound of a byte is the
  code's, 256.
* `peer_sync`: a node at g and a peer that goes from a2 to a3, so that the bodies
  of a1 and a2 are asked for for the sake of either, over a mainchain of five
  blocks of which the node has synced four; the limit of body requests is
  2 (code: 100) so that one tip exceeds it; one fault among lost and empty
  answers, a new connection after a lost one, and an invalidated a2. Losing a
  connection is not counted: without a new one it only ends what it could do.
* `peers`: a seed, a node of another network, an address that cannot be dialled
  and one that is unspecified; delays of 1, 2 and at most 4 ticks, so that the
  redial's delay grows and a reconnect sleeps through it; three failures or
  restarts, two arrivals or orders.
* `tx_pool`: two nodes, two transactions that compete for a deposit, and blocks
  b1 with one of them against c1 – c2 with the other; two lost connections or
  orders of the operator. Every way a transaction becomes invalid by
  a block or a rival occurs.
* `wallet`: five scenarios: one payment out and one in, with a reorg, at any
  place of an update; two payments, the second from the first's change; two
  payments of which a reorg makes the second invalid while a block is mined; one
  trade of every kind, with and without change and with the assets in either
  order, mined by the wallet itself; reservation, registration and a name
  reserved again. At most two templates (`templates`: a block expires and another
  is built) and one transaction taken from the pool (`removals`).

Deadlock is not checked in `peg`, `tip_order`, `state_block`, `peer_sync`,
`peers` and `wallet`, which end when their bounds are used up or everything has
settled.

## Fairness

* PeerSync: `WF(Progress)`: as long as a task has something queued or a request
  could be answered, some such step is made – the scheduler of tokio and a peer
  that is up. It does not say which. `Synced` allows for lost connections, a
  peer without the block, the operator, and requests dropped as repeats. Nothing
  is assumed of tips that were looked at once: the code looks at a peer's state
  again only when it has changed (task.rs:744).
* PeerSet: time passes (`Tick`), a timer that is due goes off (`RedialCheck`,
  `ReconnectPeer`), the net task takes what is in its mailbox (`HandleInfo`).
  Nobody has to dial in, a connection need not succeed, a node may stay down.
* TxPool: the retry interval goes off (`RetryTransactions`), and what a channel
  holds is taken (`HandlePushTx`, `HandleNewTransaction`).
* Wallet: an update that is due begins and goes on (`WF(Update)`).

## Proofs

Proved with TLAPS for all values of the constants, with the assumptions named in
the modules that declare them:

* **MempoolProofs.** `TypeCorrect`, `SpentIndexCorrect`, `AddressIndexCorrect`
  and `DeleteCorrect`. The inductive invariant adds `DeleteProgress`: in the
  middle of `delete`, what is gone and what is queued descends from the
  argument, and a pooled spender of a removed transaction is still in the queue.
  With an empty queue the remaining pool has then no spender of a removed one,
  so what was removed is closed and contains the least closed set.
* **TwoWayPegProofs.** `PegInvariance`, and from it `PegTypeCorrect`,
  `NoOutputTwice`, `PendingBundleKnown` and `BundleOwnershipCorrect`, with no
  hypothesis on the chain or the mainchain: at every moment at which no block
  has collected a bundle that was reported before (`NoneEarly`), whatever the
  mainchain reports. `IInv` does not survive such a collection, and is not claimed to.
  The invariant `IInv` says of the databases, and of the copy that `Abort`
  returns to: types; which status may follow which in a bundle's history
  (`KnownHistory`: a submitted status stands on a pending one, a confirmed or
  failed one on a submitted one…), which is what makes each undo find
  the status it expects; the pending bundle is known and latest pending; stxos
  marked by a bundle are exactly those of the bundles that hold them; a deposit
  is known only if its event is in the log, so that an applied one is new. Each
  event operator preserves it by a lemma of its own, both ways.
  The second half of the module shows that a reorg of the peg can always go back:
  `ConnectPanicsOnlyAfterEarly`, `ReorgSucceeds`, `PendingBundleSpendable` and
  `ReorgRestores`, from the invariant `RInv` of `ReorgInvariance`, under
  `NoneEarly` as well. The part of `ConnectPanicFree` about the time after an early
  collection, that only the bundles in `early` are met by a failing assertion, is
  model-checked. A block may be undone long after it was connected, so the
  invariant has to speak of the whole chain at once:
  - `Good` is what connecting keeps beyond `IInv`: statuses are stamped in
    the order of the blocks, and the latest status of a bundle is what the
    last event of the log about it says. This is where the mainchain's order of
    events becomes a fact about the databases, and why no `assert!` of a handler
    can fail.
  - `Trace` names, within a block, the databases before and after each of its
    events, from the body of the block on, each stepped to the next by the handler
    of the event. `LeftBy` says of databases that they are what such a trace and
    the end of `connect` leave, and `Linked` that every state that `chain`
    remembers is left by the block below it. Each handler of `disconnect` is
    shown to lead from what the handler of `connect` left back to what it found.
  - The present databases need not be the ones of the trace: a bundle that was
    collected by a block since undone, and never submitted, stays. They are
    `Like` them between blocks and `Near` them within one: equal but for such
    bundles. Every handler, either way, keeps this, and `Restored`, of which
    `RestoresUpToLeak` is made, is what it amounts to at the end of a disconnect.
  - `Stacked` says that `deposit_blocks` and `withdrawal_bundle_event_blocks` are,
    on top of what they were before the block, its last deposit and its last
    bundle event, each only if it has one.
  - In the middle of a connect or a disconnect, the same is said of the part of
    the log that is applied so far.
* **KeyedSequenceProofs.** `SequentialWhileShort`: for every number of values of
  a byte, while no database has more entries than that (`Short`), both are the
  stacks that `connect` and `disconnect` take them for. A key below `Byte` is
  written with three zero bytes (`OneByte`), so on such keys the order of LMDB is
  that of the numbers (`ByteOrder`), the greatest of `0 .. n - 1` is the last
  (`LastKey`), and the next key is `n`. The invariant says that the keys of each
  database are an interval from zero and that its entries are the heights of the
  chain that had such an event, in order. `keyed_sequence_long` shows that the
  bound is needed, with one entry more.
* **StateBlockProofs.** First the arithmetic of the pools, for reserves and
  amounts of any size: `MintKeepsShares` and `BurnKeepsShares` (no LP token
  loses any of its share of either reserve by another's mint or burn) and
  `SwapKeepsProduct` (the product of the reserves never falls, the subtractions
  never underflow, and a swap that does not divide by zero is refused only when
  a reserve would overflow). They rest on what rounding down and rounding up do to
  a quotient (`RoundedDown`, `RoundedUp`, `RoundedUpBound`). Then whole chains,
  for any scenario of transactions: `AuctionsSound` (`AuctionSound`) and
  `HoldersNotDiluted` (`NotDiluted`), with no hypothesis beyond
  `StateBlockAssumption`: amounts are `u64`, and a txid fixes its
  transaction. The invariant `DbInv` says that reserves and supplies are amounts
  (`PoolsOK`) and that the four histories of every auction are a `Ledger`: at
  each of its bids, the base left is at most what was given, price and quote
  together are at most the initial price, and the end price is at most the
  price (`Limits`); a bid pushes an entry onto all four and a collect onto two,
  so that what lies above the bids on these was pushed by collects. The latest
  entries, of which `AuctionSound` speaks, are not enough: a reverted bid or
  collect takes them off, and what is under them has to be within the limits, too.
  A block is a loop, and the loop keeps what each step keeps: the least step that did not
  would be a counterexample (`LoopKeeps`). For `NotDiluted` the worth of a pool is
  compared along the loop (`Worth`, `WorthChain`); the comparison is transitive only
  where tokens are outstanding in between, which is why the property leaves
  out blocks with a mint after a burn (`MintsAfterBurn`).

  Then whole databases: `DisconnectIsExact` (`DisconnectExact`), `PathsDoAgree`
  (`PathsAgree`), `SeqIsExact` (`SeqExact`), `HistoryIsExact` (`HistoryExact`) and
  `OnlyKnownPanics` (`PanicsKnown`), for any transactions and any number of
  blocks. The hypotheses, none of which the code enforces:
  - `AllSpend` – every transaction has an input. The code accepts a reservation
    without one, as often as it is offered: in two blocks of a chain its
    entry in `reservations` is put twice, and undoing the second block takes away
    what the first had put. A transaction that spends is in one block at most,
    and this is what the invariant below says of it.
  - `FewNames`, as long as the behaviour lasts – sequence numbers of names take
    up one byte, for `next_seq` asks LMDB for the last key (KeyedSequence).
  - `PrefixOnce`, for `SeqIsExact` – no block before the first of `chain` registers
    a name twice, as `RegisteredOnce` says of those of `chain`.

  TLC evaluates `AllSpend` and `PrefixOnce` on `MCStateBlock`; its
  scenarios have few names. The argument:
  - *One transaction.* `revert_x` leads from what `x` made of a pool, an auction
    or a name back to what it found (`UndoBurn`, `UndoMint`, … `UndoUpdate`), given
    that what it pushed still lies on top. Rounding is no
    obstacle: the amounts come from the transaction.
  - *One state.* `StateOK`: the record and the histories are well-formed
    (`DataOK`), outputs are of transactions or coinbases that are known and
    reservations of transactions that made them (`GoodReservations`, `UtxosOK`),
    the two indexes of names agree (`SeqOK`), the height is the length of the chain
    of hashes (`TipOK`), and every transaction is either spent, with its inputs in
    `stxos`, or fresh, with nothing in any database by its txid (`Used`,
    `Fresh`). Only a fresh one can connect, so what it writes under its
    txid was not there before, and can be deleted.
  - *One block.* `BlockEffect` is what a block that connects leaves, in closed form:
    `g`, the data after each transaction, `A`, the outputs after each, and `S`, the
    spent ones. Undoing goes through the same states from the last to the
    first. Where a block registers a name twice there is no way back
    (`TwiceNotUndone`), so such a block stays for good.
  - *The chain.* `Linked`: every block connects to the state remembered before it
    and gives the next one. `LInvariant` is its invariance; `DisconnectExact`
    follows for the tip.
  - *Two copies.* For `PathsAgree` the loops of `connect` and
    `connect_prevalidated` are matched transaction by transaction (`Matches`):
    the same tag, the same data, and outputs that are moved at once in one and
    at the end in the other. No transaction of a valid block spends an output
    of another, so filling again finds the same outputs.
  - *Histories.* The state at the bottom of the chain never changes (`FirstKept`).
    From it upwards, names are numbered without a gap (`Named`), no entry of a
    history is above the height of its state (`Below`), and every later
    state has the histories of an earlier one with entries above its
    height added (`Since`): what `at_block_height` finds is the last entry of then.
  - *Panics.* The block of the most recent bid is within the auction and not in the
    future, and an auction that a block creates begins after that block (`InTime`).
    Of the assertions of `bid` only the one on the elapsed blocks can then fail,
    and only in the auction's last block; of the divisions of a swap only one by
    an empty side, when the fee leaves nothing of the amount.
* **BlocksProofs.** Lemmas about ancestors, heights and work on chains of any
  size. `Rooted` (a set of blocks has one whose parent is not in it: a header
  holds its parent's hash, so there is no circle and no endless descent) stands
  in for induction: a set of counterexamples has a first block, and there the
  recursive definitions unfold by one step. `Walk` shows that the recursive
  functions exist. From it: `main_ancestors` is closed and totally
  ordered by ancestry, every set of ancestors of a block has a last one, height
  and work grow along it, and the last common ancestor is what its definition
  by `CHOOSE` promises. Then what `better_tip` orders. `LineageOrder`:
  between tips committed to on one lineage the higher wins and at equal heights
  the one of *less* work, whatever the doc comment of `better_tip` says, and
  nothing is left for a first block; the tips of an active mainchain above the
  first blocks are therefore totally ordered. `NoExchange`: no two
  tips are each better than the other.
* **NodeTipProofs.** First the archive, as MainchainTask has it. `ArchiveSound`, and from it `ResultsExact`,
  `OrderSound`, `AncestorsStay` and `ArchiveTyped`: for any two chains and any
  bodies, however the mainchain task, peers, the miner and the operator
  interleave. The invariant `Sound` has a part for each group of databases:
  stored headers have their ancestors, and bodies their headers (`HeadersOK`);
  known mainchain blocks have their parents, and the mainchain tip is one of them
  (`MainOK`); no invalid commitment is stored as a valid one, and none is missing
  for a stored header and a known mainchain block (`ResultsOK`; the first half
  also speaks of headers that are *not* stored, for a result can outlive its
  header); until a block is invalidated, the tips are stored and stand on tips
  (`TipsOK`); entries of the order are those of `sidechain_tips`, on the active
  mainchain, at blocks that commit to them (`OrderOK`). `IInv` adds that a
  task that reads the event stream has a mainchain tip. They need each other:
  that disconnecting takes the right entry rests on the commitment of its
  mainchain block, that what is connected stands on tips rests on the
  results, and those on the ancestors.

  Then reorgs that commit in pieces (NodeTip), for any two chains and bodies,
  beside all of these writers. `NodeSound` is the invariant
  `NInv`; from it `TipIsKnown` (`TipKnown`), `PegIsExact` (`PegExact`) and
  `PanicsAre` (`PanicsOnlyWhen`). `NodeTyped` and `NeverGoesBack` (`NeverWorse`)
  have invariants of their own. `NInv` is the invariant of the archive, together with: commitments
  of tips are valid, and a tip whose header is stored stands on a tip (`Good`);
  the tip of the state and the blocks before it are tips (`AtTip`); what a reorg
  has left to apply are tips that are not applied yet (`TodoOK`), and, until a
  block is invalidated, the path from the tip to the target (`LeadsTo`); and the
  applied events fit the tip (`PegOK`). `StateAt`, a recursive function along the
  parents, is what connecting the blocks up to a tip makes of the state. The bundle
  events and both stacks of applied blocks are always those of `StateAt`, so that
  `disconnect_tip_` finds on the stacks where the tip's own events start. Deposits
  can be missing, but only ones that came with a mixed block up to the tip
  (`MixedUp`): these a disconnect of the block above it has undone along with its
  own. At a `Clean` tip none is missing, which is `PegExact`, and a disconnect that
  fails an assertion has a mixed block below. The assertion of `disconnect_tip_`
  itself, that one of the two blocks descends from the other (net_task.rs:264-272,
  `Unordered`), is shown never to fail. Two hypotheses name what the
  chains must be like, and each is needed:
  - `EqualWork` – the mainchain blocks that commit to one block, on top of the
    block it names, have equal total work: siblings have one difficulty. The
    tip of a block is taken with its commitment of most work, and when that is
    another one than SideTips has, a reorg leaves the tips that SideTips knows;
    the findings have the behaviour (`MCTwice…`).
  - `OneFork` – no block is committed to on two forks. `NeverWorse` compares the
    tips before and after with the commitments that the archive has *then*.

  TLC evaluates on `MCNodeTip` that the instance of the run satisfies both, and that it
  has a mixed block on one branch and none on the other.
* **TipOrderProofs.** `NeverReturns` (`NoReturn`) and
  `ActiveNodesAgree` hold under `OneFork`: no sidechain block is committed
  to on two forks. The hypothesis is needed; without it `NoReturn` fails, see the
  findings. The invariant is `Outranked`: of the blocks a node has left, those
  with a tip on the active mainchain are outranked by the tip it is at, which is
  then on the active mainchain, too (`TInv`).
  `ActiveNodesAgree` is `Agreement` for nodes at
  tips of the active mainchain; a node left on a tip of a dead fork may be at
  rest elsewhere, and whether one is depends on the instance. `PeerCheckExact`
  (`PeerCheckAgrees`): the copy of the comparison in the peer task gives the
  answer of the archive, if the mainchain blocks are finitely many, so
  that one commitment of a block has the most work.

* **PeerSetProofs.** `KnownPeersDialable` (`KnownDialable`), for any addresses,
  seeds and delays. `connect_peer` stores the addresses of what it dials but looks
  at the first one only, so the invariant says that nothing waits to be dialled,
  in a connection or in a sleeping reconnect, that is neither a host name, whose
  addresses are not stored, nor a single address (`Resolved`).

Only model-checked:

* liveness (`Synced`, `KeepsDialing`, `Propagates`,
  `StaleLeaves`, `EventuallySynced`), which the prover does not do;
* `Agreement` beyond `ActiveAgreement`, for the reason above;
* `SupplyBacked`: it adds up the outputs, pools and auctions that hold an asset,
  a sum over a set whose value takes induction over data;
* the properties of PeerSync, TxPool and Wallet, and the refinement of
  TipOffers, for the same reason: folds over sequences and sets.

## Findings

Two runs end in a violation; `PROJECT.json` quotes the line each contradicts.

| Run | Property | What happens |
|---|---|---|
| `keyed_sequence_long` | Sequential | after 257 entries the last key is not the newest |
| `tx_pool_conflict` | PeerTransactionConflictsDoNotStopNetTask | a pooled transaction that conflicts with one of a connected block stops the net task when a reorg puts the block's transactions back |

Four properties of the passing runs carry an exception for what the code does and
a reader of it would not expect, described under [Runs](#runs): bundles reported
before they are collected (`ConnectPanicFree`), mixed blocks (`PegExact`,
`PanicsOnlyWhen`), requests dropped as repeats (`Synced`), and assets
paid twice, because `output_asset_total_values` clears its options inside a `move`
closure, that is, in copies (`SupplyBacked`, `chained` in FilledTx).

The statements of the next table come from comments, assertions and docs, or are
a property of the runs on another instance. They have no run of their own; TLC
refutes each when it is added to the run named, with the change of its cfg
given.

| Statement | Run, with | What happens |
|---|---|---|
| RoundTrip | `peg` | a bundle collected in the block that submits the pending one stays when that block is disconnected; `RestoresUpToLeak` says that nothing else does |
| BundleSpendsIndexed | `peg` | outputs removed by the confirmation of an unexpected bundle are in no index entry |
| NoReturn | `tip_order`, `MCsecond_commitment`, `MCprev_side_second`, one node | a block committed to on two forks is judged by one commitment as the current tip and by the other as the new one: the node goes back and forth |
| DocumentedRule | `tip_order` | at equal heights on one lineage the tip of *lower* work wins, unlike the doc comment of `better_tip` |
| DisconnectTolerant | `archive`, `Unwanted = {}` | a mainchain tip that commits to an unknown sidechain block cannot be disconnected |
| ParentBmmActive | `archive` | `sidechain_tips` keeps blocks without a parent commitment on the active mainchain |
| OrderedUsable | `archive` | an invalidated block stays among the tips to reorg to |
| OrderedComplete | `archive` | a tip is missing after its mainchain block was disconnected and connected again |
| InclusionsExact | `archive` | a body stored over another leaves the other's inclusions |
| TipKnown, PegExact, NeverWorse | `node_tip`, `MCTwiceMain`, `MCTwiceSide` and `MCtwice_…`, nothing forged or unwanted | a block committed to on two forks, with more work on the dead one, is taken with that commitment when tips are compared: the node goes to a tip that SideTips does not have, whose blocks are then disconnected without their mainchain events |
| StateErrorsNotFatal | `node_tip` | an invalid body tried after a mainchain event stops the net task |
| InvalidStaysOut | `node_tip` | a block invalidated during a reorg is stored again by its rest |
| ConnectedBodies | `node_tip` | a late second answer overwrites the body of a connected block |
| RedialNeverFirst | `peers`, `MaxFaults = 2` | a connection that comes and goes between two checks of the redial leaves a reconnect waiting, and the redial dials before it |
| DisconnectAlways | `state_block`, `Scenario <- MCScenarioNames` | two registrations of one name in a block are both valid, for each is checked against the state before the block, and the block cannot be disconnected |
| StateBlock's PanicFree | `state_block` | a bid in the last block of an auction fails the assertion of dutch_auction.rs:99; a swap of at most 1 into an empty side divides by zero |

Noticed in the code while translating it, without a formula of their own, each of
them visible in the definition named:

* a registration with an initial supply of zero gets no control coin to fill and
  cannot be filled (`new_bitasset`); the number of unique BitAsset *outputs* is
  computed from the inputs (`InvalidBitAssets`);
* a coin spent by a pooled transaction leaves `wallet.utxos` at one update and
  comes back at the next; `unconfirmed_utxos` is not cleared when an output is
  confirmed, so that coin selection may count a coin twice (the node
  refuses the result); outputs of disconnected blocks stay in `wallet.utxos`
  (`PutUtxos`, `SpendUtxos`, `select_bitcoins`);
* burns, collects and swaps between BitAssets that the wallet builds are not
  accepted, and mints and auctions only with change on the BitAsset side
  (`WalletBuild`, with `chained`); the amounts of a mint are not swapped along
  with assets that are given out of order;
  `select_bitasset_control` selects a BitAsset coin instead of a control coin;
* the fee of a transaction leaves out the Bitcoin that pools and auctions pay or
  take (`bitcoin_fee`, `TradesBitcoin`);
* neither `remove_from_mempool` nor the deletions of invalid transactions when a
  template is built or a peer connects bring the wallet up to date before the
  next block (`freed`);
* an invalidated block stays in `sidechain_tips` and in the order, so that the
  net task tries it again at the next mainchain event and ends with an archive
  error (`NetTaskRuns`, `OrderedUsable`).

## Abstractions

* Hashes are model values or strings: no collisions, a hash fixes a header.
* In TwoWayPeg amounts, fees and weights are left out: a bundle spends every
  withdrawal output there is, while the code sorts the withdrawals by fee and
  stops at a weight limit. A body is the set of deposits it turns into
  withdrawals. StateBlock has the amounts and leaves out the peg: the two touch
  `utxos` and `stxos` only in common.
* Memos, addresses (except whether they are the wallet's), signatures and the
  optional fields of BitAssetData beyond "some fields" are left out.
* A body in the archive is a set of transactions; it is valid when it is the one
  its header's merkle root commits to. A body that has the right root and is
  still invalid is not in NodeTip.
* The walks over ancestors (`last_common_ancestor`, `get_nth_ancestor`,
  `is_descendant`…) are defined by what they return.
* The mailbox of mainchain events is a flag: `handle_mainchain_block_event`
  only counts what the events lead to, and several are treated as one.
* A write transaction is one step, except where its inside matters (`delete`,
  events of a block). Errors of LMDB itself are left out.
* NodeTip has the archive and the state of `connect_tip_` and `disconnect_tip_`;
  what they do to the mempool in the same write transaction is in TxPool, where a
  reorg is one step and a higher block the better tip. In PeerSync, too,
  `reorg_to_tip` is one step and the blocks of the honest peer are valid.
* A failed `assert!` is a state of its own in NodeTip (`net_task =
  "panicked"`), a result in StateBlock, and a predicate in TwoWayPeg.
* The sums of amounts in FilledTx do not overflow: the coins of a chain are far
  fewer than 2^64 sats, and supplies are checked where they are made.
* `submit_block` stores the header of its block before the body. In NodeTip the
  headers that are tried are stored at the start; the write of a header is
  MainchainTask's `SubmitHeader`, also of a block that was invalidated.
* In PeerSet `connect_peer` looks for an active peer and inserts the new one in
  one step (two locks in the code), and the removal of a peer whose tip made
  the state refuse a block is left out. In TxPool a push meets no closed queue. In
  PeerSync `handle_peer_state_change` reads the archive once.
* Time in PeerSet is a count of ticks; what is due happens before the next one.

## Not modelled

The list, with a reason for each, is under `components` in `PROJECT.json`. Left
out for good: encodings and hashes, key derivation, encryption and signatures
(their verdict is an input), the RPC and CLI interfaces and the drawing of the
GUI (no state of the protocol), QUIC and certificates, the integration tests.
Not modelled yet: the exponential ancestors of the archive.

## Plan

1. `Ancestry`: the exponential ancestors that `put_header` stores and
   `get_nth_ancestor` and `last_common_ancestor` use, against the definitions in
   Blocks.
2. Proofs: `SupplyBacked`; the part of `ConnectPanicFree` after an early
   collection; `NetTaskRuns` and the refinement of TipOffers by PeerSync.
3. Composition of StateBlock with TwoWayPeg: a withdrawal of a transaction that
   a bundle collects, in the amounts of the code.
