------------------------------- MODULE MCWallet -------------------------------
(***************************************************************************)
(* Scenarios for Wallet: payments that race with blocks, and one           *)
(* transaction of each kind the wallet builds, with and without change.    *)
(***************************************************************************)
EXTENDS Wallet

Coins(contents) ==
    [o \in {<<0, i>> : i \in DOMAIN contents} |-> [content |-> contents[o[2]], addr |-> 1]]

A1 == BitAsset(1)
A2 == BitAsset(2)

Transfer(v) == [kind |-> "transfer", value |-> v, fee |-> 1]

\* A payment of the wallet and one to it, in blocks that come and go.
Payments ==
    [coins |-> Coins(<<BitcoinContent(4), BitcoinContent(7)>>),
     requests |-> {Transfer(6)}, sends |-> 1, payments |-> 1, reorgs |-> 1,
     templates |-> 0, removals |-> 1]

\* A second payment from the change of the first, confirmed or not.
Spending ==
    [coins |-> Coins(<<BitcoinContent(4), BitcoinContent(7)>>),
     requests |-> {Transfer(5), [kind |-> "withdrawal", value |-> 3, fee |-> 1]},
     sends |-> 2, payments |-> 0, reorgs |-> 1, templates |-> 0, removals |-> 1]

\* A reorg takes the change away that the second payment spends beside
\* another coin: it is deleted when a template is built, or before.
Mining ==
    [coins |-> Coins(<<BitcoinContent(2), BitcoinContent(3), BitcoinContent(5)>>),
     requests |-> {Transfer(3)}, sends |-> 2, payments |-> 0, reorgs |-> 1,
     templates |-> 1, removals |-> 0]

Trade(kind, a, b, x, y, value, fee) ==
    [kind |-> kind, a |-> a, b |-> b, x |-> x, y |-> y, value |-> value, fee |-> fee, auction |-> 9]

Trades ==
    [coins |-> Coins(<<BitcoinContent(4), BitAssetContent(A1, 5), BitAssetContent(A1, 3),
                       BitAssetContent(A2, 6), LpContent(<<A1, A2>>, 4), ReceiptContent(9)>>),
     requests |->
        {[kind |-> "transfer_many", values |-> <<1, 1>>, fee |-> 1],
         [kind |-> "bitasset_transfer", asset |-> A1, value |-> 3, fee |-> 1],
         [kind |-> "bitasset_transfer", asset |-> A1, value |-> 8, fee |-> 4]} \cup
        {Trade("mint", A1, A2, 2, 3, 2, fee) : fee \in {0, 1}} \cup
        {Trade("mint", A1, A2, 8, 6, 7, 1), Trade("mint", A2, A1, 3, 3, 3, 1),
         Trade("burn", A1, A2, 1, 1, 2, 1), Trade("burn", A1, A2, 1, 1, 4, 0),
         Trade("swap", A1, A2, 2, 1, 0, 1), Trade("swap", A1, Bitcoin, 2, 1, 0, 1),
         Trade("create", A1, A2, 2, 0, 0, 1), Trade("create", A2, A1, 6, 0, 0, 0),
         Trade("create", Bitcoin, A1, 2, 0, 0, 1), Trade("create", BitAssetControl(1), A2, 1, 0, 0, 0),
         Trade("bid", A2, A1, 4, 4, 0, 1), Trade("bid", A2, A1, 2, 1, 0, 0),
         Trade("bid", A1, A2, 3, 3, 0, 1), Trade("collect", A1, A2, 2, 1, 0, 1)},
     sends |-> 1, payments |-> 0, reorgs |-> 0, templates |-> 2, removals |-> 1]

Names ==
    [coins |-> Coins(<<BitcoinContent(9)>>),
     requests |-> {[kind |-> k, name |-> 5, value |-> 3, fee |-> 1] : k \in {"reserve", "rename", "register"}},
     sends |-> 2, payments |-> 0, reorgs |-> 0, templates |-> 1, removals |-> 0]

MCScenario == {Payments, Spending, Mining, Trades, Names}
=============================================================================
