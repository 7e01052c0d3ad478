------------------------------ MODULE BitAssets ------------------------------
(***************************************************************************)
(* The names of lib/state/bitassets.rs: reservations, registrations with   *)
(* their sequence numbers, updates and mints, and what undoes each.  The   *)
(* operators work on the databases d = [reservations, bitassets,           *)
(* seq_to_bitasset, bitasset_to_seq]; beside f stand f_refused (an error)  *)
(* and f_panics (an assert! or expect fails).                              *)
(***************************************************************************)
EXTENDS FilledTx, TxidStamped, SequentialKeys, TLC

CONSTANT Field   \* the optional fields of BitAssetData, all treated alike

ASSUME FieldAssumption == Field # {}

NoValue == "none"                       \* Option::None
Retain == [op |-> "Retain"]             \* Update
Delete == [op |-> "Delete"]
Set(value) == [op |-> "Set", value |-> value]

\* LMDB: put, also of several entries, delete and get.
put(fn, key, value) == [k \in DOMAIN fn \cup {key} |-> IF k = key THEN value ELSE fn[k]]
put_all(fn, new) ==
    [k \in DOMAIN fn \cup DOMAIN new |-> IF k \in DOMAIN new THEN new[k] ELSE fn[k]]
delete(fn, key) == [k \in DOMAIN fn \ {key} |-> fn[k]]
Has(fn, key) == key \in DOMAIN fn

-----------------------------------------------------------------------------
init_data(bitasset_data, initial_supply, txid, height) ==
    [fields |-> [x \in Field |-> new_history(bitasset_data[x], txid, height)],
     total_supply |-> new_history(initial_supply, txid, height)]

supply(data) == latest_of(data.total_supply).data

apply_field_update(r, update, txid, height) ==
    CASE update.op = "Retain" -> r
      [] update.op = "Delete" -> push_stamped(r, NoValue, txid, height)
      [] update.op = "Set" -> push_stamped(r, update.value, txid, height)

revert_field_update(r, update) == IF update.op = "Retain" THEN r ELSE pop_stamped(r)

revert_field_panics(r, update, txid, height) ==
    /\ update.op # "Retain"
    /\ \/ ~PoppedBy(r, txid)
       \/ latest_of(r).height # height
       \/ latest_of(r).data # IF update.op = "Set" THEN update.value ELSE NoValue

current(data) == [x \in Field |-> latest_of(data.fields[x]).data]

\* BitAssetData::at_block_height: nothing before the registration.
known_at(data, height) == \A x \in Field : at_block_height_exists(data.fields[x], height)
data_at(data, height) == [x \in Field |-> at_block_height(data.fields[x], height)]

-----------------------------------------------------------------------------
\* Mutant: the last sequence number is used again.
next_seq_last(d) == IF DOMAIN d.seq_to_bitasset = {} THEN 0 ELSE last(d.seq_to_bitasset)

\* The sequence number of the next registration follows the last key.
next_seq(d) == next_key(d.seq_to_bitasset)

burned_reservation_txid(f) == spent_reservations(f)[Min(BurnedReservations(f))].of[1]

registration_refused(d, f) ==
    \/ BurnedReservations(f) = {}
    \/ ~Has(d.reservations, burned_reservation_txid(f))

apply_registration(d, f, height) ==
    LET bitasset == BitAsset(f.data.name_hash)
    IN  [d EXCEPT !.reservations = delete(@, burned_reservation_txid(f)),
                  !.seq_to_bitasset = put(@, next_seq(d), bitasset),
                  !.bitasset_to_seq = put(@, bitasset, next_seq(d)),
                  !.bitassets = put(@, bitasset, init_data(f.data.bitasset_data,
                                                           f.data.initial_supply, f.txid, height))]

unregistration_refused(d, f) ==
    LET bitasset == BitAsset(f.data.name_hash)
    IN  \/ ~Has(d.bitasset_to_seq, bitasset)
        \/ ~Has(d.seq_to_bitasset, d.bitasset_to_seq[bitasset])
        \/ ~Has(d.bitassets, bitasset)

unregistration_panics(f) == BurnedReservations(f) = {}

revert_registration(d, f) ==
    LET bitasset == BitAsset(f.data.name_hash)
    IN  [d EXCEPT !.bitasset_to_seq = delete(@, bitasset),
                  !.seq_to_bitasset = delete(@, d.bitasset_to_seq[bitasset]),
                  !.bitassets = delete(@, bitasset),
                  !.reservations = put(@, burned_reservation_txid(f),
                                       implied_reservation_commitment(f))]

-----------------------------------------------------------------------------
\* The BitAsset of the last BitAsset input is updated.
updated_bitasset(f) == Last(spent_bitassets(f)).of

update_refused(d, f) == spent_bitassets(f) = <<>> \/ ~Has(d.bitassets, updated_bitasset(f))

apply_updates(d, f, height) ==
    [d EXCEPT !.bitassets[updated_bitasset(f)].fields =
        [x \in Field |-> apply_field_update(@[x], f.data.updates[x], f.txid, height)]]

revert_updates_panics(d, f, height) ==
    \E x \in Field : revert_field_panics(d.bitassets[updated_bitasset(f)].fields[x],
                                         f.data.updates[x], f.txid, height)

revert_updates(d, f) ==
    [d EXCEPT !.bitassets[updated_bitasset(f)].fields =
        [x \in Field |-> revert_field_update(@[x], f.data.updates[x])]]

\* The BitAsset of the last control coin is minted.
mint_refused_of(d, f) ==
    \/ ~HasBitAssetMint(f)
    \/ ~Has(d.bitassets, minted_bitasset(f))
    \/ checked_add(supply(d.bitassets[minted_bitasset(f)]), f.data.amount) = Overflow

apply_mint(d, f, height) ==
    [d EXCEPT !.bitassets[minted_bitasset(f)].total_supply =
        push_stamped(@, latest_of(@).data + f.data.amount, f.txid, height)]

revert_mint_refused_of(d, f) ==
    \/ ~HasBitAssetMint(f)
    \/ ~Has(d.bitassets, minted_bitasset(f))
    \/ f.data.amount > supply(d.bitassets[minted_bitasset(f)])

revert_mint(d, f) ==
    [d EXCEPT !.bitassets[minted_bitasset(f)].total_supply = pop_stamped(@)]

revert_mint_panics(d, f) ==
    LET data == d.bitassets[minted_bitasset(f)]
    IN  latest_of(pop_stamped(data.total_supply)).data # supply(data) - f.data.amount
=============================================================================
