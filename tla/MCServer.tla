------------------------------ MODULE MCServer ------------------------------
(* One layer with one record, and requests picked so that a lost,  *)
(* repeated or reordered one leaves a different database.                  *)
EXTENDS Server

CONSTANTS layer, k1, pos, LongText, PlusText, SpaceText

PutOf(k, special, properties, position, expires_at) ==
    [tid |-> 0, type |-> "records_put", layer |-> layer, key |-> k,
     special |-> special, properties |-> properties, position |-> position,
     expires_at |-> expires_at]

Create == [tid |-> 0, type |-> "layers_create", layer |-> layer]
DropLayer == [tid |-> 0, type |-> "layers_delete", layer |-> layer]

(* A DELETE with a body that is over the journal's limit. *)
Delete == [tid |-> 0, type |-> "records_delete", layer |-> layer, key |-> k1]
Increment == PutOf(k1, << [do |-> "delete", property |-> "b", value |-> 1],
                          [do |-> "delete_all", value |-> EmptyValue],
                          [do |-> "add_int", property |-> "a", value |-> 1] >>,
                   NoProperties, NoPosition, 0)
Clear == PutOf(k1, << [do |-> "delete_all", value |-> 1] >>,
               [a |-> LongText, b |-> 1], FinePosition, 0)
Expiring == PutOf(k1, << >>, [a |-> PlusText], pos, 2)

StoreRequests == {Create, DropLayer, Delete, Increment, Clear}
CountRequests == {Create, Increment}
ExpiringRequests == {Create, Expiring}

NoRequests == {}
OversizedRequests == {Delete}
PosSet == {pos, FinePosition, SixDecimals}
LayerSet == {layer}
OneKey == {k1}
SameKey == [k \in OneKey |-> k]
SameText == [v \in {} |-> v]
LongTexts == {LongText}

(* A key with a "%3F" in it. *)
CutKey == [k \in OneKey |-> NoKey]
SpaceForPlus == [v \in {PlusText} |-> SpaceText]
=============================================================================
