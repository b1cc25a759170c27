------------------------------- MODULE Store --------------------------------
(***************************************************************************)
(* What the workers' handlers do to the in-memory database, as operators:  *)
(* the layers of domain_layers.c, the records of domain_records.c, the     *)
(* purge of expirables.c, and the records that a journal rewrite           *)
(* (domain_system.c) dumps.  A database is a function from layer names to  *)
(* Absent or a layer, a layer one from keys to Absent or a record, and a   *)
(* record holds properties (a function on the property names it has), a    *)
(* position and an expiration date.  A handler runs under rwlock_layers,   *)
(* hence is one application of an operator.                                *)
(***************************************************************************)
EXTENDS Integers, Sequences, FiniteSets, SequencesExt

CONSTANTS Layer,         \* layer names
          Key,           \* record keys
          Absent,        \* no such layer, no such record
          InBounds,      \* positions inside the layer's qbounds
          IntMax,        \* INTMAX_MAX
          NoPosition,    \* a PUT without _loc, a record without a slot
          NoKey,         \* what stands in a URI that process_request refuses
          DecodedKey,    \* what a start reads where a rewrite wrote a key
          DecodedText,   \* the same for the texts, values and names of
                         \* properties alike, that do not read back as such
          EmptyValue,    \* a value that is empty or starts with a NUL
          LongValue,     \* the values too long to be a number for _add_int
          FinePosition,  \* a position with more than six decimals
          SixDecimals    \* what "%f" makes of it

(* A text is no number.  "%f" keeps a position inside the bounds: the      *)
(* largest float below a bound is printed as less than it.                 *)
ASSUME StoreAssumption == /\ IntMax \in Nat /\ IsFiniteSet(Layer) /\ IsFiniteSet(Key)
                          /\ NoKey \notin Key /\ DecodedKey \in [Key -> Key \cup {NoKey}]
                          /\ \A v \in DOMAIN DecodedText :
                                v \notin Int /\ DecodedText[v] \notin Int
                          /\ {FinePosition, SixDecimals} \subseteq InBounds
                          /\ NoPosition \notin InBounds

NoProperties == [p \in {} |-> 0]
EmptyLayer == [k \in Key |-> Absent]
EmptyDB == [l \in Layer |-> Absent]
NewRecord == [properties |-> NoProperties, position |-> NoPosition, expires_at |-> 0]

(* The map with v under p, and the map without p. *)
With(props, p, v) == [q \in DOMAIN props \cup {p} |-> IF q = p THEN v ELSE props[q]]
Without(props, p) == [q \in DOMAIN props \ {p} |-> props[q]]

(***************************************************************************)
(* _add_int: reads both numbers with strtoimax, which makes 0 of a text    *)
(* and the nearest intmax_t of a larger number; a property that is not     *)
(* there counts as "0".  The sum is not checked: the add instruction wraps *)
(* around.                                                                 *)
(***************************************************************************)
Number(v) == CASE v \notin Int -> 0
               [] v \in Int /\ v > IntMax -> IntMax
               [] v \in Int /\ v < -IntMax - 1 -> -IntMax - 1
               [] OTHER -> v
Wrap(n) == ((n + IntMax + 1) % (2 * (IntMax + 1))) - (IntMax + 1)
AddInt(props, p, n) ==
    LET old == IF p \in DOMAIN props THEN Number(props[p]) ELSE 0
    IN  With(props, p, Wrap(old + Number(n)))

(* A special property without a value is ignored, and _add_int where one   *)
(* of its two values is too long.                                          *)
Heeded(props, s) ==
    /\ s.value # EmptyValue
    /\ s.do = "add_int" =>
         /\ s.value \notin LongValue
         /\ s.property \in DOMAIN props => props[s.property] \notin LongValue

(* records_put_apply_special_properties_cb, for one special property. *)
ApplySpecial(props, s) ==
    CASE ~Heeded(props, s) -> props
      [] Heeded(props, s) /\ s.do = "delete"     -> Without(props, s.property)
      [] Heeded(props, s) /\ s.do = "delete_all" -> NoProperties
      [] Heeded(props, s) /\ s.do = "add_int"    -> AddInt(props, s.property, s.value)

(* handle_op_records_put runs it over the request's special properties. *)
ApplySpecials(props, special) ==
    LET after[i \in 0 .. Len(special)] ==
            IF i = 0 THEN props ELSE ApplySpecial(after[i - 1], special[i])
    IN  after[Len(special)]

(* records_put_merge_properties_cb over the PUT's properties. *)
Merge(props, new) ==
    [q \in DOMAIN props \cup DOMAIN new |->
        IF q \in DOMAIN new THEN new[q] ELSE props[q]]

(***************************************************************************)
(* handle_op_records_put on the key's node: a position out of the layer's  *)
(* bounds is ignored; special properties come before plain ones; a PUT     *)
(* without an expiration date removes the one the record had.              *)
(***************************************************************************)
UpdateRecord(r, put) ==
    [properties |-> Merge(ApplySpecials(r.properties, put.special), put.properties),
     position   |-> IF put.position \in InBounds THEN put.position ELSE r.position,
     expires_at |-> put.expires_at]

RecordsPut(db, op) ==
    LET old == db[op.layer][op.key]
    IN  [db EXCEPT ![op.layer][op.key] =
            UpdateRecord(IF old = Absent THEN NewRecord ELSE old, op)]

(* handle_op_records_delete: a record that is not there stays away. *)
RecordsDelete(db, op) == [db EXCEPT ![op.layer][op.key] = Absent]

(* handle_op_layers_create: a layer that exists keeps its records. *)
LayersCreate(db, op) ==
    IF db[op.layer] = Absent THEN [db EXCEPT ![op.layer] = EmptyLayer] ELSE db

(* handle_op_layers_delete, records included. *)
LayersDelete(db, op) == [db EXCEPT ![op.layer] = Absent]

(***************************************************************************)
(* One operation on the database.  Everything but the creation of a layer  *)
(* fails with 404, and changes nothing, when the layer does not exist.     *)
(***************************************************************************)
Apply(db, op) ==
    CASE op.type = "layers_create" -> LayersCreate(db, op)
      [] op.type # "layers_create" /\ db[op.layer] = Absent -> db
      [] op.type = "layers_delete" /\ db[op.layer] # Absent -> LayersDelete(db, op)
      [] op.type = "records_put" /\ db[op.layer] # Absent -> RecordsPut(db, op)
      [] op.type = "records_delete" /\ db[op.layer] # Absent -> RecordsDelete(db, op)

ApplyAll(db, ops) ==
    LET after[i \in 0 .. Len(ops)] ==
            IF i = 0 THEN db ELSE Apply(after[i - 1], ops[i])
    IN  after[Len(ops)]

(* purge_expired_keys at time now. *)
Purge(db, now) ==
    [l \in Layer |->
        IF db[l] = Absent THEN Absent
        ELSE [k \in Key |->
                IF db[l][k] # Absent /\ db[l][k].expires_at # 0
                                     /\ now >= db[l][k].expires_at
                THEN Absent ELSE db[l][k]]]
-----------------------------------------------------------------------------
(* The dump of a rewrite *)

(***************************************************************************)
(* A text written with uri_encode_binval and read back with query_parse:   *)
(* uri_encode leaves '+' as it is, and the parser reads '+' as a space.    *)
(***************************************************************************)
Reread(v) == IF v \in DOMAIN DecodedText THEN DecodedText[v] ELSE v

(* A position written with "%f,%f" and read back with strtod. *)
RereadPosition(pos) == IF pos = FinePosition THEN SixDecimals ELSE pos

(* The properties read back; of two names that become one, one is kept. *)
RereadProperties(props) ==
    [q \in {Reread(p) : p \in DOMAIN props} |->
        Reread(props[CHOOSE p \in DOMAIN props : Reread(p) = q])]

(***************************************************************************)
(* rebuild_journal_record_cb: one PUT that recreates the record.  The key  *)
(* goes into its URI as it is, and the start that reads it decodes the     *)
(* URI: a key with a '%' becomes another one, or the rest of the URI is    *)
(* cut off behind a '?' or a NUL, and process_api_request refuses it.      *)
(***************************************************************************)
DumpRecord(l, k, r) ==
    [tid |-> 0, type |-> "records_put", layer |-> l, key |-> DecodedKey[k],
     special |-> << >>, properties |-> RereadProperties(r.properties),
     position |-> RereadPosition(r.position), expires_at |-> r.expires_at]

(* No key and no text of the database is changed by a rewrite. *)
ReadsBack == /\ \A k \in Key : DecodedKey[k] = k
             /\ \A v \in DOMAIN DecodedText : DecodedText[v] = v

(* Mutant: only the records are dumped. *)
DumpLayer_NoCreate(db, l) ==
    LET keys == SetToSeq({k \in Key : db[l][k] # Absent})
    IN  [i \in DOMAIN keys |-> DumpRecord(l, keys[i], db[l][keys[i]])]

(* rebuild_journal_layer_cb: the layer's creation, then its records. *)
DumpLayer(db, l) ==
    LET keys == SetToSeq({k \in Key : db[l][k] # Absent})
    IN  << [tid |-> 0, type |-> "layers_create", layer |-> l] >>
        \o [i \in DOMAIN keys |-> DumpRecord(l, keys[i], db[l][keys[i]])]

(* rebuild_journal: every layer. *)
Dump(db) ==
    LET layers == SetToSeq({l \in Layer : db[l] # Absent})
    IN  FlattenSeq([i \in DOMAIN layers |-> DumpLayer(db, layers[i])])
=============================================================================
