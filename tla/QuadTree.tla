------------------------------ MODULE QuadTree ------------------------------
(***************************************************************************)
(* The points of a layer, pandb.c: a tree whose inner nodes (quads) split  *)
(* their rectangle in four and whose leaves (buckets) hold the slots of    *)
(* the records that have a position.  A node is identified by its          *)
(* rectangle.  A PUT that moves a record and a DELETE run under            *)
(* rwlock_layers, hence are one step; the expiration of a record           *)
(* (expirables.c) does to the tree what DELETE does.  Allocation failures  *)
(* are left out.                                                           *)
(***************************************************************************)
EXTENDS Integers, FiniteSets

CONSTANTS Key,
          Position,     \* positions of requests, out of bounds ones too
          NoPosition,   \* a PUT without _loc
          NoBucket,     \* the NULL slot of a record without a position
          LatBound, LonBound,   \* 90 and 180 in the program
          BucketSize,   \* BUCKET_SIZE: 50
          MergeBelow,   \* bucket_size / 6 * 5: 40
          Accuracy      \* latitude_accuracy and longitude_accuracy, in the
                        \* unit of the grid that positions are on

(* The root can be split, and NULL is no node. *)
ASSUME TreeAssumption ==
    /\ IsFiniteSet(Key)
    /\ LatBound \in Nat \ {0} /\ LonBound \in Nat \ {0} /\ Accuracy \in Nat \ {0, 1}
    /\ Accuracy <= 2 * LatBound /\ Accuracy <= 2 * LonBound
    /\ BucketSize \in Nat \ {0} /\ MergeBelow \in 0 .. BucketSize
    /\ NoBucket \notin [edge0 : [latitude : Int, longitude : Int],
                        edge1 : [latitude : Int, longitude : Int]]
    /\ Position \subseteq [latitude : Int, longitude : Int] /\ NoPosition \notin Position

VARIABLES key_nodes,   \* keys of the layer's records
          tree         \* nodes, and the slot of each key

vars == <<key_nodes, tree>>
-----------------------------------------------------------------------------
(* Rectangles *)

Rect(lat0, lon0, lat1, lon1) ==
    [edge0 |-> [latitude |-> lat0, longitude |-> lon0],
     edge1 |-> [latitude |-> lat1, longitude |-> lon1]]

qbounds == Rect(-LatBound, -LonBound, LatBound, LonBound)

Height(r) == r.edge1.latitude - r.edge0.latitude
Width(r)  == r.edge1.longitude - r.edge0.longitude

(* The four children of a quad, in the order of its nodes array. *)
get_qrects_from_qbounds(r) ==
    LET lat == (r.edge0.latitude + r.edge1.latitude) \div 2
        lon == (r.edge0.longitude + r.edge1.longitude) \div 2
    IN  << Rect(r.edge0.latitude, lon, lat, r.edge1.longitude),
           Rect(lat, lon, r.edge1.latitude, r.edge1.longitude),
           Rect(r.edge0.latitude, r.edge0.longitude, lat, lon),
           Rect(lat, r.edge0.longitude, r.edge1.latitude, lon) >>

Children(r) == {get_qrects_from_qbounds(r)[i] : i \in 1 .. 4}

(* A rectangle owns its lower edges and not its upper ones. *)
position_is_in_rect(p, r) ==
    /\ p.latitude >= r.edge0.latitude /\ p.longitude >= r.edge0.longitude
    /\ p.latitude < r.edge1.latitude /\ p.longitude < r.edge1.longitude

find_node_for_position(quad, p) ==
    CHOOSE r \in Children(quad) : position_is_in_rect(p, r)
-----------------------------------------------------------------------------
(* Nodes *)

Slot(k, p) == [key |-> k, position |-> p]

Bucket(slots) == [slots |-> slots, busy_slots |-> Cardinality(slots)]

init_pan_db == [quads     |-> {qbounds},
                sub_slots |-> [q \in {qbounds} |-> 0],
                buckets   |-> [b \in Children(qbounds) |-> Bucket({})],
                slot      |-> [k \in Key |-> NoBucket]]

parent(t, node) == CHOOSE q \in t.quads : node \in Children(q)

(* The quads on the way from a node's parent to the root. *)
Ancestors(t, node) ==
    {q \in t.quads : q # node /\ position_is_in_rect(node.edge0, q)
                              /\ Height(q) > Height(node)}

SlotOf(t, k) == CHOOSE s \in t.buckets[t.slot[k]].slots : s.key = k

(* The new slot is counted in its bucket and in all quads above it. *)
add_slot_to_bucket(t, bucket, s) ==
    [t EXCEPT
       !.buckets[bucket] = [slots |-> @.slots \cup {s}, busy_slots |-> @.busy_slots + 1],
       !.sub_slots = [q \in t.quads |->
                        IF q \in Ancestors(t, bucket) THEN @[q] + 1 ELSE @[q]],
       !.slot[s.key] = bucket]

(* Mutant: the new quad counts the new slot and not those it takes over. *)
Split_NotCounted(t, bucket) ==
    LET Owned(b) == {s \in t.buckets[bucket].slots :
                        find_node_for_position(bucket, s.position) = b}
    IN  [quads     |-> t.quads \cup {bucket},
         sub_slots |-> [q \in t.quads \cup {bucket} |->
                          IF q = bucket THEN 0 ELSE t.sub_slots[q]],
         buckets   |-> [b \in (DOMAIN t.buckets \ {bucket}) \cup Children(bucket) |->
                          IF b \in Children(bucket) THEN Bucket(Owned(b)) ELSE t.buckets[b]],
         slot      |-> [k \in Key |->
                          IF t.slot[k] = bucket
                          THEN find_node_for_position(bucket, SlotOf(t, k).position)
                          ELSE t.slot[k]]]

(* A quad takes the place of a bucket; its slots move to the children.     *)
(* The quads above counted them already.                                   *)
Split(t, bucket) ==
    LET Owned(b) == {s \in t.buckets[bucket].slots :
                        find_node_for_position(bucket, s.position) = b}
    IN  [quads     |-> t.quads \cup {bucket},
         sub_slots |-> [q \in t.quads \cup {bucket} |->
                          IF q = bucket THEN t.buckets[bucket].busy_slots ELSE t.sub_slots[q]],
         buckets   |-> [b \in (DOMAIN t.buckets \ {bucket}) \cup Children(bucket) |->
                          IF b \in Children(bucket) THEN Bucket(Owned(b)) ELSE t.buckets[b]],
         slot      |-> [k \in Key |->
                          IF t.slot[k] = bucket
                          THEN find_node_for_position(bucket, SlotOf(t, k).position)
                          ELSE t.slot[k]]]

(* The bucket that the descent from the root ends at. *)
BucketFor(t, p) ==
    LET last == CHOOSE q \in t.quads : /\ position_is_in_rect(p, q)
                                       /\ find_node_for_position(q, p) \notin t.quads
    IN  find_node_for_position(last, p)

(* Mutant: a bucket is split however small it is. *)
MayHold_NoAccuracy(t, bucket) == t.buckets[bucket].busy_slots < BucketSize

(* Mutant: one slot too many before the split. *)
MayHold_OneMore(t, bucket) ==
    \/ t.buckets[bucket].busy_slots <= BucketSize
    \/ Height(bucket) < Accuracy \/ Width(bucket) < Accuracy

(* A bucket is filled when it has room, or is too small to be split. *)
MayHold(t, bucket) ==
    \/ t.buckets[bucket].busy_slots < BucketSize
    \/ Height(bucket) < Accuracy \/ Width(bucket) < Accuracy

(* A full bucket is split once; the child takes the slot, full or not. *)
add_slot(t, s) ==
    LET bucket == BucketFor(t, s.position)
    IN  IF MayHold(t, bucket)
        THEN add_slot_to_bucket(t, bucket, s)
        ELSE add_slot_to_bucket(Split(t, bucket),
                                find_node_for_position(bucket, s.position), s)
-----------------------------------------------------------------------------
(* Removal *)

Take(t, k) ==
    LET bucket == t.slot[k]
    IN  [t EXCEPT !.buckets[bucket] = [slots |-> @.slots \ {SlotOf(t, k)},
                                       busy_slots |-> @.busy_slots - 1],
                  !.slot[k] = NoBucket]

BusyBelow(t, quad) ==
    LET Busy(i) == t.buckets[get_qrects_from_qbounds(quad)[i]].busy_slots
    IN  Busy(1) + Busy(2) + Busy(3) + Busy(4)

(* Buckets of the root are never merged. *)
MayMerge(t, bucket) ==
    LET quad == parent(t, bucket)
    IN  /\ quad # qbounds
        /\ t.buckets[bucket].busy_slots <= BucketSize \div 2
        /\ Children(quad) \subseteq DOMAIN t.buckets
        /\ BusyBelow(t, quad) < MergeBelow

(* Mutant: the buckets that were merged stay. *)
Merge_KeepsBuckets(t, quad) ==
    [quads     |-> t.quads \ {quad},
     sub_slots |-> [q \in t.quads \ {quad} |-> t.sub_slots[q]],
     buckets   |-> [b \in DOMAIN t.buckets \cup {quad} |->
                      IF b = quad
                      THEN Bucket(UNION {t.buckets[c].slots : c \in Children(quad)})
                      ELSE t.buckets[b]],
     slot      |-> [k \in Key |-> IF t.slot[k] \in Children(quad) THEN quad ELSE t.slot[k]]]

(* Mutant: the keys keep pointing at the slots of the freed buckets. *)
Merge_KeepsSlots(t, quad) ==
    [quads     |-> t.quads \ {quad},
     sub_slots |-> [q \in t.quads \ {quad} |-> t.sub_slots[q]],
     buckets   |-> [b \in (DOMAIN t.buckets \ Children(quad)) \cup {quad} |->
                      IF b = quad
                      THEN Bucket(UNION {t.buckets[c].slots : c \in Children(quad)})
                      ELSE t.buckets[b]],
     slot      |-> t.slot]

(* One bucket takes the place of a quad and gets the slots of its children. *)
Merge(t, quad) ==
    [quads     |-> t.quads \ {quad},
     sub_slots |-> [q \in t.quads \ {quad} |-> t.sub_slots[q]],
     buckets   |-> [b \in (DOMAIN t.buckets \ Children(quad)) \cup {quad} |->
                      IF b = quad
                      THEN Bucket(UNION {t.buckets[c].slots : c \in Children(quad)})
                      ELSE t.buckets[b]],
     slot      |-> [k \in Key |-> IF t.slot[k] \in Children(quad) THEN quad ELSE t.slot[k]]]

Uncount(t, bucket) ==
    [t EXCEPT !.sub_slots = [q \in t.quads |->
                               IF q \in Ancestors(t, bucket) THEN @[q] - 1 ELSE @[q]]]

(* The ancestors that are left after a merge are the ones to be updated. *)
remove_entry_from_key_node(t, k) ==
    LET bucket == t.slot[k]
        taken  == Take(t, k)
    IN  IF MayMerge(taken, bucket)
        THEN LET quad == parent(taken, bucket) IN Uncount(Merge(taken, quad), quad)
        ELSE Uncount(taken, bucket)
-----------------------------------------------------------------------------
Init == key_nodes = {} /\ tree = init_pan_db

HasSlot(k) == tree.slot[k] # NoBucket

Moved(k, p) ==
    add_slot(IF HasSlot(k) THEN remove_entry_from_key_node(tree, k) ELSE tree, Slot(k, p))

(* handle_op_records_put: creates the record; a position out of bounds, or *)
(* the one the record has, changes nothing.                                *)
Put(k, p) ==
    /\ key_nodes' = key_nodes \cup {k}
    /\ tree' = IF p = NoPosition \/ ~position_is_in_rect(p, qbounds)
                  \/ (HasSlot(k) /\ SlotOf(tree, k).position = p)
               THEN tree ELSE Moved(k, p)

Delete(k) ==
    /\ k \in key_nodes
    /\ key_nodes' = key_nodes \ {k}
    /\ tree' = IF HasSlot(k) THEN remove_entry_from_key_node(tree, k) ELSE tree

(* The layer is deleted, and created again. *)
free_pan_db ==
    /\ key_nodes # {}
    /\ key_nodes' = {} /\ tree' = init_pan_db

Next == \/ \E k \in Key, p \in Position \cup {NoPosition} : Put(k, p)
        \/ \E k \in Key : Delete(k)
        \/ free_pan_db

Spec == Init /\ [][Next]_vars
-----------------------------------------------------------------------------
(* Properties *)

SlotsIn(r) == UNION {tree.buckets[b].slots : b \in {x \in DOMAIN tree.buckets :
                 position_is_in_rect(x.edge0, r)
                 /\ x.edge1.latitude <= r.edge1.latitude
                 /\ x.edge1.longitude <= r.edge1.longitude}}

(* Nodes are quads or buckets, counters are natural numbers, slots are     *)
(* those of records: the assertions that add_slot and                      *)
(* remove_entry_from_key_node make on types and counters.  Cells that the  *)
(* accuracy keeps from being split have whole sides.                       *)
TypeOK ==
    /\ key_nodes \subseteq Key
    /\ DOMAIN tree.sub_slots = tree.quads
    /\ qbounds \in tree.quads
    /\ \A q \in tree.quads : /\ tree.sub_slots[q] \in Nat
                             /\ Height(q) >= Accuracy /\ Width(q) >= Accuracy
    /\ \A b \in DOMAIN tree.buckets :
          /\ tree.buckets[b].busy_slots \in Nat
          /\ \A s \in tree.buckets[b].slots : s.key \in key_nodes /\ s.position \in Position
    /\ tree.slot \in [Key -> DOMAIN tree.buckets \cup {NoBucket}]

(* Splits and merges keep a tree: the children of each quad are nodes, no  *)
(* node is a quad and a bucket, and each node but the root has its parent. *)
WellFormed ==
    /\ \A q \in tree.quads : Children(q) \subseteq tree.quads \cup DOMAIN tree.buckets
    /\ tree.quads \cap DOMAIN tree.buckets = {}
    /\ \A n \in (tree.quads \ {qbounds}) \cup DOMAIN tree.buckets :
          \E q \in tree.quads : n \in Children(q)

(* The slot of a record and the bucket that holds it point at each other,  *)
(* through every split and merge; a bucket holds positions of its own      *)
(* rectangle only; a record is in the tree once.                           *)
SlotsPointBack ==
    /\ \A b \in DOMAIN tree.buckets : \A s \in tree.buckets[b].slots :
          tree.slot[s.key] = b /\ position_is_in_rect(s.position, b)
    /\ \A k \in Key : HasSlot(k) => /\ k \in key_nodes
                                    /\ \E s \in tree.buckets[tree.slot[k]].slots : s.key = k
    /\ \A b \in DOMAIN tree.buckets : \A s1, s2 \in tree.buckets[b].slots :
          s1.key = s2.key => s1 = s2

(* The counters that clustering and merging rely on: sub_slots is the      *)
(* number of slots below a quad, busy_slots that of a bucket.              *)
Counted ==
    /\ \A q \in tree.quads : tree.sub_slots[q] = Cardinality(SlotsIn(q))
    /\ \A b \in DOMAIN tree.buckets :
          tree.buckets[b].busy_slots = Cardinality(tree.buckets[b].slots)

(* A bucket that can be split holds BucketSize slots and at most one more  *)
(* for each split above it, since a split gives the new slot to a child    *)
(* without looking how full it is.                                         *)
BucketsBounded ==
    \A b \in DOMAIN tree.buckets :
       Height(b) >= Accuracy /\ Width(b) >= Accuracy =>
          tree.buckets[b].busy_slots <= BucketSize + Cardinality(Ancestors(tree, b)) - 1
=============================================================================
