------------------------------ MODULE Searches ------------------------------
(***************************************************************************)
(* The searches of domain_search.c and pandb.c on the records of QuadTree: *)
(* in_rect, with clusters or without, nearby, and by key.  A search only   *)
(* reads, under rwlock_layers: it is an operator on a state.  The order of *)
(* the slots in a bucket is left out: a search that is cut short answers   *)
(* "overflow" and drops what it found.  Distances are the rhomboid ones,   *)
(* in units of DEG_AVG_DISTANCE.                                           *)
(*                                                                         *)
(* The slots of a bucket are in a slab, whose slab_foreach does not find   *)
(* all of them (module Slab): a search looks at those still listed.        *)
(***************************************************************************)
EXTENDS QuadTree, SequencesExt

CONSTANTS InRectQueries,   \* rectangles as the client gives them
          Centers, Radii,  \* of nearby queries
          Limits, Epsilons,
          Patterns,        \* of key searches, without the final '*'
          Secant,          \* 1 / cos of each latitude, a whole number
          ChunkSlots       \* nb_slots_per_chunk: 64

(* A key is the sequence of its bytes, with the final NUL. *)
ASSUME KeysAssumption == \A k \in Key : /\ k \in Seq(Nat) /\ Len(k) >= 2
                                        /\ \A i \in DOMAIN k : k[i] = 0 <=> i = Len(k)

(* search_opt_parse_cb refuses a limit of 0. *)
ASSUME QueriesAssumption ==
    /\ Patterns \subseteq Seq(Nat) /\ Limits \subseteq Nat \ {0}
    /\ Secant \in [-LatBound .. LatBound -> Nat \ {0}] /\ ChunkSlots \in Nat \ {0}

VARIABLE unlisted   \* keys whose slots are in chunks that are on no list
-----------------------------------------------------------------------------
(* The slabs of the buckets *)

(* The slot of a record that the step leaves where it is. *)
Rests(k) == HasSlot(k) /\ tree'.slot[k] # NoBucket /\ SlotOf(tree', k) = SlotOf(tree, k)

(* A chunk that fell off its list comes back to none. *)
StillUnlisted == {k \in unlisted : Rests(k)}

(* A new slot fills the first partial chunk of its bucket: the partial     *)
(* chunks behind it are not listed any more, the full ones are.            *)
FirstChunkFilled ==
    \E k \in {x \in Key : tree'.slot[x] # NoBucket /\ ~Rests(x)} :
       LET filled == {x \in Key : tree'.slot[x] = tree'.slot[k]} \ StillUnlisted
       IN  \E lost \in SUBSET {x \in filled : Rests(x)} :
              /\ lost # {} /\ filled # lost
              /\ Cardinality(filled \ lost) % ChunkSlots = 0
              /\ unlisted' = StillUnlisted \cup lost

(* Splits and merges move listed slots only and free the bucket, to which  *)
(* the keys of the others still point: what follows is not modelled.       *)
LostSlotsStay == \A k \in StillUnlisted : tree'.slot[k] = tree.slot[k]

SearchNext == Next /\ LostSlotsStay /\ (unlisted' = StillUnlisted \/ FirstChunkFilled)

SearchInit == Init /\ unlisted = {}

SearchSpec == SearchInit /\ [][SearchNext]_<<vars, unlisted>>
-----------------------------------------------------------------------------
(* Rectangles of requests *)

abs(n) == IF n < 0 THEN -n ELSE n
dimension_min(a, b) == IF a < b THEN a ELSE b
dimension_max(a, b) == IF a > b THEN a ELSE b

(* Touching rectangles intersect. *)
rectangle2d_intersect(r1, r2) ==
    /\ r1.edge0.longitude <= r2.edge1.longitude /\ r1.edge1.longitude >= r2.edge0.longitude
    /\ r1.edge0.latitude <= r2.edge1.latitude /\ r1.edge1.latitude >= r2.edge0.latitude

(* Longitudes are put in order; the exchange of the latitudes overwrites   *)
(* edge0 twice, which leaves them as they were.                            *)
untangle_rect(r) ==
    Rect(r.edge0.latitude, dimension_min(r.edge0.longitude, r.edge1.longitude),
         r.edge1.latitude, dimension_max(r.edge0.longitude, r.edge1.longitude))

(* Mutant: the search ends at the edges of the layer. *)
find_zones_NotWrapped(r) == << r >>

(***************************************************************************)
(* The parts of a rectangle inside the bounds, and what is left over each  *)
(* edge moved to the other side.  Parts over a corner are not looked for.  *)
(* When all four edges are crossed the fifth part has no room, and the     *)
(* first, everything, is the only one used.                                *)
(***************************************************************************)
find_zones(r) ==
    LET lat0 == dimension_max(-2 * LatBound, r.edge0.latitude)
        lon0 == dimension_max(-2 * LonBound, r.edge0.longitude)
        lat1 == dimension_min(2 * LatBound, r.edge1.latitude)
        lon1 == dimension_min(2 * LonBound, r.edge1.longitude)
        b == Rect(dimension_max(-LatBound, lat0), dimension_max(-LonBound, lon0),
                  dimension_min(LatBound, lat1), dimension_min(LonBound, lon1))
        If(crossed, zone) == IF crossed THEN << zone >> ELSE << >>
        zones ==
          << b >>
          \o If(lat0 < -LatBound,
                Rect(dimension_max(b.edge1.latitude, lat0 + 2 * LatBound), b.edge0.longitude,
                     LatBound, b.edge1.longitude))
          \o If(lon0 < -LonBound,
                Rect(b.edge0.latitude, dimension_max(b.edge1.longitude, lon0 + 2 * LonBound),
                     b.edge1.latitude, LonBound))
          \o If(lat1 > LatBound,
                Rect(-LatBound, b.edge0.longitude,
                     dimension_min(b.edge0.latitude, lat1 - 2 * LatBound), b.edge1.longitude))
          \o If(lon1 > LonBound,
                Rect(b.edge0.latitude, -LonBound,
                     b.edge1.latitude, dimension_min(b.edge0.longitude, lon1 - 2 * LonBound)))
    IN  IF Len(zones) > 4 THEN << b >> ELSE zones
-----------------------------------------------------------------------------
(* The walk *)

(* rhomboid_distance_between_geoidal_positions: a degree of longitude is   *)
(* as long as one of latitude times cos(p1.latitude).  Both sides are      *)
(* multiplied by the secant.                                               *)
WithinDistance(p1, p2, distance) ==
    LET k == Secant[p1.latitude]
    IN  k * abs(p1.latitude - p2.latitude) + abs(p1.longitude - p2.longitude) <= k * distance

Matches(search, zone, s) ==
    IF search.near THEN WithinDistance(search.center, s.position, search.radius)
                   ELSE position_is_in_rect(s.position, zone)

(* Mutant: nearby counts like in_rect. *)
Overflows_Beyond(search, matches, limit) == matches > limit

(* nearby overflows with the last match that the limit allows, in_rect     *)
(* with the first that it does not allow.                                  *)
Overflows(search, matches, limit) ==
    IF search.near THEN matches > 0 /\ matches >= limit ELSE matches > limit

(* find_near_context_cb, find_in_rect_context_cb over the slots of a bucket *)
(* that slab_foreach meets.                                                *)
VisitBucket(search, zone, w, b) ==
    LET hits == {s \in tree.buckets[b].slots :
                    s.key \notin unlisted /\ Matches(search, zone, s)}
    IN  [w EXCEPT
           !.ret = IF Overflows(search, Cardinality(hits), w.limit) THEN 1 ELSE 0,
           !.limit = @ - Cardinality(hits),
           !.found = [k \in Key |-> @[k] + IF \E s \in hits : s.key = k THEN 1 ELSE 0]]

(* find_in_rect_cluster_context_cb *)
VisitCluster(w, q) ==
    [w EXCEPT !.ret = IF w.limit <= 1 THEN 1 ELSE 0,
              !.limit = @ - 1,
              !.clusters = Append(@, [cell |-> q, children |-> tree.sub_slots[q]])]

(* Mutant: quads of any size are reported as clusters. *)
IsCluster_AnySize(search, q, allowed) ==
    q \in tree.quads /\ tree.sub_slots[q] > allowed /\ search.epsilon > 0

(* A quad smaller than epsilon with too many slots is reported as one. *)
IsCluster(search, q, allowed) ==
    /\ q \in tree.quads
    /\ search.epsilon > 0
    /\ tree.sub_slots[q] > allowed
    /\ Height(q) < search.epsilon /\ Width(q) < search.epsilon

VisitChild(search, zone, allowed, w, c) ==
    CASE w.ret # 0 \/ ~rectangle2d_intersect(c, zone) -> w
      [] OTHER ->
           CASE IsCluster(search, c, allowed) -> VisitCluster(w, c)
             [] c \in DOMAIN tree.buckets     -> VisitBucket(search, zone, w, c)
             [] OTHER                         -> [w EXCEPT !.stack = Append(@, c)]

(* One turn of the loop: the quad on top of stack_inspect. *)
VisitQuad(search, zone, w) ==
    LET child == get_qrects_from_qbounds(Last(w.stack))
        Visit(a, i) == VisitChild(search, zone, w.limit \div 4, a, child[i])
    IN  Visit(Visit(Visit(Visit([w EXCEPT !.stack = Front(@)], 1), 2), 3), 4)

(* find_near_in_zone, find_in_rect_in_zone: the limit starts again, and no *)
(* quad is visited twice.                                                  *)
FindInZone(search, w0, zone) ==
    LET walk[n \in 0 .. Cardinality(tree.quads)] ==
          IF n = 0 THEN [w0 EXCEPT !.limit = search.limit, !.stack = << qbounds >>]
          ELSE LET w == walk[n - 1]
               IN  IF w.stack = << >> \/ w.ret # 0 THEN w ELSE VisitQuad(search, zone, w)
    IN  walk[Cardinality(tree.quads)]

FindInZones(search, zones) ==
    LET after[n \in 0 .. Len(zones)] ==
          IF n = 0 THEN [ret |-> 0, limit |-> 0, stack |-> << >>, clusters |-> << >>,
                         found |-> [k \in Key |-> 0]]
          ELSE LET w == after[n - 1]
               IN  IF w.ret # 0 THEN w ELSE FindInZone(search, w, zones[n])
    IN  after[Len(zones)]

(* Latitudes in the wrong order reach over the edge of a layer that wraps. *)
UnwrapLatitude(r) ==
    IF r.edge0.latitude > r.edge1.latitude
    THEN [r EXCEPT !.edge1.latitude = @ + 2 * LatBound] ELSE r

(* An in_rect request, from the client's rectangle on. *)
find_in_rect(flat, query, limit, epsilon) ==
    LET rect == untangle_rect(query)
    IN  FindInZones([near |-> FALSE, limit |-> limit, epsilon |-> epsilon],
                    IF flat THEN << rect >> ELSE find_zones(UnwrapLatitude(rect)))

(* A nearby request on a layer that is not flat.  The box is as wide as    *)
(* the radius at the latitude of the center.                               *)
find_near(center, radius, limit) ==
    LET dlon == Secant[center.latitude] * radius
    IN  FindInZones([near |-> TRUE, center |-> center, radius |-> radius,
                     limit |-> limit, epsilon |-> -1],
                    find_zones(Rect(center.latitude - radius, center.longitude - dlon,
                                    center.latitude + radius, center.longitude + dlon)))
-----------------------------------------------------------------------------
(* Search by key *)

(* Mutant: shorter keys come first. *)
key_node_less_ByLength(k1, k2) ==
    \/ Len(k1) < Len(k2)
    \/ Len(k1) = Len(k2) /\ \E i \in DOMAIN k1 :
          k1[i] < k2[i] /\ \A j \in 1 .. i - 1 : k1[j] = k2[j]

(* key_node_cmp is negative: by bytes, and a prefix before what it begins. *)
key_node_less(k1, k2) ==
    \/ IsStrictPrefix(k1, k2)
    \/ \E i \in DOMAIN k1 \cap DOMAIN k2 :
          k1[i] < k2[i] /\ \A j \in 1 .. i - 1 : k1[j] = k2[j]

(* The search with a '*': from the least key that is not below the pattern *)
(* on, until a key does not begin with it or the limit is reached.         *)
search_in_keys(pattern, limit) ==
    LET above == {k \in key_nodes : ~key_node_less(k, pattern)}
        nodes == CHOOSE s \in [1 .. Cardinality(above) -> above] :
                    \A i, j \in DOMAIN s : i < j => key_node_less(s[i], s[j])
        end   == CHOOSE n \in 0 .. Len(nodes) :
                    /\ \A i \in 1 .. n : IsPrefix(pattern, nodes[i])
                    /\ n < Len(nodes) => ~IsPrefix(pattern, nodes[n + 1])
    IN  SubSeq(nodes, 1, dimension_min(end, limit))
-----------------------------------------------------------------------------
(* Properties *)

Point == [latitude : Int, longitude : Int]

Rectangles == [edge0 : Point, edge1 : Point]

(* The edges of r are at most a layer beyond the bounds.                   *)
InReach(B, x0, x1) == -2 * B <= x0 /\ x0 <= B /\ -B <= x1 /\ x1 <= 2 * B

WithinReach(r) == /\ InReach(LatBound, r.edge0.latitude, r.edge1.latitude)
                  /\ InReach(LonBound, r.edge0.longitude, r.edge1.longitude)

(* find_zones looks no further than that over an edge.                     *)
QueriesInReach ==
    \A query \in InRectQueries : /\ query \in Rectangles
                                 /\ WithinReach(UnwrapLatitude(untangle_rect(query)))

(* The centers are on the layer.                                           *)
CentersOnLayer ==
    /\ Radii \subseteq Nat
    /\ \A c \in Centers : /\ c \in Point
                          /\ -LatBound <= c.latitude /\ c.latitude <= LatBound
                          /\ -LonBound <= c.longitude /\ c.longitude <= LonBound

PositionOf(k) == SlotOf(tree, k).position

Located == {k \in Key : HasSlot(k)}

Listed == Located \ unlisted

Shifted(p, lat, lon) == [latitude |-> p.latitude + lat, longitude |-> p.longitude + lon]

(* In the rectangle, which may reach over the bounds: then also what is    *)
(* there on the other side, in one of the two dimensions.                  *)
InWrapped(p, r) ==
    \/ position_is_in_rect(p, r)
    \/ \E d \in {-2, 2} : \/ position_is_in_rect(Shifted(p, d * LatBound, 0), r)
                          \/ position_is_in_rect(Shifted(p, 0, d * LonBound), r)

InRequest(flat, query, p) ==
    LET r == untangle_rect(query)
    IN  IF flat THEN position_is_in_rect(p, r) ELSE InWrapped(p, UnwrapLatitude(r))

(* The records of a request's rectangle. *)
Expected(flat, query) == {k \in Listed : InRequest(flat, query, PositionOf(k))}

Reported(reply, keys) == \A k \in Key : reply.found[k] = IF k \in keys THEN 1 ELSE 0

(* Whatever splits and merges made of the tree, an in_rect search reports  *)
(* each listed record of the rectangle, also of the parts that wrap        *)
(* around, once and no other; it does not overflow below the limit.        *)
InRectExact ==
    \A query \in InRectQueries, limit \in Limits, flat \in BOOLEAN :
       LET reply == find_in_rect(flat, query, limit, -1)
           keys  == Expected(flat, query)
       IN  IF reply.ret = 0 THEN Reported(reply, keys) /\ reply.clusters = << >>
                            ELSE Cardinality(keys) >= limit

(* README: "limit=(max number of results that once reached, will return an *)
(* overflow)", of in_rect searches (find_in_rect_context_cb, pandb.c:815). *)
LimitOverflows ==
    \A query \in InRectQueries, limit \in Limits, flat \in BOOLEAN :
       Cardinality(Expected(flat, query)) >= limit => find_in_rect(flat, query, limit, -1).ret # 0

(* With epsilon each listed record of the rectangle is reported, or is one *)
(* of the children of a cluster: of exactly one on a flat layer, which     *)
(* then reports it nowhere else.  On a layer that wraps, a quad that two   *)
(* zones touch is a cluster of both.  A cluster counts the records of its  *)
(* cell.                                                                   *)
ClustersCover ==
    \A query \in InRectQueries, limit \in Limits, epsilon \in Epsilons, flat \in BOOLEAN :
       LET reply == find_in_rect(flat, query, limit, epsilon)
           keys  == Expected(flat, query)
           In(i) == {k \in Located : position_is_in_rect(PositionOf(k), reply.clusters[i].cell)}
           ClustersOf(k) == {i \in DOMAIN reply.clusters : k \in In(i)}
       IN  reply.ret = 0 =>
             /\ \A i \in DOMAIN reply.clusters :
                   /\ reply.clusters[i].children = Cardinality(In(i))
                   /\ Height(reply.clusters[i].cell) < epsilon
             /\ \A k \in Key :
                   /\ reply.found[k] <= IF k \in keys THEN 1 ELSE 0
                   /\ k \in keys => reply.found[k] + Cardinality(ClustersOf(k)) >= 1
                   /\ k \in keys /\ flat => reply.found[k] + Cardinality(ClustersOf(k)) = 1

(* On a layer that is not flat, a nearby search whose box is at most half  *)
(* as high and as wide as the layer reports each listed record within the  *)
(* radius once, and no other; it overflows exactly when their number       *)
(* reaches the limit.                                                      *)
NearbyExact ==
    \A center \in Centers, radius \in Radii, limit \in Limits :
       LET reply == find_near(center, radius, limit)
           keys  == {k \in Listed : WithinDistance(center, PositionOf(k), radius)}
       IN  2 * radius <= LatBound /\ 2 * Secant[center.latitude] * radius <= LonBound =>
             IF reply.ret = 0 THEN Reported(reply, keys) /\ Cardinality(keys) < limit
                              ELSE Cardinality(keys) >= limit

(* A prefix search lists the keys that begin with the prefix, in order; if *)
(* there are more than the limit, the first ones.                          *)
KeysByPrefix ==
    \A pattern \in Patterns, limit \in Limits :
       LET keys  == {k \in key_nodes : IsPrefix(pattern, k)}
           reply == search_in_keys(pattern, limit)
       IN  /\ Len(reply) = dimension_min(limit, Cardinality(keys))
           /\ \A i \in DOMAIN reply :
                 /\ reply[i] \in keys
                 /\ Cardinality({k \in keys : key_node_less(k, reply[i])}) = i - 1
=============================================================================
