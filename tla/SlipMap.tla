------------------------------ MODULE SlipMap ------------------------------
(***************************************************************************)
(* slipmap.c: the properties of a record in one buffer.  The buffer is a   *)
(* row of slots, each a six-byte header, a key, a value and free bytes up  *)
(* to the next header.  Lengths are stored in 16 bits, so MaxLen is 0xffff *)
(* in the program.                                                         *)
(*                                                                         *)
(* slip_map.map maps the offset of each header the scans reach to its      *)
(* slot.  Keys and values are abstracted to their identity and length.     *)
(* NullMap is the NULL pointer of a record without properties.             *)
(***************************************************************************)
EXTENDS Integers, FiniteSetsExt

CONSTANTS Keys, Values,
          KeyLen,       \* length of each key
          ValueLen,     \* length of each value
          NoKey, NoValue,
          MaxLen,       \* largest number the two bytes of a length hold
          DefaultSize   \* room for slots in a new map

ASSUME LenAssumption ==
    /\ KeyLen \in [Keys -> Nat \ {0}]
    /\ ValueLen \in [Values -> Nat]
    /\ NoKey \notin Keys
    /\ NoValue \notin Values
    /\ MaxLen \in Nat
    /\ DefaultSize \in Nat
    /\ \A k \in Keys : KeyLen[k] <= MaxLen
    /\ \A v \in Values : ValueLen[v] <= MaxLen

VARIABLES slip_map, result

vars == <<slip_map, result>>

HeaderSize == 6

\* A number written as two bytes.
TwoBytes(n) == n % (MaxLen + 1)

NullMap == [sizeof_map |-> 0, map |-> [o \in {} |-> NoKey]]

Slot(free, k, v) == [free |-> TwoBytes(free), key |-> k, value |-> v]

\* Bytes between a header and the free bytes of its slot.
Used(s) == IF s.key = NoKey THEN 0 ELSE KeyLen[s.key] + ValueLen[s.value]

SlotEnd(s, o) == o + HeaderSize + Used(s.map[o]) + s.map[o].free

\* One empty slot over the whole buffer.
init_slip_map(size) ==
    [sizeof_map |-> size,
     map |-> [o \in {0} |-> Slot(size - HeaderSize, NoKey, NoValue)]]

Refusal(s) == [ret |-> -1, map |-> s]
-----------------------------------------------------------------------------
(* add_entry_to_slip_map *)

KeyAndValue(k, v) == KeyLen[k] + ValueLen[v]

Required(k, v) == HeaderSize + KeyAndValue(k, v)

\* An empty slot has its header already.
Fits(s, k, v, o) ==
    s.map[o].free >= IF s.map[o].key = NoKey THEN KeyAndValue(k, v) ELSE Required(k, v)

\* The entry goes into an empty slot, or behind the entry of another slot,
\* and takes over the free bytes that are left.
PlaceAt(s, k, v, o) ==
    LET slot == s.map[o]
        new == o + HeaderSize + Used(slot)
    IN  IF slot.key = NoKey
        THEN [s EXCEPT !.map[o] = Slot(slot.free - KeyAndValue(k, v), k, v)]
        ELSE [s EXCEPT !.map = [x \in DOMAIN s.map \cup {new} |->
                 CASE x = o   -> [slot EXCEPT !.free = 0]
                   [] x = new -> Slot(slot.free - Required(k, v), k, v)
                   [] OTHER   -> s.map[x]]]

\* Without a fitting slot the buffer grows until the last one fits.
GrownSize(s, k, v) == s.sizeof_map + Required(k, v) - s.map[Max(DOMAIN s.map)].free

Grow_WithoutHeader(s, k, v) ==
    [sizeof_map |-> GrownSize(s, k, v) - HeaderSize,
     map |-> [s.map EXCEPT ![Max(DOMAIN s.map)].free = TwoBytes(Required(k, v))]]

Grow(s, k, v) ==
    [sizeof_map |-> GrownSize(s, k, v),
     map |-> [s.map EXCEPT ![Max(DOMAIN s.map)].free = TwoBytes(Required(k, v))]]

\* The size is not compared with what two bytes hold.
add_entry_to_slip_map_NoLimit(s, k, v, oom) ==
    LET fitting == {o \in DOMAIN s.map : Fits(s, k, v, o)}
    IN  IF fitting # {} THEN [ret |-> 0, map |-> PlaceAt(s, k, v, Min(fitting))]
        ELSE IF oom THEN Refusal(s)
        ELSE [ret |-> 0, map |-> PlaceAt(Grow(s, k, v), k, v, Max(DOMAIN s.map))]

\* The first slot that fits, else a grown last one.  oom: realloc fails.
add_entry_to_slip_map(s, k, v, oom) ==
    LET fitting == {o \in DOMAIN s.map : Fits(s, k, v, o)}
    IN  IF fitting # {} THEN [ret |-> 0, map |-> PlaceAt(s, k, v, Min(fitting))]
        ELSE IF GrownSize(s, k, v) > MaxLen \/ oom THEN Refusal(s)
        ELSE [ret |-> 0, map |-> PlaceAt(Grow(s, k, v), k, v, Max(DOMAIN s.map))]

-----------------------------------------------------------------------------
(* remove_entry_from_slip_map *)

SlotsOf(s, k) == {o \in DOMAIN s.map : s.map[o].key = k}

\* The first slot of several: the rest moves to the start of the buffer.
ShiftDown(s, shift) ==
    [sizeof_map |-> s.sizeof_map - shift,
     map |-> [x \in {o - shift : o \in DOMAIN s.map \ {0}} |-> s.map[x + shift]]]

\* Another slot becomes free bytes of the slot before it.
MergeDown(s, o) ==
    LET previous == Max({x \in DOMAIN s.map : x < o})
        free == s.map[previous].free + HeaderSize + Used(s.map[o]) + s.map[o].free
    IN  [s EXCEPT !.map = [x \in DOMAIN s.map \ {o} |->
             IF x = previous THEN [s.map[x] EXCEPT !.free = TwoBytes(free)] ELSE s.map[x]]]

RemoveSlot_LosesRest(s, o) ==
    IF o > 0 THEN MergeDown(s, o) ELSE init_slip_map(s.sizeof_map)

RemoveSlot(s, o) ==
    IF o > 0 THEN MergeDown(s, o)
    ELSE IF SlotEnd(s, 0) = s.sizeof_map THEN init_slip_map(s.sizeof_map)
    ELSE ShiftDown(s, SlotEnd(s, 0))

remove_entry_from_slip_map(s, k) ==
    IF SlotsOf(s, k) = {} THEN [ret |-> 0, map |-> s]
    ELSE [ret |-> 1, map |-> RemoveSlot(s, Min(SlotsOf(s, k)))]

\* In place when the entry's slot is large enough, else removed and added
\* again, which may be refused after the removal: the old value is lost.
replace_entry_in_slip_map(s, k, v, oom) ==
    IF SlotsOf(s, k) = {} THEN add_entry_to_slip_map(s, k, v, oom)
    ELSE LET o == Min(SlotsOf(s, k))
             room == Used(s.map[o]) + s.map[o].free
         IN  IF KeyAndValue(k, v) > room
             THEN add_entry_to_slip_map(remove_entry_from_slip_map(s, k).map, k, v, oom)
             ELSE [ret |-> 0,
                   map |-> [s EXCEPT !.map[o] = Slot(room - KeyAndValue(k, v), k, v)]]

\* The walk of slip_map_foreach, header by header.
Walk(s) ==
    LET visit[o \in DOMAIN s.map \cup {s.sizeof_map}] ==
            IF o = s.sizeof_map THEN {} ELSE {o} \cup visit[SlotEnd(s, o)]
    IN  visit[0]

slip_map_foreach(s) ==
    {<<s.map[o].key, s.map[o].value>> : o \in {x \in Walk(s) : s.map[x].key # NoKey}}

find_in_slip_map(s, k) ==
    LET found == {o \in Walk(s) : s.map[o].key = k}
    IN  IF found = {} THEN NoValue ELSE s.map[Min(found)].value
-----------------------------------------------------------------------------
Init == slip_map = NullMap /\ result = <<"new", 0>>

\* A size whose free bytes two bytes do not hold is refused.
New ==
    /\ slip_map = NullMap
    /\ Max({DefaultSize, HeaderSize}) <= MaxLen + HeaderSize
    /\ slip_map' = init_slip_map(Max({DefaultSize, HeaderSize}))
    /\ result' = <<"new", 0>>

Free ==
    /\ slip_map' = NullMap
    /\ result' = <<"free", 0>>

Replace(k, v) ==
    /\ slip_map # NullMap
    /\ \E oom \in BOOLEAN :
          LET r == replace_entry_in_slip_map(slip_map, k, v, oom)
          IN  slip_map' = r.map /\ result' = <<"replace", r.ret>>

Remove(k) ==
    /\ slip_map # NullMap
    /\ LET r == remove_entry_from_slip_map(slip_map, k)
       IN  slip_map' = r.map /\ result' = <<"remove", r.ret>>

Find(k) ==
    /\ result' = <<"find", find_in_slip_map(slip_map, k)>>
    /\ UNCHANGED slip_map

Foreach ==
    /\ result' = <<"foreach", slip_map_foreach(slip_map)>>
    /\ UNCHANGED slip_map

Next ==
    \/ New \/ Free \/ Foreach
    \/ \E k \in Keys : Remove(k) \/ Find(k) \/ \E v \in Values : Replace(k, v)

Spec == Init /\ [][Next]_vars
-----------------------------------------------------------------------------
SlotType == [free : 0 .. MaxLen, key : Keys \cup {NoKey}, value : Values \cup {NoValue}]

\* Slots are well typed, and a slot without an entry is the only one.
TypeOK ==
    /\ DOMAIN slip_map = {"sizeof_map", "map"}
    /\ slip_map.sizeof_map \in 0 .. MaxLen + HeaderSize
    /\ DOMAIN slip_map.map \subseteq 0 .. slip_map.sizeof_map
    /\ \A o \in DOMAIN slip_map.map :
          /\ slip_map.map[o] \in SlotType
          /\ slip_map.map[o].key = NoKey <=> slip_map.map[o].value = NoValue
          /\ slip_map.map[o].key = NoKey => DOMAIN slip_map.map = {0}

(***************************************************************************)
(* The slots tile the buffer: the first begins at 0, each ends where       *)
(* another begins or where the buffer ends, and none begins inside         *)
(* another.  Every scan of slipmap.c relies on this to stay in the buffer  *)
(* and to meet headers only, after any sequence of splits, merges, shifts  *)
(* and growths.                                                            *)
(***************************************************************************)
Tiled ==
    LET heads == DOMAIN slip_map.map
    IN  /\ slip_map # NullMap => 0 \in heads
        /\ \A o \in heads :
              /\ SlotEnd(slip_map, o) \in heads \cup {slip_map.sizeof_map}
              /\ \A x \in heads : ~(o < x /\ x < SlotEnd(slip_map, o))

StoredKeys == {slip_map.map[o].key : o \in DOMAIN slip_map.map} \ {NoKey}

AbstractMap ==
    [k \in StoredKeys |-> slip_map.map[Min(SlotsOf(slip_map, k))].value]

Abstract == INSTANCE PropertyMap WITH props <- AbstractMap

(***************************************************************************)
(* The buffer implements a partial function: replacing, removing, finding  *)
(* and enumerating entries by scans of the buffer return what they would   *)
(* for a function, no other entry changes, and no second copy of a key     *)
(* ever comes to light.                                                    *)
(***************************************************************************)
IsPropertyMap == Abstract!Spec
=============================================================================
