--------------------------- MODULE SlipMapProofs ---------------------------
(***************************************************************************)
(* For every set of keys and values and every limit of the stored lengths: *)
(* the slots tile the buffer, and the buffer implements a partial          *)
(* function.                                                               *)
(*                                                                         *)
(* A buffer of n bytes with the slots m is well formed when its slots are  *)
(* intervals that cover it, and no key has two slots.                      *)
(***************************************************************************)
EXTENDS SlipMap, LibraryFacts

End(m, o) == o + HeaderSize + Used(m[o]) + m[o].free

Tiles(n, m) ==
    \A o \in DOMAIN m : /\ End(m, o) \in DOMAIN m \cup {n}
                        /\ \A x \in DOMAIN m : ~(o < x /\ x < End(m, o))

(* An entry has a key and a value, and a slot without entry is the only one. *)
Filled(m) ==
    \A o \in DOMAIN m : /\ (m[o].key = NoKey) <=> (m[o].value = NoValue)
                        /\ m[o].key = NoKey => DOMAIN m = {0}

Keyed(m) == \A o, x \in DOMAIN m : m[o].key = m[x].key /\ m[o].key # NoKey => o = x

WF(n, m) ==
    /\ n \in 0 .. MaxLen + HeaderSize
    /\ m \in [DOMAIN m -> SlotType]
    /\ DOMAIN m \subseteq 0 .. n /\ 0 \in DOMAIN m
    /\ Filled(m) /\ Tiles(n, m) /\ Keyed(m)

Buffer(s) == /\ s = [sizeof_map |-> s.sizeof_map, map |-> s.map]
             /\ WF(s.sizeof_map, s.map)

Inv == slip_map = NullMap \/ Buffer(slip_map)
-----------------------------------------------------------------------------
(* Numbers *)

(* Two bytes hold a number up to MaxLen. *)
LEMMA TwoBytesHold ==
  ASSUME NEW n \in 0 .. MaxLen PROVE TwoBytes(n) = n
<1>1. MaxLen \in Nat
  BY LenAssumption
<1> QED BY <1>1 DEF TwoBytes

(* The bytes that an entry takes. *)
LEMMA Lengths ==
  ASSUME NEW k \in Keys, NEW v \in Values
  PROVE  /\ KeyAndValue(k, v) \in Nat /\ KeyAndValue(k, v) > 0
         /\ Required(k, v) = HeaderSize + KeyAndValue(k, v)
         /\ Required(k, v) \in Nat
<1>1. KeyLen[k] \in Nat \ {0} /\ ValueLen[v] \in Nat
  BY LenAssumption
<1>2. KeyAndValue(k, v) \in Nat /\ KeyAndValue(k, v) > 0
  BY <1>1 DEF KeyAndValue
<1> QED BY <1>2 DEF Required, HeaderSize

(* What a slot is made of. *)
LEMMA SlotFacts ==
  ASSUME NEW n, NEW m, WF(n, m), NEW o \in DOMAIN m
  PROVE  /\ n \in Nat /\ o \in Nat /\ m[o] \in SlotType
         /\ m[o].free \in 0 .. MaxLen /\ Used(m[o]) \in Nat
         /\ m[o].key = NoKey => Used(m[o]) = 0 /\ o = 0 /\ DOMAIN m = {0}
         /\ m[o].key # NoKey => /\ m[o].key \in Keys /\ m[o].value \in Values
                                /\ Used(m[o]) = KeyAndValue(m[o].key, m[o].value)
         /\ End(m, o) = o + HeaderSize + Used(m[o]) + m[o].free
         /\ End(m, o) \in Nat /\ o + HeaderSize <= End(m, o) /\ End(m, o) <= n
<1>1. MaxLen \in Nat
  BY LenAssumption
<1>2. n \in Nat /\ o \in Nat /\ m[o] \in SlotType /\ DOMAIN m \subseteq 0 .. n
  BY <1>1 DEF WF, HeaderSize
<1>3. m[o].free \in 0 .. MaxLen
  BY <1>2 DEF SlotType
<1>4. m[o].key = NoKey => Used(m[o]) = 0 /\ o = 0 /\ DOMAIN m = {0}
  BY DEF WF, Filled, Used
<1>5. m[o].key # NoKey => /\ m[o].key \in Keys /\ m[o].value \in Values
                          /\ Used(m[o]) = KeyAndValue(m[o].key, m[o].value)
  <2>1. (m[o].key = NoKey) <=> (m[o].value = NoValue)
    BY DEF WF, Filled
  <2> QED BY <1>2, <2>1 DEF SlotType, Used, KeyAndValue
<1>6. Used(m[o]) \in Nat
  BY <1>4, <1>5, Lengths
<1>7. End(m, o) = o + HeaderSize + Used(m[o]) + m[o].free
  BY DEF End
<1>8. End(m, o) \in Nat /\ o + HeaderSize <= End(m, o)
  BY <1>1, <1>2, <1>3, <1>6, <1>7 DEF HeaderSize
<1>9. End(m, o) \in DOMAIN m \cup {n}
  BY DEF WF, Tiles
<1>10. End(m, o) <= n
  BY <1>2, <1>8, <1>9
<1> QED BY <1>2, <1>3, <1>4, <1>5, <1>6, <1>7, <1>8, <1>10

(* A new slot. *)
LEMMA NewSlot ==
  ASSUME NEW f \in 0 .. MaxLen, NEW k \in Keys, NEW v \in Values
  PROVE  /\ Slot(f, k, v) \in SlotType /\ Slot(f, k, v).free = f
         /\ Slot(f, k, v).key = k /\ Slot(f, k, v).value = v
         /\ k # NoKey /\ v # NoValue
         /\ Used(Slot(f, k, v)) = KeyAndValue(k, v)
<1>1. k # NoKey /\ v # NoValue
  BY LenAssumption
<1>2. Slot(f, k, v) = [free |-> f, key |-> k, value |-> v]
  BY TwoBytesHold DEF Slot
<1> QED BY <1>1, <1>2 DEF SlotType, Used, KeyAndValue
-----------------------------------------------------------------------------
(* What the operations do to the slots *)

(* A slot gets another entry and keeps its place. *)
LEMMA SlotReplaced ==
  ASSUME NEW n, NEW m, WF(n, m), NEW o \in DOMAIN m, NEW x \in SlotType,
         Used(x) + x.free = Used(m[o]) + m[o].free,
         Used(x) \in Nat, x.key # NoKey, x.value # NoValue,
         \A p \in DOMAIN m \ {o} : m[p].key # x.key
  PROVE  WF(n, [m EXCEPT ![o] = x])
<1> DEFINE w == [m EXCEPT ![o] = x]
<1>1. m \in [DOMAIN m -> SlotType]
  BY DEF WF
<1>2. /\ DOMAIN w = DOMAIN m /\ w \in [DOMAIN w -> SlotType] /\ w[o] = x
      /\ \A p \in DOMAIN m \ {o} : w[p] = m[p]
  BY <1>1
<1> HIDE DEF w
<1>3. \A p \in DOMAIN m : End(w, p) = End(m, p)
  <2>1. End(w, o) = End(m, o)
    <3>1. x.free \in Nat
      BY LenAssumption DEF SlotType
    <3>2. End(m, o) = o + HeaderSize + Used(m[o]) + m[o].free /\ o \in Nat
          /\ Used(m[o]) \in Nat /\ m[o].free \in Nat
      BY SlotFacts, LenAssumption
    <3> QED BY <1>2, <3>1, <3>2 DEF End, HeaderSize
  <2> QED BY <1>2, <2>1 DEF End
<1>4. Tiles(n, w)
  BY <1>2, <1>3 DEF WF, Tiles
<1>5. Filled(w)
  BY <1>2 DEF WF, Filled
<1>6. Keyed(w)
  BY <1>2 DEF WF, Keyed
<1> QED BY <1>2, <1>4, <1>5, <1>6 DEF WF, w

(* Slots are apart: one begins where another ends, or later. *)
LEMMA Apart ==
  ASSUME NEW n, NEW m, WF(n, m), NEW o \in DOMAIN m, NEW x \in DOMAIN m, o # x
  PROVE  End(m, o) <= x \/ End(m, x) <= o
<1>1. o \in Nat /\ x \in Nat /\ End(m, o) \in Nat /\ End(m, x) \in Nat
  BY SlotFacts
<1>2. ~(o < x /\ x < End(m, o)) /\ ~(x < o /\ o < End(m, x))
  BY DEF WF, Tiles
<1> QED BY <1>1, <1>2

(* The free bytes of a slot become a slot. *)
LEMMA SlotSplit ==
  ASSUME NEW n, NEW m, WF(n, m), NEW o \in DOMAIN m, m[o].key # NoKey,
         NEW k \in Keys, NEW v \in Values, m[o].free >= Required(k, v),
         \A p \in DOMAIN m : m[p].key # k,
         NEW new, new = o + HeaderSize + Used(m[o]), NEW w,
         w = [x \in DOMAIN m \cup {new} |->
                 CASE x = o   -> [m[o] EXCEPT !.free = 0]
                   [] x = new -> Slot(m[o].free - Required(k, v), k, v)
                   [] OTHER   -> m[x]]
  PROVE  /\ WF(n, w) /\ new \notin DOMAIN m /\ DOMAIN w = DOMAIN m \cup {new}
         /\ w[new].key = k /\ w[new].value = v
         /\ \A p \in DOMAIN m : w[p].key = m[p].key /\ w[p].value = m[p].value
<1> DEFINE a == [m[o] EXCEPT !.free = 0]
           f == m[o].free - Required(k, v)
           b == Slot(f, k, v)
<1>1. /\ n \in Nat /\ o \in Nat /\ m[o] \in SlotType
      /\ m[o].free \in 0 .. MaxLen /\ Used(m[o]) \in Nat
      /\ End(m, o) = o + HeaderSize + Used(m[o]) + m[o].free
      /\ End(m, o) \in Nat /\ End(m, o) <= n
  BY SlotFacts
<1>2. /\ KeyAndValue(k, v) \in Nat /\ KeyAndValue(k, v) > 0
      /\ Required(k, v) = HeaderSize + KeyAndValue(k, v) /\ Required(k, v) \in Nat
  BY Lengths
<1>3. MaxLen \in Nat
  BY LenAssumption
<1>4. new \in Nat /\ o < new /\ new < End(m, o) /\ new + m[o].free = End(m, o)
  BY <1>1, <1>2, <1>3 DEF HeaderSize
<1>5. new \notin DOMAIN m
  BY <1>4 DEF WF, Tiles
<1>6. a \in SlotType /\ a.free = 0 /\ a.key = m[o].key /\ a.value = m[o].value
      /\ Used(a) = Used(m[o])
  BY <1>1, <1>3 DEF SlotType, Used
<1>7. f \in 0 .. MaxLen
  BY <1>1, <1>2, <1>3
<1>8. /\ b \in SlotType /\ b.free = f /\ b.key = k /\ b.value = v
      /\ k # NoKey /\ v # NoValue /\ Used(b) = KeyAndValue(k, v)
  BY <1>7, NewSlot
<1>9. /\ DOMAIN w = DOMAIN m \cup {new} /\ w[o] = a /\ w[new] = b
      /\ \A p \in DOMAIN m \ {o} : w[p] = m[p]
      /\ w \in [DOMAIN w -> SlotType]
  <2>1. w = [x \in DOMAIN m \cup {new} |-> CASE x = o   -> a
                                             [] x = new -> b
                                             [] OTHER   -> m[x]]
    OBVIOUS
  <2>2. m \in [DOMAIN m -> SlotType]
    BY DEF WF
  <2>3. new # o
    BY <1>1, <1>4
  <2> HIDE DEF a, b
  <2>4. /\ DOMAIN w = DOMAIN m \cup {new} /\ w[o] = a /\ w[new] = b
        /\ \A p \in DOMAIN m \ {o} : w[p] = m[p]
    BY <1>5, <2>1, <2>3
  <2>5. \A p \in DOMAIN w : w[p] \in SlotType
    BY <1>6, <1>8, <2>2, <2>4
  <2> QED BY <2>1, <2>4, <2>5
<1>10. End(w, o) = new
  BY <1>1, <1>4, <1>6, <1>9 DEF End, HeaderSize
<1>11. End(w, new) = End(m, o)
  <2>1. End(w, new) = new + HeaderSize + KeyAndValue(k, v) + f
    BY <1>8, <1>9 DEF End
  <2>2. f = m[o].free - (HeaderSize + KeyAndValue(k, v))
    BY <1>2
  <2> HIDE DEF f
  <2> QED BY <1>1, <1>2, <1>3, <1>4, <2>1, <2>2 DEF HeaderSize
<1> HIDE DEF a, b, f
<1>12. \A p \in DOMAIN m \ {o} : End(w, p) = End(m, p)
  BY <1>9 DEF End
<1>13. Tiles(n, w)
  <2> SUFFICES ASSUME NEW p \in DOMAIN w
               PROVE  /\ End(w, p) \in DOMAIN w \cup {n}
                      /\ \A x \in DOMAIN w : ~(p < x /\ x < End(w, p))
    BY DEF Tiles
  <2>0. \A x \in DOMAIN m : x \in Nat
    BY SlotFacts
  <2>1. CASE p = o
    <3>1. ASSUME NEW x \in DOMAIN m, o < x, x < new PROVE FALSE
      <4>1. x < End(m, o)
        BY <1>1, <1>4, <2>0, <3>1
      <4> QED BY <3>1, <4>1 DEF WF, Tiles
    <3>2. ~(new < new)
      BY <1>4
    <3> QED BY <1>9, <1>10, <2>1, <3>1, <3>2
  <2>2. CASE p = new
    <3>1. End(m, o) \in DOMAIN m \cup {n}
      BY DEF WF, Tiles
    <3>2. ASSUME NEW x \in DOMAIN m, new < x, x < End(m, o) PROVE FALSE
      <4>1. o < x
        BY <1>1, <1>4, <2>0, <3>2
      <4> QED BY <3>2, <4>1 DEF WF, Tiles
    <3>3. ~(new < new)
      BY <1>4
    <3> QED BY <1>9, <1>11, <2>2, <3>1, <3>2, <3>3
  <2>3. CASE p \in DOMAIN m \ {o}
    <3>1. End(m, p) \in DOMAIN m \cup {n} /\ \A x \in DOMAIN m : ~(p < x /\ x < End(m, p))
      BY <2>3 DEF WF, Tiles
    <3>2. End(m, o) <= p \/ End(m, p) <= o
      BY <2>3, Apart
    <3>3. p \in Nat /\ End(m, p) \in Nat
      BY <2>3, SlotFacts
    <3>4. ~(p < new /\ new < End(m, p))
      BY <1>1, <1>4, <3>2, <3>3
    <3> QED BY <1>9, <1>12, <2>3, <3>1, <3>4
  <2> QED BY <1>9, <2>1, <2>2, <2>3
<1>14. \A p \in DOMAIN m : w[p].key = m[p].key /\ w[p].value = m[p].value
  BY <1>6, <1>9
<1>15. Filled(w)
  <2>1. \A p \in DOMAIN m : m[p].key # NoKey
    BY <1>1, SlotFacts
  <2>2. \A p \in DOMAIN m : (m[p].key = NoKey) <=> (m[p].value = NoValue)
    BY DEF WF, Filled
  <2> QED BY <1>8, <1>9, <1>14, <2>1, <2>2 DEF Filled
<1>16. Keyed(w)
  <2>1. \A p, x \in DOMAIN m : m[p].key = m[x].key /\ m[p].key # NoKey => p = x
    BY DEF WF, Keyed
  <2> QED BY <1>8, <1>9, <1>14, <2>1 DEF Keyed
<1>17. DOMAIN w \subseteq 0 .. n /\ 0 \in DOMAIN w /\ n \in 0 .. MaxLen + HeaderSize
  <2>1. DOMAIN m \subseteq 0 .. n /\ 0 \in DOMAIN m /\ n \in 0 .. MaxLen + HeaderSize
    BY DEF WF
  <2>2. new \in 0 .. n
    BY <1>1, <1>4
  <2> QED BY <1>9, <2>1, <2>2
<1> QED BY <1>5, <1>8, <1>9, <1>13, <1>14, <1>15, <1>16, <1>17 DEF WF

(* The last slot ends where the buffer ends. *)
LEMMA LastSlot ==
  ASSUME NEW n, NEW m, WF(n, m)
  PROVE  /\ Max(DOMAIN m) \in DOMAIN m /\ End(m, Max(DOMAIN m)) = n
         /\ \A x \in DOMAIN m : x <= Max(DOMAIN m)
<1>1. n \in Nat /\ DOMAIN m \in SUBSET (0 .. n) /\ DOMAIN m # {}
  BY LenAssumption DEF WF, HeaderSize
<1>2. Max(DOMAIN m) \in DOMAIN m /\ \A x \in DOMAIN m : x <= Max(DOMAIN m)
  BY <1>1, MaxNat
<1> DEFINE l == Max(DOMAIN m)
<1> HIDE DEF l
<1>3. l \in DOMAIN m /\ \A x \in DOMAIN m : x <= l
  BY <1>2 DEF l
<1>4. End(m, l) \in DOMAIN m \cup {n}
  BY <1>3 DEF WF, Tiles
<1>5. l \in Nat /\ End(m, l) \in Nat /\ l + HeaderSize <= End(m, l)
  BY <1>3, SlotFacts
<1>6. End(m, l) \notin DOMAIN m
  BY <1>3, <1>5 DEF HeaderSize
<1> QED BY <1>3, <1>4, <1>6 DEF l

(* The buffer grows, and its last slot with it. *)
LEMMA LastGrown ==
  ASSUME NEW n, NEW m, WF(n, m), NEW l, l = Max(DOMAIN m), NEW r \in 0 .. MaxLen,
         NEW g, g = (n + r) - m[l].free, g \in 0 .. MaxLen + HeaderSize, n <= g
  PROVE  /\ WF(g, [m EXCEPT ![l].free = r])
         /\ [m EXCEPT ![l].free = r][l].free = r
         /\ \A p \in DOMAIN m : /\ [m EXCEPT ![l].free = r][p].key = m[p].key
                                /\ [m EXCEPT ![l].free = r][p].value = m[p].value
<1> DEFINE a == [m[l] EXCEPT !.free = r]
           w == [m EXCEPT ![l].free = r]
<1>1. l \in DOMAIN m /\ End(m, l) = n /\ \A x \in DOMAIN m : x <= l
  BY LastSlot
<1>2. /\ n \in Nat /\ l \in Nat /\ m[l] \in SlotType /\ MaxLen \in Nat
      /\ m[l].free \in 0 .. MaxLen /\ Used(m[l]) \in Nat
      /\ End(m, l) = l + HeaderSize + Used(m[l]) + m[l].free
  BY <1>1, SlotFacts, LenAssumption
<1>3. a \in SlotType /\ a.free = r /\ a.key = m[l].key /\ a.value = m[l].value
      /\ Used(a) = Used(m[l])
  BY <1>2 DEF SlotType, Used
<1>4. m \in [DOMAIN m -> SlotType]
  BY DEF WF
<1>5. w = [m EXCEPT ![l] = a]
  BY <1>4
<1> HIDE DEF a
<1>6. /\ DOMAIN w = DOMAIN m /\ w[l] = a /\ \A p \in DOMAIN m \ {l} : w[p] = m[p]
      /\ w \in [DOMAIN w -> SlotType]
  BY <1>1, <1>3, <1>4, <1>5
<1> HIDE DEF w
<1>7. End(w, l) = g
  <2>1. End(w, l) = l + HeaderSize + Used(m[l]) + r
    BY <1>3, <1>6 DEF End
  <2> QED BY <1>1, <1>2, <2>1 DEF HeaderSize
<1>8. \A p \in DOMAIN m \ {l} : End(w, p) = End(m, p)
  BY <1>6 DEF End
<1>9. Tiles(g, w)
  <2> SUFFICES ASSUME NEW p \in DOMAIN m
               PROVE  /\ End(w, p) \in DOMAIN m \cup {g}
                      /\ \A x \in DOMAIN m : ~(p < x /\ x < End(w, p))
    BY <1>6 DEF Tiles
  <2>0. \A x \in DOMAIN m : x \in Nat
    BY SlotFacts
  <2>1. CASE p = l
    <3>1. \A x \in DOMAIN m : ~(l < x)
      BY <1>1, <1>2, <2>0
    <3> QED BY <1>7, <2>1, <3>1
  <2>2. CASE p # l
    <3>1. End(m, p) \in DOMAIN m \cup {n} /\ \A x \in DOMAIN m : ~(p < x /\ x < End(m, p))
      BY DEF WF, Tiles
    <3>2. p < l
      BY <1>1, <1>2, <2>0, <2>2
    <3>3. End(m, p) # n
      BY <1>1, <1>2, <3>1, <3>2 DEF HeaderSize
    <3> QED BY <1>8, <2>2, <3>1, <3>3
  <2> QED BY <2>1, <2>2
<1>10. \A p \in DOMAIN m : w[p].key = m[p].key /\ w[p].value = m[p].value
  BY <1>3, <1>6
<1>11. Filled(w) /\ Keyed(w)
  BY <1>6, <1>10 DEF WF, Filled, Keyed
<1>12. DOMAIN w \subseteq 0 .. g /\ 0 \in DOMAIN w
  <2>1. DOMAIN m \subseteq 0 .. n /\ 0 \in DOMAIN m
    BY DEF WF
  <2> QED BY <1>2, <1>6, <2>1, LenAssumption DEF HeaderSize
<1> QED BY <1>3, <1>6, <1>9, <1>10, <1>11, <1>12 DEF WF, w

(* The slot before another ends where that begins. *)
LEMMA SlotBefore ==
  ASSUME NEW n, NEW m, WF(n, m), NEW o \in DOMAIN m, o > 0,
         NEW p, p = Max({x \in DOMAIN m : x < o})
  PROVE  /\ p \in DOMAIN m /\ p < o /\ End(m, p) = o
         /\ \A x \in DOMAIN m : x < o => x <= p
<1> DEFINE B == {x \in DOMAIN m : x < o}
<1>1. n \in Nat /\ B \in SUBSET (0 .. n) /\ B # {}
  BY LenAssumption DEF WF, HeaderSize
<1> HIDE DEF B
<1>2. p \in B /\ \A x \in B : x <= p
  <2>1. p = Max(B)
    BY DEF B
  <2> QED BY <1>1, <2>1, MaxNat
<1>3. p \in DOMAIN m /\ p < o /\ \A x \in DOMAIN m : x < o => x <= p
  BY <1>2 DEF B
<1>4. /\ p \in Nat /\ o \in Nat /\ End(m, p) \in Nat /\ p + HeaderSize <= End(m, p)
      /\ End(m, o) \in Nat /\ o + HeaderSize <= End(m, o) /\ End(m, o) <= n
  BY <1>3, SlotFacts
<1>5. End(m, p) <= o
  BY <1>3, <1>4, Apart DEF HeaderSize
<1>6. End(m, p) \in DOMAIN m
  <2>1. End(m, p) \in DOMAIN m \cup {n}
    BY <1>3 DEF WF, Tiles
  <2> QED BY <1>1, <1>4, <1>5, <2>1 DEF HeaderSize
<1>7. ~(End(m, p) < o)
  BY <1>3, <1>4, <1>6 DEF HeaderSize
<1> QED BY <1>3, <1>4, <1>5, <1>7

(* A slot becomes free bytes of the one before it. *)
LEMMA SlotMerged ==
  ASSUME NEW n, NEW m, WF(n, m), NEW o \in DOMAIN m, o > 0,
         NEW p, p = Max({x \in DOMAIN m : x < o}),
         NEW f, f = m[p].free + HeaderSize + Used(m[o]) + m[o].free,
         NEW w, w = [x \in DOMAIN m \ {o} |->
                       IF x = p THEN [m[x] EXCEPT !.free = TwoBytes(f)] ELSE m[x]]
  PROVE  /\ WF(n, w) /\ DOMAIN w = DOMAIN m \ {o}
         /\ \A x \in DOMAIN m \ {o} : w[x].key = m[x].key /\ w[x].value = m[x].value
<1>1. /\ p \in DOMAIN m /\ p < o /\ End(m, p) = o
      /\ \A x \in DOMAIN m : x < o => x <= p
  BY SlotBefore
<1>2. /\ n \in Nat /\ n <= MaxLen + HeaderSize /\ MaxLen \in Nat
  BY LenAssumption DEF WF, HeaderSize
<1>3. /\ p \in Nat /\ m[p] \in SlotType /\ m[p].free \in 0 .. MaxLen /\ Used(m[p]) \in Nat
      /\ End(m, p) = p + HeaderSize + Used(m[p]) + m[p].free
  BY <1>1, SlotFacts
<1>4. /\ o \in Nat /\ m[o].free \in 0 .. MaxLen /\ Used(m[o]) \in Nat
      /\ End(m, o) = o + HeaderSize + Used(m[o]) + m[o].free
      /\ End(m, o) \in Nat /\ o + HeaderSize <= End(m, o) /\ End(m, o) <= n
  BY SlotFacts
<1>5. p + HeaderSize + Used(m[p]) + f = End(m, o) /\ f \in Nat
  BY <1>1, <1>2, <1>3, <1>4, SMTT(60) DEF HeaderSize
<1>6. f \in 0 .. MaxLen
  BY <1>2, <1>3, <1>4, <1>5 DEF HeaderSize
<1> DEFINE a == [m[p] EXCEPT !.free = TwoBytes(f)]
<1>7. a \in SlotType /\ a.free = f /\ a.key = m[p].key /\ a.value = m[p].value
      /\ Used(a) = Used(m[p])
  BY <1>3, <1>6, TwoBytesHold DEF SlotType, Used
<1>8. /\ DOMAIN w = DOMAIN m \ {o} /\ w[p] = a
      /\ \A x \in DOMAIN m \ {o, p} : w[x] = m[x]
      /\ w \in [DOMAIN w -> SlotType]
  <2>1. p \in DOMAIN m \ {o}
    BY <1>1, <1>3, <1>4
  <2>2. \A x \in DOMAIN m \ {o} : w[x] = IF x = p THEN a ELSE m[x]
    OBVIOUS
  <2>3. m \in [DOMAIN m -> SlotType]
    BY DEF WF
  <2> HIDE DEF a
  <2>4. \A x \in DOMAIN m \ {o} : w[x] \in SlotType
    BY <1>7, <2>2, <2>3
  <2> QED BY <2>1, <2>2, <2>4
<1> HIDE DEF a
<1>9. End(w, p) = End(m, o)
  BY <1>5, <1>7, <1>8 DEF End
<1>10. \A x \in DOMAIN m \ {o, p} : End(w, x) = End(m, x)
  BY <1>8 DEF End
<1>11. Tiles(n, w)
  <2> SUFFICES ASSUME NEW q \in DOMAIN m \ {o}
               PROVE  /\ End(w, q) \in (DOMAIN m \ {o}) \cup {n}
                      /\ \A x \in DOMAIN m \ {o} : ~(q < x /\ x < End(w, q))
    BY <1>8 DEF Tiles
  <2>1. CASE q = p
    <3>1. End(m, o) \in DOMAIN m \cup {n} /\ End(m, o) # o
      BY <1>4 DEF WF, Tiles, HeaderSize
    <3>2. ASSUME NEW x \in DOMAIN m \ {o}, p < x, x < End(m, o) PROVE FALSE
      <4>1. x \in Nat /\ End(m, x) \in Nat /\ x + HeaderSize <= End(m, x)
        BY SlotFacts
      <4>2. End(m, x) <= o
        BY <1>4, <3>2, <4>1, Apart
      <4>3. x < o
        BY <1>4, <4>1, <4>2 DEF HeaderSize
      <4>4. x <= p /\ ~(x <= p)
        BY <1>1, <1>3, <3>2, <4>1, <4>3
      <4> QED BY <4>4
    <3> QED BY <1>9, <2>1, <3>1, <3>2
  <2>2. CASE q # p
    <3>1. End(m, q) \in DOMAIN m \cup {n} /\ \A x \in DOMAIN m : ~(q < x /\ x < End(m, q))
      BY DEF WF, Tiles
    <3>2. q \in Nat /\ End(m, q) \in Nat /\ q + HeaderSize <= End(m, q)
      BY SlotFacts
    <3>3. End(m, q) # o
      <4>1. ASSUME End(m, q) = o PROVE FALSE
        <5>1. q < o /\ q <= p
          BY <1>1, <1>4, <3>2, <4>1 DEF HeaderSize
        <5>2. End(m, q) <= p
          BY <1>1, <1>3, <1>4, <2>2, <5>1, <3>2, Apart DEF HeaderSize
        <5>3. o <= p
          BY <4>1, <5>2
        <5>4. p \in Nat /\ o \in Nat /\ p < o
          BY <1>1, <1>3, <1>4
        <5> QED BY <5>3, <5>4
      <4> QED BY <4>1
    <3> QED BY <1>10, <2>2, <3>1, <3>3
  <2> QED BY <2>1, <2>2
<1>12. \A x \in DOMAIN m \ {o} : w[x].key = m[x].key /\ w[x].value = m[x].value
  BY <1>7, <1>8
<1>13. Filled(w)
  <2>1. DOMAIN m # {0}
    BY <1>4
  <2>2. \A x \in DOMAIN m : /\ (m[x].key = NoKey) <=> (m[x].value = NoValue)
                            /\ m[x].key # NoKey
    BY <2>1 DEF WF, Filled
  <2> QED BY <1>8, <1>12, <2>2 DEF Filled
<1>14. Keyed(w)
  BY <1>8, <1>12 DEF WF, Keyed
<1>15. DOMAIN w \subseteq 0 .. n /\ 0 \in DOMAIN w /\ n \in 0 .. MaxLen + HeaderSize
  BY <1>4, <1>8 DEF WF
<1> QED BY <1>8, <1>11, <1>12, <1>13, <1>14, <1>15 DEF WF

(* The first slot goes, and the others move to the start. *)
LEMMA SlotsShifted ==
  ASSUME NEW n, NEW m, WF(n, m), NEW d, d = End(m, 0), d # n,
         NEW w, w = [x \in {o - d : o \in DOMAIN m \ {0}} |-> m[x + d]]
  PROVE  /\ WF(n - d, w) /\ DOMAIN w = {o - d : o \in DOMAIN m \ {0}}
         /\ \A o \in DOMAIN m \ {0} : w[o - d] = m[o]
<1>1. 0 \in DOMAIN m /\ n \in 0 .. MaxLen + HeaderSize /\ m \in [DOMAIN m -> SlotType]
      /\ MaxLen \in Nat
  BY LenAssumption DEF WF
<1>2. n \in Nat /\ d \in Nat /\ d > 0 /\ d <= n
  BY <1>1, SlotFacts DEF HeaderSize
<1>3. ASSUME NEW o \in DOMAIN m \ {0}
      PROVE  /\ o \in Nat /\ d <= o /\ o <= n
             /\ End(m, o) \in Nat /\ o < End(m, o) /\ End(m, o) <= n
  <2>1. /\ o \in Nat /\ End(m, o) \in Nat /\ o + HeaderSize <= End(m, o) /\ End(m, o) <= n
    BY SlotFacts
  <2>2. d <= o
    BY <1>1, <1>2, <2>1, Apart DEF HeaderSize
  <2> QED BY <1>2, <2>1, <2>2 DEF HeaderSize
<1>4. DOMAIN w = {o - d : o \in DOMAIN m \ {0}}
  OBVIOUS
<1>5. ASSUME NEW o \in DOMAIN m \ {0} PROVE w[o - d] = m[o]
  <2>1. (o - d) + d = o
    BY <1>2, <1>3
  <2> QED BY <2>1
<1>6. w \in [DOMAIN w -> SlotType]
  <2>1. ASSUME NEW x \in DOMAIN w PROVE w[x] \in SlotType
    <3>1. PICK o \in DOMAIN m \ {0} : x = o - d
      BY <1>4
    <3>2. w[x] = m[o]
      BY <1>5, <3>1
    <3> QED BY <1>1, <3>2
  <2> QED BY <2>1
<1>7. ASSUME NEW o \in DOMAIN m \ {0} PROVE End(w, o - d) = End(m, o) - d
  <2>1. /\ End(m, o) = o + HeaderSize + Used(m[o]) + m[o].free
        /\ Used(m[o]) \in Nat /\ m[o].free \in Nat
    BY SlotFacts
  <2> QED BY <1>2, <1>3, <1>5, <2>1 DEF End, HeaderSize
<1>8. d \in DOMAIN m \ {0}
  <2>1. d \in DOMAIN m \cup {n}
    BY <1>1 DEF WF, Tiles
  <2> QED BY <1>2, <2>1
<1>9. Tiles(n - d, w)
  <2> SUFFICES ASSUME NEW o \in DOMAIN m \ {0}
               PROVE  /\ End(w, o - d) \in DOMAIN w \cup {n - d}
                      /\ \A x \in DOMAIN w : ~(o - d < x /\ x < End(w, o - d))
    BY <1>4, ZenonT(60) DEF Tiles
  <2>1. End(m, o) \in DOMAIN m \cup {n} /\ \A x \in DOMAIN m : ~(o < x /\ x < End(m, o))
    BY DEF WF, Tiles
  <2>2. End(w, o - d) \in DOMAIN w \cup {n - d}
    <3>1. End(m, o) # 0
      BY <1>3
    <3> QED BY <1>4, <1>7, <2>1, <3>1
  <2>3. ASSUME NEW x \in DOMAIN m \ {0}, o - d < x - d, x - d < End(w, o - d) PROVE FALSE
    BY <1>2, <1>3, <1>7, <2>1, <2>3
  <2> QED BY <1>4, <2>2, <2>3
<1>10. Filled(w)
  <2>1. \A x \in DOMAIN m : /\ (m[x].key = NoKey) <=> (m[x].value = NoValue)
                            /\ m[x].key # NoKey
    BY <1>8 DEF WF, Filled
  <2> QED BY <1>4, <1>5, <2>1 DEF Filled
<1>11. Keyed(w)
  <2> SUFFICES ASSUME NEW y \in DOMAIN w, NEW z \in DOMAIN w,
                      w[y].key = w[z].key, w[y].key # NoKey
               PROVE  y = z
    BY DEF Keyed
  <2>1. PICK o \in DOMAIN m \ {0} : y = o - d
    BY <1>4
  <2>2. PICK x \in DOMAIN m \ {0} : z = x - d
    BY <1>4
  <2>3. w[y] = m[o] /\ w[z] = m[x]
    BY <1>5, <2>1, <2>2
  <2>4. o = x
    BY <2>3 DEF WF, Keyed
  <2> QED BY <2>1, <2>2, <2>4
<1>12. DOMAIN w \subseteq 0 .. (n - d)
  <2>1. ASSUME NEW o \in DOMAIN m \ {0} PROVE o - d \in 0 .. (n - d)
    BY <1>2, <1>3
  <2> QED BY <1>4, <2>1
<1>13. 0 \in DOMAIN w
  <2>1. d - d = 0
    BY <1>2
  <2> QED BY <1>4, <1>8, <2>1
<1>14. n - d \in 0 .. MaxLen + HeaderSize
  BY <1>1, <1>2 DEF HeaderSize
<1> QED BY <1>4, <1>5, <1>6, <1>9, <1>10, <1>11, <1>12, <1>13, <1>14 DEF WF

(* One empty slot. *)
LEMMA OneSlot ==
  ASSUME NEW n \in HeaderSize .. MaxLen + HeaderSize
  PROVE  /\ Buffer(init_slip_map(n))
         /\ DOMAIN init_slip_map(n).map = {0}
         /\ init_slip_map(n).map[0].key = NoKey
<1> DEFINE a == Slot(n - HeaderSize, NoKey, NoValue)
           m == [o \in {0} |-> a]
<1>1. n \in Nat /\ MaxLen \in Nat /\ n - HeaderSize \in 0 .. MaxLen
  BY LenAssumption DEF HeaderSize
<1>2. a = [free |-> n - HeaderSize, key |-> NoKey, value |-> NoValue]
  BY <1>1, TwoBytesHold DEF Slot
<1>3. a \in SlotType /\ a.free = n - HeaderSize /\ a.key = NoKey /\ a.value = NoValue
      /\ Used(a) = 0
  BY <1>1, <1>2 DEF SlotType, Used
<1> HIDE DEF a
<1>4. DOMAIN m = {0} /\ m[0] = a /\ m \in [DOMAIN m -> SlotType]
  BY <1>3
<1> HIDE DEF m
<1>5. End(m, 0) = n
  BY <1>1, <1>3, <1>4 DEF End, HeaderSize
<1>6. Tiles(n, m)
  BY <1>4, <1>5 DEF Tiles
<1>7. Filled(m) /\ Keyed(m)
  BY <1>3, <1>4 DEF Filled, Keyed
<1>8. DOMAIN m \subseteq 0 .. n /\ 0 \in DOMAIN m /\ n \in 0 .. MaxLen + HeaderSize
  BY <1>1, <1>4 DEF HeaderSize
<1>9. WF(n, m)
  BY <1>4, <1>6, <1>7, <1>8 DEF WF
<1>10. init_slip_map(n) = [sizeof_map |-> n, map |-> m]
  BY DEF init_slip_map, m, a
<1> QED BY <1>3, <1>4, <1>9, <1>10 DEF Buffer
-----------------------------------------------------------------------------
(* What the operations do to the entries *)

Has(m, k, v) == \E o \in DOMAIN m : m[o].key = k /\ m[o].value = v

HasKey(m, k) == \E o \in DOMAIN m : m[o].key = k

Adds(m, w, k, v) ==
    \A x \in Keys, y \in Values : Has(w, x, y) <=> (Has(m, x, y) \/ (x = k /\ y = v))

Drops(m, w, k) == \A x \in Keys, y \in Values : Has(w, x, y) <=> (Has(m, x, y) /\ x # k)

Sets(m, w, k, v) ==
    \A x \in Keys, y \in Values : Has(w, x, y) <=> IF x = k THEN y = v ELSE Has(m, x, y)

(* A key that is stored has a value. *)
LEMMA KeyHasValue ==
  ASSUME NEW s, Buffer(s), NEW k \in Keys
  PROVE  HasKey(s.map, k) <=> \E v \in Values : Has(s.map, k, v)
<1>1. ASSUME NEW o \in DOMAIN s.map, s.map[o].key = k PROVE s.map[o].value \in Values
  BY <1>1, SlotFacts, LenAssumption DEF Buffer
<1> QED BY <1>1 DEF Has, HasKey

(* A buffer with other slots is a buffer. *)
LEMMA NewSlots ==
  ASSUME NEW s, Buffer(s), NEW w, WF(s.sizeof_map, w)
  PROVE  Buffer([s EXCEPT !.map = w]) /\ [s EXCEPT !.map = w].map = w
<1>1. [s EXCEPT !.map = w] = [sizeof_map |-> s.sizeof_map, map |-> w]
  BY DEF Buffer
<1> QED BY <1>1 DEF Buffer

(* The entry replaces what is in slot o. *)
LEMMA Overwritten ==
  ASSUME NEW s, Buffer(s), NEW o \in DOMAIN s.map, NEW k \in Keys, NEW v \in Values,
         NEW room, room = Used(s.map[o]) + s.map[o].free, KeyAndValue(k, v) <= room,
         s.map[o].key \in {k, NoKey}, \A p \in DOMAIN s.map \ {o} : s.map[p].key # k,
         NEW t, t = [s EXCEPT !.map[o] = Slot(room - KeyAndValue(k, v), k, v)]
  PROVE  Buffer(t) /\ Sets(s.map, t.map, k, v)
<1> DEFINE m == s.map
           f == room - KeyAndValue(k, v)
           a == Slot(f, k, v)
           w == [m EXCEPT ![o] = a]
<1>1. WF(s.sizeof_map, m) /\ MaxLen \in Nat /\ s.sizeof_map \in 0 .. MaxLen + HeaderSize
  BY LenAssumption DEF Buffer, WF
<1>2. /\ o \in Nat /\ s.sizeof_map \in Nat /\ Used(m[o]) \in Nat /\ m[o].free \in Nat
      /\ End(m, o) = o + HeaderSize + Used(m[o]) + m[o].free
      /\ End(m, o) <= s.sizeof_map
  BY <1>1, SlotFacts
<1>3. KeyAndValue(k, v) \in Nat
  BY Lengths
<1>4. f \in 0 .. MaxLen /\ KeyAndValue(k, v) + f = room
  BY <1>1, <1>2, <1>3 DEF HeaderSize
<1>5. /\ a \in SlotType /\ a.free = f /\ a.key = k /\ a.value = v
      /\ k # NoKey /\ v # NoValue /\ Used(a) = KeyAndValue(k, v)
  BY <1>4, NewSlot
<1>6. t = [s EXCEPT !.map = w]
  OBVIOUS
<1> HIDE DEF a, f
<1>7. WF(s.sizeof_map, w)
  <2>1. Used(a) + a.free = Used(m[o]) + m[o].free
    BY <1>4, <1>5
  <2> HIDE DEF m
  <2>2. o \in DOMAIN m /\ \A p \in DOMAIN m \ {o} : m[p].key # a.key
    BY <1>5 DEF m
  <2> QED BY <1>1, <1>3, <1>5, <2>1, <2>2, SlotReplaced
<1>9. DOMAIN w = DOMAIN m /\ w[o] = a /\ \A p \in DOMAIN m \ {o} : w[p] = m[p]
  BY <1>1 DEF WF
<1> HIDE DEF w
<1>8. Buffer(t) /\ t.map = w
  <2>1. Buffer([s EXCEPT !.map = w]) /\ [s EXCEPT !.map = w].map = w
    BY <1>7, NewSlots
  <2> QED BY <1>6, <2>1
<1>10. Sets(m, w, k, v)
  <2> SUFFICES ASSUME NEW x \in Keys, NEW y \in Values
               PROVE  Has(w, x, y) <=> IF x = k THEN y = v ELSE Has(m, x, y)
    BY DEF Sets
  <2>1. CASE x = k
    BY <1>5, <1>9, <2>1 DEF Has
  <2>2. CASE x # k
    BY <1>5, <1>9, <2>2, LenAssumption DEF Has
  <2> QED BY <2>1, <2>2
<1> QED BY <1>8, <1>10

(* Setting the value of a key that is not there adds it. *)
LEMMA SetsIsAdds ==
  ASSUME NEW m, NEW w, NEW k \in Keys, NEW v \in Values, ~HasKey(m, k), Sets(m, w, k, v)
  PROVE  Adds(m, w, k, v)
  BY DEF Sets, Adds, Has, HasKey

(* PlaceAt *)
LEMMA Placed ==
  ASSUME NEW s, Buffer(s), NEW o \in DOMAIN s.map, NEW k \in Keys, NEW v \in Values,
         Fits(s, k, v, o), ~HasKey(s.map, k)
  PROVE  Buffer(PlaceAt(s, k, v, o)) /\ Adds(s.map, PlaceAt(s, k, v, o).map, k, v)
<1> DEFINE m == s.map
           t == PlaceAt(s, k, v, o)
<1>1. WF(s.sizeof_map, m)
  BY DEF Buffer
<1>2. \A p \in DOMAIN m : m[p].key # k
  BY DEF HasKey
<1>3. CASE m[o].key = NoKey
  <2>1. Used(m[o]) = 0 /\ m[o].free \in Nat
    BY <1>1, <1>3, SlotFacts
  <2>2. m[o].free >= KeyAndValue(k, v)
    BY <1>3 DEF Fits
  <2>3. KeyAndValue(k, v) \in Nat
    BY Lengths
  <2>4. Used(m[o]) + m[o].free = m[o].free /\ KeyAndValue(k, v) <= m[o].free
    BY <2>1, <2>2, <2>3
  <2>5. t = [s EXCEPT !.map[o] = Slot(m[o].free - KeyAndValue(k, v), k, v)]
    BY <1>3 DEF PlaceAt
  <2> HIDE DEF t
  <2>6. Buffer(t) /\ Sets(m, t.map, k, v)
    BY <1>2, <1>3, <2>4, <2>5, Overwritten
  <2> QED BY <2>6, SetsIsAdds DEF t
<1>4. CASE m[o].key # NoKey
  <2> DEFINE new == o + HeaderSize + Used(m[o])
             w == [x \in DOMAIN m \cup {new} |->
                     CASE x = o   -> [m[o] EXCEPT !.free = 0]
                       [] x = new -> Slot(m[o].free - Required(k, v), k, v)
                       [] OTHER   -> m[x]]
  <2>1. t = [s EXCEPT !.map = w]
    BY <1>4 DEF PlaceAt
  <2>2. m[o].free >= Required(k, v)
    BY <1>4 DEF Fits
  <2>3. /\ WF(s.sizeof_map, w) /\ new \notin DOMAIN m /\ DOMAIN w = DOMAIN m \cup {new}
        /\ w[new].key = k /\ w[new].value = v
        /\ \A p \in DOMAIN m : w[p].key = m[p].key /\ w[p].value = m[p].value
    BY <1>1, <1>2, <1>4, <2>2, SlotSplit
  <2> HIDE DEF w, new
  <2>4. Buffer(t) /\ t.map = w
    BY <2>1, <2>3, NewSlots
  <2>5. Adds(m, w, k, v)
    BY <2>3 DEF Adds, Has
  <2> QED BY <2>4, <2>5
<1> QED BY <1>3, <1>4

(* A buffer that grew has the entries it had, and room for one more. *)
LEMMA Grown ==
  ASSUME NEW s, Buffer(s), NEW k \in Keys, NEW v \in Values,
         \A o \in DOMAIN s.map : ~Fits(s, k, v, o), GrownSize(s, k, v) <= MaxLen,
         ~HasKey(s.map, k), NEW t, t = Grow(s, k, v), NEW l, l = Max(DOMAIN s.map)
  PROVE  /\ Buffer(t) /\ l \in DOMAIN t.map /\ Fits(t, k, v, l) /\ ~HasKey(t.map, k)
         /\ \A w : Adds(t.map, w, k, v) <=> Adds(s.map, w, k, v)
<1> DEFINE m == s.map
           n == s.sizeof_map
           r == Required(k, v)
           g == GrownSize(s, k, v)
           w == [m EXCEPT ![l].free = r]
<1>1. WF(n, m) /\ MaxLen \in Nat
  BY LenAssumption DEF Buffer
<1>2. l \in DOMAIN m
  BY <1>1, LastSlot
<1>3. /\ n \in Nat /\ l \in Nat /\ m[l].free \in 0 .. MaxLen /\ Used(m[l]) \in Nat
      /\ End(m, l) = l + HeaderSize + Used(m[l]) + m[l].free /\ End(m, l) <= n
  BY <1>1, <1>2, SlotFacts
<1>4. r \in Nat /\ r = HeaderSize + KeyAndValue(k, v) /\ KeyAndValue(k, v) \in Nat
  BY Lengths
<1>5. g = (n + r) - m[l].free
  <2>1. m[l].free = s.map[Max(DOMAIN s.map)].free
    OBVIOUS
  <2> QED BY <1>3, <1>4, <2>1 DEF GrownSize
<1>6. m[l].free < r
  <2>1. ~(m[l].free >= IF m[l].key = NoKey THEN KeyAndValue(k, v) ELSE r)
    BY <1>2 DEF Fits
  <2> QED BY <1>3, <1>4, <2>1 DEF HeaderSize
<1>7. g \in 0 .. MaxLen + HeaderSize /\ n <= g /\ r \in 0 .. MaxLen
  BY <1>1, <1>3, <1>4, <1>5, <1>6 DEF HeaderSize
<1>8. t = [sizeof_map |-> g, map |-> w]
  BY <1>7, TwoBytesHold DEF Grow
<1>9. /\ WF(g, w) /\ w[l].free = r
      /\ \A p \in DOMAIN m : w[p].key = m[p].key /\ w[p].value = m[p].value
  <2> HIDE DEF m, n, r, g
  <2>1. l = Max(DOMAIN m)
    BY DEF m
  <2> QED BY <1>1, <1>5, <1>7, <2>1, LastGrown
<1>10. DOMAIN w = DOMAIN m
  OBVIOUS
<1> HIDE DEF w, r, g
<1>11. Buffer(t) /\ t.map = w
  BY <1>8, <1>9 DEF Buffer
<1>12. ~HasKey(w, k)
  BY <1>9, <1>10 DEF HasKey
<1>13. Fits(t, k, v, l)
  <2>1. r >= IF w[l].key = NoKey THEN KeyAndValue(k, v) ELSE Required(k, v)
    BY <1>4 DEF HeaderSize, r
  <2> QED BY <1>9, <1>11, <2>1 DEF Fits
<1>14. \A x, y : Has(w, x, y) <=> Has(m, x, y)
  BY <1>9, <1>10 DEF Has
<1> QED BY <1>2, <1>10, <1>11, <1>12, <1>13, <1>14 DEF Adds

(* What add_entry_to_slip_map returns for a key that the map does not have. *)
AddOutcome(s, k, v, r) ==
    /\ Buffer(r.map)
    /\ \/ r.ret = 0 /\ Adds(s.map, r.map.map, k, v)
       \/ r.ret = -1 /\ r.map = s /\ \A o \in DOMAIN s.map : ~Fits(s, k, v, o)

(* add_entry_to_slip_map adds the entry, or refuses it and changes         *)
(* nothing.                                                                *)
LEMMA Added ==
  ASSUME NEW s, Buffer(s), NEW k \in Keys, NEW v \in Values, ~HasKey(s.map, k), NEW oom
  PROVE  AddOutcome(s, k, v, add_entry_to_slip_map(s, k, v, oom))
<1> DEFINE fitting == {o \in DOMAIN s.map : Fits(s, k, v, o)}
           r == add_entry_to_slip_map(s, k, v, oom)
<1>1. CASE fitting # {}
  <2>1. r = [ret |-> 0, map |-> PlaceAt(s, k, v, Min(fitting))]
    BY <1>1 DEF add_entry_to_slip_map
  <2>2. fitting \in SUBSET Nat
    BY SlotFacts DEF Buffer
  <2>3. Min(fitting) \in fitting
    BY <1>1, <2>2, MinNat
  <2>4. Buffer(PlaceAt(s, k, v, Min(fitting)))
        /\ Adds(s.map, PlaceAt(s, k, v, Min(fitting)).map, k, v)
    BY <2>3, Placed
  <2> QED BY <2>1, <2>4 DEF AddOutcome
<1>2. CASE fitting = {} /\ (GrownSize(s, k, v) > MaxLen \/ oom)
  <2>1. r = Refusal(s)
    BY <1>2 DEF add_entry_to_slip_map
  <2>2. r.ret = -1 /\ r.map = s
    BY <2>1 DEF Refusal
  <2> QED BY <1>2, <2>2 DEF AddOutcome
<1>3. CASE fitting = {} /\ ~(GrownSize(s, k, v) > MaxLen \/ oom)
  <2> DEFINE t == Grow(s, k, v)
             l == Max(DOMAIN s.map)
  <2>1. r = [ret |-> 0, map |-> PlaceAt(t, k, v, l)]
    BY <1>3 DEF add_entry_to_slip_map
  <2>2. GrownSize(s, k, v) <= MaxLen
    <3>1. l \in DOMAIN s.map
      BY LastSlot DEF Buffer
    <3>2. s.sizeof_map \in Nat /\ s.map[l].free \in Nat /\ Required(k, v) \in Nat
      BY <3>1, SlotFacts, Lengths, LenAssumption DEF Buffer
    <3>3. GrownSize(s, k, v) \in Int
      BY <3>2 DEF GrownSize
    <3> QED BY <1>3, <3>3, LenAssumption
  <2>3. /\ Buffer(t) /\ l \in DOMAIN t.map /\ Fits(t, k, v, l) /\ ~HasKey(t.map, k)
        /\ \A w : Adds(t.map, w, k, v) <=> Adds(s.map, w, k, v)
    BY <1>3, <2>2, Grown
  <2> HIDE DEF t, l
  <2>4. Buffer(PlaceAt(t, k, v, l)) /\ Adds(t.map, PlaceAt(t, k, v, l).map, k, v)
    BY <2>3, Placed
  <2> QED BY <2>1, <2>3, <2>4 DEF AddOutcome
<1> QED BY <1>1, <1>2, <1>3

(* What remove_entry_from_slip_map returns. *)
LEMMA Removed ==
  ASSUME NEW s, Buffer(s), NEW k \in Keys, NEW r, r = remove_entry_from_slip_map(s, k)
  PROVE  /\ Buffer(r.map) /\ Drops(s.map, r.map.map, k) /\ ~HasKey(r.map.map, k)
         /\ r.ret = IF HasKey(s.map, k) THEN 1 ELSE 0
<1> DEFINE m == s.map
           n == s.sizeof_map
           o == Min(SlotsOf(s, k))
           t == RemoveSlot(s, o)
<1>0. WF(n, m) /\ k # NoKey /\ MaxLen \in Nat
  BY LenAssumption DEF Buffer
<1>1. CASE SlotsOf(s, k) = {}
  <2>1. ~HasKey(m, k)
    BY <1>1 DEF SlotsOf, HasKey
  <2>2. r = [ret |-> 0, map |-> s]
    BY <1>1 DEF remove_entry_from_slip_map
  <2>3. Drops(m, m, k)
    BY <2>1 DEF Drops, Has, HasKey
  <2> QED BY <2>1, <2>2, <2>3
<1>2. CASE SlotsOf(s, k) # {}
  <2>1. HasKey(m, k) /\ r = [ret |-> 1, map |-> t]
    <3>1. HasKey(m, k)
      BY <1>2 DEF SlotsOf, HasKey
    <3>2. r = [ret |-> 1, map |-> t]
      BY <1>2 DEF remove_entry_from_slip_map
    <3> QED BY <3>1, <3>2
  <2>2. o \in DOMAIN m /\ m[o].key = k
    <3>1. SlotsOf(s, k) \in SUBSET Nat
      BY <1>0, SlotFacts DEF SlotsOf
    <3>2. o \in SlotsOf(s, k)
      BY <1>2, <3>1, MinNat
    <3> QED BY <3>2 DEF SlotsOf
  <2>3. \A p \in DOMAIN m \ {o} : m[p].key # k
    BY <1>0, <2>2 DEF WF, Keyed
  <2>4. o \in Nat
    BY <1>0, <2>2, SlotFacts
  <2> HIDE DEF o
  <2>5. CASE o > 0
    <3> DEFINE p == Max({x \in DOMAIN m : x < o})
               f == m[p].free + HeaderSize + Used(m[o]) + m[o].free
               w == [x \in DOMAIN m \ {o} |->
                       IF x = p THEN [m[x] EXCEPT !.free = TwoBytes(f)] ELSE m[x]]
    <3>1. t = [s EXCEPT !.map = w]
      <4>1. t = MergeDown(s, o)
        BY <2>5 DEF RemoveSlot
      <4>2. MergeDown(s, o) = [s EXCEPT !.map = w]
        BY DEF MergeDown
      <4> QED BY <4>1, <4>2
    <3>2. /\ WF(n, w) /\ DOMAIN w = DOMAIN m \ {o}
          /\ \A x \in DOMAIN m \ {o} : w[x].key = m[x].key /\ w[x].value = m[x].value
      <4>1. w = [x \in DOMAIN m \ {o} |->
                  IF x = p THEN [m[x] EXCEPT !.free = TwoBytes(f)] ELSE m[x]]
        OBVIOUS
      <4>2. f = m[p].free + HeaderSize + Used(m[o]) + m[o].free
        OBVIOUS
      <4>3. p = Max({x \in DOMAIN m : x < o})
        OBVIOUS
      <4> HIDE DEF m, n, p, f, w
      <4> QED BY <1>0, <2>2, <2>5, <4>1, <4>2, <4>3, SlotMerged, SMTT(60)
    <3> HIDE DEF w
    <3>3. Buffer(t) /\ t.map = w
      BY <3>1, <3>2, NewSlots
    <3>4. Drops(m, w, k) /\ ~HasKey(w, k)
      BY <2>2, <2>3, <3>2 DEF Drops, Has, HasKey
    <3> QED BY <2>1, <3>3, <3>4
  <2>6. CASE o = 0 /\ End(m, 0) = n
    <3>1. SlotEnd(s, 0) = n
      BY <2>6 DEF SlotEnd, End
    <3>2. t = init_slip_map(n)
      <4>1. ~(o > 0) /\ t = RemoveSlot(s, o)
        BY <2>6
      <4> QED BY <2>6, <3>1, <4>1 DEF RemoveSlot
    <3>3. n \in HeaderSize .. MaxLen + HeaderSize
      <4>1. 0 + HeaderSize <= End(m, 0) /\ End(m, 0) <= n /\ n \in Nat
        BY <1>0, <2>2, <2>6, SlotFacts
      <4>2. n \in 0 .. MaxLen + HeaderSize
        BY <1>0 DEF WF
      <4> QED BY <1>0, <2>6, <4>1, <4>2 DEF HeaderSize
    <3>4. Buffer(t) /\ DOMAIN t.map = {0} /\ t.map[0].key = NoKey
      BY <3>2, <3>3, OneSlot
    <3>5. DOMAIN m = {0}
      <4>1. ASSUME NEW x \in DOMAIN m, x # 0 PROVE FALSE
        <5>1. x \in Nat /\ n \in Nat /\ x + HeaderSize <= End(m, x) /\ End(m, x) <= n
              /\ End(m, x) \in Nat
          BY <1>0, SlotFacts
        <5>2. End(m, 0) <= x \/ End(m, x) <= 0
          BY <1>0, <2>2, <2>6, <4>1, Apart
        <5> QED BY <2>6, <5>1, <5>2 DEF HeaderSize
      <4> QED BY <2>2, <2>6, <4>1
    <3>6. Drops(m, t.map, k) /\ ~HasKey(t.map, k)
      BY <1>0, <2>2, <2>6, <3>4, <3>5, LenAssumption DEF Drops, Has, HasKey
    <3> QED BY <2>1, <3>4, <3>6
  <2>7. CASE o = 0 /\ End(m, 0) # n
    <3> DEFINE d == SlotEnd(s, 0)
               w == [x \in {y - d : y \in DOMAIN m \ {0}} |-> m[x + d]]
    <3>1. d = End(m, 0)
      BY DEF SlotEnd, End
    <3>2. t = [sizeof_map |-> n - d, map |-> w]
      <4>1. ~(o > 0) /\ SlotEnd(s, 0) # n
        BY <2>7, <3>1
      <4>2. t = ShiftDown(s, d)
        BY <4>1 DEF RemoveSlot
      <4>3. ShiftDown(s, d) = [sizeof_map |-> n - d, map |-> w]
        BY DEF ShiftDown
      <4> QED BY <4>2, <4>3
    <3>3. /\ WF(n - d, w) /\ DOMAIN w = {x - d : x \in DOMAIN m \ {0}}
          /\ \A x \in DOMAIN m \ {0} : w[x - d] = m[x]
      <4> HIDE DEF m, n, d
      <4> QED BY <1>0, <2>7, <3>1, SlotsShifted
    <3> HIDE DEF w, d
    <3>4. Buffer(t) /\ t.map = w
      BY <3>2, <3>3 DEF Buffer
    <3>5. \A x, y : Has(w, x, y) <=> \E z \in DOMAIN m \ {0} : m[z].key = x /\ m[z].value = y
      BY <3>3 DEF Has
    <3>6. Drops(m, w, k)
      BY <2>2, <2>3, <2>7, <3>5 DEF Drops, Has
    <3>7. ~HasKey(w, k)
      BY <2>3, <2>7, <3>3 DEF HasKey
    <3> QED BY <2>1, <3>4, <3>6, <3>7
  <2> QED BY <2>4, <2>5, <2>6, <2>7
<1> QED BY <1>1, <1>2

(* What replace_entry_in_slip_map returns. *)
LEMMA Replaced ==
  ASSUME NEW s, Buffer(s), NEW k \in Keys, NEW v \in Values, NEW oom,
         NEW r, r = replace_entry_in_slip_map(s, k, v, oom)
  PROVE  /\ Buffer(r.map)
         /\ \/ r.ret = 0 /\ Sets(s.map, r.map.map, k, v)
            \/ r.ret = -1 /\ (r.map = s \/ Drops(s.map, r.map.map, k))
<1> DEFINE m == s.map
<1>0. WF(s.sizeof_map, m) /\ k # NoKey
  BY LenAssumption DEF Buffer
<1>1. CASE SlotsOf(s, k) = {}
  <2>1. ~HasKey(m, k)
    BY <1>1 DEF SlotsOf, HasKey
  <2>2. r = add_entry_to_slip_map(s, k, v, oom)
    BY <1>1 DEF replace_entry_in_slip_map
  <2>3. AddOutcome(s, k, v, r)
    BY <2>1, <2>2, Added
  <2>4. Adds(m, r.map.map, k, v) => Sets(m, r.map.map, k, v)
    BY <2>1 DEF Adds, Sets, Has, HasKey
  <2> QED BY <2>3, <2>4 DEF AddOutcome
<1>2. CASE SlotsOf(s, k) # {}
  <2> DEFINE o == Min(SlotsOf(s, k))
             room == Used(m[o]) + m[o].free
             t == remove_entry_from_slip_map(s, k).map
  <2>1. o \in DOMAIN m /\ m[o].key = k
    <3>1. SlotsOf(s, k) \in SUBSET Nat
      BY <1>0, SlotFacts DEF SlotsOf
    <3>2. o \in SlotsOf(s, k)
      BY <1>2, <3>1, MinNat
    <3> QED BY <3>2 DEF SlotsOf
  <2>2. \A p \in DOMAIN m \ {o} : m[p].key # k
    BY <1>0, <2>1 DEF WF, Keyed
  <2>3. CASE KeyAndValue(k, v) > room
    <3>1. r = add_entry_to_slip_map(t, k, v, oom)
      BY <1>2, <2>3 DEF replace_entry_in_slip_map
    <3>2. Buffer(t) /\ Drops(m, t.map, k) /\ ~HasKey(t.map, k)
      BY Removed
    <3> HIDE DEF t
    <3>3. AddOutcome(t, k, v, r)
      BY <3>1, <3>2, Added
    <3>4. Adds(t.map, r.map.map, k, v) => Sets(m, r.map.map, k, v)
      BY <3>2 DEF Adds, Sets, Drops
    <3> QED BY <3>2, <3>3, <3>4 DEF AddOutcome
  <2>4. CASE ~(KeyAndValue(k, v) > room)
    <3> DEFINE u == [s EXCEPT !.map[o] = Slot(room - KeyAndValue(k, v), k, v)]
    <3>1. r = [ret |-> 0, map |-> u]
      BY <1>2, <2>4 DEF replace_entry_in_slip_map
    <3>2. KeyAndValue(k, v) <= room
      <4>1. Used(m[o]) \in Nat /\ m[o].free \in Nat /\ KeyAndValue(k, v) \in Nat
        BY <1>0, <2>1, SlotFacts, Lengths, LenAssumption
      <4> QED BY <2>4, <4>1
    <3>3. Buffer(u) /\ Sets(m, u.map, k, v)
      <4> HIDE DEF o
      <4> QED BY <2>1, <2>2, <3>2, Overwritten
    <3> HIDE DEF u
    <3> QED BY <3>1, <3>3
  <2> QED BY <2>3, <2>4
<1> QED BY <1>1, <1>2
-----------------------------------------------------------------------------
(* The invariant *)

(* A NULL map has no slots. *)
LEMMA NoSlots ==
  /\ NullMap.sizeof_map = 0 /\ DOMAIN NullMap.map = {}
  /\ DOMAIN NullMap = {"sizeof_map", "map"}
  BY DEF NullMap

(* A new map is one free slot. *)
LEMMA NewBuffer ==
  ASSUME New
  PROVE  /\ Buffer(slip_map') /\ DOMAIN slip_map'.map = {0}
         /\ slip_map'.map[0].key = NoKey
<1> DEFINE size == Max({DefaultSize, HeaderSize})
<1>1. slip_map' = init_slip_map(size) /\ size <= MaxLen + HeaderSize
  BY DEF New
<1>2. size \in Nat /\ HeaderSize <= size
  <2> DEFINE d == DefaultSize
             b == IF d < 6 THEN 6 ELSE d
  <2>1. d \in Nat
    BY LenAssumption
  <2>2. b \in Nat /\ {d, HeaderSize} \in SUBSET (0 .. b) /\ {d, HeaderSize} # {}
    BY <2>1 DEF HeaderSize
  <2>3. size \in {d, HeaderSize} /\ \A m \in {d, HeaderSize} : m <= size
    <3> HIDE DEF b
    <3> QED BY <2>2, MaxNat
  <2> QED BY <2>1, <2>3 DEF HeaderSize
<1> HIDE DEF size
<1>3. size \in HeaderSize .. MaxLen + HeaderSize
  BY <1>1, <1>2, LenAssumption DEF HeaderSize
<1> QED BY <1>1, <1>3, OneSlot

(* There is no map at first. *)
LEMMA InvInit == Init => Inv
  BY DEF Init, Inv

(* Each operation leaves slots that tile the buffer and keys that differ. *)
LEMMA InvStep == Inv /\ [Next]_vars => Inv'
<1> SUFFICES ASSUME Inv, [Next]_vars PROVE Inv'
  OBVIOUS
<1>1. CASE New
  BY <1>1, NewBuffer DEF Inv
<1>2. CASE Free
  BY <1>2 DEF Free, Inv
<1>3. ASSUME NEW k \in Keys, NEW v \in Values, Replace(k, v) PROVE Inv'
  <2>1. Buffer(slip_map)
    BY <1>3 DEF Inv, Replace
  <2>2. PICK oom \in BOOLEAN :
           slip_map' = replace_entry_in_slip_map(slip_map, k, v, oom).map
    BY <1>3 DEF Replace
  <2>3. Buffer(slip_map')
    BY <2>1, <2>2, Replaced
  <2> QED BY <2>3 DEF Inv
<1>4. ASSUME NEW k \in Keys, Remove(k) PROVE Inv'
  <2>1. Buffer(slip_map) /\ slip_map' = remove_entry_from_slip_map(slip_map, k).map
    BY <1>4 DEF Inv, Remove
  <2>2. Buffer(slip_map')
    BY <2>1, Removed
  <2> QED BY <2>2 DEF Inv
<1>5. ASSUME UNCHANGED slip_map PROVE Inv'
  BY <1>5 DEF Inv
<1>6. ASSUME NEW k \in Keys, Find(k) PROVE UNCHANGED slip_map
  BY <1>6 DEF Find
<1>7. CASE Foreach
  BY <1>5, <1>7 DEF Foreach
<1>8. CASE UNCHANGED vars
  BY <1>5, <1>8 DEF vars
<1> QED BY <1>1, <1>2, <1>3, <1>4, <1>5, <1>6, <1>7, <1>8 DEF Next

(* The inductive invariant holds after any sequence of operations.         *)
THEOREM SlipMapInvariant == Spec => []Inv
<1> QED BY InvInit, InvStep, PTL DEF Spec

(***************************************************************************)
(* A buffer never outgrows what two bytes count, and a slot without entry  *)
(* is its only slot.                                                       *)
(***************************************************************************)
THEOREM SlipMapTypes == Spec => []TypeOK
<1>1. Inv => TypeOK
  <2>1. ASSUME slip_map = NullMap PROVE TypeOK
    BY <2>1, NoSlots, LenAssumption DEF TypeOK, HeaderSize
  <2>2. ASSUME Buffer(slip_map) PROVE TypeOK
    <3>1. slip_map = [sizeof_map |-> slip_map.sizeof_map, map |-> slip_map.map]
      BY <2>2 DEF Buffer
    <3>2. DOMAIN slip_map = {"sizeof_map", "map"}
      BY <3>1
    <3> QED BY <2>2, <3>2 DEF Buffer, WF, Filled, TypeOK
  <2> QED BY <2>1, <2>2 DEF Inv
<1> QED BY <1>1, SlipMapInvariant, PTL

(***************************************************************************)
(* The slots tile the buffer, after any sequence of splits, merges, shifts *)
(* and growths.                                                            *)
(***************************************************************************)
THEOREM SlotsTile == Spec => []Tiled
<1>1. Inv => Tiled
  <2>1. ASSUME slip_map = NullMap PROVE Tiled
    BY <2>1, NoSlots DEF Tiled
  <2>2. ASSUME Buffer(slip_map) PROVE Tiled
    <3>1. \A o : SlotEnd(slip_map, o) = End(slip_map.map, o)
      BY DEF SlotEnd, End
    <3> QED BY <2>2, <3>1 DEF Buffer, WF, Tiles, Tiled
  <2> QED BY <2>1, <2>2 DEF Inv
<1> QED BY <1>1, SlipMapInvariant, PTL

-----------------------------------------------------------------------------
(* Scans of the buffer *)

(* One call of the recursive function that Walk defines. *)
Scan(s, f) ==
    [o \in DOMAIN s.map \cup {s.sizeof_map} |->
        IF o = s.sizeof_map THEN {} ELSE {o} \cup f[SlotEnd(s, o)]]

(* The enumeration is the recursive scan from the first header on. *)
LEMMA WalkIsScan ==
  ASSUME NEW s, NEW g, g = Scan(s, g)
  PROVE  \E f : f = Scan(s, f) /\ Walk(s) = f[0]
<1> DEFINE f == CHOOSE h : h = Scan(s, h)
<1>1. f = Scan(s, f)
  OBVIOUS
<1>2. Walk(s) = f[0]
  BY DEF Walk, Scan
<1> QED BY <1>1, <1>2

(* A scan from header to header meets every slot. *)
LEMMA WalkMeetsAll ==
  ASSUME NEW s, Buffer(s) PROVE Walk(s) = DOMAIN s.map
<1> DEFINE m == s.map
           n == s.sizeof_map
           g == [o \in DOMAIN m \cup {n} |-> {x \in DOMAIN m : o <= x}]
<1>0. WF(n, m) /\ 0 \in DOMAIN m
  BY DEF Buffer, WF
<1>1. ASSUME NEW o \in DOMAIN m
      PROVE  /\ o \in Nat /\ n \in Nat /\ SlotEnd(s, o) \in Nat
             /\ o < SlotEnd(s, o) /\ SlotEnd(s, o) <= n
             /\ SlotEnd(s, o) \in DOMAIN m \cup {n}
             /\ \A x \in DOMAIN m : ~(o < x /\ x < SlotEnd(s, o))
  <2>1. SlotEnd(s, o) = End(m, o)
    BY DEF SlotEnd, End
  <2>2. o \in Nat /\ n \in Nat /\ End(m, o) \in Nat /\ o + HeaderSize <= End(m, o)
        /\ End(m, o) <= n
    BY <1>0, SlotFacts
  <2>3. End(m, o) \in DOMAIN m \cup {n} /\ \A x \in DOMAIN m : ~(o < x /\ x < End(m, o))
    BY <1>0 DEF WF, Tiles
  <2> HIDE DEF m, n
  <2> QED BY <2>1, <2>2, <2>3 DEF HeaderSize
<1>2. \A o \in DOMAIN m : o # n
  BY <1>1
<1>3. g[n] = {}
  BY <1>1
<1>4. ASSUME NEW o \in DOMAIN m PROVE g[o] = {o} \cup g[SlotEnd(s, o)]
  <2> DEFINE e == SlotEnd(s, o)
  <2>1. e \in DOMAIN m \cup {n} /\ e \in Nat /\ o < e /\ o \in Nat
    BY <1>1
  <2>2. ASSUME NEW x \in DOMAIN m PROVE o <= x <=> (x = o \/ e <= x)
    <3>1. x \in Nat /\ ~(o < x /\ x < e)
      BY <1>1
    <3> HIDE DEF e
    <3> QED BY <2>1, <3>1
  <2>3. g[o] = {x \in DOMAIN m : o <= x} /\ g[e] = {x \in DOMAIN m : e <= x}
    BY <2>1
  <2> HIDE DEF g, e
  <2>4. g[o] = {o} \cup g[e]
    BY <2>2, <2>3
  <2> QED BY <2>4 DEF e
<1>5. g = Scan(s, g)
  <2>1. g = [o \in DOMAIN m \cup {n} |-> g[o]]
    OBVIOUS
  <2>2. \A o \in DOMAIN m \cup {n} :
           g[o] = IF o = n THEN {} ELSE {o} \cup g[SlotEnd(s, o)]
    <3> HIDE DEF g
    <3> QED BY <1>2, <1>3, <1>4
  <2> HIDE DEF g
  <2> QED BY <2>1, <2>2 DEF Scan
<1>6. PICK f : f = Scan(s, f) /\ Walk(s) = f[0]
  BY <1>5, WalkIsScan
<1>7. f[n] = {} /\ \A o \in DOMAIN m : f[o] = {o} \cup f[SlotEnd(s, o)]
  <2>1. \A o \in DOMAIN m \cup {n} :
           f[o] = IF o = n THEN {} ELSE {o} \cup f[SlotEnd(s, o)]
    BY <1>6 DEF Scan
  <2> QED BY <1>2, <2>1
<1>8. f[0] = g[0]
  <2> DEFINE Bad == {n - o : o \in {x \in DOMAIN m : f[x] # g[x]}}
  <2>1. SUFFICES ASSUME f[0] # g[0] PROVE FALSE
    OBVIOUS
  <2> HIDE DEF g
  <2>2. Bad \in SUBSET Nat
    BY <1>1
  <2>3. n - 0 \in Bad
    BY <1>0, <2>1
  <2>4. \A o \in DOMAIN m : f[o] # g[o] => n - o \in Bad
    OBVIOUS
  <2>5. \A b \in Bad : \E o \in DOMAIN m : f[o] # g[o] /\ b = n - o
    OBVIOUS
  <2> HIDE DEF Bad
  <2>6. PICK b \in Bad : \A c \in Bad : b <= c
    BY <2>2, <2>3, LeastNat
  <2>7. PICK o \in DOMAIN m : f[o] # g[o] /\ b = n - o
    BY <2>5
  <2> DEFINE e == SlotEnd(s, o)
  <2>8. /\ o \in Nat /\ n \in Nat /\ e \in Nat /\ o < e /\ e <= n
        /\ e \in DOMAIN m \cup {n}
    BY <1>1
  <2>9. f[e] # g[e]
    BY <1>4, <1>7, <2>7
  <2>10. e \in DOMAIN m /\ n - e \in Bad
    BY <1>3, <1>7, <2>4, <2>8, <2>9
  <2> HIDE DEF e
  <2>11. b <= n - e
    BY <2>6, <2>10
  <2> QED BY <2>7, <2>8, <2>11
<1>9. g[0] = DOMAIN m
  <2>1. \A x \in DOMAIN m : 0 <= x
    BY <1>1
  <2> QED BY <1>0, <2>1
<1> QED BY <1>6, <1>8, <1>9

(* There is nothing to enumerate in a NULL map. *)
LEMMA WalkMeetsNone == Walk(NullMap) = {}
<1> DEFINE g == [o \in {0} |-> {}]
<1>1. DOMAIN NullMap.map \cup {NullMap.sizeof_map} = {0} /\ NullMap.sizeof_map = 0
  BY NoSlots
<1>2. \A f : Scan(NullMap, f) = [o \in {0} |-> {}]
  BY <1>1 DEF Scan
<1>3. g = Scan(NullMap, g)
  BY <1>2
<1>4. PICK f : f = Scan(NullMap, f) /\ Walk(NullMap) = f[0]
  BY <1>3, WalkIsScan
<1> QED BY <1>2, <1>4
-----------------------------------------------------------------------------
(* The refinement *)

(* The function f holds the entries of the slots m. *)
Represents(f, m) ==
    /\ f = [k \in DOMAIN f |-> f[k]]
    /\ \A k \in DOMAIN f : k \in Keys /\ f[k] \in Values
    /\ \A k \in Keys, v \in Values : Has(m, k, v) <=> (k \in DOMAIN f /\ f[k] = v)

EntriesOf(s) ==
    [k \in {s.map[o].key : o \in DOMAIN s.map} \ {NoKey} |-> s.map[Min(SlotsOf(s, k))].value]

(* A map represents one function. *)
LEMMA OneFunction ==
  ASSUME NEW m, NEW f, NEW g, Represents(f, m), Represents(g, m) PROVE f = g
<1>1. DOMAIN f = DOMAIN g
  BY DEF Represents
<1>2. \A k \in DOMAIN f : f[k] = g[k]
  BY <1>1 DEF Represents
<1> QED BY <1>1, <1>2 DEF Represents

(* The enumeration of a map represents it. *)
LEMMA EntriesAreStored ==
  ASSUME NEW s, s = NullMap \/ Buffer(s)
  PROVE  Represents(EntriesOf(s), s.map)
<1> DEFINE m == s.map
           f == EntriesOf(s)
<1>0. ASSUME NEW o \in DOMAIN m, m[o].key # NoKey
      PROVE  o \in Nat /\ m[o].key \in Keys /\ m[o].value \in Values
  BY <1>0, NoSlots, SlotFacts DEF Buffer
<1>1. \A o, x \in DOMAIN m : m[o].key = m[x].key /\ m[o].key # NoKey => o = x
  BY NoSlots DEF Buffer, WF, Keyed
<1>2. f = [k \in DOMAIN f |-> f[k]]
      /\ DOMAIN f = {m[o].key : o \in DOMAIN m} \ {NoKey}
  BY DEF EntriesOf
<1>3. ASSUME NEW o \in DOMAIN m, m[o].key # NoKey
      PROVE  f[m[o].key] = m[o].value
  <2> DEFINE k == m[o].key
  <2>1. SlotsOf(s, k) \in SUBSET Nat /\ o \in SlotsOf(s, k)
    BY <1>0, <1>3 DEF SlotsOf
  <2>2. Min(SlotsOf(s, k)) \in SlotsOf(s, k)
    BY <2>1, MinNat
  <2>3. Min(SlotsOf(s, k)) = o
    BY <1>1, <1>3, <2>2 DEF SlotsOf
  <2>4. k \in {m[x].key : x \in DOMAIN m} \ {NoKey}
    BY <1>3
  <2>5. f[k] = m[Min(SlotsOf(s, k))].value
    BY <2>4 DEF EntriesOf
  <2> QED BY <2>3, <2>5
<1> HIDE DEF f
<1>4. \A k \in DOMAIN f : k \in Keys /\ f[k] \in Values
  BY <1>0, <1>2, <1>3
<1>5. ASSUME NEW k \in Keys, NEW v \in Values
      PROVE  Has(m, k, v) <=> (k \in DOMAIN f /\ f[k] = v)
  <2>1. k # NoKey
    BY LenAssumption
  <2> QED BY <1>2, <1>3, <2>1 DEF Has
<1>6. Represents(f, m)
  BY <1>2, <1>4, <1>5 DEF Represents
<1> QED BY <1>6 DEF f

(* An entry that is set is set in the function. *)
LEMMA WithRepresents ==
  ASSUME NEW m, NEW w, NEW f, Represents(f, m), NEW k \in Keys, NEW v \in Values,
         Sets(m, w, k, v)
  PROVE  Represents(Abstract!With(f, k, v), w)
<1> DEFINE g == Abstract!With(f, k, v)
<1>1. /\ g = [x \in DOMAIN g |-> g[x]] /\ DOMAIN g = DOMAIN f \cup {k}
      /\ g[k] = v /\ \A x \in DOMAIN f \ {k} : g[x] = f[x]
  BY DEF Abstract!With
<1> HIDE DEF g
<1>2. Represents(g, w)
  BY <1>1 DEF Represents, Sets
<1> QED BY <1>2 DEF g

(* An entry that is dropped is dropped from the function. *)
LEMMA WithoutRepresents ==
  ASSUME NEW m, NEW w, NEW f, Represents(f, m), NEW k \in Keys, Drops(m, w, k)
  PROVE  Represents(Abstract!Without(f, k), w)
<1> DEFINE g == Abstract!Without(f, k)
<1>1. /\ g = [x \in DOMAIN g |-> g[x]] /\ DOMAIN g = DOMAIN f \ {k}
      /\ \A x \in DOMAIN f \ {k} : g[x] = f[x]
  BY DEF Abstract!Without
<1> HIDE DEF g
<1>2. Represents(g, w)
  BY <1>1 DEF Represents, Drops
<1> QED BY <1>2 DEF g

(* find_in_slip_map returns the value of the key. *)
LEMMA Found ==
  ASSUME NEW s, s = NullMap \/ Buffer(s), NEW k \in Keys
  PROVE  find_in_slip_map(s, k) =
           IF k \in DOMAIN EntriesOf(s) THEN EntriesOf(s)[k] ELSE NoValue
<1>1. Walk(s) = DOMAIN s.map
  BY WalkMeetsAll, WalkMeetsNone, NoSlots
<1>2. {o \in Walk(s) : s.map[o].key = k} = SlotsOf(s, k)
  BY <1>1 DEF SlotsOf
<1>3. k \in DOMAIN EntriesOf(s) <=> SlotsOf(s, k) # {}
  BY LenAssumption DEF EntriesOf, SlotsOf
<1>4. find_in_slip_map(s, k) =
        IF SlotsOf(s, k) = {} THEN NoValue ELSE s.map[Min(SlotsOf(s, k))].value
  BY <1>2 DEF find_in_slip_map
<1>5. k \in DOMAIN EntriesOf(s) => EntriesOf(s)[k] = s.map[Min(SlotsOf(s, k))].value
  BY DEF EntriesOf
<1> QED BY <1>3, <1>4, <1>5

(* slip_map_foreach meets every entry. *)
LEMMA Enumerated ==
  ASSUME NEW s, s = NullMap \/ Buffer(s)
  PROVE  slip_map_foreach(s) = {<<k, EntriesOf(s)[k]>> : k \in DOMAIN EntriesOf(s)}
<1> DEFINE f == EntriesOf(s)
           m == s.map
<1>1. Walk(s) = DOMAIN m
  BY WalkMeetsAll, WalkMeetsNone, NoSlots
<1>2. Represents(f, m)
  BY EntriesAreStored
<1>3. ASSUME NEW o \in DOMAIN m, m[o].key # NoKey
      PROVE  m[o].key \in DOMAIN f /\ f[m[o].key] = m[o].value
  <2>1. m[o].key \in Keys /\ m[o].value \in Values
    BY <1>3, NoSlots, SlotFacts DEF Buffer
  <2> QED BY <1>2, <2>1 DEF Represents, Has
<1>4. ASSUME NEW k \in DOMAIN f
      PROVE  \E o \in DOMAIN m : m[o].key = k /\ m[o].key # NoKey /\ m[o].value = f[k]
  BY <1>2, LenAssumption DEF Represents, Has
<1>5. slip_map_foreach(s) =
        {<<m[o].key, m[o].value>> : o \in {x \in DOMAIN m : m[x].key # NoKey}}
  BY <1>1 DEF slip_map_foreach
<1> HIDE DEF f, m
<1>6. {<<m[o].key, m[o].value>> : o \in {x \in DOMAIN m : m[x].key # NoKey}}
      = {<<k, f[k]>> : k \in DOMAIN f}
  BY <1>3, <1>4
<1> QED BY <1>5, <1>6 DEF f

(***************************************************************************)
(* The buffer of slipmap.c implements a partial function from keys to      *)
(* values, for all keys, values and limits: every call returns what it     *)
(* would for a function, and no other entry changes.                       *)
(***************************************************************************)
THEOREM SlipMapIsPropertyMap == Spec => IsPropertyMap
<1> DEFINE f == AbstractMap
           m == slip_map.map
<1>0. f = EntriesOf(slip_map) /\ f' = EntriesOf(slip_map')
  BY DEF AbstractMap, StoredKeys, EntriesOf, SlotsOf
<1>1. EntriesOf(NullMap) = Abstract!NoProps
  BY NoSlots DEF EntriesOf, Abstract!NoProps
<1>2. Init => Abstract!Init
  BY <1>0, <1>1 DEF Init, Abstract!Init
<1>3. Inv /\ [Next]_vars => [Abstract!Next]_<<AbstractMap, result>>
  <2> SUFFICES ASSUME Inv, [Next]_vars
               PROVE  Abstract!Next \/ UNCHANGED <<AbstractMap, result>>
    OBVIOUS
  <2>0. Represents(f, m) /\ Represents(f', slip_map'.map)
    <3>1. Inv'
      BY InvStep
    <3> QED BY <1>0, <3>1, EntriesAreStored DEF Inv
  <2>1. CASE New
    <3>1. DOMAIN slip_map'.map = {0} /\ slip_map'.map[0].key = NoKey
      BY <2>1, NewBuffer
    <3>2. f' = Abstract!NoProps
      BY <1>0, <3>1 DEF EntriesOf, Abstract!NoProps
    <3> QED BY <2>1, <3>2 DEF New, Abstract!Next, Abstract!Clear
  <2>2. CASE Free
    <3>1. f' = Abstract!NoProps
      BY <1>0, <1>1, <2>2 DEF Free
    <3> QED BY <2>2, <3>1 DEF Free, Abstract!Next, Abstract!Clear
  <2>3. ASSUME NEW k \in Keys, NEW v \in Values, Replace(k, v) PROVE Abstract!Replace(k, v)
    <3> DEFINE r(oom) == replace_entry_in_slip_map(slip_map, k, v, oom)
    <3>1. PICK oom \in BOOLEAN : slip_map' = r(oom).map /\ result' = <<"replace", r(oom).ret>>
      BY <2>3 DEF Replace
    <3>2. Buffer(slip_map)
      BY <2>3 DEF Replace, Inv
    <3>3. \/ r(oom).ret = 0 /\ Sets(m, slip_map'.map, k, v)
          \/ r(oom).ret = -1 /\ (slip_map' = slip_map \/ Drops(m, slip_map'.map, k))
      BY <3>1, <3>2, Replaced
    <3> HIDE DEF r
    <3>4. CASE r(oom).ret = 0 /\ Sets(m, slip_map'.map, k, v)
      <4>1. f' = Abstract!With(f, k, v)
        BY <2>0, <3>4, WithRepresents, OneFunction
      <4> QED BY <3>1, <3>4, <4>1 DEF Abstract!Replace
    <3>5. CASE r(oom).ret = -1 /\ slip_map' = slip_map
      <4>1. f' = f
        BY <1>0, <3>5
      <4> QED BY <3>1, <3>5, <4>1 DEF Abstract!Replace
    <3>6. CASE r(oom).ret = -1 /\ Drops(m, slip_map'.map, k)
      <4>1. f' = Abstract!Without(f, k)
        BY <2>0, <3>6, WithoutRepresents, OneFunction
      <4> QED BY <3>1, <3>6, <4>1 DEF Abstract!Replace
    <3> QED BY <3>3, <3>4, <3>5, <3>6
  <2>4. ASSUME NEW k \in Keys, Remove(k) PROVE Abstract!Remove(k)
    <3> DEFINE r == remove_entry_from_slip_map(slip_map, k)
    <3>1. Buffer(slip_map) /\ slip_map' = r.map /\ result' = <<"remove", r.ret>>
      BY <2>4 DEF Remove, Inv
    <3>2. Drops(m, slip_map'.map, k) /\ r.ret = IF HasKey(m, k) THEN 1 ELSE 0
      BY <3>1, Removed
    <3> HIDE DEF r
    <3>3. f' = Abstract!Without(f, k)
      BY <2>0, <3>2, WithoutRepresents, OneFunction
    <3>4. HasKey(m, k) <=> k \in DOMAIN f
      BY <2>0, <3>1, KeyHasValue DEF Represents
    <3> QED BY <3>1, <3>2, <3>3, <3>4 DEF Abstract!Remove
  <2>5. ASSUME NEW k \in Keys, Find(k) PROVE Abstract!Find(k)
    <3>1. result' = <<"find", find_in_slip_map(slip_map, k)>> /\ slip_map' = slip_map
      BY <2>5 DEF Find
    <3>2. f' = f
      BY <1>0, <3>1
    <3>3. find_in_slip_map(slip_map, k) = IF k \in DOMAIN f THEN f[k] ELSE NoValue
      BY <1>0, Found DEF Inv
    <3> QED BY <3>1, <3>2, <3>3 DEF Abstract!Find
  <2>6. CASE Foreach
    <3>1. result' = <<"foreach", slip_map_foreach(slip_map)>> /\ slip_map' = slip_map
      BY <2>6 DEF Foreach
    <3>2. f' = f
      BY <1>0, <3>1
    <3>3. slip_map_foreach(slip_map) = {<<k, f[k]>> : k \in DOMAIN f}
      BY <1>0, Enumerated DEF Inv
    <3>4. Abstract!Enumerate
      BY <3>1, <3>2, <3>3 DEF Abstract!Enumerate
    <3> QED BY <3>4 DEF Abstract!Next
  <2>7. CASE UNCHANGED vars
    BY <1>0, <2>7 DEF vars
  <2> QED BY <2>1, <2>2, <2>3, <2>4, <2>5, <2>6, <2>7 DEF Next, Abstract!Next
<1> QED BY <1>2, <1>3, SlipMapInvariant, PTL DEF Spec, IsPropertyMap, Abstract!Spec
=============================================================================
