----------------------------- MODULE SlabProofs -----------------------------
(***************************************************************************)
(* For every number of chunks and of slots: the links of the slab are      *)
(* sound, an entry keeps its slot, and slab_foreach meets entries only and *)
(* none twice.  (That it meets all of them is false: MCSlabForeach.)       *)
(***************************************************************************)
EXTENDS Slab, LibraryFacts

Link == Chunk \cup {NULL}

SlabState == [bitmap : [Chunk -> SUBSET Bit], next : [Chunk -> Link],
              previous : [Chunk -> Link], first_partial_chunk : Link,
              first_full_chunk : Link, allocated : SUBSET Chunk]

(* The chunks with entries. *)
Owned(L) == {c \in Chunk : \E b \in Bit : <<c, b>> \in L}

(* Among the chunks of D links lead to D and back, and to the same kind.   *)
Links(s, D) ==
    \A c \in D :
       /\ s.next[c] # NULL =>
            /\ s.next[c] \in D
            /\ s.previous[s.next[c]] = c
            /\ (s.bitmap[s.next[c]] = {}) <=> (s.bitmap[c] = {})
       /\ s.previous[c] # NULL =>
            /\ s.previous[c] \in D
            /\ s.next[s.previous[c]] = c

(* A list starts at a chunk of its kind that has no predecessor. *)
PartialHead(s, D) ==
    s.first_partial_chunk # NULL =>
       /\ s.first_partial_chunk \in D
       /\ s.previous[s.first_partial_chunk] = NULL
       /\ s.bitmap[s.first_partial_chunk] # {}

FullHead(s, D) ==
    s.first_full_chunk # NULL =>
       /\ s.first_full_chunk \in D
       /\ s.previous[s.first_full_chunk] = NULL
       /\ s.bitmap[s.first_full_chunk] = {}

(* The entries are the clear bits of the chunks of D. *)
Entries(s, D, L) ==
    /\ L \subseteq D \X Bit
    /\ \A c \in D, b \in Bit : <<c, b>> \in L <=> b \notin s.bitmap[c]

Sound(s, D) == /\ s \in SlabState /\ D \subseteq s.allocated
               /\ Links(s, D) /\ PartialHead(s, D) /\ FullHead(s, D)

Good(s, D, L) == Sound(s, D) /\ Entries(s, D, L)

Inv == Good(slab, Owned(live), live)
-----------------------------------------------------------------------------
(* The pieces of the actions *)

(* The slab t is s but for the bitmap of c. *)
Rebit(s, t, c) ==
    /\ t \in SlabState
    /\ t.next = s.next /\ t.previous = s.previous
    /\ t.first_partial_chunk = s.first_partial_chunk
    /\ t.first_full_chunk = s.first_full_chunk
    /\ t.allocated = s.allocated
    /\ \A x \in Chunk \ {c} : t.bitmap[x] = s.bitmap[x]

(* Setting a bitmap changes nothing else. *)
LEMMA NewBits ==
  ASSUME NEW s \in SlabState, NEW c \in Chunk, NEW B \in SUBSET Bit
  PROVE  /\ Rebit(s, [s EXCEPT !.bitmap[c] = B], c)
         /\ [s EXCEPT !.bitmap[c] = B].bitmap[c] = B
  BY DEF SlabState, Rebit

(* What is left of the lists of s in u, when c is unlinked in t, is sound, *)
(* and starts at a chunk without predecessor; c keeps its own successor.   *)
Cut(s, t, u, c, D) ==
    /\ u \in SlabState /\ Links(u, D \ {c})
    /\ u.bitmap = t.bitmap /\ u.allocated = s.allocated
    /\ u.first_partial_chunk = s.first_partial_chunk
    /\ u.first_full_chunk = s.first_full_chunk
    /\ \A x \in D \ {c} : s.previous[x] = NULL => u.previous[x] = NULL
    /\ s.previous[c] = NULL =>
         /\ u.next[c] = s.next[c]
         /\ s.next[c] # NULL =>
              /\ s.next[c] \in D \ {c}
              /\ u.previous[s.next[c]] = NULL
              /\ (s.bitmap[s.next[c]] = {}) <=> (s.bitmap[c] = {})

(* A chunk that is unlinked leaves its neighbours linked to each other. *)
LEMMA Unlinked ==
  ASSUME NEW D \in SUBSET Chunk, NEW s \in SlabState, NEW c \in D, NEW t,
         Links(s, D), Rebit(s, t, c), NEW u, u = Unlink(t, c)
  PROVE  Cut(s, t, u, c, D)
<1>1. t \in SlabState /\ t.next = s.next /\ t.previous = s.previous
  BY DEF Rebit
<1>2. /\ s.next \in [Chunk -> Link] /\ s.previous \in [Chunk -> Link]
  BY DEF SlabState
<1> DEFINE nx == [x \in Chunk |-> IF x = s.previous[c] THEN s.next[c] ELSE s.next[x]]
           pr == [x \in Chunk |-> IF x = s.next[c] THEN s.previous[c]
                                                   ELSE s.previous[x]]
<1>3. u = [t EXCEPT !.next = nx, !.previous = pr]
  BY <1>1 DEF Unlink
<1>4. nx \in [Chunk -> Link] /\ pr \in [Chunk -> Link]
  BY <1>2
<1>5. /\ u \in SlabState /\ u.next = nx /\ u.previous = pr
      /\ u.bitmap = t.bitmap /\ u.allocated = t.allocated
      /\ u.first_partial_chunk = t.first_partial_chunk
      /\ u.first_full_chunk = t.first_full_chunk
  <2> HIDE DEF nx, pr
  <2> QED BY <1>1, <1>3, <1>4 DEF SlabState
<1>6. NULL \notin D
  BY SlabAssumption
<1>7. Links(u, D \ {c})
  <2> SUFFICES ASSUME NEW x \in D \ {c}
               PROVE  /\ u.next[x] # NULL =>
                            /\ u.next[x] \in D \ {c}
                            /\ u.previous[u.next[x]] = x
                            /\ (u.bitmap[u.next[x]] = {}) <=> (u.bitmap[x] = {})
                      /\ u.previous[x] # NULL =>
                            /\ u.previous[x] \in D \ {c}
                            /\ u.next[u.previous[x]] = x
    BY DEF Links
  <2>1. ASSUME u.next[x] # NULL
        PROVE  u.next[x] \in D \ {c} /\ u.previous[u.next[x]] = x
    BY <1>2, <1>5, <1>6, <2>1 DEF Links
  <2>2. ASSUME u.previous[x] # NULL
        PROVE  u.previous[x] \in D \ {c} /\ u.next[u.previous[x]] = x
    BY <1>2, <1>5, <1>6, <2>2 DEF Links
  <2>3. ASSUME u.next[x] # NULL
        PROVE  (s.bitmap[u.next[x]] = {}) <=> (s.bitmap[x] = {})
    <3>1. \A y \in D : s.next[y] # NULL =>
             ((s.bitmap[s.next[y]] = {}) <=> (s.bitmap[y] = {}))
      BY DEF Links
    <3>2. CASE x = s.previous[c]
      <4>1. u.next[x] = s.next[c] /\ s.next[x] = c /\ c # NULL
        BY <1>2, <1>5, <1>6, <3>2 DEF Links
      <4> QED BY <2>3, <3>1, <4>1
    <3>3. CASE x # s.previous[c]
      <4>1. u.next[x] = s.next[x]
        BY <1>2, <1>5, <3>3
      <4> QED BY <2>3, <3>1, <4>1
    <3> QED BY <3>2, <3>3
  <2>4. \A y \in D \ {c} : u.bitmap[y] = s.bitmap[y]
    BY <1>5 DEF Rebit
  <2> QED BY <2>1, <2>2, <2>3, <2>4
<1>8. \A x \in D \ {c} : s.previous[x] = NULL => u.previous[x] = NULL
  BY <1>2, <1>5, <1>6 DEF Links
<1>9. ASSUME s.previous[c] = NULL
      PROVE  /\ u.next[c] = s.next[c]
             /\ s.next[c] # NULL =>
                  /\ s.next[c] \in D \ {c}
                  /\ u.previous[s.next[c]] = NULL
                  /\ (s.bitmap[s.next[c]] = {}) <=> (s.bitmap[c] = {})
  BY <1>2, <1>5, <1>6, <1>9 DEF Links
<1> QED BY <1>5, <1>7, <1>8, <1>9 DEF Rebit, Cut

(* A chunk of D becomes the head of a list of its kind. *)
Pushed(s, p, c, head) ==
    /\ p \in SlabState /\ p.bitmap = s.bitmap /\ p.allocated = s.allocated
    /\ p.next = [s.next EXCEPT ![c] = head]
    /\ p.previous = [x \in Chunk |-> IF x = head THEN c
                                     ELSE IF x = c THEN NULL ELSE s.previous[x]]

Fits(s, c, head, D) ==
    head # NULL => /\ head \in D /\ s.previous[head] = NULL
                   /\ (s.bitmap[head] = {}) <=> (s.bitmap[c] = {})

Headed(s, p, c, head, D) ==
    /\ Links(p, D \cup {c}) /\ p.previous[c] = NULL
    /\ \A x \in D : x # head => p.previous[x] = s.previous[x]

(* A chunk that is pushed becomes the head of a sound list. *)
LEMMA PushedLinks ==
  ASSUME NEW D \in SUBSET Chunk, NEW s \in SlabState, NEW c \in Chunk \ D, NEW p,
         NEW head \in Link, Links(s, D), Pushed(s, p, c, head),
         Fits(s, c, head, D)
  PROVE  Headed(s, p, c, head, D)
<1>1. NULL \notin D /\ c # NULL /\ c \in Chunk /\ c \notin D
  BY SlabAssumption
<1>2. s.next \in [Chunk -> Link] /\ s.previous \in [Chunk -> Link]
  BY DEF SlabState
<1>3. /\ p.bitmap = s.bitmap
      /\ \A x \in Chunk : p.next[x] = IF x = c THEN head ELSE s.next[x]
      /\ \A x \in Chunk : p.previous[x] = IF x = head THEN c
                                          ELSE IF x = c THEN NULL ELSE s.previous[x]
  BY <1>2 DEF Pushed
<1>4. ASSUME NEW x \in D \cup {c}, p.next[x] # NULL
      PROVE  /\ p.next[x] \in D \cup {c}
             /\ p.previous[p.next[x]] = x
             /\ (p.bitmap[p.next[x]] = {}) <=> (p.bitmap[x] = {})
  BY <1>1, <1>2, <1>3, <1>4 DEF Links, Fits
<1>5. ASSUME NEW x \in D \cup {c}, p.previous[x] # NULL
      PROVE  p.previous[x] \in D \cup {c} /\ p.next[p.previous[x]] = x
  BY <1>1, <1>2, <1>3, <1>5 DEF Links, Fits
<1>6. Links(p, D \cup {c})
  BY <1>4, <1>5 DEF Links
<1> QED BY <1>1, <1>3, <1>6 DEF Headed, Fits

(* PushPartial leaves the full list alone. *)
LEMMA PushedPartial ==
  ASSUME NEW s \in SlabState, NEW c \in Chunk
  PROVE  /\ Pushed(s, PushPartial(s, c), c, s.first_partial_chunk)
         /\ PushPartial(s, c).first_partial_chunk = c
         /\ PushPartial(s, c).first_full_chunk = s.first_full_chunk
<1> DEFINE nx == [s.next EXCEPT ![c] = s.first_partial_chunk]
           pr == [x \in Chunk |-> IF x = s.first_partial_chunk THEN c
                                  ELSE IF x = c THEN NULL ELSE s.previous[x]]
<1>1. nx \in [Chunk -> Link] /\ pr \in [Chunk -> Link] /\ c \in Link
  BY DEF SlabState, Link
<1>2. PushPartial(s, c) = [s EXCEPT !.next = nx, !.previous = pr,
                                    !.first_partial_chunk = c]
  BY DEF PushPartial, SlabState
<1> HIDE DEF nx, pr
<1>3. /\ PushPartial(s, c) \in SlabState
      /\ PushPartial(s, c).next = nx /\ PushPartial(s, c).previous = pr
      /\ PushPartial(s, c).bitmap = s.bitmap
      /\ PushPartial(s, c).allocated = s.allocated
      /\ PushPartial(s, c).first_partial_chunk = c
      /\ PushPartial(s, c).first_full_chunk = s.first_full_chunk
  BY <1>1, <1>2 DEF SlabState
<1> QED BY <1>3 DEF Pushed, nx, pr

(* PushFull leaves the partial list alone. *)
LEMMA PushedFull ==
  ASSUME NEW s \in SlabState, NEW c \in Chunk
  PROVE  /\ Pushed(s, PushFull(s, c), c, s.first_full_chunk)
         /\ PushFull(s, c).first_full_chunk = c
         /\ PushFull(s, c).first_partial_chunk = s.first_partial_chunk
<1> DEFINE nx == [s.next EXCEPT ![c] = s.first_full_chunk]
           pr == [x \in Chunk |-> IF x = s.first_full_chunk THEN c
                                  ELSE IF x = c THEN NULL ELSE s.previous[x]]
<1>1. nx \in [Chunk -> Link] /\ pr \in [Chunk -> Link] /\ c \in Link
  BY DEF SlabState, Link
<1>2. PushFull(s, c) = [s EXCEPT !.next = nx, !.previous = pr, !.first_full_chunk = c]
  BY DEF PushFull, SlabState
<1> HIDE DEF nx, pr
<1>3. /\ PushFull(s, c) \in SlabState
      /\ PushFull(s, c).next = nx /\ PushFull(s, c).previous = pr
      /\ PushFull(s, c).bitmap = s.bitmap
      /\ PushFull(s, c).allocated = s.allocated
      /\ PushFull(s, c).first_full_chunk = c
      /\ PushFull(s, c).first_partial_chunk = s.first_partial_chunk
  BY <1>1, <1>2 DEF SlabState
<1> QED BY <1>3 DEF Pushed, nx, pr
-----------------------------------------------------------------------------
(* Moves of a chunk from list to list, and out *)

(* Links depend on the links and bitmaps of the chunks only. *)
LEMMA SameLinks ==
  ASSUME NEW D, NEW u, NEW v, Links(u, D),
         \A x \in D : /\ v.next[x] = u.next[x] /\ v.previous[x] = u.previous[x]
                      /\ v.bitmap[x] = u.bitmap[x]
  PROVE  Links(v, D)
  BY DEF Links

(* The heads of the two lists are two chunks, c among neither list but its own. *)
LEMMA MovedToFull ==
  ASSUME NEW D \in SUBSET Chunk, NEW s, NEW t, NEW c \in D, Sound(s, D), Rebit(s, t, c),
         s.bitmap[c] # {}, t.bitmap[c] = {}
  PROVE  Sound(MoveToFull(t, c), D) /\ MoveToFull(t, c).bitmap = t.bitmap
<1> DEFINE u == Unlink(t, c)
           first == IF u.first_partial_chunk = c THEN NULL ELSE u.first_partial_chunk
           v == [u EXCEPT !.first_partial_chunk = first]
           m == PushFull(v, c)
<1>1. /\ s \in SlabState /\ D \subseteq s.allocated /\ Links(s, D)
      /\ PartialHead(s, D) /\ FullHead(s, D)
  BY DEF Sound
<1>0. u = Unlink(t, c)
  OBVIOUS
<1> HIDE DEF u
<1>2. /\ u \in SlabState /\ Links(u, D \ {c})
      /\ u.bitmap = t.bitmap /\ u.allocated = s.allocated
      /\ u.first_partial_chunk = s.first_partial_chunk
      /\ u.first_full_chunk = s.first_full_chunk
      /\ \A x \in D \ {c} : s.previous[x] = NULL => u.previous[x] = NULL
  <2>1. Cut(s, t, u, c, D)
    BY <1>0, <1>1, Unlinked
  <2> QED BY <2>1 DEF Cut
<1>3. MoveToFull(t, c) = m
  BY <1>0 DEF MoveToFull
<1>4. first \in Link
  BY <1>2 DEF SlabState, Link
<1> HIDE DEF first
<1>5. /\ v \in SlabState /\ v.next = u.next /\ v.previous = u.previous
      /\ v.bitmap = u.bitmap /\ v.allocated = u.allocated
      /\ v.first_partial_chunk = first /\ v.first_full_chunk = u.first_full_chunk
  BY <1>2, <1>4 DEF SlabState
<1> HIDE DEF v
<1>6. Links(v, D \ {c})
  BY <1>2, <1>5, SameLinks
<1>7. /\ Pushed(v, m, c, v.first_full_chunk)
      /\ m.first_full_chunk = c /\ m.first_partial_chunk = first
  BY <1>5, PushedFull
<1> HIDE DEF m
<1>8. \A x \in D \ {c} : v.bitmap[x] = s.bitmap[x]
  BY <1>2, <1>5 DEF Rebit
<1>9. v.first_full_chunk # NULL =>
        /\ v.first_full_chunk \in D \ {c} /\ v.previous[v.first_full_chunk] = NULL
        /\ v.bitmap[v.first_full_chunk] = {} /\ v.bitmap[c] = {}
  BY <1>1, <1>2, <1>5, <1>8 DEF FullHead
<1>10. first # NULL =>
        /\ first \in D \ {c} /\ v.previous[first] = NULL
        /\ v.bitmap[first] # {} /\ first # v.first_full_chunk
  BY <1>1, <1>2, <1>5, <1>8, <1>9 DEF PartialHead, first
<1>11. /\ Links(m, (D \ {c}) \cup {c}) /\ m.previous[c] = NULL
       /\ \A x \in D \ {c} : x # v.first_full_chunk => m.previous[x] = v.previous[x]
  <2>1. v.first_full_chunk \in Link /\ c \in Chunk \ (D \ {c}) /\ D \ {c} \in SUBSET Chunk
    BY <1>5 DEF SlabState
  <2>2. Fits(v, c, v.first_full_chunk, D \ {c})
    BY <1>9 DEF Fits
  <2>3. Headed(v, m, c, v.first_full_chunk, D \ {c})
    BY <1>5, <1>6, <1>7, <2>1, <2>2, PushedLinks
  <2> QED BY <2>3 DEF Headed
<1>12. (D \ {c}) \cup {c} = D
  OBVIOUS
<1>13. m \in SlabState /\ m.bitmap = v.bitmap /\ m.allocated = v.allocated
  BY <1>7 DEF Pushed
<1>14. FullHead(m, D)
  BY <1>2, <1>5, <1>7, <1>11, <1>13 DEF FullHead
<1>15. PartialHead(m, D)
  BY <1>7, <1>10, <1>11, <1>13 DEF PartialHead
<1> QED
  BY <1>1, <1>2, <1>3, <1>5, <1>11, <1>12, <1>13, <1>14, <1>15 DEF Sound

(* A full chunk that gets a free slot moves between the lists. *)
LEMMA MovedToPartial ==
  ASSUME NEW D \in SUBSET Chunk, NEW s, NEW t, NEW c \in D, Sound(s, D), Rebit(s, t, c),
         s.bitmap[c] = {}, t.bitmap[c] # {}
  PROVE  Sound(MoveToPartial(t, c), D) /\ MoveToPartial(t, c).bitmap = t.bitmap
<1> DEFINE u == Unlink(t, c)
           first == IF u.first_full_chunk = c THEN u.next[c] ELSE u.first_full_chunk
           v == [u EXCEPT !.first_full_chunk = first]
           m == PushPartial(v, c)
<1>1. /\ s \in SlabState /\ D \subseteq s.allocated /\ Links(s, D)
      /\ PartialHead(s, D) /\ FullHead(s, D)
  BY DEF Sound
<1>0. u = Unlink(t, c)
  OBVIOUS
<1> HIDE DEF u
<1>2. /\ u \in SlabState /\ Links(u, D \ {c})
      /\ u.bitmap = t.bitmap /\ u.allocated = s.allocated
      /\ u.first_partial_chunk = s.first_partial_chunk
      /\ u.first_full_chunk = s.first_full_chunk
      /\ \A x \in D \ {c} : s.previous[x] = NULL => u.previous[x] = NULL
      /\ s.previous[c] = NULL =>
           /\ u.next[c] = s.next[c]
           /\ s.next[c] # NULL =>
                /\ s.next[c] \in D \ {c}
                /\ u.previous[s.next[c]] = NULL
                /\ (s.bitmap[s.next[c]] = {}) <=> (s.bitmap[c] = {})
  <2>1. Cut(s, t, u, c, D)
    BY <1>0, <1>1, Unlinked
  <2> QED BY <2>1 DEF Cut
<1>3. MoveToPartial(t, c) = m
  BY <1>0 DEF MoveToPartial
<1>4. first \in Link
  BY <1>2 DEF SlabState
<1> HIDE DEF first
<1>5. /\ v \in SlabState /\ v.next = u.next /\ v.previous = u.previous
      /\ v.bitmap = u.bitmap /\ v.allocated = u.allocated
      /\ v.first_full_chunk = first /\ v.first_partial_chunk = u.first_partial_chunk
  BY <1>2, <1>4 DEF SlabState
<1> HIDE DEF v
<1>6. Links(v, D \ {c})
  BY <1>2, <1>5, SameLinks
<1>7. /\ Pushed(v, m, c, v.first_partial_chunk)
      /\ m.first_partial_chunk = c /\ m.first_full_chunk = first
  BY <1>5, PushedPartial
<1> HIDE DEF m
<1>8. \A x \in D \ {c} : v.bitmap[x] = s.bitmap[x]
  BY <1>2, <1>5 DEF Rebit
<1>9. v.first_partial_chunk # NULL =>
        /\ v.first_partial_chunk \in D \ {c} /\ v.previous[v.first_partial_chunk] = NULL
        /\ v.bitmap[v.first_partial_chunk] # {} /\ v.bitmap[c] # {}
  BY <1>1, <1>2, <1>5, <1>8 DEF PartialHead
<1>10. first # NULL =>
        /\ first \in D \ {c} /\ v.previous[first] = NULL
        /\ v.bitmap[first] = {} /\ first # v.first_partial_chunk
  <2>1. s.first_full_chunk = c =>
          /\ first = s.next[c]
          /\ first # NULL => /\ first \in D \ {c} /\ u.previous[first] = NULL
                             /\ s.bitmap[first] = {}
    BY <1>1, <1>2, SlabAssumption DEF FullHead, first
  <2>2. s.first_full_chunk # c =>
          /\ first = s.first_full_chunk
          /\ first # NULL => /\ first \in D \ {c} /\ u.previous[first] = NULL
                             /\ s.bitmap[first] = {}
    BY <1>1, <1>2 DEF FullHead, first
  <2> QED BY <1>5, <1>8, <1>9, <2>1, <2>2
<1>11. /\ Links(m, (D \ {c}) \cup {c}) /\ m.previous[c] = NULL
       /\ \A x \in D \ {c} : x # v.first_partial_chunk => m.previous[x] = v.previous[x]
  <2>1. v.first_partial_chunk \in Link /\ c \in Chunk \ (D \ {c}) /\ D \ {c} \in SUBSET Chunk
    BY <1>5 DEF SlabState
  <2>2. Fits(v, c, v.first_partial_chunk, D \ {c})
    BY <1>9 DEF Fits
  <2>3. Headed(v, m, c, v.first_partial_chunk, D \ {c})
    BY <1>5, <1>6, <1>7, <2>1, <2>2, PushedLinks
  <2> QED BY <2>3 DEF Headed
<1>12. (D \ {c}) \cup {c} = D
  OBVIOUS
<1>13. m \in SlabState /\ m.bitmap = v.bitmap /\ m.allocated = v.allocated
  BY <1>7 DEF Pushed
<1>14. PartialHead(m, D)
  BY <1>2, <1>5, <1>7, <1>11, <1>13 DEF PartialHead
<1>15. FullHead(m, D)
  BY <1>7, <1>10, <1>11, <1>13 DEF FullHead
<1> QED
  BY <1>1, <1>2, <1>3, <1>5, <1>11, <1>12, <1>13, <1>14, <1>15 DEF Sound

(* Freeing an empty chunk keeps the lists of the others sound. *)
LEMMA FreedChunk ==
  ASSUME NEW D \in SUBSET Chunk, NEW s, NEW t, NEW c \in D, Sound(s, D), Rebit(s, t, c),
         s.bitmap[c] # {}
  PROVE  /\ Sound(FreeChunk(t, c), D \ {c})
         /\ \A x \in D \ {c} : FreeChunk(t, c).bitmap[x] = s.bitmap[x]
<1> DEFINE u == Unlink(t, c)
           first == IF u.first_partial_chunk = c THEN u.next[c] ELSE u.first_partial_chunk
           nx == [u.next EXCEPT ![c] = NULL]
           pr == [u.previous EXCEPT ![c] = NULL]
           bm == [u.bitmap EXCEPT ![c] = {}]
           al == u.allocated \ {c}
           v == [u EXCEPT !.first_partial_chunk = first, !.next = nx,
                          !.previous = pr, !.bitmap = bm, !.allocated = al]
<1>1. /\ s \in SlabState /\ D \subseteq s.allocated /\ Links(s, D)
      /\ PartialHead(s, D) /\ FullHead(s, D)
  BY DEF Sound
<1>0. u = Unlink(t, c)
  OBVIOUS
<1> HIDE DEF u
<1>2. /\ u \in SlabState /\ Links(u, D \ {c})
      /\ u.bitmap = t.bitmap /\ u.allocated = s.allocated
      /\ u.first_partial_chunk = s.first_partial_chunk
      /\ u.first_full_chunk = s.first_full_chunk
      /\ \A x \in D \ {c} : s.previous[x] = NULL => u.previous[x] = NULL
      /\ s.previous[c] = NULL =>
           /\ u.next[c] = s.next[c]
           /\ s.next[c] # NULL =>
                /\ s.next[c] \in D \ {c}
                /\ u.previous[s.next[c]] = NULL
                /\ (s.bitmap[s.next[c]] = {}) <=> (s.bitmap[c] = {})
  <2>1. Cut(s, t, u, c, D)
    BY <1>0, <1>1, Unlinked
  <2> QED BY <2>1 DEF Cut
<1>3. FreeChunk(t, c) = v
  BY <1>0, <1>2 DEF FreeChunk, SlabState
<1>4. /\ first \in Link /\ nx \in [Chunk -> Link] /\ pr \in [Chunk -> Link]
      /\ bm \in [Chunk -> SUBSET Bit] /\ al \in SUBSET Chunk
      /\ \A x \in D \ {c} : nx[x] = u.next[x] /\ pr[x] = u.previous[x] /\ bm[x] = u.bitmap[x]
  BY <1>2 DEF SlabState, Link
<1> HIDE DEF first, nx, pr, bm, al
<1>5. /\ v \in SlabState /\ v.next = nx /\ v.previous = pr /\ v.bitmap = bm
      /\ v.allocated = al
      /\ v.first_partial_chunk = first /\ v.first_full_chunk = u.first_full_chunk
  BY <1>2, <1>4 DEF SlabState
<1> HIDE DEF v
<1>6. Links(v, D \ {c})
  BY <1>2, <1>4, <1>5, SameLinks
<1>7. \A x \in D \ {c} : v.bitmap[x] = s.bitmap[x]
  BY <1>2, <1>4, <1>5 DEF Rebit
<1>8. FullHead(v, D \ {c})
  BY <1>1, <1>2, <1>4, <1>5, <1>7 DEF FullHead
<1>9. PartialHead(v, D \ {c})
  <2>1. s.first_partial_chunk = c =>
          /\ first = s.next[c]
          /\ first # NULL => /\ first \in D \ {c} /\ u.previous[first] = NULL
                             /\ s.bitmap[first] # {}
    BY <1>1, <1>2, SlabAssumption DEF PartialHead, first
  <2>2. s.first_partial_chunk # c =>
          /\ first = s.first_partial_chunk
          /\ first # NULL => /\ first \in D \ {c} /\ u.previous[first] = NULL
                             /\ s.bitmap[first] # {}
    BY <1>1, <1>2 DEF PartialHead, first
  <2> QED BY <1>4, <1>5, <1>7, <2>1, <2>2 DEF PartialHead
<1>10. D \ {c} \subseteq v.allocated
  BY <1>1, <1>2, <1>5 DEF al
<1> QED BY <1>3, <1>5, <1>6, <1>7, <1>8, <1>9, <1>10 DEF Sound
-----------------------------------------------------------------------------
(* The actions *)

(* A chunk that changes its bitmap and not its kind stays where it is. *)
LEMMA SameKind ==
  ASSUME NEW D \in SUBSET Chunk, NEW s, NEW t, NEW c \in D, Sound(s, D), Rebit(s, t, c),
         s.bitmap[c] # {}, t.bitmap[c] # {}
  PROVE  Sound(t, D)
<1>1. /\ t \in SlabState /\ t.next = s.next /\ t.previous = s.previous
      /\ t.first_partial_chunk = s.first_partial_chunk
      /\ t.first_full_chunk = s.first_full_chunk /\ t.allocated = s.allocated
      /\ \A x \in D \ {c} : t.bitmap[x] = s.bitmap[x]
  BY DEF Rebit
<1>2. \A x \in D : (t.bitmap[x] = {}) <=> (s.bitmap[x] = {})
  BY <1>1
<1>3. Links(t, D)
  BY <1>1, <1>2, SMTT(60) DEF Sound, Links
<1>4. PartialHead(t, D) /\ FullHead(t, D)
  BY <1>1, <1>2 DEF Sound, PartialHead, FullHead
<1> QED BY <1>1, <1>3, <1>4 DEF Sound

(* FillSlot adds one entry, in a slot that was free. *)
LEMMA Filled ==
  ASSUME NEW D \in SUBSET Chunk, NEW s, NEW c \in D, Good(s, D, live),
         s.bitmap[c] # {}, FillSlot(s, c),
         \A x \in D \ {c} : \E b \in Bit : <<x, b>> \in live
  PROVE  Inv'
<1> DEFINE bit == CHOOSE b \in s.bitmap[c] : \A d \in s.bitmap[c] : b <= d
           t == [s EXCEPT !.bitmap[c] = @ \ {bit}]
<1>1. Sound(s, D) /\ Entries(s, D, live) /\ s \in SlabState
  BY DEF Good, Sound
<1>2. s.bitmap[c] \in SUBSET Bit /\ Bit \subseteq Nat
  BY <1>1, SlabAssumption DEF SlabState, Bit
<1>3. bit \in s.bitmap[c]
  <2>1. \E b \in s.bitmap[c] : \A d \in s.bitmap[c] : b <= d
    BY <1>2, LeastNat
  <2> QED BY <2>1
<1>4. slab' = (IF t.bitmap[c] = {} THEN MoveToFull(t, c) ELSE t)
      /\ live' = live \cup {<<c, bit>>}
  BY DEF FillSlot
<1> HIDE DEF bit
<1>5. Rebit(s, t, c) /\ t.bitmap[c] = s.bitmap[c] \ {bit}
  <2> DEFINE B == s.bitmap[c] \ {bit}
  <2>1. B \in SUBSET Bit /\ c \in Chunk
    BY <1>2
  <2>2. t = [s EXCEPT !.bitmap[c] = B]
    OBVIOUS
  <2> HIDE DEF B, t
  <2>3. Rebit(s, t, c) /\ t.bitmap[c] = B
    BY <1>1, <2>1, <2>2, NewBits
  <2> QED BY <2>3 DEF B
<1> HIDE DEF t
<1>6. bit \in Bit
  BY <1>2, <1>3
<1>7. Entries(t, D, live')
  <2>1. live' \subseteq D \X Bit
    BY <1>1, <1>4, <1>6 DEF Entries
  <2>2. ASSUME NEW x \in D, NEW b \in Bit PROVE <<x, b>> \in live' <=> b \notin t.bitmap[x]
    <3>1. <<x, b>> \in live' <=> (<<x, b>> \in live \/ (x = c /\ b = bit))
      BY <1>4
    <3>2. <<x, b>> \in live <=> b \notin s.bitmap[x]
      BY <1>1 DEF Entries
    <3>3. x # c => t.bitmap[x] = s.bitmap[x]
      BY <1>5 DEF Rebit
    <3> QED BY <1>5, <3>1, <3>2, <3>3
  <2> QED BY <2>1, <2>2 DEF Entries
<1>8. Sound(slab', D) /\ slab'.bitmap = t.bitmap
  <2>1. CASE t.bitmap[c] = {}
    <3>1. Sound(MoveToFull(t, c), D) /\ MoveToFull(t, c).bitmap = t.bitmap
      <4>1. s.bitmap[c] # {}
        OBVIOUS
      <4> QED BY <1>1, <1>5, <2>1, <4>1, MovedToFull
    <3>2. slab' = MoveToFull(t, c)
      BY <1>4, <2>1
    <3> QED BY <3>1, <3>2
  <2>2. CASE t.bitmap[c] # {}
    BY <1>1, <1>4, <1>5, <2>2, SameKind
  <2> QED BY <2>1, <2>2
<1>9. Good(slab', D, live')
  BY <1>7, <1>8 DEF Good, Entries
<1>10. Owned(live') = D
  <2>1. \A x \in D : \E b \in Bit : <<x, b>> \in live'
    BY <1>4, <1>6
  <2>2. \A x, b : <<x, b>> \in live' => x \in D
    BY <1>7 DEF Entries
  <2> QED BY <2>1, <2>2 DEF Owned
<1> QED BY <1>9, <1>10 DEF Inv

(* An entry is added to the first partial chunk. *)
LEMMA PartialStep == ASSUME Inv, AddToPartial PROVE Inv'
<1> DEFINE D == Owned(live)
           c == slab.first_partial_chunk
<1>1. Good(slab, D, live) /\ D \in SUBSET Chunk
  BY DEF Inv, Owned
<1>2. c # NULL /\ FillSlot(slab, c)
  BY DEF AddToPartial
<1>3. c \in D /\ slab.bitmap[c] # {}
  BY <1>1, <1>2 DEF Good, Sound, PartialHead
<1>4. \A x \in D \ {c} : \E b \in Bit : <<x, b>> \in live
  BY DEF Owned
<1> HIDE DEF D, c
<1> QED BY <1>1, <1>2, <1>3, <1>4, Filled

(* A new chunk is a list of its own, all of it free. *)
LEMMA NewChunk ==
  ASSUME NEW D \in SUBSET Chunk, NEW s, NEW L, Good(s, D, L),
         NEW c \in Chunk, c \notin s.allocated, s.first_partial_chunk = NULL
  PROVE  /\ Good(PushPartial(new_slab_chunk(s, c), c), D \cup {c}, L)
         /\ PushPartial(new_slab_chunk(s, c), c).bitmap[c] # {}
<1> DEFINE nx == [s.next EXCEPT ![c] = NULL]
           pr == [s.previous EXCEPT ![c] = NULL]
           bm == [s.bitmap EXCEPT ![c] = Bit]
           al == s.allocated \cup {c}
           v == [s EXCEPT !.bitmap = bm, !.next = nx, !.previous = pr, !.allocated = al]
           m == PushPartial(v, c)
<1>1. /\ s \in SlabState /\ D \subseteq s.allocated /\ Links(s, D)
      /\ PartialHead(s, D) /\ FullHead(s, D) /\ Entries(s, D, L)
  BY DEF Good, Sound
<1>2. new_slab_chunk(s, c) = v
  BY <1>1 DEF new_slab_chunk, SlabState
<1>3. /\ nx \in [Chunk -> Link] /\ pr \in [Chunk -> Link]
      /\ bm \in [Chunk -> SUBSET Bit] /\ al \in SUBSET Chunk /\ bm[c] = Bit
      /\ \A x \in D : nx[x] = s.next[x] /\ pr[x] = s.previous[x] /\ bm[x] = s.bitmap[x]
  BY <1>1 DEF SlabState, Link
<1> HIDE DEF nx, pr, bm, al
<1>4. /\ v \in SlabState /\ v.next = nx /\ v.previous = pr /\ v.bitmap = bm
      /\ v.allocated = al
      /\ v.first_partial_chunk = NULL /\ v.first_full_chunk = s.first_full_chunk
  BY <1>1, <1>3 DEF SlabState
<1> HIDE DEF v
<1>5. Links(v, D)
  BY <1>1, <1>3, <1>4, SameLinks
<1>6. /\ Pushed(v, m, c, NULL) /\ m.first_partial_chunk = c
      /\ m.first_full_chunk = s.first_full_chunk
  BY <1>4, PushedPartial
<1> HIDE DEF m
<1>7. /\ Links(m, D \cup {c}) /\ m.previous[c] = NULL
      /\ \A x \in D : x # NULL => m.previous[x] = v.previous[x]
  <2>1. Fits(v, c, NULL, D) /\ NULL \in Link /\ c \in Chunk \ D
    BY <1>1 DEF Fits, Link
  <2>2. Headed(v, m, c, NULL, D)
    BY <1>4, <1>5, <1>6, <2>1, PushedLinks
  <2> QED BY <2>2 DEF Headed
<1>8. m \in SlabState /\ m.bitmap = bm /\ m.allocated = al
  BY <1>4, <1>6 DEF Pushed
<1>9. 0 \in Bit
  BY SlabAssumption DEF Bit
<1>10. PartialHead(m, D \cup {c}) /\ m.bitmap[c] # {}
  BY <1>3, <1>6, <1>7, <1>8, <1>9 DEF PartialHead
<1>11. FullHead(m, D \cup {c})
  BY <1>1, <1>3, <1>4, <1>6, <1>7, <1>8 DEF FullHead
<1>12. Entries(m, D \cup {c}, L)
  <2>1. L \subseteq (D \cup {c}) \X Bit
    BY <1>1 DEF Entries
  <2>2. ASSUME NEW b \in Bit PROVE <<c, b>> \notin L /\ b \in m.bitmap[c]
    BY <1>1, <1>3, <1>8 DEF Entries
  <2>3. ASSUME NEW x \in D, NEW b \in Bit PROVE <<x, b>> \in L <=> b \notin m.bitmap[x]
    BY <1>1, <1>3, <1>8 DEF Entries
  <2> QED BY <2>1, <2>2, <2>3 DEF Entries
<1>13. D \cup {c} \subseteq m.allocated
  BY <1>1, <1>8 DEF al
<1>14. PushPartial(new_slab_chunk(s, c), c) = m
  BY <1>2 DEF m
<1> QED BY <1>7, <1>8, <1>10, <1>11, <1>12, <1>13, <1>14 DEF Good, Sound

(* An entry is added to a new chunk. *)
LEMMA NewChunkStep == ASSUME Inv, AddToNewChunk PROVE Inv'
<1> DEFINE D == Owned(live)
<1>1. Good(slab, D, live) /\ D \in SUBSET Chunk
  BY DEF Inv, Owned
<1>2. PICK c \in Chunk \ slab.allocated :
        FillSlot(PushPartial(new_slab_chunk(slab, c), c), c)
  BY DEF AddToNewChunk
<1> DEFINE s == PushPartial(new_slab_chunk(slab, c), c)
<1>3. Good(s, D \cup {c}, live) /\ s.bitmap[c] # {}
  BY <1>1, NewChunk DEF AddToNewChunk
<1>4. \A x \in (D \cup {c}) \ {c} : \E b \in Bit : <<x, b>> \in live
  BY DEF Owned
<1>5. D \cup {c} \in SUBSET Chunk /\ c \in D \cup {c}
  BY <1>1
<1>6. FillSlot(s, c)
  BY <1>2
<1> HIDE DEF D, s
<1> QED BY <1>3, <1>4, <1>5, <1>6, Filled

(* An entry is removed, and its chunk moved or freed. *)
LEMMA RemoveStep ==
  ASSUME Inv, NEW c \in Chunk, NEW bit \in Bit, remove_entry_from_slab(c, bit)
  PROVE  Inv'
<1> DEFINE D == Owned(live)
           t == [slab EXCEPT !.bitmap[c] = @ \cup {bit}]
           m == IF slab.bitmap[c] = {} THEN MoveToPartial(t, c) ELSE t
<1>1. Sound(slab, D) /\ Entries(slab, D, live) /\ slab \in SlabState /\ D \in SUBSET Chunk
  BY DEF Inv, Good, Sound, Owned
<1>2. /\ <<c, bit>> \in live /\ live' = live \ {<<c, bit>>}
      /\ slab' = IF m.bitmap[c] = Bit THEN FreeChunk(m, c) ELSE m
  BY DEF remove_entry_from_slab
<1>3. c \in D /\ bit \notin slab.bitmap[c]
  BY <1>1, <1>2 DEF Entries
<1>4. \A x \in D : \E b \in Bit : <<x, b>> \in live
  BY DEF Owned
<1> HIDE DEF D
<1>5. Rebit(slab, t, c) /\ t.bitmap[c] = slab.bitmap[c] \cup {bit}
  <2> DEFINE B == slab.bitmap[c] \cup {bit}
  <2>1. B \in SUBSET Bit
    BY <1>1 DEF SlabState
  <2>2. t = [slab EXCEPT !.bitmap[c] = B]
    OBVIOUS
  <2> HIDE DEF B, t
  <2>3. Rebit(slab, t, c) /\ t.bitmap[c] = B
    BY <1>1, <2>1, <2>2, NewBits
  <2> QED BY <2>3 DEF B
<1> HIDE DEF t
<1>6. ASSUME NEW x \in D, NEW b \in Bit
      PROVE  <<x, b>> \in live' <=> b \notin t.bitmap[x]
  <2>1. <<x, b>> \in live' <=> (<<x, b>> \in live /\ ~(x = c /\ b = bit))
    BY <1>2
  <2>2. <<x, b>> \in live <=> b \notin slab.bitmap[x]
    BY <1>1 DEF Entries
  <2>3. x # c => t.bitmap[x] = slab.bitmap[x]
    BY <1>1, <1>5 DEF Rebit
  <2> QED BY <1>5, <2>1, <2>2, <2>3
<1>7. live' \subseteq D \X Bit
  BY <1>1, <1>2 DEF Entries
<1>8. \A x \in D \ {c} : \E b \in Bit : <<x, b>> \in live'
  BY <1>2, <1>4
<1>9. CASE slab.bitmap[c] = {}
  <2>1. m = MoveToPartial(t, c) /\ t.bitmap[c] = {bit}
    BY <1>5, <1>9
  <2>2. Sound(m, D) /\ m.bitmap = t.bitmap
    BY <1>1, <1>3, <1>5, <1>9, <2>1, MovedToPartial
  <2> HIDE DEF m
  <2>3. PICK other \in Bit : other # bit
    <3>1. 0 \in Bit /\ 1 \in Bit
      BY SlabAssumption DEF Bit
    <3> QED BY <3>1
  <2>4. slab' = m
    BY <1>2, <2>1, <2>2, <2>3
  <2>5. Good(slab', D, live')
    BY <1>6, <1>7, <2>2, <2>4 DEF Good, Entries
  <2>6. <<c, other>> \in live'
    BY <1>3, <1>6, <2>1, <2>3
  <2>7. Owned(live') = D
    <3>1. \A x \in D : \E b \in Bit : <<x, b>> \in live'
      BY <1>8, <2>6
    <3> QED BY <1>1, <1>7, <3>1 DEF Owned
  <2> QED BY <2>5, <2>7 DEF Inv
<1>10. CASE slab.bitmap[c] # {} /\ t.bitmap[c] = Bit
  <2>1. slab' = FreeChunk(t, c)
    BY <1>2, <1>10
  <2>2. Sound(slab', D \ {c}) /\ \A x \in D \ {c} : slab'.bitmap[x] = slab.bitmap[x]
    <3>1. /\ Sound(FreeChunk(t, c), D \ {c})
          /\ \A x \in D \ {c} : FreeChunk(t, c).bitmap[x] = slab.bitmap[x]
      BY <1>1, <1>3, <1>5, <1>10, FreedChunk
    <3> QED BY <2>1, <3>1
  <2>3. \A b \in Bit : <<c, b>> \notin live'
    BY <1>3, <1>6, <1>10
  <2>4. live' \subseteq (D \ {c}) \X Bit
    BY <1>7, <2>3
  <2>5. \A x \in D \ {c} : slab'.bitmap[x] = t.bitmap[x]
    BY <1>1, <1>5, <2>2 DEF Rebit
  <2>6. Good(slab', D \ {c}, live')
    BY <1>6, <2>2, <2>4, <2>5 DEF Good, Entries
  <2>7. Owned(live') = D \ {c}
    BY <1>1, <1>8, <2>4 DEF Owned
  <2> QED BY <2>6, <2>7 DEF Inv
<1>11. CASE slab.bitmap[c] # {} /\ t.bitmap[c] # Bit
  <2>1. slab' = t
    BY <1>2, <1>11
  <2>2. Sound(slab', D)
    BY <1>1, <1>3, <1>5, <1>11, <2>1, SameKind
  <2>3. Good(slab', D, live')
    BY <1>6, <1>7, <2>1, <2>2 DEF Good, Entries
  <2>4. PICK other \in Bit : other \notin t.bitmap[c]
    <3>1. t.bitmap[c] \in SUBSET Bit
      BY <1>5 DEF Rebit, SlabState
    <3> QED BY <1>11, <3>1
  <2>5. <<c, other>> \in live'
    BY <1>3, <1>6, <2>4
  <2>6. Owned(live') = D
    <3>1. \A x \in D : \E b \in Bit : <<x, b>> \in live'
      BY <1>8, <2>5
    <3> QED BY <1>1, <1>7, <3>1 DEF Owned
  <2> QED BY <2>3, <2>6 DEF Inv
<1> QED BY <1>9, <1>10, <1>11

(* A slab starts without entries. *)
LEMMA FreshSlab ==
  ASSUME NEW A \in SUBSET Chunk, NEW s,
         s = [init_slab EXCEPT !.allocated = A] \/ s = init_slab
  PROVE  Good(s, Owned({}), {})
<1>1. /\ s \in SlabState /\ s.first_partial_chunk = NULL /\ s.first_full_chunk = NULL
  <2>1. CASE s = init_slab
    BY <2>1 DEF init_slab, SlabState, Link
  <2>2. CASE s = [init_slab EXCEPT !.allocated = A]
    BY <2>2 DEF init_slab, SlabState, Link
  <2> QED BY <2>1, <2>2
<1>2. Owned({}) = {}
  BY DEF Owned
<1> QED BY <1>1, <1>2 DEF Good, Sound, Links, PartialHead, FullHead, Entries

(***************************************************************************)
(* Good, with the chunks that hold entries for D, is inductive.            *)
(***************************************************************************)
THEOREM SlabInvariant == Spec => []Inv
<1>1. Init => Inv
  <2> SUFFICES ASSUME Init PROVE Inv
    OBVIOUS
  <2>1. slab = init_slab /\ live = {} /\ {} \in SUBSET Chunk
    BY DEF Init
  <2> QED BY <2>1, FreshSlab DEF Inv
<1>2. Inv /\ [Next]_vars => Inv'
  <2> SUFFICES ASSUME Inv, [Next]_vars PROVE Inv'
    OBVIOUS
  <2>1. CASE free_slab
    <3> DEFINE A == slab.allocated \ (OnList(Partial) \cup OnList(Full))
    <3>1. slab' = [init_slab EXCEPT !.allocated = A] /\ live' = {}
      BY <2>1 DEF free_slab
    <3>2. A \in SUBSET Chunk
      BY DEF Inv, Good, Sound, SlabState
    <3> HIDE DEF A
    <3>3. Good(slab', Owned({}), {})
      BY <3>1, <3>2, FreshSlab
    <3> QED BY <3>1, <3>3 DEF Inv
  <2>2. CASE UNCHANGED vars
    BY <2>2 DEF vars, Inv
  <2> QED BY <2>1, <2>2, PartialStep, NewChunkStep, RemoveStep DEF Next, add_entry_to_slab
<1> QED BY <1>1, <1>2, PTL DEF Spec

(***************************************************************************)
(* Links point at chunks and bitmaps at slots of a chunk.                  *)
(***************************************************************************)
THEOREM SlabTypes == Spec => []TypeOK
<1>1. Inv => TypeOK
  BY DEF Inv, Good, Sound, SlabState, Link, Entries, Owned, TypeOK
<1> QED BY <1>1, SlabInvariant, PTL

(***************************************************************************)
(* The links of chunks with entries lead to chunks with entries of the     *)
(* same kind and back, a chunk that add_entry_to_slab made unreachable     *)
(* included, and no list starts at a freed chunk.                          *)
(***************************************************************************)
THEOREM LinksAreSound == Spec => []WellLinked
<1>1. Inv => WellLinked
  <2> SUFFICES ASSUME Inv PROVE WellLinked
    OBVIOUS
  <2>1. Sound(slab, Owned(live))
    BY DEF Inv, Good
  <2>2. ASSUME NEW c \in Owned(live)
        PROVE  /\ c \in slab.allocated
               /\ slab.next[c] # NULL =>
                    /\ slab.next[c] \in slab.allocated
                    /\ slab.previous[slab.next[c]] = c
                    /\ (slab.bitmap[slab.next[c]] = {}) <=> (slab.bitmap[c] = {})
               /\ slab.previous[c] # NULL => slab.next[slab.previous[c]] = c
    BY <2>1 DEF Sound, Links
  <2>3. ASSUME NEW c \in {slab.first_partial_chunk, slab.first_full_chunk} \ {NULL}
        PROVE  c \in slab.allocated /\ slab.previous[c] = NULL
    BY <2>1 DEF Sound, PartialHead, FullHead
  <2> QED BY <2>2, <2>3 DEF WellLinked, Owned
<1> QED BY <1>1, SlabInvariant, PTL

(***************************************************************************)
(* add_entry_to_slab takes a free slot of an allocated chunk, and an entry *)
(* keeps its slot until it is removed: no step frees a chunk with entries. *)
(***************************************************************************)
THEOREM EntriesKeepTheirSlots == Spec => []SlotsAreOwned
<1>1. Inv => SlotsAreOwned
  <2> SUFFICES ASSUME Inv PROVE SlotsAreOwned
    OBVIOUS
  <2> DEFINE D == Owned(live)
  <2>1. Sound(slab, D) /\ Entries(slab, D, live)
    BY DEF Inv, Good
  <2> HIDE DEF D
  <2>2. ASSUME NEW e \in live
        PROVE  e[1] \in slab.allocated /\ e[2] \notin slab.bitmap[e[1]]
    <3>1. e[1] \in D /\ e[2] \in Bit /\ e = <<e[1], e[2]>>
      BY <2>1 DEF Entries
    <3>2. <<e[1], e[2]>> \in live
      BY <3>1
    <3> QED BY <2>1, <3>1, <3>2 DEF Sound, Entries
  <2>3. /\ slab.first_partial_chunk # NULL => slab.bitmap[slab.first_partial_chunk] # {}
        /\ slab.first_full_chunk # NULL => slab.bitmap[slab.first_full_chunk] = {}
    BY <2>1 DEF Sound, PartialHead, FullHead
  <2> QED BY <2>2, <2>3 DEF SlotsAreOwned
<1> QED BY <1>1, SlabInvariant, PTL
-----------------------------------------------------------------------------
(* Walks along the lists *)

N == Cardinality(Chunk)

(* w is the walk from first. *)
Walks(s, first, w) ==
    /\ w \in [0 .. N -> Link]
    /\ w[0] = first
    /\ \A i \in 1 .. N : w[i] = IF w[i - 1] = NULL THEN NULL ELSE s.next[w[i - 1]]

(* The number of chunks is finite. *)
LEMMA SizeOfSlab == N \in Nat
  BY SlabAssumption, FS_CardinalityType DEF N

(* The recursive function that Walk defines exists, and it is the walk. *)
LEMMA WalkExists ==
  ASSUME NEW s \in SlabState, NEW first \in Link
  PROVE  Walks(s, first, Walk(s, first))
<1> DEFINE step == [x \in Link |-> IF x = NULL THEN NULL ELSE s.next[x]]
           Body(f) == [i \in 0 .. N |-> IF i = 0 THEN first
                          ELSE IF f[i - 1] = NULL THEN NULL ELSE s.next[f[i - 1]]]
           w == CHOOSE f : f = Body(f)
<1>1. step \in [Link -> Link]
  BY DEF SlabState, Link
<1>2. \A x \in Link : step[x] = IF x = NULL THEN NULL ELSE s.next[x]
  OBVIOUS
<1> HIDE DEF step
<1>9. PICK g : Iteration(g, Link, first, step, N)
  BY <1>1, SizeOfSlab, Iterates
<1>8. /\ g \in [0 .. N -> Link] /\ g[0] = first
      /\ \A i \in 1 .. N : g[i] = step[g[i - 1]]
  BY <1>9 DEF Iteration
<1>3. g = Body(g)
  <2>1. ASSUME NEW i \in 0 .. N
        PROVE  g[i] = IF i = 0 THEN first
                      ELSE IF g[i - 1] = NULL THEN NULL ELSE s.next[g[i - 1]]
    <3>1. CASE i = 0
      BY <1>8, <3>1
    <3>2. CASE i # 0
      <4>1. i \in 1 .. N /\ i - 1 \in 0 .. N
        BY <3>2, SizeOfSlab
      <4> QED BY <1>2, <1>8, <3>2, <4>1
    <3> QED BY <3>1, <3>2
  <2> QED BY <1>8, <2>1
<1>4. w = Body(w)
  BY <1>3
<1>5. Walk(s, first) = w
  BY DEF Walk, N
<1> HIDE DEF w
<1>6. /\ w[0] = first
      /\ \A i \in 1 .. N : w[i] = IF w[i - 1] = NULL THEN NULL ELSE s.next[w[i - 1]]
      /\ w = [i \in 0 .. N |-> w[i]]
  <2>1. \A i \in 0 .. N : w[i] = IF i = 0 THEN first
                          ELSE IF w[i - 1] = NULL THEN NULL ELSE s.next[w[i - 1]]
    BY <1>4
  <2>2. w = [i \in 0 .. N |-> w[i]]
    BY <1>4
  <2>3. 0 \in 0 .. N /\ \A i \in 1 .. N : i \in 0 .. N /\ i # 0
    BY SizeOfSlab
  <2> QED BY <2>1, <2>2, <2>3
<1>7. \A i \in 0 .. N : w[i] \in Link
  <2> DEFINE Bad == {i \in 0 .. N : w[i] \notin Link}
  <2>1. ASSUME Bad # {} PROVE FALSE
    <3>1. PICK m \in Bad : \A i \in Bad : m <= i
      <4>1. Bad \in SUBSET Nat
        BY SizeOfSlab
      <4> QED BY <2>1, <4>1, LeastNat
    <3>2. m # 0
      BY <1>6, <3>1
    <3>3. m \in 1 .. N /\ m - 1 \in 0 .. N /\ ~(m <= m - 1)
      BY <3>1, <3>2, SizeOfSlab
    <3>4. w[m - 1] \in Link
      BY <3>1, <3>3
    <3>5. w[m] \in Link
      BY <1>6, <3>3, <3>4 DEF SlabState, Link
    <3> QED BY <3>1, <3>5
  <2> QED BY <2>1
<1> QED BY <1>5, <1>6, <1>7 DEF Walks

(* An empty list has no chunk. *)
LEMMA EmptyWalk ==
  ASSUME NEW s, NEW first, NEW w, Walks(s, first, w), NEW k \in 0 .. N, w[k] # NULL
  PROVE  first # NULL
<1> SUFFICES ASSUME first = NULL PROVE FALSE
  OBVIOUS
<1> DEFINE Bad == {i \in 0 .. N : w[i] # NULL}
<1>1. Bad \in SUBSET Nat /\ Bad # {}
  BY SizeOfSlab
<1>2. PICK m \in Bad : \A i \in Bad : m <= i
  <2> HIDE DEF Bad
  <2> QED BY <1>1, LeastNat
<1>3. m # 0
  BY <1>2 DEF Walks
<1>4. m \in 1 .. N /\ m - 1 \in 0 .. N /\ ~(m <= m - 1)
  BY <1>2, <1>3, SizeOfSlab
<1>5. w[m - 1] = NULL
  BY <1>2, <1>4
<1>6. w[m] = NULL
  BY <1>4, <1>5 DEF Walks
<1> QED BY <1>2, <1>6

(* From a chunk of D without predecessor the walk stays in D and among     *)
(* chunks of a kind, meets none twice, and has ended after N steps.        *)
Straight(s, D, first, w) ==
    /\ \A i \in 0 .. N : w[i] # NULL =>
          w[i] \in D /\ ((s.bitmap[w[i]] = {}) <=> (s.bitmap[first] = {}))
    /\ \A i, j \in 0 .. N : w[i] = w[j] /\ w[i] # NULL => i = j
    /\ w[N] = NULL

(* A walk from a head meets no chunk twice: the previous link leads back,  *)
(* so the first chunk that is met again would be the head.                 *)
LEMMA WalkIsStraight ==
  ASSUME NEW D \in SUBSET Chunk, NEW s, Sound(s, D), NEW first \in Link, NEW w,
         first # NULL => first \in D /\ s.previous[first] = NULL,
         Walks(s, first, w)
  PROVE  Straight(s, D, first, w)
<1>1. N \in Nat /\ NULL \notin D
  BY SizeOfSlab, SlabAssumption
<1>2. /\ w \in [0 .. N -> Link] /\ w[0] = first
      /\ \A i \in 1 .. N : w[i] = IF w[i - 1] = NULL THEN NULL ELSE s.next[w[i - 1]]
  BY DEF Walks
<1>3. Links(s, D)
  BY DEF Sound
<1> DEFINE P(i) == w[i] # NULL =>
                     w[i] \in D /\ ((s.bitmap[w[i]] = {}) <=> (s.bitmap[first] = {}))
<1>4. \A i \in 0 .. N : P(i)
  <2> DEFINE Bad == {i \in 0 .. N : ~P(i)}
  <2>1. ASSUME Bad # {} PROVE FALSE
    <3>1. PICK m \in Bad : \A i \in Bad : m <= i
      <4>1. Bad \in SUBSET Nat
        BY <1>1
      <4> HIDE DEF Bad
      <4> QED BY <2>1, <4>1, LeastNat
    <3>2. m # 0
      BY <1>2, <3>1
    <3>3. m \in 1 .. N /\ m - 1 \in 0 .. N /\ ~(m <= m - 1)
      BY <1>1, <3>1, <3>2
    <3>4. P(m - 1)
      BY <3>1, <3>3
    <3>5. ASSUME w[m] # NULL PROVE P(m)
      <4>1. w[m - 1] # NULL /\ w[m] = s.next[w[m - 1]]
        BY <1>2, <3>3, <3>5
      <4> QED BY <1>3, <3>4, <3>5, <4>1 DEF Links
    <3> QED BY <3>1, <3>5
  <2> QED BY <2>1
<1> HIDE DEF P
(* Where the walk has not ended it came from the predecessor. *)
<1>5. ASSUME NEW i \in 1 .. N, w[i] # NULL
      PROVE  i - 1 \in 0 .. N /\ w[i - 1] # NULL /\ s.previous[w[i]] = w[i - 1]
  <2>1. i - 1 \in 0 .. N
    BY <1>1
  <2>2. w[i - 1] # NULL /\ w[i] = s.next[w[i - 1]]
    BY <1>2, <1>5
  <2>3. w[i - 1] \in D
    BY <1>4, <2>1, <2>2 DEF P
  <2> QED BY <1>3, <1>5, <2>1, <2>2, <2>3 DEF Links
<1> DEFINE Twice == {i \in 0 .. N : \E j \in 0 .. N : i < j /\ w[i] = w[j] /\ w[i] # NULL}
<1>6. ASSUME Twice # {} PROVE FALSE
  <2>1. PICK m \in Twice : \A i \in Twice : m <= i
    <3>1. Twice \in SUBSET Nat
      BY <1>1
    <3> HIDE DEF Twice
    <3> QED BY <1>6, <3>1, LeastNat
  <2>2. PICK j \in 0 .. N : m < j /\ w[m] = w[j] /\ w[m] # NULL
    BY <2>1
  <2>3. m \in 0 .. N /\ j \in 1 .. N
    BY <1>1, <2>1, <2>2
  <2>4. j - 1 \in 0 .. N /\ w[j - 1] # NULL /\ s.previous[w[j]] = w[j - 1]
    BY <1>5, <2>2, <2>3
  <2>5. CASE m = 0
    BY <1>2, <2>2, <2>4, <2>5
  <2>6. CASE m # 0
    <3>1. m \in 1 .. N /\ m - 1 < j - 1 /\ ~(m <= m - 1)
      BY <1>1, <2>2, <2>3, <2>6
    <3>2. m - 1 \in 0 .. N /\ w[m - 1] # NULL /\ s.previous[w[m]] = w[m - 1]
      BY <1>5, <2>2, <3>1
    <3>3. m - 1 \in Twice
      BY <2>2, <2>4, <3>1, <3>2
    <3> QED BY <2>1, <3>1, <3>3
  <2> QED BY <2>5, <2>6
<1>7. \A i, j \in 0 .. N : w[i] = w[j] /\ w[i] # NULL => i = j
  <2>1. ASSUME NEW i \in 0 .. N, NEW j \in 0 .. N, w[i] = w[j], w[i] # NULL, i # j
        PROVE  FALSE
    <3>1. i < j \/ j < i
      BY <1>1, <2>1
    <3>2. i \in Twice \/ j \in Twice
      BY <2>1, <3>1
    <3> QED BY <1>6, <3>2
  <2> QED BY <2>1
<1> HIDE DEF Twice
<1>8. ASSUME w[N] # NULL PROVE FALSE
  <2> DEFINE Ended == {k \in 0 .. N : w[N - k] = NULL}
  <2>1. ASSUME Ended # {} PROVE FALSE
    <3>1. PICK m \in Ended : \A k \in Ended : m <= k
      <4>1. Ended \in SUBSET Nat
        BY <1>1
      <4> HIDE DEF Ended
      <4> QED BY <2>1, <4>1, LeastNat
    <3>2. m \in 0 .. N /\ m # 0
      BY <1>1, <1>8, <3>1
    <3>3. /\ m - 1 \in 0 .. N /\ ~(m <= m - 1) /\ N - (m - 1) \in 1 .. N
          /\ (N - (m - 1)) - 1 = N - m
      BY <1>1, <3>2
    <3>4. w[N - (m - 1)] # NULL
      BY <3>1, <3>3
    <3>5. w[N - m] # NULL
      BY <1>5, <3>3, <3>4
    <3> QED BY <3>1, <3>5
  <2>2. ASSUME NEW i \in 0 .. N PROVE w[i] \in Chunk
    <3>1. N - i \in 0 .. N /\ N - (N - i) = i
      BY <1>1
    <3>2. w[i] # NULL
      BY <2>1, <3>1
    <3> QED BY <1>2, <3>2 DEF Link
  <2>3. w \in [0 .. N -> Chunk]
    BY <1>2, <2>2
  <2>4. IsFiniteSet(0 .. N) /\ Cardinality(0 .. N) = N + 1
    BY <1>1, FS_Interval
  <2>5. PICK i, j \in 0 .. N : i # j /\ w[i] = w[j]
    <3>1. Cardinality(Chunk) < Cardinality(0 .. N)
      BY <1>1, <2>4 DEF N
    <3> QED BY <2>3, <2>4, <3>1, FS_PigeonHole, SlabAssumption, ZenonT(60)
  <2>6. w[i] # NULL
    BY <2>2, SlabAssumption
  <2> QED BY <1>7, <2>5, <2>6
<1> QED BY <1>4, <1>7, <1>8 DEF Straight, P

(***************************************************************************)
(* slab_foreach meets no chunk twice and ends, on lists of any length, and *)
(* what it calls back for are entries.                                     *)
(***************************************************************************)
THEOREM ForeachMeetsEntriesOnce == Spec => []ForeachSound
<1>1. Inv => ForeachSound
  <2> SUFFICES ASSUME Inv PROVE ForeachSound
    OBVIOUS
  <2> DEFINE D == Owned(live)
             fp == slab.first_partial_chunk
             ff == slab.first_full_chunk
  <2>1. Sound(slab, D) /\ Entries(slab, D, live) /\ D \in SUBSET Chunk
    BY DEF Inv, Good, Owned
  <2>2. /\ slab \in SlabState /\ fp \in Link /\ ff \in Link
        /\ PartialHead(slab, D) /\ FullHead(slab, D)
    BY <2>1 DEF Sound, SlabState
  <2> HIDE DEF D
  <2>3. /\ fp # NULL => fp \in D /\ slab.previous[fp] = NULL /\ slab.bitmap[fp] # {}
        /\ ff # NULL => ff \in D /\ slab.previous[ff] = NULL /\ slab.bitmap[ff] = {}
    BY <2>2 DEF PartialHead, FullHead
  <2>4. Walks(slab, fp, Partial) /\ Walks(slab, ff, Full)
    BY <2>2, WalkExists DEF Partial, Full
  <2>5. /\ DOMAIN Partial = 0 .. N /\ DOMAIN Full = 0 .. N
        /\ Partial[0] = fp /\ Full[0] = ff
    BY <2>4 DEF Walks
  <2>6. Straight(slab, D, fp, Partial) /\ Straight(slab, D, ff, Full)
    BY <2>1, <2>2, <2>3, <2>4, WalkIsStraight
  <2>7. ASSUME NEW c \in OnList(Partial) PROVE c \in D /\ slab.bitmap[c] # {}
    <3>1. PICK i \in 0 .. N : c = Partial[i] /\ c # NULL
      BY <2>5 DEF OnList
    <3>2. c \in D /\ ((slab.bitmap[c] = {}) <=> (slab.bitmap[fp] = {}))
      BY <2>6, <3>1 DEF Straight
    <3>3. fp # NULL
      BY <2>2, <2>4, <3>1, EmptyWalk
    <3> QED BY <2>3, <3>2, <3>3
  <2>8. ASSUME NEW c \in OnList(Full) PROVE c \in D /\ slab.bitmap[c] = {}
    <3>1. PICK i \in 0 .. N : c = Full[i] /\ c # NULL
      BY <2>5 DEF OnList
    <3>2. c \in D /\ ((slab.bitmap[c] = {}) <=> (slab.bitmap[ff] = {}))
      BY <2>6, <3>1 DEF Straight
    <3>3. ff # NULL
      BY <2>2, <2>4, <3>1, EmptyWalk
    <3> QED BY <2>3, <3>2, <3>3
  <2>9. OnList(Partial) \cap OnList(Full) = {}
    BY <2>7, <2>8
  <2>10. slab_foreach \subseteq live
    <3> SUFFICES ASSUME NEW e \in slab_foreach PROVE e \in live
      OBVIOUS
    <3>1. /\ e = <<e[1], e[2]>> /\ e[2] \in Bit /\ e[2] \notin slab.bitmap[e[1]]
          /\ e[1] \in OnList(Partial) \cup OnList(Full)
      BY DEF slab_foreach
    <3>2. e[1] \in D
      BY <2>7, <2>8, <3>1
    <3>3. <<e[1], e[2]>> \in live
      BY <2>1, <3>1, <3>2 DEF Entries
    <3> QED BY <3>1, <3>3
  <2>11. /\ Partial[Cardinality(Chunk)] = NULL /\ Full[Cardinality(Chunk)] = NULL
    BY <2>6 DEF Straight, N
  <2>12. /\ \A i, j \in DOMAIN Partial : Partial[i] = Partial[j] /\ Partial[i] # NULL => i = j
         /\ \A i, j \in DOMAIN Full : Full[i] = Full[j] /\ Full[i] # NULL => i = j
    BY <2>5, <2>6 DEF Straight
  <2> QED BY <2>9, <2>10, <2>11, <2>12 DEF ForeachSound
<1> QED BY <1>1, SlabInvariant, PTL
=============================================================================
