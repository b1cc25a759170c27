-------------------------------- MODULE Slab --------------------------------
(***************************************************************************)
(* The slab allocator of slab.c, which holds the layers, the expiration    *)
(* dates, the points of a quadtree bucket and the replication clients.     *)
(* Entries live in chunks of NbSlots slots; a chunk with room is on the    *)
(* partial list, one without on the full list, and one without entries is  *)
(* freed.  slab_foreach, the only way to find a layer by its name, walks   *)
(* the two lists.  The chunks are addresses that malloc hands out, and     *)
(* hands out again once they are freed; a bitmap is the set of free slots. *)
(***************************************************************************)
EXTENDS Integers, FiniteSets

CONSTANTS Chunk,     \* addresses of chunks
          NbSlots,   \* nb_slots_per_chunk: the bits of an unsigned long
          NULL

ASSUME SlabAssumption == /\ IsFiniteSet(Chunk) /\ NULL \notin Chunk
                         /\ NbSlots \in Nat /\ NbSlots >= 2

VARIABLES slab,      \* the slab and its chunks
          live       \* history: <<chunk, bit>> of the entries not removed

vars == <<slab, live>>

Bit == 0 .. NbSlots - 1

(* What malloc leaves in a chunk nobody owns is of no interest. *)
init_slab == [bitmap   |-> [c \in Chunk |-> {}],
              next     |-> [c \in Chunk |-> NULL],
              previous |-> [c \in Chunk |-> NULL],
              first_partial_chunk |-> NULL,
              first_full_chunk    |-> NULL,
              allocated |-> {}]

Init == slab = init_slab /\ live = {}

(* The neighbours of a chunk are linked to each other; it keeps its own    *)
(* links.                                                                  *)
Unlink(s, c) ==
    [s EXCEPT
       !.next = [x \in Chunk |-> IF x = s.previous[c] THEN s.next[c] ELSE s.next[x]],
       !.previous = [x \in Chunk |-> IF x = s.next[c] THEN s.previous[c]
                                                      ELSE s.previous[x]]]

(* Mutant: the former head of the list gets no predecessor. *)
PushPartial_NoBackLink(s, c) ==
    [s EXCEPT !.next[c] = s.first_partial_chunk, !.previous[c] = NULL,
              !.first_partial_chunk = c]

(* The chunk becomes the head of the partial, or of the full list. *)
PushPartial(s, c) ==
    [s EXCEPT
       !.next[c] = s.first_partial_chunk,
       !.previous = [x \in Chunk |-> IF x = s.first_partial_chunk THEN c
                                     ELSE IF x = c THEN NULL ELSE s.previous[x]],
       !.first_partial_chunk = c]

PushFull(s, c) ==
    [s EXCEPT
       !.next[c] = s.first_full_chunk,
       !.previous = [x \in Chunk |-> IF x = s.first_full_chunk THEN c
                                     ELSE IF x = c THEN NULL ELSE s.previous[x]],
       !.first_full_chunk = c]
-----------------------------------------------------------------------------
(* new_slab_chunk: every slot is free. *)
new_slab_chunk(s, c) == [s EXCEPT !.bitmap[c] = Bit,
                                  !.next[c] = NULL, !.previous[c] = NULL,
                                  !.allocated = @ \cup {c}]

(* Mutant: a filled chunk stays at the head of the partial list. *)
MoveToFull_StaysPartial(s, c) == PushFull(Unlink(s, c), c)

(* A chunk that add_entry_to_slab filled: first_partial_chunk becomes NULL *)
(* when the chunk was the first, whatever followed it.                     *)
MoveToFull(s, c) ==
    LET u == Unlink(s, c)
    IN  PushFull([u EXCEPT !.first_partial_chunk =
                              IF u.first_partial_chunk = c THEN NULL ELSE @], c)

(* Mutant: the slot is located before ffsl's result, which counts from 1,  *)
(* is decremented.                                                         *)
FillSlot_LateDecrement(s, c) ==
    LET bit == CHOOSE b \in s.bitmap[c] : \A d \in s.bitmap[c] : b <= d
        t == [s EXCEPT !.bitmap[c] = @ \ {bit}]
    IN  /\ slab' = IF t.bitmap[c] = {} THEN MoveToFull(t, c) ELSE t
        /\ live' = live \cup {<<c, bit + 1>>}

(* Takes the slot of the lowest bit that is set. *)
FillSlot(s, c) ==
    LET bit == CHOOSE b \in s.bitmap[c] : \A d \in s.bitmap[c] : b <= d
        t == [s EXCEPT !.bitmap[c] = @ \ {bit}]
    IN  /\ slab' = IF t.bitmap[c] = {} THEN MoveToFull(t, c) ELSE t
        /\ live' = live \cup {<<c, bit>>}

(* add_entry_to_slab uses the first partial chunk, or a new one. *)
AddToPartial == /\ slab.first_partial_chunk # NULL
                /\ FillSlot(slab, slab.first_partial_chunk)

AddToNewChunk == /\ slab.first_partial_chunk = NULL
                 /\ \E c \in Chunk \ slab.allocated :
                      FillSlot(PushPartial(new_slab_chunk(slab, c), c), c)

add_entry_to_slab == AddToPartial \/ AddToNewChunk

(* A chunk that was full and lost an entry. *)
MoveToPartial(s, c) ==
    LET u == Unlink(s, c)
    IN  PushPartial([u EXCEPT !.first_full_chunk =
                               IF u.first_full_chunk = c THEN u.next[c] ELSE @], c)

(* Mutant: the neighbours of a freed chunk keep their links to it. *)
FreeChunk_KeepsLinks(s, c) ==
    [s EXCEPT !.first_partial_chunk = IF @ = c THEN s.next[c] ELSE @,
              !.next[c] = NULL, !.previous[c] = NULL,
              !.bitmap[c] = {},
              !.allocated = @ \ {c}]

(* A chunk without entries; it is not in the full list. *)
FreeChunk(s, c) ==
    LET u == Unlink(s, c)
    IN  [u EXCEPT !.first_partial_chunk = IF @ = c THEN u.next[c] ELSE @,
                  !.next[c] = NULL, !.previous[c] = NULL,
                  !.bitmap[c] = {},
                  !.allocated = @ \ {c}]

remove_entry_from_slab(c, bit) ==
    /\ <<c, bit>> \in live
    /\ LET t == [slab EXCEPT !.bitmap[c] = @ \cup {bit}]
           m == IF slab.bitmap[c] = {} THEN MoveToPartial(t, c) ELSE t
       IN  slab' = IF m.bitmap[c] = Bit THEN FreeChunk(m, c) ELSE m
    /\ live' = live \ {<<c, bit>>}
-----------------------------------------------------------------------------
(* The chunks of a list by position, NULL past its end. *)
Walk(s, first) ==
    LET w[i \in 0 .. Cardinality(Chunk)] ==
          IF i = 0 THEN first ELSE IF w[i - 1] = NULL THEN NULL ELSE s.next[w[i - 1]]
    IN  w

Partial == Walk(slab, slab.first_partial_chunk)
Full == Walk(slab, slab.first_full_chunk)
OnList(w) == {w[i] : i \in DOMAIN w} \ {NULL}

(* What slab_foreach calls back for: the slots whose bit is clear. *)
slab_foreach ==
    {e \in (OnList(Partial) \cup OnList(Full)) \X Bit : e[2] \notin slab.bitmap[e[1]]}

(* free_slab frees the chunks that are on a list; the entries were freed   *)
(* one by one by slab_foreach.  A bucket's slab is then set up again.      *)
free_slab == /\ slab.allocated # {}
             /\ slab' = [init_slab EXCEPT
                           !.allocated = slab.allocated
                                         \ (OnList(Partial) \cup OnList(Full))]
             /\ live' = {}

Next == \/ add_entry_to_slab
        \/ \E c \in Chunk, b \in Bit : remove_entry_from_slab(c, b)
        \/ free_slab

Spec == Init /\ [][Next]_vars
-----------------------------------------------------------------------------
(* Links point at chunks, and bitmaps at the slots of a chunk. *)
TypeOK ==
    /\ slab.bitmap \in [Chunk -> SUBSET Bit]
    /\ slab.next \in [Chunk -> Chunk \cup {NULL}]
    /\ slab.previous \in [Chunk -> Chunk \cup {NULL}]
    /\ slab.first_partial_chunk \in Chunk \cup {NULL}
    /\ slab.first_full_chunk \in Chunk \cup {NULL}
    /\ slab.allocated \subseteq Chunk
    /\ live \subseteq Chunk \X Bit

(***************************************************************************)
(* The links are sound in every chunk that is still allocated, even in one *)
(* that fell off its list: they lead to allocated chunks of the same kind  *)
(* and back, and the chunk at a head has no predecessor, as the asserts of *)
(* slab.c say.  A freed chunk is never linked to.                          *)
(***************************************************************************)
WellLinked ==
    /\ \A c \in {d \in Chunk : \E b \in Bit : <<d, b>> \in live} :
         /\ c \in slab.allocated
         /\ slab.next[c] # NULL =>
              /\ slab.next[c] \in slab.allocated
              /\ slab.previous[slab.next[c]] = c
              /\ slab.bitmap[slab.next[c]] = {} <=> slab.bitmap[c] = {}
         /\ slab.previous[c] # NULL => slab.next[slab.previous[c]] = c
    /\ \A c \in {slab.first_partial_chunk, slab.first_full_chunk} \ {NULL} :
         c \in slab.allocated /\ slab.previous[c] = NULL

(***************************************************************************)
(* slab_foreach calls back for entries only, each of them once: it meets   *)
(* no chunk twice, ends, and a slot it takes for an entry was added and    *)
(* not removed since.                                                      *)
(***************************************************************************)
ForeachSound ==
    /\ \A w \in {Partial, Full} :
         /\ w[Cardinality(Chunk)] = NULL
         /\ \A i, j \in DOMAIN w : w[i] = w[j] /\ w[i] # NULL => i = j
    /\ OnList(Partial) \cap OnList(Full) = {}
    /\ slab_foreach \subseteq live

(***************************************************************************)
(* An entry keeps its slot until it is removed: add_entry_to_slab takes a  *)
(* slot that is free (its assert(bit > 0)), and removing another entry,    *)
(* though it may free a chunk, never frees one with entries.               *)
(***************************************************************************)
SlotsAreOwned ==
    /\ \A e \in live : e[1] \in slab.allocated /\ e[2] \notin slab.bitmap[e[1]]
    /\ slab.first_partial_chunk # NULL => slab.bitmap[slab.first_partial_chunk] # {}
    /\ slab.first_full_chunk # NULL => slab.bitmap[slab.first_full_chunk] = {}

(* README: "Retrieving registered layers".  Every entry is found. *)
ForeachComplete == live \subseteq slab_foreach
=============================================================================
