------------------------------- MODULE CQueue -------------------------------
(***************************************************************************)
(* cqueue.c: the ring of NbElements slots through which the event-loop     *)
(* thread hands operations to the workers.  Pointers into the malloc'ed    *)
(* area are slot numbers 0..NbElements-1 (cqueue_end is the last one) and  *)
(* NULL is NoSlot.  A slot keeps its stale bytes after it was shifted, as  *)
(* in the code, so the ring can never tell a live slot from a dead one by  *)
(* its contents.                                                           *)
(***************************************************************************)
EXTENDS Naturals, Sequences

CONSTANTS NbElements,   \* slots of the ring (MaxQueuedReplies)
          Element,      \* the operations (Op structures)
          NoSlot,       \* the NULL of first_element and last_element
          Null,         \* shift_cqueue's NULL
          Stored,       \* push_cqueue's 0
          Refused,      \* push_cqueue's -1
          Garbage       \* what malloc left in a slot never written

(***************************************************************************)
(* init_cqueue fails when it is asked for fewer than two elements.         *)
(***************************************************************************)
ASSUME NbElementsAssumption == NbElements \in Nat /\ NbElements >= 2
ASSUME NoSlotAssumption == NoSlot \notin Nat
ASSUME ResultsAssumption == Garbage \notin Element

VARIABLES cqueue,          \* the slots
          first_element,   \* slot to shift next, or NoSlot
          last_element,    \* slot pushed last, or NoSlot
          ret              \* what the last call returned

vars == <<cqueue, first_element, last_element, ret>>

Slot == 0 .. NbElements - 1
CqueueEnd == NbElements - 1

(* Mutant: the end of the area is not a wrap-around. *)
NextSlot_NoWrap(s) == s + 1

(* The slot after s, the area being a ring. *)
NextSlot(s) == IF s # CqueueEnd THEN s + 1 ELSE 0

init_cqueue == /\ cqueue = [s \in Slot |-> Garbage]
               /\ first_element = NoSlot
               /\ last_element = NoSlot
               /\ ret = Stored

(* push_cqueue into an empty ring starts over at the area's first slot. *)
PushFirst(e) == /\ last_element = NoSlot
                /\ first_element' = 0
                /\ last_element' = 0
                /\ cqueue' = [cqueue EXCEPT ![0] = e]
                /\ ret' = Stored

(* Mutant: the full ring is not recognised. *)
PushNext_NoFullTest(e) == /\ last_element # NoSlot
                          /\ cqueue' = [cqueue EXCEPT ![NextSlot(last_element)] = e]
                          /\ last_element' = NextSlot(last_element)
                          /\ ret' = Stored
                          /\ UNCHANGED first_element

PushNext(e) == LET new_element == NextSlot(last_element)
               IN  /\ last_element # NoSlot
                   /\ new_element # first_element
                   /\ cqueue' = [cqueue EXCEPT ![new_element] = e]
                   /\ last_element' = new_element
                   /\ ret' = Stored
                   /\ UNCHANGED first_element

PushFull(e) == /\ last_element # NoSlot
               /\ NextSlot(last_element) = first_element
               /\ ret' = Refused
               /\ UNCHANGED <<cqueue, first_element, last_element>>

push_cqueue(e) == PushFirst(e) \/ PushNext(e) \/ PushFull(e)

ShiftEmpty == /\ first_element = NoSlot
              /\ ret' = Null
              /\ UNCHANGED <<cqueue, first_element, last_element>>

(* Mutant: last_element survives the shift of the only operation. *)
ShiftLast_KeepsLast == /\ first_element # NoSlot
                       /\ first_element = last_element
                       /\ ret' = cqueue[first_element]
                       /\ first_element' = NoSlot
                       /\ UNCHANGED <<cqueue, last_element>>

ShiftLast == /\ first_element # NoSlot
             /\ first_element = last_element
             /\ ret' = cqueue[first_element]
             /\ first_element' = NoSlot
             /\ last_element' = NoSlot
             /\ UNCHANGED cqueue

ShiftNext == /\ first_element # NoSlot
             /\ first_element # last_element
             /\ ret' = cqueue[first_element]
             /\ first_element' = NextSlot(first_element)
             /\ UNCHANGED <<cqueue, last_element>>

shift_cqueue == ShiftEmpty \/ ShiftLast \/ ShiftNext

Next == (\E e \in Element : push_cqueue(e)) \/ shift_cqueue

Spec == init_cqueue /\ [][Next]_vars
-----------------------------------------------------------------------------
(* The number of queued operations, from the two pointers alone. *)
Count == IF first_element = NoSlot THEN 0
         ELSE IF first_element <= last_element
              THEN last_element - first_element + 1
              ELSE last_element - first_element + 1 + NbElements

(* The slot of the i-th queued operation. *)
SlotOf(i) == IF first_element + i - 1 < NbElements
             THEN first_element + i - 1
             ELSE first_element + i - 1 - NbElements

(* The queued operations, oldest first. *)
Queued == [i \in 1 .. Count |-> cqueue[SlotOf(i)]]

(* The two ends of the ring point at its slots (cqueue.c), or are NULL. *)
TypeOK == /\ cqueue \in [Slot -> Element \cup {Garbage}]
          /\ first_element \in Slot \cup {NoSlot}
          /\ last_element \in Slot \cup {NoSlot}
          /\ ret \in Element \cup {Null, Stored, Refused}

(***************************************************************************)
(* The assert of push_cqueue, made two-sided, and what keeps workers from  *)
(* running garbage: the pointers are NULL together, and every slot between *)
(* them holds an operation that was pushed, whatever the wrap-arounds.     *)
(***************************************************************************)
RingConsistent ==
    /\ (first_element = NoSlot) <=> (last_element = NoSlot)
    /\ \A i \in 1 .. Count : cqueue[SlotOf(i)] \in Element

(***************************************************************************)
(* The ring is a first-in first-out queue of capacity NbElements: all the  *)
(* slots are usable although the empty and the full ring have the same     *)
(* distance between their pointers, and operations leave in push order.    *)
(***************************************************************************)
Fifo == INSTANCE BoundedFifo WITH Capacity <- NbElements, q <- Queued
FifoSpec == Fifo!Spec
=============================================================================
