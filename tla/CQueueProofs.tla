---------------------------- MODULE CQueueProofs ----------------------------
(***************************************************************************)
(* For every ring size of at least two and every set of operations: the    *)
(* ring of cqueue.c keeps its structure and is a bounded first-in          *)
(* first-out queue.  RingInv is inductive: the types, the two pointers     *)
(* being NULL together, and pushed operations in all the slots between     *)
(* them.                                                                   *)
(***************************************************************************)
EXTENDS CQueue, SequenceTheorems, TLAPS

RingInv == TypeOK /\ RingConsistent

(* A slot's successor is a slot, and the successor relation never stays. *)
LEMMA NextSlotFact ==
  ASSUME NEW s \in Slot
  PROVE  NextSlot(s) \in Slot /\ NextSlot(s) # s
  BY NbElementsAssumption DEF NextSlot, Slot, CqueueEnd

(* The number of queued operations never exceeds the ring. *)
LEMMA CountFact ==
  ASSUME TypeOK, RingConsistent
  PROVE  /\ Count \in 0 .. NbElements
         /\ (Count = 0) <=> (first_element = NoSlot)
         /\ \A i \in 1 .. Count : SlotOf(i) \in Slot
  BY NbElementsAssumption, NoSlotAssumption
  DEF TypeOK, RingConsistent, Count, SlotOf, Slot

(* Count and the mapping of queue positions to slots after each call. *)
LEMMA PushFirstStep ==
  ASSUME RingInv, NEW e \in Element, PushFirst(e)
  PROVE  /\ Count = 0
         /\ Count' = 1
         /\ SlotOf(1)' = 0
         /\ cqueue' \in [Slot -> Element \cup {Garbage}]
         /\ cqueue'[0] = e
         /\ first_element' = 0 /\ last_element' = 0
  BY NbElementsAssumption, NoSlotAssumption
  DEF RingInv, TypeOK, RingConsistent, PushFirst, Count, SlotOf, Slot

(* A push behind the last element keeps the elements that are there. *)
LEMMA PushNextStep ==
  ASSUME RingInv, NEW e \in Element, PushNext(e)
  PROVE  /\ Count < NbElements
         /\ Count > 0
         /\ Count' = Count + 1
         /\ \A i \in 1 .. Count + 1 : SlotOf(i)' = SlotOf(i)
         /\ SlotOf(Count + 1) = NextSlot(last_element)
         /\ \A i \in 1 .. Count : SlotOf(i) # NextSlot(last_element)
         /\ NextSlot(last_element) \in Slot
         /\ first_element' = first_element
         /\ first_element # NoSlot
         /\ last_element' = NextSlot(last_element)
         /\ cqueue' = [cqueue EXCEPT ![NextSlot(last_element)] = e]
<1> USE NbElementsAssumption, NoSlotAssumption
<1>1. /\ first_element \in Slot /\ last_element \in Slot
      /\ first_element' = first_element
      /\ last_element' = NextSlot(last_element)
      /\ cqueue' = [cqueue EXCEPT ![NextSlot(last_element)] = e]
      /\ NextSlot(last_element) # first_element
      /\ NextSlot(last_element) \in Slot
  BY NextSlotFact DEF RingInv, TypeOK, RingConsistent, PushNext
<1>2. QED
  BY <1>1 DEF Count, SlotOf, NextSlot, Slot, CqueueEnd

(* A shift moves each element one place forward. *)
LEMMA ShiftNextStep ==
  ASSUME RingInv, ShiftNext
  PROVE  /\ Count > 1
         /\ Count' = Count - 1
         /\ SlotOf(1) = first_element
         /\ \A i \in 1 .. Count - 1 : SlotOf(i)' = SlotOf(i + 1)
         /\ first_element \in Slot
         /\ first_element' = NextSlot(first_element)
         /\ first_element' \in Slot
         /\ last_element' = last_element
         /\ last_element \in Slot
         /\ cqueue' = cqueue
<1> USE NbElementsAssumption, NoSlotAssumption
<1>1. /\ first_element \in Slot /\ last_element \in Slot
      /\ last_element' = last_element
      /\ first_element' = NextSlot(first_element)
      /\ cqueue' = cqueue
      /\ last_element # first_element
      /\ NextSlot(first_element) \in Slot
  BY NextSlotFact DEF RingInv, TypeOK, RingConsistent, ShiftNext
<1>2. QED
  BY <1>1 DEF Count, SlotOf, NextSlot, Slot, CqueueEnd

(* The shift of the only element leaves the queue empty. *)
LEMMA ShiftLastStep ==
  ASSUME RingInv, ShiftLast
  PROVE  /\ Count = 1
         /\ Count' = 0
         /\ SlotOf(1) = first_element
  BY NbElementsAssumption, NoSlotAssumption
  DEF RingInv, TypeOK, RingConsistent, ShiftLast, Count, SlotOf, Slot
-----------------------------------------------------------------------------
(***************************************************************************)
(* The types and the ring's structure (pointers NULL together, every slot  *)
(* between them holding a pushed operation) hold after every sequence of   *)
(* push_cqueue and shift_cqueue calls.                                     *)
(***************************************************************************)
LEMMA RingInvInit == init_cqueue => RingInv
  BY NbElementsAssumption, NoSlotAssumption
  DEF init_cqueue, RingInv, TypeOK, RingConsistent, Count, Slot

(* The ring stays consistent, one operation at a time. *)
LEMMA RingInvStep == RingInv /\ [Next]_vars => RingInv'
<1> USE NbElementsAssumption, NoSlotAssumption
<1> SUFFICES ASSUME RingInv, [Next]_vars PROVE RingInv'
  OBVIOUS
<1>1. ASSUME NEW e \in Element, PushFirst(e) PROVE RingInv'
  <2>1. TypeOK'
    BY <1>1, PushFirstStep DEF PushFirst, TypeOK, RingInv, Slot
  <2>2. RingConsistent'
    BY <1>1, PushFirstStep DEF RingConsistent
  <2> QED BY <2>1, <2>2 DEF RingInv
<1>2. ASSUME NEW e \in Element, PushNext(e) PROVE RingInv'
  <2>1. TypeOK'
    BY <1>2, PushNextStep DEF PushNext, TypeOK, RingInv
  <2>2. \A i \in 1 .. Count' : cqueue'[SlotOf(i)'] \in Element
    <3> SUFFICES ASSUME NEW i \in 1 .. Count + 1
                 PROVE  cqueue'[SlotOf(i)] \in Element
      BY <1>2, PushNextStep
    <3>1. CASE i = Count + 1
      BY <1>2, <3>1, PushNextStep DEF RingInv, TypeOK
    <3>2. CASE i # Count + 1
      <4>1. i \in 1 .. Count
        BY <3>2, CountFact DEF RingInv
      <4>2. cqueue'[SlotOf(i)] = cqueue[SlotOf(i)]
        BY <1>2, <4>1, PushNextStep, CountFact DEF RingInv, TypeOK
      <4> QED BY <4>1, <4>2 DEF RingInv, RingConsistent
    <3> QED BY <3>1, <3>2
  <2>3. first_element' # NoSlot /\ last_element' # NoSlot
    BY <1>2, PushNextStep DEF Slot
  <2> QED BY <2>1, <2>2, <2>3 DEF RingInv, RingConsistent
<1>3. ASSUME NEW e \in Element, PushFull(e) PROVE RingInv'
  BY <1>3 DEF PushFull, RingInv, TypeOK, RingConsistent, Count, SlotOf
<1>4. CASE ShiftEmpty
  BY <1>4 DEF ShiftEmpty, RingInv, TypeOK, RingConsistent, Count, SlotOf
<1>5. CASE ShiftLast
  <2>1. ret' \in Element
    BY <1>5, ShiftLastStep DEF ShiftLast, RingInv, RingConsistent
  <2>2. TypeOK'
    BY <1>5, <2>1 DEF ShiftLast, RingInv, TypeOK
  <2>3. RingConsistent'
    BY <1>5, ShiftLastStep DEF ShiftLast, RingConsistent
  <2> QED BY <2>2, <2>3 DEF RingInv
<1>6. CASE ShiftNext
  <2>1. ret' \in Element
    BY <1>6, ShiftNextStep, CountFact DEF ShiftNext, RingInv, RingConsistent
  <2>2. TypeOK'
    BY <1>6, <2>1, ShiftNextStep DEF RingInv, TypeOK
  <2>3. \A i \in 1 .. Count' : cqueue'[SlotOf(i)'] \in Element
    <3> SUFFICES ASSUME NEW i \in 1 .. Count - 1
                 PROVE  cqueue[SlotOf(i + 1)] \in Element
      BY <1>6, ShiftNextStep
    <3>1. i + 1 \in 1 .. Count
      BY CountFact DEF RingInv
    <3> QED BY <3>1 DEF RingInv, RingConsistent
  <2>4. first_element' # NoSlot /\ last_element' # NoSlot
    BY <1>6, ShiftNextStep DEF Slot
  <2> QED BY <2>2, <2>3, <2>4 DEF RingInv, RingConsistent
<1>7. CASE UNCHANGED vars
  BY <1>7 DEF vars, RingInv, TypeOK, RingConsistent, Count, SlotOf
<1> QED
  BY <1>1, <1>2, <1>3, <1>4, <1>5, <1>6, <1>7
  DEF Next, push_cqueue, shift_cqueue

(* push_cqueue and shift_cqueue keep their types for every ring size. *)
THEOREM CQueueTypeOK == Spec => []TypeOK
<1>1. RingInv => TypeOK
  BY DEF RingInv
<1> QED BY <1>1, RingInvInit, RingInvStep, PTL DEF Spec

(* Neither call ever leaves a hole or garbage between the two pointers. *)
THEOREM CQueueConsistent == Spec => []RingConsistent
<1>1. RingInv => RingConsistent
  BY DEF RingInv
<1> QED BY <1>1, RingInvInit, RingInvStep, PTL DEF Spec
-----------------------------------------------------------------------------
(* Queued as the lemmas below see it: a sequence of operations. *)
LEMMA QueuedFact ==
  ASSUME RingInv
  PROVE  /\ Queued \in Seq(Element)
         /\ Len(Queued) = Count
         /\ \A i \in 1 .. Count : Queued[i] = cqueue[SlotOf(i)]
  BY CountFact DEF RingInv, RingConsistent, Queued

(***************************************************************************)
(* The ring of cqueue.c implements the bounded first-in first-out queue    *)
(* the dispatcher and the workers rely on, for every ring size: a push is  *)
(* refused exactly when NbElements operations are queued, and operations   *)
(* are shifted in the order they were pushed, none lost, none twice.       *)
(***************************************************************************)
THEOREM CQueueIsFifo == Spec => FifoSpec
<1> USE NbElementsAssumption, NoSlotAssumption
<1>1. init_cqueue => Fifo!Init
  BY DEF init_cqueue, Fifo!Init, Queued, Count
<1>2. RingInv /\ [Next]_vars => [Fifo!Next]_<<Queued, ret>>
  <2> SUFFICES ASSUME RingInv, [Next]_vars
               PROVE  [Fifo!Next]_<<Queued, ret>>
    OBVIOUS
  <2>0. RingInv'
    BY RingInvStep
  <2>1. ASSUME NEW e \in Element, PushFirst(e) PROVE Fifo!Push(e)
    <3>1. Queued = << >>
      BY <2>1, PushFirstStep, QueuedFact
    <3>2. Queued' = [i \in 1 .. 1 |-> e]
      BY <2>1, PushFirstStep DEF Queued
    <3> QED BY <2>1, <3>1, <3>2 DEF Fifo!Push, PushFirst
  <2>2. ASSUME NEW e \in Element, PushNext(e) PROVE Fifo!Push(e)
    <3>1. Len(Queued) < NbElements /\ Queued \in Seq(Element)
      BY <2>2, PushNextStep, QueuedFact
    <3>2. Queued' = Append(Queued, e)
      <4>1. Queued' = [i \in 1 .. Count + 1 |-> cqueue'[SlotOf(i)]]
        BY <2>2, PushNextStep DEF Queued
      <4>2. \A i \in 1 .. Count : cqueue'[SlotOf(i)] = Queued[i]
        BY <2>2, PushNextStep, QueuedFact, CountFact DEF RingInv, TypeOK
      <4>3. cqueue'[SlotOf(Count + 1)] = e
        BY <2>2, PushNextStep DEF RingInv, TypeOK
      <4>4. Count \in Nat /\ Len(Queued) = Count
        BY QueuedFact, CountFact DEF RingInv
      <4>5. Queued' \in Seq(Element) /\ Len(Queued') = Count + 1
        <5>1. \A i \in 1 .. Count + 1 : cqueue'[SlotOf(i)] \in Element
          BY <2>0, <2>2, PushNextStep DEF RingInv, RingConsistent
        <5> QED BY <4>1, <4>4, <5>1
      <4>6. /\ Append(Queued, e) \in Seq(Element)
            /\ Len(Append(Queued, e)) = Count + 1
            /\ \A i \in 1 .. Count : Append(Queued, e)[i] = Queued[i]
            /\ Append(Queued, e)[Count + 1] = e
        BY <3>1, <4>4
      <4>7. \A i \in 1 .. Count + 1 : Queued'[i] = Append(Queued, e)[i]
        BY <4>1, <4>2, <4>3, <4>4, <4>6
      <4> QED BY <4>5, <4>6, <4>7, SeqEqual
    <3> QED BY <2>2, <3>1, <3>2 DEF Fifo!Push, PushNext
  <2>3. ASSUME NEW e \in Element, PushFull(e) PROVE Fifo!Push(e)
    <3>1. Queued' = Queued
      BY <2>3 DEF PushFull, Queued, Count, SlotOf
    <3>2. Count = NbElements
      BY <2>3 DEF PushFull, Count, NextSlot, CqueueEnd, RingInv, TypeOK,
                  RingConsistent, Slot
    <3> QED BY <2>3, <3>1, <3>2, QueuedFact DEF Fifo!Push, PushFull
  <2>4. CASE ShiftEmpty
    <3>1. Queued = << >> /\ Queued' = Queued
      BY <2>4 DEF ShiftEmpty, Queued, Count, SlotOf
    <3> QED BY <2>4, <3>1 DEF Fifo!Next, Fifo!Shift, ShiftEmpty
  <2>5. CASE ShiftLast
    <3>1. Queued \in Seq(Element) /\ Len(Queued) = 1
      BY <2>5, QueuedFact, ShiftLastStep
    <3>2. Head(Queued) = cqueue[first_element]
      BY <2>5, <3>1, QueuedFact, ShiftLastStep
    <3>3. Queued' = << >>
      BY <2>5, <2>0, ShiftLastStep DEF Queued
    <3>4. Queued # << >> /\ Tail(Queued) = << >>
      <4>1. Queued # << >>
        BY <3>1
      <4>2. Tail(Queued) \in Seq(Element) /\ Len(Tail(Queued)) = 0
        BY <3>1, <4>1, HeadTailProperties
      <4> QED BY <4>1, <4>2, EmptySeq, SeqEqual
    <3> QED BY <2>5, <3>2, <3>3, <3>4 DEF Fifo!Next, Fifo!Shift, ShiftLast
  <2>6. CASE ShiftNext
    <3>1. Queued \in Seq(Element) /\ Len(Queued) = Count /\ Count > 1
      BY <2>6, QueuedFact, ShiftNextStep
    <3>2. Head(Queued) = cqueue[first_element]
      BY <2>6, <3>1, QueuedFact, ShiftNextStep
    <3>3. Queued' = [i \in 1 .. Count - 1 |-> cqueue[SlotOf(i + 1)]]
      BY <2>6, ShiftNextStep DEF Queued
    <3>7. Queued # << >>
      BY <3>1
    <3>4. /\ Tail(Queued) \in Seq(Element)
          /\ Len(Tail(Queued)) = Count - 1
          /\ \A i \in 1 .. Count - 1 : Tail(Queued)[i] = Queued[i + 1]
      BY <3>1, <3>7, HeadTailProperties
    <3>5. \A i \in 1 .. Count - 1 : Queued[i + 1] = cqueue[SlotOf(i + 1)]
      BY <3>1, QueuedFact, CountFact DEF RingInv
    <3>6. Queued' = Tail(Queued)
      <4>1. \A i \in 1 .. Count - 1 : cqueue[SlotOf(i + 1)] \in Element
        BY <2>0, <2>6, ShiftNextStep DEF RingInv, RingConsistent
      <4>2. Queued' \in Seq(Element) /\ Len(Queued') = Count - 1
        BY <3>1, <3>3, <4>1, CountFact DEF RingInv
      <4>3. \A i \in 1 .. Count - 1 : Queued'[i] = Tail(Queued)[i]
        BY <3>3, <3>4, <3>5
      <4> QED BY <3>4, <4>2, <4>3, SeqEqual
    <3> QED BY <2>6, <3>2, <3>6, <3>7 DEF Fifo!Next, Fifo!Shift, ShiftNext
  <2>7. CASE UNCHANGED vars
    BY <2>7 DEF vars, Queued, Count, SlotOf
  <2> QED
    BY <2>1, <2>2, <2>3, <2>4, <2>5, <2>6, <2>7
    DEF Next, push_cqueue, shift_cqueue, Fifo!Next
<1> QED
  BY <1>1, <1>2, RingInvInit, RingInvStep, PTL DEF Spec, FifoSpec, Fifo!Spec
=============================================================================
