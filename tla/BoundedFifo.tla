---------------------------- MODULE BoundedFifo ----------------------------
(***************************************************************************)
(* What Pincaster's dispatcher and workers rely on a CQueue for: a         *)
(* first-in first-out queue of at most Capacity operations.  A push on a   *)
(* full queue is refused and changes nothing; a shift on an empty queue    *)
(* returns Null.  ret is what the last call returned.                      *)
(***************************************************************************)
EXTENDS Naturals, Sequences

CONSTANTS Capacity,   \* operations that fit
          Element,    \* the operations (Op structures)
          Null,       \* returned by a shift on an empty queue
          Stored,     \* returned by a push that stored its operation
          Refused     \* returned by a push on a full queue

VARIABLES q, ret

Init == q = << >> /\ ret = Stored

Push(e) == \/ /\ Len(q) < Capacity
              /\ q' = Append(q, e)
              /\ ret' = Stored
           \/ /\ Len(q) = Capacity
              /\ ret' = Refused
              /\ q' = q

Shift == \/ /\ q # << >>
            /\ ret' = Head(q)
            /\ q' = Tail(q)
         \/ /\ q = << >>
            /\ ret' = Null
            /\ q' = q

Next == (\E e \in Element : Push(e)) \/ Shift

Spec == Init /\ [][Next]_<<q, ret>>
=============================================================================
