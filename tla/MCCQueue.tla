------------------------------ MODULE MCCQueue ------------------------------
(* The ring with four slots and three operations: several wrap-arounds. *)
EXTENDS CQueue
=============================================================================
