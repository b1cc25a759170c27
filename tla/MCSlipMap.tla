------------------------------ MODULE MCSlipMap ------------------------------
(* Three keys, two short values and a long one. *)
EXTENDS SlipMap

MCKeys == {"a", "b", "cc"}
MCKeyLen == [a |-> 1, b |-> 1, cc |-> 2]
MCValues == {"", "x", "long"}
MCValueLen == [v \in MCValues |-> CASE v = "" -> 0 [] v = "x" -> 1 [] OTHER -> 8]
=============================================================================
