--------------------------- MODULE MCReplication ---------------------------
(* A slave that connects up to three times, with and without its old *)
(* connection noticed by the master; the values are in the .cfg.     *)
EXTENDS Replication
=============================================================================
