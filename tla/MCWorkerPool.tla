---------------------------- MODULE MCWorkerPool ----------------------------
(* Two workers, so that one can be busy, asleep or gone while the other    *)
(* runs.  No symmetry: the runs check liveness.                            *)
EXTENDS WorkerPool, TLC
=============================================================================
