------------------------------- MODULE MCSlab -------------------------------
(* Chunks are addresses: permuting them is sound. *)
EXTENDS Slab, TLC

Addresses == Permutations(Chunk)
=============================================================================
