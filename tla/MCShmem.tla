------------------------------- MODULE MCShmem -------------------------------
(* Two or three threads, free to call anything, on one queue or two. *)
EXTENDS ShmemDecoupling, TLC
Symmetry == Permutations(Values)
=============================================================================
