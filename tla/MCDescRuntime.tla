---------------------------- MODULE MCDescRuntime ----------------------------
(***************************************************************************)
(* Two pairs of threads, making any calls of their slices.  The bound      *)
(* keeps three threads at most inside calls and lets values pass through   *)
(* two queues at most, enough for any two calls to meet in any queue.      *)
(***************************************************************************)
EXTENDS DescRuntime, FiniteSets

MaxBusy == 3
MaxUsed == 2

Used(q) == chan[q] # <<>> \/ delivered[q] # None

FewAtOnce ==
  /\ Cardinality({t \in Threads : call[t].stage # "none"}) <= MaxBusy
  /\ Cardinality({q \in Qids : Used(q)}) <= MaxUsed
=============================================================================
