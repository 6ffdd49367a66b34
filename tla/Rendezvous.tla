----------------------------- MODULE Rendezvous -----------------------------
(***************************************************************************)
(* What barriers promise.  A plan names, for each barrier in turn, the     *)
(* threads that take part.  A thread comes to the barriers it takes part   *)
(* in one after the other, and leaves one when all who take part in it     *)
(* have come.                                                              *)
(***************************************************************************)
EXTENDS Naturals, Sequences

CONSTANT Threads

VARIABLES
  plan,     \* for each barrier, who takes part
  passed,   \* the last barrier a thread has left, or 0
  inside    \* whether a thread is in a barrier

rendezvousVars == <<plan, passed, inside>>

(* The barriers a thread has before it, and whether it stands in barrier k *)
(* or has left it.                                                         *)
Ahead(t) == {k \in DOMAIN plan : k > passed[t] /\ t \in plan[k]}
NextOne(t, k) == k \in Ahead(t) /\ \A j \in Ahead(t) : k <= j
HasCome(t, k) == passed[t] >= k \/ (inside[t] /\ NextOne(t, k))

RendezvousInit ==
  /\ plan \in Seq(SUBSET Threads)
  /\ passed = [t \in Threads |-> 0]
  /\ inside = [t \in Threads |-> FALSE]

Arrive(t) ==
  /\ ~ inside[t] /\ Ahead(t) # {}
  /\ inside' = [inside EXCEPT ![t] = TRUE]
  /\ UNCHANGED <<plan, passed>>

Leave(t) ==
  /\ inside[t]
  /\ \E k \in Ahead(t) :
       /\ NextOne(t, k)
       /\ \A u \in plan[k] : HasCome(u, k)
       /\ passed' = [passed EXCEPT ![t] = k]
  /\ inside' = [inside EXCEPT ![t] = FALSE]
  /\ UNCHANGED plan

RendezvousNext == \E t \in Threads : Arrive(t) \/ Leave(t)
RendezvousSpec == RendezvousInit /\ [][RendezvousNext]_rendezvousVars
=============================================================================
