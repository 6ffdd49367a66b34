------------------------------- MODULE MCSync -------------------------------
(***************************************************************************)
(* Three threads.  Barriers: all programs of three barriers, of which the  *)
(* partial ones join all threads or two of them, that the barriers serve,  *)
(* but for the names of the ids.  Atomics: one or two calls of one atomic  *)
(* by all threads, each followed by a barrier.                             *)
(***************************************************************************)
EXTENDS KernelSync

CONSTANTS t1, t2, t3, one, two

MCThreads == {t1, t2, t3}
MCIds == {one, two}

NoArg == [t \in MCThreads |-> 0]
Barrier(what, id, team) ==
  [what |-> what, id |-> id, team |-> team, arg |-> NoArg, expect |-> 0]
Some ==
  {Barrier("simple", b, MCThreads) : b \in MCIds}
  \cup {Barrier("partial", f, team) : f \in MCIds, team \in {MCThreads, {t1, t2}, {t2, t3}}}
  \cup {Barrier("omp", one, MCThreads)}

BarrierPrograms ==
  {p \in [1 .. 3 -> Some] : p[1].id = one /\ Serves(p)}

Atomic(what, args, e) ==
  [what |-> what, id |-> one, team |-> MCThreads, arg |-> args, expect |-> e]
Args == {[NoArg EXCEPT ![t1] = 1, ![t2] = 3, ![t3] = 2], [NoArg EXCEPT ![t1] = 1, ![t2] = 1]}
Ops ==
  {Atomic(op, a, 0) : op \in Loops \cup {"fetch_add"}, a \in Args}
  \cup {Atomic(op, a, e) : op \in {"compare_exchange", "COMPARE_AND_SWAP"},
                           a \in Args, e \in {0, 1}}
After == {Barrier("simple", one, MCThreads), Barrier("partial", one, MCThreads)}

AtomicPrograms ==
  {<<c, b>> : c \in Ops, b \in After}
  \cup {<<c, Barrier("simple", one, MCThreads), [c EXCEPT !.expect = 3], Barrier("omp", one, MCThreads)>> :
          c \in {c \in Ops : c.expect = 0}}

MCSyncPrograms == BarrierPrograms \cup AtomicPrograms

(* The hypothesis of the theorems about barriers holds of every program of *)
(* the run.                                                                *)
ASSUME ProgramsServe == \A p \in MCSyncPrograms : Serves(p)
=============================================================================
