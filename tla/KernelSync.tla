----------------------------- MODULE KernelSync -----------------------------
(***************************************************************************)
(* How the threads of a parallel kernel synchronise: the barriers of       *)
(* RT/include/DECADES.h and utils/DecoupleServer/simple_barrier.h, and the *)
(* atomics of RT/include/dec_atomics.h and desc_DECADES.h.  A program is a *)
(* sequence of calls; every thread makes those it takes part in, one step  *)
(* per access to shared memory.                                            *)
(*                                                                         *)
(* A call is a record: what, the threads that make it (team), for a        *)
(* barrier the fence or barrier_type it uses (id), and for an atomic its   *)
(* operands, arg for each thread and expect for all.                       *)
(*                                                                         *)
(* A definition marked MUTANT is a mistaken version of the one after it,   *)
(* with which a property must fail; it is no part of the model.            *)
(***************************************************************************)
EXTENDS Integers, FiniteSets, SequencesExt

CONSTANTS
  Threads,    \* the threads of the region
  Ids,        \* fences and barrier_types
  Width,      \* how many bits a word has
  SyncPrograms

VARIABLES
  program,
  pos,          \* the last call a thread has completed, or 0
  pc,           \* where in its next call a thread is
  counter, flag, local_sense,         \* simple_barrier
  fences,                             \* DECADES_PARTIAL_BARRIER
  word, tmp,    \* the word the atomics work on, and what a thread read of it
  ret, was      \* history: what the calls returned, and the word when the
                \* last thread came to a barrier

senses == <<counter, flag, local_sense>>
words == <<word, tmp, ret>>
vars == <<program, pos, pc, senses, fences, words, was>>

Barriers == {"simple", "partial", "omp"}
Modulus == 2 ^ Width
Word == 0 .. Modulus - 1
Atomics == {"fetch_add", "fetch_min", "FETCH_MIN", "fetch_add_float", "compare_exchange",
            "COMPARE_AND_SWAP"}
Calls == [what : Barriers \cup Atomics, id : Ids, team : SUBSET Threads,
          arg : [Threads -> Word], expect : Word]

ASSUME SyncAssumption ==
  /\ IsFiniteSet(Threads) /\ Threads # {}
  /\ Width \in Nat \ {0} /\ Modulus \in Nat \ {0}
  /\ SyncPrograms \subseteq Seq(Calls)

Signed(w) == IF w < Modulus \div 2 THEN w ELSE w - Modulus

-----------------------------------------------------------------------------
(* The call a thread is in or makes next, and its end. *)

Ahead(t) == {k \in DOMAIN program : k > pos[t] /\ t \in program[k].team}
Current(t) == CHOOSE k \in Ahead(t) : \A j \in Ahead(t) : k <= j
Ended(t) == Ahead(t) = {}
At(t, what, where) == pc[t] = where /\ ~ Ended(t) /\ program[Current(t)].what = what
CallOf(t) == program[Current(t)]

Goto(t, where) == pc' = [pc EXCEPT ![t] = where] /\ UNCHANGED <<program, pos>>
Done(t) ==
  /\ pos' = [pos EXCEPT ![t] = Current(t)]
  /\ pc' = [pc EXCEPT ![t] = "ready"]
  /\ UNCHANGED program

InBarrier(t, k) == ~ Ended(t) /\ Current(t) = k /\ program[k].what \in Barriers /\ pc[t] # "ready"

(* History: the word as the last thread comes to barrier k.                *)
Note(t) ==
  LET k == Current(t)
  IN  was' = IF \A u \in Threads \ {t} : InBarrier(u, k) THEN [was EXCEPT ![k] = word] ELSE was

-----------------------------------------------------------------------------
(* simple_barrier *)

(* MUTANT: local_sense stays.                                              *)
ArriveUnflipped(t) ==
  /\ At(t, "simple", "ready")
  /\ LET arrived == counter[CallOf(t).id] + 1
     IN  /\ counter' = [counter EXCEPT ![CallOf(t).id] = arrived]
         /\ Goto(t, IF arrived = Cardinality(CallOf(t).team) THEN "reset" ELSE "spin")
  /\ Note(t)
  /\ UNCHANGED <<flag, local_sense, fences, words>>

simple_barrier(t) ==
  /\ At(t, "simple", "ready")
  /\ local_sense' = [local_sense EXCEPT ![t] = 1 - @]
  /\ LET arrived == counter[CallOf(t).id] + 1
     IN  /\ counter' = [counter EXCEPT ![CallOf(t).id] = arrived]
         /\ Goto(t, IF arrived = Cardinality(CallOf(t).team) THEN "reset" ELSE "spin")
  /\ Note(t)
  /\ UNCHANGED <<flag, fences, words>>

(* MUTANT: the counter keeps what it has counted.                          *)
ResetNever(t) ==
  /\ At(t, "simple", "reset")
  /\ Goto(t, "release")
  /\ UNCHANGED <<senses, fences, words, was>>

ResetCounter(t) ==
  /\ At(t, "simple", "reset")
  /\ counter' = [counter EXCEPT ![CallOf(t).id] = 0]
  /\ Goto(t, "release")
  /\ UNCHANGED <<flag, local_sense, fences, words, was>>

StoreFlag(t) ==
  /\ At(t, "simple", "release")
  /\ flag' = [flag EXCEPT ![CallOf(t).id] = local_sense[t]]
  /\ Done(t)
  /\ UNCHANGED <<counter, local_sense, fences, words, was>>

LeaveSpin(t) ==
  /\ At(t, "simple", "spin")
  /\ flag[CallOf(t).id] = local_sense[t]
  /\ Done(t)
  /\ UNCHANGED <<senses, fences, words, was>>

-----------------------------------------------------------------------------
(* DECADES_PARTIAL_BARRIER and DECADES_BARRIER *)

DECADES_PARTIAL_BARRIER(t) ==
  /\ At(t, "partial", "ready")
  /\ fences' = [fences EXCEPT ![CallOf(t).id] = @ + 1]
  /\ Goto(t, "test")
  /\ Note(t)
  /\ UNCHANGED <<senses, words>>

(* MUTANT: one thread may be missing.                                      *)
TestOneShort(t) ==
  /\ At(t, "partial", "test")
  /\ Goto(t, IF fences[CallOf(t).id] < Cardinality(CallOf(t).team) - 1 THEN "zero" ELSE "clear")
  /\ UNCHANGED <<senses, fences, words, was>>

(* while (atomic_load(fence) < nb_threads)                                 *)
TestCount(t) ==
  /\ At(t, "partial", "test")
  /\ Goto(t, IF fences[CallOf(t).id] < Cardinality(CallOf(t).team) THEN "zero" ELSE "clear")
  /\ UNCHANGED <<senses, fences, words, was>>

(* MUTANT: the loop ends with the count only.                              *)
TestNever(t) ==
  /\ At(t, "partial", "zero")
  /\ Goto(t, "test")
  /\ UNCHANGED <<senses, fences, words, was>>

(* if (atomic_load(fence) == 0) break                                      *)
TestZero(t) ==
  /\ At(t, "partial", "zero")
  /\ Goto(t, IF fences[CallOf(t).id] = 0 THEN "clear" ELSE "test")
  /\ UNCHANGED <<senses, fences, words, was>>

ClearFence(t) ==
  /\ At(t, "partial", "clear")
  /\ fences' = [fences EXCEPT ![CallOf(t).id] = 0]
  /\ Done(t)
  /\ UNCHANGED <<senses, words, was>>

(* The barrier of OpenMP joins all threads of the region.                  *)
DECADES_BARRIER(t) ==
  /\ At(t, "omp", "ready")
  /\ Goto(t, "wait")
  /\ Note(t)
  /\ UNCHANGED <<senses, fences, words>>

LeaveBarrier(t) ==
  /\ At(t, "omp", "wait")
  /\ \A u \in Threads : pos[u] >= Current(t) \/ InBarrier(u, Current(t))
  /\ Done(t)
  /\ UNCHANGED <<senses, fences, words, was>>

-----------------------------------------------------------------------------
(* Atomics.  A float is a word of which only the sum is known; here it is  *)
(* the sum modulo 2^Width.                                                 *)

Returns(t, value) ==
  /\ ret' = [ret EXCEPT ![Current(t)] = [@ EXCEPT ![t] = value]]
  /\ tmp' = [tmp EXCEPT ![t] = 0]
  /\ Done(t)
  /\ UNCHANGED <<senses, fences, was>>

Plus(w, v) == (w + v) % Modulus

fetch_add(t) ==
  /\ At(t, "fetch_add", "ready")
  /\ word' = Plus(word, CallOf(t).arg[t])
  /\ Returns(t, word)

compare_exchange(t) ==
  /\ At(t, "compare_exchange", "ready")
  /\ word' = IF word = CallOf(t).expect THEN CallOf(t).arg[t] ELSE word
  /\ Returns(t, IF word = CallOf(t).expect THEN 1 ELSE 0)

(* The loops: what they do with the value v they have read.  A minimum     *)
(* that is no smaller ends the call; dec_atomic_fetch_min compares an int  *)
(* with a uint32_t, so as unsigned numbers, desc_DECADES_FETCH_MIN ints.   *)
Loops == {"fetch_min", "FETCH_MIN", "fetch_add_float"}
Enough(t, v) ==
  \/ CallOf(t).what = "fetch_min" /\ v < CallOf(t).arg[t]
  \/ CallOf(t).what = "FETCH_MIN" /\ ~ Signed(CallOf(t).arg[t]) < Signed(v)
NewWord(t) ==
  IF CallOf(t).what = "fetch_add_float" THEN Plus(tmp[t], CallOf(t).arg[t])
  ELSE CallOf(t).arg[t]

(* Goes on with v, or returns if that is enough.                           *)
Consider(t, v) ==
  IF Enough(t, v)
  THEN Returns(t, IF CallOf(t).what = "FETCH_MIN" THEN 0 ELSE v)
  ELSE /\ tmp' = [tmp EXCEPT ![t] = v]
       /\ Goto(t, "cas")
       /\ UNCHANGED <<senses, fences, ret, was>>

Load(t) ==
  /\ \E op \in Loops \cup {"COMPARE_AND_SWAP"} : At(t, op, "ready")
  /\ Consider(t, word)
  /\ UNCHANGED word

(* MUTANT: stores whatever the word is by now.                             *)
CasUnchecked(t) ==
  /\ \E op \in Loops : At(t, op, "cas")
  /\ word' = NewWord(t)
  /\ Returns(t, IF CallOf(t).what = "FETCH_MIN" THEN 1 ELSE tmp[t])

CasSucceeds(t) ==
  /\ \E op \in Loops : At(t, op, "cas")
  /\ word = tmp[t]
  /\ word' = NewWord(t)
  /\ Returns(t, IF CallOf(t).what = "FETCH_MIN" THEN 1 ELSE tmp[t])

(* It may fail for no reason.  The loops of dec_atomics.h read the word    *)
(* again, that of FETCH_MIN uses the value the failure has read.           *)
CasFails(t) ==
  /\ \E op \in Loops : At(t, op, "cas")
  /\ IF CallOf(t).what = "FETCH_MIN" THEN Consider(t, word)
     ELSE Goto(t, "ready") /\ tmp' = [tmp EXCEPT ![t] = 0]
          /\ UNCHANGED <<senses, fences, ret, was>>
  /\ UNCHANGED word

(* desc_DECADES_COMPARE_AND_SWAP reads the word, exchanges it, and returns *)
(* what it has read.                                                       *)
SwapAfterRead(t) ==
  /\ At(t, "COMPARE_AND_SWAP", "cas")
  /\ word' = IF word = CallOf(t).expect THEN CallOf(t).arg[t] ELSE word
  /\ Returns(t, tmp[t])

-----------------------------------------------------------------------------
Init ==
  /\ program \in SyncPrograms
  /\ pos = [t \in Threads |-> 0]
  /\ pc = [t \in Threads |-> "ready"]
  /\ counter = [b \in Ids |-> 0]
  /\ flag = [b \in Ids |-> 0]
  /\ local_sense = [t \in Threads |-> 0]
  /\ fences = [f \in Ids |-> 0]
  /\ word \in IF \A k \in DOMAIN program : program[k].what \in Barriers THEN {0} ELSE Word
  /\ tmp = [t \in Threads |-> 0]
  /\ ret = [k \in DOMAIN program |-> [t \in Threads |-> 0]]
  /\ was = [k \in 0 .. Len(program) |-> IF k = 0 THEN word ELSE -1]

BarrierStep(t) ==
  \/ simple_barrier(t) \/ ResetCounter(t) \/ StoreFlag(t) \/ LeaveSpin(t)
  \/ DECADES_PARTIAL_BARRIER(t) \/ TestCount(t) \/ TestZero(t) \/ ClearFence(t)
  \/ DECADES_BARRIER(t) \/ LeaveBarrier(t)

AtomicStep(t) ==
  \/ fetch_add(t) \/ compare_exchange(t)
  \/ Load(t) \/ CasSucceeds(t) \/ CasFails(t) \/ SwapAfterRead(t)

(* The region ends.                                                        *)
AllEnded == (\A t \in Threads : Ended(t)) /\ UNCHANGED vars

Next == (\E t \in Threads : BarrierStep(t) \/ AtomicStep(t)) \/ AllEnded

(* Every thread runs; a weak compare-and-swap that could succeed again and *)
(* again does at last.                                                     *)
Spec ==
  /\ Init /\ [][Next]_vars
  /\ \A t \in Threads : WF_vars(BarrierStep(t) \/ AtomicStep(t)) /\ SF_vars(CasSucceeds(t))

-----------------------------------------------------------------------------
(* Programs the barriers serve. *)

Uses(p, what) == {k \in DOMAIN p : p[k].what = what}

(* Between two uses of a fence, another barrier joins their threads.       *)
FencesRest(p) ==
  \A i, j \in Uses(p, "partial") : i < j /\ p[i].id = p[j].id =>
    \E k \in i + 1 .. j - 1 :
      p[k].what \in Barriers /\ p[i].team \cup p[j].team \subseteq p[k].team

(* A thread has one local_sense for all barrier_types: it is not what the  *)
(* flag shows, and the same for all who come.                              *)
SenseAt(p, t, k) == Cardinality({j \in Uses(p, "simple") : j <= k /\ t \in p[j].team}) % 2
SensesFit(p) ==
  \A k \in Uses(p, "simple") :
    LET before == {j \in Uses(p, "simple") : j < k /\ p[j].id = p[k].id}
        last == CHOOSE j \in before : \A i \in before : i <= j
        shown == IF before = {} THEN 0
                 ELSE SenseAt(p, CHOOSE t \in p[last].team : TRUE, last)
    IN  \A t \in p[k].team : SenseAt(p, t, k) # shown

(* A barrier_type always joins the same threads: it has one counter.       *)
TeamsStay(p) ==
  \A i, j \in Uses(p, "simple") : p[i].id = p[j].id => p[i].team = p[j].team

Serves(p) == FencesRest(p) /\ SensesFit(p) /\ TeamsStay(p)

-----------------------------------------------------------------------------
(* Properties *)

SyncTypeOK ==
  /\ pos \in [Threads -> 0 .. Len(program)]
  /\ counter \in [Ids -> 0 .. Cardinality(Threads)]
  /\ fences \in [Ids -> 0 .. Cardinality(Threads)]
  /\ flag \in [Ids -> 0 .. 1] /\ local_sense \in [Threads -> 0 .. 1]
  /\ word \in Word /\ tmp \in [Threads -> Word]

(* Nobody has left a barrier that somebody has yet to come to.             *)
NobodyEarly ==
  \A k \in DOMAIN program : program[k].what \in Barriers =>
    \A t, u \in program[k].team : pos[t] >= k => pos[u] >= k \/ InBarrier(u, k)

(* The barriers do what barriers promise, whichever of the three a program *)
(* mixes.                                                                  *)
LastBarrier(t) ==
  LET left == {k \in DOMAIN program :
                 k <= pos[t] /\ t \in program[k].team /\ program[k].what \in Barriers}
  IN  IF left = {} THEN 0 ELSE CHOOSE k \in left : \A j \in left : j <= k

Promise ==
  INSTANCE Rendezvous WITH
    plan <- [k \in DOMAIN program |->
               IF program[k].what \in Barriers THEN program[k].team ELSE {}],
    passed <- [t \in Threads |-> LastBarrier(t)],
    inside <- [t \in Threads |-> pc[t] # "ready" /\ CallOf(t).what \in Barriers]
ImplementsRendezvous == Promise!RendezvousSpec

(* What one call makes of the word and returns when it runs alone.         *)
Alone(c, t, w) ==
  LET v == c.arg[t]
  IN  CASE c.what \in {"fetch_add", "fetch_add_float"} -> [word |-> Plus(w, v), ret |-> w]
        [] c.what = "fetch_min" -> [word |-> IF v < w THEN v ELSE w, ret |-> w]
        [] c.what = "FETCH_MIN" -> IF Signed(v) < Signed(w) THEN [word |-> v, ret |-> 1]
                                   ELSE [word |-> w, ret |-> 0]
        [] c.what = "compare_exchange" -> IF w = c.expect THEN [word |-> v, ret |-> 1]
                                          ELSE [word |-> w, ret |-> 0]
        [] c.what = "COMPARE_AND_SWAP" -> [word |-> IF w = c.expect THEN v ELSE w, ret |-> w]

(* The word after each of the calls c, when the threads make them alone,   *)
(* one after the other; and what COMPARE_AND_SWAP, which may return an     *)
(* older value, or another one can return as the i-th of them.             *)
WordAfter(c, order, first) ==
  LET after[i \in 0 .. Len(order)] ==
        IF i = 0 THEN first ELSE Alone(c, order[i], after[i - 1]).word
  IN  after
Answers(c, order, after, i) ==
  IF c.what = "COMPARE_AND_SWAP" THEN {after[j] : j \in 0 .. i - 1}
  ELSE {Alone(c, order[i], after[i - 1]).ret}

(* Between two barriers, the calls on a word act as if one were made after *)
(* the other: none is lost, and each returns what it replaced.  Only       *)
(* COMPARE_AND_SWAP may return an older value.                             *)
Linearizable ==
  \A k \in DOMAIN program :
    LET c == program[k]
    IN  c.what \notin Barriers /\ k < Len(program) /\ was[k - 1] # -1 /\ was[k + 1] # -1 =>
          \E order \in SetToSeqs(c.team) :
            LET after == WordAfter(c, order, was[k - 1])
            IN  /\ after[Len(order)] = was[k + 1]
                /\ \A i \in 1 .. Len(order) : ret[k][order[i]] \in Answers(c, order, after, i)

(* All threads get through all barriers and loops.                         *)
RegionEnds == <>(\A t \in Threads : Ended(t))
=============================================================================
