----------------------------- MODULE SyncProofs -----------------------------
(***************************************************************************)
(* The safety of the barriers of KernelSync, for any number of threads and *)
(* any program that they serve.  The three kinds share the threads and so  *)
(* the argument: that nobody leaves a barrier early is what keeps the uses *)
(* of a fence and of a barrier_type apart, and that is what makes their    *)
(* counts those of one use.  After that, that the barriers implement       *)
(* Rendezvous, and at the end, that the atomics between two barriers are   *)
(* linearizable.                                                           *)
(***************************************************************************)
EXTENDS KernelSync, FiniteSetTheorems, WellFoundedInduction, TLAPS

Ks == DOMAIN program
Joins(k) == k \in Ks /\ program[k].what \in Barriers
Inside(k) == {t \in Threads : InBarrier(t, k)}
Come(t, k) == pos[t] >= k \/ InBarrier(t, k)
AllCome(k) == \A u \in program[k].team : Come(u, k)

Opening == {"reset", "release"}   \* the last thread, before it stores the flag
Wheres == {"ready", "spin", "reset", "release", "test", "zero", "clear", "wait", "cas"}

SyncType ==
  /\ program \in SyncPrograms
  /\ pos \in [Threads -> 0 .. Len(program)]
  /\ pc \in [Threads -> Wheres]
  /\ counter \in [Ids -> 0 .. Cardinality(Threads)]
  /\ fences \in [Ids -> 0 .. Cardinality(Threads)]
  /\ flag \in [Ids -> 0 .. 1] /\ local_sense \in [Threads -> 0 .. 1]
  /\ word \in Word /\ tmp \in [Threads -> Word]

(* A thread that is not ready is in a call of the right kind.              *)
Whereabouts(t) ==
  pc[t] # "ready" =>
    /\ ~ Ended(t)
    /\ LET what == CallOf(t).what
       IN  /\ pc[t] \in {"spin", "reset", "release"} <=> what = "simple"
           /\ pc[t] \in {"test", "zero", "clear"} <=> what = "partial"
           /\ pc[t] = "wait" <=> what = "omp"
           /\ pc[t] = "cas" <=> what \notin Barriers

(* A fence counts the threads in the one use that has begun; once all have *)
(* come it may show less, and shows 0 when nobody uses it.                 *)
FenceCounts ==
  /\ \A k \in Uses(program, "partial") :
       /\ \A t \in Inside(k) : pc[t] = "clear" => AllCome(k)
       /\ Inside(k) # {} /\ ~ AllCome(k) => fences[program[k].id] = Cardinality(Inside(k))
  /\ \A f \in Ids :
       (\A k \in Uses(program, "partial") : program[k].id = f => Inside(k) = {}) => fences[f] = 0

(* A use of a barrier_type is released when the last to come has stored    *)
(* the flag.  The first use not released yet has the counter to itself,    *)
(* and its threads see a flag that is not their sense.                     *)
Released(k) == AllCome(k) /\ \A t \in Inside(k) : pc[t] \notin Opening
SameType(j, k) == program[j].id = program[k].id
First(k) == \A j \in Uses(program, "simple") : j < k /\ SameType(j, k) => Released(j)
CounterOf(k) ==
  IF \E t \in Inside(k) : pc[t] = "release" THEN 0 ELSE Cardinality(Inside(k))
OneOpens ==
  \A k \in Uses(program, "simple") : \A t \in Inside(k) : pc[t] \in Opening =>
    /\ AllCome(k)
    /\ \A u \in program[k].team : pos[u] < k
    /\ \A u \in Inside(k) : pc[u] \in Opening => u = t
FirstCounts ==
  \A k \in Uses(program, "simple") : First(k) /\ ~ Released(k) =>
    /\ counter[program[k].id] = CounterOf(k)
    /\ \A t \in program[k].team : flag[program[k].id] # SenseAt(program, t, k)

(* local_sense follows the calls of simple_barrier a thread has come to.   *)
SensedTo(t) == IF pc[t] # "ready" /\ CallOf(t).what = "simple" THEN Current(t) ELSE pos[t]
OwnSenses == \A t \in Threads : local_sense[t] = SenseAt(program, t, SensedTo(t))

SyncInv ==
  /\ SyncType /\ NobodyEarly /\ FenceCounts /\ OneOpens /\ FirstCounts /\ OwnSenses
  /\ \A t \in Threads : Whereabouts(t)

-----------------------------------------------------------------------------
(* Programs and the place of a thread in one. *)

LEMMA ProgramShape ==
  ASSUME SyncType
  PROVE  /\ Len(program) \in Nat /\ Ks = 1 .. Len(program)
         /\ \A k \in Ks :
              /\ k \in Nat /\ k <= Len(program) /\ 0 < k
              /\ program[k].what \in Barriers \cup Atomics
              /\ program[k].id \in Ids
              /\ program[k].team \subseteq Threads /\ IsFiniteSet(program[k].team)
              /\ program[k].arg \in [Threads -> Word] /\ program[k].expect \in Word
  <1>1. program \in Seq(Calls)
    BY SyncAssumption DEF SyncType
  <1>2. Len(program) \in Nat /\ Ks = 1 .. Len(program) /\ \A k \in Ks : program[k] \in Calls
    BY <1>1 DEF Ks
  <1>3. ASSUME NEW c \in Calls
        PROVE  /\ c.what \in Barriers \cup Atomics /\ c.id \in Ids
               /\ c.team \subseteq Threads
               /\ c.arg \in [Threads -> Word] /\ c.expect \in Word
    BY DEF Calls
  <1>4. \A S \in SUBSET Threads : IsFiniteSet(S)
    BY SyncAssumption, FS_Subset
  <1> QED  BY <1>2, <1>3, <1>4

(* A set of naturals has a least element. *)
LEMMA LeastElement ==
  ASSUME NEW S \in SUBSET Nat, S # {}
  PROVE  \E m \in S : \A n \in S : m <= n
  <1>1. PICK m \in S : \A n \in S : ~ (<<n, m>> \in OpToRel(<, Nat))
    BY NatLessThanWellFounded, WFMin, Zenon
  <1>2. ASSUME NEW n \in S PROVE m <= n
    <2>1. n \in Nat /\ m \in Nat
      OBVIOUS
    <2>2. ~ (n < m)
      BY <1>1, <2>1, Zenon DEF OpToRel
    <2> QED  BY <2>1, <2>2
  <1> QED  BY <1>2

(* The call a thread is in or makes next is the first it takes part in of  *)
(* those it has not completed.                                             *)
LEMMA CurrentIsNext ==
  ASSUME SyncType, NEW t \in Threads, ~ Ended(t)
  PROVE  /\ Current(t) \in Ks /\ Current(t) \in Nat /\ pos[t] \in Nat
         /\ pos[t] < Current(t) /\ t \in program[Current(t)].team
         /\ \A k \in Ks : pos[t] < k /\ t \in program[k].team => Current(t) <= k
  <1>1. Ahead(t) # {} /\ Ahead(t) \subseteq Nat /\ Ahead(t) \subseteq Ks /\ pos[t] \in Nat
    BY ProgramShape DEF Ended, Ahead, Ks, SyncType
  <1>2. \E k \in Ahead(t) : \A j \in Ahead(t) : k <= j
    BY <1>1, LeastElement
  <1>3. Current(t) \in Ahead(t) /\ \A j \in Ahead(t) : Current(t) <= j
    BY <1>2 DEF Current
  <1>4. \A k : k \in Ahead(t) <=> k \in Ks /\ k > pos[t] /\ t \in program[k].team
    BY DEF Ahead, Ks
  <1>5. \A k \in Ks : k > pos[t] <=> pos[t] < k
    BY <1>1, ProgramShape
  <1> QED  BY <1>1, <1>3, <1>4, <1>5

(* In a barrier, a thread has not left it; it is in one at a time. *)
LEMMA InsideOnce ==
  ASSUME SyncType, NEW t \in Threads, NEW k, InBarrier(t, k)
  PROVE  /\ Joins(k) /\ t \in program[k].team /\ k = Current(t) /\ pos[t] < k /\ ~ Ended(t)
         /\ pc[t] # "ready"
         /\ \A j : InBarrier(t, j) => j = k
  BY CurrentIsNext DEF InBarrier, Joins

(* The threads of a team that have come have passed what is before. *)
LEMMA ComeMeansPassed ==
  ASSUME SyncType, NEW t \in Threads, NEW j \in Ks, NEW k \in Ks, j < k,
         t \in program[j].team, Come(t, k)
  PROVE  pos[t] >= j /\ ~ InBarrier(t, j)
  <1>1. pos[t] \in Nat /\ j \in Nat /\ k \in Nat
    BY ProgramShape DEF SyncType
  <1>2. CASE pos[t] >= k
    BY <1>1, <1>2, InsideOnce
  <1>3. CASE InBarrier(t, k)
    <2>1. ~ Ended(t) /\ k = Current(t) /\ pos[t] < k
      BY <1>3, InsideOnce
    <2>2. ~ pos[t] < j
      BY <1>1, <2>1, CurrentIsNext
    <2> QED  BY <1>1, <1>3, <2>2, InsideOnce
  <1> QED  BY <1>2, <1>3 DEF Come

-----------------------------------------------------------------------------
(* How the steps of a thread move it, whatever else they change: into a    *)
(* barrier, within one, out of one, or in and out of an atomic.            *)

Enters(t) ==
  /\ pc[t] = "ready" /\ ~ Ended(t) /\ Joins(Current(t))
  /\ \E w \in Wheres \ {"ready"} : pc' = [pc EXCEPT ![t] = w]
  /\ UNCHANGED <<program, pos>>
GoesOn(t) ==
  /\ pc[t] # "ready" /\ ~ Ended(t) /\ Joins(Current(t))
  /\ \E w \in Wheres \ {"ready"} : pc' = [pc EXCEPT ![t] = w]
  /\ UNCHANGED <<program, pos>>
Leaves(t) ==
  /\ pc[t] # "ready" /\ ~ Ended(t) /\ Joins(Current(t))
  /\ pc' = [pc EXCEPT ![t] = "ready"] /\ pos' = [pos EXCEPT ![t] = Current(t)]
  /\ UNCHANGED program
IsAtomic(t) ==
  /\ ~ Ended(t) /\ ~ Joins(Current(t))
  /\ \/ UNCHANGED pos /\ \E w \in Wheres : pc' = [pc EXCEPT ![t] = w]
     \/ pos' = [pos EXCEPT ![t] = Current(t)] /\ pc' = [pc EXCEPT ![t] = "ready"]
  /\ UNCHANGED program
Moves(t) == Enters(t) \/ GoesOn(t) \/ Leaves(t) \/ IsAtomic(t)

(* A barrier that nobody comes to, moves in or leaves.                     *)
Untouched(k) ==
  /\ Inside(k)' = Inside(k)
  /\ \A u \in Inside(k) : pc'[u] = pc[u]
  /\ \A u \in program[k].team : pos'[u] >= k <=> pos[u] >= k

LEMMA CurrentKept ==
  ASSUME program' = program, NEW u, pos'[u] = pos[u]
  PROVE  (Ended(u)' <=> Ended(u)) /\ Current(u)' = Current(u)
  <1>1. Ahead(u)' = Ahead(u)
    BY DEF Ahead
  <1> QED  BY <1>1 DEF Ended, Current

LEMMA OthersStay ==
  ASSUME program' = program, NEW u, pos'[u] = pos[u], pc'[u] = pc[u]
  PROVE  \A k : InBarrier(u, k)' <=> InBarrier(u, k)
  BY CurrentKept DEF InBarrier

LEMMA MovesOne ==
  ASSUME SyncType, NEW t \in Threads, Moves(t)
  PROVE  /\ program' = program
         /\ \A u \in Threads \ {t} : pos'[u] = pos[u] /\ pc'[u] = pc[u]
         /\ \A u \in Threads \ {t} : \A k : InBarrier(u, k)' <=> InBarrier(u, k)
         /\ pos' \in [Threads -> 0 .. Len(program)] /\ pc' \in [Threads -> Wheres]
  <1>1. ~ Ended(t)
    BY DEF Moves, Enters, GoesOn, Leaves, IsAtomic
  <1>2. Current(t) \in 0 .. Len(program)
    BY <1>1, CurrentIsNext, ProgramShape
  <1>3. "ready" \in Wheres
    BY DEF Wheres
  <1>4. /\ program' = program
        /\ \E w \in Wheres : pc' = [pc EXCEPT ![t] = w]
        /\ pos' = pos \/ pos' = [pos EXCEPT ![t] = Current(t)]
    BY <1>3 DEF Moves, Enters, GoesOn, Leaves, IsAtomic
  <1>5. pos \in [Threads -> 0 .. Len(program)] /\ pc \in [Threads -> Wheres]
    BY DEF SyncType
  <1>6. \A u \in Threads \ {t} : pos'[u] = pos[u] /\ pc'[u] = pc[u]
    BY <1>4, <1>5
  <1>7. pos' \in [Threads -> 0 .. Len(program)] /\ pc' \in [Threads -> Wheres]
    BY <1>2, <1>4, <1>5
  <1> QED  BY <1>4, <1>6, <1>7, OthersStay

(* What happens to the barrier the thread is in or comes to.               *)
LEMMA EnterHere ==
  ASSUME SyncType, NEW t \in Threads, Enters(t), NEW c, c = Current(t)
  PROVE  /\ \A k : InBarrier(t, k)' <=> k = c
         /\ \A k : ~ InBarrier(t, k)
         /\ Inside(c)' = Inside(c) \cup {t}
         /\ ~ Come(t, c) /\ t \in program[c].team /\ Joins(c) /\ pos' = pos
  <1>1. pc'[t] # "ready" /\ (Ended(t)' <=> Ended(t)) /\ Current(t)' = c /\ program' = program
    BY CurrentKept DEF Enters, SyncType
  <1>2. pc[t] = "ready" /\ ~ Ended(t) /\ Joins(c) /\ pos' = pos
    BY DEF Enters
  <1>3. \A k : InBarrier(t, k)' <=> k = c
    BY <1>1, <1>2 DEF InBarrier, Joins
  <1>4. \A k : ~ InBarrier(t, k)
    BY <1>2 DEF InBarrier
  <1>5. Inside(c)' = Inside(c) \cup {t}
    <2>1. Moves(t)
      BY DEF Moves
    <2>2. \A u \in Threads : InBarrier(u, c)' <=> InBarrier(u, c) \/ u = t
      BY <1>3, <2>1, MovesOne
    <2> QED  BY <2>2 DEF Inside
  <1>6. ~ Come(t, c) /\ t \in program[c].team
    BY <1>2, <1>4, CurrentIsNext DEF Come
  <1> QED  BY <1>2, <1>3, <1>4, <1>5, <1>6

LEMMA GoOnHere ==
  ASSUME SyncType, NEW t \in Threads, GoesOn(t), NEW c, c = Current(t)
  PROVE  /\ \A k : InBarrier(t, k)' <=> k = c
         /\ \A k : InBarrier(t, k) <=> k = c
         /\ Inside(c)' = Inside(c) /\ t \in Inside(c)
         /\ t \in program[c].team /\ Joins(c) /\ pos' = pos
  <1>1. pc'[t] # "ready" /\ (Ended(t)' <=> Ended(t)) /\ Current(t)' = c /\ program' = program
    BY CurrentKept DEF GoesOn, SyncType
  <1>2. pc[t] # "ready" /\ ~ Ended(t) /\ Joins(c) /\ pos' = pos
    BY DEF GoesOn
  <1>3. \A k : InBarrier(t, k)' <=> k = c
    BY <1>1, <1>2 DEF InBarrier, Joins
  <1>4. \A k : InBarrier(t, k) <=> k = c
    BY <1>2 DEF InBarrier, Joins
  <1>5. Inside(c)' = Inside(c) /\ t \in Inside(c)
    <2>1. Moves(t)
      BY DEF Moves
    <2>2. \A u \in Threads : InBarrier(u, c)' <=> InBarrier(u, c)
      BY <1>3, <1>4, <2>1, MovesOne
    <2> QED  BY <1>4, <2>2 DEF Inside
  <1> QED  BY <1>2, <1>3, <1>4, <1>5, CurrentIsNext

LEMMA LeaveHere ==
  ASSUME SyncType, NEW t \in Threads, Leaves(t), NEW c, c = Current(t)
  PROVE  /\ \A k : ~ InBarrier(t, k)'
         /\ \A k : InBarrier(t, k) <=> k = c
         /\ Inside(c)' = Inside(c) \ {t} /\ t \in Inside(c)
         /\ t \in program[c].team /\ Joins(c)
         /\ pos'[t] = c /\ pos[t] < c
  <1>1. pc'[t] = "ready" /\ pos'[t] = c
    BY DEF Leaves, SyncType
  <1>2. pc[t] # "ready" /\ ~ Ended(t) /\ Joins(c)
    BY DEF Leaves
  <1>3. \A k : ~ InBarrier(t, k)'
    BY <1>1 DEF InBarrier
  <1>4. \A k : InBarrier(t, k) <=> k = c
    BY <1>2 DEF InBarrier, Joins
  <1>5. Inside(c)' = Inside(c) \ {t} /\ t \in Inside(c)
    <2>1. Moves(t)
      BY DEF Moves
    <2>2. \A u \in Threads : InBarrier(u, c)' <=> InBarrier(u, c) /\ u # t
      BY <1>3, <2>1, MovesOne
    <2> QED  BY <1>4, <2>2 DEF Inside
  <1> QED  BY <1>1, <1>2, <1>3, <1>4, <1>5, CurrentIsNext

(* Every other barrier stays as it is. *)
LEMMA Elsewhere ==
  ASSUME SyncType, NEW t \in Threads, Moves(t), NEW k, Joins(k), k # Current(t)
  PROVE  Untouched(k)
  <1>1. /\ program' = program /\ ~ Ended(t)
        /\ \A u \in Threads \ {t} : pos'[u] = pos[u] /\ pc'[u] = pc[u]
        /\ \A u \in Threads \ {t} : InBarrier(u, k)' <=> InBarrier(u, k)
    BY MovesOne DEF Moves, Enters, GoesOn, Leaves, IsAtomic
  <1>2. ~ InBarrier(t, k)
    BY DEF InBarrier
  <1>3. /\ Current(t) \in Nat /\ pos[t] \in Nat /\ pos[t] < Current(t)
        /\ k \in Nat /\ program[k].team \subseteq Threads
        /\ pos[t] < k /\ t \in program[k].team => Current(t) < k
    BY <1>1, CurrentIsNext, ProgramShape DEF Joins
  <1>4. pos'[t] = pos[t] \/ pos'[t] = Current(t)
    BY DEF Moves, Enters, GoesOn, Leaves, IsAtomic, SyncType
  <1>5. t \in program[k].team => (pos'[t] >= k <=> pos[t] >= k)
    BY <1>3, <1>4
  <1>6. ~ InBarrier(t, k)'
    <2>1. CASE pos'[t] = pos[t]
      BY <1>1, <2>1, CurrentKept DEF InBarrier
    <2>2. CASE pos'[t] # pos[t]
      <3>1. CASE Leaves(t)
        BY <3>1, LeaveHere
      <3>2. CASE IsAtomic(t)
        <4>1. pc'[t] = "ready"
          BY <2>2, <3>2 DEF IsAtomic, SyncType
        <4> QED  BY <4>1 DEF InBarrier
      <3> QED  BY <2>2, <3>1, <3>2 DEF Moves, Enters, GoesOn
    <2> QED  BY <2>1, <2>2
  <1>7. Inside(k)' = Inside(k)
    BY <1>1, <1>2, <1>6 DEF Inside
  <1>8. \A u \in Inside(k) : pc'[u] = pc[u]
    BY <1>1, <1>2 DEF Inside
  <1>9. \A u \in program[k].team : pos'[u] >= k <=> pos[u] >= k
    BY <1>1, <1>3, <1>5
  <1> QED  BY <1>7, <1>8, <1>9 DEF Untouched

LEMMA UntouchedKeeps ==
  ASSUME SyncType, program' = program, NEW k, Joins(k), Untouched(k)
  PROVE  /\ \A u \in program[k].team : Come(u, k)' <=> Come(u, k)
         /\ AllCome(k)' <=> AllCome(k)
         /\ Released(k)' <=> Released(k)
         /\ CounterOf(k)' = CounterOf(k)
  <1>1. program[k].team \subseteq Threads
    BY ProgramShape DEF Joins
  <1>2. \A u \in Threads : InBarrier(u, k)' <=> InBarrier(u, k)
    BY DEF Untouched, Inside
  <1>3. \A u \in program[k].team : Come(u, k)' <=> Come(u, k)
    BY <1>1, <1>2 DEF Untouched, Come
  <1>4. AllCome(k)' <=> AllCome(k)
    BY <1>3 DEF AllCome
  <1>5. Released(k)' <=> Released(k)
    BY <1>4 DEF Released, Untouched
  <1>6. CounterOf(k)' = CounterOf(k)
    <2>1. (\E u \in Inside(k)' : pc'[u] = "release") <=> \E u \in Inside(k) : pc[u] = "release"
      BY DEF Untouched
    <2> QED  BY <2>1 DEF Untouched, CounterOf
  <1> QED  BY <1>3, <1>4, <1>5, <1>6

(* Who has come to a barrier has come for good; a step within or out of it *)
(* brings nobody.                                                          *)
LEMMA ComeForGood ==
  ASSUME SyncType, NEW t \in Threads, Moves(t), NEW k, Joins(k)
  PROVE  /\ \A u \in program[k].team : Come(u, k) => Come(u, k)'
         /\ AllCome(k) => AllCome(k)'
         /\ ~ Enters(t) => (AllCome(k)' <=> AllCome(k))
  <1>1. program' = program
    BY MovesOne
  <1>2. CASE k # Current(t)
    BY <1>1, <1>2, Elsewhere, UntouchedKeeps
  <1>3. CASE k = Current(t)
    <2>1. /\ program[k].team \subseteq Threads
          /\ \A u \in Threads \ {t} : Come(u, k)' <=> Come(u, k)
      BY MovesOne, ProgramShape DEF Come, Joins
    <2>2. CASE Enters(t)
      <3>1. Come(t, k)'
        BY <1>3, <2>2, EnterHere DEF Come
      <3> QED  BY <1>1, <2>1, <2>2, <3>1 DEF AllCome
    <2>3. CASE GoesOn(t)
      <3>1. Come(t, k)' /\ Come(t, k)
        BY <1>3, <2>3, GoOnHere DEF Come
      <3> QED  BY <1>1, <2>1, <3>1 DEF AllCome
    <2>4. CASE Leaves(t)
      <3>1. k \in Nat
        BY ProgramShape DEF Joins
      <3>2. Come(t, k)' /\ Come(t, k)
        BY <1>3, <2>4, <3>1, LeaveHere DEF Come
      <3> QED  BY <1>1, <2>1, <3>2 DEF AllCome
    <2> QED  BY <1>3, <2>2, <2>3, <2>4 DEF Moves, IsAtomic
  <1> QED  BY <1>2, <1>3

(* If nobody leaves before all have come, nobody ever has.                 *)
LEMMA NobodyEarlyKept ==
  ASSUME SyncType, NobodyEarly, NEW t \in Threads, Moves(t),
         Leaves(t) => AllCome(Current(t))
  PROVE  NobodyEarly'
  <1>1. program' = program
    BY MovesOne
  <1>2. ASSUME NEW k, Joins(k), NEW u \in program[k].team, pos'[u] >= k
        PROVE  AllCome(k)'
    <2>1. CASE pos[u] >= k
      <3>1. AllCome(k)
        BY <1>2, <2>1 DEF NobodyEarly, AllCome, Come, Joins, Ks
      <3> QED  BY <1>2, <3>1, ComeForGood
    <2>2. CASE ~ pos[u] >= k
      <3>1. k = Current(t)
        BY <1>2, <2>2, Elsewhere DEF Untouched
      <3>2. u \in Threads
        BY <1>2, ProgramShape DEF Joins
      <3>3. Leaves(t)
        BY <1>2, <2>2, <3>1, <3>2, MovesOne DEF Moves, Enters, GoesOn, IsAtomic
      <3> QED  BY <1>2, <3>1, <3>3, ComeForGood
    <2> QED  BY <2>1, <2>2
  <1> QED  BY <1>1, <1>2 DEF NobodyEarly, AllCome, Come, Joins, Ks

-----------------------------------------------------------------------------
(* What the programs the barriers serve give. *)

(* A barrier between two uses of a fence keeps them apart. *)
LEMMA UsesApart ==
  ASSUME SyncType, NobodyEarly, FencesRest(program),
         NEW c \in Uses(program, "partial"), NEW j \in Uses(program, "partial"),
         program[c].id = program[j].id,
         NEW t \in Threads, ~ Ended(t), c = Current(t), NEW u \in Inside(j)
  PROVE  j = c
  <1> SUFFICES ASSUME j # c PROVE FALSE
    OBVIOUS
  <1>1. /\ c \in Ks /\ j \in Ks /\ c \in Nat /\ j \in Nat
        /\ program[c].team \subseteq Threads
    BY ProgramShape DEF Uses, Ks
  <1>2. /\ u \in Threads /\ j = Current(u) /\ ~ Ended(u) /\ u \in program[j].team
        /\ \A k : InBarrier(u, k) => k = j
        /\ pos[u] \in Nat /\ pos[u] < j
        /\ \A k \in Ks : pos[u] < k /\ u \in program[k].team => j <= k
    BY InsideOnce, CurrentIsNext DEF Inside
  <1>3. /\ t \in program[c].team /\ pos[t] \in Nat /\ pos[t] < c
        /\ \A k : InBarrier(t, k) => k = c
        /\ \A k \in Ks : pos[t] < k /\ t \in program[k].team => c <= k
    BY CurrentIsNext DEF InBarrier
  <1>4. ASSUME NEW m \in Ks, Joins(m), t \in program[m].team, u \in program[m].team,
               pos[t] >= m \/ pos[u] >= m
        PROVE  (pos[t] >= m \/ m = c) /\ (pos[u] >= m \/ m = j)
    BY <1>2, <1>3, <1>4 DEF NobodyEarly, Joins, Ks
  <1>5. CASE j < c
    <2>1. PICK m \in j + 1 .. c - 1 :
            program[m].what \in Barriers /\ program[j].team \cup program[c].team \subseteq program[m].team
      BY <1>5 DEF FencesRest
    <2>2. m \in Ks /\ Joins(m) /\ j < m /\ m < c /\ m \in Nat
      BY <1>1, <2>1, ProgramShape DEF Joins
    <2>3. t \in program[m].team /\ u \in program[m].team
      BY <1>2, <1>3, <2>1
    <2>4. pos[t] >= m
      BY <1>1, <1>3, <2>2, <2>3
    <2>5. pos[u] >= m
      BY <1>4, <2>2, <2>3, <2>4
    <2> QED  BY <1>1, <1>2, <2>2, <2>5
  <1>6. CASE c < j
    <2>1. PICK m \in c + 1 .. j - 1 :
            program[m].what \in Barriers /\ program[c].team \cup program[j].team \subseteq program[m].team
      BY <1>6 DEF FencesRest
    <2>2. m \in Ks /\ Joins(m) /\ c < m /\ m < j /\ m \in Nat
      BY <1>1, <2>1, ProgramShape DEF Joins
    <2>3. t \in program[m].team /\ u \in program[m].team
      BY <1>2, <1>3, <2>1
    <2>4. pos[u] >= m
      BY <1>1, <1>2, <2>2, <2>3
    <2>5. pos[t] >= m
      BY <1>4, <2>2, <2>3, <2>4
    <2> QED  BY <1>1, <1>3, <2>2, <2>5
  <1> QED  BY <1>1, <1>5, <1>6
(* The sense of a thread is a bit, which each use of simple_barrier flips. *)
LEMMA SenseIsBit ==
  ASSUME SyncType, NEW t, NEW k
  PROVE  SenseAt(program, t, k) \in 0 .. 1
  <1> DEFINE S == {j \in Uses(program, "simple") : j <= k /\ t \in program[j].team}
  <1>1. IsFiniteSet(1 .. Len(program))
    BY ProgramShape, FS_Interval
  <1>2. S \subseteq 1 .. Len(program)
    BY ProgramShape DEF Uses, Ks
  <1>3. Cardinality(S) \in Nat
    BY <1>1, <1>2, FS_Subset, FS_CardinalityType
  <1> HIDE DEF S
  <1>4. Cardinality(S) % 2 \in 0 .. 1
    BY <1>3
  <1> QED  BY <1>4 DEF SenseAt, S

LEMMA SenseFlips ==
  ASSUME SyncType, NEW t \in Threads, ~ Ended(t), NEW c, c = Current(t)
  PROVE  SenseAt(program, t, c) =
           IF program[c].what = "simple" THEN 1 - SenseAt(program, t, pos[t])
           ELSE SenseAt(program, t, pos[t])
  <1> DEFINE S(k) == {j \in Uses(program, "simple") : j <= k /\ t \in program[j].team}
  <1>1. /\ c \in Ks /\ c \in Nat /\ pos[t] \in Nat /\ pos[t] < c /\ t \in program[c].team
        /\ \A k \in Ks : pos[t] < k /\ t \in program[k].team => c <= k
        /\ \A k \in Ks : k \in Nat
    BY CurrentIsNext, ProgramShape
  <1>2. S(c) = IF program[c].what = "simple" THEN S(pos[t]) \cup {c} ELSE S(pos[t])
    <2>1. \A j \in Ks : t \in program[j].team => (j <= c <=> j <= pos[t] \/ j = c)
      BY <1>1
    <2> QED  BY <1>1, <2>1 DEF Uses, Ks
  <1>3. c \notin S(pos[t])
    BY <1>1
  <1>4. IsFiniteSet(S(pos[t]))
    <2>1. IsFiniteSet(1 .. Len(program))
      BY ProgramShape, FS_Interval
    <2>2. S(pos[t]) \subseteq 1 .. Len(program)
      BY ProgramShape DEF Uses, Ks
    <2> QED  BY <2>1, <2>2, FS_Subset
  <1>5. SenseAt(program, t, c) = Cardinality(S(c)) % 2
        /\ SenseAt(program, t, pos[t]) = Cardinality(S(pos[t])) % 2
    BY DEF SenseAt
  <1> HIDE DEF S
  <1>6. CASE program[c].what = "simple"
    <2>1. Cardinality(S(c)) = Cardinality(S(pos[t])) + 1 /\ Cardinality(S(pos[t])) \in Nat
      BY <1>2, <1>3, <1>4, <1>6, FS_AddElement, FS_CardinalityType
    <2> QED  BY <1>5, <1>6, <2>1
  <1> QED  BY <1>2, <1>5, <1>6

(* All who come to a use bring the same sense. *)
LEMMA SensesAgree ==
  ASSUME SyncType, SensesFit(program), NEW k \in Uses(program, "simple"),
         NEW t \in program[k].team, NEW u \in program[k].team
  PROVE  SenseAt(program, t, k) = SenseAt(program, u, k)
  <1> DEFINE before == {j \in Uses(program, "simple") : j < k /\ program[j].id = program[k].id}
             last == CHOOSE j \in before : \A i \in before : i <= j
             shown == IF before = {} THEN 0
                      ELSE SenseAt(program, CHOOSE v \in program[last].team : TRUE, last)
  <1>1. SenseAt(program, t, k) # shown /\ SenseAt(program, u, k) # shown
    BY DEF SensesFit
  <1> HIDE DEF before, last
  <1>2. shown \in 0 .. 1 /\ SenseAt(program, t, k) \in 0 .. 1 /\ SenseAt(program, u, k) \in 0 .. 1
    BY SenseIsBit
  <1> HIDE DEF shown
  <1> QED  BY <1>1, <1>2

(* One use after the other brings the other sense; the first brings 1. *)
LEMMA SensesDiffer ==
  ASSUME SyncType, SensesFit(program),
         NEW j \in Uses(program, "simple"), NEW k \in Uses(program, "simple"),
         j < k, SameType(j, k),
         \A i \in Uses(program, "simple") : i < k /\ SameType(i, k) => i <= j,
         NEW t \in program[j].team, NEW u \in program[k].team
  PROVE  SenseAt(program, t, j) # SenseAt(program, u, k)
  <1> DEFINE before == {i \in Uses(program, "simple") : i < k /\ program[i].id = program[k].id}
             last == CHOOSE m \in before : \A i \in before : i <= m
             v == CHOOSE w \in program[last].team : TRUE
  <1>1. before # {} => SenseAt(program, u, k) # SenseAt(program, v, last)
    BY DEF SensesFit
  <1>2. j \in before /\ \A i \in before : i <= j
    BY DEF SameType
  <1>3. \A i \in before : i \in Nat
    BY ProgramShape DEF Uses, Ks
  <1> HIDE DEF before
  <1>4. last \in before /\ \A i \in before : i <= last
    BY <1>2
  <1>5. last = j
    <2>1. last <= j /\ j <= last /\ last \in Nat /\ j \in Nat
      BY <1>2, <1>3, <1>4
    <2> HIDE DEF last
    <2> QED  BY <2>1
  <1> HIDE DEF last
  <1>6. v \in program[j].team
    BY <1>5
  <1> HIDE DEF v
  <1> QED  BY <1>1, <1>2, <1>5, <1>6, SensesAgree

LEMMA FirstSense ==
  ASSUME SyncType, SensesFit(program), NEW k \in Uses(program, "simple"),
         \A i \in Uses(program, "simple") : ~ (i < k /\ SameType(i, k)),
         NEW t \in program[k].team
  PROVE  SenseAt(program, t, k) # 0
  <1>1. {i \in Uses(program, "simple") : i < k /\ program[i].id = program[k].id} = {}
    BY DEF SameType
  <1> QED  BY <1>1 DEF SensesFit
-----------------------------------------------------------------------------
(* Fences *)

Partial == Uses(program, "partial")
Simple == Uses(program, "simple")

LEMMA UsesJoin ==
  /\ \A k \in Partial : k \in Ks /\ Joins(k)
  /\ \A k \in Simple : k \in Ks /\ Joins(k)
  BY DEF Partial, Simple, Uses, Joins, Ks, Barriers

(* Those inside are of the team, and finitely many. *)
LEMMA InsideOfTeam ==
  ASSUME SyncType, NEW k \in Ks
  PROVE  /\ Inside(k) \subseteq program[k].team /\ IsFiniteSet(Inside(k))
         /\ Cardinality(Inside(k)) \in Nat
         /\ Cardinality(Inside(k)) <= Cardinality(program[k].team)
         /\ Cardinality(program[k].team) \in Nat
         /\ Cardinality(Inside(k)) <= Cardinality(Threads) /\ Cardinality(Threads) \in Nat
         /\ Cardinality(Inside(k)) = Cardinality(program[k].team) => Inside(k) = program[k].team
  <1>1. IsFiniteSet(program[k].team) /\ IsFiniteSet(Threads)
    BY ProgramShape, SyncAssumption
  <1>2. Inside(k) \subseteq program[k].team /\ Inside(k) \subseteq Threads
    BY InsideOnce DEF Inside
  <1> QED  BY <1>1, <1>2, FS_Subset, FS_CardinalityType

(* As long as somebody is missing, nobody has left: those who have come    *)
(* are inside.                                                             *)
LEMMA NoneLeft ==
  ASSUME SyncType, NobodyEarly, NEW k, Joins(k), ~ AllCome(k)
  PROVE  /\ \A u \in program[k].team : ~ pos[u] >= k
         /\ Cardinality(Inside(k)) < Cardinality(program[k].team)
  <1>1. \A u \in program[k].team : ~ pos[u] >= k
    BY DEF NobodyEarly, AllCome, Come, Joins, Ks
  <1>2. Inside(k) # program[k].team
    BY DEF AllCome, Come, Inside
  <1> QED  BY <1>1, <1>2, InsideOfTeam DEF Joins

(* A step in a use of a fence concerns no other use of it. *)
LEMMA FenceTouched ==
  ASSUME SyncType, NobodyEarly, FenceCounts, FencesRest(program),
         NEW t \in Threads, Moves(t), NEW c \in Partial, c = Current(t),
         \A g \in Ids \ {program[c].id} : fences'[g] = fences[g],
         \A u \in Inside(c)' : pc'[u] = "clear" => AllCome(c)',
         Inside(c)' # {} /\ ~ AllCome(c)' => fences'[program[c].id] = Cardinality(Inside(c)'),
         Inside(c)' = {} => fences'[program[c].id] = 0
  PROVE  FenceCounts'
  <1>1. program' = program /\ Uses(program, "partial")' = Partial /\ ~ Ended(t)
    BY MovesOne DEF Partial, Uses, Moves, Enters, GoesOn, Leaves, IsAtomic
  <1>2. ASSUME NEW k \in Partial, k # c
        PROVE  Untouched(k) /\ (AllCome(k)' <=> AllCome(k)) /\ program[k].id \in Ids
    BY <1>1, <1>2, UsesJoin, Elsewhere, UntouchedKeeps, ProgramShape
  <1>3. ASSUME NEW k \in Partial, k # c, program[k].id = program[c].id
        PROVE  Inside(k) = {}
    BY <1>1, <1>3, UsesApart DEF Partial
  <1>4. ASSUME NEW k \in Partial, NEW u \in Inside(k)', pc'[u] = "clear"
        PROVE  AllCome(k)'
    <2>1. CASE k # c
      <3>1. u \in Inside(k) /\ pc[u] = "clear"
        BY <1>2, <1>4, <2>1 DEF Untouched
      <3> QED  BY <1>2, <2>1, <3>1 DEF FenceCounts, Partial
    <2> QED  BY <1>4, <2>1
  <1>5. ASSUME NEW k \in Partial, Inside(k)' # {}, ~ AllCome(k)'
        PROVE  fences'[program[k].id] = Cardinality(Inside(k)')
    <2>1. CASE k # c
      <3>1. Inside(k)' = Inside(k) /\ ~ AllCome(k) /\ program[k].id \in Ids
        BY <1>2, <1>5, <2>1 DEF Untouched
      <3>2. program[k].id # program[c].id
        BY <1>3, <1>5, <2>1, <3>1
      <3> QED  BY <1>5, <3>1, <3>2 DEF FenceCounts, Partial
    <2> QED  BY <1>5, <2>1
  <1>6. ASSUME NEW g \in Ids, \A k \in Partial : program[k].id = g => Inside(k)' = {}
        PROVE  fences'[g] = 0
    <2>1. CASE g # program[c].id
      <3>1. \A k \in Partial : program[k].id = g => Inside(k) = {}
        BY <1>2, <1>6, <2>1 DEF Untouched
      <3> QED  BY <2>1, <3>1 DEF FenceCounts, Partial
    <2> QED  BY <1>6, <2>1
  <1> QED  BY <1>1, <1>4, <1>5, <1>6, Zenon DEF FenceCounts

LEMMA FencesUntouched ==
  ASSUME SyncType, FenceCounts, NEW t \in Threads, Moves(t), fences' = fences,
         program[Current(t)].what # "partial"
  PROVE  FenceCounts'
  <1>1. program' = program /\ Uses(program, "partial")' = Partial
    BY MovesOne DEF Partial, Uses
  <1>2. ASSUME NEW k \in Partial
        PROVE  Untouched(k) /\ (AllCome(k)' <=> AllCome(k)) /\ program[k].id \in Ids
    <2>1. k # Current(t)
      BY DEF Partial, Uses
    <2> QED  BY <1>1, <2>1, UsesJoin, Elsewhere, UntouchedKeeps, ProgramShape
  <1> QED  BY <1>1, <1>2 DEF FenceCounts, Partial, Untouched

(* What a fence shows to a thread that comes to it. *)
LEMMA FenceSeen ==
  ASSUME SyncType, NobodyEarly, FenceCounts, FencesRest(program),
         NEW t \in Threads, ~ Ended(t), NEW c \in Partial, c = Current(t), ~ AllCome(c)
  PROVE  fences[program[c].id] = Cardinality(Inside(c))
  <1>1. CASE Inside(c) # {}
    BY <1>1 DEF FenceCounts, Partial
  <1>2. CASE Inside(c) = {}
    <2>1. \A k \in Partial : program[k].id = program[c].id => Inside(k) = {}
      BY <1>2, UsesApart DEF Partial
    <2>2. program[c].id \in Ids
      BY UsesJoin, ProgramShape
    <2> QED  BY <1>2, <2>1, <2>2, FS_EmptySet DEF FenceCounts, Partial
  <1> QED  BY <1>1, <1>2
-----------------------------------------------------------------------------
(* What each call of a barrier is as a step. *)

LEMMA StepsEnter ==
  ASSUME SyncType, NEW t \in Threads,
         simple_barrier(t) \/ DECADES_PARTIAL_BARRIER(t) \/ DECADES_BARRIER(t)
  PROVE  Enters(t)
  <1>1. ~ Ended(t) /\ pc[t] = "ready" /\ program[Current(t)].what \in Barriers
    BY DEF simple_barrier, DECADES_PARTIAL_BARRIER, DECADES_BARRIER, At, Barriers
  <1>2. Joins(Current(t))
    BY <1>1, CurrentIsNext DEF Joins
  <1>3. /\ \E w \in Wheres \ {"ready"} : pc' = [pc EXCEPT ![t] = w]
        /\ UNCHANGED <<program, pos>>
    BY DEF simple_barrier, DECADES_PARTIAL_BARRIER, DECADES_BARRIER, Goto, Wheres
  <1> QED  BY <1>1, <1>2, <1>3 DEF Enters

LEMMA StepsGoOn ==
  ASSUME SyncType, NEW t \in Threads, ResetCounter(t) \/ TestCount(t) \/ TestZero(t)
  PROVE  GoesOn(t)
  <1>1. ~ Ended(t) /\ pc[t] # "ready" /\ program[Current(t)].what \in Barriers
    BY DEF ResetCounter, TestCount, TestZero, At, Barriers
  <1>2. Joins(Current(t))
    BY <1>1, CurrentIsNext DEF Joins
  <1>3. /\ \E w \in Wheres \ {"ready"} : pc' = [pc EXCEPT ![t] = w]
        /\ UNCHANGED <<program, pos>>
    BY DEF ResetCounter, TestCount, TestZero, Goto, Wheres
  <1> QED  BY <1>1, <1>2, <1>3 DEF GoesOn

LEMMA StepsLeave ==
  ASSUME SyncType, NEW t \in Threads,
         StoreFlag(t) \/ LeaveSpin(t) \/ ClearFence(t) \/ LeaveBarrier(t)
  PROVE  Leaves(t)
  <1>1. ~ Ended(t) /\ pc[t] # "ready" /\ program[Current(t)].what \in Barriers /\ Done(t)
    BY DEF StoreFlag, LeaveSpin, ClearFence, LeaveBarrier, At, Barriers
  <1>2. Joins(Current(t))
    BY <1>1, CurrentIsNext DEF Joins
  <1> QED  BY <1>1, <1>2 DEF Leaves, Done

LEMMA StepsAtomic ==
  ASSUME SyncType, NEW t \in Threads, AtomicStep(t)
  PROVE  IsAtomic(t) /\ ((UNCHANGED pos /\ pc'[t] \in {"cas", "ready"}) \/ Done(t))
  <1>1. ~ Ended(t) /\ program[Current(t)].what \notin Barriers
    BY DEF AtomicStep, fetch_add, compare_exchange, Load, CasSucceeds, CasFails, SwapAfterRead,
           At, Loops, Barriers
  <1>2. Done(t) \/ Goto(t, "cas") \/ Goto(t, "ready")
    BY DEF AtomicStep, fetch_add, compare_exchange, Load, CasSucceeds, CasFails, SwapAfterRead,
           Consider, Returns
  <1>3. "cas" \in Wheres /\ "ready" \in Wheres /\ ~ Joins(Current(t))
    BY <1>1 DEF Wheres, Joins
  <1> QED  BY <1>1, <1>2, <1>3 DEF IsAtomic, Done, Goto, SyncType

(* Only the thread that moves can be somewhere else. *)
LEMMA WhereaboutsKept ==
  ASSUME SyncType, \A u \in Threads : Whereabouts(u), NEW t \in Threads, Moves(t), Whereabouts(t)'
  PROVE  \A u \in Threads : Whereabouts(u)'
  <1>1. /\ program' = program
        /\ \A u \in Threads \ {t} : pos'[u] = pos[u] /\ pc'[u] = pc[u]
    BY MovesOne
  <1>2. ASSUME NEW u \in Threads \ {t} PROVE Whereabouts(u)'
    <2>1. (Ended(u)' <=> Ended(u)) /\ Current(u)' = Current(u) /\ pc'[u] = pc[u]
      BY <1>1, CurrentKept
    <2>2. CallOf(u)' = CallOf(u)
      BY <1>1, <2>1 DEF CallOf
    <2> QED  BY <2>1, <2>2, Zenon DEF Whereabouts
  <1> QED  BY <1>2

LEMMA OwnSensesKept ==
  ASSUME SyncType, OwnSenses, NEW t \in Threads, Moves(t),
         local_sense' = IF Enters(t) /\ CallOf(t).what = "simple"
                        THEN [local_sense EXCEPT ![t] = 1 - @] ELSE local_sense
  PROVE  OwnSenses'
  <1>1. /\ program' = program /\ ~ Ended(t)
        /\ \A u \in Threads \ {t} : pos'[u] = pos[u] /\ pc'[u] = pc[u]
    BY MovesOne DEF Moves, Enters, GoesOn, Leaves, IsAtomic
  <1>2. \A u, k : SenseAt(program', u, k) = SenseAt(program, u, k)
    BY <1>1
  <1>3. ASSUME NEW u \in Threads \ {t}
        PROVE  local_sense'[u] = local_sense[u] /\ SensedTo(u)' = SensedTo(u)
    <2>1. Current(u)' = Current(u) /\ pc'[u] = pc[u] /\ pos'[u] = pos[u] /\ CallOf(u)' = CallOf(u)
      BY <1>1, CurrentKept DEF CallOf
    <2>2. SensedTo(u)' = SensedTo(u)
      BY <2>1, Zenon DEF SensedTo
    <2>3. local_sense'[u] = local_sense[u]
      BY DEF SyncType
    <2> QED  BY <2>2, <2>3
  <1>4. local_sense'[t] = SenseAt(program, t, SensedTo(t)')
    <2> DEFINE c == Current(t)
    <2>1. local_sense[t] = SenseAt(program, t, SensedTo(t)) /\ CallOf(t) = program[c]
      BY DEF OwnSenses, CallOf
    <2>2. SenseAt(program, t, c) = IF program[c].what = "simple" THEN 1 - SenseAt(program, t, pos[t])
                                   ELSE SenseAt(program, t, pos[t])
      BY <1>1, SenseFlips
    <2>3. pos[t] < c /\ c \in Nat /\ pos[t] \in Nat
      BY <1>1, CurrentIsNext
    <2>4. pos'[t] = pos[t] => Current(t)' = c /\ CallOf(t)' = program[c]
      BY <1>1, CurrentKept DEF CallOf
    <2> HIDE DEF c
    <2>5. CASE Enters(t)
      <3>1. pc[t] = "ready" /\ pc'[t] # "ready" /\ pos'[t] = pos[t]
        BY <2>5 DEF Enters, SyncType
      <3>2. SensedTo(t) = pos[t] /\ SensedTo(t)' = IF program[c].what = "simple" THEN c ELSE pos[t]
        BY <2>4, <3>1 DEF SensedTo
      <3>3. CASE program[c].what = "simple"
        <4>1. local_sense'[t] = 1 - local_sense[t]
          BY <2>1, <2>5, <3>3 DEF SyncType
        <4> QED  BY <2>1, <2>2, <3>2, <3>3, <4>1
      <3>4. CASE program[c].what # "simple"
        BY <2>1, <3>2, <3>4
      <3> QED  BY <3>3, <3>4
    <2>6. CASE ~ Enters(t)
      <3>1. local_sense' = local_sense
        BY <2>6
      <3>2. CASE GoesOn(t)
        <4>1. pc[t] # "ready" /\ pc'[t] # "ready" /\ pos'[t] = pos[t]
          BY <3>2 DEF GoesOn, SyncType
        <4>2. SensedTo(t)' = SensedTo(t)
          BY <2>1, <2>4, <4>1 DEF SensedTo, c
        <4> QED  BY <2>1, <3>1, <4>2
      <3>3. CASE Leaves(t)
        <4>1. pc[t] # "ready" /\ pc'[t] = "ready" /\ pos'[t] = c
          BY <3>3 DEF Leaves, SyncType, c
        <4>2. SensedTo(t)' = c /\ SensedTo(t) = IF program[c].what = "simple" THEN c ELSE pos[t]
          BY <2>1, <4>1 DEF SensedTo, c
        <4> QED  BY <2>1, <2>2, <3>1, <4>2
      <3>4. CASE IsAtomic(t)
        <4>1. program[c].what # "simple"
          BY <1>1, <3>4, CurrentIsNext DEF IsAtomic, Joins, c, Barriers
        <4>2. SensedTo(t) = pos[t]
          BY <2>1, <4>1 DEF SensedTo
        <4>3. SensedTo(t)' = pos[t] \/ SensedTo(t)' = c
          BY <2>4, <3>4, <4>1 DEF SensedTo, IsAtomic, SyncType, c
        <4> QED  BY <2>1, <2>2, <3>1, <4>1, <4>2, <4>3
      <3> QED  BY <2>6, <3>2, <3>3, <3>4 DEF Moves
    <2> QED  BY <2>5, <2>6
  <1>5. ASSUME NEW u \in Threads PROVE local_sense'[u] = SenseAt(program', u, SensedTo(u)')
    BY <1>2, <1>3, <1>4 DEF OwnSenses
  <1> QED  BY <1>5 DEF OwnSenses
-----------------------------------------------------------------------------
(* The steps of DECADES_PARTIAL_BARRIER keep the counts of the fences. *)

LEMMA FenceEntered ==
  ASSUME SyncType, NobodyEarly, FenceCounts, FencesRest(program),
         NEW t \in Threads, DECADES_PARTIAL_BARRIER(t)
  PROVE  FenceCounts' /\ fences' \in [Ids -> 0 .. Cardinality(Threads)]
  <1> SUFFICES ASSUME NEW c, c = Current(t)
               PROVE  FenceCounts' /\ fences' \in [Ids -> 0 .. Cardinality(Threads)]
    OBVIOUS
  <1>1. /\ Enters(t) /\ Moves(t) /\ c \in Partial /\ ~ Ended(t) /\ c \in Ks
        /\ program[c].id \in Ids
    <2>1. Enters(t) /\ ~ Ended(t) /\ program[c].what = "partial"
      BY StepsEnter DEF DECADES_PARTIAL_BARRIER, At
    <2> QED  BY <2>1, CurrentIsNext, ProgramShape DEF Moves, Partial, Uses, Ks
  <1>2. /\ Inside(c)' = Inside(c) \cup {t} /\ t \notin Inside(c) /\ ~ AllCome(c)
        /\ program' = program
    BY <1>1, EnterHere DEF AllCome, Inside, Enters
  <1>3. fences[program[c].id] = Cardinality(Inside(c))
    BY <1>1, <1>2, FenceSeen
  <1>4. Cardinality(Inside(c)') = Cardinality(Inside(c)) + 1
        /\ Cardinality(Inside(c)') <= Cardinality(Threads)
    <2>1. IsFiniteSet(Inside(c)) /\ IsFiniteSet(Threads)
      BY <1>1, InsideOfTeam, SyncAssumption
    <2>2. Inside(c)' \subseteq Threads
      BY <1>2 DEF Inside
    <2> QED  BY <1>2, <2>1, <2>2, FS_AddElement, FS_Subset
  <1>5. fences' = [fences EXCEPT ![program[c].id] = Cardinality(Inside(c)')]
    BY <1>1, <1>3, <1>4 DEF DECADES_PARTIAL_BARRIER, CallOf
  <1>6. Cardinality(Inside(c)') \in 0 .. Cardinality(Threads)
    BY <1>1, <1>4, InsideOfTeam
  <1>7. fences' \in [Ids -> 0 .. Cardinality(Threads)]
    BY <1>1, <1>5, <1>6 DEF SyncType
  <1>8. ASSUME NEW u \in Inside(c)', pc'[u] = "clear" PROVE AllCome(c)'
    <2>1. pc'[t] = "test"
      BY DEF DECADES_PARTIAL_BARRIER, Goto, SyncType
    <2>2. u \in Inside(c) /\ pc[u] = "clear"
      BY <1>1, <1>2, <1>8, <2>1, MovesOne DEF Inside
    <2> QED  BY <1>1, <1>2, <2>2 DEF FenceCounts, Partial
  <1>9. /\ \A g \in Ids \ {program[c].id} : fences'[g] = fences[g]
        /\ fences'[program[c].id] = Cardinality(Inside(c)')
        /\ Inside(c)' # {}
    BY <1>1, <1>2, <1>5 DEF SyncType
  <1> QED  BY <1>1, <1>7, <1>8, <1>9, FenceTouched

LEMMA FenceTested ==
  ASSUME SyncType, NobodyEarly, FenceCounts, FencesRest(program),
         NEW t \in Threads, TestCount(t) \/ TestZero(t)
  PROVE  FenceCounts'
  <1> SUFFICES ASSUME NEW c, c = Current(t) PROVE FenceCounts'
    OBVIOUS
  <1>1. /\ GoesOn(t) /\ Moves(t) /\ c \in Partial /\ ~ Ended(t) /\ c \in Ks /\ Joins(c)
        /\ fences' = fences /\ ~ Enters(t)
    <2>1. GoesOn(t) /\ ~ Ended(t) /\ program[c].what = "partial" /\ fences' = fences /\ ~ Enters(t)
      BY StepsGoOn DEF TestCount, TestZero, At, Enters
    <2> QED  BY <2>1, CurrentIsNext, UsesJoin DEF Moves, Partial, Uses, Ks
  <1>2. Inside(c)' = Inside(c) /\ t \in Inside(c) /\ (AllCome(c)' <=> AllCome(c))
    BY <1>1, GoOnHere, ComeForGood
  <1>3. ASSUME ~ AllCome(c) PROVE pc'[t] # "clear"
    <2>1. /\ fences[program[c].id] = Cardinality(Inside(c))
          /\ Cardinality(Inside(c)) < Cardinality(program[c].team)
      BY <1>1, <1>3, FenceSeen, NoneLeft
    <2>2. Cardinality(Inside(c)) # 0
      BY <1>1, <1>2, InsideOfTeam, FS_EmptySet
    <2>3. CASE TestCount(t)
      BY <2>1, <2>3 DEF TestCount, Goto, CallOf, SyncType
    <2>4. CASE TestZero(t)
      BY <2>1, <2>2, <2>4 DEF TestZero, Goto, CallOf, SyncType
    <2> QED  BY <2>3, <2>4
  <1>4. ASSUME NEW u \in Inside(c)', pc'[u] = "clear" PROVE AllCome(c)'
    <2>1. CASE u = t
      BY <1>2, <1>3, <1>4, <2>1
    <2>2. CASE u # t
      <3>1. u \in Inside(c) /\ pc[u] = "clear"
        BY <1>1, <1>2, <1>4, <2>2, MovesOne DEF Inside
      <3> QED  BY <1>1, <1>2, <3>1 DEF FenceCounts, Partial
    <2> QED  BY <2>1, <2>2
  <1>5. ~ AllCome(c)' => fences'[program[c].id] = Cardinality(Inside(c)')
    BY <1>1, <1>2, FenceSeen
  <1> QED  BY <1>1, <1>2, <1>4, <1>5, FenceTouched

LEMMA FenceCleared ==
  ASSUME SyncType, NobodyEarly, FenceCounts, FencesRest(program),
         NEW t \in Threads, ClearFence(t)
  PROVE  /\ FenceCounts' /\ fences' \in [Ids -> 0 .. Cardinality(Threads)]
         /\ AllCome(Current(t))
  <1> SUFFICES ASSUME NEW c, c = Current(t)
               PROVE  /\ FenceCounts' /\ fences' \in [Ids -> 0 .. Cardinality(Threads)]
                      /\ AllCome(c)
    OBVIOUS
  <1>1. /\ Leaves(t) /\ Moves(t) /\ c \in Partial /\ ~ Ended(t) /\ c \in Ks /\ Joins(c)
        /\ program[c].id \in Ids /\ fences' = [fences EXCEPT ![program[c].id] = 0]
        /\ pc[t] = "clear"
    <2>1. Leaves(t) /\ ~ Ended(t) /\ program[c].what = "partial" /\ pc[t] = "clear"
          /\ fences' = [fences EXCEPT ![program[c].id] = 0]
      BY StepsLeave DEF ClearFence, At, CallOf
    <2> QED  BY <2>1, CurrentIsNext, ProgramShape, UsesJoin DEF Moves, Partial, Uses, Ks
  <1>2. AllCome(c) /\ AllCome(c)' /\ Inside(c)' \subseteq Inside(c)
    BY <1>1, LeaveHere, ComeForGood DEF FenceCounts, Partial
  <1>3. fences' \in [Ids -> 0 .. Cardinality(Threads)]
    <2>1. 0 \in 0 .. Cardinality(Threads)
      BY <1>1, InsideOfTeam
    <2> QED  BY <1>1, <2>1 DEF SyncType
  <1>4. /\ \A g \in Ids \ {program[c].id} : fences'[g] = fences[g]
        /\ fences'[program[c].id] = 0
    BY <1>1 DEF SyncType
  <1> QED  BY <1>1, <1>2, <1>3, <1>4, FenceTouched

-----------------------------------------------------------------------------
(* barrier_types *)

(* A thread at a use of simple_barrier has seen those before it released,  *)
(* and counts on the use it comes to.                                      *)
LEMMA FirstHere ==
  ASSUME SyncType, NobodyEarly, OneOpens, TeamsStay(program),
         NEW t \in Threads, ~ Ended(t), NEW c \in Simple, c = Current(t)
  PROVE  First(c)
  <1> SUFFICES ASSUME NEW j \in Simple, j < c, SameType(j, c) PROVE Released(j)
    BY DEF First, Simple
  <1>1. /\ Joins(c) /\ Joins(j) /\ c \in Ks /\ j \in Ks /\ c \in Nat /\ j \in Nat
        /\ program[j].team = program[c].team
    BY UsesJoin, ProgramShape DEF TeamsStay, Simple, SameType
  <1>2. t \in program[j].team /\ pos[t] >= j
    BY <1>1, CurrentIsNext
  <1>3. AllCome(j)
    BY <1>1, <1>2 DEF NobodyEarly, AllCome, Come, Joins, Ks
  <1>4. pos[t] \in Nat
    BY CurrentIsNext
  <1>5. \A u \in Inside(j) : pc[u] \notin Opening
    BY <1>1, <1>2, <1>4 DEF OneOpens, Simple
  <1> QED  BY <1>3, <1>5 DEF Released

(* A step in a use of a barrier_type concerns only those after it. *)
LEMMA SenseTouched ==
  ASSUME SyncType, OneOpens, FirstCounts, NEW t \in Threads, Moves(t), ~ Ended(t),
         NEW c \in Simple, c = Current(t), First(c),
         \A g \in Ids \ {program[c].id} : counter'[g] = counter[g] /\ flag'[g] = flag[g],
         \A v \in Inside(c)' : pc'[v] \in Opening =>
           /\ AllCome(c)'
           /\ \A u \in program[c].team : pos'[u] < c
           /\ \A u \in Inside(c)' : pc'[u] \in Opening => u = v,
         ~ Released(c)' =>
           /\ counter'[program[c].id] = CounterOf(c)'
           /\ \A u \in program[c].team : flag'[program[c].id] # SenseAt(program, u, c),
         \A k \in Simple : c < k /\ SameType(c, k) /\ Released(c)' /\ First(k)' /\ ~ Released(k) =>
           /\ counter'[program[c].id] = CounterOf(k)
           /\ \A u \in program[k].team : flag'[program[c].id] # SenseAt(program, u, k)
  PROVE  OneOpens' /\ FirstCounts'
  <1>1. program' = program /\ Uses(program, "simple")' = Simple
        /\ pos' \in [Threads -> 0 .. Len(program)]
    BY MovesOne DEF Simple, Uses
  <1>2. ASSUME NEW k \in Simple, k # c
        PROVE  /\ Untouched(k) /\ (AllCome(k)' <=> AllCome(k)) /\ (Released(k)' <=> Released(k))
               /\ CounterOf(k)' = CounterOf(k) /\ program[k].id \in Ids /\ k \in Nat
               /\ program[k].team \subseteq Threads
    BY <1>1, <1>2, UsesJoin, Elsewhere, UntouchedKeeps, ProgramShape
  <1>3. ASSUME NEW k \in Simple, NEW v \in Inside(k)', pc'[v] \in Opening
        PROVE  /\ AllCome(k)'
               /\ \A u \in program[k].team : pos'[u] < k
               /\ \A u \in Inside(k)' : pc'[u] \in Opening => u = v
    <2>1. CASE k # c
      <3>1. /\ Inside(k)' = Inside(k) /\ \A u \in Inside(k) : pc'[u] = pc[u]
            /\ \A u \in program[k].team : pos'[u] >= k <=> pos[u] >= k
        BY <1>2, <2>1 DEF Untouched
      <3>2. /\ AllCome(k)
            /\ \A u \in program[k].team : pos[u] < k
            /\ \A u \in Inside(k) : pc[u] \in Opening => u = v
        BY <1>3, <3>1 DEF OneOpens, Simple
      <3>3. \A u \in program[k].team : pos[u] \in Nat /\ pos'[u] \in Nat
        BY <1>1, <1>2, <2>1, ProgramShape DEF SyncType
      <3> QED  BY <1>2, <2>1, <3>1, <3>2, <3>3
    <2> QED  BY <1>3, <2>1
  <1>4. ASSUME NEW k \in Simple, First(k)', ~ Released(k)'
        PROVE  /\ counter'[program[k].id] = CounterOf(k)'
               /\ \A u \in program[k].team : flag'[program[k].id] # SenseAt(program, u, k)
    <2>1. \A j \in Simple : j < k /\ SameType(j, k) => Released(j)'
      BY <1>1, <1>4, Zenon DEF First, SameType
    <2>2. CASE k = c
      BY <1>4, <2>2
    <2>3. CASE k # c /\ SameType(c, k)
      <3>1. c \in Nat /\ k \in Nat
        BY UsesJoin, ProgramShape
      <3>2. CASE k < c
        <4>1. Released(k)
          BY <2>3, <3>2 DEF First, SameType, Simple
        <4> QED  BY <1>2, <1>4, <2>3, <4>1
      <3>3. CASE c < k
        <4>1. Released(c)' /\ ~ Released(k) /\ CounterOf(k)' = CounterOf(k)
          BY <1>2, <1>4, <2>1, <2>3, <3>3
        <4> QED  BY <1>4, <2>3, <3>3, <4>1 DEF SameType
      <3> QED  BY <2>3, <3>1, <3>2, <3>3
    <2>4. CASE k # c /\ ~ SameType(c, k)
      <3>1. \A j \in Simple : j < k /\ SameType(j, k) => Released(j)
        BY <1>2, <2>1, <2>4 DEF SameType
      <3>2. First(k) /\ ~ Released(k) /\ CounterOf(k)' = CounterOf(k)
        BY <1>2, <1>4, <2>4, <3>1 DEF First, Simple
      <3>3. counter'[program[k].id] = counter[program[k].id] /\ flag'[program[k].id] = flag[program[k].id]
        BY <1>2, <2>4 DEF SameType
      <3> QED  BY <3>2, <3>3 DEF FirstCounts, Simple
    <2> QED  BY <2>2, <2>3, <2>4
  <1>5. OneOpens'
    BY <1>1, <1>3, Zenon DEF OneOpens
  <1>6. FirstCounts'
    BY <1>1, <1>4, Zenon DEF FirstCounts
  <1> QED  BY <1>5, <1>6

LEMMA SensesUntouched ==
  ASSUME SyncType, OneOpens, FirstCounts, NEW t \in Threads, Moves(t),
         counter' = counter, flag' = flag, program[Current(t)].what # "simple"
  PROVE  OneOpens' /\ FirstCounts'
  <1>1. program' = program /\ Uses(program, "simple")' = Simple
        /\ pos' \in [Threads -> 0 .. Len(program)]
    BY MovesOne DEF Simple, Uses
  <1>2. ASSUME NEW k \in Simple
        PROVE  /\ Untouched(k) /\ (AllCome(k)' <=> AllCome(k)) /\ (Released(k)' <=> Released(k))
               /\ CounterOf(k)' = CounterOf(k) /\ k \in Nat /\ program[k].team \subseteq Threads
    <2>1. k # Current(t)
      BY DEF Simple, Uses
    <2> QED  BY <1>1, <2>1, UsesJoin, Elsewhere, UntouchedKeeps, ProgramShape
  <1>3. \A k \in Simple : First(k)' <=> First(k)
    BY <1>1, <1>2, Zenon DEF First, Simple, SameType
  <1>4. \A k \in Simple : \A u \in program[k].team : pos'[u] < k <=> pos[u] < k
    <2>1. \A k \in Simple : \A u \in program[k].team : pos[u] \in Nat /\ pos'[u] \in Nat
      BY <1>1, <1>2, ProgramShape DEF SyncType
    <2> QED  BY <1>2, <2>1 DEF Untouched
  <1>5. OneOpens'
    BY <1>1, <1>2, <1>4 DEF OneOpens, Simple, Untouched
  <1>6. FirstCounts'
    BY <1>1, <1>2, <1>3, Zenon DEF FirstCounts, Simple
  <1> QED  BY <1>5, <1>6
(* The steps of simple_barrier. *)

LEMMA SenseArrives ==
  ASSUME SyncType, NobodyEarly, OneOpens, FirstCounts, Serves(program),
         NEW t \in Threads, simple_barrier(t)
  PROVE  OneOpens' /\ FirstCounts' /\ counter' \in [Ids -> 0 .. Cardinality(Threads)]
  <1> SUFFICES ASSUME NEW c, c = Current(t)
               PROVE  OneOpens' /\ FirstCounts' /\ counter' \in [Ids -> 0 .. Cardinality(Threads)]
    OBVIOUS
  <1>1. /\ Enters(t) /\ Moves(t) /\ c \in Simple /\ ~ Ended(t) /\ c \in Ks /\ Joins(c)
        /\ program[c].id \in Ids /\ c \in Nat
    <2>1. Enters(t) /\ ~ Ended(t) /\ program[c].what = "simple"
      BY StepsEnter DEF simple_barrier, At
    <2> QED  BY <2>1, CurrentIsNext, ProgramShape, UsesJoin DEF Moves, Simple, Uses, Ks
  <1>2. First(c)
    BY <1>1, FirstHere DEF Serves
  <1>3. /\ Inside(c)' = Inside(c) \cup {t} /\ t \notin Inside(c) /\ ~ AllCome(c)
        /\ program' = program /\ pos' = pos
    BY <1>1, EnterHere DEF AllCome, Inside, Enters
  <1>4. /\ \A u \in Inside(c) : pc[u] \notin Opening /\ pc'[u] = pc[u]
        /\ \A u \in program[c].team : ~ pos[u] >= c /\ pos[u] < c
    <2>1. \A u \in Inside(c) : pc'[u] = pc[u]
      BY <1>1, <1>3, MovesOne DEF Inside
    <2>2. \A u \in program[c].team : ~ pos[u] >= c /\ pos[u] \in Nat
      BY <1>1, <1>3, NoneLeft, ProgramShape DEF SyncType
    <2> QED  BY <1>1, <1>3, <2>1, <2>2 DEF OneOpens, Simple
  <1>5. counter[program[c].id] = Cardinality(Inside(c))
    <2>1. ~ \E u \in Inside(c) : pc[u] = "release"
      BY <1>4 DEF Opening
    <2> QED  BY <1>1, <1>2, <1>3, <2>1 DEF FirstCounts, Released, CounterOf, Simple
  <1>6. Cardinality(Inside(c)') = Cardinality(Inside(c)) + 1
        /\ Cardinality(Inside(c)') \in 0 .. Cardinality(Threads)
    <2>1. IsFiniteSet(Inside(c)) /\ IsFiniteSet(Threads) /\ Cardinality(Inside(c)) \in Nat
      BY <1>1, InsideOfTeam, SyncAssumption
    <2>2. Inside(c)' \subseteq Threads
      BY <1>3 DEF Inside
    <2>3. Cardinality(Inside(c)') \in Nat /\ Cardinality(Threads) \in Nat
          /\ Cardinality(Inside(c)') <= Cardinality(Threads)
      BY <2>1, <2>2, FS_Subset, FS_CardinalityType
    <2>4. Cardinality(Inside(c)') = Cardinality(Inside(c)) + 1
      BY <1>3, <2>1, FS_AddElement
    <2>5. Cardinality(Inside(c)') \in 0 .. Cardinality(Threads)
      BY <2>3
    <2> QED  BY <2>4, <2>5
  <1>7. /\ counter' = [counter EXCEPT ![program[c].id] = Cardinality(Inside(c)')]
        /\ pc'[t] = IF Cardinality(Inside(c)') = Cardinality(program[c].team) THEN "reset" ELSE "spin"
        /\ flag' = flag
    BY <1>5, <1>6 DEF simple_barrier, CallOf, Goto, SyncType
  <1>8. counter' \in [Ids -> 0 .. Cardinality(Threads)]
    BY <1>1, <1>6, <1>7 DEF SyncType
  <1>9. Inside(c)' \subseteq program[c].team /\ IsFiniteSet(program[c].team)
    BY <1>1, <1>3, InsideOfTeam, EnterHere, ProgramShape
  <1>10. /\ \A u \in program[c].team : pos'[u] < c
         /\ AllCome(c)' <=> Inside(c)' = program[c].team
    <2>1. \A u \in program[c].team : Come(u, c)' <=> u \in Inside(c)'
      <3>1. \A u \in program[c].team : Come(u, c)' <=> InBarrier(u, c)'
        BY <1>3, <1>4 DEF Come
      <3>2. \A u \in program[c].team : u \in Threads
        BY <1>1, ProgramShape
      <3> QED  BY <3>1, <3>2 DEF Inside
    <2> QED  BY <1>3, <1>4, <1>9, <2>1 DEF AllCome
  <1>11. ASSUME NEW v \in Inside(c)', pc'[v] \in Opening
         PROVE  /\ AllCome(c)'
                /\ \A u \in program[c].team : pos'[u] < c
                /\ \A u \in Inside(c)' : pc'[u] \in Opening => u = v
    <2>1. v = t /\ \A u \in Inside(c)' : pc'[u] \in Opening => u = t
      BY <1>3, <1>4, <1>11
    <2>2. Cardinality(Inside(c)') = Cardinality(program[c].team)
      BY <1>7, <1>11, <2>1 DEF Opening
    <2>3. Inside(c)' = program[c].team
      BY <1>9, <2>2, FS_Subset
    <2> QED  BY <1>10, <2>1, <2>3
  <1>12. ~ Released(c)'
    <2>1. CASE AllCome(c)'
      <3>1. pc'[t] = "reset" /\ t \in Inside(c)'
        BY <1>3, <1>7, <1>10, <2>1
      <3> QED  BY <3>1 DEF Released, Opening
    <2> QED  BY <2>1 DEF Released
  <1>13. counter'[program[c].id] = CounterOf(c)'
    <2>1. ~ \E u \in Inside(c)' : pc'[u] = "release"
      BY <1>3, <1>4, <1>7 DEF Opening
    <2>2. counter'[program[c].id] = Cardinality(Inside(c)')
      BY <1>1, <1>7 DEF SyncType
    <2> QED  BY <2>1, <2>2, Zenon DEF CounterOf
  <1>14. \A u \in program[c].team : flag'[program[c].id] # SenseAt(program, u, c)
    BY <1>1, <1>2, <1>3, <1>7 DEF FirstCounts, Released, Simple
  <1>15. \A g \in Ids \ {program[c].id} : counter'[g] = counter[g] /\ flag'[g] = flag[g]
    BY <1>7 DEF SyncType
  <1>16. OneOpens' /\ FirstCounts'
    BY <1>1, <1>2, <1>11, <1>12, <1>13, <1>14, <1>15, SenseTouched
  <1> QED  BY <1>8, <1>16

LEMMA SenseReset ==
  ASSUME SyncType, NobodyEarly, OneOpens, FirstCounts, Serves(program),
         NEW t \in Threads, ResetCounter(t)
  PROVE  OneOpens' /\ FirstCounts' /\ counter' \in [Ids -> 0 .. Cardinality(Threads)]
  <1> SUFFICES ASSUME NEW c, c = Current(t)
               PROVE  OneOpens' /\ FirstCounts' /\ counter' \in [Ids -> 0 .. Cardinality(Threads)]
    OBVIOUS
  <1>1. /\ GoesOn(t) /\ Moves(t) /\ c \in Simple /\ ~ Ended(t) /\ c \in Ks /\ Joins(c)
        /\ program[c].id \in Ids /\ ~ Enters(t) /\ pc[t] = "reset" /\ pc'[t] = "release"
        /\ counter' = [counter EXCEPT ![program[c].id] = 0] /\ flag' = flag
    <2>1. GoesOn(t) /\ ~ Ended(t) /\ program[c].what = "simple" /\ pc[t] = "reset" /\ ~ Enters(t)
      BY StepsGoOn DEF ResetCounter, At, Enters
    <2>2. pc'[t] = "release" /\ flag' = flag /\ counter' = [counter EXCEPT ![program[c].id] = 0]
      BY DEF ResetCounter, Goto, SyncType, CallOf
    <2> QED  BY <2>1, <2>2, CurrentIsNext, ProgramShape, UsesJoin DEF Moves, Simple, Uses, Ks
  <1>2. First(c)
    BY <1>1, FirstHere DEF Serves
  <1>3. /\ Inside(c)' = Inside(c) /\ t \in Inside(c) /\ (AllCome(c)' <=> AllCome(c))
        /\ program' = program /\ pos' = pos
    BY <1>1, GoOnHere, ComeForGood, MovesOne
  <1>4. /\ AllCome(c) /\ \A u \in program[c].team : pos[u] < c
        /\ \A u \in Inside(c) : pc[u] \in Opening => u = t
        /\ ~ Released(c)
    BY <1>1, <1>3 DEF OneOpens, Opening, Simple, Released
  <1>5. \A u \in Inside(c) : pc'[u] \in Opening => u = t
    <2>1. \A u \in Inside(c) : u # t => pc'[u] = pc[u]
      BY <1>1, MovesOne DEF Inside
    <2> QED  BY <1>4, <2>1
  <1>6. ~ Released(c)'
    BY <1>1, <1>3 DEF Released, Opening
  <1>7. counter'[program[c].id] = CounterOf(c)'
    <2>1. \E u \in Inside(c)' : pc'[u] = "release"
      BY <1>1, <1>3
    <2> QED  BY <1>1, <2>1 DEF CounterOf, SyncType
  <1>8. \A u \in program[c].team : flag'[program[c].id] # SenseAt(program, u, c)
    BY <1>1, <1>2, <1>4 DEF FirstCounts, Simple
  <1>9. counter' \in [Ids -> 0 .. Cardinality(Threads)]
    <2>1. 0 \in 0 .. Cardinality(Threads)
      BY <1>1, InsideOfTeam
    <2> QED  BY <1>1, <2>1 DEF SyncType
  <1>10. \A g \in Ids \ {program[c].id} : counter'[g] = counter[g] /\ flag'[g] = flag[g]
    BY <1>1 DEF SyncType
  <1>11. OneOpens' /\ FirstCounts'
    BY <1>1, <1>2, <1>3, <1>4, <1>5, <1>6, <1>7, <1>8, <1>10, SenseTouched
  <1> QED  BY <1>9, <1>11

(* The flag shows the sense of the use that ends, which is not that of the *)
(* next one, and the counter is 0 as it was for the first.                 *)
LEMMA SenseReleases ==
  ASSUME SyncType, NobodyEarly, OneOpens, FirstCounts, OwnSenses, Serves(program),
         NEW t \in Threads, StoreFlag(t)
  PROVE  OneOpens' /\ FirstCounts' /\ flag' \in [Ids -> 0 .. 1] /\ AllCome(Current(t))
  <1> SUFFICES ASSUME NEW c, c = Current(t)
               PROVE  OneOpens' /\ FirstCounts' /\ flag' \in [Ids -> 0 .. 1] /\ AllCome(c)
    OBVIOUS
  <1>1. /\ Leaves(t) /\ Moves(t) /\ c \in Simple /\ ~ Ended(t) /\ c \in Ks /\ Joins(c)
        /\ program[c].id \in Ids /\ c \in Nat /\ pc[t] = "release" /\ program[c].what = "simple"
        /\ flag' = [flag EXCEPT ![program[c].id] = local_sense[t]] /\ counter' = counter
    <2>1. Leaves(t) /\ ~ Ended(t) /\ program[c].what = "simple" /\ pc[t] = "release"
      BY StepsLeave DEF StoreFlag, At
    <2>2. flag' = [flag EXCEPT ![program[c].id] = local_sense[t]] /\ counter' = counter
      BY DEF StoreFlag, CallOf
    <2> QED  BY <2>1, <2>2, CurrentIsNext, ProgramShape, UsesJoin DEF Moves, Simple, Uses, Ks
  <1>2. First(c)
    BY <1>1, FirstHere DEF Serves
  <1>3. /\ Inside(c)' = Inside(c) \ {t} /\ t \in Inside(c) /\ program' = program
        /\ pos'[t] = c /\ t \in program[c].team /\ \A k : ~ InBarrier(t, k)'
    BY <1>1, LeaveHere, MovesOne
  <1>4. /\ AllCome(c) /\ \A u \in program[c].team : pos[u] < c
        /\ \A u \in Inside(c) : pc[u] \in Opening => u = t
        /\ ~ Released(c)
    BY <1>1, <1>3 DEF OneOpens, Opening, Simple, Released
  <1>5. \A u \in Inside(c)' : pc'[u] \notin Opening
    <2>1. \A u \in Inside(c)' : u # t /\ pc'[u] = pc[u] /\ u \in Inside(c)
      BY <1>1, <1>3, MovesOne DEF Inside
    <2> QED  BY <1>4, <2>1
  <1>6. Released(c)'
    BY <1>1, <1>4, <1>5, ComeForGood DEF Released
  <1>7. local_sense[t] = SenseAt(program, t, c)
    BY <1>1 DEF OwnSenses, SensedTo, CallOf
  <1>8. counter[program[c].id] = 0
    BY <1>1, <1>2, <1>3, <1>4 DEF FirstCounts, CounterOf, Simple
  <1>9. ASSUME NEW k \in Simple, c < k, SameType(c, k), First(k)'
        PROVE  /\ counter'[program[c].id] = CounterOf(k)
               /\ \A u \in program[k].team : flag'[program[c].id] # SenseAt(program, u, k)
    <2>1. /\ k \in Ks /\ Joins(k) /\ k \in Nat /\ program[k].team = program[c].team
      BY <1>1, <1>9, UsesJoin, ProgramShape DEF SameType, Serves, TeamsStay, Simple
    <2>2. Inside(k) = {}
      <3>1. ASSUME NEW u \in Inside(k) PROVE FALSE
        <4>1. u \in program[c].team /\ u \in Threads /\ InBarrier(u, k)
          BY <2>1, InsideOfTeam DEF Inside
        <4>2. pos[u] >= c
          BY <1>1, <1>9, <2>1, <4>1, ComeMeansPassed DEF Come
        <4>3. pos[u] \in Nat
          BY <4>1 DEF SyncType
        <4> QED  BY <1>1, <1>4, <4>1, <4>2, <4>3
      <3> QED  BY <3>1
    <2>3. CounterOf(k) = 0
      BY <2>2, FS_EmptySet DEF CounterOf
    <2>4. ASSUME NEW i \in Simple, i < k, SameType(i, k) PROVE i <= c
      <3>1. Released(i)'
        BY <1>3, <1>9, <2>4 DEF First, SameType, Simple, Uses
      <3>2. t \in program[i].team /\ i \in Nat
        BY <1>1, <1>3, <1>9, <2>4, UsesJoin, ProgramShape DEF SameType, Serves, TeamsStay, Simple
      <3>3. Come(t, i)'
        BY <1>3, <3>1, <3>2 DEF Released, AllCome
      <3>4. c >= i
        BY <1>3, <3>3 DEF Come
      <3> QED  BY <1>1, <3>2, <3>4
    <2>5. ASSUME NEW u \in program[k].team PROVE SenseAt(program, t, c) # SenseAt(program, u, k)
      BY <1>1, <1>3, <1>9, <2>4, <2>5, SensesDiffer DEF Serves, Simple
    <2>6. flag'[program[c].id] = SenseAt(program, t, c)
      BY <1>1, <1>7 DEF SyncType
    <2> QED  BY <1>1, <1>8, <2>3, <2>5, <2>6
  <1>10. flag' \in [Ids -> 0 .. 1]
    BY <1>1 DEF SyncType
  <1>11. \A g \in Ids \ {program[c].id} : counter'[g] = counter[g] /\ flag'[g] = flag[g]
    BY <1>1 DEF SyncType
  <1>12. OneOpens' /\ FirstCounts'
    BY <1>1, <1>2, <1>5, <1>6, <1>9, <1>11, SenseTouched
  <1> QED  BY <1>4, <1>10, <1>12

LEMMA SenseLeaves ==
  ASSUME SyncType, NobodyEarly, OneOpens, FirstCounts, OwnSenses, Serves(program),
         NEW t \in Threads, LeaveSpin(t)
  PROVE  OneOpens' /\ FirstCounts' /\ AllCome(Current(t))
  <1> SUFFICES ASSUME NEW c, c = Current(t)
               PROVE  OneOpens' /\ FirstCounts' /\ AllCome(c)
    OBVIOUS
  <1>1. /\ Leaves(t) /\ Moves(t) /\ c \in Simple /\ ~ Ended(t) /\ c \in Ks /\ Joins(c)
        /\ program[c].id \in Ids /\ pc[t] = "spin" /\ program[c].what = "simple"
        /\ flag' = flag /\ counter' = counter /\ flag[program[c].id] = local_sense[t]
    <2>1. Leaves(t) /\ ~ Ended(t) /\ program[c].what = "simple" /\ pc[t] = "spin"
      BY StepsLeave DEF LeaveSpin, At
    <2>2. flag' = flag /\ counter' = counter /\ flag[program[c].id] = local_sense[t]
      BY DEF LeaveSpin, CallOf, senses
    <2> QED  BY <2>1, <2>2, CurrentIsNext, ProgramShape, UsesJoin DEF Moves, Simple, Uses, Ks
  <1>2. First(c)
    BY <1>1, FirstHere DEF Serves
  <1>3. local_sense[t] = SenseAt(program, t, c) /\ t \in program[c].team
    BY <1>1, CurrentIsNext DEF OwnSenses, SensedTo, CallOf
  <1>4. Released(c)
    BY <1>1, <1>2, <1>3 DEF FirstCounts, Simple
  <1>5. Inside(c)' \subseteq Inside(c) /\ \A u \in Inside(c)' : pc'[u] = pc[u]
    <2>1. Inside(c)' = Inside(c) \ {t}
      BY <1>1, LeaveHere
    <2>2. \A u \in Inside(c)' : u \in Threads \ {t}
      BY <2>1 DEF Inside
    <2> QED  BY <1>1, <2>1, <2>2, MovesOne
  <1>6. AllCome(c)' /\ \A u \in Inside(c)' : pc'[u] \notin Opening
    BY <1>1, <1>4, <1>5, ComeForGood DEF Released
  <1>7. Released(c)'
    BY <1>6 DEF Released
  <1>8. ASSUME NEW k \in Simple, SameType(c, k), First(k)', ~ Released(k)
        PROVE  /\ counter'[program[c].id] = CounterOf(k)
               /\ \A u \in program[k].team : flag'[program[c].id] # SenseAt(program, u, k)
    <2>1. program' = program
      BY <1>1, MovesOne
    <2>2. ASSUME NEW j \in Simple, j < k, SameType(j, k) PROVE Released(j)
      <3>1. Released(j)'
        BY <1>8, <2>1, <2>2 DEF First, SameType, Simple, Uses
      <3>2. CASE j # c
        BY <1>1, <2>1, <3>1, <3>2, UsesJoin, Elsewhere, UntouchedKeeps
      <3> QED  BY <1>4, <3>2
    <2>3. First(k)
      BY <2>2 DEF First, Simple
    <2> QED  BY <1>1, <1>8, <2>3 DEF FirstCounts, Simple, SameType
  <1>9. OneOpens' /\ FirstCounts'
    BY <1>1, <1>2, <1>6, <1>7, <1>8, SenseTouched
  <1> QED  BY <1>4, <1>9 DEF Released
-----------------------------------------------------------------------------
(* Every step keeps the invariant. *)

LEMMA ZeroIsWord ==
  /\ 0 \in Word /\ \A w, v \in Word : Plus(w, v) \in Word
  /\ 0 \in 0 .. Cardinality(Threads)
  <1>1. Modulus \in Nat \ {0} /\ Cardinality(Threads) \in Nat
    BY SyncAssumption, FS_CardinalityType
  <1> HIDE DEF Modulus
  <1>2. \A x \in Nat : x % Modulus \in 0 .. Modulus - 1
    BY <1>1
  <1> QED  BY <1>1, <1>2 DEF Word, Plus

LEMMA AtomicTypes ==
  ASSUME SyncType, NEW t \in Threads, AtomicStep(t)
  PROVE  word' \in Word /\ tmp' \in [Threads -> Word]
  <1>1. /\ word \in Word /\ tmp \in [Threads -> Word] /\ tmp[t] \in Word
        /\ CallOf(t).arg[t] \in Word /\ CallOf(t).expect \in Word
    <2>1. ~ Ended(t)
      BY DEF AtomicStep, fetch_add, compare_exchange, Load, CasSucceeds, CasFails, SwapAfterRead,
             At, Loops
    <2> QED  BY <2>1, CurrentIsNext, ProgramShape DEF CallOf, SyncType
  <1>2. Plus(word, CallOf(t).arg[t]) \in Word /\ Plus(tmp[t], CallOf(t).arg[t]) \in Word
    BY <1>1, ZeroIsWord
  <1>3. word' \in Word
    BY <1>1, <1>2, Zenon
       DEF AtomicStep, fetch_add, compare_exchange, Load, CasSucceeds, CasFails, SwapAfterRead,
           NewWord
  <1>4. \/ tmp' = [tmp EXCEPT ![t] = 0]
        \/ tmp' = [tmp EXCEPT ![t] = word]
    BY DEF AtomicStep, fetch_add, compare_exchange, Load, CasSucceeds, CasFails, SwapAfterRead,
           Consider, Returns
  <1> QED  BY <1>1, <1>3, <1>4, ZeroIsWord

LEMMA StepTypes ==
  ASSUME SyncType, NEW t \in Threads, Moves(t),
         counter' \in [Ids -> 0 .. Cardinality(Threads)],
         fences' \in [Ids -> 0 .. Cardinality(Threads)],
         flag' \in [Ids -> 0 .. 1], local_sense' \in [Threads -> 0 .. 1],
         word' \in Word, tmp' \in [Threads -> Word]
  PROVE  SyncType'
  BY MovesOne DEF SyncType

LEMMA StepWhereabouts ==
  ASSUME SyncType, \A u \in Threads : Whereabouts(u), NEW t \in Threads,
         BarrierStep(t) \/ AtomicStep(t)
  PROVE  Moves(t) /\ \A u \in Threads : Whereabouts(u)'
  <1>1. ASSUME NEW w, pc' = [pc EXCEPT ![t] = w], UNCHANGED <<program, pos>>, ~ Ended(t),
               LET what == CallOf(t).what
               IN  /\ w \in {"spin", "reset", "release"} <=> what = "simple"
                   /\ w \in {"test", "zero", "clear"} <=> what = "partial"
                   /\ w = "wait" <=> what = "omp"
                   /\ w = "cas" <=> what \notin Barriers
        PROVE  Whereabouts(t)'
    <2>1. ~ Ended(t)' /\ CallOf(t)' = CallOf(t) /\ pc'[t] = w
      BY <1>1, CurrentKept DEF CallOf, SyncType
    <2> QED  BY <1>1, <2>1, Zenon DEF Whereabouts
  <1>2. Leaves(t) => Whereabouts(t)'
    BY DEF Leaves, Whereabouts, SyncType
  <1>3. CASE simple_barrier(t)
    <2>1. ~ Ended(t) /\ CallOf(t).what = "simple" /\ Moves(t)
      BY <1>3, StepsEnter DEF simple_barrier, At, Moves, CallOf
    <2>2. \E w \in {"reset", "spin"} : pc' = [pc EXCEPT ![t] = w] /\ UNCHANGED <<program, pos>>
      BY <1>3 DEF simple_barrier, Goto
    <2> QED  BY <1>1, <2>1, <2>2, WhereaboutsKept DEF Barriers
  <1>4. CASE DECADES_PARTIAL_BARRIER(t)
    <2>1. ~ Ended(t) /\ CallOf(t).what = "partial" /\ Moves(t)
      BY <1>4, StepsEnter DEF DECADES_PARTIAL_BARRIER, At, Moves, CallOf
    <2>2. pc' = [pc EXCEPT ![t] = "test"] /\ UNCHANGED <<program, pos>>
      BY <1>4 DEF DECADES_PARTIAL_BARRIER, Goto
    <2> QED  BY <1>1, <2>1, <2>2, WhereaboutsKept DEF Barriers
  <1>5. CASE DECADES_BARRIER(t)
    <2>1. ~ Ended(t) /\ CallOf(t).what = "omp" /\ Moves(t)
      BY <1>5, StepsEnter DEF DECADES_BARRIER, At, Moves, CallOf
    <2>2. pc' = [pc EXCEPT ![t] = "wait"] /\ UNCHANGED <<program, pos>>
      BY <1>5 DEF DECADES_BARRIER, Goto
    <2> QED  BY <1>1, <2>1, <2>2, WhereaboutsKept DEF Barriers
  <1>6. CASE ResetCounter(t)
    <2>1. ~ Ended(t) /\ CallOf(t).what = "simple" /\ Moves(t)
      BY <1>6, StepsGoOn DEF ResetCounter, At, Moves, CallOf
    <2>2. pc' = [pc EXCEPT ![t] = "release"] /\ UNCHANGED <<program, pos>>
      BY <1>6 DEF ResetCounter, Goto
    <2> QED  BY <1>1, <2>1, <2>2, WhereaboutsKept DEF Barriers
  <1>7. CASE TestCount(t) \/ TestZero(t)
    <2>1. ~ Ended(t) /\ CallOf(t).what = "partial" /\ Moves(t)
      BY <1>7, StepsGoOn DEF TestCount, TestZero, At, Moves, CallOf
    <2>2. \E w \in {"test", "zero", "clear"} :
            pc' = [pc EXCEPT ![t] = w] /\ UNCHANGED <<program, pos>>
      BY <1>7 DEF TestCount, TestZero, Goto
    <2> QED  BY <1>1, <2>1, <2>2, WhereaboutsKept DEF Barriers
  <1>8. CASE StoreFlag(t) \/ LeaveSpin(t) \/ ClearFence(t) \/ LeaveBarrier(t)
    BY <1>2, <1>8, StepsLeave, WhereaboutsKept DEF Moves
  <1>9. CASE AtomicStep(t)
    <2>1. ~ Ended(t) /\ CallOf(t).what \notin Barriers /\ Moves(t)
      BY <1>9, StepsAtomic DEF Moves, AtomicStep, fetch_add, compare_exchange, Load, CasSucceeds,
         CasFails, SwapAfterRead, At, Loops, Barriers, CallOf
    <2>2. \/ pc'[t] = "ready"
          \/ pc' = [pc EXCEPT ![t] = "cas"] /\ UNCHANGED <<program, pos>>
      BY <1>9 DEF AtomicStep, fetch_add, compare_exchange, Load, CasSucceeds, CasFails,
         SwapAfterRead, Consider, Returns, Done, Goto, SyncType
    <2>3. CASE pc'[t] = "ready"
      BY <2>1, <2>3, WhereaboutsKept DEF Whereabouts
    <2>4. CASE pc' = [pc EXCEPT ![t] = "cas"] /\ UNCHANGED <<program, pos>>
      BY <1>1, <2>1, <2>4, WhereaboutsKept DEF Barriers
    <2> QED  BY <2>2, <2>3, <2>4
  <1> QED  BY <1>3, <1>4, <1>5, <1>6, <1>7, <1>8, <1>9 DEF BarrierStep

LEMMA StepKeeps ==
  ASSUME SyncInv, Serves(program), NEW t \in Threads, BarrierStep(t) \/ AtomicStep(t)
  PROVE  SyncInv'
  <1> USE DEF SyncInv
  <1>1. Moves(t) /\ \A u \in Threads : Whereabouts(u)'
    BY StepWhereabouts
  <1>2. /\ SyncType /\ NobodyEarly /\ FenceCounts /\ OneOpens /\ FirstCounts /\ OwnSenses
        /\ FencesRest(program)
    BY DEF Serves
  <1>3. /\ counter \in [Ids -> 0 .. Cardinality(Threads)]
        /\ fences \in [Ids -> 0 .. Cardinality(Threads)]
        /\ flag \in [Ids -> 0 .. 1] /\ local_sense \in [Threads -> 0 .. 1]
        /\ word \in Word /\ tmp \in [Threads -> Word]
    BY DEF SyncType
  <1> SUFFICES SyncType' /\ NobodyEarly' /\ FenceCounts' /\ OneOpens' /\ FirstCounts' /\ OwnSenses'
    BY <1>1
  <1>4. CASE simple_barrier(t)
    <2>1. Enters(t) /\ CallOf(t).what = "simple" /\ program[Current(t)].what = "simple"
      BY <1>4, StepsEnter DEF simple_barrier, At, CallOf
    <2>2. OneOpens' /\ FirstCounts' /\ counter' \in [Ids -> 0 .. Cardinality(Threads)]
      BY <1>2, <1>4, SenseArrives
    <2>3. /\ local_sense' = [local_sense EXCEPT ![t] = 1 - @]
          /\ flag' = flag /\ fences' = fences /\ word' = word /\ tmp' = tmp
      BY <1>4 DEF simple_barrier, words
    <2>4. local_sense' \in [Threads -> 0 .. 1]
      BY <1>3, <2>3
    <2>5. SyncType'
      BY <1>1, <1>2, <1>3, <2>2, <2>3, <2>4, StepTypes
    <2>6. OwnSenses'
      BY <1>1, <1>2, <2>1, <2>3, OwnSensesKept
    <2>7. FenceCounts'
      BY <1>1, <1>2, <2>1, <2>3, FencesUntouched
    <2>8. NobodyEarly'
      BY <1>1, <1>2, <2>1, NobodyEarlyKept DEF Enters, Leaves
    <2> QED  BY <2>2, <2>5, <2>6, <2>7, <2>8
  <1>5. CASE ResetCounter(t)
    <2>1. GoesOn(t) /\ program[Current(t)].what = "simple"
      BY <1>5, StepsGoOn DEF ResetCounter, At
    <2>2. OneOpens' /\ FirstCounts' /\ counter' \in [Ids -> 0 .. Cardinality(Threads)]
      BY <1>2, <1>5, SenseReset
    <2>3. local_sense' = local_sense /\ flag' = flag /\ fences' = fences /\ word' = word /\ tmp' = tmp
      BY <1>5 DEF ResetCounter, words
    <2>4. SyncType'
      BY <1>1, <1>2, <1>3, <2>2, <2>3, StepTypes
    <2>5. OwnSenses'
      BY <1>1, <1>2, <2>1, <2>3, OwnSensesKept DEF GoesOn, Enters
    <2>6. FenceCounts'
      BY <1>1, <1>2, <2>1, <2>3, FencesUntouched
    <2>7. NobodyEarly'
      BY <1>1, <1>2, <1>5, NobodyEarlyKept DEF ResetCounter, Goto, Leaves, SyncType
    <2> QED  BY <2>2, <2>4, <2>5, <2>6, <2>7
  <1>6. CASE StoreFlag(t)
    <2>1. Leaves(t) /\ program[Current(t)].what = "simple"
      BY <1>6, StepsLeave DEF StoreFlag, At
    <2>2. OneOpens' /\ FirstCounts' /\ flag' \in [Ids -> 0 .. 1] /\ AllCome(Current(t))
      BY <1>2, <1>6, SenseReleases
    <2>3. /\ local_sense' = local_sense /\ counter' = counter /\ fences' = fences
          /\ word' = word /\ tmp' = tmp
      BY <1>6 DEF StoreFlag, words
    <2>4. SyncType'
      BY <1>1, <1>2, <1>3, <2>2, <2>3, StepTypes
    <2>5. OwnSenses'
      BY <1>1, <1>2, <2>1, <2>3, OwnSensesKept DEF Leaves, Enters
    <2>6. FenceCounts'
      BY <1>1, <1>2, <2>1, <2>3, FencesUntouched
    <2>7. NobodyEarly'
      BY <1>1, <1>2, <2>2, NobodyEarlyKept
    <2> QED  BY <2>2, <2>4, <2>5, <2>6, <2>7
  <1>7. CASE LeaveSpin(t)
    <2>1. Leaves(t) /\ program[Current(t)].what = "simple"
      BY <1>7, StepsLeave DEF LeaveSpin, At
    <2>2. OneOpens' /\ FirstCounts' /\ AllCome(Current(t))
      BY <1>2, <1>7, SenseLeaves
    <2>3. /\ local_sense' = local_sense /\ counter' = counter /\ flag' = flag /\ fences' = fences
          /\ word' = word /\ tmp' = tmp
      BY <1>7 DEF LeaveSpin, words, senses
    <2>4. SyncType'
      BY <1>1, <1>2, <1>3, <2>3, StepTypes
    <2>5. OwnSenses'
      BY <1>1, <1>2, <2>1, <2>3, OwnSensesKept DEF Leaves, Enters
    <2>6. FenceCounts'
      BY <1>1, <1>2, <2>1, <2>3, FencesUntouched
    <2>7. NobodyEarly'
      BY <1>1, <1>2, <2>2, NobodyEarlyKept
    <2> QED  BY <2>2, <2>4, <2>5, <2>6, <2>7
  <1>8. ASSUME UNCHANGED senses, CallOf(t).what # "simple"
        PROVE  /\ OneOpens' /\ FirstCounts' /\ OwnSenses'
               /\ counter' = counter /\ flag' = flag /\ local_sense' = local_sense
    <2>1. counter' = counter /\ flag' = flag /\ local_sense' = local_sense
      BY <1>8 DEF senses
    <2>2. OneOpens' /\ FirstCounts'
      BY <1>1, <1>2, <1>8, <2>1, SensesUntouched DEF CallOf
    <2>3. OwnSenses'
      BY <1>1, <1>2, <1>8, <2>1, OwnSensesKept
    <2> QED  BY <2>1, <2>2, <2>3
  <1>9. CASE DECADES_PARTIAL_BARRIER(t)
    <2>1. Enters(t) /\ CallOf(t).what = "partial" /\ UNCHANGED senses /\ word' = word /\ tmp' = tmp
      BY <1>9, StepsEnter DEF DECADES_PARTIAL_BARRIER, At, CallOf, words
    <2>2. FenceCounts' /\ fences' \in [Ids -> 0 .. Cardinality(Threads)]
      BY <1>2, <1>9, FenceEntered
    <2>3. SyncType'
      BY <1>1, <1>2, <1>3, <1>8, <2>1, <2>2, StepTypes
    <2>4. NobodyEarly'
      BY <1>1, <1>2, <2>1, NobodyEarlyKept DEF Enters, Leaves
    <2> QED  BY <1>8, <2>1, <2>2, <2>3, <2>4
  <1>10. CASE TestCount(t) \/ TestZero(t)
    <2>1. /\ CallOf(t).what = "partial" /\ UNCHANGED senses /\ fences' = fences
          /\ word' = word /\ tmp' = tmp
      BY <1>10 DEF TestCount, TestZero, At, CallOf, words
    <2>2. FenceCounts'
      BY <1>2, <1>10, FenceTested
    <2>3. SyncType'
      BY <1>1, <1>2, <1>3, <1>8, <2>1, StepTypes
    <2>4. ~ Leaves(t)
      <3>1. pc'[t] # "ready"
        BY <1>10 DEF TestCount, TestZero, Goto, SyncType
      <3> QED  BY <3>1 DEF Leaves, SyncType
    <2>5. NobodyEarly'
      BY <1>1, <1>2, <2>4, NobodyEarlyKept
    <2> QED  BY <1>8, <2>1, <2>2, <2>3, <2>5
  <1>11. CASE ClearFence(t)
    <2>1. CallOf(t).what = "partial" /\ UNCHANGED senses /\ word' = word /\ tmp' = tmp
      BY <1>11 DEF ClearFence, At, CallOf, words
    <2>2. /\ FenceCounts' /\ fences' \in [Ids -> 0 .. Cardinality(Threads)]
          /\ AllCome(Current(t))
      BY <1>2, <1>11, FenceCleared
    <2>3. SyncType'
      BY <1>1, <1>2, <1>3, <1>8, <2>1, <2>2, StepTypes
    <2>4. NobodyEarly'
      BY <1>1, <1>2, <2>2, NobodyEarlyKept
    <2> QED  BY <1>8, <2>1, <2>2, <2>3, <2>4
  <1>12. CASE DECADES_BARRIER(t) \/ LeaveBarrier(t)
    <2>1. /\ CallOf(t).what = "omp" /\ UNCHANGED senses /\ fences' = fences
          /\ word' = word /\ tmp' = tmp
      BY <1>12 DEF DECADES_BARRIER, LeaveBarrier, At, CallOf, words
    <2>2. FenceCounts'
      BY <1>1, <1>2, <2>1, FencesUntouched DEF CallOf
    <2>3. SyncType'
      BY <1>1, <1>2, <1>3, <1>8, <2>1, StepTypes
    <2>4. Leaves(t) => AllCome(Current(t))
      <3>1. CASE LeaveBarrier(t)
        <4>1. ~ Ended(t) /\ \A u \in Threads : Come(u, Current(t))
          BY <3>1 DEF LeaveBarrier, At, Come
        <4>2. program[Current(t)].team \subseteq Threads
          BY <1>2, <4>1, CurrentIsNext, ProgramShape
        <4> QED  BY <4>1, <4>2 DEF AllCome
      <3>2. CASE DECADES_BARRIER(t)
        BY <1>2, <3>2, StepsEnter DEF Enters, Leaves
      <3> QED  BY <1>12, <3>1, <3>2
    <2>5. NobodyEarly'
      BY <1>1, <1>2, <2>4, NobodyEarlyKept
    <2> QED  BY <1>8, <2>1, <2>2, <2>3, <2>5
  <1>13. CASE AtomicStep(t)
    <2>1. /\ CallOf(t).what \notin Barriers /\ UNCHANGED senses /\ fences' = fences
      BY <1>13 DEF AtomicStep, fetch_add, compare_exchange, Load, CasSucceeds, CasFails,
         SwapAfterRead, Consider, Returns, At, Loops, Barriers, CallOf
    <2>2. CallOf(t).what # "simple" /\ program[Current(t)].what # "partial"
      BY <2>1 DEF Barriers, CallOf
    <2>3. FenceCounts'
      BY <1>1, <1>2, <2>1, <2>2, FencesUntouched
    <2>4. SyncType'
      BY <1>1, <1>2, <1>3, <1>8, <1>13, <2>1, <2>2, AtomicTypes, StepTypes
    <2>5. ~ Leaves(t)
      BY <2>1 DEF Leaves, Joins, CallOf
    <2>6. NobodyEarly'
      BY <1>1, <1>2, <2>5, NobodyEarlyKept
    <2> QED  BY <1>8, <2>1, <2>2, <2>3, <2>4, <2>6
  <1> QED  BY <1>4, <1>5, <1>6, <1>7, <1>9, <1>10, <1>11, <1>12, <1>13 DEF BarrierStep

LEMMA InitSync ==
  ASSUME Init, Serves(program)
  PROVE  SyncInv
  <1>1. SyncType
    <2>1. Cardinality(Threads) \in Nat /\ 0 \in Word
      BY SyncAssumption, ZeroIsWord, FS_CardinalityType
    <2>2. word \in Word
      BY <2>1 DEF Init
    <2>3. Len(program) \in Nat
      BY SyncAssumption DEF Init
    <2> HIDE DEF Word
    <2> QED  BY <2>1, <2>2, <2>3 DEF Init, SyncType, Wheres
  <1>2. \A k : Inside(k) = {} /\ \A u : ~ InBarrier(u, k) \/ u \notin Threads
    BY DEF Init, Inside, InBarrier
  <1>3. \A k \in Ks : k \in Nat /\ 0 < k /\ program[k].team \subseteq Threads
    BY <1>1, ProgramShape
  <1>4. \A u \in Threads : \A k \in Ks : ~ Come(u, k) /\ pos[u] = 0
    BY <1>2, <1>3 DEF Come, Init
  <1>5. NobodyEarly
    BY <1>3, <1>4 DEF NobodyEarly, Ks, Come
  <1>6. FenceCounts
    BY <1>2 DEF FenceCounts, Init
  <1>7. OneOpens
    BY <1>2 DEF OneOpens
  <1>8. FirstCounts
    <2> SUFFICES ASSUME NEW k \in Simple, First(k), NEW t \in program[k].team
                 PROVE  flag[program[k].id] # SenseAt(program, t, k)
      <3>1. \A k \in Simple : program[k].id \in Ids
        BY <1>1, UsesJoin, ProgramShape
      <3>2. \A k : CounterOf(k) = 0
        BY <1>2, FS_EmptySet DEF CounterOf
      <3> QED  BY <3>1, <3>2 DEF FirstCounts, Simple, Init
    <2>1. \A i \in Simple : ~ (i < k /\ SameType(i, k))
      <3> SUFFICES ASSUME NEW i \in Simple, i < k, SameType(i, k) PROVE FALSE
        OBVIOUS
      <3>1. AllCome(i) /\ t \in program[i].team /\ i \in Ks
        BY UsesJoin DEF First, Released, Serves, TeamsStay, SameType, Simple
      <3> QED  BY <1>3, <1>4, <3>1 DEF AllCome
    <2>2. SenseAt(program, t, k) # 0
      BY <1>1, <2>1, FirstSense DEF Serves, Simple
    <2>3. flag[program[k].id] = 0
      BY <1>1, UsesJoin, ProgramShape DEF Init
    <2> QED  BY <2>2, <2>3
  <1>9. OwnSenses
    <2>1. \A t \in Threads : SensedTo(t) = 0
      BY DEF SensedTo, Init
    <2>2. \A t : {j \in Uses(program, "simple") : j <= 0 /\ t \in program[j].team} = {}
      BY <1>3 DEF Uses, Ks
    <2>3. \A t : SenseAt(program, t, 0) = 0
      <3>1. 0 % 2 = 0
        OBVIOUS
      <3> QED  BY <2>2, <3>1, FS_EmptySet DEF SenseAt
    <2> QED  BY <2>1, <2>3 DEF OwnSenses, Init
  <1>10. \A t \in Threads : Whereabouts(t)
    BY DEF Init, Whereabouts
  <1> QED  BY <1>1, <1>5, <1>6, <1>7, <1>8, <1>9, <1>10 DEF SyncInv

-----------------------------------------------------------------------------
(* The theorems.  Of the programs it says what Serves says.                *)

(* The counts of the fences and of the barrier_types are those of the use  *)
(* that has begun, at every step of simple_barrier and of                  *)
(* DECADES_PARTIAL_BARRIER.                                                *)
THEOREM SyncInvAlways ==
  ASSUME \A p \in SyncPrograms : Serves(p)
  PROVE  Spec => [](SyncInv /\ Serves(program))
  <1>1. Init => SyncInv /\ Serves(program)
    BY InitSync DEF Init
  <1>2. SyncInv /\ Serves(program) /\ [Next]_vars => (SyncInv /\ Serves(program))'
    <2> SUFFICES ASSUME SyncInv, Serves(program), [Next]_vars
                 PROVE  SyncInv' /\ Serves(program)'
      OBVIOUS
    <2>1. CASE UNCHANGED vars
      <3>1. /\ program' = program /\ pos' = pos /\ pc' = pc /\ counter' = counter /\ flag' = flag
            /\ local_sense' = local_sense /\ fences' = fences /\ word' = word /\ tmp' = tmp
        BY <2>1 DEF vars, senses, words
      <3>2. \A u : (Ended(u)' <=> Ended(u)) /\ Current(u)' = Current(u)
        BY <3>1, CurrentKept
      <3>3. \A k : Inside(k)' = Inside(k) /\ \A u : InBarrier(u, k)' <=> InBarrier(u, k)
        BY <3>1, <3>2 DEF Inside, InBarrier
      <3>4. \A k : AllCome(k)' <=> AllCome(k)
        BY <3>1, <3>3 DEF AllCome, Come
      <3>5. \A k : (Released(k)' <=> Released(k)) /\ CounterOf(k)' = CounterOf(k)
        BY <3>1, <3>3, <3>4 DEF Released, CounterOf
      <3>6. SyncType' /\ NobodyEarly' /\ FenceCounts' /\ OneOpens'
        BY <3>1, <3>3, <3>4 DEF SyncInv, SyncType, NobodyEarly, FenceCounts, OneOpens
      <3>7. FirstCounts'
        <4>1. \A k : First(k)' <=> First(k)
          BY <3>1, <3>5 DEF First, SameType
        <4> QED  BY <3>1, <3>5, <4>1 DEF SyncInv, FirstCounts
      <3>8. OwnSenses' /\ \A t \in Threads : Whereabouts(t)'
        <4>1. \A t : CallOf(t)' = CallOf(t)
          BY <3>1, <3>2 DEF CallOf
        <4>2. \A t : SensedTo(t)' = SensedTo(t) /\ (Whereabouts(t)' <=> Whereabouts(t))
          BY <3>1, <3>2, <4>1 DEF SensedTo, Whereabouts
        <4> QED  BY <3>1, <4>2 DEF SyncInv, OwnSenses
      <3>9. Serves(program)'
        BY <3>1
      <3> QED  BY <3>6, <3>7, <3>8, <3>9 DEF SyncInv
    <2>2. ASSUME NEW t \in Threads, BarrierStep(t) \/ AtomicStep(t)
          PROVE  SyncInv' /\ Serves(program)'
      <3>1. program' = program
        BY <2>2, StepWhereabouts, MovesOne DEF SyncInv
      <3> QED  BY <2>2, <3>1, StepKeeps
    <2> QED  BY <2>1, <2>2 DEF Next, AllEnded
  <1> QED  BY <1>1, <1>2, PTL DEF Spec

(* The counters and fences of the barriers never count more threads than   *)
(* there are, and a word stays a word.                                     *)
THEOREM SyncTypeCorrect ==
  ASSUME \A p \in SyncPrograms : Serves(p)
  PROVE  Spec => []SyncTypeOK
  <1>1. SyncInv => SyncTypeOK
    BY DEF SyncInv, SyncType, SyncTypeOK
  <1> QED  BY <1>1, SyncInvAlways, PTL

(* No thread has left a simple_barrier, a DECADES_PARTIAL_BARRIER or a     *)
(* DECADES_BARRIER that a thread of its team has yet to come to.           *)
THEOREM NobodyLeavesEarly ==
  ASSUME \A p \in SyncPrograms : Serves(p)
  PROVE  Spec => []NobodyEarly
  <1>1. SyncInv => NobodyEarly
    BY DEF SyncInv
  <1> QED  BY <1>1, SyncInvAlways, PTL

-----------------------------------------------------------------------------
(* The barriers do what Rendezvous says of barriers: the accesses to       *)
(* counters, flags and fences that bring a thread into a barrier or out of *)
(* it are the steps of Rendezvous, all others change nothing there.        *)

Plan == [k \in DOMAIN program |-> IF program[k].what \in Barriers THEN program[k].team ELSE {}]
Passed == [t \in Threads |-> LastBarrier(t)]
Stands(t) == pc[t] # "ready" /\ CallOf(t).what \in Barriers
Standing == [t \in Threads |-> Stands(t)]

Left(t) ==
  {k \in DOMAIN program : k <= pos[t] /\ t \in program[k].team /\ program[k].what \in Barriers}

(* A set of naturals below a bound has a greatest element. *)
LEMMA GreatestElement ==
  ASSUME NEW S \in SUBSET Nat, S # {}, NEW bound \in Nat, \A n \in S : n <= bound
  PROVE  \E m \in S : \A n \in S : n <= m
  <1> DEFINE above == {b \in Nat : \A n \in S : n <= b}
  <1>1. PICK m \in above : \A b \in above : m <= b
    <2>1. bound \in above /\ above \in SUBSET Nat
      OBVIOUS
    <2> HIDE DEF above
    <2> QED  BY <2>1, LeastElement
  <1>2. m \in Nat /\ \A n \in S : n <= m
    OBVIOUS
  <1>3. m \in S
    <2> SUFFICES ASSUME m \notin S PROVE FALSE
      OBVIOUS
    <2>1. \A n \in S : n \in Nat /\ n < m
      BY <1>2
    <2>2. m - 1 \in Nat
      <3>1. PICK n \in S : TRUE
        OBVIOUS
      <3>2. n \in Nat /\ n < m
        BY <2>1
      <3> QED  BY <1>2, <3>2
    <2>3. m - 1 \in above
      BY <1>2, <2>1, <2>2
    <2>4. m <= m - 1
      BY <1>1, <2>3
    <2> QED  BY <1>2, <2>4
  <1> QED  BY <1>2, <1>3

(* Of the barriers it takes part in, a thread has left those up to the     *)
(* last one and no other.                                                  *)
LEMMA LastIsLast ==
  ASSUME SyncType, NEW t \in Threads
  PROVE  /\ LastBarrier(t) \in Nat /\ LastBarrier(t) <= pos[t] /\ pos[t] \in Nat
         /\ \A k \in Ks : Joins(k) /\ t \in program[k].team =>
              (pos[t] >= k <=> LastBarrier(t) >= k)
  <1>1. pos[t] \in Nat /\ Left(t) \in SUBSET Nat /\ \A k \in Left(t) : k <= pos[t]
    BY ProgramShape DEF SyncType, Left, Ks
  <1>2. CASE Left(t) = {}
    <2>1. LastBarrier(t) = 0
      BY <1>2 DEF LastBarrier, Left
    <2>2. \A k \in Ks : Joins(k) /\ t \in program[k].team => ~ k <= pos[t]
      BY <1>2 DEF Left, Joins, Ks
    <2> QED  BY <1>1, <2>1, <2>2, ProgramShape
  <1>3. CASE Left(t) # {}
    <2>1. \E k \in Left(t) : \A j \in Left(t) : j <= k
      BY <1>1, <1>3, GreatestElement
    <2>2. LastBarrier(t) \in Left(t) /\ \A j \in Left(t) : j <= LastBarrier(t)
      <3>1. LastBarrier(t) = CHOOSE k \in Left(t) : \A j \in Left(t) : j <= k
        BY <1>3 DEF LastBarrier, Left
      <3> QED  BY <2>1, <3>1
    <2>3. \A k \in Ks : Joins(k) /\ t \in program[k].team => (k <= pos[t] <=> k \in Left(t))
      BY DEF Left, Joins, Ks
    <2>4. LastBarrier(t) \in Nat /\ LastBarrier(t) <= pos[t]
      BY <1>1, <2>2
    <2> QED  BY <1>1, <2>2, <2>3, <2>4, ProgramShape
  <1> QED  BY <1>2, <1>3

(* The next barrier of the plan, of a thread that stands in one. *)
LEMMA StandsInNext ==
  ASSUME SyncType, NEW t \in Threads, NEW c, c = Current(t), ~ Ended(t), Joins(c)
  PROVE  /\ c \in Promise!Ahead(t)
         /\ \A k : Promise!NextOne(t, k) <=> k = c
  <1>1. \A k : k \in Promise!Ahead(t) <=>
               k \in Ks /\ k > LastBarrier(t) /\ t \in Plan[k]
    BY DEF Promise!Ahead, Plan, Ks
  <1>2. \A k \in Ks : t \in Plan[k] <=> Joins(k) /\ t \in program[k].team
    BY DEF Plan, Ks, Joins
  <1>3. \A k \in Ks : k \in Nat
    BY ProgramShape
  <1>4. \A k : k \in Promise!Ahead(t) <=>
               k \in Ks /\ Joins(k) /\ t \in program[k].team /\ pos[t] < k
    <2>1. \A k \in Ks : Joins(k) /\ t \in program[k].team => (k > LastBarrier(t) <=> pos[t] < k)
      BY <1>3, LastIsLast
    <2> QED  BY <1>1, <1>2, <2>1
  <1>5. c \in Promise!Ahead(t) /\ \A k \in Promise!Ahead(t) : c <= k
    BY <1>4, CurrentIsNext
  <1>6. \A k \in Promise!Ahead(t) : k \in Nat
    BY <1>3, <1>4
  <1>7. ASSUME NEW k \in Promise!Ahead(t), \A j \in Promise!Ahead(t) : k <= j PROVE k = c
    BY <1>5, <1>6, <1>7
  <1> QED  BY <1>5, <1>7 DEF Promise!NextOne

(* Who has come here has come there. *)
LEMMA ComeIsHasCome ==
  ASSUME SyncType, NEW k, Joins(k), NEW u \in program[k].team, Come(u, k)
  PROVE  Promise!HasCome(u, k)
  <1>1. u \in Threads /\ k \in Ks
    BY ProgramShape DEF Joins
  <1>2. CASE pos[u] >= k
    BY <1>1, <1>2, LastIsLast DEF Promise!HasCome
  <1>3. CASE InBarrier(u, k)
    <2>1. Promise!NextOne(u, k)
      BY <1>1, <1>3, InsideOnce, StandsInNext
    <2>2. Stands(u)
      BY <1>3 DEF InBarrier, Stands, CallOf
    <2> QED  BY <1>1, <2>1, <2>2 DEF Promise!HasCome, Stands
  <1> QED  BY <1>2, <1>3 DEF Come

-----------------------------------------------------------------------------
(* What a thread that does not move stands in and has left. *)
LEMMA OthersKept ==
  ASSUME SyncType, NEW t \in Threads, Moves(t)
  PROVE  /\ Plan' = Plan
         /\ \A u \in Threads \ {t} : LastBarrier(u)' = LastBarrier(u) /\ Stands(u)' = Stands(u)
         /\ pos'[t] = pos[t] => LastBarrier(t)' = LastBarrier(t)
  <1>1. /\ program' = program
        /\ \A u \in Threads \ {t} : pos'[u] = pos[u] /\ pc'[u] = pc[u]
    BY MovesOne
  <1>2. ASSUME NEW u, pos'[u] = pos[u] PROVE LastBarrier(u)' = LastBarrier(u)
    BY <1>1, <1>2 DEF LastBarrier
  <1>3. ASSUME NEW u \in Threads \ {t} PROVE Stands(u)' = Stands(u)
    <2>1. CallOf(u)' = CallOf(u) /\ pc'[u] = pc[u]
      BY <1>1, CurrentKept DEF CallOf
    <2> QED  BY <2>1 DEF Stands
  <1> QED  BY <1>1, <1>2, <1>3 DEF Plan

LEMMA EnterIsArrive ==
  ASSUME SyncType, NEW t \in Threads, Enters(t)
  PROVE  Promise!Arrive(t)
  <1> SUFFICES ASSUME NEW c, c = Current(t) PROVE Promise!Arrive(t)
    OBVIOUS
  <1>1. ~ Ended(t) /\ Joins(c) /\ pc[t] = "ready" /\ pos' = pos /\ Moves(t) /\ program' = program
    BY DEF Enters, Moves
  <1>2. Promise!Ahead(t) # {}
    BY <1>1, StandsInNext
  <1>3. ~ Stands(t) /\ Stands(t)' = TRUE
    <2>1. pc'[t] # "ready" /\ CallOf(t)' = CallOf(t)
      BY <1>1, CurrentKept DEF CallOf, Enters, SyncType
    <2> QED  BY <1>1, <2>1 DEF Stands, CallOf, Joins
  <1>4. Passed' = Passed /\ Plan' = Plan /\ Standing' = [Standing EXCEPT ![t] = TRUE]
    BY <1>1, <1>3, OthersKept DEF Passed, Standing
  <1> QED  BY <1>2, <1>3, <1>4 DEF Promise!Arrive, Passed, Plan, Standing, Stands

LEMMA LeaveIsLeave ==
  ASSUME SyncType, NEW t \in Threads, Leaves(t), AllCome(Current(t))
  PROVE  Promise!Leave(t)
  <1> SUFFICES ASSUME NEW c, c = Current(t) PROVE Promise!Leave(t)
    OBVIOUS
  <1>1. /\ ~ Ended(t) /\ Joins(c) /\ pc[t] # "ready" /\ Moves(t) /\ program' = program
        /\ pc'[t] = "ready" /\ pos'[t] = c
    BY DEF Leaves, Moves, SyncType
  <1>2. c \in Promise!Ahead(t) /\ Promise!NextOne(t, c)
    BY <1>1, StandsInNext
  <1>3. Stands(t) = TRUE /\ Stands(t)' = FALSE
    BY <1>1 DEF Stands, CallOf, Joins
  <1>4. \A u \in Plan[c] : Promise!HasCome(u, c)
    BY <1>1, ComeIsHasCome DEF AllCome, Plan, Joins, Ks
  <1>5. LastBarrier(t)' = c
    <2>1. c \in Ks /\ t \in program[c].team /\ \A k \in Ks : k \in Nat
      BY <1>1, CurrentIsNext, ProgramShape
    <2>2. c \in Left(t)' /\ \A j \in Left(t)' : j <= c /\ j \in Nat
      BY <1>1, <2>1 DEF Left, Joins, Ks
    <2>3. LastBarrier(t)' = CHOOSE k \in Left(t)' : \A j \in Left(t)' : j <= k
      BY <2>2 DEF LastBarrier, Left
    <2>4. \A k \in Left(t)' : (\A j \in Left(t)' : j <= k) <=> k = c
      BY <2>2
    <2> QED  BY <2>2, <2>3, <2>4
  <1>6. /\ Plan' = Plan /\ Passed' = [Passed EXCEPT ![t] = c]
        /\ Standing' = [Standing EXCEPT ![t] = FALSE]
    BY <1>1, <1>3, <1>5, OthersKept DEF Passed, Standing
  <1> QED  BY <1>2, <1>3, <1>4, <1>6 DEF Promise!Leave, Passed, Plan, Standing, Stands

LEMMA OtherIsStutter ==
  ASSUME SyncType, NEW t \in Threads, GoesOn(t) \/ IsAtomic(t)
  PROVE  UNCHANGED <<Plan, Passed, Standing>>
  <1> SUFFICES ASSUME NEW c, c = Current(t) PROVE UNCHANGED <<Plan, Passed, Standing>>
    OBVIOUS
  <1>1. Moves(t) /\ ~ Ended(t) /\ program' = program
    BY DEF Moves, GoesOn, IsAtomic
  <1>2. CASE GoesOn(t)
    <2>1. /\ pos'[t] = pos[t] /\ pc'[t] # "ready" /\ pc[t] # "ready" /\ CallOf(t)' = CallOf(t)
      BY <1>1, <1>2, CurrentKept DEF GoesOn, CallOf, SyncType
    <2>2. Stands(t)' = Stands(t)
      BY <2>1 DEF Stands
    <2> QED  BY <1>1, <2>1, <2>2, OthersKept DEF Passed, Standing
  <1>3. CASE IsAtomic(t)
    <2>1. ~ Joins(c) /\ c \in Ks /\ program[c].what \notin Barriers
      BY <1>1, <1>3, CurrentIsNext DEF IsAtomic, Joins
    <2>2. Stands(t) = FALSE
      BY <2>1 DEF Stands, CallOf
    <2>3. CASE pos'[t] = pos[t]
      <3>1. CallOf(t)' = CallOf(t)
        BY <1>1, <2>3, CurrentKept DEF CallOf
      <3>2. Stands(t)' = FALSE
        BY <2>1, <3>1 DEF Stands, CallOf
      <3> QED  BY <1>1, <2>2, <2>3, <3>2, OthersKept DEF Passed, Standing
    <2>4. CASE pos'[t] # pos[t]
      <3>1. pos'[t] = c /\ pc'[t] = "ready"
        BY <1>3, <2>4 DEF IsAtomic, SyncType
      <3>2. Stands(t)' = FALSE
        BY <3>1 DEF Stands
      <3>3. Left(t)' = Left(t)
        <4>1. ASSUME NEW k \in Ks, t \in program[k].team, program[k].what \in Barriers
              PROVE  k <= c <=> k <= pos[t]
          BY <1>1, <2>1, <4>1, CurrentIsNext, ProgramShape
        <4> QED  BY <1>1, <3>1, <4>1 DEF Left, Ks
      <3>4. LastBarrier(t)' = LastBarrier(t)
        <4>1. LastBarrier(t) = IF Left(t) = {} THEN 0
                               ELSE CHOOSE k \in Left(t) : \A j \in Left(t) : j <= k
          BY DEF LastBarrier, Left
        <4>2. LastBarrier(t)' = IF Left(t)' = {} THEN 0
                                ELSE CHOOSE k \in Left(t)' : \A j \in Left(t)' : j <= k
          BY DEF LastBarrier, Left
        <4> QED  BY <3>3, <4>1, <4>2
      <3> QED  BY <1>1, <2>2, <3>2, <3>4, OthersKept DEF Passed, Standing
    <2> QED  BY <2>3, <2>4
  <1> QED  BY <1>2, <1>3

(* A thread leaves a barrier when its flag, its fence or OpenMP says so,   *)
(* and then all have come.                                                 *)
LEMMA LeavesServed ==
  ASSUME SyncInv, Serves(program), NEW t \in Threads, BarrierStep(t) \/ AtomicStep(t)
  PROVE  Leaves(t) => AllCome(Current(t))
  <1> SUFFICES ASSUME Leaves(t), NEW c, c = Current(t) PROVE AllCome(c)
    OBVIOUS
  <1>1. SyncInv' /\ program' = program /\ pos'[t] = c
    BY StepKeeps DEF Leaves, SyncInv, SyncType
  <1>2. Moves(t) /\ ~ Enters(t)
    BY DEF Moves, Leaves, Enters
  <1>3. c \in Ks /\ Joins(c) /\ t \in program[c].team /\ c \in Nat
    BY CurrentIsNext DEF Leaves, SyncInv
  <1>4. ASSUME NEW u \in program[c].team PROVE Come(u, c)'
    <2>1. pos'[t] >= c
      BY <1>1, <1>3
    <2>2. NobodyEarly'
      BY <1>1 DEF SyncInv
    <2> QED  BY <1>1, <1>3, <2>1, <2>2 DEF NobodyEarly, Come, Joins, Ks
  <1>5. AllCome(c)'
    BY <1>1, <1>4 DEF AllCome
  <1> QED  BY <1>2, <1>3, <1>5, ComeForGood DEF SyncInv

LEMMA InitialPlan ==
  ASSUME Init, Serves(program)
  PROVE  Promise!RendezvousInit
  <1>1. SyncType
    BY InitSync DEF SyncInv
  <1>2. Plan \in Seq(SUBSET Threads)
    <2>1. /\ DOMAIN Plan = 1 .. Len(program) /\ Len(program) \in Nat
          /\ \A k \in 1 .. Len(program) : Plan[k] \in SUBSET Threads
      BY <1>1, ProgramShape DEF Plan, Ks
    <2>2. Plan = [k \in 1 .. Len(program) |-> Plan[k]]
      BY <2>1 DEF Plan
    <2> HIDE DEF Plan
    <2> QED  BY <2>1, <2>2
  <1>3. \A t \in Threads : LastBarrier(t) = 0
    <2> SUFFICES ASSUME NEW t \in Threads PROVE LastBarrier(t) = 0
      OBVIOUS
    <2>1. pos[t] = 0
      BY DEF Init
    <2> QED  BY <1>1, <2>1, LastIsLast
  <1>4. \A t \in Threads : Stands(t) = FALSE
    BY DEF Init, Stands
  <1>5. Passed = [t \in Threads |-> 0] /\ Standing = [t \in Threads |-> FALSE]
    BY <1>3, <1>4 DEF Passed, Standing
  <1> QED  BY <1>2, <1>5 DEF Promise!RendezvousInit, Plan, Passed, Standing, Stands

LEMMA StepsAreRendezvous ==
  ASSUME SyncInv, Serves(program), [Next]_vars
  PROVE  [Promise!RendezvousNext]_(Promise!rendezvousVars)
  <1> SUFFICES Promise!RendezvousNext \/ UNCHANGED <<Plan, Passed, Standing>>
    BY DEF Promise!rendezvousVars, Plan, Passed, Standing, Stands
  <1>1. ASSUME NEW t \in Threads, BarrierStep(t) \/ AtomicStep(t)
        PROVE  Promise!RendezvousNext \/ UNCHANGED <<Plan, Passed, Standing>>
    <2>1. Moves(t) /\ SyncType
      BY <1>1, StepWhereabouts DEF SyncInv
    <2>2. CASE Enters(t)
      BY <2>1, <2>2, EnterIsArrive DEF Promise!RendezvousNext
    <2>3. CASE Leaves(t)
      BY <1>1, <2>1, <2>3, LeavesServed, LeaveIsLeave DEF Promise!RendezvousNext
    <2>4. CASE GoesOn(t) \/ IsAtomic(t)
      BY <2>1, <2>4, OtherIsStutter
    <2> QED  BY <2>1, <2>2, <2>3, <2>4 DEF Moves
  <1>2. CASE UNCHANGED vars
    <2>1. program' = program /\ pos' = pos /\ pc' = pc
      BY <1>2 DEF vars
    <2>2. \A t : CallOf(t)' = CallOf(t) /\ LastBarrier(t)' = LastBarrier(t)
      BY <2>1, CurrentKept DEF CallOf, LastBarrier
    <2> QED  BY <2>1, <2>2 DEF Plan, Passed, Standing, Stands
  <1> QED  BY <1>1, <1>2 DEF Next, AllEnded

(* simple_barrier, DECADES_PARTIAL_BARRIER and DECADES_BARRIER, in any     *)
(* mixture that Serves allows, are barriers: what comes after one may take *)
(* all that every thread of its team did before it as done.                *)
THEOREM BarriersRendezvous ==
  ASSUME \A p \in SyncPrograms : Serves(p)
  PROVE  Spec => ImplementsRendezvous
  <1>1. Init => Promise!RendezvousInit
    BY InitialPlan DEF Init
  <1>2. SyncInv /\ Serves(program) /\ [Next]_vars =>
          [Promise!RendezvousNext]_(Promise!rendezvousVars)
    BY StepsAreRendezvous
  <1> QED  BY <1>1, <1>2, SyncInvAlways, PTL
           DEF Spec, ImplementsRendezvous, Promise!RendezvousSpec

-----------------------------------------------------------------------------
(* The atomics.  Of a call between two barriers of all threads the         *)
(* invariant keeps a record: the threads that have made it, in the order   *)
(* in which it took effect for them.  Each step of an atomic leaves it as  *)
(* it is or writes one more thread at its end.                             *)

(* The word the barriers note: a barrier of all threads that all of them   *)
(* have come to has a word, and so has the beginning.                      *)
JoinsAll(k) == Joins(k) /\ program[k].team = Threads
Opened(k) == k = 0 \/ (JoinsAll(k) /\ \A t \in Threads : Come(t, k))
WordsNoted ==
  /\ was \in [0 .. Len(program) -> Word \cup {-1}]
  /\ \A k \in 0 .. Len(program) : was[k] \in Word <=> Opened(k)

(* A thread before its compare-and-swap has a reason for it. *)
CasKnows == \A t \in Threads : pc[t] = "cas" => ~ Enough(t, tmp[t])

(* The n threads that have made call k, in the order in which their calls  *)
(* took effect, and the word after each.                                   *)
Made(k) == {t \in program[k].team : pos[t] >= k}
History(k, n, order, after) ==
  /\ order \in [1 .. n -> Made(k)] /\ after \in [0 .. n -> Word]
  /\ \A i, j \in 1 .. n : i # j => order[i] # order[j]
  /\ \A t \in Made(k) : \E i \in 1 .. n : order[i] = t
  /\ after[0] = was[k - 1]
  /\ \A i \in 1 .. n :
       /\ after[i] = Alone(program[k], order[i], after[i - 1]).word
       /\ ret[k][order[i]] \in Answers(program[k], order, after, i)
  /\ after[n] = IF was[k + 1] = -1 THEN word ELSE was[k + 1]
  /\ \A t \in Threads :
       pc[t] = "cas" /\ Current(t) = k => \E j \in 0 .. n : tmp[t] = after[j]

(* The calls between two barriers of all threads, from the first barrier   *)
(* on.                                                                     *)
Watched(k) == k \in Ks /\ ~ Joins(k) /\ Opened(k - 1) /\ JoinsAll(k + 1)
Recorded(k) == \E n \in Nat : \E order, after : History(k, n, order, after)

LinInv ==
  /\ WordsNoted /\ CasKnows
  /\ ret \in [Ks -> [Threads -> Nat]]
  /\ \A k : Watched(k) => Recorded(k)
-----------------------------------------------------------------------------
(* How a step of a thread changes the word and what is noted of it. *)

LastToCome(t) == \A u \in Threads \ {t} : InBarrier(u, Current(t))

(* A step of a barrier. *)
Keeps(t) ==
  /\ Enters(t) \/ GoesOn(t) \/ Leaves(t)
  /\ UNCHANGED <<word, tmp, ret>>
  /\ was' = IF Enters(t) /\ LastToCome(t) THEN [was EXCEPT ![Current(t)] = word] ELSE was

(* A step of an atomic that does not end it. *)
GoesRound(t) ==
  /\ IsAtomic(t)
  /\ UNCHANGED <<pos, word, ret, was>>
  /\ \/ pc'[t] = "cas" /\ tmp' = [tmp EXCEPT ![t] = word] /\ ~ Enough(t, word)
     \/ pc'[t] = "ready" /\ tmp' = [tmp EXCEPT ![t] = 0]

(* The step with which the call of a thread takes effect. *)
Answered(t, v) == ret' = [ret EXCEPT ![Current(t)] = [@ EXCEPT ![t] = v]]
Effects(t) ==
  LET alone == Alone(CallOf(t), t, word)
  IN  /\ IsAtomic(t) /\ Done(t)
      /\ UNCHANGED was /\ tmp' = [tmp EXCEPT ![t] = 0]
      /\ word' = alone.word
      /\ \E v \in Nat :
           /\ Answered(t, v)
           /\ \/ v = alone.ret
              \/ CallOf(t).what = "COMPARE_AND_SWAP" /\ pc[t] = "cas" /\ v = tmp[t]

LEMMA BarrierKeeps ==
  ASSUME SyncType, NEW t \in Threads, BarrierStep(t)
  PROVE  Keeps(t)
  <1>1. CASE simple_barrier(t) \/ DECADES_PARTIAL_BARRIER(t) \/ DECADES_BARRIER(t)
    <2>1. Enters(t)
      BY <1>1, StepsEnter
    <2>2. UNCHANGED <<word, tmp, ret>> /\ Note(t)
      BY <1>1 DEF simple_barrier, DECADES_PARTIAL_BARRIER, DECADES_BARRIER, words
    <2> QED  BY <2>1, <2>2 DEF Keeps, Note, LastToCome
  <1>2. CASE ResetCounter(t) \/ TestCount(t) \/ TestZero(t)
    <2>1. GoesOn(t) /\ ~ Enters(t)
      BY <1>2, StepsGoOn DEF GoesOn, Enters
    <2>2. UNCHANGED <<word, tmp, ret, was>>
      BY <1>2 DEF ResetCounter, TestCount, TestZero, words
    <2> QED  BY <2>1, <2>2 DEF Keeps
  <1>3. CASE StoreFlag(t) \/ LeaveSpin(t) \/ ClearFence(t) \/ LeaveBarrier(t)
    <2>1. Leaves(t) /\ ~ Enters(t)
      BY <1>3, StepsLeave DEF Leaves, Enters
    <2>2. UNCHANGED <<word, tmp, ret, was>>
      BY <1>3 DEF StoreFlag, LeaveSpin, ClearFence, LeaveBarrier, words
    <2> QED  BY <2>1, <2>2 DEF Keeps
  <1> QED  BY <1>1, <1>2, <1>3 DEF BarrierStep

LEMMA AtomicKnown ==
  ASSUME SyncType, NEW t \in Threads, AtomicStep(t)
  PROVE  /\ ~ Ended(t) /\ CallOf(t).what \in Atomics /\ IsAtomic(t)
         /\ word \in Nat /\ tmp[t] \in Nat /\ CallOf(t).arg[t] \in Nat
         /\ word \in Word /\ tmp[t] \in Word /\ CallOf(t).arg[t] \in Word
         /\ CallOf(t).expect \in Word
         /\ pc[t] \in {"ready", "cas"}
  <1>1. ~ Ended(t) /\ CallOf(t).what \notin Barriers /\ pc[t] \in {"ready", "cas"}
    BY DEF AtomicStep, fetch_add, compare_exchange, Load, CasSucceeds, CasFails, SwapAfterRead,
           At, Loops, Barriers, CallOf
  <1>2. /\ CallOf(t).what \in Barriers \cup Atomics
        /\ CallOf(t).arg[t] \in Word /\ CallOf(t).expect \in Word
    BY <1>1, CurrentIsNext, ProgramShape DEF CallOf
  <1>3. Word \subseteq Nat
    BY SyncAssumption DEF Word
  <1> QED  BY <1>1, <1>2, <1>3, StepsAtomic DEF SyncType

LEMMA AtomicEffects ==
  ASSUME SyncType, CasKnows, NEW t \in Threads, AtomicStep(t)
  PROVE  GoesRound(t) \/ Effects(t)
  <1> DEFINE c == CallOf(t)
             v == c.arg[t]
             k == Current(t)
  <1>1. /\ ~ Ended(t) /\ c.what \in Atomics /\ IsAtomic(t)
        /\ word \in Nat /\ tmp[t] \in Nat /\ v \in Nat
    BY AtomicKnown
  <1>2. pc \in [Threads -> Wheres]
    BY DEF SyncType
  <1>3. ASSUME NEW x \in Nat, Returns(t, x), word' = Alone(c, t, word).word,
               \/ x = Alone(c, t, word).ret
               \/ c.what = "COMPARE_AND_SWAP" /\ pc[t] = "cas" /\ x = tmp[t]
        PROVE  Effects(t)
    <2>1. /\ ret' = [ret EXCEPT ![k] = [@ EXCEPT ![t] = x]]
          /\ tmp' = [tmp EXCEPT ![t] = 0] /\ Done(t) /\ UNCHANGED was
      BY <1>3 DEF Returns
    <2>2. x \in Nat /\ Answered(t, x)
      BY <1>3, <2>1 DEF Answered
    <2>3. \E y \in Nat :
            /\ Answered(t, y)
            /\ \/ y = Alone(c, t, word).ret
               \/ c.what = "COMPARE_AND_SWAP" /\ pc[t] = "cas" /\ y = tmp[t]
      BY <1>3, <2>2, Zenon
    <2> QED  BY <1>1, <1>3, <2>1, <2>3 DEF Effects
  <1>4. ASSUME ~ Enough(t, word), tmp' = [tmp EXCEPT ![t] = word], Goto(t, "cas"),
               UNCHANGED <<word, ret, was>>
        PROVE  GoesRound(t)
    BY <1>1, <1>2, <1>4 DEF Goto, GoesRound
  <1>5. ASSUME Consider(t, word), UNCHANGED word, c.what \in Loops \cup {"COMPARE_AND_SWAP"}
        PROVE  GoesRound(t) \/ Effects(t)
    <2>1. CASE Enough(t, word)
      <3>1. CASE c.what = "fetch_min"
        <4>1. word < v /\ Returns(t, word)
          BY <1>5, <2>1, <3>1 DEF Enough, Consider
        <4>2. ~ v < word
          BY <1>1, <4>1
        <4>3. Alone(c, t, word) = [word |-> word, ret |-> word]
          BY <3>1, <4>2 DEF Alone
        <4> QED  BY <1>1, <1>3, <1>5, <4>1, <4>3
      <3>2. CASE c.what = "FETCH_MIN"
        <4>1. ~ Signed(v) < Signed(word) /\ Returns(t, 0)
          BY <1>5, <2>1, <3>2 DEF Enough, Consider
        <4>2. Alone(c, t, word) = [word |-> word, ret |-> 0]
          BY <3>2, <4>1 DEF Alone
        <4> QED  BY <1>1, <1>3, <1>5, <4>1, <4>2
      <3> QED  BY <1>5, <2>1, <3>1, <3>2 DEF Enough
    <2>2. CASE ~ Enough(t, word)
      BY <1>4, <1>5, <2>2 DEF Consider
    <2> QED  BY <2>1, <2>2
  <1>6. CASE fetch_add(t)
    <2>1. c.what = "fetch_add" /\ word' = Plus(word, v) /\ Returns(t, word)
      BY <1>6 DEF fetch_add, At, CallOf
    <2>2. Alone(c, t, word) = [word |-> Plus(word, v), ret |-> word]
      BY <2>1 DEF Alone
    <2> QED  BY <1>1, <1>3, <2>1, <2>2
  <1>7. CASE compare_exchange(t)
    <2>1. /\ c.what = "compare_exchange" /\ word' = IF word = c.expect THEN v ELSE word
          /\ Returns(t, IF word = c.expect THEN 1 ELSE 0)
      BY <1>7 DEF compare_exchange, At, CallOf
    <2>2. Alone(c, t, word) = IF word = c.expect THEN [word |-> v, ret |-> 1]
                              ELSE [word |-> word, ret |-> 0]
      BY <2>1 DEF Alone
    <2>3. Alone(c, t, word).ret = (IF word = c.expect THEN 1 ELSE 0)
          /\ Alone(c, t, word).word = IF word = c.expect THEN v ELSE word
      BY <2>2
    <2> QED  BY <1>3, <2>1, <2>3
  <1>8. CASE Load(t)
    BY <1>5, <1>8 DEF Load, At, CallOf
  <1>9. CASE CasSucceeds(t)
    <2>1. /\ c.what \in Loops /\ word = tmp[t] /\ word' = NewWord(t) /\ ~ Enough(t, word)
          /\ Returns(t, IF c.what = "FETCH_MIN" THEN 1 ELSE word)
      BY <1>9 DEF CasSucceeds, At, CallOf, CasKnows
    <2>2. Alone(c, t, word).word = NewWord(t)
          /\ Alone(c, t, word).ret = IF c.what = "FETCH_MIN" THEN 1 ELSE word
      <3>1. CASE c.what = "fetch_min"
        <4>1. ~ word < v
          BY <2>1, <3>1 DEF Enough
        <4>2. NewWord(t) = v /\ (IF v < word THEN v ELSE word) = v
          BY <1>1, <3>1, <4>1 DEF NewWord
        <4>3. Alone(c, t, word) = [word |-> v, ret |-> word]
          BY <3>1, <4>2 DEF Alone
        <4> QED  BY <3>1, <4>2, <4>3
      <3>2. CASE c.what = "FETCH_MIN"
        <4>1. Signed(v) < Signed(word)
          BY <2>1, <3>2 DEF Enough
        <4> QED  BY <3>2, <4>1 DEF Alone, NewWord
      <3>3. CASE c.what = "fetch_add_float"
        BY <2>1, <3>3 DEF Alone, NewWord
      <3> QED  BY <2>1, <3>1, <3>2, <3>3 DEF Loops
    <2> QED  BY <1>1, <1>3, <2>1, <2>2
  <1>10. CASE CasFails(t)
    <2>1. CASE c.what = "FETCH_MIN"
      BY <1>5, <1>10, <2>1 DEF CasFails, Loops
    <2>2. CASE c.what # "FETCH_MIN"
      BY <1>1, <1>2, <1>10, <2>2 DEF CasFails, Goto, GoesRound
    <2> QED  BY <2>1, <2>2
  <1>11. CASE SwapAfterRead(t)
    <2>1. /\ c.what = "COMPARE_AND_SWAP" /\ word' = IF word = c.expect THEN v ELSE word
          /\ Returns(t, tmp[t]) /\ pc[t] = "cas"
      BY <1>11 DEF SwapAfterRead, At, CallOf
    <2>2. Alone(c, t, word).word = IF word = c.expect THEN v ELSE word
      BY <2>1 DEF Alone
    <2> QED  BY <1>1, <1>3, <2>1, <2>2
  <1> QED  BY <1>6, <1>7, <1>8, <1>9, <1>10, <1>11 DEF AtomicStep
-----------------------------------------------------------------------------
(* What the steps do to the barriers of all threads and to the calls made. *)

(* The step that opens a barrier is that of the last thread to come.       *)
LEMMA OpenedKept ==
  ASSUME SyncType, NobodyEarly, NEW t \in Threads, Moves(t), NEW k
  PROVE  /\ Opened(k) => Opened(k)'
         /\ Opened(k)' /\ ~ Opened(k) =>
              /\ Enters(t) /\ k = Current(t) /\ LastToCome(t) /\ JoinsAll(k)
              /\ \A u \in Threads : pos[u] < k /\ pos'[u] = pos[u] /\ InBarrier(u, k)'
         /\ Enters(t) /\ LastToCome(t) /\ k = Current(t) => Opened(k)' /\ ~ Opened(k)
  <1>1. program' = program /\ ~ Ended(t)
    BY MovesOne DEF Moves, Enters, GoesOn, Leaves, IsAtomic
  <1>2. JoinsAll(k)' <=> JoinsAll(k)
    BY <1>1 DEF JoinsAll, Joins, Ks
  <1>3. ASSUME JoinsAll(k) PROVE /\ AllCome(k) <=> Opened(k)
                                 /\ AllCome(k)' <=> Opened(k)'
    <2>1. Joins(k) /\ program[k].team = Threads /\ k # 0
      BY <1>3, ProgramShape DEF JoinsAll, Joins
    <2> QED  BY <1>1, <1>2, <1>3, <2>1 DEF AllCome, Opened
  <1>4. Opened(k) => Opened(k)'
    BY <1>3, ComeForGood DEF Opened, JoinsAll
  <1>5. ASSUME Opened(k)', ~ Opened(k)
        PROVE  /\ Enters(t) /\ k = Current(t) /\ LastToCome(t) /\ JoinsAll(k)
               /\ \A u \in Threads : pos[u] < k /\ pos'[u] = pos[u] /\ InBarrier(u, k)'
    <2>1. JoinsAll(k) /\ Joins(k) /\ program[k].team = Threads
      BY <1>2, <1>5 DEF Opened, JoinsAll
    <2>2. AllCome(k)' /\ ~ AllCome(k)
      BY <1>3, <1>5, <2>1
    <2>3. Enters(t)
      BY <2>1, <2>2, ComeForGood
    <2>4. k = Current(t)
      BY <1>1, <2>1, <2>2, Elsewhere, UntouchedKeeps
    <2>5. \A u \in Threads : ~ pos[u] >= k
      BY <2>1, <2>2, NoneLeft
    <2>6. pos' = pos /\ InBarrier(t, k)'
      BY <2>3, <2>4, EnterHere
    <2>7. \A u \in Threads : InBarrier(u, k)'
      BY <1>1, <2>1, <2>2, <2>5, <2>6 DEF AllCome, Come
    <2>8. LastToCome(t)
      BY <2>4, <2>7, MovesOne DEF LastToCome
    <2>9. k \in Nat /\ \A u \in Threads : pos[u] \in Nat
      BY <2>1, ProgramShape DEF Joins, SyncType
    <2> QED  BY <2>1, <2>3, <2>4, <2>5, <2>6, <2>7, <2>8, <2>9
  <1>6. ASSUME Enters(t), LastToCome(t), k = Current(t) PROVE Opened(k)' /\ ~ Opened(k)
    <2>1. Joins(k) /\ t \in program[k].team /\ ~ Come(t, k) /\ InBarrier(t, k)'
      BY <1>6, EnterHere
    <2>2. \A u \in Threads \ {t} : u \in program[k].team /\ InBarrier(u, k)'
      BY <1>6, InsideOnce, MovesOne DEF LastToCome
    <2>3. program[k].team = Threads
      BY <2>1, <2>2, ProgramShape DEF Joins
    <2>4. AllCome(k)' /\ ~ AllCome(k)
      BY <1>1, <2>1, <2>2, <2>3 DEF AllCome, Come
    <2> QED  BY <1>3, <2>1, <2>3, <2>4 DEF JoinsAll
  <1> QED  BY <1>4, <1>5, <1>6

LEMMA WordsAreNoted ==
  ASSUME SyncType, NobodyEarly, WordsNoted, NEW t \in Threads, Moves(t),
         Keeps(t) \/ (~ Enters(t) /\ UNCHANGED was)
  PROVE  /\ WordsNoted'
         /\ \A k \in 0 .. Len(program) :
              /\ Opened(k) \/ ~ Opened(k)' => was'[k] = was[k]
              /\ Opened(k)' /\ ~ Opened(k) => was'[k] = word
  <1>1. program' = program /\ word \in Word /\ -1 \notin Word
    <2>1. \A w \in Word : w \in Nat
      BY SyncAssumption DEF Word
    <2> QED  BY <2>1, MovesOne DEF SyncType
  <1> HIDE DEF Word
  <1>2. was \in [0 .. Len(program) -> Word \cup {-1}]
    BY DEF WordsNoted
  <1>3. ASSUME NEW k \in 0 .. Len(program)
        PROVE  /\ Opened(k) \/ ~ Opened(k)' => was'[k] = was[k]
               /\ Opened(k)' /\ ~ Opened(k) => was'[k] = word
    <2>1. CASE Enters(t) /\ LastToCome(t) /\ k = Current(t)
      <3>1. Opened(k)' /\ ~ Opened(k)
        BY <2>1, OpenedKept
      <3>2. was' = [was EXCEPT ![Current(t)] = word]
        BY <2>1 DEF Keeps
      <3> QED  BY <1>2, <2>1, <3>1, <3>2
    <2>2. CASE ~ (Enters(t) /\ LastToCome(t) /\ k = Current(t))
      <3>1. Opened(k)' <=> Opened(k)
        BY <2>2, OpenedKept
      <3>2. was'[k] = was[k]
        BY <1>2, <2>2 DEF Keeps
      <3> QED  BY <3>1, <3>2
    <2> QED  BY <2>1, <2>2
  <1>4. was' \in [0 .. Len(program) -> Word \cup {-1}]
    BY <1>1, <1>2 DEF Keeps
  <1>5. \A k \in 0 .. Len(program) : was'[k] \in Word <=> Opened(k)'
    BY <1>1, <1>3, OpenedKept DEF WordsNoted
  <1> QED  BY <1>1, <1>3, <1>4, <1>5 DEF WordsNoted

(* Only the end of a call makes it.                                        *)
LEMMA MadeKept ==
  ASSUME SyncType, NEW t \in Threads, Moves(t), NEW k \in Ks
  PROVE  /\ pos' = pos \/ k # Current(t) => Made(k)' = Made(k)
         /\ pos'[t] = k /\ k = Current(t) => Made(k)' = Made(k) \cup {t} /\ t \notin Made(k)
  <1>1. program' = program /\ ~ Ended(t)
    BY MovesOne DEF Moves, Enters, GoesOn, Leaves, IsAtomic
  <1>2. /\ Current(t) \in Nat /\ pos[t] \in Nat /\ pos[t] < Current(t)
        /\ t \in program[Current(t)].team
        /\ \A j \in Ks : pos[t] < j /\ t \in program[j].team => Current(t) <= j
        /\ k \in Nat /\ program[k].team \subseteq Threads
    BY <1>1, CurrentIsNext, ProgramShape
  <1>3. \A u \in Threads \ {t} : pos'[u] = pos[u]
    BY MovesOne
  <1>4. pos' = pos \/ pos'[t] = Current(t)
    BY DEF Moves, Enters, GoesOn, Leaves, IsAtomic, SyncType
  <1>5. ASSUME k # Current(t), t \in program[k].team PROVE pos'[t] >= k <=> pos[t] >= k
    BY <1>2, <1>4, <1>5
  <1>6. pos' = pos \/ k # Current(t) => Made(k)' = Made(k)
    BY <1>1, <1>2, <1>3, <1>5 DEF Made
  <1>7. ASSUME pos'[t] = k, k = Current(t)
        PROVE  Made(k)' = Made(k) \cup {t} /\ t \notin Made(k)
    BY <1>1, <1>2, <1>3, <1>7 DEF Made
  <1> QED  BY <1>6, <1>7

(* Between two barriers of all threads, the threads that are not in a      *)
(* barrier are in the call there, until all have come to the second.       *)
LEMMA OnlyHere ==
  ASSUME SyncType, NobodyEarly, NEW k, Watched(k), NEW t \in Threads
  PROVE  /\ IsAtomic(t) /\ Current(t) # k => Opened(k + 1)
         /\ ~ Ended(t) /\ Current(t) = k => ~ Opened(k + 1)
  <1>1. /\ k \in Nat /\ k \in Ks /\ k + 1 \in Ks /\ ~ Joins(k) /\ k # 0 /\ k + 1 # 0
        /\ Joins(k + 1) /\ program[k + 1].team = Threads /\ pos[t] \in Nat
    BY ProgramShape DEF Watched, JoinsAll, Joins, SyncType
  <1>2. ASSUME ~ Ended(t), Current(t) = k PROVE ~ Opened(k + 1)
    <2>1. pos[t] < k /\ ~ InBarrier(t, k + 1)
      BY <1>1, <1>2, CurrentIsNext, InsideOnce
    <2>2. ~ Come(t, k + 1)
      BY <1>1, <2>1 DEF Come
    <2> QED  BY <1>1, <2>2 DEF Opened
  <1>3. ASSUME IsAtomic(t), Current(t) # k, ~ Opened(k + 1) PROVE FALSE
    <2>1. /\ ~ Ended(t) /\ ~ Joins(Current(t)) /\ \A j : ~ InBarrier(t, j)
      BY <1>3, InsideOnce DEF IsAtomic
    <2>2. pos[t] >= k - 1
      <3>1. CASE k - 1 = 0
        BY <1>1, <3>1
      <3>2. CASE k - 1 # 0
        BY <2>1, <3>2 DEF Watched, Opened, Come
      <3> QED  BY <3>1, <3>2
    <2>3. ~ pos[t] >= k + 1
      BY <1>1, <1>3 DEF NobodyEarly, Opened, JoinsAll, Come, Joins, Ks
    <2>4. /\ Current(t) \in Nat /\ pos[t] < Current(t) /\ Current(t) <= k + 1
      BY <1>1, <2>1, <2>3, CurrentIsNext
    <2>5. Current(t) = k + 1
      BY <1>1, <1>3, <2>2, <2>4
    <2> QED  BY <1>1, <2>1, <2>5
  <1> QED  BY <1>2, <1>3
-----------------------------------------------------------------------------
(* How the record of a call goes on. *)

LEMMA CallStays ==
  ASSUME SyncType, NEW t \in Threads, Moves(t), NEW u \in Threads, pos'[u] = pos[u]
  PROVE  /\ Ended(u)' <=> Ended(u)
         /\ Current(u)' = Current(u) /\ CallOf(u)' = CallOf(u)
  <1>1. program' = program
    BY MovesOne
  <1> QED  BY <1>1, CurrentKept DEF CallOf

LEMMA WatchedShape ==
  ASSUME SyncType, NEW k, Watched(k)
  PROVE  /\ k \in Nat /\ k \in Ks /\ k - 1 \in 0 .. Len(program) /\ k + 1 \in 0 .. Len(program)
         /\ Opened(k - 1) /\ ~ Joins(k) /\ program[k] \in Calls /\ Made(k) \subseteq Threads
  <1>1. program \in Seq(Calls)
    BY SyncAssumption DEF SyncType
  <1> QED  BY <1>1, ProgramShape DEF Watched, JoinsAll, Joins, Made, Ks

(* A step that makes no call of k leaves its record as it is.              *)
LEMMA HistoryStays ==
  ASSUME SyncType, NobodyEarly, WordsNoted, NEW t \in Threads, Moves(t),
         Keeps(t) \/ (~ Enters(t) /\ UNCHANGED was),
         NEW k, Watched(k), NEW n \in Nat, NEW order, NEW after, History(k, n, order, after),
         Made(k)' = Made(k), ret'[k] = ret[k],
         was[k + 1] # -1 \/ word' = word,
         \A u \in Threads \ {t} : tmp'[u] = tmp[u],
         pc'[t] = "cas" /\ Current(t)' = k => \E j \in 0 .. n : tmp'[t] = after[j]
  PROVE  History(k, n, order, after)'
  <1>1. /\ program' = program /\ k - 1 \in 0 .. Len(program) /\ k + 1 \in 0 .. Len(program)
        /\ Opened(k - 1)
    BY MovesOne, WatchedShape
  <1>2. was'[k - 1] = was[k - 1]
    BY <1>1, WordsAreNoted
  <1>3. -1 \notin Word
    BY SyncAssumption DEF Word
  <1> HIDE DEF Word
  <1>4. (IF was'[k + 1] = -1 THEN word' ELSE was'[k + 1])
        = IF was[k + 1] = -1 THEN word ELSE was[k + 1]
    <2>1. CASE Opened(k + 1)
      <3>1. was[k + 1] \in Word /\ was'[k + 1] = was[k + 1]
        BY <1>1, <2>1, WordsAreNoted DEF WordsNoted
      <3> QED  BY <1>3, <3>1
    <2>2. CASE ~ Opened(k + 1)
      <3>1. was[k + 1] = -1 /\ word' = word
        BY <1>1, <2>2 DEF WordsNoted
      <3>2. was'[k + 1] = word \/ was'[k + 1] = was[k + 1]
        BY <1>1, <2>2, WordsAreNoted
      <3> QED  BY <3>1, <3>2
    <2> QED  BY <2>1, <2>2
  <1>5. ASSUME NEW u \in Threads, pc'[u] = "cas", Current(u)' = k
        PROVE  \E j \in 0 .. n : tmp'[u] = after[j]
    <2>1. CASE u = t
      BY <1>5, <2>1
    <2>2. CASE u # t
      <3>1. pc[u] = "cas" /\ Current(u) = k /\ tmp'[u] = tmp[u]
        BY <1>5, <2>2, MovesOne, CallStays
      <3> QED  BY <3>1 DEF History
    <2> QED  BY <2>1, <2>2
  <1> QED  BY <1>1, <1>2, <1>4, <1>5 DEF History

(* The call of t is the next one of the record, when it has taken effect.  *)
LEMMA HistoryGrows ==
  ASSUME SyncType, NobodyEarly, WordsNoted, NEW t \in Threads, Moves(t), Effects(t),
         NEW w \in Word, w = word',
         NEW k, Watched(k), k = Current(t),
         ret \in [Ks -> [Threads -> Nat]],
         NEW n \in Nat, NEW order, NEW after, History(k, n, order, after)
  PROVE  Recorded(k)'
  <1> DEFINE order2 == [i \in 1 .. n + 1 |-> IF i = n + 1 THEN t ELSE order[i]]
             after2 == [i \in 0 .. n + 1 |-> IF i = n + 1 THEN w ELSE after[i]]
             c == program[k]
  <1>1. /\ program' = program /\ k - 1 \in 0 .. Len(program) /\ k + 1 \in 0 .. Len(program)
        /\ was' = was /\ pos'[t] = k /\ pc'[t] = "ready" /\ IsAtomic(t) /\ ~ Ended(t)
        /\ k \in Ks /\ CallOf(t) = c
    BY MovesOne, WatchedShape DEF Effects, Done, IsAtomic, SyncType, CallOf
  <1>2. was[k + 1] = -1
    BY <1>1, OnlyHere DEF WordsNoted
  <1>3. Made(k)' = Made(k) \cup {t} /\ t \notin Made(k)
    BY <1>1, MadeKept
  <1>4. after[n] = word /\ after[0] = was[k - 1]
    BY <1>2 DEF History
  <1>5. /\ order \in [1 .. n -> Made(k)] /\ after \in [0 .. n -> Word]
        /\ \A i, j \in 1 .. n : i # j => order[i] # order[j]
        /\ \A u \in Made(k) : \E i \in 1 .. n : order[i] = u
    BY DEF History
  <1>6. /\ \A i \in 1 .. n : order2[i] = order[i] /\ i # n + 1 /\ i \in 1 .. n + 1
        /\ \A i \in 0 .. n : after2[i] = after[i] /\ i # n + 1 /\ i \in 0 .. n + 1
        /\ order2[n + 1] = t /\ after2[n + 1] = w
        /\ \A i \in 1 .. n + 1 : i = n + 1 \/ i \in 1 .. n
        /\ \A i \in 0 .. n + 1 : i = n + 1 \/ i \in 0 .. n
        /\ \A i \in 1 .. n : i - 1 \in 0 .. n
        /\ n \in 0 .. n /\ 0 \in 0 .. n
        /\ n + 1 - 1 = n /\ n + 1 \in Nat /\ n + 1 \in 1 .. n + 1 /\ n + 1 # 0
    OBVIOUS
  <1>7. order2 \in [1 .. n + 1 -> Made(k) \cup {t}] /\ after2 \in [0 .. n + 1 -> Word]
    BY <1>5
  <1> HIDE DEF order2, after2, Word
  <1>8. \A i, j \in 1 .. n + 1 : i # j => order2[i] # order2[j]
    BY <1>3, <1>5, <1>6
  <1>9. \A u \in Made(k) \cup {t} : \E i \in 1 .. n + 1 : order2[i] = u
    BY <1>5, <1>6
  <1>10. ASSUME NEW i \in 1 .. n
         PROVE  Answers(c, order2, after2, i) = Answers(c, order, after, i)
    <2>1. \A j \in 0 .. i - 1 : after2[j] = after[j]
      BY <1>6
    <2>2. order2[i] = order[i] /\ after2[i - 1] = after[i - 1]
      BY <1>6
    <2> QED  BY <2>1, <2>2 DEF Answers
  <1>11. ASSUME NEW i \in 1 .. n
         PROVE  /\ after2[i] = Alone(c, order2[i], after2[i - 1]).word
                /\ ret'[k][order2[i]] \in Answers(c, order2, after2, i)
    <2>1. order2[i] = order[i] /\ after2[i - 1] = after[i - 1] /\ after2[i] = after[i]
      BY <1>6
    <2>2. order[i] # t
      BY <1>3, <1>5
    <2>3. ret'[k][order[i]] = ret[k][order[i]]
      BY <1>1, <2>2 DEF Effects, Answered
    <2> QED  BY <1>10, <2>1, <2>3 DEF History
  <1>12. after2[n + 1] = Alone(c, t, word).word
    BY <1>1, <1>6 DEF Effects
  <1>13. ret'[k][t] \in Answers(c, order2, after2, n + 1)
    <2>1. PICK v \in Nat : /\ Answered(t, v)
                           /\ \/ v = Alone(c, t, word).ret
                              \/ c.what = "COMPARE_AND_SWAP" /\ pc[t] = "cas" /\ v = tmp[t]
      BY <1>1 DEF Effects
    <2>2. ret'[k][t] = v
      BY <1>1, <2>1 DEF Answered
    <2>3. order2[n + 1] = t /\ after2[n + 1 - 1] = word
      BY <1>4, <1>6
    <2>4. CASE c.what = "COMPARE_AND_SWAP"
      <3>1. \E j \in 0 .. n : v = after[j]
        <4>1. CASE v = Alone(c, t, word).ret
          <5>1. v = word
            BY <2>4, <4>1 DEF Alone
          <5> QED  BY <1>4, <1>6, <5>1
        <4>2. CASE pc[t] = "cas" /\ v = tmp[t]
          BY <4>2 DEF History
        <4> QED  BY <2>1, <4>1, <4>2
      <3>2. \E j \in 0 .. n + 1 - 1 : v = after2[j]
        BY <1>6, <3>1
      <3> QED  BY <2>2, <2>4, <3>2 DEF Answers
    <2>5. CASE c.what # "COMPARE_AND_SWAP"
      BY <2>1, <2>2, <2>3, <2>5 DEF Answers
    <2> QED  BY <2>4, <2>5
  <1>14. ASSUME NEW u \in Threads, pc'[u] = "cas", Current(u)' = k
         PROVE  \E j \in 0 .. n + 1 : tmp'[u] = after2[j]
    <2>1. u # t
      BY <1>1, <1>14
    <2>2. pc[u] = "cas" /\ Current(u) = k /\ tmp'[u] = tmp[u]
      BY <1>14, <2>1, MovesOne, CallStays DEF Effects, SyncType
    <2>3. PICK j \in 0 .. n : tmp[u] = after[j]
      BY <2>2 DEF History
    <2> QED  BY <1>6, <2>2, <2>3
  <1>15. History(k, n + 1, order2, after2)'
    <2>1. after2[0] = was'[k - 1] /\ after2[n + 1] = IF was'[k + 1] = -1 THEN word' ELSE was'[k + 1]
      BY <1>1, <1>2, <1>4, <1>6
    <2>2. \A i \in 1 .. n + 1 :
            /\ after2[i] = Alone(c, order2[i], after2[i - 1]).word
            /\ ret'[k][order2[i]] \in Answers(c, order2, after2, i)
      BY <1>4, <1>6, <1>11, <1>12, <1>13
    <2> QED  BY <1>1, <1>3, <1>7, <1>8, <1>9, <1>14, <2>1, <2>2 DEF History
  <1> QED  BY <1>6, <1>15 DEF Recorded
(* When the first of its two barriers opens, nobody has made the call.     *)
LEMMA HistoryBegins ==
  ASSUME SyncType, NobodyEarly, WordsNoted, NEW t \in Threads, Moves(t), Keeps(t),
         NEW k, Watched(k)', ~ Watched(k), NEW w \in Word, w = word
  PROVE  Recorded(k)'
  <1> DEFINE after == [j \in 0 .. 0 |-> w]
  <1>1. program' = program
    BY MovesOne
  <1>2. k \in Ks /\ ~ Joins(k) /\ JoinsAll(k + 1) /\ Opened(k - 1)' /\ ~ Opened(k - 1)
    BY <1>1 DEF Watched, JoinsAll, Joins, Ks
  <1>3. k \in Nat /\ k # 0 /\ k - 1 \in 0 .. Len(program) /\ k + 1 \in 0 .. Len(program)
    BY <1>2, ProgramShape DEF JoinsAll, Joins
  <1>4. /\ \A u \in Threads : pos[u] < k - 1 /\ pos'[u] = pos[u] /\ InBarrier(u, k - 1)'
        /\ Enters(t)
    BY <1>2, OpenedKept
  <1>5. was'[k - 1] = w
    BY <1>2, <1>3, WordsAreNoted
  <1>6. \A u \in Threads : Current(u)' = k - 1 /\ ~ InBarrier(u, k + 1)' /\ pos'[u] < k - 1
    BY <1>3, <1>4 DEF InBarrier
  <1>7. Made(k)' = {}
    <2>1. program[k].team \subseteq Threads /\ \A u \in Threads : pos[u] \in Int
      BY <1>2, ProgramShape DEF SyncType
    <2>2. \A u \in Threads : ~ pos'[u] >= k
      BY <1>3, <1>4, <2>1
    <2> QED  BY <1>1, <2>1, <2>2 DEF Made
  <1>8. was'[k + 1] = -1
    <2>1. \A u \in Threads : pos[u] \in Int
      BY DEF SyncType
    <2>2. ~ Come(t, k + 1)'
      BY <1>3, <1>4, <1>6, <2>1 DEF Come
    <2>3. ~ Opened(k + 1)'
      BY <1>3, <2>2 DEF Opened
    <2> QED  BY <1>1, <1>3, <2>3, WordsAreNoted DEF WordsNoted
  <1>9. word' = w
    BY DEF Keeps
  <1>10. <<>> \in [1 .. 0 -> {}] /\ after \in [0 .. 0 -> Word] /\ after[0] = w
    OBVIOUS
  <1>11. \A u \in Threads : Current(u)' # k
    BY <1>3, <1>6
  <1> HIDE DEF after, Word
  <1>12. History(k, 0, <<>>, after)'
    <2>1. \A i \in 1 .. 0 : FALSE
      OBVIOUS
    <2> QED  BY <1>5, <1>7, <1>8, <1>9, <1>10, <1>11, <2>1 DEF History
  <1> QED  BY <1>12 DEF Recorded

(* Whoever goes on to the compare-and-swap does so for what it has read.   *)
LEMMA CasKnown ==
  ASSUME SyncType, CasKnows, NEW t \in Threads, Moves(t), Whereabouts(t)',
         Keeps(t) \/ GoesRound(t) \/ Effects(t)
  PROVE  CasKnows'
  <1>1. program' = program /\ ~ Ended(t)
    BY MovesOne DEF Moves, Enters, GoesOn, Leaves, IsAtomic
  <1>2. \A u \in Threads : pos'[u] = pos[u] => CallOf(u)' = CallOf(u)
    BY CallStays
  <1>3. \A u \in Threads \ {t} : pc'[u] = pc[u] /\ pos'[u] = pos[u]
    BY MovesOne
  <1>4. tmp \in [Threads -> Word] /\ pc \in [Threads -> Wheres]
    BY DEF SyncType
  <1>5. \A u \in Threads \ {t} : tmp'[u] = tmp[u]
    BY <1>4 DEF Keeps, GoesRound, Effects
  <1>6. \A u \in Threads \ {t} : pc'[u] = "cas" => ~ Enough(u, tmp[u])'
    BY <1>2, <1>3, <1>5 DEF CasKnows, Enough
  <1>7. ASSUME pc'[t] = "cas" PROVE ~ Enough(t, tmp[t])'
    <2>1. CASE Keeps(t)
      <3>1. CASE pos' = pos
        <4>1. Joins(Current(t)) /\ CallOf(t)' = CallOf(t) /\ (Ended(t)' <=> Ended(t))
          BY <1>7, <2>1, <3>1, CallStays DEF Keeps, Enters, GoesOn, Leaves, SyncType
        <4> QED  BY <1>7, <4>1 DEF Whereabouts, CallOf, Joins
      <3>2. CASE pos' # pos
        BY <1>4, <1>7, <2>1, <3>2 DEF Keeps, Enters, GoesOn, Leaves
      <3> QED  BY <3>1, <3>2
    <2>2. CASE GoesRound(t)
      <3>1. tmp'[t] = word /\ ~ Enough(t, word) /\ CallOf(t)' = CallOf(t) /\ word' = word
        BY <1>2, <1>4, <1>7, <2>2 DEF GoesRound
      <3> QED  BY <3>1 DEF Enough
    <2>3. CASE Effects(t)
      BY <1>4, <1>7, <2>3 DEF Effects, Done
    <2> QED  BY <2>1, <2>2, <2>3
  <1> QED  BY <1>6, <1>7 DEF CasKnows

LEMMA StepLin ==
  ASSUME SyncInv, LinInv, NEW t \in Threads, BarrierStep(t) \/ AtomicStep(t)
  PROVE  LinInv'
  <1>1. /\ SyncType /\ NobodyEarly /\ WordsNoted /\ CasKnows
        /\ ret \in [Ks -> [Threads -> Nat]] /\ tmp \in [Threads -> Word]
        /\ pc \in [Threads -> Wheres] /\ word \in Word
    BY DEF SyncInv, LinInv, SyncType
  <1>2. Moves(t) /\ Whereabouts(t)'
    BY StepWhereabouts DEF SyncInv
  <1>3. Keeps(t) \/ GoesRound(t) \/ Effects(t)
    BY <1>1, BarrierKeeps, AtomicEffects
  <1>4. program' = program /\ Ks' = Ks
    BY <1>1, <1>2, MovesOne DEF Ks
  <1>5. ASSUME IsAtomic(t) PROVE ~ Enters(t) /\ ~ Ended(t)
    BY <1>5 DEF IsAtomic, Enters
  <1>6. Keeps(t) \/ (~ Enters(t) /\ UNCHANGED was)
    BY <1>3, <1>5 DEF GoesRound, Effects
  <1>7. WordsNoted'
    BY <1>1, <1>2, <1>6, WordsAreNoted
  <1>8. CasKnows'
    BY <1>1, <1>2, <1>3, CasKnown
  <1>9. ret' \in [Ks -> [Threads -> Nat]]
    BY <1>1, <1>3 DEF Keeps, GoesRound, Effects, Answered
  <1>10. word' \in Word
    BY <1>1, BarrierKeeps, AtomicTypes DEF Keeps
  <1>11. \A u \in Threads \ {t} : tmp'[u] = tmp[u]
    BY <1>1, <1>3 DEF Keeps, GoesRound, Effects
  <1>12. ASSUME NEW k, Watched(k)' PROVE Recorded(k)'
    <2>1. CASE ~ Watched(k)
      <3>1. Opened(k - 1)' /\ ~ Opened(k - 1)
        BY <1>4, <1>12, <2>1 DEF Watched, JoinsAll, Joins
      <3>2. Enters(t)
        BY <1>1, <1>2, <3>1, OpenedKept
      <3>3. Keeps(t)
        BY <1>6, <3>2
      <3> QED  BY <1>1, <1>2, <1>12, <2>1, <3>3, HistoryBegins
    <2>2. CASE Watched(k)
      <3>1. PICK n \in Nat : \E order, after : History(k, n, order, after)
        BY <2>2 DEF LinInv, Recorded
      <3>2. PICK order, after : History(k, n, order, after)
        BY <3>1
      <3>3. k \in Ks /\ ~ Joins(k)
        BY <2>2 DEF Watched
      <3>4. ASSUME History(k, n, order, after)' PROVE Recorded(k)'
        BY <3>4 DEF Recorded
      <3>5. CASE Keeps(t)
        <4>1. Joins(Current(t)) /\ (pos' = pos \/ pc'[t] = "ready")
          BY <1>1, <3>5 DEF Keeps, Enters, GoesOn, Leaves
        <4>2. Made(k)' = Made(k)
          BY <1>1, <1>2, <3>3, <4>1, MadeKept
        <4>3. ~ (pc'[t] = "cas" /\ Current(t)' = k)
          BY <1>1, <1>2, <3>3, <4>1, CallStays
        <4>4. ret' = ret /\ word' = word
          BY <3>5 DEF Keeps
        <4> QED  BY <1>1, <1>2, <1>11, <2>2, <3>2, <3>4, <3>5, <4>2, <4>3, <4>4, HistoryStays
      <3>6. CASE GoesRound(t)
        <4>1. pos' = pos /\ ret' = ret /\ word' = word /\ was' = was /\ IsAtomic(t)
          BY <3>6 DEF GoesRound
        <4>2. Made(k)' = Made(k)
          BY <1>1, <1>2, <3>3, <4>1, MadeKept
        <4>3. ASSUME pc'[t] = "cas", Current(t)' = k
              PROVE  \E j \in 0 .. n : tmp'[t] = after[j]
          <5>1. Current(t) = k /\ tmp'[t] = word
            BY <1>1, <1>2, <3>6, <4>1, <4>3, CallStays DEF GoesRound
          <5>2. ~ Opened(k + 1)
            BY <1>1, <1>5, <2>2, <4>1, <5>1, OnlyHere
          <5>3. was[k + 1] = -1
            BY <1>1, <2>2, <5>2, WatchedShape DEF WordsNoted
          <5>4. after[n] = word /\ n \in 0 .. n
            BY <3>2, <5>3 DEF History
          <5> QED  BY <5>1, <5>4
        <4> QED  BY <1>1, <1>2, <1>5, <1>11, <2>2, <3>2, <3>4, <4>1, <4>2, <4>3, HistoryStays
      <3>7. CASE Effects(t)
        <4>1. IsAtomic(t) /\ was' = was /\ pc'[t] = "ready"
          BY <1>1, <3>7 DEF Effects, Done
        <4>2. CASE k = Current(t)
          BY <1>1, <1>2, <1>10, <2>2, <3>2, <3>7, <4>2, HistoryGrows
        <4>3. CASE k # Current(t)
          <5>1. Opened(k + 1)
            BY <1>1, <2>2, <4>1, <4>3, OnlyHere
          <5>2. was[k + 1] # -1
            <6>1. was[k + 1] \in Word
              BY <1>1, <2>2, <5>1, WatchedShape DEF WordsNoted
            <6>2. -1 \notin Word
              BY SyncAssumption DEF Word
            <6> QED  BY <6>1, <6>2
          <5>3. Made(k)' = Made(k) /\ ret'[k] = ret[k]
            BY <1>1, <1>2, <3>3, <3>7, <4>3, MadeKept DEF Effects, Answered
          <5> QED  BY <1>1, <1>2, <1>5, <1>11, <2>2, <3>2, <3>4, <4>1, <5>2, <5>3, HistoryStays
        <4> QED  BY <4>2, <4>3
      <3> QED  BY <1>3, <3>5, <3>6, <3>7
    <2> QED  BY <2>1, <2>2
  <1> QED  BY <1>4, <1>7, <1>8, <1>9, <1>12 DEF LinInv

PickThread == CHOOSE u \in Threads : TRUE

LEMMA InitLin ==
  ASSUME Init, SyncType
  PROVE  LinInv
  <1>1. Len(program) \in Nat /\ word \in Word /\ -1 \notin Word /\ PickThread \in Threads
    <2>1. -1 \notin Word
      BY SyncAssumption DEF Word
    <2>2. PickThread \in Threads
      BY SyncAssumption DEF PickThread
    <2> QED  BY <2>1, <2>2, ProgramShape DEF SyncType
  <1> HIDE DEF Word
  <1>2. \A u \in Threads : pos[u] = 0 /\ pc[u] = "ready" /\ \A k : ~ InBarrier(u, k)
    BY DEF Init, InBarrier
  <1>3. was = [k \in 0 .. Len(program) |-> IF k = 0 THEN word ELSE -1]
    BY DEF Init
  <1>4. ASSUME NEW k, k # 0 PROVE ~ Opened(k)
    <2>1. CASE JoinsAll(k)
      <3>1. k \in Nat /\ 0 < k
        BY <2>1, ProgramShape DEF JoinsAll, Joins
      <3>2. ~ Come(PickThread, k)
        BY <1>1, <1>2, <3>1 DEF Come
      <3> QED  BY <1>1, <1>4, <3>2 DEF Opened
    <2>2. CASE ~ JoinsAll(k)
      BY <1>4, <2>2 DEF Opened
    <2> QED  BY <2>1, <2>2
  <1>5. Opened(0)
    BY DEF Opened
  <1>6. WordsNoted
    <2>1. was \in [0 .. Len(program) -> Word \cup {-1}]
      BY <1>1, <1>3
    <2>2. \A k \in 0 .. Len(program) : was[k] \in Word <=> Opened(k)
      BY <1>1, <1>3, <1>4, <1>5
    <2> QED  BY <2>1, <2>2 DEF WordsNoted
  <1>7. CasKnows
    BY <1>2 DEF CasKnows
  <1>8. ret \in [Ks -> [Threads -> Nat]]
    BY DEF Init, Ks
  <1>9. ASSUME NEW k, Watched(k) PROVE Recorded(k)
    <2> DEFINE after == [j \in 0 .. 0 |-> word]
    <2>1. k \in Ks /\ k \in Nat /\ k + 1 \in 0 .. Len(program) /\ k - 1 = 0
      BY <1>4, <1>9, WatchedShape
    <2>2. Made(k) = {}
      <3>1. program[k].team \subseteq Threads /\ 0 < k
        BY <2>1, ProgramShape
      <3> QED  BY <1>2, <2>1, <3>1 DEF Made
    <2>3. was[k + 1] = -1 /\ was[k - 1] = word
      BY <1>1, <1>3, <2>1
    <2>4. <<>> \in [1 .. 0 -> {}] /\ after \in [0 .. 0 -> Word] /\ after[0] = word
      BY <1>1
    <2> HIDE DEF after
    <2>5. \A i \in 1 .. 0 : FALSE
      OBVIOUS
    <2>6. History(k, 0, <<>>, after)
      BY <1>2, <2>2, <2>3, <2>4, <2>5 DEF History
    <2> QED  BY <2>6 DEF Recorded
  <1> QED  BY <1>6, <1>7, <1>8, <1>9 DEF LinInv

LEMMA LinStays ==
  ASSUME LinInv, UNCHANGED vars
  PROVE  LinInv'
  <1>1. /\ program' = program /\ pos' = pos /\ pc' = pc /\ word' = word /\ tmp' = tmp
        /\ ret' = ret /\ was' = was
    BY DEF vars, words
  <1>2. \A u : (Ended(u)' <=> Ended(u)) /\ Current(u)' = Current(u) /\ CallOf(u)' = CallOf(u)
    BY <1>1, CurrentKept DEF CallOf
  <1>3. \A u : \A k : Come(u, k)' <=> Come(u, k)
    BY <1>1, <1>2 DEF Come, InBarrier
  <1>4. \A k : (Opened(k)' <=> Opened(k)) /\ (JoinsAll(k)' <=> JoinsAll(k))
    BY <1>1, <1>3 DEF Opened, JoinsAll, Joins, Ks
  <1>5. \A k : (Watched(k)' <=> Watched(k)) /\ Made(k)' = Made(k)
    BY <1>1, <1>4 DEF Watched, Made, Joins, Ks
  <1>6. \A k, n, order, after : History(k, n, order, after)' <=> History(k, n, order, after)
    BY <1>1, <1>2, <1>5 DEF History
  <1>7. WordsNoted' /\ CasKnows'
    BY <1>1, <1>2, <1>4 DEF LinInv, WordsNoted, CasKnows, Enough
  <1>8. \A k : Watched(k)' => Recorded(k)'
    BY <1>5, <1>6 DEF LinInv, Recorded
  <1> QED  BY <1>1, <1>7, <1>8 DEF LinInv, Ks
-----------------------------------------------------------------------------
(* From the record of a call to Linearizable. *)

Follow(c, order, after) ==
  /\ Len(order) \in Nat /\ after = [i \in 0 .. Len(order) |-> after[i]]
  /\ \A i \in 1 .. Len(order) : after[i] = Alone(c, order[i], after[i - 1]).word

LEMMA WordsFollow ==
  ASSUME NEW c, NEW order, NEW after, Follow(c, order, after)
  PROVE  WordAfter(c, order, after[0]) = after
  <1> DEFINE n == Len(order)
             first == after[0]
             Chain(g) == g = [i \in 0 .. n |-> IF i = 0 THEN first
                                               ELSE Alone(c, order[i], g[i - 1]).word]
             w == WordAfter(c, order, first)
  <1>0. n \in Nat
    BY DEF Follow
  <1>1. Chain(after)
    <2>1. \A i \in 0 .. n : after[i] = IF i = 0 THEN first ELSE Alone(c, order[i], after[i - 1]).word
      <3>1. \A i \in 0 .. n : i = 0 \/ i \in 1 .. n
        OBVIOUS
      <3> QED  BY <3>1 DEF Follow
    <2>2. after = [i \in 0 .. n |-> after[i]]
      BY DEF Follow
    <2> QED  BY <2>1, <2>2
  <1>2. w = CHOOSE g : Chain(g)
    BY DEF WordAfter
  <1> HIDE DEF Chain, w, n, first
  <1>3. Chain(w)
    BY <1>1, <1>2
  <1>4. \A i \in 0 .. n : w[i] = after[i]
    <2> DEFINE S == {i \in 0 .. n : w[i] # after[i]}
    <2> SUFFICES ASSUME S # {} PROVE FALSE
      OBVIOUS
    <2>1. PICK i \in S : \A j \in S : i <= j
      <3>1. S \in SUBSET Nat
        BY <1>0
      <3> HIDE DEF S
      <3> QED  BY <3>1, LeastElement
    <2>2. i # 0
      BY <1>0, <1>3, <2>1 DEF Chain, first
    <2>3. i - 1 \in 0 .. n /\ i - 1 \notin S /\ i \in 1 .. n /\ i \in 0 .. n
      BY <1>0, <2>1, <2>2
    <2>4. w[i - 1] = after[i - 1]
      BY <2>3
    <2>5. w[i] = Alone(c, order[i], w[i - 1]).word
      BY <1>3, <2>2, <2>3 DEF Chain
    <2>6. after[i] = Alone(c, order[i], after[i - 1]).word
      BY <2>3 DEF n, Follow
    <2> QED  BY <2>3, <2>4, <2>5, <2>6
  <1>5. w = [i \in 0 .. n |-> w[i]]
    BY <1>3 DEF Chain
  <1>6. after = [i \in 0 .. n |-> after[i]]
    BY DEF n, Follow
  <1> QED  BY <1>4, <1>5, <1>6 DEF w, first

LEMMA LinMeansLinearizable ==
  ASSUME SyncInv, LinInv
  PROVE  Linearizable
  <1> SUFFICES ASSUME NEW k \in DOMAIN program, program[k].what \notin Barriers, k < Len(program),
                      was[k - 1] # -1, was[k + 1] # -1
               PROVE  \E order \in SetToSeqs(program[k].team) :
                        LET after == WordAfter(program[k], order, was[k - 1])
                        IN  /\ after[Len(order)] = was[k + 1]
                            /\ \A i \in 1 .. Len(order) :
                                 ret[k][order[i]] \in Answers(program[k], order, after, i)
    BY DEF Linearizable
  <1> DEFINE T == program[k].team
  <1>1. SyncType /\ NobodyEarly /\ WordsNoted
    BY DEF SyncInv, LinInv
  <1>2. /\ Len(program) \in Nat /\ k \in Ks /\ k \in Nat /\ 0 < k /\ k + 1 # 0
        /\ k - 1 \in 0 .. Len(program) /\ k + 1 \in 0 .. Len(program) /\ T \subseteq Threads
    BY <1>1, ProgramShape DEF Ks
  <1>3. Opened(k - 1) /\ Opened(k + 1)
    BY <1>1, <1>2 DEF WordsNoted
  <1>4. Watched(k) /\ k + 1 \in Ks
    BY <1>2, <1>3 DEF Watched, Joins, Opened, JoinsAll
  <1>5. PICK n \in Nat : \E order, after : History(k, n, order, after)
    BY <1>4 DEF LinInv, Recorded
  <1>6. PICK order, after : History(k, n, order, after)
    BY <1>5
  <1>7. Made(k) = T
    <2>1. \A u \in T : Come(u, k + 1)
      BY <1>2, <1>3 DEF Opened
    <2>2. \A u \in T : pos[u] >= k
      BY <1>1, <1>2, <1>4, <2>1, ComeMeansPassed
    <2> QED  BY <2>2 DEF Made
  <1>8. /\ order \in [1 .. n -> T] /\ after \in [0 .. n -> Word]
        /\ \A i, j \in 1 .. n : i # j => order[i] # order[j]
        /\ \A u \in T : \E i \in 1 .. n : order[i] = u
        /\ after[0] = was[k - 1]
        /\ \A i \in 1 .. n : /\ after[i] = Alone(program[k], order[i], after[i - 1]).word
                             /\ ret[k][order[i]] \in Answers(program[k], order, after, i)
        /\ after[n] = was[k + 1]
    BY <1>6, <1>7 DEF History
  <1>9. Len(order) = n
    BY <1>8
  <1>10. Cardinality(T) = n
    <2>1. order \in Bijection(1 .. n, T)
      BY <1>8 DEF Bijection, Injection, Surjection
    <2>2. ExistsBijection(1 .. n, T)
      BY <2>1 DEF ExistsBijection
    <2> QED  BY <2>2, FS_CountingElements
  <1>11. order \in SetToSeqs(T)
    BY <1>8, <1>10 DEF SetToSeqs
  <1>12. WordAfter(program[k], order, was[k - 1]) = after
    <2>1. after = [i \in 0 .. Len(order) |-> after[i]] /\ Len(order) \in Nat
      BY <1>8, <1>9
    <2>2. \A i \in 1 .. Len(order) : after[i] = Alone(program[k], order[i], after[i - 1]).word
      BY <1>8, <1>9
    <2>3. WordAfter(program[k], order, after[0]) = after
      <3>1. Follow(program[k], order, after)
        BY <2>1, <2>2 DEF Follow
      <3> QED  BY <3>1, WordsFollow
    <2> QED  BY <1>8, <2>3
  <1> QED  BY <1>8, <1>9, <1>11, <1>12

(* The atomics of dec_atomics.h and desc_DECADES.h, between two barriers   *)
(* of all threads: no call is lost, and each returns what the word was     *)
(* when it took effect, or, a COMPARE_AND_SWAP, what it was earlier.       *)
THEOREM AtomicsLinearizable ==
  ASSUME \A p \in SyncPrograms : Serves(p)
  PROVE  Spec => []Linearizable
  <1>1. Init /\ SyncInv => LinInv
    BY InitLin DEF SyncInv
  <1>2. LinInv /\ SyncInv /\ [Next]_vars => LinInv'
    <2> SUFFICES ASSUME LinInv, SyncInv, [Next]_vars PROVE LinInv'
      OBVIOUS
    <2>1. CASE UNCHANGED vars
      BY <2>1, LinStays
    <2>2. ASSUME NEW t \in Threads, BarrierStep(t) \/ AtomicStep(t) PROVE LinInv'
      BY <2>2, StepLin
    <2> QED  BY <2>1, <2>2 DEF Next, AllEnded
  <1>3. LinInv /\ SyncInv => Linearizable
    BY LinMeansLinearizable
  <1> QED  BY <1>1, <1>2, <1>3, SyncInvAlways, PTL DEF Spec
=============================================================================
