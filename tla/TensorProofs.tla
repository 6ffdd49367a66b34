---------------------------- MODULE TensorProofs ----------------------------
(***************************************************************************)
(* Theorems about the tensor kernels of a team (TensorProgram).            *)
(*                                                                         *)
(* A team computes what one thread computes, whatever its size, of any     *)
(* program whose calls it shares (AllShared): when all threads are in the  *)
(* same call, a cell that a thread has written, or reads, holds what it    *)
(* would hold had the thread been alone since the barrier (TeamInv).  The  *)
(* second half shows, for most kernels and for every size of their         *)
(* arrays, that a team of any size shares them.                            *)
(***************************************************************************)
EXTENDS TensorProgram, WellFoundedInduction, TLAPS

-----------------------------------------------------------------------------
(* Induction over naturals, for sets. *)

LEMMA LeastElement ==
  ASSUME NEW S \in SUBSET Nat, S # {}
  PROVE  \E m \in S : \A n \in S : m <= n
  <1>1. PICK m \in S : \A n \in S : ~ (<<n, m>> \in OpToRel(<, Nat))
    BY NatLessThanWellFounded, WFMin, Zenon
  <1>2. ASSUME NEW n \in S PROVE m <= n
    <2>1. n \in Nat /\ m \in Nat
      OBVIOUS
    <2>2. ~ (n < m)
      BY <1>1, <2>1, Zenon DEF OpToRel
    <2> QED  BY <2>1, <2>2
  <1> QED  BY <1>2

LEMMA SetInduction ==
  ASSUME NEW S \in SUBSET Nat, 0 \in S, \A n \in S : n + 1 \in S
  PROVE  \A n \in Nat : n \in S
  <1> SUFFICES ASSUME Nat \ S # {} PROVE FALSE
    OBVIOUS
  <1>1. PICK m \in Nat \ S : \A n \in Nat \ S : m <= n
    BY LeastElement
  <1>2. m # 0 /\ m - 1 \in Nat
    BY <1>1
  <1>3. m - 1 \in S
    BY <1>1, <1>2
  <1> QED  BY <1>1, <1>2, <1>3

Joining(parts, count) ==
  CHOOSE joined : joined = [k \in 0 .. count |->
                              IF k = 0 THEN <<>> ELSE joined[k - 1] \o parts[k]]

LEMMA JoinedIs ==
  ASSUME NEW parts, NEW count PROVE Joined(parts, count) = Joining(parts, count)[count]
  BY DEF Joined, Joining

(* The tensors after each task are those its definition asks for. *)
LEMMA PerformedUnfolds ==
  ASSUME NEW m, NEW tasks, Len(tasks) \in Nat
  PROVE  \A x \in 0 .. Len(tasks) :
           Performed(m, tasks)[x] = IF x = 0 THEN m ELSE Perform(Performed(m, tasks)[x - 1], tasks[x])
  <1> DEFINE N == Len(tasks)
             Upto(f, n) == \A x \in 0 .. n : f[x] = IF x = 0 THEN m ELSE Perform(f[x - 1], tasks[x])
             S == {n \in Nat : n <= N => \E f : Upto(f, n)}
  <1>0. N \in Nat
    OBVIOUS
  <1> HIDE DEF N
  <1>1. 0 \in S
    <2>1. Upto([x \in 0 .. 0 |-> m], 0)
      OBVIOUS
    <2> HIDE DEF Upto
    <2> QED  BY <2>1
  <1>2. ASSUME NEW n \in S PROVE n + 1 \in S
    <2> HIDE DEF Upto
    <2> SUFFICES ASSUME n + 1 <= N PROVE \E h : Upto(h, n + 1)
      OBVIOUS
    <2>0. n \in Nat /\ n <= N
      BY <1>0
    <2>1. PICK f : Upto(f, n)
      BY <2>0
    <2> DEFINE h == [x \in 0 .. n + 1 |-> IF x = n + 1 THEN Perform(f[n], tasks[n + 1]) ELSE f[x]]
    <2>2. \A x \in 0 .. n : h[x] = f[x]
      BY <2>0
    <2>3. h[n + 1] = Perform(f[n], tasks[n + 1])
      BY <2>0
    <2> HIDE DEF h
    <2>4. ASSUME NEW x \in 0 .. n + 1
          PROVE  h[x] = IF x = 0 THEN m ELSE Perform(h[x - 1], tasks[x])
      <3>1. CASE x = n + 1
        <4>1. x # 0 /\ x - 1 = n /\ n \in 0 .. n
          BY <2>0, <3>1
        <4>2. h[x - 1] = f[n]
          BY <2>2, <4>1
        <4> QED  BY <2>3, <3>1, <4>1, <4>2
      <3>2. CASE x # n + 1
        <4>1. x \in 0 .. n /\ (x # 0 => x - 1 \in 0 .. n)
          BY <2>0, <3>2
        <4>2. f[x] = IF x = 0 THEN m ELSE Perform(f[x - 1], tasks[x])
          BY <2>1, <4>1 DEF Upto
        <4>3. h[x] = f[x] /\ (x # 0 => h[x - 1] = f[x - 1])
          BY <2>2, <4>1
        <4> QED  BY <4>2, <4>3
      <3> QED  BY <3>1, <3>2
    <2>5. Upto(h, n + 1)
      BY <2>4 DEF Upto
    <2> QED  BY <2>5
  <1>3. PICK f : Upto(f, N)
    <2> HIDE DEF Upto
    <2>1. S \in SUBSET Nat
      OBVIOUS
    <2> HIDE DEF S
    <2>2. N \in S
      BY <1>0, <1>1, <1>2, <2>1, SetInduction
    <2> QED  BY <1>0, <2>2 DEF S
  <1> DEFINE F(g) == [x \in 0 .. N |-> IF x = 0 THEN m ELSE Perform(g[x - 1], tasks[x])]
             g1 == [x \in 0 .. N |-> f[x]]
             run == CHOOSE g : g = F(g)
  <1>4. g1 = F(g1)
    <2>1. \A x \in 0 .. N : x # 0 => x - 1 \in 0 .. N
      BY <1>0
    <2>2. \A x \in 0 .. N : g1[x] = f[x] /\ (x # 0 => g1[x - 1] = f[x - 1])
      BY <2>1
    <2>3. \A x \in 0 .. N : f[x] = IF x = 0 THEN m ELSE Perform(f[x - 1], tasks[x])
      BY <1>3
    <2>4. \A x \in 0 .. N : f[x] = IF x = 0 THEN m ELSE Perform(g1[x - 1], tasks[x])
      BY <2>2, <2>3
    <2> HIDE DEF Upto
    <2> QED  BY <2>4, Zenon
  <1>5. run = F(run)
    <2> HIDE DEF F, g1
    <2> QED  BY <1>4, Zenon
  <1>6. Performed(m, tasks) = run
    BY DEF Performed, N
  <1> HIDE DEF run
  <1>7. \A x \in 0 .. N : run[x] = IF x = 0 THEN m ELSE Perform(run[x - 1], tasks[x])
    BY <1>5
  <1> QED  BY <1>6, <1>7 DEF N

(* What the rounds of a loop do so far. *)
LEMMA JoiningUnfolds ==
  ASSUME NEW parts, NEW count \in Nat
  PROVE  \A x \in 0 .. count :
           Joining(parts, count)[x] = IF x = 0 THEN <<>> ELSE Joining(parts, count)[x - 1] \o parts[x]
  <1> DEFINE N == count
             Upto(f, n) == \A x \in 0 .. n : f[x] = IF x = 0 THEN <<>> ELSE f[x - 1] \o parts[x]
             S == {n \in Nat : n <= N => \E f : Upto(f, n)}
  <1>0. N \in Nat
    OBVIOUS
  <1> HIDE DEF N
  <1>1. 0 \in S
    <2>1. Upto([x \in 0 .. 0 |-> <<>>], 0)
      OBVIOUS
    <2> HIDE DEF Upto
    <2> QED  BY <2>1
  <1>2. ASSUME NEW n \in S PROVE n + 1 \in S
    <2> HIDE DEF Upto
    <2> SUFFICES ASSUME n + 1 <= N PROVE \E h : Upto(h, n + 1)
      OBVIOUS
    <2>0. n \in Nat /\ n <= N
      BY <1>0
    <2>1. PICK f : Upto(f, n)
      BY <2>0
    <2> DEFINE h == [x \in 0 .. n + 1 |-> IF x = n + 1 THEN f[n] \o parts[n + 1] ELSE f[x]]
    <2>2. \A x \in 0 .. n : h[x] = f[x]
      BY <2>0
    <2>3. h[n + 1] = f[n] \o parts[n + 1]
      BY <2>0
    <2> HIDE DEF h
    <2>4. ASSUME NEW x \in 0 .. n + 1
          PROVE  h[x] = IF x = 0 THEN <<>> ELSE h[x - 1] \o parts[x]
      <3>1. CASE x = n + 1
        <4>1. x # 0 /\ x - 1 = n /\ n \in 0 .. n
          BY <2>0, <3>1
        <4>2. h[x - 1] = f[n]
          BY <2>2, <4>1
        <4> QED  BY <2>3, <3>1, <4>1, <4>2
      <3>2. CASE x # n + 1
        <4>1. x \in 0 .. n /\ (x # 0 => x - 1 \in 0 .. n)
          BY <2>0, <3>2
        <4>2. f[x] = IF x = 0 THEN <<>> ELSE f[x - 1] \o parts[x]
          BY <2>1, <4>1 DEF Upto
        <4>3. h[x] = f[x] /\ (x # 0 => h[x - 1] = f[x - 1])
          BY <2>2, <4>1
        <4> QED  BY <4>2, <4>3
      <3> QED  BY <3>1, <3>2
    <2>5. Upto(h, n + 1)
      BY <2>4 DEF Upto
    <2> QED  BY <2>5
  <1>3. PICK f : Upto(f, N)
    <2> HIDE DEF Upto
    <2>1. S \in SUBSET Nat
      OBVIOUS
    <2> HIDE DEF S
    <2>2. N \in S
      BY <1>0, <1>1, <1>2, <2>1, SetInduction
    <2> QED  BY <1>0, <2>2 DEF S
  <1> DEFINE F(g) == [x \in 0 .. N |-> IF x = 0 THEN <<>> ELSE g[x - 1] \o parts[x]]
             g1 == [x \in 0 .. N |-> f[x]]
             run == CHOOSE g : g = F(g)
  <1>4. g1 = F(g1)
    <2>1. \A x \in 0 .. N : x # 0 => x - 1 \in 0 .. N
      BY <1>0
    <2>2. \A x \in 0 .. N : g1[x] = f[x] /\ (x # 0 => g1[x - 1] = f[x - 1])
      BY <2>1
    <2>3. \A x \in 0 .. N : f[x] = IF x = 0 THEN <<>> ELSE f[x - 1] \o parts[x]
      BY <1>3
    <2>4. \A x \in 0 .. N : f[x] = IF x = 0 THEN <<>> ELSE g1[x - 1] \o parts[x]
      BY <2>2, <2>3
    <2> HIDE DEF Upto
    <2> QED  BY <2>4, Zenon
  <1>5. run = F(run)
    <2> HIDE DEF F, g1
    <2> QED  BY <1>4, Zenon
  <1>6. Joining(parts, count) = run
    BY DEF Joining, N
  <1> HIDE DEF run
  <1>7. \A x \in 0 .. N : run[x] = IF x = 0 THEN <<>> ELSE run[x - 1] \o parts[x]
    BY <1>5
  <1> QED  BY <1>6, <1>7 DEF N

LEMMA JoinedAgrees ==
  ASSUME NEW parts, NEW count \in Nat
  PROVE  \A x \in 0 .. count : Joining(parts, count)[x] = Joined(parts, x)
  <1> SUFFICES ASSUME NEW x \in 0 .. count PROVE Joining(parts, count)[x] = Joining(parts, x)[x]
    BY JoinedIs
  <1> DEFINE S == {y \in 0 .. x : Joining(parts, count)[y] # Joining(parts, x)[y]}
  <1> SUFFICES ASSUME S # {} PROVE FALSE
    OBVIOUS
  <1>1. PICK y \in S : \A z \in S : y <= z
    <2>1. S \in SUBSET Nat
      OBVIOUS
    <2> HIDE DEF S
    <2> QED  BY <2>1, LeastElement
  <1>2. /\ x \in Nat /\ y \in 0 .. count /\ y \in 0 .. x
        /\ y # 0 => y - 1 \in 0 .. x /\ y - 1 \notin S
    BY <1>1
  <1>3. /\ Joining(parts, count)[y] = IF y = 0 THEN <<>> ELSE Joining(parts, count)[y - 1] \o parts[y]
        /\ Joining(parts, x)[y] = IF y = 0 THEN <<>> ELSE Joining(parts, x)[y - 1] \o parts[y]
    BY <1>2, JoiningUnfolds
  <1>4. y # 0 => Joining(parts, count)[y - 1] = Joining(parts, x)[y - 1]
    BY <1>2
  <1> QED  BY <1>1, <1>3, <1>4

LEMMA JoinedUnfolds ==
  ASSUME NEW parts
  PROVE  /\ Joined(parts, 0) = <<>>
         /\ \A n \in Nat : Joined(parts, n + 1) = Joined(parts, n) \o parts[n + 1]
  <1>1. Joined(parts, 0) = <<>>
    <2>1. 0 \in 0 .. 0 /\ 0 \in Nat
      OBVIOUS
    <2> QED  BY <2>1, JoiningUnfolds, JoinedIs
  <1>2. ASSUME NEW n \in Nat PROVE Joined(parts, n + 1) = Joined(parts, n) \o parts[n + 1]
    <2>1. n + 1 \in 0 .. n + 1 /\ n + 1 \in Nat /\ n + 1 # 0 /\ n + 1 - 1 = n /\ n \in 0 .. n + 1
      OBVIOUS
    <2>2. Joining(parts, n + 1)[n + 1] = Joining(parts, n + 1)[n] \o parts[n + 1]
      <3>1. \A x \in 0 .. n + 1 :
              Joining(parts, n + 1)[x]
                = IF x = 0 THEN <<>> ELSE Joining(parts, n + 1)[x - 1] \o parts[x]
        BY <2>1, JoiningUnfolds
      <3>2. ASSUME NEW y \in 0 .. n + 1, y = n + 1
            PROVE  Joining(parts, n + 1)[y] = Joining(parts, n + 1)[n] \o parts[y]
        <4>1. y # 0 /\ y - 1 = n
          BY <3>2
        <4> QED  BY <3>1, <4>1
      <3> QED  BY <2>1, <3>2
    <2>3. Joining(parts, n + 1)[n] = Joined(parts, n)
      BY <2>1, JoinedAgrees
    <2> QED  BY <2>2, <2>3, JoinedIs
  <1> QED  BY <1>1, <1>2

LEMMA JoinedType ==
  ASSUME NEW T, NEW parts, NEW n \in Nat, \A k \in 1 .. n : parts[k] \in Seq(T)
  PROVE  Joined(parts, n) \in Seq(T)
  <1> DEFINE S == {k \in Nat : k <= n => Joined(parts, k) \in Seq(T)}
  <1>0. \A s, t \in Seq(T) : s \o t \in Seq(T) /\ <<>> \in Seq(T)
    OBVIOUS
  <1>1. 0 \in S
    <2>1. <<>> \in Seq(T)
      OBVIOUS
    <2> QED  BY <2>1, JoinedUnfolds
  <1>2. ASSUME NEW k \in S PROVE k + 1 \in S
    <2> SUFFICES ASSUME k + 1 <= n PROVE Joined(parts, k + 1) \in Seq(T)
      OBVIOUS
    <2>1. k \in Nat /\ Joined(parts, k) \in Seq(T) /\ parts[k + 1] \in Seq(T)
      OBVIOUS
    <2>2. Joined(parts, k + 1) = Joined(parts, k) \o parts[k + 1]
      BY <2>1, JoinedUnfolds
    <2> HIDE DEF S
    <2> QED  BY <1>0, <2>1, <2>2
  <1>3. n \in S
    <2>1. S \in SUBSET Nat
      OBVIOUS
    <2> HIDE DEF S
    <2> QED  BY <1>1, <1>2, <2>1, SetInduction
  <1> QED  BY <1>3

(* It matters only what the rounds are.                                    *)
LEMMA JoinedSame ==
  ASSUME NEW parts, NEW other, NEW n \in Nat, \A k \in 1 .. n : parts[k] = other[k]
  PROVE  Joined(parts, n) = Joined(other, n)
  <1> DEFINE S == {k \in Nat : k <= n => Joined(parts, k) = Joined(other, k)}
  <1>1. 0 \in S
    BY JoinedUnfolds
  <1>2. ASSUME NEW k \in S PROVE k + 1 \in S
    <2> SUFFICES ASSUME k + 1 <= n PROVE Joined(parts, k + 1) = Joined(other, k + 1)
      OBVIOUS
    <2>1. k \in Nat /\ Joined(parts, k) = Joined(other, k) /\ parts[k + 1] = other[k + 1]
      OBVIOUS
    <2>2. /\ Joined(parts, k + 1) = Joined(parts, k) \o parts[k + 1]
          /\ Joined(other, k + 1) = Joined(other, k) \o other[k + 1]
      BY <2>1, JoinedUnfolds
    <2> QED  BY <2>1, <2>2
  <1>3. n \in S
    <2>1. S \in SUBSET Nat
      OBVIOUS
    <2> HIDE DEF S
    <2> QED  BY <1>1, <1>2, <2>1, SetInduction
  <1> QED  BY <1>3

(* What is joined first stays at the beginning.                            *)
Begins(s, whole) == Len(s) <= Len(whole) /\ \A i \in 1 .. Len(s) : whole[i] = s[i]

LEMMA JoinedBegins ==
  ASSUME NEW T, NEW parts, NEW n \in Nat, \A k \in 1 .. n : parts[k] \in Seq(T),
         NEW m \in 0 .. n
  PROVE  Begins(Joined(parts, m), Joined(parts, n))
  <1> DEFINE S == {j \in Nat : m + j <= n => Begins(Joined(parts, m), Joined(parts, m + j))}
  <1>1. \A k \in 0 .. n : Joined(parts, k) \in Seq(T)
    <2> SUFFICES ASSUME NEW k \in 0 .. n PROVE Joined(parts, k) \in Seq(T)
      OBVIOUS
    <2>1. k \in Nat /\ \A j \in 1 .. k : parts[j] \in Seq(T)
      OBVIOUS
    <2> QED  BY <2>1, JoinedType
  <1>2. 0 \in S
    <2>1. m + 0 = m /\ m \in 0 .. n
      OBVIOUS
    <2>2. Len(Joined(parts, m)) \in Nat
      BY <1>1
    <2> QED  BY <2>1, <2>2 DEF Begins
  <1>3. ASSUME NEW j \in S PROVE j + 1 \in S
    <2> SUFFICES ASSUME m + (j + 1) <= n PROVE Begins(Joined(parts, m), Joined(parts, m + (j + 1)))
      OBVIOUS
    <2>1. m + j \in Nat /\ m + (j + 1) = (m + j) + 1 /\ m + j \in 0 .. n /\ m + j <= n
          /\ (m + j) + 1 \in 1 .. n
      OBVIOUS
    <2> DEFINE a == Joined(parts, m)
               b == Joined(parts, m + j)
               p == parts[(m + j) + 1]
    <2>2. Begins(a, b)
      BY <2>1
    <2>3. a \in Seq(T) /\ b \in Seq(T) /\ p \in Seq(T)
      BY <1>1, <2>1
    <2>4. Joined(parts, (m + j) + 1) = b \o p
      BY <2>1, JoinedUnfolds
    <2> HIDE DEF a, b, p
    <2>5. Begins(a, b \o p)
      BY <2>2, <2>3 DEF Begins
    <2> QED  BY <2>1, <2>4, <2>5 DEF a
  <1>4. n - m \in S
    <2>1. S \in SUBSET Nat /\ n - m \in Nat
      OBVIOUS
    <2> HIDE DEF S
    <2> QED  BY <1>2, <1>3, <2>1, SetInduction
  <1>5. m + (n - m) = n
    OBVIOUS
  <1> QED  BY <1>4, <1>5

(* Where the tasks of a round are in the whole.                            *)
RoundAt(parts, n, k) ==
  LET before == Len(Joined(parts, k - 1))
  IN  /\ before \in Nat
      /\ Len(Joined(parts, k)) = before + Len(parts[k])
      /\ before + Len(parts[k]) <= Len(Joined(parts, n))
      /\ \A i \in 1 .. Len(parts[k]) : Joined(parts, n)[before + i] = parts[k][i]

LEMMA JoinedAt ==
  ASSUME NEW T, NEW parts, NEW n \in Nat, \A k \in 1 .. n : parts[k] \in Seq(T),
         NEW k \in 1 .. n
  PROVE  RoundAt(parts, n, k)
  <1> DEFINE a == Joined(parts, k - 1)
             p == parts[k]
             w == Joined(parts, n)
  <1>1. k - 1 \in Nat /\ (k - 1) + 1 = k /\ \A j \in 1 .. k - 1 : parts[j] \in Seq(T)
    OBVIOUS
  <1>2. a \in Seq(T) /\ p \in Seq(T) /\ w \in Seq(T)
    BY <1>1, JoinedType
  <1>3. Joined(parts, k) = a \o p
    BY <1>1, JoinedUnfolds
  <1>4. Begins(a \o p, w)
    <2>1. k \in 0 .. n
      OBVIOUS
    <2> HIDE DEF a, p
    <2> QED  BY <1>3, <2>1, JoinedBegins
  <1> HIDE DEF a, p, w
  <1>5. /\ Len(a) \in Nat /\ Len(a \o p) = Len(a) + Len(p) /\ Len(a) + Len(p) <= Len(w)
        /\ \A i \in 1 .. Len(p) : w[Len(a) + i] = p[i]
    <2>1. Len(a) \in Nat /\ Len(p) \in Nat /\ Len(a \o p) = Len(a) + Len(p)
      BY <1>2
    <2>2. \A i \in 1 .. Len(p) : Len(a) + i \in 1 .. Len(a \o p) /\ (a \o p)[Len(a) + i] = p[i]
      BY <1>2, <2>1
    <2> QED  BY <1>4, <2>1, <2>2 DEF Begins
  <1> QED  BY <1>3, <1>5 DEF RoundAt, a, p, w
-----------------------------------------------------------------------------
(* Tensors and tasks. *)

Values(m, task) == [k \in DOMAIN task.reads |-> m[task.reads[k]]]
IsTensor(m, D) == m = [x \in D |-> m[x]]

LEMMA PerformAt ==
  ASSUME NEW D, NEW m, IsTensor(m, D), NEW task
  PROVE  /\ IsTensor(Perform(m, task), D)
         /\ \A x \in D : Perform(m, task)[x] =
              IF x = task.cell THEN Term(task.op, task.cell[2], Values(m, task)) ELSE m[x]
  <1> DEFINE v == Term(task.op, task.cell[2], Values(m, task))
  <1>1. Perform(m, task) = [m EXCEPT ![task.cell] = v]
    BY DEF Perform, Store, Values
  <1> HIDE DEF v
  <1>2. DOMAIN m = D
    BY DEF IsTensor
  <1> QED  BY <1>1, <1>2 DEF IsTensor, v

LEMMA PerformedStep ==
  ASSUME NEW m, NEW tasks, Len(tasks) \in Nat
  PROVE  /\ Performed(m, tasks)[0] = m
         /\ \A k \in 1 .. Len(tasks) :
              Performed(m, tasks)[k] = Perform(Performed(m, tasks)[k - 1], tasks[k])
  <1>1. \A x \in 0 .. Len(tasks) :
          Performed(m, tasks)[x] = IF x = 0 THEN m
                                   ELSE Perform(Performed(m, tasks)[x - 1], tasks[x])
    BY PerformedUnfolds
  <1>2. 0 \in 0 .. Len(tasks) /\ \A k \in 1 .. Len(tasks) : k \in 0 .. Len(tasks) /\ k # 0
    OBVIOUS
  <1> QED  BY <1>1, <1>2

LEMMA PerformedTensor ==
  ASSUME NEW D, NEW m, IsTensor(m, D), NEW tasks, Len(tasks) \in Nat
  PROVE  \A k \in 0 .. Len(tasks) : IsTensor(Performed(m, tasks)[k], D)
  <1> DEFINE S == {k \in Nat : k <= Len(tasks) => IsTensor(Performed(m, tasks)[k], D)}
  <1>1. 0 \in S
    BY PerformedStep
  <1>2. ASSUME NEW k \in S PROVE k + 1 \in S
    <2> SUFFICES ASSUME k + 1 <= Len(tasks) PROVE IsTensor(Performed(m, tasks)[k + 1], D)
      OBVIOUS
    <2>1. k \in Nat /\ IsTensor(Performed(m, tasks)[k], D)
          /\ k + 1 \in 1 .. Len(tasks) /\ (k + 1) - 1 = k
      OBVIOUS
    <2>2. Performed(m, tasks)[k + 1] = Perform(Performed(m, tasks)[k], tasks[k + 1])
      BY <2>1, PerformedStep
    <2> QED  BY <2>1, <2>2, PerformAt
  <1>3. \A k \in Nat : k \in S
    <2>1. S \in SUBSET Nat
      OBVIOUS
    <2> HIDE DEF S
    <2> QED  BY <1>1, <1>2, <2>1, SetInduction
  <1> QED  BY <1>3

(* What no task writes stays.                                              *)
LEMMA NotWritten ==
  ASSUME NEW D, NEW m, IsTensor(m, D), NEW tasks, Len(tasks) \in Nat, NEW x \in D,
         NEW n \in 0 .. Len(tasks), \A i \in 1 .. n : tasks[i].cell # x
  PROVE  Performed(m, tasks)[n][x] = m[x]
  <1> DEFINE S == {k \in Nat : k <= n => Performed(m, tasks)[k][x] = m[x]}
  <1>1. 0 \in S
    BY PerformedStep
  <1>2. ASSUME NEW k \in S PROVE k + 1 \in S
    <2> SUFFICES ASSUME k + 1 <= n PROVE Performed(m, tasks)[k + 1][x] = m[x]
      OBVIOUS
    <2>1. k \in Nat /\ Performed(m, tasks)[k][x] = m[x] /\ k \in 0 .. Len(tasks)
          /\ k + 1 \in 1 .. Len(tasks) /\ (k + 1) - 1 = k /\ k + 1 \in 1 .. n
      OBVIOUS
    <2>2. Performed(m, tasks)[k + 1] = Perform(Performed(m, tasks)[k], tasks[k + 1])
      BY <2>1, PerformedStep
    <2>3. IsTensor(Performed(m, tasks)[k], D) /\ tasks[k + 1].cell # x
      BY <2>1, PerformedTensor
    <2> HIDE DEF S
    <2>4. ASSUME NEW q, IsTensor(q, D), NEW task, task.cell # x PROVE Perform(q, task)[x] = q[x]
      <3>1. \A y \in D : Perform(q, task)[y] =
              IF y = task.cell THEN Term(task.op, task.cell[2], Values(q, task)) ELSE q[y]
        BY <2>4, PerformAt
      <3> QED  BY <2>4, <3>1
    <2> QED  BY <2>1, <2>2, <2>3, <2>4
  <1>3. n \in S
    <2>1. S \in SUBSET Nat /\ n \in Nat
      OBVIOUS
    <2> HIDE DEF S
    <2> QED  BY <1>1, <1>2, <2>1, SetInduction
  <1> QED  BY <1>3

(* Tasks one after the other.                                              *)
LEMMA PerformedBegins ==
  ASSUME NEW m, NEW s, NEW w, Len(s) \in Nat, Len(w) \in Nat, Begins(s, w)
  PROVE  \A k \in 0 .. Len(s) : Performed(m, w)[k] = Performed(m, s)[k]
  <1> DEFINE S == {k \in Nat : k <= Len(s) => Performed(m, w)[k] = Performed(m, s)[k]}
  <1>1. 0 \in S
    BY PerformedStep
  <1>2. ASSUME NEW k \in S PROVE k + 1 \in S
    <2> SUFFICES ASSUME k + 1 <= Len(s) PROVE Performed(m, w)[k + 1] = Performed(m, s)[k + 1]
      OBVIOUS
    <2>1. k \in Nat /\ Performed(m, w)[k] = Performed(m, s)[k]
          /\ k + 1 \in 1 .. Len(s) /\ k + 1 \in 1 .. Len(w) /\ (k + 1) - 1 = k
          /\ w[k + 1] = s[k + 1]
      BY DEF Begins
    <2> QED  BY <2>1, PerformedStep
  <1>3. \A k \in Nat : k \in S
    <2>1. S \in SUBSET Nat
      OBVIOUS
    <2> HIDE DEF S
    <2> QED  BY <1>1, <1>2, <2>1, SetInduction
  <1> QED  BY <1>3

LEMMA AppliedConcat ==
  ASSUME NEW m, NEW T, NEW s \in Seq(T), NEW t \in Seq(T)
  PROVE  Applied(m, s \o t) = Applied(Applied(m, s), t)
  <1> DEFINE w == s \o t
             n == Len(s)
             S == {k \in Nat : k <= Len(t) =>
                     Performed(m, w)[n + k] = Performed(Applied(m, s), t)[k]}
  <1>1. /\ n \in Nat /\ Len(t) \in Nat /\ Len(w) \in Nat /\ Len(w) = n + Len(t)
        /\ Begins(s, w) /\ \A k \in 1 .. Len(t) : w[n + k] = t[k] /\ n + k \in 1 .. Len(w)
    BY DEF Begins
  <1> HIDE DEF w
  <1>2. 0 \in S
    <2>1. n + 0 = n /\ n \in 0 .. n
      BY <1>1
    <2> QED  BY <1>1, <2>1, PerformedStep, PerformedBegins DEF Applied
  <1> HIDE DEF n
  <1>w. \A y \in 1 .. Len(w) : Performed(m, w)[y] = Perform(Performed(m, w)[y - 1], w[y])
    <2> HIDE DEF S
    <2>1. Len(w) \in Nat
      BY <1>1
    <2> QED  BY <2>1, PerformedStep
  <1>3. ASSUME NEW k \in S PROVE k + 1 \in S
    <2> SUFFICES ASSUME k + 1 <= Len(t)
                 PROVE  Performed(m, w)[n + (k + 1)] = Performed(Applied(m, s), t)[k + 1]
      OBVIOUS
    <2>1. k \in Nat /\ Performed(m, w)[n + k] = Performed(Applied(m, s), t)[k]
          /\ k + 1 \in 1 .. Len(t) /\ (k + 1) - 1 = k
          /\ (n + (k + 1)) - 1 = n + k /\ w[n + (k + 1)] = t[k + 1] /\ n + (k + 1) \in 1 .. Len(w)
      BY <1>1
    <2>2. Performed(m, w)[n + (k + 1)] = Perform(Performed(m, w)[n + k], w[n + (k + 1)])
      <3> HIDE DEF S
      <3>1. PICK y \in 1 .. Len(w) : y = n + (k + 1)
        BY <2>1
      <3>2. y - 1 = n + k
        BY <2>1, <3>1
      <3> QED  BY <1>w, <3>1, <3>2
    <2>3. Performed(Applied(m, s), t)[k + 1] = Perform(Performed(Applied(m, s), t)[k], t[k + 1])
      BY <1>1, <2>1, PerformedStep
    <2> QED  BY <2>1, <2>2, <2>3
  <1>4. Len(t) \in S
    <2>1. S \in SUBSET Nat
      OBVIOUS
    <2> HIDE DEF S
    <2> QED  BY <1>1, <1>2, <1>3, <2>1, SetInduction
  <1>5. Performed(m, w)[n + Len(t)] = Performed(Applied(m, s), t)[Len(t)]
    BY <1>4
  <1> QED  BY <1>1, <1>5 DEF Applied, w

LEMMA AppliedOne ==
  ASSUME NEW m, NEW T, NEW s \in Seq(T), NEW task \in T
  PROVE  /\ Applied(m, s \o <<task>>) = Perform(Applied(m, s), task)
         /\ Applied(m, s \o <<>>) = Applied(m, s)
  <1>1. <<task>> \in Seq(T) /\ Len(<<task>>) = 1 /\ <<task>>[1] = task /\ s \o <<>> = s
    OBVIOUS
  <1>2. 1 \in 1 .. 1 /\ 1 - 1 = 0 /\ 1 \in Nat
    OBVIOUS
  <1>3. \A q : Applied(q, <<task>>) = Perform(q, task)
    BY <1>1, <1>2, PerformedStep DEF Applied
  <1>4. \A t \in Seq(T) : Applied(m, s \o t) = Applied(Applied(m, s), t)
    BY AppliedConcat
  <1>5. Applied(m, s \o <<task>>) = Applied(Applied(m, s), <<task>>)
    BY <1>1, <1>4, Zenon
  <1> QED  BY <1>1, <1>3, <1>5

LEMMA AppliedTensor ==
  ASSUME NEW D, NEW m, IsTensor(m, D), NEW tasks, Len(tasks) \in Nat
  PROVE  IsTensor(Applied(m, tasks), D)
  <1>1. Len(tasks) \in 0 .. Len(tasks)
    OBVIOUS
  <1> QED  BY <1>1, PerformedTensor DEF Applied

LEMMA AppliedNothing == \A m : Applied(m, <<>>) = m
  <1> SUFFICES ASSUME NEW m PROVE Applied(m, <<>>) = m
    OBVIOUS
  <1>1. Len(<<>>) = 0
    OBVIOUS
  <1> QED  BY <1>1, PerformedStep DEF Applied

(* The tasks on some cells leave the same in them as all the tasks, when   *)
(* nothing they read is written by the other ones.                         *)
Kept(tasks, cells, x) == x \in cells \/ x \notin Written(tasks)
ReadsKept(tasks, cells) ==
  \A i \in 1 .. Len(tasks) : tasks[i].cell \in cells =>
    \A k \in DOMAIN tasks[i].reads : Kept(tasks, cells, tasks[i].reads[k])
ReadsIn(tasks, D) ==
  \A i \in 1 .. Len(tasks) : \A k \in DOMAIN tasks[i].reads : tasks[i].reads[k] \in D

LEMMA ValuesSame ==
  ASSUME NEW a, NEW b, NEW task, \A k \in DOMAIN task.reads : a[task.reads[k]] = b[task.reads[k]]
  PROVE  Values(a, task) = Values(b, task)
  BY Zenon DEF Values

LEMMA PerformValue ==
  ASSUME NEW D, NEW m, IsTensor(m, D), NEW task, NEW x \in D
  PROVE  Perform(m, task)[x] =
           IF x = task.cell THEN Term(task.op, task.cell[2], Values(m, task)) ELSE m[x]
  <1>1. \A y \in D : Perform(m, task)[y] =
          IF y = task.cell THEN Term(task.op, task.cell[2], Values(m, task)) ELSE m[y]
    BY PerformAt
  <1> QED  BY <1>1

LEMMA PerformSame ==
  ASSUME NEW D, NEW a, NEW b, IsTensor(a, D), IsTensor(b, D), NEW task,
         Values(a, task) = Values(b, task), NEW x \in D, x # task.cell => a[x] = b[x]
  PROVE  Perform(a, task)[x] = Perform(b, task)[x]
  <1>1. Perform(a, task)[x] =
          IF x = task.cell THEN Term(task.op, task.cell[2], Values(a, task)) ELSE a[x]
    BY PerformValue
  <1>2. Perform(b, task)[x] =
          IF x = task.cell THEN Term(task.op, task.cell[2], Values(b, task)) ELSE b[x]
    BY PerformValue
  <1> QED  BY <1>1, <1>2

LEMMA PerformOther ==
  ASSUME NEW D, NEW a, IsTensor(a, D), NEW task, NEW x \in D, x # task.cell
  PROVE  Perform(a, task)[x] = a[x]
  BY PerformValue

LEMMA ValueOn ==
  ASSUME NEW D, NEW m, IsTensor(m, D), NEW T, NEW tasks \in Seq(T), NEW cells,
         ReadsIn(tasks, D), ReadsKept(tasks, cells)
  PROVE  \A x \in D : Kept(tasks, cells, x) =>
           Applied(m, tasks)[x] = Applied(m, TasksOn(tasks, cells))[x]
  <1> DEFINE some == [k \in DOMAIN tasks |-> IF tasks[k].cell \in cells THEN <<tasks[k]>> ELSE <<>>]
             n == Len(tasks)
             a(j) == Performed(m, tasks)[j]
             b(j) == Applied(m, Joined(some, j))
             Same(j) == \A x \in D : Kept(tasks, cells, x) => a(j)[x] = b(j)[x]
             S == {j \in Nat : j <= n => Same(j)}
  <1>1. /\ n \in Nat /\ DOMAIN tasks = 1 .. n
        /\ \A k \in 1 .. n : tasks[k] \in T
    OBVIOUS
  <1>2. \A k \in 1 .. n : some[k] = IF tasks[k].cell \in cells THEN <<tasks[k]>> ELSE <<>>
    BY <1>1
  <1>3. \A k \in 1 .. n : some[k] \in Seq(T)
    BY <1>1, <1>2
  <1>4. TasksOn(tasks, cells) = Joined(some, n)
    BY DEF TasksOn
  <1> HIDE DEF some, n
  <1>5. ASSUME NEW j \in 0 .. n PROVE Joined(some, j) \in Seq(T)
    <2>1. j \in Nat /\ \A k \in 1 .. j : some[k] \in Seq(T)
      BY <1>1, <1>3
    <2> QED  BY <2>1, JoinedType
  <1>6. ASSUME NEW j \in 0 .. n PROVE IsTensor(a(j), D) /\ IsTensor(b(j), D)
    <2>1. Len(Joined(some, j)) \in Nat
      BY <1>5
    <2> QED  BY <1>1, <2>1, PerformedTensor, AppliedTensor DEF n
  <1>7. 0 \in S
    <2>1. a(0) = m
      BY <1>1, PerformedStep DEF n
    <2>2. b(0) = m
      BY JoinedUnfolds, AppliedNothing
    <2> QED  BY <2>1, <2>2
  <1>8. ASSUME NEW j \in S PROVE j + 1 \in S
    <2> SUFFICES ASSUME j + 1 <= n PROVE Same(j + 1)
      OBVIOUS
    <2>1. j \in Nat /\ j \in 0 .. n /\ j + 1 \in 1 .. n /\ (j + 1) - 1 = j /\ Same(j)
      BY <1>1
    <2> DEFINE task == tasks[j + 1]
    <2>2. a(j + 1) = Perform(a(j), task)
      BY <1>1, <2>1, PerformedStep DEF n
    <2>3. Joined(some, j + 1) = Joined(some, j) \o some[j + 1]
      BY <2>1, JoinedUnfolds
    <2>4. task \in T /\ Joined(some, j) \in Seq(T)
      BY <1>1, <1>5, <2>1
    <2>5. some[j + 1] = IF task.cell \in cells THEN <<task>> ELSE <<>>
      BY <1>2, <2>1
    <2>6. /\ IsTensor(a(j), D) /\ IsTensor(b(j), D)
      BY <1>6, <2>1
    <2>7. task.cell \in Written(tasks)
      BY <1>1, <2>1 DEF Written
    <2>8. \A k \in DOMAIN task.reads : task.reads[k] \in D
      BY <2>1 DEF ReadsIn, n
    <2>9. task.cell \in cells => \A k \in DOMAIN task.reads : Kept(tasks, cells, task.reads[k])
      BY <2>1 DEF ReadsKept, n
    <2>10. task.cell \in cells => b(j + 1) = Perform(b(j), task)
      <3>1. Applied(m, Joined(some, j) \o <<task>>) = Perform(Applied(m, Joined(some, j)), task)
        <4> HIDE DEF task
        <4> QED  BY <2>4, AppliedOne, Zenon
      <3> QED  BY <2>3, <2>5, <3>1
    <2>11. task.cell \notin cells => b(j + 1) = b(j)
      BY <2>3, <2>4, <2>5, AppliedOne
    <2>12. \A x \in D : Kept(tasks, cells, x) => a(j)[x] = b(j)[x]
      BY <2>1
    <2> HIDE DEF task, a, b, S
    <2> SUFFICES ASSUME NEW x \in D, Kept(tasks, cells, x) PROVE a(j + 1)[x] = b(j + 1)[x]
      OBVIOUS
    <2>13. CASE task.cell \in cells
      <3>1. Values(a(j), task) = Values(b(j), task)
        <4>1. \A k \in DOMAIN task.reads : a(j)[task.reads[k]] = b(j)[task.reads[k]]
          BY <2>8, <2>9, <2>12, <2>13
        <4> QED  BY <4>1, ValuesSame
      <3>2. Perform(a(j), task)[x] = Perform(b(j), task)[x]
        BY <2>6, <2>12, <3>1, PerformSame
      <3> QED  BY <2>2, <2>10, <2>13, <3>2
    <2>14. CASE task.cell \notin cells
      <3>1. x # task.cell
        BY <2>7, <2>14 DEF Kept
      <3>2. Perform(a(j), task)[x] = a(j)[x]
        BY <2>6, <3>1, PerformOther
      <3> QED  BY <2>2, <2>11, <2>12, <2>14, <3>2
    <2> QED  BY <2>13, <2>14
  <1>9. n \in S
    <2>1. S \in SUBSET Nat
      OBVIOUS
    <2> HIDE DEF S
    <2> QED  BY <1>1, <1>7, <1>8, <2>1, SetInduction
  <1>10. Same(n)
    BY <1>1, <1>9
  <1>11. a(n) = Applied(m, tasks)
    BY DEF Applied, n
  <1> HIDE DEF a, b
  <1> QED  BY <1>4, <1>10, <1>11 DEF b

-----------------------------------------------------------------------------
(* A call that a team is in: the part of each thread, the tensors as the   *)
(* call found them, and how far each thread has come.                      *)

PartsIn(parts, D) ==
  \A t \in DOMAIN parts :
    /\ Len(parts[t]) \in Nat
    /\ ReadsIn(parts[t], D)
    /\ \A i \in 1 .. Len(parts[t]) : parts[t][i].cell \in D

(* Task i of thread t and task j of thread u.                              *)
TasksApart(parts, t, i, u, j) ==
  /\ \A k \in DOMAIN parts[u][j].reads : parts[u][j].reads[k] # parts[t][i].cell
  /\ parts[t][i].cell = parts[u][j].cell =>
       parts[t][i].op = parts[u][j].op /\ parts[t][i].reads = parts[u][j].reads
PartsApart(parts) ==
  \A t, u \in DOMAIN parts : t # u =>
    \A i \in 1 .. Len(parts[t]), j \in 1 .. Len(parts[u]) : TasksApart(parts, t, i, u, j)

IsCall(parts, D, m) == IsTensor(m, D) /\ PartsIn(parts, D) /\ PartsApart(parts)
IsPace(parts, done) == \A t \in DOMAIN parts : done[t] \in 0 .. Len(parts[t])

Wrote(parts, t, n) == {parts[t][i].cell : i \in 1 .. n}
(* What the thread would see if it were alone.                             *)
Alone(parts, m, t, n) == Performed(m, parts[t])[n]

Halfway(parts, D, m, now, done) ==
  /\ IsTensor(now, D)
  /\ \A x \in D : (\A t \in DOMAIN parts : x \notin Wrote(parts, t, done[t])) => now[x] = m[x]
  /\ \A t \in DOMAIN parts : \A x \in Wrote(parts, t, done[t]) :
       now[x] = Alone(parts, m, t, done[t])[x]

LEMMA AloneSteps ==
  ASSUME NEW D, NEW m, NEW parts, IsCall(parts, D, m), NEW t \in DOMAIN parts
  PROVE  /\ Alone(parts, m, t, 0) = m
         /\ \A n \in 0 .. Len(parts[t]) : IsTensor(Alone(parts, m, t, n), D)
         /\ \A n \in Nat : n < Len(parts[t]) =>
              Alone(parts, m, t, n + 1) = Perform(Alone(parts, m, t, n), parts[t][n + 1])
  <1> DEFINE s == parts[t]
  <1>1. IsTensor(m, D) /\ Len(s) \in Nat
    BY DEF IsCall, PartsIn
  <1> HIDE DEF s
  <1>2. Performed(m, s)[0] = m
    BY <1>1, PerformedStep
  <1>3. \A n \in 0 .. Len(s) : IsTensor(Performed(m, s)[n], D)
    BY <1>1, PerformedTensor
  <1>4. \A y \in 1 .. Len(s) : Performed(m, s)[y] = Perform(Performed(m, s)[y - 1], s[y])
    BY <1>1, PerformedStep
  <1>5. ASSUME NEW n \in Nat, n < Len(s)
        PROVE  Performed(m, s)[n + 1] = Perform(Performed(m, s)[n], s[n + 1])
    <2>1. n + 1 \in 1 .. Len(s) /\ (n + 1) - 1 = n
      BY <1>1, <1>5
    <2> QED  BY <1>4, <2>1
  <1> QED  BY <1>2, <1>3, <1>5 DEF Alone, s

LEMMA AloneAt ==
  ASSUME NEW D, NEW m, NEW parts, IsCall(parts, D, m), NEW t \in DOMAIN parts,
         NEW n \in Nat, n < Len(parts[t]), NEW x \in D
  PROVE  Alone(parts, m, t, n + 1)[x] =
           IF x = parts[t][n + 1].cell
             THEN Term(parts[t][n + 1].op, parts[t][n + 1].cell[2],
                       Values(Alone(parts, m, t, n), parts[t][n + 1]))
             ELSE Alone(parts, m, t, n)[x]
  <1> DEFINE task == parts[t][n + 1]
             q == Alone(parts, m, t, n)
  <1>1. Len(parts[t]) \in Nat
    BY DEF IsCall, PartsIn
  <1>2. n \in 0 .. Len(parts[t])
    BY <1>1
  <1>3. IsTensor(q, D) /\ Alone(parts, m, t, n + 1) = Perform(q, task)
    BY <1>2, AloneSteps
  <1> HIDE DEF q, task
  <1>4. Perform(q, task)[x] = IF x = task.cell THEN Term(task.op, task.cell[2], Values(q, task))
                              ELSE q[x]
    BY <1>3, PerformValue
  <1> QED  BY <1>3, <1>4 DEF q, task

(* What the thread has not written is as the call found it.                *)
LEMMA AloneKeeps ==
  ASSUME NEW D, NEW m, NEW parts, IsCall(parts, D, m), NEW t \in DOMAIN parts,
         NEW n \in 0 .. Len(parts[t]), NEW x \in D, x \notin Wrote(parts, t, n)
  PROVE  Alone(parts, m, t, n)[x] = m[x]
  <1>1. IsTensor(m, D) /\ Len(parts[t]) \in Nat
    BY DEF IsCall, PartsIn
  <1>2. \A i \in 1 .. n : parts[t][i].cell # x
    BY DEF Wrote
  <1>3. Performed(m, parts[t])[n][x] = m[x]
    BY <1>1, <1>2, NotWritten, SMTT(30)
  <1> QED  BY <1>3 DEF Alone

LEMMA WroteNext ==
  ASSUME NEW parts, NEW t, NEW n \in Nat
  PROVE  Wrote(parts, t, n + 1) = Wrote(parts, t, n) \cup {parts[t][n + 1].cell}
  <1>1. 1 .. n + 1 = (1 .. n) \cup {n + 1}
    OBVIOUS
  <1> QED  BY <1>1 DEF Wrote

LEMMA WroteIn ==
  ASSUME NEW D, NEW m, NEW parts, IsCall(parts, D, m), NEW t \in DOMAIN parts,
         NEW n \in 0 .. Len(parts[t]), NEW x \in Wrote(parts, t, n)
  PROVE  x \in D /\ \E i \in 1 .. Len(parts[t]) : x = parts[t][i].cell
  <1>1. PICK i \in 1 .. n : x = parts[t][i].cell
    BY DEF Wrote
  <1>2. Len(parts[t]) \in Nat
    BY DEF IsCall, PartsIn
  <1>3. i \in 1 .. Len(parts[t])
    BY <1>2
  <1> QED  BY <1>1, <1>3 DEF IsCall, PartsIn

(* No thread writes what another one reads.                                *)
LEMMA ReadsUnwritten ==
  ASSUME NEW D, NEW m, NEW parts, IsCall(parts, D, m),
         NEW t \in DOMAIN parts, NEW u \in DOMAIN parts, t # u,
         NEW i \in 1 .. Len(parts[t]), NEW k \in DOMAIN parts[t][i].reads,
         NEW n \in 0 .. Len(parts[u])
  PROVE  /\ parts[t][i].reads[k] \in D
         /\ parts[t][i].reads[k] \notin Wrote(parts, u, n)
         /\ Alone(parts, m, u, n)[parts[t][i].reads[k]] = m[parts[t][i].reads[k]]
  <1> DEFINE r == parts[t][i].reads[k]
  <1>1. r \in D
    BY DEF IsCall, PartsIn, ReadsIn
  <1>2. r \notin Wrote(parts, u, n)
    <2> SUFFICES ASSUME r \in Wrote(parts, u, n) PROVE FALSE
      OBVIOUS
    <2>1. PICK j \in 1 .. Len(parts[u]) : r = parts[u][j].cell
      BY WroteIn
    <2>2. TasksApart(parts, u, j, t, i)
      BY DEF IsCall, PartsApart
    <2> QED  BY <2>1, <2>2 DEF TasksApart
  <1> HIDE DEF r
  <1>3. Alone(parts, m, u, n)[r] = m[r]
    BY <1>1, <1>2, AloneKeeps
  <1> QED  BY <1>1, <1>2, <1>3 DEF r

(* A cell that two threads write: each makes the same of it.               *)
LEMMA SharedCell ==
  ASSUME NEW D, NEW m, NEW parts, IsCall(parts, D, m),
         NEW t \in DOMAIN parts, NEW u \in DOMAIN parts, t # u,
         NEW i \in 1 .. Len(parts[t]), NEW x, x = parts[t][i].cell
  PROVE  \A n \in 0 .. Len(parts[u]) : x \in Wrote(parts, u, n) =>
           Alone(parts, m, u, n)[x] = Term(parts[t][i].op, x[2], Values(m, parts[t][i]))
  <1> DEFINE mine == parts[t][i]
             v == Term(mine.op, x[2], Values(m, mine))
             S == {n \in Nat : n <= Len(parts[u]) /\ x \in Wrote(parts, u, n) =>
                                 Alone(parts, m, u, n)[x] = v}
  <1>1. x \in D /\ Len(parts[u]) \in Nat
    BY DEF IsCall, PartsIn
  <1>2. 0 \in S
    <2>1. Wrote(parts, u, 0) = {}
      BY DEF Wrote
    <2> QED  BY <2>1
  <1>3. ASSUME NEW n \in S PROVE n + 1 \in S
    <2> SUFFICES ASSUME n + 1 <= Len(parts[u]), x \in Wrote(parts, u, n + 1)
                 PROVE  Alone(parts, m, u, n + 1)[x] = v
      OBVIOUS
    <2> DEFINE task == parts[u][n + 1]
               q == Alone(parts, m, u, n)
    <2>1. /\ n \in Nat /\ n < Len(parts[u]) /\ n \in 0 .. Len(parts[u])
          /\ n + 1 \in 1 .. Len(parts[u])
          /\ x \in Wrote(parts, u, n) => q[x] = v
      BY <1>1
    <2>2. Alone(parts, m, u, n + 1)[x] =
            IF x = task.cell THEN Term(task.op, task.cell[2], Values(q, task)) ELSE q[x]
      BY <1>1, <2>1, AloneAt
    <2>3. CASE x = task.cell
      <3>1. TasksApart(parts, t, i, u, n + 1)
        BY <2>1 DEF IsCall, PartsApart
      <3>2. task.op = mine.op /\ task.reads = mine.reads
        BY <2>3, <3>1 DEF TasksApart
      <3>3. \A k \in DOMAIN mine.reads : q[mine.reads[k]] = m[mine.reads[k]]
        BY <2>1, ReadsUnwritten
      <3> HIDE DEF mine, task, q
      <3>4. Values(q, task) = Values(m, mine)
        BY <3>2, <3>3, Zenon DEF Values
      <3> QED  BY <2>2, <2>3, <3>2, <3>4
    <2>4. CASE x # task.cell
      <3>1. x \in Wrote(parts, u, n)
        BY <2>1, <2>4, WroteNext
      <3> QED  BY <2>1, <2>2, <2>4, <3>1
    <2> QED  BY <2>3, <2>4
  <1>4. \A n \in Nat : n \in S
    <2>1. S \in SUBSET Nat
      OBVIOUS
    <2> HIDE DEF S
    <2> QED  BY <1>2, <1>3, <2>1, SetInduction
  <1> QED  BY <1>4

(* Two threads that have both written a cell have made the same of it.     *)
LEMMA SameInBoth ==
  ASSUME NEW D, NEW m, NEW parts, IsCall(parts, D, m),
         NEW t \in DOMAIN parts, NEW u \in DOMAIN parts, t # u,
         NEW n \in 0 .. Len(parts[t]), NEW o \in 0 .. Len(parts[u]),
         NEW x, x \in Wrote(parts, t, n), x \in Wrote(parts, u, o)
  PROVE  Alone(parts, m, t, n)[x] = Alone(parts, m, u, o)[x]
  <1>1. PICK i \in 1 .. Len(parts[t]) : x = parts[t][i].cell
    BY WroteIn
  <1>2. PICK j \in 1 .. Len(parts[u]) : x = parts[u][j].cell
    BY WroteIn
  <1>3. Alone(parts, m, u, o)[x] = Term(parts[t][i].op, x[2], Values(m, parts[t][i]))
    BY <1>1, SharedCell
  <1>4. Alone(parts, m, t, n)[x] = Term(parts[u][j].op, x[2], Values(m, parts[u][j]))
    BY <1>2, SharedCell
  <1>5. parts[t][i].op = parts[u][j].op /\ parts[t][i].reads = parts[u][j].reads
    <2>1. TasksApart(parts, t, i, u, j)
      BY DEF IsCall, PartsApart
    <2> QED  BY <1>1, <1>2, <2>1 DEF TasksApart
  <1>6. Values(m, parts[t][i]) = Values(m, parts[u][j])
    BY <1>5, Zenon DEF Values
  <1> QED  BY <1>3, <1>4, <1>5, <1>6

(* A thread reads what it would read if it were alone.                     *)
LEMMA ReadsAlone ==
  ASSUME NEW D, NEW m, NEW parts, IsCall(parts, D, m), NEW done, IsPace(parts, done),
         NEW now, Halfway(parts, D, m, now, done),
         NEW t \in DOMAIN parts, done[t] < Len(parts[t])
  PROVE  Values(now, parts[t][done[t] + 1])
           = Values(Alone(parts, m, t, done[t]), parts[t][done[t] + 1])
  <1> DEFINE n == done[t]
             task == parts[t][n + 1]
  <1>1. n \in 0 .. Len(parts[t]) /\ n + 1 \in 1 .. Len(parts[t])
    <2>1. Len(parts[t]) \in Nat /\ n \in 0 .. Len(parts[t])
      BY DEF IsPace, IsCall, PartsIn
    <2> QED  BY <2>1
  <1>2. ASSUME NEW k \in DOMAIN task.reads
        PROVE  now[task.reads[k]] = Alone(parts, m, t, n)[task.reads[k]]
    <2> DEFINE r == task.reads[k]
    <2>1. CASE r \in Wrote(parts, t, n)
      BY <2>1 DEF Halfway
    <2>2. CASE r \notin Wrote(parts, t, n)
      <3>1. r \in D
        BY <1>1 DEF IsCall, PartsIn, ReadsIn
      <3>2. Alone(parts, m, t, n)[r] = m[r]
        <4> HIDE DEF r, n
        <4> QED  BY <1>1, <2>2, <3>1, AloneKeeps
      <3>3. ASSUME NEW u \in DOMAIN parts PROVE r \notin Wrote(parts, u, done[u])
        <4>1. CASE u = t
          BY <2>2, <4>1
        <4>2. CASE u # t
          <5>1. done[u] \in 0 .. Len(parts[u])
            BY DEF IsPace
          <5> QED  BY <1>1, <4>2, <5>1, ReadsUnwritten
        <4> QED  BY <4>1, <4>2
      <3> HIDE DEF r
      <3>4. now[r] = m[r]
        BY <3>1, <3>3 DEF Halfway
      <3> QED  BY <3>2, <3>4 DEF r
    <2> QED  BY <2>1, <2>2
  <1> HIDE DEF task, n
  <1>3. Values(now, task) = Values(Alone(parts, m, t, n), task)
    BY <1>2, ValuesSame
  <1> QED  BY <1>3 DEF task, n

(* Two threads about to write the same cell have read the same.            *)
LEMMA SameToStore ==
  ASSUME NEW D, NEW m, NEW parts, IsCall(parts, D, m), NEW done, IsPace(parts, done),
         NEW t \in DOMAIN parts, NEW u \in DOMAIN parts, t # u,
         done[t] < Len(parts[t]), done[u] < Len(parts[u]),
         parts[t][done[t] + 1].cell = parts[u][done[u] + 1].cell
  PROVE  /\ parts[t][done[t] + 1].op = parts[u][done[u] + 1].op
         /\ Values(Alone(parts, m, t, done[t]), parts[t][done[t] + 1])
              = Values(Alone(parts, m, u, done[u]), parts[u][done[u] + 1])
  <1>1. ASSUME NEW s \in DOMAIN parts, done[s] < Len(parts[s])
        PROVE  done[s] \in 0 .. Len(parts[s]) /\ done[s] + 1 \in 1 .. Len(parts[s])
    <2>1. Len(parts[s]) \in Nat /\ done[s] \in 0 .. Len(parts[s])
      BY DEF IsPace, IsCall, PartsIn
    <2> QED  BY <1>1, <2>1
  <1> DEFINE a == parts[t][done[t] + 1]
             b == parts[u][done[u] + 1]
  <1>2. TasksApart(parts, t, done[t] + 1, u, done[u] + 1)
    BY <1>1 DEF IsCall, PartsApart
  <1>3. a.op = b.op /\ a.reads = b.reads
    BY <1>2 DEF TasksApart
  <1>4. \A k \in DOMAIN a.reads : Alone(parts, m, u, done[u])[a.reads[k]] = m[a.reads[k]]
    BY <1>1, ReadsUnwritten
  <1>5. \A k \in DOMAIN b.reads : Alone(parts, m, t, done[t])[b.reads[k]] = m[b.reads[k]]
    BY <1>1, ReadsUnwritten
  <1> HIDE DEF a, b
  <1>6. Values(Alone(parts, m, t, done[t]), a) = Values(Alone(parts, m, u, done[u]), b)
    BY <1>3, <1>4, <1>5, SMTT(30) DEF Values
  <1> QED  BY <1>3, <1>6 DEF a, b

LEMMA StoreAt ==
  ASSUME NEW D, NEW now, IsTensor(now, D), NEW task, NEW values
  PROVE  /\ IsTensor(Store(now, task, values), D)
         /\ \A x \in D : Store(now, task, values)[x] =
              IF x = task.cell THEN Term(task.op, task.cell[2], values) ELSE now[x]
  <1> DEFINE v == Term(task.op, task.cell[2], values)
  <1>1. Store(now, task, values) = [now EXCEPT ![task.cell] = v]
    BY DEF Store
  <1> HIDE DEF v
  <1>2. DOMAIN now = D
    BY DEF IsTensor
  <1> QED  BY <1>1, <1>2 DEF IsTensor, v

(* Storing what was computed from what was read brings the thread on.      *)
LEMMA StoreKeeps ==
  ASSUME NEW D, NEW m, NEW parts, IsCall(parts, D, m), NEW done, IsPace(parts, done),
         NEW now, Halfway(parts, D, m, now, done),
         NEW t \in DOMAIN parts, done[t] < Len(parts[t]),
         NEW next, \A u \in DOMAIN parts : next[u] = IF u = t THEN done[t] + 1 ELSE done[u],
         NEW values,
         values = Values(Alone(parts, m, t, done[t]), parts[t][done[t] + 1])
  PROVE  /\ IsPace(parts, next)
         /\ Halfway(parts, D, m, Store(now, parts[t][done[t] + 1], values), next)
  <1> DEFINE n == done[t]
             task == parts[t][n + 1]
             then == Store(now, task, values)
  <1>1. n \in Nat /\ n \in 0 .. Len(parts[t]) /\ n + 1 \in 0 .. Len(parts[t]) /\ n < Len(parts[t])
    <2>1. Len(parts[t]) \in Nat /\ n \in 0 .. Len(parts[t])
      BY DEF IsPace, IsCall, PartsIn
    <2> QED  BY <2>1
  <1>2. IsPace(parts, next)
    BY <1>1 DEF IsPace
  <1>3. IsTensor(then, D)
    <2> HIDE DEF task
    <2> QED  BY StoreAt DEF Halfway
  <1>4. \A x \in D : then[x] = IF x = task.cell THEN Term(task.op, task.cell[2], values) ELSE now[x]
    <2>1. IsTensor(now, D)
      BY DEF Halfway
    <2> HIDE DEF task
    <2> QED  BY <2>1, StoreAt
  <1>5. \A x \in D : Alone(parts, m, t, n + 1)[x] =
          IF x = task.cell THEN Term(task.op, task.cell[2], values) ELSE Alone(parts, m, t, n)[x]
    <2> SUFFICES ASSUME NEW x \in D
                 PROVE  Alone(parts, m, t, n + 1)[x] =
                          IF x = task.cell THEN Term(task.op, task.cell[2], values)
                          ELSE Alone(parts, m, t, n)[x]
      OBVIOUS
    <2>1. Alone(parts, m, t, n + 1)[x] =
            IF x = parts[t][n + 1].cell
              THEN Term(parts[t][n + 1].op, parts[t][n + 1].cell[2],
                        Values(Alone(parts, m, t, n), parts[t][n + 1]))
              ELSE Alone(parts, m, t, n)[x]
      BY <1>1, AloneAt
    <2> QED  BY <2>1
  <1>6. Wrote(parts, t, next[t]) = Wrote(parts, t, n) \cup {task.cell}
    BY <1>1, WroteNext
  <1>7. \A u \in DOMAIN parts : u # t => Wrote(parts, u, next[u]) = Wrote(parts, u, done[u])
    OBVIOUS
  <1>8. /\ \A x \in D : (\A u \in DOMAIN parts : x \notin Wrote(parts, u, done[u])) => now[x] = m[x]
        /\ \A u \in DOMAIN parts : \A x \in Wrote(parts, u, done[u]) :
             now[x] = Alone(parts, m, u, done[u])[x]
    BY DEF Halfway
  <1>9. next[t] = n + 1 /\ \A u \in DOMAIN parts : u # t => next[u] = done[u]
    OBVIOUS
  <1> HIDE DEF then, task
  <1>10. ASSUME NEW x \in D, \A u \in DOMAIN parts : x \notin Wrote(parts, u, next[u])
         PROVE  then[x] = m[x]
    <2>1. x # task.cell
      BY <1>6, <1>10
    <2>2. \A u \in DOMAIN parts : x \notin Wrote(parts, u, done[u])
      BY <1>6, <1>7, <1>10
    <2> QED  BY <1>4, <1>8, <2>1, <2>2
  <1>11. ASSUME NEW u \in DOMAIN parts, NEW x \in Wrote(parts, u, next[u])
         PROVE  then[x] = Alone(parts, m, u, next[u])[x]
    <2>1. x \in D
      <3>1. next[u] \in 0 .. Len(parts[u])
        BY <1>2 DEF IsPace
      <3> QED  BY <3>1, WroteIn
    <2>2. CASE u = t
      <3>1. CASE x = task.cell
        BY <1>4, <1>5, <1>9, <2>1, <2>2, <3>1
      <3>2. CASE x # task.cell
        <4>1. x \in Wrote(parts, t, n)
          BY <1>6, <1>11, <2>2, <3>2
        <4>2. now[x] = Alone(parts, m, t, n)[x]
          BY <1>8, <4>1
        <4> QED  BY <1>4, <1>5, <1>9, <2>1, <2>2, <3>2, <4>2
      <3> QED  BY <3>1, <3>2
    <2>3. CASE u # t
      <3>1. x \in Wrote(parts, u, done[u]) /\ next[u] = done[u]
        BY <1>7, <1>9, <2>3
      <3>2. now[x] = Alone(parts, m, u, done[u])[x]
        BY <1>8, <3>1
      <3>3. CASE x = task.cell
        <4>1. done[u] \in 0 .. Len(parts[u])
          BY DEF IsPace
        <4>2. x \in Wrote(parts, t, n + 1)
          BY <1>6, <1>9, <3>3
        <4>3. Alone(parts, m, t, n + 1)[x] = Alone(parts, m, u, done[u])[x]
          BY <1>1, <2>3, <3>1, <4>1, <4>2, SameInBoth
        <4> QED  BY <1>4, <1>5, <2>1, <3>1, <3>3, <4>3
      <3>4. CASE x # task.cell
        BY <1>4, <2>1, <3>1, <3>2, <3>4
      <3> QED  BY <3>3, <3>4
    <2> QED  BY <2>2, <2>3
  <1>12. Halfway(parts, D, m, then, next)
    BY <1>3, <1>10, <1>11 DEF Halfway
  <1> QED  BY <1>2, <1>12 DEF then, task

(* When every thread has done its part, the call is done.                  *)
WholeIn(whole, parts, D) ==
  /\ ReadsIn(whole, D)
  /\ \A t \in DOMAIN parts :
       /\ parts[t] = TasksOn(whole, Written(parts[t]))
       /\ Touched(parts[t]) \cap Written(whole) \subseteq Written(parts[t])
  /\ \A x \in Written(whole) : \E t \in DOMAIN parts : x \in Written(parts[t])

LEMMA TasksOnAre ==
  ASSUME NEW T, NEW tasks \in Seq(T), NEW cells
  PROVE  /\ TasksOn(tasks, cells) \in Seq({tasks[k] : k \in 1 .. Len(tasks)})
         /\ \A i \in 1 .. Len(tasks) : tasks[i].cell \in cells =>
              \E j \in 1 .. Len(TasksOn(tasks, cells)) : TasksOn(tasks, cells)[j] = tasks[i]
  <1> DEFINE some == [k \in DOMAIN tasks |-> IF tasks[k].cell \in cells THEN <<tasks[k]>> ELSE <<>>]
             n == Len(tasks)
             R == {tasks[k] : k \in 1 .. n}
  <1>1. n \in Nat /\ DOMAIN tasks = 1 .. n
    OBVIOUS
  <1>2. \A k \in 1 .. n : some[k] = IF tasks[k].cell \in cells THEN <<tasks[k]>> ELSE <<>>
    BY <1>1
  <1>3. TasksOn(tasks, cells) = Joined(some, n)
    BY DEF TasksOn
  <1> HIDE DEF some, n
  <1>4. \A k \in 1 .. n : some[k] \in Seq(R)
    <2> SUFFICES ASSUME NEW k \in 1 .. n PROVE some[k] \in Seq(R)
      OBVIOUS
    <2>1. tasks[k] \in R
      OBVIOUS
    <2> HIDE DEF R
    <2>2. <<>> \in Seq(R) /\ <<tasks[k]>> \in Seq(R)
      BY <2>1
    <2> QED  BY <1>2, <2>2, Zenon
  <1> HIDE DEF R
  <1>5. Joined(some, n) \in Seq(R)
    BY <1>1, <1>4, JoinedType
  <1>6. ASSUME NEW i \in 1 .. n, tasks[i].cell \in cells
        PROVE  \E j \in 1 .. Len(Joined(some, n)) : Joined(some, n)[j] = tasks[i]
    <2> DEFINE before == Len(Joined(some, i - 1))
    <2>0. RoundAt(some, n, i)
      BY <1>1, <1>4, JoinedAt
    <2>1. /\ before \in Nat
          /\ before + Len(some[i]) <= Len(Joined(some, n))
          /\ \A k \in 1 .. Len(some[i]) : Joined(some, n)[before + k] = some[i][k]
      BY <2>0 DEF RoundAt
    <2>2. some[i] = <<tasks[i]>>
      BY <1>2, <1>6
    <2>3. Len(some[i]) = 1 /\ some[i][1] = tasks[i]
      BY <2>2
    <2>4. Len(Joined(some, n)) \in Nat
      BY <1>5
    <2> HIDE DEF before
    <2>5. before + 1 \in 1 .. Len(Joined(some, n)) /\ Joined(some, n)[before + 1] = tasks[i]
      BY <2>1, <2>3, <2>4
    <2> QED  BY <2>5
  <1> QED  BY <1>3, <1>5, <1>6 DEF n, R

LEMMA CallMade ==
  ASSUME NEW D, NEW m, NEW parts, IsCall(parts, D, m), NEW T,
         \A t \in DOMAIN parts : parts[t] \in Seq(T),
         NEW whole \in Seq(T), WholeIn(whole, parts, D),
         NEW now, NEW done, Halfway(parts, D, m, now, done),
         \A t \in DOMAIN parts : done[t] = Len(parts[t])
  PROVE  now = Applied(m, whole)
  <1>0. /\ IsTensor(m, D) /\ Len(whole) \in Nat /\ DOMAIN whole = 1 .. Len(whole)
        /\ \A t \in DOMAIN parts :
             /\ DOMAIN parts[t] = 1 .. Len(parts[t]) /\ Len(parts[t]) \in Nat
             /\ Wrote(parts, t, done[t]) = Written(parts[t])
             /\ Alone(parts, m, t, done[t]) = Applied(m, parts[t])
    BY DEF IsCall, Wrote, Written, Alone, Applied
  <1>1. IsTensor(now, D) /\ IsTensor(Applied(m, whole), D)
    BY <1>0, AppliedTensor DEF Halfway
  <1>2. ASSUME NEW t \in DOMAIN parts PROVE Written(parts[t]) \subseteq Written(whole)
    <2> DEFINE R == {whole[k] : k \in 1 .. Len(whole)}
    <2>1. parts[t] \in Seq(R)
      <3>1. TasksOn(whole, Written(parts[t])) \in Seq(R)
        BY TasksOnAre
      <3> QED  BY <3>1 DEF WholeIn
    <2>2. \A i \in DOMAIN parts[t] : parts[t][i] \in R
      <3> HIDE DEF R
      <3> QED  BY <2>1
    <2> QED  BY <1>0, <2>2 DEF Written
  <1>3. ASSUME NEW t \in DOMAIN parts PROVE ReadsKept(whole, Written(parts[t]))
    <2> SUFFICES ASSUME NEW i \in 1 .. Len(whole), whole[i].cell \in Written(parts[t]),
                        NEW k \in DOMAIN whole[i].reads
                 PROVE  Kept(whole, Written(parts[t]), whole[i].reads[k])
      BY DEF ReadsKept
    <2>1. PICK j \in 1 .. Len(parts[t]) : parts[t][j] = whole[i]
      <3>1. parts[t] = TasksOn(whole, Written(parts[t]))
        BY DEF WholeIn
      <3>2. \E j \in 1 .. Len(TasksOn(whole, Written(parts[t]))) :
              TasksOn(whole, Written(parts[t]))[j] = whole[i]
        BY TasksOnAre, ZenonT(40)
      <3> QED  BY <3>1, <3>2
    <2>2. whole[i].reads[k] \in Touched(parts[t])
      BY <1>0, <2>1 DEF Touched
    <2> QED  BY <2>2 DEF WholeIn, Kept
  <1>4. ASSUME NEW x \in D PROVE now[x] = Applied(m, whole)[x]
    <2>1. CASE x \in Written(whole)
      <3>1. PICK t \in DOMAIN parts : x \in Written(parts[t])
        BY <2>1 DEF WholeIn
      <3>2. now[x] = Applied(m, parts[t])[x]
        BY <1>0, <3>1 DEF Halfway
      <3>3. Applied(m, whole)[x] = Applied(m, TasksOn(whole, Written(parts[t])))[x]
        <4>1. Kept(whole, Written(parts[t]), x) /\ ReadsIn(whole, D)
          BY <3>1 DEF Kept, WholeIn
        <4> QED  BY <1>0, <1>3, <4>1, ValueOn
      <3>4. parts[t] = TasksOn(whole, Written(parts[t]))
        BY DEF WholeIn
      <3> QED  BY <3>2, <3>3, <3>4
    <2>2. CASE x \notin Written(whole)
      <3>1. now[x] = m[x]
        BY <1>0, <1>2, <2>2 DEF Halfway
      <3>2. \A i \in 1 .. Len(whole) : whole[i].cell # x
        BY <1>0, <2>2 DEF Written
      <3>3. Len(whole) \in 0 .. Len(whole)
        BY <1>0
      <3>4. Performed(m, whole)[Len(whole)][x] = m[x]
        BY <1>0, <3>2, <3>3, NotWritten
      <3> QED  BY <3>1, <3>4 DEF Applied
    <2> QED  BY <2>1, <2>2
  <1> QED  BY <1>1, <1>4 DEF IsTensor

-----------------------------------------------------------------------------
(* The text of a thread. *)

LEMMA InstructionsAre ==
  /\ TensorTasks \subseteq Instructions
  /\ \A k \in Nat : Barrier(k) \in Instructions
  /\ \A task \in Instructions : task.reads \in Seq(TensorCells)
  <1>1. TensorTasks \subseteq Instructions
    BY DEF Instructions
  <1>2. ASSUME NEW k \in Nat PROVE Barrier(k) \in Instructions
    BY DEF Barrier, Instructions
  <1>3. ASSUME NEW task \in Instructions PROVE task.reads \in Seq(TensorCells)
    <2>1. CASE task \in TensorTasks
      BY <2>1 DEF TensorTasks
    <2>2. CASE task.reads = <<>>
      BY <2>2
    <2> QED  BY <2>1, <2>2 DEF Instructions
  <1> QED  BY <1>1, <1>2, <1>3

LEMMA RestOf ==
  ASSUME NEW T, NEW s \in Seq(T)
  PROVE  /\ SubSeq(s, 1, Len(s)) = s
         /\ SubSeq(s, Len(s) + 1, Len(s)) = <<>>
         /\ \A i \in 1 .. Len(s) :
              /\ SubSeq(s, i, Len(s)) # <<>>
              /\ Head(SubSeq(s, i, Len(s))) = s[i]
              /\ Tail(SubSeq(s, i, Len(s))) = SubSeq(s, i + 1, Len(s))
  <1>1. SubSeq(s, 1, Len(s)) = s
    OBVIOUS
  <1>2. SubSeq(s, Len(s) + 1, Len(s)) = <<>>
    OBVIOUS
  <1>3. ASSUME NEW i \in 1 .. Len(s)
        PROVE  /\ SubSeq(s, i, Len(s)) # <<>>
               /\ Head(SubSeq(s, i, Len(s))) = s[i]
    <2> DEFINE q == SubSeq(s, i, Len(s))
    <2>1. Len(q) # 0 /\ q[1] = s[i] /\ q \in Seq(T)
      OBVIOUS
    <2> HIDE DEF q
    <2>2. q # <<>> /\ Head(q) = q[1]
      BY <2>1
    <2> QED  BY <2>1, <2>2 DEF q
  <1>4. ASSUME NEW i \in 1 .. Len(s)
        PROVE  Tail(SubSeq(s, i, Len(s))) = SubSeq(s, i + 1, Len(s))
    <2>1. SubSeq(s, i, Len(s)) \in Seq(T) /\ SubSeq(s, i + 1, Len(s)) \in Seq(T)
      OBVIOUS
    <2>2. Len(SubSeq(s, i, Len(s))) = Len(s) - i + 1 /\ Len(SubSeq(s, i + 1, Len(s))) = Len(s) - i
      OBVIOUS
    <2>3. \A j \in 1 .. Len(s) - i : SubSeq(s, i, Len(s))[j + 1] = s[i + j]
                                     /\ SubSeq(s, i + 1, Len(s))[j] = s[i + j]
      OBVIOUS
    <2> DEFINE a == SubSeq(s, i, Len(s))
               b == SubSeq(s, i + 1, Len(s))
               n == Len(s) - i
    <2>4. a \in Seq(T) /\ b \in Seq(T) /\ n \in Nat /\ Len(a) = n + 1 /\ Len(b) = n
      BY <2>1, <2>2
    <2>5. \A j \in 1 .. n : a[j + 1] = b[j]
      BY <2>3
    <2> HIDE DEF a, b, n
    <2>6. Tail(a) \in Seq(T) /\ Len(Tail(a)) = n /\ \A j \in 1 .. n : Tail(a)[j] = a[j + 1]
      BY <2>4
    <2>7. Tail(a) = b
      BY <2>4, <2>5, <2>6
    <2> QED  BY <2>7 DEF a, b
  <1> QED  BY <1>1, <1>2, <1>3, <1>4

Blocks(p, t) == [k \in DOMAIN p.calls |-> Tasks(p.calls[k], t, p.team) \o <<Barrier(k)>>]
Start(p, t, k) == Len(Joined(Blocks(p, t), k - 1))
Left(p, t, k, n) ==
  SubSeq(program_text(p, t), Start(p, t, k) + n + 1, Len(program_text(p, t)))

LEMMA BlocksAre ==
  ASSUME NEW p \in Programs, WellFormed(p), NEW t \in Team(p)
  PROVE  /\ \A k \in 1 .. Len(p.calls) :
              /\ Tasks(p.calls[k], t, p.team) \in Seq(Instructions)
              /\ Blocks(p, t)[k] = Tasks(p.calls[k], t, p.team) \o <<Barrier(k)>>
              /\ Blocks(p, t)[k] \in Seq(Instructions)
         /\ program_text(p, t) = Joined(Blocks(p, t), Len(p.calls))
         /\ program_text(p, t) \in Seq(Instructions)
  <1>1. Len(p.calls) \in Nat /\ DOMAIN p.calls = 1 .. Len(p.calls)
    BY ProgramAssumption
  <1>2. program_text(p, t) = Joined(Blocks(p, t), Len(p.calls))
    BY DEF program_text, Blocks
  <1>3. ASSUME NEW k \in 1 .. Len(p.calls)
        PROVE  /\ Tasks(p.calls[k], t, p.team) \in Seq(Instructions)
               /\ Blocks(p, t)[k] = Tasks(p.calls[k], t, p.team) \o <<Barrier(k)>>
               /\ Blocks(p, t)[k] \in Seq(Instructions)
    <2>1. Tasks(p.calls[k], t, p.team) \in Seq(Instructions)
      BY <1>1 DEF WellFormed
    <2>2. Barrier(k) \in Instructions
      BY <1>1, InstructionsAre
    <2>3. Blocks(p, t)[k] = Tasks(p.calls[k], t, p.team) \o <<Barrier(k)>>
      BY <1>1 DEF Blocks
    <2> QED  BY <2>1, <2>2, <2>3
  <1>4. Joined(Blocks(p, t), Len(p.calls)) \in Seq(Instructions)
    BY <1>1, <1>3, JoinedType
  <1> QED  BY <1>2, <1>3, <1>4

(* Where the tasks of a call are in the text.                              *)
LEMMA TextAt ==
  ASSUME NEW p \in Programs, WellFormed(p), NEW t \in Team(p), NEW k \in 1 .. Len(p.calls)
  PROVE  LET part == Tasks(p.calls[k], t, p.team)
             text == program_text(p, t)
             start == Start(p, t, k)
         IN  /\ start \in Nat /\ Len(part) \in Nat
             /\ Start(p, t, k + 1) = start + Len(part) + 1
             /\ start + Len(part) + 1 <= Len(text)
             /\ \A i \in 1 .. Len(part) : text[start + i] = part[i]
             /\ text[start + Len(part) + 1] = Barrier(k)
  <1> DEFINE part == Tasks(p.calls[k], t, p.team)
             block == Blocks(p, t)[k]
             text == program_text(p, t)
             start == Start(p, t, k)
  <1>1. Len(p.calls) \in Nat
    BY ProgramAssumption
  <1>2. RoundAt(Blocks(p, t), Len(p.calls), k)
    BY <1>1, BlocksAre, JoinedAt
  <1>3. /\ start \in Nat
        /\ Len(Joined(Blocks(p, t), k)) = start + Len(block)
        /\ start + Len(block) <= Len(text)
        /\ \A i \in 1 .. Len(block) : text[start + i] = block[i]
    BY <1>2, BlocksAre DEF RoundAt, Start
  <1>4. (k + 1) - 1 = k
    OBVIOUS
  <1>5. Start(p, t, k + 1) = Len(Joined(Blocks(p, t), k))
    BY <1>4 DEF Start
  <1>6. part \in Seq(Instructions) /\ block = part \o <<Barrier(k)>>
    BY BlocksAre
  <1>7. /\ Len(part) \in Nat /\ Len(block) = Len(part) + 1
        /\ \A i \in 1 .. Len(part) : block[i] = part[i]
        /\ block[Len(part) + 1] = Barrier(k)
    <2> HIDE DEF part, block
    <2> QED  BY <1>6
  <1> HIDE DEF part, block, text, start
  <1>8. /\ start + Len(part) + 1 <= Len(text)
        /\ \A i \in 1 .. Len(part) : text[start + i] = part[i]
        /\ text[start + (Len(part) + 1)] = Barrier(k)
    BY <1>3, <1>7
  <1>9. start + (Len(part) + 1) = start + Len(part) + 1
    BY <1>3, <1>7
  <1> QED  BY <1>3, <1>5, <1>7, <1>8, <1>9 DEF part, text, start

LEMMA LeftAt ==
  ASSUME NEW p \in Programs, WellFormed(p), NEW t \in Team(p), NEW k \in 1 .. Len(p.calls),
         NEW n \in 0 .. Len(Tasks(p.calls[k], t, p.team))
  PROVE  LET part == Tasks(p.calls[k], t, p.team)
         IN  /\ Left(p, t, k, n) # <<>>
             /\ n < Len(part) => /\ Head(Left(p, t, k, n)) = part[n + 1]
                                 /\ Tail(Left(p, t, k, n)) = Left(p, t, k, n + 1)
             /\ n = Len(part) => /\ Head(Left(p, t, k, n)) = Barrier(k)
                                 /\ Tail(Left(p, t, k, n)) = Left(p, t, k + 1, 0)
  <1> DEFINE part == Tasks(p.calls[k], t, p.team)
             text == program_text(p, t)
             start == Start(p, t, k)
  <1>1. /\ start \in Nat /\ Len(part) \in Nat
        /\ Start(p, t, k + 1) = start + Len(part) + 1
        /\ start + Len(part) + 1 <= Len(text)
        /\ \A i \in 1 .. Len(part) : text[start + i] = part[i]
        /\ text[start + Len(part) + 1] = Barrier(k)
    BY TextAt
  <1>2. text \in Seq(Instructions)
    BY BlocksAre
  <1>3. n \in 0 .. Len(part)
    OBVIOUS
  <1>4. /\ Left(p, t, k, n) = SubSeq(text, start + n + 1, Len(text))
        /\ Left(p, t, k, n + 1) = SubSeq(text, start + (n + 1) + 1, Len(text))
        /\ Left(p, t, k + 1, 0) = SubSeq(text, Start(p, t, k + 1) + 0 + 1, Len(text))
    BY DEF Left
  <1> HIDE DEF part, text, start
  <1>5. /\ start + n + 1 \in 1 .. Len(text)
        /\ start + (n + 1) + 1 = (start + n + 1) + 1
        /\ n = Len(part) => Start(p, t, k + 1) + 0 + 1 = (start + n + 1) + 1
        /\ n < Len(part) => n + 1 \in 1 .. Len(part) /\ start + n + 1 = start + (n + 1)
    <2>1. Len(text) \in Nat
      BY <1>2
    <2> QED  BY <1>1, <1>3, <2>1, SMTT(30)
  <1> DEFINE at == start + n + 1
  <1>6. /\ SubSeq(text, at, Len(text)) # <<>>
        /\ Head(SubSeq(text, at, Len(text))) = text[at]
        /\ Tail(SubSeq(text, at, Len(text))) = SubSeq(text, at + 1, Len(text))
    BY <1>2, <1>5, RestOf
  <1>7. n < Len(part) => text[at] = part[n + 1]
    BY <1>1, <1>5
  <1>8. n = Len(part) => text[at] = Barrier(k)
    BY <1>1
  <1> HIDE DEF at
  <1>9. at = start + n + 1
    BY DEF at
  <1> QED  BY <1>4, <1>5, <1>6, <1>7, <1>8, <1>9 DEF part

LEMMA LeftFirst ==
  ASSUME NEW p \in Programs, WellFormed(p), NEW t \in Team(p)
  PROVE  /\ Left(p, t, 1, 0) = program_text(p, t)
         /\ Left(p, t, Len(p.calls) + 1, 0) = <<>>
  <1> DEFINE text == program_text(p, t)
  <1>1. text \in Seq(Instructions) /\ text = Joined(Blocks(p, t), Len(p.calls))
    BY BlocksAre
  <1>2. Len(p.calls) \in Nat
    BY ProgramAssumption
  <1>3. Start(p, t, 1) = 0
    <2>1. 1 - 1 = 0 /\ Len(<<>>) = 0
      OBVIOUS
    <2> QED  BY <2>1, JoinedUnfolds DEF Start
  <1>4. Start(p, t, Len(p.calls) + 1) = Len(text)
    <2>1. (Len(p.calls) + 1) - 1 = Len(p.calls)
      BY <1>2
    <2> QED  BY <1>1, <2>1 DEF Start
  <1>5. /\ Left(p, t, 1, 0) = SubSeq(text, Start(p, t, 1) + 0 + 1, Len(text))
        /\ Left(p, t, Len(p.calls) + 1, 0)
             = SubSeq(text, Start(p, t, Len(p.calls) + 1) + 0 + 1, Len(text))
    BY DEF Left
  <1> HIDE DEF text
  <1>6. Len(text) \in Nat /\ 0 + 0 + 1 = 1 /\ Len(text) + 0 + 1 = Len(text) + 1
    BY <1>1
  <1>7. SubSeq(text, 1, Len(text)) = text /\ SubSeq(text, Len(text) + 1, Len(text)) = <<>>
    BY <1>1, RestOf
  <1> QED  BY <1>3, <1>4, <1>5, <1>6, <1>7 DEF text

-----------------------------------------------------------------------------
(* The calls of a program that are shared. *)

Parts(p, k) ==
  [t \in Team(p) |-> IF k \in DOMAIN p.calls THEN Tasks(p.calls[k], t, p.team) ELSE <<>>]
Made(p, made) ==
  Applied(At_first(p), Joined([k \in DOMAIN p.calls |-> Whole(p.calls[k])], made))

LEMMA SharedWellFormed ==
  ASSUME NEW p \in Programs, AllShared(p)
  PROVE  WellFormed(p)
  <1> SUFFICES ASSUME NEW k \in DOMAIN p.calls, NEW t \in Team(p)
               PROVE  Tasks(p.calls[k], t, p.team) \in Seq(Instructions)
    BY DEF WellFormed
  <1>1. Tasks(p.calls[k], t, p.team) \in Seq(TensorTasks)
    BY DEF AllShared, Shares, Unbroken, Team
  <1> DEFINE s == Tasks(p.calls[k], t, p.team)
             A == TensorTasks
             B == Instructions
  <1>2. A \subseteq B
    BY InstructionsAre
  <1> HIDE DEF s, A, B
  <1>3. s \in Seq(A) => s \in Seq(B)
    BY <1>2
  <1> QED  BY <1>1, <1>3 DEF s, A, B

LEMMA CellsIn ==
  ASSUME NEW p \in Programs, AllShared(p), NEW t \in Team(p), NEW k \in 1 .. Len(p.calls),
         NEW i \in 1 .. Len(Tasks(p.calls[k], t, p.team))
  PROVE  LET task == Tasks(p.calls[k], t, p.team)[i]
         IN  /\ task.cell \in AllCells(p)
             /\ \A j \in DOMAIN task.reads : task.reads[j] \in AllCells(p)
  <1> DEFINE part == Tasks(p.calls[k], t, p.team)
             task == part[i]
             text == program_text(p, t)
             at == Start(p, t, k) + i
  <1>1. WellFormed(p)
    BY SharedWellFormed
  <1>2. Len(p.calls) \in Nat /\ DOMAIN p.calls = 1 .. Len(p.calls)
    BY ProgramAssumption
  <1>3. part \in Seq(TensorTasks)
    BY <1>2 DEF AllShared, Shares, Unbroken, Team
  <1>4. task \in TensorTasks
    <2> HIDE DEF part
    <2>1. i \in 1 .. Len(part)
      BY DEF part
    <2> QED  BY <1>3, <2>1
  <1>5. at \in 1 .. Len(text) /\ text[at] = task
    <2>1. /\ Start(p, t, k) \in Nat /\ Len(part) \in Nat
          /\ Start(p, t, k) + Len(part) + 1 <= Len(text)
          /\ \A j \in 1 .. Len(part) : text[Start(p, t, k) + j] = part[j]
      BY <1>1, TextAt
    <2>2. text \in Seq(Instructions)
      BY <1>1, BlocksAre
    <2>3. Len(text) \in Nat
      <3> HIDE DEF text
      <3> QED  BY <2>2
    <2>4. i \in 1 .. Len(part)
      OBVIOUS
    <2> HIDE DEF part, text
    <2> QED  BY <2>1, <2>3, <2>4
  <1>6. at \in DOMAIN text
    <2>1. text \in Seq(Instructions)
      BY <1>1, BlocksAre
    <2> HIDE DEF text, at
    <2> QED  BY <1>5, <2>1
  <1> HIDE DEF part, task, text, at
  <1>7. /\ task.cell \in Touched(text)
        /\ \A j \in DOMAIN task.reads : task.reads[j] \in Touched(text)
    BY <1>5, <1>6 DEF Touched
  <1>8. /\ task.cell[1] # ""
        /\ \A j \in DOMAIN task.reads : task.reads[j][1] # ""
    <2>1. \A cell \in TensorCells : cell[1] # ""
      BY ProgramAssumption DEF TensorCells
    <2>2. task.cell \in TensorCells /\ task.reads \in Seq(TensorCells)
      BY <1>4 DEF TensorTasks
    <2>3. \A j \in DOMAIN task.reads : task.reads[j] \in TensorCells
      BY <2>2
    <2> QED  BY <2>1, <2>2, <2>3
  <1>9. Touched(text) \subseteq UNION {Touched(program_text(p, u)) : u \in Team(p)}
    BY DEF text
  <1>10. /\ task.cell \in AllCells(p)
         /\ \A j \in DOMAIN task.reads : task.reads[j] \in AllCells(p)
    BY <1>7, <1>8, <1>9 DEF AllCells
  <1> QED  BY <1>10 DEF task, part

LEMMA WholeCells ==
  ASSUME NEW p \in Programs, AllShared(p), NEW k \in 1 .. Len(p.calls)
  PROVE  /\ Whole(p.calls[k]) \in Seq(TensorTasks)
         /\ ReadsIn(Whole(p.calls[k]), AllCells(p))
  <1> DEFINE whole == Whole(p.calls[k])
  <1>1. Len(p.calls) \in Nat /\ DOMAIN p.calls = 1 .. Len(p.calls)
    BY ProgramAssumption
  <1>2. whole \in Seq(TensorTasks)
    BY <1>1 DEF AllShared, Shares, Unbroken
  <1>3. Touched(whole) \subseteq UNION {Touched(Whole(p.calls[j])) : j \in DOMAIN p.calls}
    BY <1>1
  <1> HIDE DEF whole
  <1> SUFFICES ASSUME NEW i \in 1 .. Len(whole), NEW j \in DOMAIN whole[i].reads
               PROVE  whole[i].reads[j] \in AllCells(p)
    BY <1>2 DEF ReadsIn, whole
  <1> DEFINE task == whole[i]
  <1>4. task \in TensorTasks /\ i \in DOMAIN whole
    BY <1>2
  <1>5. task.reads[j] \in Touched(whole)
    BY <1>4 DEF Touched
  <1>6. task.reads[j][1] # ""
    <2>1. \A cell \in TensorCells : cell[1] # ""
      BY ProgramAssumption DEF TensorCells
    <2>2. task.reads \in Seq(TensorCells)
      BY <1>4 DEF TensorTasks
    <2> HIDE DEF task
    <2>3. \A l \in DOMAIN task.reads : task.reads[l] \in TensorCells
      BY <2>2
    <2> QED  BY <2>1, <2>3 DEF task
  <1> QED  BY <1>3, <1>5, <1>6 DEF AllCells

LEMMA PartsAre ==
  ASSUME NEW p \in Programs, AllShared(p), NEW k \in 1 .. Len(p.calls) + 1
  PROVE  /\ DOMAIN Parts(p, k) = Team(p)
         /\ \A t \in Team(p) :
              /\ Parts(p, k)[t] \in Seq(TensorTasks)
              /\ Len(Parts(p, k)[t]) \in Nat
              /\ k \in 1 .. Len(p.calls) => Parts(p, k)[t] = Tasks(p.calls[k], t, p.team)
              /\ k = Len(p.calls) + 1 => Parts(p, k)[t] = <<>> /\ Len(Parts(p, k)[t]) = 0
  <1>1. Len(p.calls) \in Nat /\ DOMAIN p.calls = 1 .. Len(p.calls)
    BY ProgramAssumption
  <1>2. DOMAIN Parts(p, k) = Team(p)
    BY DEF Parts
  <1>3. ASSUME NEW t \in Team(p)
        PROVE  /\ Parts(p, k)[t] \in Seq(TensorTasks)
               /\ Len(Parts(p, k)[t]) \in Nat
               /\ k \in 1 .. Len(p.calls) => Parts(p, k)[t] = Tasks(p.calls[k], t, p.team)
               /\ k = Len(p.calls) + 1 => Parts(p, k)[t] = <<>> /\ Len(Parts(p, k)[t]) = 0
    <2>1. k \in 1 .. Len(p.calls) => Parts(p, k)[t] = Tasks(p.calls[k], t, p.team)
      BY <1>1 DEF Parts
    <2>2. k = Len(p.calls) + 1 => Parts(p, k)[t] = <<>>
      BY <1>1 DEF Parts
    <2>3. k \in 1 .. Len(p.calls) => Tasks(p.calls[k], t, p.team) \in Seq(TensorTasks)
      BY <1>1 DEF AllShared, Shares, Unbroken, Team
    <2>4. <<>> \in Seq(TensorTasks) /\ Len(<<>>) = 0
      OBVIOUS
    <2>5. k \in 1 .. Len(p.calls) \/ k = Len(p.calls) + 1
      BY <1>1
    <2>6. Parts(p, k)[t] \in Seq(TensorTasks)
      BY <2>1, <2>2, <2>3, <2>4, <2>5
    <2> QED  BY <2>1, <2>2, <2>4, <2>6
  <1> QED  BY <1>2, <1>3

LEMMA MadeSteps ==
  ASSUME NEW p \in Programs, AllShared(p)
  PROVE  /\ Made(p, 0) = At_first(p)
         /\ \A k \in 1 .. Len(p.calls) : Made(p, k) = Applied(Made(p, k - 1), Whole(p.calls[k]))
         /\ \A k \in 0 .. Len(p.calls) : IsTensor(Made(p, k), AllCells(p))
  <1> DEFINE wholes == [k \in DOMAIN p.calls |-> Whole(p.calls[k])]
             K == Len(p.calls)
  <1>1. K \in Nat /\ DOMAIN p.calls = 1 .. K
    BY ProgramAssumption
  <1>2. \A k \in 1 .. K : wholes[k] = Whole(p.calls[k]) /\ wholes[k] \in Seq(TensorTasks)
    BY <1>1, WholeCells
  <1>3. \A k : Made(p, k) = Applied(At_first(p), Joined(wholes, k))
    BY DEF Made
  <1> HIDE DEF wholes, K
  <1>4. \A k \in 0 .. K : Joined(wholes, k) \in Seq(TensorTasks)
    <2> SUFFICES ASSUME NEW k \in 0 .. K PROVE Joined(wholes, k) \in Seq(TensorTasks)
      OBVIOUS
    <2>1. k \in Nat /\ \A j \in 1 .. k : wholes[j] \in Seq(TensorTasks)
      BY <1>1, <1>2
    <2> QED  BY <2>1, JoinedType
  <1>5. Made(p, 0) = At_first(p)
    BY <1>3, JoinedUnfolds, AppliedNothing
  <1>6. ASSUME NEW k \in 1 .. K
        PROVE  Made(p, k) = Applied(Made(p, k - 1), Whole(p.calls[k]))
    <2>1. k - 1 \in Nat /\ k - 1 \in 0 .. K /\ (k - 1) + 1 = k
      BY <1>1
    <2>2. Joined(wholes, k) = Joined(wholes, k - 1) \o wholes[k]
      BY <2>1, JoinedUnfolds
    <2>3. Joined(wholes, k - 1) \in Seq(TensorTasks) /\ wholes[k] \in Seq(TensorTasks)
      BY <1>2, <1>4, <2>1
    <2>4. Applied(At_first(p), Joined(wholes, k - 1) \o wholes[k])
            = Applied(Applied(At_first(p), Joined(wholes, k - 1)), wholes[k])
      BY <2>3, AppliedConcat
    <2> QED  BY <1>2, <1>3, <2>2, <2>4
  <1>7. ASSUME NEW k \in 0 .. K PROVE IsTensor(Made(p, k), AllCells(p))
    <2>1. IsTensor(At_first(p), AllCells(p))
      BY DEF IsTensor, At_first
    <2>2. Len(Joined(wholes, k)) \in Nat
      BY <1>4
    <2> QED  BY <1>3, <2>1, <2>2, AppliedTensor
  <1> QED  BY <1>5, <1>6, <1>7 DEF K

LEMMA PartsMakeACall ==
  ASSUME NEW p \in Programs, AllShared(p), NEW k \in 1 .. Len(p.calls) + 1
  PROVE  /\ IsCall(Parts(p, k), AllCells(p), Made(p, k - 1))
         /\ k \in 1 .. Len(p.calls) => WholeIn(Whole(p.calls[k]), Parts(p, k), AllCells(p))
  <1> DEFINE parts == Parts(p, k)
  <1>1. Len(p.calls) \in Nat /\ DOMAIN p.calls = 1 .. Len(p.calls)
    BY ProgramAssumption
  <1>2. k \in 1 .. Len(p.calls) \/ k = Len(p.calls) + 1
    BY <1>1
  <1>3. IsTensor(Made(p, k - 1), AllCells(p))
    <2>1. k - 1 \in 0 .. Len(p.calls)
      BY <1>1
    <2> QED  BY <2>1, MadeSteps
  <1>4. PartsIn(parts, AllCells(p))
    <2> SUFFICES ASSUME NEW t \in Team(p)
                 PROVE  /\ Len(parts[t]) \in Nat
                        /\ \A i \in 1 .. Len(parts[t]) :
                             /\ parts[t][i].cell \in AllCells(p)
                             /\ \A j \in DOMAIN parts[t][i].reads :
                                  parts[t][i].reads[j] \in AllCells(p)
      BY PartsAre DEF PartsIn, ReadsIn
    <2>1. CASE k \in 1 .. Len(p.calls)
      <3>1. parts[t] = Tasks(p.calls[k], t, p.team) /\ Len(parts[t]) \in Nat
        BY <2>1, PartsAre
      <3> HIDE DEF parts
      <3> QED  BY <2>1, <3>1, CellsIn
    <2>2. CASE k = Len(p.calls) + 1
      <3>1. Len(parts[t]) = 0
        BY <2>2, PartsAre
      <3> HIDE DEF parts
      <3> QED  BY <3>1
    <2> QED  BY <1>2, <2>1, <2>2
  <1>5. PartsApart(parts)
    <2> SUFFICES ASSUME NEW t \in Team(p), NEW u \in Team(p), t # u,
                        NEW i \in 1 .. Len(parts[t]), NEW j \in 1 .. Len(parts[u])
                 PROVE  TasksApart(parts, t, i, u, j)
      BY PartsAre DEF PartsApart
    <2>1. CASE k \in 1 .. Len(p.calls)
      <3>1. /\ parts[t] = Tasks(p.calls[k], t, p.team)
            /\ parts[u] = Tasks(p.calls[k], u, p.team)
            /\ i \in DOMAIN parts[t] /\ j \in DOMAIN parts[u]
        BY <2>1, PartsAre
      <3>2. Apart(p.calls[k], p.team)
        BY <1>1, <2>1 DEF AllShared, Shares
      <3> HIDE DEF parts
      <3> DEFINE part == Tasks(p.calls[k], t, p.team)
                 others == Tasks(p.calls[k], u, p.team)
      <3>3. \A a \in DOMAIN part, b \in DOMAIN others :
              /\ \A m \in DOMAIN others[b].reads : others[b].reads[m] # part[a].cell
              /\ part[a].cell = others[b].cell =>
                   part[a].op = others[b].op /\ part[a].reads = others[b].reads
        BY <3>2 DEF Apart, Team
      <3> HIDE DEF part, others
      <3>4. part = parts[t] /\ others = parts[u]
        BY <3>1 DEF part, others
      <3> QED  BY <3>1, <3>3, <3>4 DEF TasksApart
    <2>2. CASE k = Len(p.calls) + 1
      <3>1. Len(parts[t]) = 0
        BY <2>2, PartsAre
      <3> HIDE DEF parts
      <3> QED  BY <3>1
    <2> QED  BY <1>2, <2>1, <2>2
  <1>6. ASSUME k \in 1 .. Len(p.calls)
        PROVE  WholeIn(Whole(p.calls[k]), parts, AllCells(p))
    <2> DEFINE whole == Whole(p.calls[k])
    <2>1. DOMAIN parts = Team(p) /\ \A t \in Team(p) : parts[t] = Tasks(p.calls[k], t, p.team)
      BY <1>6, PartsAre
    <2>2. ReadsIn(whole, AllCells(p))
      BY <1>6, WholeCells
    <2>3. Divided(p.calls[k], p.team)
      BY <1>1, <1>6 DEF AllShared, Shares
    <2> HIDE DEF parts
    <2>4. \A t \in Team(p) :
            /\ parts[t] = TasksOn(whole, Written(parts[t]))
            /\ Touched(parts[t]) \cap Written(whole) \subseteq Written(parts[t])
      BY <2>1, <2>3 DEF Divided, Team
    <2>5. \A x \in Written(whole) : \E t \in Team(p) : x \in Written(parts[t])
      BY <2>1, <2>3 DEF Divided, Team
    <2> HIDE DEF whole
    <2>6. WholeIn(whole, parts, AllCells(p))
      BY <2>1, <2>2, <2>4, <2>5 DEF WholeIn
    <2> QED  BY <2>6 DEF whole
  <1> QED  BY <1>3, <1>4, <1>5, <1>6 DEF IsCall

-----------------------------------------------------------------------------
(* The inductive invariant: the team is in call k, thread t has done the   *)
(* first done[t] tasks of its part, and the tensors hold what each thread  *)
(* would have written alone.                                               *)

Reached(p, k, done, left, read, now) ==
  /\ IsPace(Parts(p, k), done)
  /\ \A t \in Team(p) : left[t] = Left(p, t, k, done[t])
  /\ \A t \in Team(p) : read[t] # <<>> =>
       /\ done[t] < Len(Parts(p, k)[t])
       /\ Parts(p, k)[t][done[t] + 1].reads # <<>>
       /\ read[t] = Values(Alone(Parts(p, k), Made(p, k - 1), t, done[t]),
                           Parts(p, k)[t][done[t] + 1])
  /\ Halfway(Parts(p, k), AllCells(p), Made(p, k - 1), now, done)

Inside(p) == \E k \in 1 .. Len(p.calls) + 1 : \E done : Reached(p, k, done, todo, loaded, mem)

TeamInv ==
  /\ program \in Programs
  /\ todo = [t \in Team(program) |-> todo[t]]
  /\ loaded = [t \in Team(program) |-> loaded[t]]
  /\ Inside(program)

(* Where a thread stands.                                                  *)
LEMMA Standing ==
  ASSUME NEW p \in Programs, AllShared(p), NEW k \in 1 .. Len(p.calls) + 1, NEW done, NEW left,
         NEW read, NEW now, Reached(p, k, done, left, read, now), NEW t \in Team(p)
  PROVE  LET part == Parts(p, k)[t]
         IN  \/ /\ k = Len(p.calls) + 1 /\ left[t] = <<>> /\ read[t] = <<>>
                /\ done[t] = Len(part)
             \/ /\ k \in 1 .. Len(p.calls) /\ done[t] = Len(part)
                /\ left[t] # <<>> /\ Head(left[t]) = Barrier(k)
                /\ Tail(left[t]) = Left(p, t, k + 1, 0) /\ read[t] = <<>>
             \/ /\ k \in 1 .. Len(p.calls) /\ done[t] \in Nat /\ done[t] < Len(part)
                /\ left[t] # <<>> /\ Head(left[t]) = part[done[t] + 1]
                /\ Head(left[t]) \in TensorTasks
                /\ Tail(left[t]) = Left(p, t, k, done[t] + 1)
  <1> DEFINE part == Parts(p, k)[t]
             n == done[t]
  <1>1. /\ part \in Seq(TensorTasks) /\ Len(part) \in Nat
        /\ k \in 1 .. Len(p.calls) => part = Tasks(p.calls[k], t, p.team)
        /\ k = Len(p.calls) + 1 => Len(part) = 0
    BY PartsAre
  <1>2. n \in 0 .. Len(part) /\ left[t] = Left(p, t, k, n)
    BY PartsAre DEF Reached, IsPace
  <1>3. read[t] # <<>> => n < Len(part)
    BY DEF Reached
  <1>4. WellFormed(p) /\ Len(p.calls) \in Nat
    BY SharedWellFormed, ProgramAssumption
  <1> HIDE DEF part, n
  <1>5. CASE k = Len(p.calls) + 1
    <2>1. n = 0 /\ n = Len(part) /\ ~ (n < Len(part))
      BY <1>1, <1>2, <1>5
    <2>2. Left(p, t, Len(p.calls) + 1, 0) = <<>>
      BY <1>4, LeftFirst
    <2> QED  BY <1>2, <1>3, <1>5, <2>1, <2>2 DEF part, n
  <1>6. CASE k \in 1 .. Len(p.calls)
    <2>1. n \in 0 .. Len(Tasks(p.calls[k], t, p.team))
      BY <1>1, <1>2, <1>6
    <2>2. /\ Left(p, t, k, n) # <<>>
          /\ n < Len(part) => /\ Head(Left(p, t, k, n)) = part[n + 1]
                              /\ Tail(Left(p, t, k, n)) = Left(p, t, k, n + 1)
          /\ n = Len(part) => /\ Head(Left(p, t, k, n)) = Barrier(k)
                              /\ Tail(Left(p, t, k, n)) = Left(p, t, k + 1, 0)
      BY <1>1, <1>4, <1>6, <2>1, LeftAt
    <2>3. CASE n = Len(part)
      BY <1>1, <1>2, <1>3, <1>6, <2>2, <2>3 DEF part, n
    <2>4. CASE n # Len(part)
      <3>1. n \in Nat /\ n < Len(part) /\ n + 1 \in 1 .. Len(part)
        BY <1>1, <1>2, <2>4
      <3>2. part[n + 1] \in TensorTasks
        BY <1>1, <3>1
      <3> QED  BY <1>2, <1>6, <2>2, <3>1, <3>2 DEF part, n
    <2> QED  BY <2>3, <2>4
  <1>7. k = Len(p.calls) + 1 \/ k \in 1 .. Len(p.calls)
    BY <1>4
  <1> QED  BY <1>5, <1>6, <1>7

LEMMA NoBarrierInside ==
  /\ \A task \in TensorTasks : task.do # "barrier" /\ task.reads \in Seq(TensorCells)
  /\ \A k : Barrier(k).do = "barrier" /\ Barrier(k).cell[2] = k
  BY DEF TensorTasks, Barrier

LEMMA ValuesOfNothing ==
  ASSUME NEW m, NEW task, task.reads = <<>>
  PROVE  Values(m, task) = <<>>
  <1>1. DOMAIN task.reads = {}
    OBVIOUS
  <1>2. Values(m, task) = [k \in {} |-> m[task.reads[k]]]
    BY <1>1 DEF Values
  <1> QED  BY <1>2

LEMMA TeamInvInit ==
  ASSUME \A p \in Programs : AllShared(p), Init
  PROVE  TeamInv
  <1> DEFINE p == program
             none == [t \in Team(p) |-> 0]
  <1>1. p \in Programs /\ AllShared(p) /\ WellFormed(p)
    BY SharedWellFormed DEF Init
  <1>2. Len(p.calls) \in Nat /\ 1 \in 1 .. Len(p.calls) + 1 /\ 1 - 1 = 0
    <2> HIDE DEF p
    <2>1. Len(p.calls) \in Nat
      BY <1>1, ProgramAssumption
    <2> QED  BY <2>1
  <1>3. IsPace(Parts(p, 1), none)
    BY <1>1, <1>2, PartsAre DEF IsPace
  <1>4. \A t \in Team(p) : todo[t] = Left(p, t, 1, none[t]) /\ loaded[t] = <<>>
    BY <1>1, LeftFirst DEF Init
  <1>5. Halfway(Parts(p, 1), AllCells(p), Made(p, 0), mem, none)
    <2>1. mem = Made(p, 0) /\ IsTensor(mem, AllCells(p))
      <3>1. Made(p, 0) = At_first(p) /\ IsTensor(Made(p, 0), AllCells(p))
        BY <1>1, <1>2, MadeSteps
      <3> QED  BY <3>1 DEF Init
    <2>2. \A t \in Team(p) : Wrote(Parts(p, 1), t, none[t]) = {}
      BY DEF Wrote
    <2> HIDE DEF none, p
    <2> QED  BY <1>1, <1>2, <2>1, <2>2, PartsAre DEF Halfway
  <1> HIDE DEF none
  <1>6. Reached(p, 1, none, todo, loaded, mem)
    BY <1>2, <1>3, <1>4, <1>5 DEF Reached
  <1>7. todo = [t \in Team(p) |-> todo[t]] /\ loaded = [t \in Team(p) |-> loaded[t]]
    BY DEF Init
  <1> QED  BY <1>1, <1>2, <1>6, <1>7 DEF TeamInv, Inside

(* A thread that reads.                                                    *)
LEMMA LoadKeeps ==
  ASSUME \A p \in Programs : AllShared(p), TeamInv, NEW t \in Team(program), Load(t)
  PROVE  TeamInv'
  <1> DEFINE p == program
  <1>1. p \in Programs /\ AllShared(p)
    BY DEF TeamInv
  <1>0. PICK k \in 1 .. Len(p.calls) + 1 : \E done : Reached(p, k, done, todo, loaded, mem)
    BY DEF TeamInv, Inside
  <1>2. PICK done : Reached(p, k, done, todo, loaded, mem)
    BY <1>0
  <1> DEFINE parts == Parts(p, k)
             m == Made(p, k - 1)
             task == Head(todo[t])
  <1>3. /\ program' = program /\ todo' = todo /\ mem' = mem
        /\ loaded' = [loaded EXCEPT ![t] = Values(mem, task)]
        /\ todo[t] # <<>> /\ ~ AtBarrier(t) /\ task.reads # <<>>
    BY DEF Load, Reads, Values
  <1>4. k \in 1 .. Len(p.calls) + 1 /\ t \in Team(p)
    OBVIOUS
  <1>5. /\ done[t] \in Nat /\ done[t] < Len(parts[t]) /\ task = parts[t][done[t] + 1]
    <2>1. AtBarrier(t) <=> todo[t] # <<>> /\ task.do = "barrier"
      BY DEF AtBarrier
    <2> HIDE DEF task, p
    <2>2. \/ todo[t] = <<>>
          \/ Head(todo[t]) = Barrier(k)
          \/ done[t] \in Nat /\ done[t] < Len(parts[t]) /\ Head(todo[t]) = parts[t][done[t] + 1]
      BY <1>1, <1>2, <1>4, Standing
    <2>3. Barrier(k).do = "barrier"
      BY NoBarrierInside
    <2> QED  BY <1>3, <2>1, <2>2, <2>3 DEF task
  <1>6. /\ DOMAIN parts = Team(p) /\ IsCall(parts, AllCells(p), m) /\ IsPace(parts, done)
        /\ Halfway(parts, AllCells(p), m, mem, done)
    <2> HIDE DEF p
    <2> QED  BY <1>1, <1>2, <1>4, PartsAre, PartsMakeACall DEF Reached
  <1>7. Values(mem, task) = Values(Alone(parts, m, t, done[t]), task)
    <2> HIDE DEF p, task, parts, m
    <2> QED  BY <1>4, <1>5, <1>6, ReadsAlone
  <1>8. \A u \in Team(p) : loaded'[u] = IF u = t THEN Values(mem, task) ELSE loaded[u]
    BY <1>3 DEF TeamInv
  <1> HIDE DEF parts, m, task, p
  <1>9. Reached(p, k, done, todo, loaded', mem)
    <2>1. ASSUME NEW u \in Team(p), loaded'[u] # <<>>
          PROVE  /\ done[u] < Len(parts[u])
                 /\ parts[u][done[u] + 1].reads # <<>>
                 /\ loaded'[u] = Values(Alone(parts, m, u, done[u]), parts[u][done[u] + 1])
      <3>1. CASE u = t
        BY <1>3, <1>5, <1>7, <1>8, <3>1
      <3>2. CASE u # t
        BY <1>2, <1>8, <2>1, <3>2 DEF Reached, parts, m
      <3> QED  BY <3>1, <3>2
    <2> QED  BY <1>2, <2>1 DEF Reached, parts, m
  <1>10. loaded' = [u \in Team(p) |-> loaded'[u]]
    BY <1>3 DEF TeamInv, p
  <1> QED  BY <1>2, <1>3, <1>9, <1>10 DEF TeamInv, Inside, p

(* A thread that stores.                                                   *)
LEMMA FinishKeeps ==
  ASSUME \A p \in Programs : AllShared(p), TeamInv, NEW t \in Team(program), Finish(t)
  PROVE  TeamInv'
  <1> DEFINE p == program
  <1>1. p \in Programs /\ AllShared(p)
    BY DEF TeamInv
  <1>0. PICK k \in 1 .. Len(p.calls) + 1 : \E done : Reached(p, k, done, todo, loaded, mem)
    BY DEF TeamInv, Inside
  <1>2. PICK done : Reached(p, k, done, todo, loaded, mem)
    BY <1>0
  <1> DEFINE parts == Parts(p, k)
             m == Made(p, k - 1)
             task == Head(todo[t])
             next == [u \in Team(p) |-> IF u = t THEN done[t] + 1 ELSE done[u]]
  <1>3. /\ program' = program /\ mem' = Store(mem, task, loaded[t])
        /\ todo' = [todo EXCEPT ![t] = Tail(@)]
        /\ loaded' = [loaded EXCEPT ![t] = <<>>]
        /\ todo[t] # <<>> /\ ~ AtBarrier(t) /\ (loaded[t] # <<>> \/ task.reads = <<>>)
    BY DEF Finish, Stores
  <1>4. k \in 1 .. Len(p.calls) + 1 /\ t \in Team(p)
    OBVIOUS
  <1>5. /\ done[t] \in Nat /\ done[t] < Len(parts[t]) /\ task = parts[t][done[t] + 1]
        /\ Tail(todo[t]) = Left(p, t, k, done[t] + 1)
    <2>1. AtBarrier(t) <=> todo[t] # <<>> /\ task.do = "barrier"
      BY DEF AtBarrier
    <2> HIDE DEF task, p
    <2>2. \/ todo[t] = <<>>
          \/ Head(todo[t]) = Barrier(k)
          \/ /\ done[t] \in Nat /\ done[t] < Len(parts[t]) /\ Head(todo[t]) = parts[t][done[t] + 1]
             /\ Tail(todo[t]) = Left(p, t, k, done[t] + 1)
      BY <1>1, <1>2, <1>4, Standing
    <2>3. Barrier(k).do = "barrier"
      BY NoBarrierInside
    <2> QED  BY <1>3, <2>1, <2>2, <2>3 DEF task
  <1>6. /\ DOMAIN parts = Team(p) /\ IsCall(parts, AllCells(p), m) /\ IsPace(parts, done)
        /\ Halfway(parts, AllCells(p), m, mem, done)
    <2> HIDE DEF p
    <2> QED  BY <1>1, <1>2, <1>4, PartsAre, PartsMakeACall DEF Reached
  <1>7. loaded[t] = Values(Alone(parts, m, t, done[t]), task)
    <2>1. CASE loaded[t] # <<>>
      <3>1. loaded[t] = Values(Alone(parts, m, t, done[t]), parts[t][done[t] + 1])
        BY <1>2, <1>4, <2>1 DEF Reached
      <3> QED  BY <1>5, <3>1
    <2>2. CASE loaded[t] = <<>>
      <3>1. task.reads = <<>>
        BY <1>3, <2>2
      <3> HIDE DEF task
      <3> QED  BY <2>2, <3>1, ValuesOfNothing
    <2> QED  BY <2>1, <2>2
  <1>8. \A u \in Team(p) : next[u] = IF u = t THEN done[t] + 1 ELSE done[u]
    OBVIOUS
  <1>9. \A u \in Team(p) : todo'[u] = IF u = t THEN Tail(todo[t]) ELSE todo[u]
    BY <1>3 DEF TeamInv
  <1>10. \A u \in Team(p) : loaded'[u] = IF u = t THEN <<>> ELSE loaded[u]
    BY <1>3 DEF TeamInv
  <1> HIDE DEF parts, m, task, p, next
  <1>11. IsPace(parts, next) /\ Halfway(parts, AllCells(p), m, Store(mem, task, loaded[t]), next)
    BY <1>4, <1>5, <1>6, <1>7, <1>8, StoreKeeps
  <1>12. Reached(p, k, next, todo', loaded', mem')
    <2>1. ASSUME NEW u \in Team(p), loaded'[u] # <<>>
          PROVE  /\ next[u] < Len(parts[u])
                 /\ parts[u][next[u] + 1].reads # <<>>
                 /\ loaded'[u] = Values(Alone(parts, m, u, next[u]), parts[u][next[u] + 1])
      <3>1. u # t /\ next[u] = done[u] /\ loaded'[u] = loaded[u]
        BY <1>8, <1>10, <2>1
      <3> QED  BY <1>2, <2>1, <3>1 DEF Reached, parts, m
    <2>2. \A u \in Team(p) : todo'[u] = Left(p, u, k, next[u])
      BY <1>2, <1>5, <1>8, <1>9 DEF Reached
    <2> QED  BY <1>3, <1>11, <2>1, <2>2 DEF Reached, parts, m
  <1>13. /\ loaded' = [u \in Team(p) |-> loaded'[u]]
         /\ todo' = [u \in Team(p) |-> todo'[u]]
    BY <1>3 DEF TeamInv, p
  <1> QED  BY <1>2, <1>3, <1>12, <1>13 DEF TeamInv, Inside, p

LEMMA SomeThread ==
  ASSUME NEW p \in Programs PROVE 0 \in Team(p)
  <1>1. p.team \in 1 .. MaxTeam /\ MaxTeam \in Nat
    BY ProgramAssumption
  <1> QED  BY <1>1 DEF Team

(* Where all threads are, when they are at a barrier.                      *)
LEMMA AllAtBarrier ==
  ASSUME NEW p, p = program, AllShared(p), p \in Programs,
         NEW k \in 1 .. Len(p.calls) + 1, NEW done, Reached(p, k, done, todo, loaded, mem),
         \A t \in Team(p) : AtBarrier(t)
  PROVE  /\ k \in 1 .. Len(p.calls)
         /\ \A t \in Team(p) :
              /\ Head(todo[t]) = Barrier(k) /\ Tail(todo[t]) = Left(p, t, k + 1, 0)
              /\ loaded[t] = <<>> /\ done[t] = Len(Parts(p, k)[t])
         /\ mem = Made(p, k)
  <1>1. ASSUME NEW t \in Team(p)
        PROVE  /\ k \in 1 .. Len(p.calls)
               /\ Head(todo[t]) = Barrier(k) /\ Tail(todo[t]) = Left(p, t, k + 1, 0)
               /\ loaded[t] = <<>> /\ done[t] = Len(Parts(p, k)[t])
    <2>1. todo[t] # <<>> /\ Head(todo[t]).do = "barrier"
      BY DEF AtBarrier
    <2>2. \/ todo[t] = <<>>
          \/ /\ k \in 1 .. Len(p.calls)
             /\ Head(todo[t]) = Barrier(k) /\ Tail(todo[t]) = Left(p, t, k + 1, 0)
             /\ loaded[t] = <<>> /\ done[t] = Len(Parts(p, k)[t])
          \/ Head(todo[t]) \in TensorTasks
      BY Standing
    <2>3. \A task \in TensorTasks : task.do # "barrier"
      BY NoBarrierInside
    <2> QED  BY <2>1, <2>2, <2>3
  <1>2. k \in 1 .. Len(p.calls)
    BY <1>1, SomeThread
  <1>3. mem = Applied(Made(p, k - 1), Whole(p.calls[k]))
    <2> DEFINE parts == Parts(p, k)
    <2>1. DOMAIN parts = Team(p) /\ \A t \in Team(p) : parts[t] \in Seq(TensorTasks)
      BY PartsAre
    <2>2. IsCall(parts, AllCells(p), Made(p, k - 1))
          /\ WholeIn(Whole(p.calls[k]), parts, AllCells(p))
      BY <1>2, PartsMakeACall
    <2>3. Halfway(parts, AllCells(p), Made(p, k - 1), mem, done)
      BY DEF Reached
    <2>4. Whole(p.calls[k]) \in Seq(TensorTasks)
      BY <1>2, WholeCells
    <2>5. \A t \in DOMAIN parts : done[t] = Len(parts[t])
      BY <1>1, <2>1
    <2> HIDE DEF parts
    <2> QED  BY <2>1, <2>2, <2>3, <2>4, <2>5, CallMade
  <1>4. mem = Made(p, k)
    BY <1>2, <1>3, MadeSteps
  <1> QED  BY <1>1, <1>2, <1>4

LEMMA BarrierKeeps ==
  ASSUME \A p \in Programs : AllShared(p), TeamInv, DECADES_BARRIER
  PROVE  TeamInv'
  <1> DEFINE p == program
             none == [t \in Team(p) |-> 0]
  <1>1. p \in Programs /\ AllShared(p)
    BY DEF TeamInv
  <1>0. PICK k \in 1 .. Len(p.calls) + 1 : \E done : Reached(p, k, done, todo, loaded, mem)
    BY DEF TeamInv, Inside
  <1>2. PICK done : Reached(p, k, done, todo, loaded, mem)
    BY <1>0
  <1>3. /\ program' = program /\ mem' = mem /\ loaded' = loaded
        /\ todo' = [t \in Team(p) |-> Tail(todo[t])]
        /\ \A t \in Team(p) : AtBarrier(t)
    BY DEF DECADES_BARRIER
  <1>4. /\ k \in 1 .. Len(p.calls)
        /\ \A t \in Team(p) :
              /\ Tail(todo[t]) = Left(p, t, k + 1, 0)
              /\ loaded[t] = <<>>
        /\ mem = Made(p, k)
    <2>1. p = program
      OBVIOUS
    <2> HIDE DEF p
    <2> QED  BY <1>1, <1>2, <1>3, <2>1, AllAtBarrier
  <1>5. Len(p.calls) \in Nat /\ k + 1 \in 1 .. Len(p.calls) + 1 /\ (k + 1) - 1 = k
        /\ k \in 0 .. Len(p.calls)
    <2>1. Len(p.calls) \in Nat
      BY <1>1, ProgramAssumption
    <2> QED  BY <1>4, <2>1
  <1>6. IsPace(Parts(p, k + 1), none)
    BY <1>1, <1>5, PartsAre DEF IsPace
  <1>7. Halfway(Parts(p, k + 1), AllCells(p), Made(p, k), mem, none)
    <2>1. IsTensor(mem, AllCells(p))
      BY <1>1, <1>4, <1>5, MadeSteps
    <2>2. \A t \in Team(p) : Wrote(Parts(p, k + 1), t, none[t]) = {}
      BY DEF Wrote
    <2>3. DOMAIN Parts(p, k + 1) = Team(p)
      BY <1>1, <1>5, PartsAre
    <2> HIDE DEF none, p
    <2> QED  BY <1>4, <2>1, <2>2, <2>3 DEF Halfway
  <1>8. \A t \in Team(p) : todo'[t] = Left(p, t, k + 1, none[t]) /\ loaded'[t] = <<>>
    BY <1>3, <1>4
  <1> HIDE DEF none, p
  <1>9. Reached(p, k + 1, none, todo', loaded', mem')
    BY <1>3, <1>5, <1>6, <1>7, <1>8 DEF Reached
  <1>10. todo' = [t \in Team(p) |-> todo'[t]] /\ loaded' = [t \in Team(p) |-> loaded'[t]]
    BY <1>3 DEF TeamInv, p
  <1> QED  BY <1>1, <1>3, <1>5, <1>9, <1>10 DEF TeamInv, Inside, p

LEMMA TeamInvStep ==
  ASSUME \A p \in Programs : AllShared(p), TeamInv, [Next]_vars
  PROVE  TeamInv'
  <1>1. ASSUME NEW t \in Team(program), Load(t) PROVE TeamInv'
    BY <1>1, LoadKeeps
  <1>2. ASSUME NEW t \in Team(program), Finish(t) PROVE TeamInv'
    BY <1>2, FinishKeeps
  <1>3. CASE DECADES_BARRIER
    BY <1>3, BarrierKeeps
  <1>4. CASE Return \/ UNCHANGED vars
    <2>1. program' = program /\ todo' = todo /\ loaded' = loaded /\ mem' = mem
      BY <1>4 DEF Return, vars
    <2> QED  BY <2>1 DEF TeamInv, Inside
  <1> QED  BY <1>1, <1>2, <1>3, <1>4 DEF Next

-----------------------------------------------------------------------------
(* What the invariant says of the properties. *)

LEMMA LenValues ==
  ASSUME NEW m, NEW T, NEW task, task.reads \in Seq(T)
  PROVE  Len(Values(m, task)) = Len(task.reads)
  <1>1. DOMAIN task.reads = 1 .. Len(task.reads) /\ Len(task.reads) \in Nat
    OBVIOUS
  <1>2. Values(m, task) = [k \in 1 .. Len(task.reads) |-> m[task.reads[k]]]
    BY <1>1 DEF Values
  <1> QED  BY <1>1, <1>2

(* A thread that is in a task.                                             *)
LEMMA InTask ==
  ASSUME NEW p, p = program, AllShared(p), p \in Programs,
         NEW k \in 1 .. Len(p.calls) + 1, NEW done, Reached(p, k, done, todo, loaded, mem),
         NEW t \in Team(p), todo[t] # <<>>, ~ AtBarrier(t)
  PROVE  /\ k \in 1 .. Len(p.calls)
         /\ done[t] \in Nat /\ done[t] < Len(Parts(p, k)[t])
         /\ Head(todo[t]) = Parts(p, k)[t][done[t] + 1]
         /\ Head(todo[t]) \in TensorTasks
  <1>1. Head(todo[t]).do # "barrier"
    BY DEF AtBarrier
  <1>2. \/ todo[t] = <<>>
        \/ Head(todo[t]) = Barrier(k)
        \/ /\ k \in 1 .. Len(p.calls)
           /\ done[t] \in Nat /\ done[t] < Len(Parts(p, k)[t])
           /\ Head(todo[t]) = Parts(p, k)[t][done[t] + 1]
           /\ Head(todo[t]) \in TensorTasks
    BY Standing
  <1>3. Barrier(k).do = "barrier"
    BY NoBarrierInside
  <1> QED  BY <1>1, <1>2, <1>3

LEMMA TeamInvNoRace ==
  ASSUME \A p \in Programs : AllShared(p), TeamInv
  PROVE  NoRace
  <1> DEFINE p == program
  <1>1. p \in Programs /\ AllShared(p) /\ p = program
    BY DEF TeamInv
  <1>0. PICK k \in 1 .. Len(p.calls) + 1 : \E done : Reached(p, k, done, todo, loaded, mem)
    BY DEF TeamInv, Inside
  <1>2. PICK done : Reached(p, k, done, todo, loaded, mem)
    BY <1>0
  <1> DEFINE parts == Parts(p, k)
             m == Made(p, k - 1)
  <1> SUFFICES ASSUME NEW t \in Team(p), NEW u \in Team(p), t # u, Stores(t)
               PROVE  LET cell == Head(todo[t]).cell
                      IN  /\ Reads(u) => \A i \in DOMAIN Head(todo[u]).reads :
                                           Head(todo[u]).reads[i] # cell
                          /\ Stores(u) /\ Head(todo[u]).cell = cell =>
                               /\ Head(todo[u]).op = Head(todo[t]).op
                               /\ loaded[u] = loaded[t]
    BY DEF NoRace
  <1>3. k \in 1 .. Len(p.calls) + 1 /\ t \in Team(p) /\ u \in Team(p)
    OBVIOUS
  <1> HIDE DEF p
  <1>4. /\ DOMAIN parts = Team(p) /\ IsCall(parts, AllCells(p), m) /\ IsPace(parts, done)
    BY <1>1, <1>2, <1>3, PartsAre, PartsMakeACall DEF Reached
  <1>5. ASSUME NEW v \in Team(p), Reads(v) \/ Stores(v)
        PROVE  /\ done[v] \in Nat /\ done[v] < Len(parts[v])
               /\ done[v] + 1 \in 1 .. Len(parts[v])
               /\ Head(todo[v]) = parts[v][done[v] + 1]
    <2>1. todo[v] # <<>> /\ ~ AtBarrier(v)
      BY <1>5 DEF Reads, Stores
    <2>2. Len(parts[v]) \in Nat
      BY <1>1, <1>3, PartsAre
    <2>3. /\ done[v] \in Nat /\ done[v] < Len(parts[v])
          /\ Head(todo[v]) = parts[v][done[v] + 1]
      BY <1>1, <1>2, <1>3, <2>1, InTask
    <2> HIDE DEF parts
    <2> QED  BY <2>2, <2>3
  <1>6. ASSUME NEW v \in Team(p), Stores(v)
        PROVE  loaded[v] = Values(Alone(parts, m, v, done[v]), Head(todo[v]))
    <2>1. CASE loaded[v] # <<>>
      <3>1. loaded[v] = Values(Alone(parts, m, v, done[v]), parts[v][done[v] + 1])
        BY <1>2, <2>1 DEF Reached
      <3> QED  BY <1>5, <1>6, <3>1
    <2>2. CASE loaded[v] = <<>>
      <3>1. Head(todo[v]).reads = <<>>
        BY <1>6, <2>2 DEF Stores
      <3> QED  BY <2>2, <3>1, ValuesOfNothing
    <2> QED  BY <2>1, <2>2
  <1> HIDE DEF parts, m
  <1>7. ASSUME Reads(u), NEW i \in DOMAIN Head(todo[u]).reads
        PROVE  Head(todo[u]).reads[i] # Head(todo[t]).cell
    <2>1. TasksApart(parts, t, done[t] + 1, u, done[u] + 1)
      BY <1>4, <1>5, <1>7 DEF IsCall, PartsApart
    <2> QED  BY <1>5, <1>7, <2>1 DEF TasksApart
  <1>8. ASSUME Stores(u), Head(todo[u]).cell = Head(todo[t]).cell
        PROVE  Head(todo[u]).op = Head(todo[t]).op /\ loaded[u] = loaded[t]
    <2>1. /\ Head(todo[t]) = parts[t][done[t] + 1] /\ done[t] < Len(parts[t])
          /\ Head(todo[u]) = parts[u][done[u] + 1] /\ done[u] < Len(parts[u])
      BY <1>5, <1>8
    <2>2. parts[t][done[t] + 1].cell = parts[u][done[u] + 1].cell
      BY <1>8, <2>1
    <2>3. /\ parts[t][done[t] + 1].op = parts[u][done[u] + 1].op
          /\ Values(Alone(parts, m, t, done[t]), parts[t][done[t] + 1])
              = Values(Alone(parts, m, u, done[u]), parts[u][done[u] + 1])
      BY <1>4, <2>1, <2>2, SameToStore
    <2>4. /\ loaded[t] = Values(Alone(parts, m, t, done[t]), Head(todo[t]))
          /\ loaded[u] = Values(Alone(parts, m, u, done[u]), Head(todo[u]))
      BY <1>6, <1>8
    <2> QED  BY <2>1, <2>3, <2>4
  <1> QED  BY <1>7, <1>8

LEMMA TeamInvResults ==
  ASSUME \A p \in Programs : AllShared(p), TeamInv
  PROVE  SerialResult /\ NativeResult
  <1> DEFINE p == program
  <1>1. p \in Programs /\ AllShared(p) /\ p = program
    BY DEF TeamInv
  <1>0. PICK k \in 1 .. Len(p.calls) + 1 : \E done : Reached(p, k, done, todo, loaded, mem)
    BY DEF TeamInv, Inside
  <1>2. PICK done : Reached(p, k, done, todo, loaded, mem)
    BY <1>0
  <1>3. \A made : MadeAlone(made) = Made(p, made)
    BY DEF MadeAlone, Made
  <1>4. 0 \in Team(p) /\ Len(p.calls) \in Nat
    BY <1>1, SomeThread, ProgramAssumption
  <1> HIDE DEF p
  <1>5. ASSUME \A t \in Team(p) : AtBarrier(t)
        PROVE  mem = MadeAlone(Head(todo[0]).cell[2])
    <2>1. Head(todo[0]) = Barrier(k) /\ mem = Made(p, k)
      BY <1>1, <1>2, <1>4, <1>5, AllAtBarrier
    <2>2. Barrier(k).cell[2] = k
      BY NoBarrierInside
    <2> QED  BY <1>3, <2>1, <2>2
  <1>6. ASSUME Ended PROVE mem = MadeAlone(Len(p.calls))
    <2>1. \A t \in Team(p) : todo[t] = <<>>
      BY <1>1, <1>6 DEF Ended
    <2>2. k = Len(p.calls) + 1
      BY <1>1, <1>2, <1>4, <2>1, Standing
    <2>3. /\ DOMAIN Parts(p, k) = Team(p)
          /\ \A t \in Team(p) : Len(Parts(p, k)[t]) = 0
      BY <1>1, <2>2, PartsAre
    <2>4. \A t \in Team(p) : done[t] = 0
      BY <1>2, <2>3 DEF Reached, IsPace
    <2>5. \A t \in Team(p) : Wrote(Parts(p, k), t, done[t]) = {}
      BY <2>4 DEF Wrote
    <2>6. k - 1 = Len(p.calls) /\ k - 1 \in 0 .. Len(p.calls)
      BY <1>4, <2>2
    <2>7. /\ IsTensor(mem, AllCells(p))
          /\ \A x \in AllCells(p) : mem[x] = Made(p, k - 1)[x]
      BY <1>2, <2>3, <2>5 DEF Reached, Halfway
    <2>8. IsTensor(Made(p, k - 1), AllCells(p))
      BY <1>1, <2>6, MadeSteps
    <2>9. mem = Made(p, k - 1)
      BY <2>7, <2>8 DEF IsTensor
    <2> QED  BY <1>3, <2>6, <2>9
  <1> QED  BY <1>1, <1>5, <1>6 DEF SerialResult, NativeResult

-----------------------------------------------------------------------------
(* The results. *)

TypeInv ==
  /\ program \in Programs
  /\ todo = [t \in Team(program) |-> todo[t]]
  /\ \A t \in Team(program) : todo[t] \in Seq(Instructions)
  /\ loaded = [t \in Team(program) |-> loaded[t]]
  /\ \A t \in Team(program) :
       loaded[t] # <<>> => Stores(t) /\ Len(loaded[t]) = Len(Head(todo[t]).reads)

LEMMA TypeInvStep ==
  ASSUME TypeInv, [Next]_vars
  PROVE  TypeInv'
  <1>0. \A s \in Seq(Instructions) : s # <<>> =>
          Head(s) \in Instructions /\ Tail(s) \in Seq(Instructions)
    <2> DEFINE A == Instructions
    <2> HIDE DEF A
    <2>1. \A s \in Seq(A) : s # <<>> => Head(s) \in A /\ Tail(s) \in Seq(A)
      OBVIOUS
    <2> QED  BY <2>1 DEF A
  <1>1. ASSUME NEW t \in Team(program), Load(t) PROVE TypeInv'
    <2> DEFINE task == Head(todo[t])
    <2>1. /\ program' = program /\ todo' = todo
          /\ loaded' = [loaded EXCEPT ![t] = Values(mem, task)]
          /\ todo[t] # <<>> /\ ~ AtBarrier(t) /\ loaded[t] = <<>> /\ task.reads # <<>>
      BY <1>1 DEF Load, Reads, Values
    <2>2. Len(Values(mem, task)) = Len(task.reads)
      <3>1. task \in Instructions
        BY <1>0, <2>1 DEF TypeInv
      <3>2. task.reads \in Seq(TensorCells)
        BY <3>1, InstructionsAre
      <3> HIDE DEF task
      <3> QED  BY <3>2, LenValues
    <2>3. Values(mem, task) # <<>>
      <3>1. task.reads \in Seq(TensorCells)
        BY <1>0, <2>1, InstructionsAre DEF TypeInv
      <3>2. Len(task.reads) # 0
        <4> HIDE DEF task
        <4> QED  BY <2>1, <3>1
      <3>3. Len(<<>>) = 0
        OBVIOUS
      <3> QED  BY <2>2, <3>2, <3>3
    <2> HIDE DEF task
    <2>4. \A u \in Team(program) : loaded'[u] = IF u = t THEN Values(mem, task) ELSE loaded[u]
      BY <2>1 DEF TypeInv
    <2>5. ASSUME NEW u \in Team(program), loaded'[u] # <<>>
          PROVE  Stores(u)' /\ Len(loaded'[u]) = Len(Head(todo[u]).reads)
      <3>1. AtBarrier(u)' <=> AtBarrier(u)
        BY <2>1 DEF AtBarrier
      <3>2. Stores(u)' <=> todo[u] # <<>> /\ ~ AtBarrier(u)
        BY <2>1, <2>5, <3>1 DEF Stores
      <3>3. CASE u = t
        BY <2>1, <2>2, <2>4, <3>2, <3>3 DEF task
      <3>4. CASE u # t
        BY <2>4, <2>5, <3>2, <3>4 DEF TypeInv, Stores
      <3> QED  BY <3>3, <3>4
    <2>6. loaded' = [u \in Team(program) |-> loaded'[u]]
      BY <2>1 DEF TypeInv
    <2> QED  BY <2>1, <2>5, <2>6 DEF TypeInv
  <1>2. ASSUME NEW t \in Team(program), Finish(t) PROVE TypeInv'
    <2>1. /\ program' = program
          /\ todo' = [todo EXCEPT ![t] = Tail(@)]
          /\ loaded' = [loaded EXCEPT ![t] = <<>>]
          /\ todo[t] # <<>>
      BY <1>2 DEF Finish, Stores
    <2>2. \A u \in Team(program) : loaded'[u] = IF u = t THEN <<>> ELSE loaded[u]
      BY <2>1 DEF TypeInv
    <2>3. \A u \in Team(program) : todo'[u] = IF u = t THEN Tail(todo[t]) ELSE todo[u]
      BY <2>1 DEF TypeInv
    <2>4. \A u \in Team(program) : todo'[u] \in Seq(Instructions)
      BY <1>0, <2>1, <2>3 DEF TypeInv
    <2>5. ASSUME NEW u \in Team(program), loaded'[u] # <<>>
          PROVE  Stores(u)' /\ Len(loaded'[u]) = Len(Head(todo'[u]).reads)
      <3>1. u # t /\ todo'[u] = todo[u] /\ loaded'[u] = loaded[u]
        BY <2>2, <2>3, <2>5
      <3>2. Stores(u)' <=> Stores(u)
        BY <3>1 DEF Stores, AtBarrier
      <3> QED  BY <2>5, <3>1, <3>2 DEF TypeInv
    <2>6. /\ loaded' = [u \in Team(program) |-> loaded'[u]]
          /\ todo' = [u \in Team(program) |-> todo'[u]]
      BY <2>1 DEF TypeInv
    <2> QED  BY <2>1, <2>4, <2>5, <2>6 DEF TypeInv
  <1>3. CASE DECADES_BARRIER
    <2>1. /\ program' = program /\ loaded' = loaded
          /\ todo' = [t \in Team(program) |-> Tail(todo[t])]
          /\ \A t \in Team(program) : AtBarrier(t)
      BY <1>3 DEF DECADES_BARRIER
    <2>2. \A t \in Team(program) : todo'[t] \in Seq(Instructions)
      BY <1>0, <2>1 DEF TypeInv, AtBarrier
    <2>3. \A t \in Team(program) : loaded'[t] = <<>>
      BY <2>1 DEF TypeInv, Stores
    <2>4. todo' = [t \in Team(program) |-> todo'[t]] /\ loaded' = [t \in Team(program) |-> loaded'[t]]
      BY <2>1 DEF TypeInv
    <2> QED  BY <2>1, <2>2, <2>3, <2>4 DEF TypeInv
  <1>4. CASE Return \/ UNCHANGED vars
    <2>1. program' = program /\ todo' = todo /\ loaded' = loaded /\ mem' = mem
      BY <1>4 DEF Return, vars
    <2> QED  BY <2>1 DEF TypeInv, Stores, AtBarrier
  <1> QED  BY <1>1, <1>2, <1>3, <1>4 DEF Next

(* What has been read is for the task the thread is in, one value for each *)
(* cell it reads: whatever the kernels, with or without a barrier inside,  *)
(* and whether or not the team can share them.                             *)
THEOREM TensorTypeOK ==
  ASSUME \A p \in Programs : WellFormed(p)
  PROVE  Spec => []TypeOK
  <1>1. Init => TypeInv
    <2> SUFFICES ASSUME Init PROVE TypeInv
      OBVIOUS
    <2>1. \A t \in Team(program) : todo[t] \in Seq(Instructions) /\ loaded[t] = <<>>
      BY BlocksAre DEF Init
    <2> QED  BY <2>1 DEF Init, TypeInv
  <1>2. TypeInv /\ [Next]_vars => TypeInv'
    BY TypeInvStep
  <1>3. TypeInv => TypeOK
    BY DEF TypeInv, TypeOK
  <1> QED  BY <1>1, <1>2, <1>3, PTL DEF Spec

LEMMA TeamInvAlways ==
  ASSUME \A p \in Programs : AllShared(p)
  PROVE  Spec => []TeamInv
  <1>1. Init => TeamInv
    BY TeamInvInit
  <1>2. TeamInv /\ [Next]_vars => TeamInv'
    BY TeamInvStep
  <1> QED  BY <1>1, <1>2, PTL DEF Spec

(* No thread stores to a cell that another one is about to read or to      *)
(* store something else to, in any program whose calls the team shares.    *)
THEOREM SharedNoRace ==
  ASSUME \A p \in Programs : AllShared(p)
  PROVE  Spec => []NoRace
  <1>1. TeamInv => NoRace
    BY TeamInvNoRace
  <1> QED  BY <1>1, TeamInvAlways, PTL

(* At every barrier, the tensors hold what one thread makes of the calls   *)
(* so far.                                                                 *)
THEOREM SharedSerialResult ==
  ASSUME \A p \in Programs : AllShared(p)
  PROVE  Spec => []SerialResult
  <1>1. TeamInv => SerialResult
    BY TeamInvResults
  <1> QED  BY <1>1, TeamInvAlways, PTL

(* When the kernel returns, they hold what the native program leaves.      *)
THEOREM SharedNativeResult ==
  ASSUME \A p \in Programs : AllShared(p)
  PROVE  Spec => []NativeResult
  <1>1. TeamInv => NativeResult
    BY TeamInvResults
  <1> QED  BY <1>1, TeamInvAlways, PTL

-----------------------------------------------------------------------------
(* The loops that give every thread its own rounds. *)

(* The elements of s are those of the parts.                               *)
Gathers(s, parts, n) ==
  /\ \A i \in DOMAIN s : \E k \in 1 .. n : \E a \in DOMAIN parts[k] : s[i] = parts[k][a]
  /\ \A k \in 1 .. n : \A a \in DOMAIN parts[k] : \E i \in DOMAIN s : s[i] = parts[k][a]

LEMMA JoinedElements ==
  ASSUME NEW T, NEW parts, NEW n \in Nat, \A k \in 1 .. n : parts[k] \in Seq(T)
  PROVE  Gathers(Joined(parts, n), parts, n)
  <1> DEFINE R == {x \in T : \E k \in 1 .. n : \E a \in DOMAIN parts[k] : x = parts[k][a]}
             whole == Joined(parts, n)
  <1>1. \A k \in 1 .. n : parts[k] \in Seq(R)
    <2> SUFFICES ASSUME NEW k \in 1 .. n PROVE parts[k] \in Seq(R)
      OBVIOUS
    <2> DEFINE s == parts[k]
    <2>1. s \in Seq(T) /\ \A a \in DOMAIN s : s[a] \in R
      OBVIOUS
    <2> HIDE DEF s, R
    <2>2. s \in Seq(R)
      BY <2>1
    <2> QED  BY <2>2 DEF s
  <1>2. whole \in Seq(R)
    <2> HIDE DEF R
    <2> QED  BY <1>1, JoinedType
  <1>3. \A i \in DOMAIN whole : whole[i] \in R
    <2> HIDE DEF R, whole
    <2> QED  BY <1>2
  <1>4. ASSUME NEW k \in 1 .. n, NEW a \in DOMAIN parts[k]
        PROVE  \E i \in DOMAIN whole : whole[i] = parts[k][a]
    <2> DEFINE before == Len(Joined(parts, k - 1))
    <2>1. RoundAt(parts, n, k)
      BY JoinedAt
    <2>2. /\ before \in Nat /\ before + Len(parts[k]) <= Len(whole)
          /\ \A j \in 1 .. Len(parts[k]) : whole[before + j] = parts[k][j]
      BY <2>1 DEF RoundAt
    <2>3. a \in 1 .. Len(parts[k]) /\ Len(parts[k]) \in Nat
      <3>1. parts[k] \in Seq(T)
        OBVIOUS
      <3> QED  BY <3>1
    <2> HIDE DEF R, whole, before
    <2>4. before + a \in DOMAIN whole
      BY <1>2, <2>2, <2>3
    <2> QED  BY <2>2, <2>3, <2>4
  <1> QED  BY <1>3, <1>4 DEF Gathers

LEMMA SomeOfTasks ==
  ASSUME NEW T, NEW s \in Seq(T), NEW cells
  PROVE  /\ (\A i \in DOMAIN s : s[i].cell \in cells) => TasksOn(s, cells) = s
         /\ (\A i \in DOMAIN s : s[i].cell \notin cells) => TasksOn(s, cells) = <<>>
  <1> DEFINE some == [k \in DOMAIN s |-> IF s[k].cell \in cells THEN <<s[k]>> ELSE <<>>]
             n == Len(s)
  <1>1. n \in Nat /\ DOMAIN s = 1 .. n /\ \A k \in 1 .. n : s[k] \in T
    OBVIOUS
  <1>2. \A k \in 1 .. n : some[k] = IF s[k].cell \in cells THEN <<s[k]>> ELSE <<>>
    BY <1>1
  <1>3. TasksOn(s, cells) = Joined(some, n)
    BY DEF TasksOn
  <1>4. s = [i \in 1 .. n |-> s[i]]
    BY <1>1
  <1> HIDE DEF some, n
  <1>5. ASSUME \A i \in DOMAIN s : s[i].cell \in cells PROVE Joined(some, n) = s
    <2> DEFINE S == {j \in Nat : j <= n => Joined(some, j) = [i \in 1 .. j |-> s[i]]}
    <2>1. 0 \in S
      <3>1. [i \in 1 .. 0 |-> s[i]] = <<>>
        OBVIOUS
      <3> QED  BY <3>1, JoinedUnfolds
    <2>2. ASSUME NEW j \in S PROVE j + 1 \in S
      <3> SUFFICES ASSUME j + 1 <= n PROVE Joined(some, j + 1) = [i \in 1 .. j + 1 |-> s[i]]
        OBVIOUS
      <3>1. /\ j \in Nat /\ Joined(some, j) = [i \in 1 .. j |-> s[i]]
            /\ j + 1 \in 1 .. n
        BY <1>1
      <3>2. some[j + 1] = <<s[j + 1]>> /\ s[j + 1] \in T
        BY <1>1, <1>2, <1>5, <3>1
      <3>3. Joined(some, j + 1) = Joined(some, j) \o <<s[j + 1]>>
        BY <3>1, <3>2, JoinedUnfolds
      <3>4. [i \in 1 .. j |-> s[i]] \o <<s[j + 1]>> = [i \in 1 .. j + 1 |-> s[i]]
        <4>1. \A i \in 1 .. j : s[i] \in T
          BY <1>1, <3>1
        <4>2. [i \in 1 .. j |-> s[i]] \in Seq(T) /\ [i \in 1 .. j + 1 |-> s[i]] \in Seq(T)
          BY <1>1, <3>1, <3>2, <4>1
        <4> HIDE DEF S
        <4> QED  BY <3>1, <3>2, <4>1, <4>2
      <3> QED  BY <3>1, <3>3, <3>4
    <2>3. n \in S
      <3>1. S \in SUBSET Nat
        OBVIOUS
      <3> HIDE DEF S
      <3> QED  BY <1>1, <2>1, <2>2, <3>1, SetInduction
    <2> QED  BY <1>1, <1>4, <2>3
  <1>6. ASSUME \A i \in DOMAIN s : s[i].cell \notin cells PROVE Joined(some, n) = <<>>
    <2> DEFINE S == {j \in Nat : j <= n => Joined(some, j) = <<>>}
    <2>1. 0 \in S
      BY JoinedUnfolds
    <2>2. ASSUME NEW j \in S PROVE j + 1 \in S
      <3> SUFFICES ASSUME j + 1 <= n PROVE Joined(some, j + 1) = <<>>
        OBVIOUS
      <3>1. j \in Nat /\ Joined(some, j) = <<>> /\ j + 1 \in 1 .. n
        BY <1>1
      <3>2. some[j + 1] = <<>>
        BY <1>1, <1>2, <1>6, <3>1
      <3>3. Joined(some, j + 1) = <<>> \o <<>>
        BY <3>1, <3>2, JoinedUnfolds
      <3>4. <<>> \o <<>> = <<>>
        OBVIOUS
      <3> QED  BY <3>3, <3>4
    <2>3. n \in S
      <3>1. S \in SUBSET Nat
        OBVIOUS
      <3> HIDE DEF S
      <3> QED  BY <1>1, <2>1, <2>2, <3>1, SetInduction
    <2> QED  BY <1>1, <2>3
  <1> QED  BY <1>3, <1>5, <1>6

LEMMA Associative ==
  ASSUME NEW T, NEW a \in Seq(T), NEW b \in Seq(T), NEW c \in Seq(T)
  PROVE  (a \o b) \o c = a \o (b \o c)
  OBVIOUS

LEMMA TasksOnConcat ==
  ASSUME NEW T, NEW s \in Seq(T), NEW t \in Seq(T), NEW cells
  PROVE  TasksOn(s \o t, cells) = TasksOn(s, cells) \o TasksOn(t, cells)
  <1> DEFINE w == s \o t
             only(q) == [k \in DOMAIN q |-> IF q[k].cell \in cells THEN <<q[k]>> ELSE <<>>]
             n == Len(s)
             S == {j \in Nat : j <= Len(t) =>
                     Joined(only(w), n + j) = Joined(only(s), n) \o Joined(only(t), j)}
  <1>1. /\ n \in Nat /\ Len(t) \in Nat /\ w \in Seq(T) /\ Len(w) = n + Len(t)
        /\ \A k \in 1 .. n : k \in 1 .. Len(w) /\ w[k] = s[k]
        /\ \A k \in 1 .. Len(t) : n + k \in 1 .. Len(w) /\ w[n + k] = t[k]
    OBVIOUS
  <1>2. \A q \in Seq(T) : /\ DOMAIN q = 1 .. Len(q)
                          /\ \A k \in 1 .. Len(q) : q[k] \in T
    OBVIOUS
  <1>3. ASSUME NEW q \in Seq(T), NEW k \in 1 .. Len(q)
        PROVE  /\ only(q)[k] = IF q[k].cell \in cells THEN <<q[k]>> ELSE <<>>
               /\ only(q)[k] \in Seq(T)
    <2>1. k \in DOMAIN q /\ q[k] \in T
      BY <1>2
    <2> QED  BY <2>1
  <1>4. \A q \in Seq(T) : TasksOn(q, cells) = Joined(only(q), Len(q))
    BY DEF TasksOn
  <1> HIDE DEF w, only
  <1>5. ASSUME NEW q \in Seq(T), NEW j \in 0 .. Len(q) PROVE Joined(only(q), j) \in Seq(T)
    <2>0. \A k \in 1 .. Len(q) : only(q)[k] \in Seq(T)
      BY <1>3
    <2>1. j \in Nat /\ \A k \in 1 .. j : k \in 1 .. Len(q)
      OBVIOUS
    <2>2. \A k \in 1 .. j : only(q)[k] \in Seq(T)
      BY <2>0, <2>1
    <2> QED  BY <2>1, <2>2, JoinedType
  <1>6. 0 \in S
    <2>1. n + 0 = n
      BY <1>1
    <2>2. \A k \in 1 .. n : only(w)[k] = only(s)[k]
      <3> SUFFICES ASSUME NEW k \in 1 .. n PROVE only(w)[k] = only(s)[k]
        OBVIOUS
      <3>1. k \in 1 .. Len(w) /\ k \in 1 .. Len(s) /\ w[k] = s[k]
        BY <1>1
      <3>2. only(w)[k] = IF w[k].cell \in cells THEN <<w[k]>> ELSE <<>>
        BY <1>1, <1>3, <3>1
      <3>3. only(s)[k] = IF s[k].cell \in cells THEN <<s[k]>> ELSE <<>>
        BY <1>3, <3>1
      <3> QED  BY <3>1, <3>2, <3>3
    <2>3. Joined(only(w), n) = Joined(only(s), n)
      BY <1>1, <2>2, JoinedSame
    <2>4. Joined(only(t), 0) = <<>>
      BY JoinedUnfolds
    <2>5. Joined(only(s), n) \o <<>> = Joined(only(s), n)
      <3>1. n \in 0 .. Len(s)
        BY <1>1
      <3>2. Joined(only(s), n) \in Seq(T)
        BY <1>5, <3>1
      <3> QED  BY <3>2
    <2> QED  BY <2>1, <2>3, <2>4, <2>5
  <1>7. ASSUME NEW j \in S PROVE j + 1 \in S
    <2> SUFFICES ASSUME j + 1 <= Len(t)
                 PROVE  Joined(only(w), n + (j + 1)) = Joined(only(s), n) \o Joined(only(t), j + 1)
      OBVIOUS
    <2>1. /\ j \in Nat /\ Joined(only(w), n + j) = Joined(only(s), n) \o Joined(only(t), j)
          /\ j + 1 \in 1 .. Len(t) /\ n + (j + 1) = (n + j) + 1 /\ n + j \in Nat
          /\ j \in 0 .. Len(t)
      BY <1>1
    <2> HIDE DEF S
    <2>2. only(w)[(n + j) + 1] = only(t)[j + 1]
      <3>1. /\ (n + j) + 1 \in 1 .. Len(w) /\ j + 1 \in 1 .. Len(t)
            /\ w[(n + j) + 1] = t[j + 1]
        <4>1. n + (j + 1) \in 1 .. Len(w) /\ w[n + (j + 1)] = t[j + 1]
          BY <1>1, <2>1
        <4> QED  BY <2>1, <4>1
      <3>2. only(w)[(n + j) + 1]
              = IF w[(n + j) + 1].cell \in cells THEN <<w[(n + j) + 1]>> ELSE <<>>
        BY <1>1, <1>3, <3>1
      <3>3. only(t)[j + 1] = IF t[j + 1].cell \in cells THEN <<t[j + 1]>> ELSE <<>>
        BY <1>3, <3>1
      <3> QED  BY <3>1, <3>2, <3>3
    <2>3. /\ Joined(only(w), (n + j) + 1) = Joined(only(w), n + j) \o only(w)[(n + j) + 1]
          /\ Joined(only(t), j + 1) = Joined(only(t), j) \o only(t)[j + 1]
      BY <2>1, JoinedUnfolds
    <2>4. /\ Joined(only(s), n) \in Seq(T) /\ Joined(only(t), j) \in Seq(T)
          /\ only(t)[j + 1] \in Seq(T)
      <3>1. n \in 0 .. Len(s)
        BY <1>1
      <3> QED  BY <1>3, <1>5, <2>1, <3>1
    <2>5. (Joined(only(s), n) \o Joined(only(t), j)) \o only(t)[j + 1]
            = Joined(only(s), n) \o (Joined(only(t), j) \o only(t)[j + 1])
      <3> DEFINE a == Joined(only(s), n)
                 b == Joined(only(t), j)
                 c == only(t)[j + 1]
      <3>1. a \in Seq(T) /\ b \in Seq(T) /\ c \in Seq(T)
        BY <2>4
      <3> HIDE DEF a, b, c
      <3>2. (a \o b) \o c = a \o (b \o c)
        BY <3>1, Associative, SMTT(30)
      <3> QED  BY <3>2 DEF a, b, c
    <2> QED  BY <2>1, <2>2, <2>3, <2>5
  <1>8. Len(t) \in S
    <2>1. S \in SUBSET Nat
      OBVIOUS
    <2> HIDE DEF S
    <2> QED  BY <1>1, <1>6, <1>7, <2>1, SetInduction
  <1>9. Joined(only(w), n + Len(t)) = Joined(only(s), n) \o Joined(only(t), Len(t))
    BY <1>8
  <1> QED  BY <1>1, <1>4, <1>9 DEF w

LEMMA Multiples ==
  ASSUME NEW n \in Nat \ {0}, NEW a \in Nat, NEW b \in Nat
  PROVE  /\ a * n \in Nat
         /\ (a + 1) * n = a * n + n
         /\ a < b => a * n + n <= b * n
  <1>1. a * n \in Nat /\ (a + 1) * n = a * n + n
    OBVIOUS
  <1>2. ASSUME a < b PROVE a * n + n <= b * n
    <2>1. PICK d \in Nat : b = a + 1 + d
      <3>1. b - a - 1 \in Nat /\ b = a + 1 + (b - a - 1)
        BY <1>2
      <3> QED  BY <3>1
    <2>2. b * n = a * n + n + d * n /\ d * n \in Nat
      BY <2>1
    <2> QED  BY <1>1, <2>2
  <1> QED  BY <1>1, <1>2

(* The rounds of a thread, one every n, up to the size.                    *)
RoundOf(t, n, q) == t + (q - 1) * n

LEMMA StridedRounds ==
  ASSUME NEW t \in Nat, NEW n \in Nat \ {0}, NEW size \in Nat
  PROVE  LET count == Len(Strided(t, n, size))
         IN  /\ count \in Nat /\ DOMAIN Strided(t, n, size) = 1 .. count
             /\ \A q \in 1 .. count : /\ Strided(t, n, size)[q] = RoundOf(t, n, q)
                                      /\ RoundOf(t, n, q) \in 0 .. size - 1
             /\ size <= t + count * n
  <1> DEFINE last == IF t < size THEN (size - t - 1) \div n + 1 ELSE 0
             s == Strided(t, n, size)
  <1>1. /\ last \in Nat
        /\ size <= t + last * n
        /\ last # 0 => t + (last - 1) * n < size
    <2>1. CASE t < size
      <3> DEFINE d == (size - t - 1) \div n
      <3>1. d \in Nat /\ d * n <= size - t - 1 /\ size - t - 1 < d * n + n
        <4>1. size - t - 1 \in Nat
          BY <2>1
        <4> HIDE <2>1
        <4> QED  BY <4>1
      <3> HIDE DEF d
      <3>2. last = d + 1
        BY <2>1 DEF d
      <3> HIDE DEF last
      <3>3. last * n = d * n + n /\ (last - 1) * n = d * n /\ d * n \in Nat
        BY <3>1, <3>2, Multiples
      <3> QED  BY <2>1, <3>1, <3>2, <3>3
    <2>2. CASE ~ (t < size)
      <3>1. last = 0 /\ 0 * n = 0
        BY <2>2
      <3> QED  BY <2>2, <3>1
    <2> QED  BY <2>1, <2>2
  <1>2. s = [k \in 1 .. last |-> t + (k - 1) * n]
    BY DEF Strided
  <1> HIDE DEF last, s
  <1>3. /\ DOMAIN s = 1 .. last /\ Len(s) = last
        /\ \A q \in 1 .. last : s[q] = t + (q - 1) * n
    BY <1>1, <1>2
  <1>4. ASSUME NEW q \in 1 .. last PROVE t + (q - 1) * n \in 0 .. size - 1
    <2>1. q - 1 \in Nat /\ last - 1 \in Nat /\ last # 0 /\ (q - 1 < last - 1 \/ q = last)
      BY <1>1
    <2>2. (q - 1) * n \in Nat /\ (last - 1) * n \in Nat
          /\ (q - 1 < last - 1 => (q - 1) * n + n <= (last - 1) * n)
      BY <2>1, Multiples
    <2>3. (q - 1) * n <= (last - 1) * n
      BY <2>1, <2>2
    <2> QED  BY <1>1, <2>1, <2>2, <2>3
  <1> QED  BY <1>1, <1>3, <1>4 DEF s, RoundOf

(* Every round is one round of one thread.                                 *)
LEMMA RoundUnique ==
  ASSUME NEW n \in Nat \ {0}, NEW t \in 0 .. n - 1, NEW u \in 0 .. n - 1,
         NEW q \in Nat \ {0}, NEW s \in Nat \ {0}, RoundOf(t, n, q) = RoundOf(u, n, s)
  PROVE  t = u /\ q = s
  <1>1. q - 1 \in Nat /\ s - 1 \in Nat /\ n \in Nat /\ t \in Nat /\ u \in Nat /\ t < n /\ u < n
    OBVIOUS
  <1>2. /\ (q - 1) * n \in Nat /\ (s - 1) * n \in Nat
        /\ (q - 1 < s - 1 => (q - 1) * n + n <= (s - 1) * n)
        /\ (s - 1 < q - 1 => (s - 1) * n + n <= (q - 1) * n)
    BY <1>1, Multiples
  <1>3. t + (q - 1) * n = u + (s - 1) * n
    BY DEF RoundOf
  <1> DEFINE a == (q - 1) * n
             b == (s - 1) * n
  <1>4. q = s
    <2> HIDE DEF a, b
    <2>1. /\ a \in Nat /\ b \in Nat /\ t + a = u + b
          /\ (q - 1 < s - 1 => a + n <= b) /\ (s - 1 < q - 1 => b + n <= a)
      BY <1>2, <1>3 DEF a, b
    <2> QED  BY <1>1, <2>1
  <1>5. t = u
    BY <1>1, <1>2, <1>3, <1>4
  <1> QED  BY <1>4, <1>5

LEMMA RoundExists ==
  ASSUME NEW n \in Nat \ {0}, NEW size \in Nat, NEW i \in 0 .. size - 1
  PROVE  \E t \in 0 .. n - 1 : \E q \in 1 .. Len(Strided(t, n, size)) : i = RoundOf(t, n, q)
  <1> DEFINE t == i % n
             d == i \div n
  <1>1. t \in 0 .. n - 1 /\ d \in Nat /\ i = t + d * n
    <2>1. i \in Nat
      OBVIOUS
    <2> QED  BY <2>1
  <1> HIDE DEF t, d
  <1> DEFINE count == Len(Strided(t, n, size))
  <1>2. count \in Nat /\ size <= t + count * n
    <2>1. t \in Nat
      BY <1>1
    <2> QED  BY <2>1, StridedRounds
  <1> HIDE DEF count
  <1>3. d < count
    <2> SUFFICES ASSUME ~ (d < count) PROVE FALSE
      OBVIOUS
    <2>1. count < d \/ count = d
      BY <1>1, <1>2
    <2>2. /\ d * n \in Nat /\ count * n \in Nat /\ (count < d => count * n + n <= d * n)
      BY <1>1, <1>2, Multiples
    <2>3. count * n <= d * n
      BY <2>1, <2>2
    <2> QED  BY <1>1, <1>2, <2>2, <2>3
  <1>4. d + 1 \in 1 .. count /\ (d + 1) - 1 = d
    BY <1>1, <1>2, <1>3
  <1>5. i = RoundOf(t, n, d + 1)
    BY <1>1, <1>4 DEF RoundOf
  <1> QED  BY <1>1, <1>4, <1>5 DEF count

(* The rounds of a loop, rounds[i] being the tasks of round i, for one     *)
(* thread; and what makes them independent of each other.                  *)
Strides(rounds, t, n, size) ==
  Joined([k \in DOMAIN Strided(t, n, size) |-> rounds[Strided(t, n, size)[k]]],
         Len(Strided(t, n, size)))

Independent(rounds, size) ==
  \A i, j \in 0 .. size - 1 : i # j =>
    \A a \in DOMAIN rounds[i], b \in DOMAIN rounds[j] :
      /\ rounds[i][a].cell # rounds[j][b].cell
      /\ \A k \in DOMAIN rounds[j][b].reads : rounds[j][b].reads[k] # rounds[i][a].cell

AreRounds(rounds, size) ==
  /\ size \in Nat
  /\ \A i \in 0 .. size - 1 : rounds[i] \in Seq(TensorTasks)
  /\ Independent(rounds, size)

LEMMA StridesElements ==
  ASSUME NEW size, NEW rounds, AreRounds(rounds, size),
         NEW n \in Nat \ {0}, NEW t \in 0 .. n - 1
  PROVE  LET s == Strides(rounds, t, n, size)
         IN  /\ s \in Seq(TensorTasks)
             /\ \A x \in DOMAIN s : \E q \in 1 .. Len(Strided(t, n, size)) :
                  \E a \in DOMAIN rounds[RoundOf(t, n, q)] : s[x] = rounds[RoundOf(t, n, q)][a]
             /\ \A q \in 1 .. Len(Strided(t, n, size)) :
                  \A a \in DOMAIN rounds[RoundOf(t, n, q)] :
                    \E x \in DOMAIN s : s[x] = rounds[RoundOf(t, n, q)][a]
  <1> DEFINE count == Len(Strided(t, n, size))
             mine == [k \in DOMAIN Strided(t, n, size) |-> rounds[Strided(t, n, size)[k]]]
             s == Strides(rounds, t, n, size)
  <1>1. /\ count \in Nat /\ DOMAIN Strided(t, n, size) = 1 .. count
        /\ \A q \in 1 .. count : /\ Strided(t, n, size)[q] = RoundOf(t, n, q)
                                 /\ RoundOf(t, n, q) \in 0 .. size - 1
    <2>1. t \in Nat /\ size \in Nat
      BY DEF AreRounds
    <2> QED  BY <2>1, StridedRounds
  <1>2. \A q \in 1 .. count : mine[q] = rounds[RoundOf(t, n, q)]
    BY <1>1
  <1>3. s = Joined(mine, count)
    BY DEF Strides
  <1> HIDE DEF count, mine, s
  <1>4. \A q \in 1 .. count : mine[q] \in Seq(TensorTasks)
    BY <1>1, <1>2 DEF AreRounds
  <1>5. s \in Seq(TensorTasks)
    BY <1>1, <1>3, <1>4, JoinedType
  <1>6. /\ \A x \in DOMAIN s : \E q \in 1 .. count : \E a \in DOMAIN mine[q] : s[x] = mine[q][a]
        /\ \A q \in 1 .. count : \A a \in DOMAIN mine[q] : \E x \in DOMAIN s : s[x] = mine[q][a]
    <2>1. Gathers(s, mine, count)
      BY <1>1, <1>3, <1>4, JoinedElements
    <2> QED  BY <2>1 DEF Gathers
  <1>7. \A x \in DOMAIN s : \E q \in 1 .. count :
          \E a \in DOMAIN rounds[RoundOf(t, n, q)] : s[x] = rounds[RoundOf(t, n, q)][a]
    BY <1>2, <1>6
  <1>8. \A q \in 1 .. count : \A a \in DOMAIN rounds[RoundOf(t, n, q)] :
          \E x \in DOMAIN s : s[x] = rounds[RoundOf(t, n, q)][a]
    BY <1>2, <1>6
  <1> QED  BY <1>5, <1>7, <1>8 DEF s, count

(* All rounds, by one thread, in their order.                              *)
LEMMA OneThread ==
  ASSUME NEW size \in Nat
  PROVE  /\ Strided(0, 1, size) = [k \in 1 .. size |-> k - 1]
         /\ Len(Strided(0, 1, size)) = size
  <1>1. Strided(0, 1, size)
          = [k \in 1 .. (IF 0 < size THEN (size - 0 - 1) \div 1 + 1 ELSE 0) |-> 0 + (k - 1) * 1]
    BY DEF Strided
  <1>2. (IF 0 < size THEN (size - 0 - 1) \div 1 + 1 ELSE 0) = size
    OBVIOUS
  <1>3. [k \in 1 .. size |-> 0 + (k - 1) * 1] = [k \in 1 .. size |-> k - 1]
    OBVIOUS
  <1>4. Len([k \in 1 .. size |-> k - 1]) = size
    OBVIOUS
  <1> QED  BY <1>1, <1>2, <1>3, <1>4

(* What is done to the cells of a thread's rounds is these rounds.         *)
LEMMA StridesOn ==
  ASSUME NEW size, NEW rounds, AreRounds(rounds, size),
         NEW n \in Nat \ {0}, NEW t \in 0 .. n - 1
  PROVE  LET part == Strides(rounds, t, n, size)
         IN  part = TasksOn(Strides(rounds, 0, 1, size), Written(part))
  <1> DEFINE idx == Strided(t, n, size)
             count == Len(idx)
             mine == [k \in DOMAIN idx |-> rounds[idx[k]]]
             one == Strided(0, 1, size)
             every == [k \in DOMAIN one |-> rounds[one[k]]]
             part == Strides(rounds, t, n, size)
             cells == Written(part)
             (* The rounds of the thread before round j.                   *)
             Before(j, c) == c \in 0 .. count /\ j <= t + c * n
                             /\ (c # 0 => t + (c - 1) * n < j)
             S == {j \in Nat : j <= size =>
                     \E c : Before(j, c) /\ TasksOn(Joined(every, j), cells) = Joined(mine, c)}
  <1>0. size \in Nat /\ t \in Nat /\ t < n
    BY DEF AreRounds
  <1>1. /\ count \in Nat /\ DOMAIN idx = 1 .. count
        /\ \A q \in 1 .. count : idx[q] = RoundOf(t, n, q) /\ RoundOf(t, n, q) \in 0 .. size - 1
        /\ size <= t + count * n
    BY <1>0, StridedRounds
  <1>2. Len(one) = size /\ DOMAIN one = 1 .. size /\ \A k \in 1 .. size : one[k] = k - 1
    <2>1. one = [k \in 1 .. size |-> k - 1] /\ Len(one) = size
      BY <1>0, OneThread
    <2> HIDE DEF one
    <2> QED  BY <2>1
  <1>3. \A q \in 1 .. count : mine[q] = rounds[RoundOf(t, n, q)] /\ mine[q] \in Seq(TensorTasks)
    BY <1>1 DEF AreRounds
  <1>4. \A j \in 0 .. size - 1 : every[j + 1] = rounds[j] /\ rounds[j] \in Seq(TensorTasks)
    <2> SUFFICES ASSUME NEW j \in 0 .. size - 1
                 PROVE  every[j + 1] = rounds[j] /\ rounds[j] \in Seq(TensorTasks)
      OBVIOUS
    <2>1. j + 1 \in 1 .. size /\ (j + 1) - 1 = j
      BY <1>0
    <2>2. one[j + 1] = j /\ j + 1 \in DOMAIN one
      BY <1>2, <2>1
    <2> HIDE DEF one
    <2> QED  BY <2>2 DEF AreRounds
  <1>5. part = Joined(mine, count) /\ Strides(rounds, 0, 1, size) = Joined(every, size)
    BY <1>2 DEF Strides
  <1>6. \A x \in cells : \E q \in 1 .. count : \E a \in DOMAIN rounds[RoundOf(t, n, q)] :
          x = rounds[RoundOf(t, n, q)][a].cell
    BY StridesElements DEF Written
  <1>7. \A q \in 1 .. count : \A a \in DOMAIN rounds[RoundOf(t, n, q)] :
          rounds[RoundOf(t, n, q)][a].cell \in cells
    <2> SUFFICES ASSUME NEW q \in 1 .. count, NEW a \in DOMAIN rounds[RoundOf(t, n, q)]
                 PROVE  rounds[RoundOf(t, n, q)][a].cell \in cells
      OBVIOUS
    <2>1. PICK x \in DOMAIN part : part[x] = rounds[RoundOf(t, n, q)][a]
      BY StridesElements
    <2> HIDE DEF part
    <2> QED  BY <2>1 DEF Written
  <1> HIDE DEF idx, count, mine, one, every, part, cells
  (* A round of another thread writes none of the cells.                   *)
  <1>8. ASSUME NEW j \in 0 .. size - 1, \A q \in 1 .. count : j # RoundOf(t, n, q)
        PROVE  \A a \in DOMAIN rounds[j] : rounds[j][a].cell \notin cells
    <2> SUFFICES ASSUME NEW a \in DOMAIN rounds[j], rounds[j][a].cell \in cells PROVE FALSE
      OBVIOUS
    <2>1. PICK q \in 1 .. count : \E b \in DOMAIN rounds[RoundOf(t, n, q)] :
            rounds[j][a].cell = rounds[RoundOf(t, n, q)][b].cell
      BY <1>6
    <2> DEFINE i == RoundOf(t, n, q)
    <2>2. i \in 0 .. size - 1 /\ i # j
      BY <1>1, <1>8
    <2> HIDE DEF i
    <2>3. \A b \in DOMAIN rounds[i] : rounds[i][b].cell # rounds[j][a].cell
      BY <2>2 DEF AreRounds, Independent
    <2> QED  BY <2>1, <2>3 DEF i
  <1>9. 0 \in S
    <2>1. Before(0, 0)
      BY <1>0, <1>1
    <2>2. TasksOn(Joined(every, 0), cells) = Joined(mine, 0)
      <3>1. Joined(every, 0) = <<>> /\ Joined(mine, 0) = <<>>
        BY JoinedUnfolds
      <3>2. <<>> \in Seq(TensorTasks) /\ DOMAIN <<>> = {}
        OBVIOUS
      <3>3. TasksOn(<<>>, cells) = <<>>
        BY <3>2, SomeOfTasks
      <3> QED  BY <3>1, <3>3
    <2> HIDE DEF Before
    <2> QED  BY <2>1, <2>2
  <1>10. ASSUME NEW j \in S PROVE j + 1 \in S
    <2> HIDE DEF Before
    <2> SUFFICES ASSUME j + 1 <= size
                 PROVE  \E c : Before(j + 1, c)
                               /\ TasksOn(Joined(every, j + 1), cells) = Joined(mine, c)
      OBVIOUS
    <2>1. j \in Nat /\ j \in 0 .. size - 1 /\ j \in 0 .. size
      BY <1>0
    <2>2. PICK c : Before(j, c) /\ TasksOn(Joined(every, j), cells) = Joined(mine, c)
      BY <1>0, <2>1
    <2>3. Joined(every, j + 1) = Joined(every, j) \o rounds[j]
      BY <1>4, <2>1, JoinedUnfolds
    <2>4. Joined(every, j) \in Seq(TensorTasks) /\ rounds[j] \in Seq(TensorTasks)
      <3>1. \A k \in 1 .. j : every[k] \in Seq(TensorTasks)
        <4> SUFFICES ASSUME NEW k \in 1 .. j PROVE every[k] \in Seq(TensorTasks)
          OBVIOUS
        <4>1. k - 1 \in 0 .. size - 1 /\ (k - 1) + 1 = k
          BY <1>0, <2>1
        <4> QED  BY <1>4, <4>1
      <3> QED  BY <1>4, <2>1, <3>1, JoinedType
    <2>5. TasksOn(Joined(every, j + 1), cells) = Joined(mine, c) \o TasksOn(rounds[j], cells)
      <3> DEFINE a == Joined(every, j)
                 b == rounds[j]
      <3>1. a \in Seq(TensorTasks) /\ b \in Seq(TensorTasks)
        BY <2>4
      <3> HIDE DEF a, b
      <3>2. TasksOn(a \o b, cells) = TasksOn(a, cells) \o TasksOn(b, cells)
        BY <3>1, TasksOnConcat
      <3> QED  BY <2>2, <2>3, <3>2 DEF a, b
    <2>6. c \in Nat /\ c <= count /\ j <= t + c * n /\ (c # 0 => t + (c - 1) * n < j)
      BY <1>1, <2>2 DEF Before
    <2>7. c * n \in Nat /\ count * n \in Nat /\ (c + 1) * n = c * n + n
      BY <1>1, <2>6, Multiples
    <2> HIDE DEF S
    <2>8. CASE j = t + c * n
      <3>1. c < count
        BY <1>0, <1>1, <2>1, <2>6, <2>7, <2>8
      <3>2. c + 1 \in 1 .. count /\ (c + 1) - 1 = c
        BY <1>1, <2>6, <3>1
      <3>3. RoundOf(t, n, c + 1) = j
        BY <2>8, <3>2 DEF RoundOf
      <3>4. TasksOn(rounds[j], cells) = rounds[j]
        BY <1>7, <2>4, <3>2, <3>3, SomeOfTasks
      <3>5. Joined(mine, c + 1) = Joined(mine, c) \o rounds[j]
        BY <1>3, <2>6, <3>2, <3>3, JoinedUnfolds
      <3>6. Before(j + 1, c + 1)
        <4>1. c + 1 \in 0 .. count
          BY <1>1, <3>2
        <4>2. t + ((c + 1) - 1) * n < j + 1
          BY <2>1, <2>8, <3>2
        <4>3. j + 1 <= t + (c + 1) * n
          BY <1>0, <2>1, <2>7, <2>8
        <4> QED  BY <4>1, <4>2, <4>3 DEF Before
      <3> QED  BY <2>5, <3>4, <3>5, <3>6
    <2>9. CASE j # t + c * n
      <3>1. ASSUME NEW q \in 1 .. count PROVE j # RoundOf(t, n, q)
        <4> SUFFICES ASSUME j = t + (q - 1) * n PROVE FALSE
          BY DEF RoundOf
        <4>1. q - 1 \in Nat
          OBVIOUS
        <4>2. CASE q - 1 < c
          <5>1. c # 0 /\ c - 1 \in Nat /\ (q - 1 < c - 1 \/ q - 1 = c - 1)
            BY <2>6, <4>1, <4>2
          <5>2. /\ (q - 1) * n \in Nat /\ (c - 1) * n \in Nat
                /\ (q - 1 < c - 1 => (q - 1) * n + n <= (c - 1) * n)
            BY <4>1, <5>1, Multiples
          <5>3. (q - 1) * n <= (c - 1) * n
            BY <5>1, <5>2
          <5> QED  BY <1>0, <2>1, <2>6, <5>1, <5>2, <5>3
        <4>3. CASE q - 1 = c
          BY <2>9, <4>3
        <4>4. CASE c < q - 1
          <5>1. /\ (q - 1) * n \in Nat /\ c * n + n <= (q - 1) * n
            BY <2>6, <4>1, <4>4, Multiples
          <5> QED  BY <1>0, <2>1, <2>6, <2>7, <5>1
        <4> QED  BY <2>6, <4>1, <4>2, <4>3, <4>4
      <3>2. TasksOn(rounds[j], cells) = <<>>
        BY <1>8, <2>1, <2>4, <3>1, SomeOfTasks
      <3>3. Joined(mine, c) \in Seq(TensorTasks)
        <4>1. \A k \in 1 .. c : mine[k] \in Seq(TensorTasks)
          BY <1>1, <1>3, <2>6
        <4> QED  BY <2>6, <4>1, JoinedType
      <3>4. Joined(mine, c) \o <<>> = Joined(mine, c)
        BY <3>3
      <3>5. Before(j + 1, c)
        BY <1>0, <1>1, <2>1, <2>2, <2>6, <2>7, <2>9 DEF Before
      <3> QED  BY <2>5, <3>2, <3>4, <3>5
    <2> QED  BY <2>8, <2>9
  <1>11. PICK c : Before(size, c) /\ TasksOn(Joined(every, size), cells) = Joined(mine, c)
    <2>1. S \in SUBSET Nat
      OBVIOUS
    <2> HIDE DEF Before
    <2>2. size \in S
      <3> HIDE DEF S
      <3> QED  BY <1>0, <1>9, <1>10, <2>1, SetInduction
    <2> QED  BY <1>0, <2>2
  <1>12. c = count
    <2>1. c \in 0 .. count /\ size <= t + c * n
      BY <1>11
    <2> SUFFICES ASSUME c < count PROVE FALSE
      BY <1>1, <2>1
    <2>2. RoundOf(t, n, c + 1) \in 0 .. size - 1 /\ (c + 1) - 1 = c
      <3>1. c + 1 \in 1 .. count
        BY <1>1, <2>1
      <3> QED  BY <1>1, <2>1, <3>1
    <2>3. t + c * n < size
      BY <1>0, <2>2 DEF RoundOf
    <2>4. c * n \in Nat
      BY <2>1, Multiples
    <2> QED  BY <1>0, <2>1, <2>3, <2>4
  <1>13. part = TasksOn(Strides(rounds, 0, 1, size), cells)
    <2> HIDE DEF Before
    <2> QED  BY <1>5, <1>11, <1>12
  <1> QED  BY <1>13 DEF part, cells

LEMMA AllRounds ==
  ASSUME NEW size, NEW rounds, AreRounds(rounds, size)
  PROVE  LET whole == Strides(rounds, 0, 1, size)
         IN  /\ whole \in Seq(TensorTasks)
             /\ \A x \in DOMAIN whole : \E i \in 0 .. size - 1 :
                  \E a \in DOMAIN rounds[i] : whole[x] = rounds[i][a]
  <1> DEFINE one == Strided(0, 1, size)
             every == [k \in DOMAIN one |-> rounds[one[k]]]
             whole == Strides(rounds, 0, 1, size)
  <1>0. size \in Nat
    BY DEF AreRounds
  <1>1. one = [k \in 1 .. size |-> k - 1] /\ Len(one) = size
    BY <1>0, OneThread
  <1>2. whole = Joined(every, size)
    BY <1>1 DEF Strides
  <1> HIDE DEF one, whole
  <1>3. \A k \in 1 .. size : k - 1 \in 0 .. size - 1 /\ every[k] = rounds[k - 1]
    BY <1>0, <1>1
  <1> HIDE DEF every
  <1>4. \A k \in 1 .. size : every[k] \in Seq(TensorTasks)
    BY <1>3 DEF AreRounds
  <1>5. whole \in Seq(TensorTasks)
    BY <1>0, <1>2, <1>4, JoinedType
  <1>6. \A x \in DOMAIN whole : \E k \in 1 .. size : \E a \in DOMAIN every[k] : whole[x] = every[k][a]
    <2>1. Gathers(whole, every, size)
      BY <1>0, <1>2, <1>4, JoinedElements
    <2> QED  BY <2>1 DEF Gathers
  <1>7. \A x \in DOMAIN whole : \E i \in 0 .. size - 1 :
          \E a \in DOMAIN rounds[i] : whole[x] = rounds[i][a]
    BY <1>3, <1>6
  <1> QED  BY <1>5, <1>7 DEF whole

(* What a team has to do, and the part of every thread in it.              *)
PartOf(whole, part) ==
  /\ part \in Seq(TensorTasks)
  /\ part = TasksOn(whole, Written(part))
  /\ Touched(part) \cap Written(whole) \subseteq Written(part)
SharedOut(whole, parts, n) ==
  /\ whole \in Seq(TensorTasks)
  /\ \A t \in 0 .. n - 1 : PartOf(whole, parts[t])
  /\ \A cell \in Written(whole) : \E t \in 0 .. n - 1 : cell \in Written(parts[t])
  /\ \A t, u \in 0 .. n - 1 : t # u =>
       \A i \in DOMAIN parts[t], j \in DOMAIN parts[u] : TasksApart(parts, t, i, u, j)

LEMMA SharedOutShares ==
  ASSUME NEW c, NEW n, NEW whole, NEW parts, SharedOut(whole, parts, n),
         Whole(c) = whole, \A t \in 0 .. n - 1 : Tasks(c, t, n) = parts[t]
  PROVE  Shares(c, n)
  <1>1. Unbroken(c, n)
    BY DEF Unbroken, SharedOut, PartOf
  <1>2. Divided(c, n)
    <2>1. \A t \in 0 .. n - 1 : /\ Tasks(c, t, n) = TasksOn(Whole(c), Written(Tasks(c, t, n)))
                                /\ Touched(Tasks(c, t, n)) \cap Written(Whole(c))
                                     \subseteq Written(Tasks(c, t, n))
      BY DEF SharedOut, PartOf
    <2>2. Written(Whole(c)) \subseteq UNION {Written(Tasks(c, t, n)) : t \in 0 .. n - 1}
      BY DEF SharedOut
    <2> QED  BY <2>1, <2>2 DEF Divided
  <1>3. Apart(c, n)
    BY DEF Apart, SharedOut, TasksApart
  <1> QED  BY <1>1, <1>2, <1>3 DEF Shares

(* A team shares a loop that gives every thread its own rounds, if these   *)
(* do not depend on each other: for every size, and every team.            *)
AllStrides(rounds, n, size) == [t \in 0 .. n - 1 |-> Strides(rounds, t, n, size)]

LEMMA StridedShares ==
  ASSUME NEW n \in Nat \ {0}, NEW size, NEW rounds, AreRounds(rounds, size)
  PROVE  SharedOut(Strides(rounds, 0, 1, size), AllStrides(rounds, n, size), n)
  <1> DEFINE whole == Strides(rounds, 0, 1, size)
             part(t) == Strides(rounds, t, n, size)
             count(t) == Len(Strided(t, n, size))
  <1>1. /\ whole \in Seq(TensorTasks)
        /\ \A x \in DOMAIN whole : \E i \in 0 .. size - 1 :
             \E a \in DOMAIN rounds[i] : whole[x] = rounds[i][a]
    BY AllRounds
  <1>2. ASSUME NEW t \in 0 .. n - 1
        PROVE  /\ part(t) \in Seq(TensorTasks)
               /\ \A x \in DOMAIN part(t) : \E q \in 1 .. count(t) :
                    \E a \in DOMAIN rounds[RoundOf(t, n, q)] :
                      part(t)[x] = rounds[RoundOf(t, n, q)][a]
               /\ \A q \in 1 .. count(t) : \A a \in DOMAIN rounds[RoundOf(t, n, q)] :
                    \E x \in DOMAIN part(t) : part(t)[x] = rounds[RoundOf(t, n, q)][a]
    <2> DEFINE s == Strides(rounds, t, n, size)
    <2>1. part(t) = s
      OBVIOUS
    <2>2. s \in Seq(TensorTasks)
      BY StridesElements
    <2>3. \A x \in DOMAIN s : \E q \in 1 .. count(t) :
            \E a \in DOMAIN rounds[RoundOf(t, n, q)] : s[x] = rounds[RoundOf(t, n, q)][a]
      BY StridesElements
    <2>4. \A q \in 1 .. count(t) : \A a \in DOMAIN rounds[RoundOf(t, n, q)] :
            \E x \in DOMAIN s : s[x] = rounds[RoundOf(t, n, q)][a]
      BY StridesElements
    <2> HIDE DEF part, s
    <2> QED  BY <2>1, <2>2, <2>3, <2>4
  <1>3. \A t \in 0 .. n - 1 : \A q \in 1 .. count(t) : RoundOf(t, n, q) \in 0 .. size - 1
    <2> SUFFICES ASSUME NEW t \in 0 .. n - 1, NEW q \in 1 .. count(t)
                 PROVE  RoundOf(t, n, q) \in 0 .. size - 1
      OBVIOUS
    <2>1. t \in Nat /\ size \in Nat
      BY DEF AreRounds
    <2> QED  BY <2>1, StridedRounds
  <1>4. \A t \in 0 .. n - 1 : part(t) = TasksOn(whole, Written(part(t)))
    BY StridesOn
  <1>5. \A i, j \in 0 .. size - 1 : i # j =>
          \A a \in DOMAIN rounds[i], b \in DOMAIN rounds[j] :
            /\ rounds[i][a].cell # rounds[j][b].cell
            /\ \A k \in DOMAIN rounds[j][b].reads : rounds[j][b].reads[k] # rounds[i][a].cell
    BY DEF AreRounds, Independent
  <1> HIDE DEF whole, part
  <1>6. ASSUME NEW t \in 0 .. n - 1
        PROVE  Touched(part(t)) \cap Written(whole) \subseteq Written(part(t))
    <2> SUFFICES ASSUME NEW cell \in Touched(part(t)), cell \in Written(whole)
                 PROVE  cell \in Written(part(t))
      OBVIOUS
    <2>1. PICK x \in DOMAIN part(t) :
            cell = part(t)[x].cell \/ \E m \in DOMAIN part(t)[x].reads : cell = part(t)[x].reads[m]
      BY DEF Touched
    <2>2. CASE cell = part(t)[x].cell
      BY <2>2 DEF Written
    <2>3. CASE \E m \in DOMAIN part(t)[x].reads : cell = part(t)[x].reads[m]
      <3>1. PICK q \in 1 .. count(t) : \E a \in DOMAIN rounds[RoundOf(t, n, q)] :
              part(t)[x] = rounds[RoundOf(t, n, q)][a]
        BY <1>2
      <3> DEFINE i == RoundOf(t, n, q)
      <3>2. i \in 0 .. size - 1
        BY <1>3
      <3>3. PICK y \in DOMAIN whole : cell = whole[y].cell
        BY DEF Written
      <3>4. PICK j \in 0 .. size - 1 : \E b \in DOMAIN rounds[j] : whole[y] = rounds[j][b]
        BY <1>1
      <3>5. j = i
        BY <1>5, <2>3, <3>1, <3>2, <3>3, <3>4
      <3>6. \E b \in DOMAIN rounds[i] : cell = rounds[i][b].cell
        BY <3>3, <3>4, <3>5
      <3>7. \E z \in DOMAIN part(t) : part(t)[z].cell = cell
        BY <1>2, <3>6
      <3> QED  BY <3>7 DEF Written
    <2> QED  BY <2>1, <2>2, <2>3
  <1>7. ASSUME NEW cell \in Written(whole)
        PROVE  \E t \in 0 .. n - 1 : cell \in Written(part(t))
    <2>1. PICK y \in DOMAIN whole : cell = whole[y].cell
      BY DEF Written
    <2>2. PICK i \in 0 .. size - 1 : \E b \in DOMAIN rounds[i] : whole[y] = rounds[i][b]
      BY <1>1
    <2>3. PICK t \in 0 .. n - 1 : \E q \in 1 .. count(t) : i = RoundOf(t, n, q)
      <3>1. size \in Nat
        BY DEF AreRounds
      <3> QED  BY <3>1, RoundExists
    <2>4. \E z \in DOMAIN part(t) : part(t)[z].cell = cell
      BY <1>2, <2>1, <2>2, <2>3
    <2> QED  BY <2>4 DEF Written
  <1>8. ASSUME NEW t \in 0 .. n - 1, NEW u \in 0 .. n - 1, t # u,
               NEW x \in DOMAIN part(t), NEW y \in DOMAIN part(u)
        PROVE  /\ part(t)[x].cell # part(u)[y].cell
               /\ \A m \in DOMAIN part(u)[y].reads : part(u)[y].reads[m] # part(t)[x].cell
    <2>1. PICK q \in 1 .. count(t) : \E a \in DOMAIN rounds[RoundOf(t, n, q)] :
            part(t)[x] = rounds[RoundOf(t, n, q)][a]
      BY <1>2
    <2>2. PICK s \in 1 .. count(u) : \E a \in DOMAIN rounds[RoundOf(u, n, s)] :
            part(u)[y] = rounds[RoundOf(u, n, s)][a]
      BY <1>2
    <2>3. RoundOf(t, n, q) # RoundOf(u, n, s)
      <3>1. q \in Nat \ {0} /\ s \in Nat \ {0}
        OBVIOUS
      <3> QED  BY <1>8, <3>1, RoundUnique
    <2>4. RoundOf(t, n, q) \in 0 .. size - 1 /\ RoundOf(u, n, s) \in 0 .. size - 1
      BY <1>3
    <2> QED  BY <1>5, <2>1, <2>2, <2>3, <2>4
  <1>9. \A t \in 0 .. n - 1 : AllStrides(rounds, n, size)[t] = part(t)
    BY DEF AllStrides, part
  <1>10. \A t \in 0 .. n - 1 : PartOf(whole, part(t))
    BY <1>2, <1>4, <1>6 DEF PartOf
  <1>11. \A t, u \in 0 .. n - 1 : t # u => \A x \in DOMAIN part(t), y \in DOMAIN part(u) :
           /\ part(t)[x].cell # part(u)[y].cell
           /\ \A m \in DOMAIN part(u)[y].reads : part(u)[y].reads[m] # part(t)[x].cell
    BY <1>8
  <1>12. \A t, u \in 0 .. n - 1 : t # u =>
           \A x \in DOMAIN AllStrides(rounds, n, size)[t], y \in DOMAIN AllStrides(rounds, n, size)[u] :
             TasksApart(AllStrides(rounds, n, size), t, x, u, y)
    BY <1>9, <1>11 DEF TasksApart
  <1>13. SharedOut(whole, AllStrides(rounds, n, size), n)
    BY <1>1, <1>7, <1>9, <1>10, <1>12 DEF SharedOut
  <1> QED  BY <1>13 DEF whole

-----------------------------------------------------------------------------
(* The kernels whose loops these are. *)

(* What a call may be.                                                     *)
Calls ==
  [kernel : Elementwise \cup
              {"sdp", "softmax", "softmaxgrad", "matmul", "maxpool", "maxpoolgrad", "avgpool",
               "avgpoolgrad", "bias_add", "biasaddgrad", "lrn", "conv2d", "conv2d_layer",
               "conv2dbackpropinput", "conv2dbackpropfilter", "dense", "dense_layer"},
   in : Tensors, w : Tensors, out : Tensors, size : Nat, mode : Int, batch : Nat,
   height : Nat, width : Nat, channels : Nat, outs : Nat, filter : Nat,
   padding : BOOLEAN, bias : BOOLEAN,
   act : Elementwise \cup {"none"}, pool : {"none", "avg", "max"}]

IsEven(size) == \E half \in Nat : size = 2 * half
PaddingIn(c) == c.padding => c.height > 1 /\ c.width > 1

(* The kernels that give every thread its own rounds of one loop, or of    *)
(* the same loop for every image of the batch; those that thread 0 makes   *)
(* alone; and dense.  Arrays may overlap where no thread sees another one  *)
(* through it.  Pooling is by two in both directions, so it is for even    *)
(* sizes.                                                                  *)
AnyTeam(c) ==
  \/ c.kernel \in OfOne \cup OfTwo
  \/ c.kernel \in ScalarOps /\ c.w # c.out
  \/ c.kernel = "sdp" /\ (c.mode \in 4 .. 7 => c.w # c.out)
  \/ c.kernel = "softmax" /\ c.in # c.out
  \/ c.kernel = "bias_add" /\ c.w # c.out
  \/ c.kernel = "lrn" /\ c.width # 0
  \/ c.kernel = "avgpool" /\ IsEven(c.height) /\ IsEven(c.width) /\ c.in # c.out
  \/ c.kernel = "maxpoolgrad" /\ IsEven(c.height) /\ IsEven(c.width) /\ c.w # c.out
  \/ c.kernel = "conv2d" /\ PaddingIn(c) /\ c.in # c.out /\ c.w # c.out
  \/ c.kernel \in {"softmaxgrad", "conv2dbackpropinput"}
  \/ c.kernel = "dense" /\ c.in # c.out /\ c.w # c.out

LEMMA ElementwiseNames ==
  \A k \in Elementwise :
    /\ k \notin {"sdp", "softmax", "softmaxgrad", "matmul", "maxpool", "maxpoolgrad", "avgpool"}
    /\ k \notin {"avgpoolgrad", "bias_add", "biasaddgrad", "lrn", "conv2d", "conv2d_layer"}
    /\ k \notin {"conv2dbackpropinput", "conv2dbackpropfilter", "dense", "dense_layer"}
  BY DEF Elementwise, OfOne, OfTwo, ScalarOps, Activations, LinearUnits, MoreActivations, TensorOps

LEMMA TasksOfRounds ==
  ASSUME NEW c, NEW t, NEW n,
         c.kernel \in Elementwise \cup {"sdp", "softmax", "bias_add", "lrn", "avgpool",
                                       "maxpoolgrad", "conv2d", "dense"}
  PROVE  /\ c.kernel \in Elementwise => Body(c, t, n) = elementwise(c, t, n)
         /\ c.kernel = "sdp" => Body(c, t, n) = sdp(c, t, n)
         /\ c.kernel = "softmax" => Body(c, t, n) = softmax(c, t, n)
         /\ c.kernel = "bias_add" => Body(c, t, n) = bias_add(c, t, n)
         /\ c.kernel = "lrn" => Body(c, t, n) = lrn(c, t, n)
         /\ c.kernel = "avgpool" => Body(c, t, n) = avgpool(c, t, n)
         /\ c.kernel = "maxpoolgrad" => Body(c, t, n) = maxpoolgrad(c, t, n)
         /\ c.kernel = "conv2d" => Body(c, t, n) = conv2d(c, t, n)
         /\ c.kernel = "dense" => Body(c, t, n) = dense(c, t)
         /\ Tasks(c, t, n) = Body(c, t, n) \o <<>>
  <1>1. c.kernel \in Elementwise => Body(c, t, n) = elementwise(c, t, n)
    BY ElementwiseNames DEF Body
  <1>2. c.kernel = "sdp" => Body(c, t, n) = sdp(c, t, n)
    BY ElementwiseNames DEF Body
  <1>3. c.kernel = "softmax" => Body(c, t, n) = softmax(c, t, n)
    BY ElementwiseNames DEF Body
  <1>4. c.kernel = "bias_add" => Body(c, t, n) = bias_add(c, t, n)
    BY ElementwiseNames DEF Body
  <1>5. c.kernel = "lrn" => Body(c, t, n) = lrn(c, t, n)
    BY ElementwiseNames DEF Body
  <1>8. c.kernel = "avgpool" => Body(c, t, n) = avgpool(c, t, n)
    BY ElementwiseNames DEF Body
  <1>9. c.kernel = "maxpoolgrad" => Body(c, t, n) = maxpoolgrad(c, t, n)
    BY ElementwiseNames DEF Body
  <1>10. c.kernel = "conv2d" => Body(c, t, n) = conv2d(c, t, n)
    BY ElementwiseNames DEF Body
  <1>11. c.kernel = "dense" => Body(c, t, n) = dense(c, t)
    BY ElementwiseNames DEF Body
  <1>6. c.kernel # "conv2dbackpropfilter" /\ Takes_part(c.kernel, t)
    BY ElementwiseNames DEF Takes_part
  <1>7. Tasks(c, t, n) = Body(c, t, n) \o <<>>
    BY <1>6 DEF Tasks
  <1> QED  BY <1>1, <1>2, <1>3, <1>4, <1>5, <1>7, <1>8, <1>9, <1>10, <1>11

LEMMA PartsShare ==
  ASSUME NEW c, c.kernel \in Elementwise \cup {"sdp", "softmax", "bias_add", "lrn", "avgpool",
                                               "maxpoolgrad", "conv2d", "dense"},
         NEW n, NEW whole, NEW parts, SharedOut(whole, parts, n),
         Body(c, 0, 1) = whole, \A t \in 0 .. n - 1 : Body(c, t, n) = parts[t]
  PROVE  Shares(c, n)
  <1>1. Whole(c) = whole
    BY DEF Whole
  <1>2. ASSUME NEW t \in 0 .. n - 1 PROVE Tasks(c, t, n) = parts[t]
    <2> DEFINE s == parts[t]
    <2>1. Tasks(c, t, n) = s \o <<>>
      BY TasksOfRounds
    <2>2. s \in Seq(TensorTasks)
      BY DEF SharedOut, PartOf
    <2> HIDE DEF s
    <2>3. s \in Seq(TensorTasks) => s \o <<>> = s
      OBVIOUS
    <2> QED  BY <2>1, <2>2, <2>3 DEF s
  <1> QED  BY <1>1, <1>2, SharedOutShares

(* What has to be shown of the rounds of a kernel.                         *)
LEMMA RoundsShare ==
  ASSUME NEW c, c.kernel \in Elementwise \cup {"sdp", "softmax", "bias_add", "lrn"},
         NEW size, NEW rounds, AreRounds(rounds, size), NEW n \in Nat \ {0},
         Body(c, 0, 1) = Strides(rounds, 0, 1, size),
         \A t \in 0 .. n - 1 : Body(c, t, n) = Strides(rounds, t, n, size)
  PROVE  Shares(c, n)
  <1>1. SharedOut(Strides(rounds, 0, 1, size), AllStrides(rounds, n, size), n)
    BY StridedShares
  <1>2. \A t \in 0 .. n - 1 : Body(c, t, n) = AllStrides(rounds, n, size)[t]
    BY DEF AllStrides
  <1> QED  BY <1>1, <1>2, PartsShare

(* Element by element.                                                     *)
ElementReads(c, i) ==
  IF c.kernel \in OfOne THEN <<<<c.in, i>>>>
  ELSE IF c.kernel \in ScalarOps THEN <<<<c.in, i>>, <<c.w, 0>>>>
  ELSE <<<<c.in, i>>, <<c.w, i>>>>
Element(c, i) == Set(<<c.out, i>>, c.kernel, ElementReads(c, i))
Elements(c) == [i \in 0 .. c.size - 1 |-> <<Element(c, i)>>]

LEMMA ElementsAreRounds ==
  ASSUME NEW c, c.kernel \in Elementwise, c.size \in Nat,
         c.in \in Tensors, c.w \in Tensors, c.out \in Tensors,
         c.kernel \in ScalarOps => c.w # c.out
  PROVE  AreRounds(Elements(c), c.size)
  <1>1. ASSUME NEW i \in Int
        PROVE  /\ Element(c, i) \in TensorTasks
               /\ Element(c, i).cell = <<c.out, i>>
               /\ Element(c, i).reads = ElementReads(c, i)
    <2>1. /\ <<c.out, i>> \in TensorCells /\ <<c.in, i>> \in TensorCells
          /\ <<c.w, i>> \in TensorCells /\ <<c.w, 0>> \in TensorCells
      BY DEF TensorCells
    <2>2. \A a, b \in TensorCells : <<a>> \in Seq(TensorCells) /\ <<a, b>> \in Seq(TensorCells)
      OBVIOUS
    <2>3. ElementReads(c, i) \in Seq(TensorCells)
      BY <2>1, <2>2 DEF ElementReads
    <2>4. c.kernel \in Operations
      BY DEF Operations
    <2> QED  BY <2>1, <2>3, <2>4 DEF Element, Set, TensorTasks
  <1>2. \A i \in Int : \A k \in DOMAIN ElementReads(c, i) :
          \/ ElementReads(c, i)[k] = <<c.in, i>>
          \/ ElementReads(c, i)[k] = <<c.w, i>>
          \/ ElementReads(c, i)[k] = <<c.w, 0>> /\ c.w # c.out
    BY DEF ElementReads
  <1>3. ASSUME NEW i \in 0 .. c.size - 1
        PROVE  /\ Elements(c)[i] = <<Element(c, i)>> /\ i \in Int
               /\ DOMAIN Elements(c)[i] = {1} /\ Elements(c)[i][1] = Element(c, i)
    BY DEF Elements
  <1>4. ASSUME NEW i \in 0 .. c.size - 1 PROVE Elements(c)[i] \in Seq(TensorTasks)
    <2>1. \A a \in TensorTasks : <<a>> \in Seq(TensorTasks)
      OBVIOUS
    <2> QED  BY <1>1, <1>3, <2>1
  <1>5. ASSUME NEW i \in 0 .. c.size - 1, NEW j \in 0 .. c.size - 1, i # j
        PROVE  /\ Element(c, i).cell # Element(c, j).cell
               /\ \A k \in DOMAIN Element(c, j).reads : Element(c, j).reads[k] # Element(c, i).cell
    BY <1>1, <1>2, <1>5
  <1>6. Independent(Elements(c), c.size)
    BY <1>3, <1>5 DEF Independent
  <1> QED  BY <1>4, <1>6 DEF AreRounds

LEMMA StridedInside ==
  ASSUME NEW t \in Nat, NEW n \in Nat \ {0}, NEW size \in Nat
  PROVE  \A k \in DOMAIN Strided(t, n, size) : Strided(t, n, size)[k] \in 0 .. size - 1
  <1>1. /\ DOMAIN Strided(t, n, size) = 1 .. Len(Strided(t, n, size))
        /\ \A q \in 1 .. Len(Strided(t, n, size)) :
             /\ Strided(t, n, size)[q] = RoundOf(t, n, q)
             /\ RoundOf(t, n, q) \in 0 .. size - 1
    BY StridedRounds
  <1> QED  BY <1>1

(* What each thread of a team does, and the only one of a team of one.     *)
LEMMA ElementwiseIs ==
  ASSUME NEW c, NEW t \in Nat, NEW n \in Nat \ {0}, c.size \in Nat
  PROVE  elementwise(c, t, n) = Strides(Elements(c), t, n, c.size)
  <1> DEFINE idx == Strided(t, n, c.size)
  <1>1. \A k \in DOMAIN idx : idx[k] \in 0 .. c.size - 1
    BY StridedInside
  <1>2. elementwise(c, t, n) = Joined([k \in DOMAIN idx |-> <<Element(c, idx[k])>>], Len(idx))
    BY DEF elementwise, For, Element, ElementReads
  <1> HIDE DEF idx
  <1>3. [k \in DOMAIN idx |-> <<Element(c, idx[k])>>] = [k \in DOMAIN idx |-> Elements(c)[idx[k]]]
    BY <1>1 DEF Elements
  <1> QED  BY <1>2, <1>3 DEF Strides, idx

LEMMA ElementwiseShares ==
  ASSUME NEW c, c.kernel \in Elementwise, c.size \in Nat,
         c.in \in Tensors, c.w \in Tensors, c.out \in Tensors,
         c.kernel \in ScalarOps => c.w # c.out,
         NEW n \in Nat \ {0}
  PROVE  Shares(c, n)
  <1>1. ASSUME NEW t \in Nat, NEW m \in Nat \ {0}
        PROVE  Body(c, t, m) = Strides(Elements(c), t, m, c.size)
    <2>1. Body(c, t, m) = elementwise(c, t, m)
      BY TasksOfRounds
    <2> QED  BY <2>1, ElementwiseIs
  <1>2. Body(c, 0, 1) = Strides(Elements(c), 0, 1, c.size)
    BY <1>1
  <1>3. \A t \in 0 .. n - 1 : Body(c, t, n) = Strides(Elements(c), t, n, c.size)
    BY <1>1
  <1> QED  BY <1>2, <1>3, ElementsAreRounds, RoundsShare

-----------------------------------------------------------------------------
(* Row by row: a round writes to its row of out, and reads nothing of the  *)
(* other rows of it.                                                       *)
Row(i, width) == i * width .. i * width + width - 1
RowCells(out, i, width) ==
  {cell \in TensorCells : cell[1] = out => cell[2] \in Row(i, width)}
RowTasks(out, i, width) ==
  {task \in TensorTasks : /\ task.cell[1] = out /\ task.cell[2] \in Row(i, width)
                          /\ task.reads \in Seq(RowCells(out, i, width))}

LEMMA RowsApart ==
  ASSUME NEW width \in Nat, NEW out, NEW i \in Nat, NEW j \in Nat, i # j,
         NEW mine \in RowTasks(out, i, width), NEW other \in RowTasks(out, j, width)
  PROVE  /\ mine.cell # other.cell
         /\ \A k \in DOMAIN other.reads : other.reads[k] # mine.cell
  <1>1. ASSUME NEW x \in Row(i, width), NEW y \in Row(j, width) PROVE x # y
    <2>1. /\ i * width \in Nat /\ j * width \in Nat
          /\ (i < j => i * width + width <= j * width)
          /\ (j < i => j * width + width <= i * width)
      <3>1. width \in Nat \ {0}
        <4> SUFFICES ASSUME width = 0 PROVE FALSE
          OBVIOUS
        <4>1. i * width = 0
          OBVIOUS
        <4> QED  BY <4>1 DEF Row
      <3> QED  BY <3>1, Multiples
    <2> DEFINE a == i * width
               b == j * width
    <2>2. x \in a .. a + width - 1 /\ y \in b .. b + width - 1
      BY DEF Row
    <2> HIDE DEF a, b
    <2>3. a \in Nat /\ b \in Nat /\ (i < j => a + width <= b) /\ (j < i => b + width <= a)
      BY <2>1 DEF a, b
    <2>4. i < j \/ j < i
      OBVIOUS
    <2> QED  BY <2>2, <2>3, <2>4
  <1>2. /\ mine.cell[1] = out /\ mine.cell[2] \in Row(i, width)
        /\ other.cell[1] = out /\ other.cell[2] \in Row(j, width)
        /\ other.reads \in Seq(RowCells(out, j, width))
    BY DEF RowTasks
  <1>3. mine.cell[2] # other.cell[2]
    BY <1>1, <1>2
  <1>4. \A k \in DOMAIN other.reads : other.reads[k] \in RowCells(out, j, width)
    <2> DEFINE s == other.reads
               T == RowCells(out, j, width)
    <2>1. s \in Seq(T)
      BY <1>2
    <2> HIDE DEF s, T
    <2>2. \A k \in DOMAIN s : s[k] \in T
      BY <2>1
    <2> QED  BY <2>2 DEF s, T
  <1>5. ASSUME NEW k \in DOMAIN other.reads PROVE other.reads[k] # mine.cell
    <2>1. other.reads[k][1] = out => other.reads[k][2] \in Row(j, width)
      BY <1>4 DEF RowCells
    <2>2. other.reads[k][1] = out => mine.cell[2] # other.reads[k][2]
      BY <1>1, <1>2, <2>1
    <2> QED  BY <1>2, <2>2
  <1> QED  BY <1>3, <1>5

LEMMA RowsAre ==
  ASSUME NEW out, NEW i, NEW width, NEW s \in Seq(RowTasks(out, i, width))
  PROVE  s \in Seq(TensorTasks) /\ \A a \in DOMAIN s : s[a] \in RowTasks(out, i, width)
  <1> DEFINE T == RowTasks(out, i, width)
  <1>1. s \in Seq(T) /\ \A x \in T : x \in TensorTasks
    BY DEF RowTasks
  <1> HIDE DEF T
  <1>2. \A a \in DOMAIN s : s[a] \in T
    BY <1>1
  <1>3. s \in Seq(TensorTasks)
    BY <1>1, <1>2
  <1> QED  BY <1>2, <1>3 DEF T

LEMMA RowsAreRounds ==
  ASSUME NEW size \in Nat, NEW width \in Nat, NEW rounds, NEW out,
         \A i \in 0 .. size - 1 : rounds[i] \in Seq(RowTasks(out, i, width))
  PROVE  AreRounds(rounds, size)
  <1>1. \A i \in 0 .. size - 1 :
          /\ i \in Nat
          /\ rounds[i] \in Seq(TensorTasks)
          /\ \A a \in DOMAIN rounds[i] : rounds[i][a] \in RowTasks(out, i, width)
    BY RowsAre
  <1>2. Independent(rounds, size)
    BY <1>1, RowsApart DEF Independent
  <1> QED  BY <1>1, <1>2 DEF AreRounds

LEMMA SetInRow ==
  ASSUME NEW out \in Tensors, NEW i \in Int, NEW width \in Nat,
         NEW x \in Row(i, width), NEW op \in Operations,
         NEW reads \in Seq(RowCells(out, i, width))
  PROVE  <<Set(<<out, x>>, op, reads)>> \in Seq(RowTasks(out, i, width))
  <1> DEFINE task == Set(<<out, x>>, op, reads)
             R == RowCells(out, i, width)
             T == RowTasks(out, i, width)
  <1>1. <<out, x>> \in TensorCells
    <2>1. x \in Int
      BY DEF Row
    <2> QED  BY <2>1 DEF TensorCells
  <1>2. reads \in Seq(TensorCells)
    <2>1. reads \in Seq(R) /\ \A y \in R : y \in TensorCells
      BY DEF RowCells
    <2> HIDE DEF R
    <2> QED  BY <2>1
  <1>3. task \in TensorTasks
    BY <1>1, <1>2 DEF Set, TensorTasks
  <1>4. task.cell = <<out, x>> /\ task.reads = reads
    BY DEF Set
  <1>5. task \in T
    <2> HIDE DEF task
    <2> QED  BY <1>3, <1>4 DEF RowTasks
  <1> HIDE DEF task, T
  <1>6. <<task>> \in Seq(T)
    BY <1>5
  <1> QED  BY <1>6 DEF task, T

LEMMA CellInRow ==
  ASSUME NEW out \in Tensors, NEW i \in Int, NEW width \in Nat, NEW in \in Tensors, NEW x \in Int,
         in = out => x \in Row(i, width)
  PROVE  <<in, x>> \in RowCells(out, i, width) /\ <<<<in, x>>>> \in Seq(RowCells(out, i, width))
  <1> DEFINE R == RowCells(out, i, width)
             cell == <<in, x>>
  <1>1. cell \in TensorCells /\ cell[1] = in /\ cell[2] = x
    BY DEF TensorCells
  <1>2. cell \in R
    <2> HIDE DEF cell
    <2> QED  BY <1>1 DEF RowCells
  <1> HIDE DEF R, cell
  <1>3. <<cell>> \in Seq(R)
    BY <1>2
  <1> QED  BY <1>2, <1>3 DEF R, cell

LEMMA CellsInRow ==
  ASSUME NEW out \in Tensors, NEW i \in Int, NEW width \in Nat, NEW in \in Tensors,
         NEW first \in Int, NEW count \in Nat,
         in = out => first .. first + count - 1 \subseteq Row(i, width)
  PROVE  Cells(in, first, count) \in Seq(RowCells(out, i, width))
  <1> DEFINE R == RowCells(out, i, width)
             s == Cells(in, first, count)
  <1>1. s = [k \in 1 .. count |-> <<in, first + k - 1>>]
    BY DEF Cells
  <1>2. ASSUME NEW k \in 1 .. count PROVE <<in, first + k - 1>> \in R
    <2>1. first + k - 1 \in first .. first + count - 1
      OBVIOUS
    <2>2. in = out => first + k - 1 \in Row(i, width)
      BY <2>1
    <2>3. first + k - 1 \in Int
      OBVIOUS
    <2> QED  BY <2>2, <2>3, CellInRow
  <1> HIDE DEF R, s
  <1>3. s \in Seq(R)
    <2> DEFINE cell(k) == <<in, first + k - 1>>
    <2>1. s = [k \in 1 .. count |-> cell(k)] /\ \A k \in 1 .. count : cell(k) \in R
      BY <1>1, <1>2
    <2> HIDE DEF cell
    <2> QED  BY <2>1
  <1> QED  BY <1>3 DEF R, s

(* The row of bias_add, which reads its own cells and the bias.            *)
BiasRow(c, i) ==
  For(UpTo(c.channels),
      LAMBDA j : <<Set(<<c.out, i * c.channels + j>>, "bias",
                       <<<<c.in, i * c.channels + j>>, <<c.w, j>>>>)>>)
BiasRows(c) == [i \in 0 .. c.batch - 1 |-> BiasRow(c, i)]

LEMMA BiasShares ==
  ASSUME NEW c, c.kernel = "bias_add", c.batch \in Nat, c.channels \in Nat,
         c.in \in Tensors, c.w \in Tensors, c.out \in Tensors, c.w # c.out,
         NEW n \in Nat \ {0}
  PROVE  Shares(c, n)
  <1>1. ASSUME NEW i \in 0 .. c.batch - 1
        PROVE  BiasRow(c, i) \in Seq(RowTasks(c.out, i, c.channels))
    <2> DEFINE T == RowTasks(c.out, i, c.channels)
               R == RowCells(c.out, i, c.channels)
               parts == [k \in 1 .. c.channels |->
                           <<Set(<<c.out, i * c.channels + (k - 1)>>, "bias",
                                 <<<<c.in, i * c.channels + (k - 1)>>, <<c.w, k - 1>>>>)>>]
    <2>1. BiasRow(c, i) = Joined(parts, c.channels)
      <3> DEFINE every == UpTo(c.channels)
      <3>1. DOMAIN every = 1 .. c.channels /\ Len(every) = c.channels
            /\ \A k \in 1 .. c.channels : every[k] = k - 1
        BY DEF UpTo
      <3>2. BiasRow(c, i)
              = Joined([k \in DOMAIN every |->
                          <<Set(<<c.out, i * c.channels + every[k]>>, "bias",
                                <<<<c.in, i * c.channels + every[k]>>, <<c.w, every[k]>>>>)>>],
                       Len(every))
        BY DEF BiasRow, For
      <3> HIDE DEF every
      <3> QED  BY <3>1, <3>2
    <2>2. ASSUME NEW k \in 1 .. c.channels PROVE parts[k] \in Seq(T)
      <3> DEFINE x == i * c.channels + (k - 1)
                 reads == <<<<c.in, x>>, <<c.w, k - 1>>>>
      <3>1. x \in Row(i, c.channels) /\ x \in Int /\ k - 1 \in Int /\ i \in Int
        <4>1. i * c.channels \in Int
          OBVIOUS
        <4> QED  BY <4>1 DEF Row
      <3>2. parts[k] = <<Set(<<c.out, x>>, "bias", reads)>>
        OBVIOUS
      <3> HIDE DEF x
      <3>3. <<c.in, x>> \in R /\ <<c.w, k - 1>> \in R
        BY <3>1, CellInRow
      <3>4. reads \in Seq(R)
        <4> HIDE DEF R
        <4> QED  BY <3>3
      <3>5. "bias" \in Operations
        BY DEF Operations
      <3> HIDE DEF reads, parts
      <3> QED  BY <3>1, <3>2, <3>4, <3>5, SetInRow
    <2> HIDE DEF parts, T
    <2>3. Joined(parts, c.channels) \in Seq(T)
      BY <2>2, JoinedType
    <2> QED  BY <2>1, <2>3 DEF T
  <1>2. AreRounds(BiasRows(c), c.batch)
    <2>1. \A i \in 0 .. c.batch - 1 : BiasRows(c)[i] \in Seq(RowTasks(c.out, i, c.channels))
      BY <1>1 DEF BiasRows
    <2> QED  BY <2>1, RowsAreRounds
  <1>3. ASSUME NEW t \in Nat, NEW m \in Nat \ {0}
        PROVE  Body(c, t, m) = Strides(BiasRows(c), t, m, c.batch)
    <2> DEFINE idx == Strided(t, m, c.batch)
    <2>1. \A k \in DOMAIN idx : idx[k] \in 0 .. c.batch - 1
      BY StridedInside
    <2>2. Body(c, t, m) = bias_add(c, t, m)
      BY TasksOfRounds
    <2>3. bias_add(c, t, m) = Joined([k \in DOMAIN idx |-> BiasRow(c, idx[k])], Len(idx))
      BY DEF bias_add, For, BiasRow
    <2> HIDE DEF idx
    <2>4. [k \in DOMAIN idx |-> BiasRow(c, idx[k])] = [k \in DOMAIN idx |-> BiasRows(c)[idx[k]]]
      BY <2>1 DEF BiasRows
    <2> QED  BY <2>2, <2>3, <2>4 DEF Strides, idx
  <1>4. Body(c, 0, 1) = Strides(BiasRows(c), 0, 1, c.batch)
    BY <1>3
  <1>5. \A t \in 0 .. n - 1 : Body(c, t, n) = Strides(BiasRows(c), t, n, c.batch)
    BY <1>3
  <1> QED  BY <1>2, <1>4, <1>5, RoundsShare

(* The block of lrn, each value of which is made from the block of in.     *)
LrnBlock(c, i) ==
  For(Cells(c.out, i * 2 * c.width, 2 * c.width),
      LAMBDA cell : <<Set(cell, "lrn", <<<<c.in, cell[2]>>>>
                             \o Cells(c.in, i * 2 * c.width, 2 * c.width))>>)
LrnBlocks(c) == [i \in 0 .. c.size \div (2 * c.width) - 1 |-> LrnBlock(c, i)]

LEMMA LrnShares ==
  ASSUME NEW c, c.kernel = "lrn", c.size \in Nat, c.width \in Nat \ {0},
         c.in \in Tensors, c.out \in Tensors,
         NEW n \in Nat \ {0}
  PROVE  Shares(c, n)
  <1> DEFINE wide == 2 * c.width
             size == c.size \div (2 * c.width)
  <1>0. wide \in Nat \ {0} /\ size \in Nat
    OBVIOUS
  <1>1. ASSUME NEW i \in 0 .. size - 1
        PROVE  LrnBlock(c, i) \in Seq(RowTasks(c.out, i, wide))
    <2> DEFINE T == RowTasks(c.out, i, wide)
               R == RowCells(c.out, i, wide)
               first == i * 2 * c.width
               block == Cells(c.in, first, wide)
               parts == [k \in 1 .. wide |->
                           <<Set(<<c.out, first + k - 1>>, "lrn",
                                 <<<<c.in, first + k - 1>>>> \o block)>>]
    <2>0. /\ i \in Nat /\ first = i * wide /\ first \in Nat
          /\ Row(i, wide) = first .. first + wide - 1
      <3>1. i \in Nat
        BY <1>0
      <3>2. i * 2 * c.width = i * (2 * c.width) /\ i * 2 * c.width \in Nat
        BY <3>1
      <3> QED  BY <3>1, <3>2 DEF Row
    <2> HIDE DEF wide, size
    <2>1. LrnBlock(c, i) = Joined(parts, wide)
      <3> DEFINE every == Cells(c.out, first, wide)
      <3>1. DOMAIN every = 1 .. wide /\ Len(every) = wide
            /\ \A k \in 1 .. wide : every[k] = <<c.out, first + k - 1>>
        BY <1>0 DEF Cells
      <3>2. LrnBlock(c, i)
              = Joined([k \in DOMAIN every |->
                          <<Set(every[k], "lrn", <<<<c.in, every[k][2]>>>> \o block)>>],
                       Len(every))
        BY DEF LrnBlock, For, wide
      <3> HIDE DEF every, block, first
      <3>3. \A k \in 1 .. wide : every[k][2] = first + k - 1
        BY <3>1
      <3> QED  BY <3>1, <3>2, <3>3
    <2> HIDE DEF first
    <2>2. block \in Seq(R)
      BY <1>0, <2>0, CellsInRow
    <2>3. ASSUME NEW k \in 1 .. wide PROVE parts[k] \in Seq(T)
      <3> DEFINE x == first + k - 1
                 reads == <<<<c.in, x>>>> \o block
      <3>1. x \in Row(i, wide) /\ x \in Int
        BY <1>0, <2>0
      <3>2. parts[k] = <<Set(<<c.out, x>>, "lrn", reads)>>
        OBVIOUS
      <3> HIDE DEF x
      <3>3. <<<<c.in, x>>>> \in Seq(R)
        BY <1>0, <2>0, <3>1, CellInRow
      <3>4. reads \in Seq(R)
        <4> DEFINE own == <<<<c.in, x>>>>
        <4>1. own \in Seq(R)
          BY <3>3
        <4> HIDE DEF R, own, block
        <4>2. own \o block \in Seq(R)
          BY <2>2, <4>1
        <4> QED  BY <4>2 DEF own
      <3>5. "lrn" \in Operations
        BY DEF Operations
      <3> HIDE DEF reads, parts
      <3> QED  BY <1>0, <2>0, <3>1, <3>2, <3>4, <3>5, SetInRow
    <2> HIDE DEF parts, T
    <2>4. Joined(parts, wide) \in Seq(T)
      BY <1>0, <2>3, JoinedType
    <2> QED  BY <2>1, <2>4 DEF T
  <1>2. AreRounds(LrnBlocks(c), size)
    <2>1. \A i \in 0 .. size - 1 : LrnBlocks(c)[i] \in Seq(RowTasks(c.out, i, wide))
      BY <1>1 DEF LrnBlocks
    <2> HIDE DEF size, wide
    <2> QED  BY <1>0, <2>1, RowsAreRounds
  <1>3. ASSUME NEW t \in Nat, NEW m \in Nat \ {0}
        PROVE  Body(c, t, m) = Strides(LrnBlocks(c), t, m, size)
    <2> DEFINE idx == Strided(t, m, size)
    <2>1. \A k \in DOMAIN idx : idx[k] \in 0 .. size - 1
      <3> HIDE DEF size
      <3> QED  BY <1>0, StridedInside
    <2>2. Body(c, t, m) = lrn(c, t, m)
      BY TasksOfRounds
    <2>3. lrn(c, t, m) = Joined([k \in DOMAIN idx |-> LrnBlock(c, idx[k])], Len(idx))
      BY DEF lrn, For, LrnBlock
    <2> HIDE DEF idx
    <2>4. [k \in DOMAIN idx |-> LrnBlock(c, idx[k])] = [k \in DOMAIN idx |-> LrnBlocks(c)[idx[k]]]
      BY <2>1 DEF LrnBlocks
    <2> QED  BY <2>2, <2>3, <2>4 DEF Strides, idx
  <1> HIDE DEF size
  <1>4. Body(c, 0, 1) = Strides(LrnBlocks(c), 0, 1, size)
    BY <1>3
  <1>5. \A t \in 0 .. n - 1 : Body(c, t, n) = Strides(LrnBlocks(c), t, n, size)
    BY <1>3
  <1> QED  BY <1>2, <1>4, <1>5, RoundsShare

(* The row of softmax: two loops, the second over what the first wrote.    *)
Exps(c, b) ==
  For([k \in 1 .. c.size |-> b * c.size + k - 1],
      LAMBDA i : <<Set(<<c.out, i>>, "exp", <<<<c.in, 0>>>> \o Cells(c.in, b * c.size, c.size))>>)
Quotients(c, b) ==
  For([k \in 1 .. c.size |-> b * c.size + k - 1],
      LAMBDA i : <<Set(<<c.out, i>>, "divide", <<<<c.out, i>>>>)>>)
SoftmaxRow(c, b) == Exps(c, b) \o Quotients(c, b)
SoftmaxRows(c) == [b \in 0 .. c.batch - 1 |-> SoftmaxRow(c, b)]

LEMMA SoftmaxRounds ==
  ASSUME NEW c, c.batch \in Nat, c.size \in Nat,
         c.in \in Tensors, c.out \in Tensors, c.in # c.out,
         NEW b \in 0 .. c.batch - 1
  PROVE  SoftmaxRow(c, b) \in Seq(RowTasks(c.out, b, c.size))
  <1> DEFINE T == RowTasks(c.out, b, c.size)
             R == RowCells(c.out, b, c.size)
             first == b * c.size
             all == Cells(c.in, first, c.size)
             reads == <<<<c.in, 0>>>> \o all
             every == [k \in 1 .. c.size |-> first + k - 1]
             exps == [k \in 1 .. c.size |-> <<Set(<<c.out, first + k - 1>>, "exp", reads)>>]
             parts == [k \in 1 .. c.size |->
                         <<Set(<<c.out, first + k - 1>>, "divide", <<<<c.out, first + k - 1>>>>)>>]
  <1>1. b \in Int /\ first \in Int /\ Row(b, c.size) = first .. first + c.size - 1
    BY DEF Row
  <1>2. DOMAIN every = 1 .. c.size /\ Len(every) = c.size
        /\ \A k \in 1 .. c.size : every[k] = first + k - 1
    OBVIOUS
  <1>3. Exps(c, b) = Joined(exps, c.size)
    <2>1. Exps(c, b) = Joined([k \in DOMAIN every |-> <<Set(<<c.out, every[k]>>, "exp", reads)>>],
                              Len(every))
      BY DEF Exps, For
    <2> HIDE DEF every, reads, first
    <2> QED  BY <1>2, <2>1
  <1>4. Quotients(c, b) = Joined(parts, c.size)
    <2>1. Quotients(c, b) = Joined([k \in DOMAIN every |->
                                  <<Set(<<c.out, every[k]>>, "divide", <<<<c.out, every[k]>>>>)>>],
                               Len(every))
      BY DEF Quotients, For
    <2> HIDE DEF every, first
    <2> QED  BY <1>2, <2>1
  <1> HIDE DEF every, first
  <1>5. reads \in Seq(R)
    <2>1. all \in Seq(R)
      BY <1>1, CellsInRow
    <2>2. <<<<c.in, 0>>>> \in Seq(R)
      <3>1. 0 \in Int
        OBVIOUS
      <3> QED  BY <1>1, <3>1, CellInRow
    <2> HIDE DEF all, R
    <2> QED  BY <2>1, <2>2
  <1> HIDE DEF reads
  <1>6. ASSUME NEW k \in 1 .. c.size PROVE exps[k] \in Seq(T) /\ parts[k] \in Seq(T)
    <2> DEFINE x == first + k - 1
               own == <<<<c.out, x>>>>
    <2>1. x \in Row(b, c.size) /\ x \in Int
      BY <1>1
    <2>2. exps[k] = <<Set(<<c.out, x>>, "exp", reads)>>
      OBVIOUS
    <2>3. parts[k] = <<Set(<<c.out, x>>, "divide", own)>>
      OBVIOUS
    <2> HIDE DEF x
    <2>4. own \in Seq(R)
      BY <1>1, <2>1, CellInRow
    <2>5. "exp" \in Operations /\ "divide" \in Operations
      BY DEF Operations
    <2> HIDE DEF own, exps, parts
    <2>6. exps[k] \in Seq(T)
      BY <1>1, <1>5, <2>1, <2>2, <2>5, SetInRow, SMTT(30)
    <2>7. parts[k] \in Seq(T)
      BY <1>1, <2>1, <2>3, <2>4, <2>5, SetInRow, SMTT(30)
    <2> QED  BY <2>6, <2>7
  <1> HIDE DEF exps, parts, T
  <1>7. Joined(exps, c.size) \in Seq(T)
    BY <1>6, JoinedType
  <1>8. Joined(parts, c.size) \in Seq(T)
    BY <1>6, JoinedType
  <1> QED
    <2> DEFINE a == Joined(exps, c.size)
               d == Joined(parts, c.size)
    <2>1. SoftmaxRow(c, b) = a \o d
      BY <1>3, <1>4 DEF SoftmaxRow
    <2>2. a \in Seq(T) /\ d \in Seq(T)
      BY <1>7, <1>8
    <2> HIDE DEF a, d
    <2>3. a \o d \in Seq(T)
      BY <2>2
    <2> QED  BY <2>1, <2>3 DEF T

LEMMA SoftmaxShares ==
  ASSUME NEW c, c.kernel = "softmax", c.batch \in Nat, c.size \in Nat,
         c.in \in Tensors, c.out \in Tensors, c.in # c.out,
         NEW n \in Nat \ {0}
  PROVE  Shares(c, n)
  <1>1. AreRounds(SoftmaxRows(c), c.batch)
    <2>1. \A b \in 0 .. c.batch - 1 : SoftmaxRows(c)[b] \in Seq(RowTasks(c.out, b, c.size))
      BY SoftmaxRounds DEF SoftmaxRows
    <2> QED  BY <2>1, RowsAreRounds
  <1>2. ASSUME NEW t \in Nat, NEW m \in Nat \ {0}
        PROVE  Body(c, t, m) = Strides(SoftmaxRows(c), t, m, c.batch)
    <2> DEFINE idx == Strided(t, m, c.batch)
    <2>1. \A k \in DOMAIN idx : idx[k] \in 0 .. c.batch - 1
      BY StridedInside
    <2>2. Body(c, t, m) = softmax(c, t, m)
      BY TasksOfRounds
    <2>3. softmax(c, t, m) = Joined([k \in DOMAIN idx |-> SoftmaxRow(c, idx[k])], Len(idx))
      BY DEF softmax, For, SoftmaxRow, Exps, Quotients
    <2> HIDE DEF idx
    <2>4. [k \in DOMAIN idx |-> SoftmaxRow(c, idx[k])] = [k \in DOMAIN idx |-> SoftmaxRows(c)[idx[k]]]
      BY <2>1 DEF SoftmaxRows
    <2> QED  BY <2>2, <2>3, <2>4 DEF Strides, idx
  <1>3. Body(c, 0, 1) = Strides(SoftmaxRows(c), 0, 1, c.batch)
    BY <1>2
  <1>4. \A t \in 0 .. n - 1 : Body(c, t, n) = Strides(SoftmaxRows(c), t, n, c.batch)
    BY <1>2
  <1> QED  BY <1>1, <1>3, <1>4, RoundsShare

(* sdp is one of the loops over elements, or nothing.                      *)
Modes == <<"add", "sub", "mul", "div", "scalar_add", "scalar_sub",
           "scalar_mul", "scalar_div", "relu">>
InMode(c) == [c EXCEPT !.kernel = Modes[c.mode + 1]]

LEMMA ModeKernel ==
  ASSUME NEW c \in Calls, c.mode \in 0 .. 8
  PROVE  /\ InMode(c).kernel = Modes[c.mode + 1]
         /\ InMode(c).kernel \in Elementwise
         /\ InMode(c).kernel \in ScalarOps => c.mode \in 4 .. 7
         /\ InMode(c).size = c.size /\ InMode(c).in = c.in
         /\ InMode(c).w = c.w /\ InMode(c).out = c.out
  <1>1. InMode(c).kernel = Modes[c.mode + 1]
    BY DEF InMode, Calls
  <1>2. /\ InMode(c).size = c.size /\ InMode(c).in = c.in
        /\ InMode(c).w = c.w /\ InMode(c).out = c.out
    BY DEF InMode, Calls
  <1>3. \A k \in 1 .. 9 : Modes[k] \in TensorOps \cup ScalarOps \cup {"relu"}
    BY DEF Modes, TensorOps, ScalarOps
  <1>4. \A k \in 1 .. 9 : Modes[k] \in ScalarOps => k \in 5 .. 8
    BY DEF Modes, ScalarOps
  <1>5. TensorOps \cup ScalarOps \cup {"relu"} \subseteq Elementwise
    BY DEF Elementwise, OfOne, OfTwo, Activations
  <1>6. c.mode \in Int /\ c.mode + 1 \in 1 .. 9
    OBVIOUS
  <1>7. Modes[c.mode + 1] \in Elementwise
    BY <1>3, <1>5, <1>6
  <1>8. Modes[c.mode + 1] \in ScalarOps => c.mode \in 4 .. 7
    <2> DEFINE k == c.mode + 1
    <2>1. k \in 1 .. 9 /\ (k \in 5 .. 8 => c.mode \in 4 .. 7)
      BY <1>6
    <2> HIDE DEF k
    <2>2. Modes[k] \in ScalarOps => k \in 5 .. 8
      BY <1>4, <2>1
    <2> QED  BY <2>1, <2>2 DEF k
  <1> QED  BY <1>1, <1>2, <1>7, <1>8

LEMMA SdpShares ==
  ASSUME NEW c \in Calls, c.kernel = "sdp", c.mode \in 4 .. 7 => c.w # c.out,
         NEW n \in Nat \ {0}
  PROVE  Shares(c, n)
  <1>1. c.size \in Nat /\ c.in \in Tensors /\ c.w \in Tensors /\ c.out \in Tensors
    BY DEF Calls
  <1>2. CASE c.mode \in 0 .. 8
    <2> DEFINE d == InMode(c)
    <2>1. /\ d.kernel \in Elementwise /\ d.size \in Nat /\ d.in \in Tensors /\ d.w \in Tensors
          /\ d.out \in Tensors /\ (d.kernel \in ScalarOps => d.w # d.out) /\ d.size = c.size
      BY <1>1, <1>2, ModeKernel
    <2>2. ASSUME NEW t \in Nat, NEW m \in Nat \ {0}
          PROVE  Body(c, t, m) = Strides(Elements(d), t, m, d.size)
      <3>1. Body(c, t, m) = sdp(c, t, m)
        BY TasksOfRounds
      <3>2. sdp(c, t, m) = elementwise(d, t, m)
        BY <1>2 DEF sdp, InMode, Modes
      <3> HIDE DEF d
      <3> QED  BY <2>1, <3>1, <3>2, ElementwiseIs
    <2> HIDE DEF d
    <2>3. AreRounds(Elements(d), d.size)
      BY <2>1, ElementsAreRounds
    <2>4. Body(c, 0, 1) = Strides(Elements(d), 0, 1, d.size)
      BY <2>2
    <2>5. \A t \in 0 .. n - 1 : Body(c, t, n) = Strides(Elements(d), t, n, d.size)
      BY <2>2
    <2> QED  BY <2>3, <2>4, <2>5, RoundsShare
  <1>3. CASE c.mode \notin 0 .. 8
    <2> DEFINE none == [i \in {} |-> <<>>]
               size == c.size - c.size
    <2>1. size = 0 /\ size \in Nat
      BY <1>1
    <2>2. ASSUME NEW t \in Nat, NEW m \in Nat \ {0}
          PROVE  Body(c, t, m) = Strides(none, t, m, size)
      <3>1. Body(c, t, m) = sdp(c, t, m)
        BY TasksOfRounds
      <3>2. sdp(c, t, m) = <<>>
        BY <1>3 DEF sdp
      <3>3. Strided(t, m, size) = <<>> /\ Len(Strided(t, m, size)) = 0
        <4>1. ~ (t < size)
          BY <2>1
        <4>2. Strided(t, m, size) = [k \in 1 .. 0 |-> t + (k - 1) * m]
          BY <4>1 DEF Strided
        <4> QED  BY <4>2
      <3>4. Strides(none, t, m, size) = <<>>
        BY <3>3, JoinedUnfolds DEF Strides
      <3> QED  BY <3>1, <3>2, <3>4
    <2>3. AreRounds(none, size)
      BY <2>1 DEF AreRounds, Independent
    <2> HIDE DEF none, size
    <2>4. Body(c, 0, 1) = Strides(none, 0, 1, size)
      BY <2>2
    <2>5. \A t \in 0 .. n - 1 : Body(c, t, n) = Strides(none, t, n, size)
      BY <2>2
    <2> QED  BY <2>3, <2>4, <2>5, RoundsShare
  <1> QED  BY <1>2, <1>3

-----------------------------------------------------------------------------
(* Loops around the one that is shared. *)

LEMMA TasksOnSame ==
  ASSUME NEW T, NEW s \in Seq(T), NEW A, NEW B,
         \A i \in DOMAIN s : s[i].cell \in A <=> s[i].cell \in B
  PROVE  TasksOn(s, A) = TasksOn(s, B)
  <1>1. [k \in DOMAIN s |-> IF s[k].cell \in A THEN <<s[k]>> ELSE <<>>]
          = [k \in DOMAIN s |-> IF s[k].cell \in B THEN <<s[k]>> ELSE <<>>]
    OBVIOUS
  <1> QED  BY <1>1 DEF TasksOn

LEMMA TasksOnType ==
  ASSUME NEW T, NEW s \in Seq(T), NEW A
  PROVE  TasksOn(s, A) \in Seq(T)
  <1> DEFINE some == [k \in DOMAIN s |-> IF s[k].cell \in A THEN <<s[k]>> ELSE <<>>]
             n == Len(s)
  <1>1. n \in Nat /\ \A k \in 1 .. n : some[k] \in Seq(T)
    <2>1. \A k \in 1 .. n : k \in DOMAIN s /\ s[k] \in T
      OBVIOUS
    <2> QED  BY <2>1
  <1>2. TasksOn(s, A) = Joined(some, n)
    BY DEF TasksOn
  <1> HIDE DEF some, n
  <1> QED  BY <1>1, <1>2, JoinedType

LEMMA TasksOnJoined ==
  ASSUME NEW T, NEW parts, NEW n \in Nat, \A k \in 1 .. n : parts[k] \in Seq(T), NEW cells
  PROVE  TasksOn(Joined(parts, n), cells)
           = Joined([k \in 1 .. n |-> TasksOn(parts[k], cells)], n)
  <1> DEFINE some == [k \in 1 .. n |-> TasksOn(parts[k], cells)]
             S == {j \in Nat : j <= n => TasksOn(Joined(parts, j), cells) = Joined(some, j)}
  <1>1. \A k \in 1 .. n : some[k] = TasksOn(parts[k], cells)
    OBVIOUS
  <1> HIDE DEF some
  <1>2. 0 \in S
    <2>1. Joined(parts, 0) = <<>> /\ Joined(some, 0) = <<>>
      BY JoinedUnfolds
    <2>2. <<>> \in Seq(T) /\ DOMAIN <<>> = {}
      OBVIOUS
    <2>3. TasksOn(<<>>, cells) = <<>>
      BY <2>2, SomeOfTasks
    <2> QED  BY <2>1, <2>3
  <1>3. ASSUME NEW j \in S PROVE j + 1 \in S
    <2> SUFFICES ASSUME j + 1 <= n
                 PROVE  TasksOn(Joined(parts, j + 1), cells) = Joined(some, j + 1)
      OBVIOUS
    <2>1. /\ j \in Nat /\ j + 1 \in 1 .. n /\ (\A k \in 1 .. j : k \in 1 .. n)
          /\ TasksOn(Joined(parts, j), cells) = Joined(some, j)
      OBVIOUS
    <2> HIDE DEF S
    <2> DEFINE a == Joined(parts, j)
               b == parts[j + 1]
    <2>2. Joined(parts, j + 1) = a \o b /\ Joined(some, j + 1) = Joined(some, j) \o some[j + 1]
      BY <2>1, JoinedUnfolds
    <2>3. a \in Seq(T) /\ b \in Seq(T)
      BY <2>1, JoinedType
    <2>4. some[j + 1] = TasksOn(b, cells)
      BY <1>1, <2>1
    <2> HIDE DEF a, b
    <2>5. TasksOn(a \o b, cells) = TasksOn(a, cells) \o TasksOn(b, cells)
      BY <2>3, TasksOnConcat
    <2> QED  BY <2>1, <2>2, <2>4, <2>5 DEF a
  <1>4. n \in S
    <2>1. S \in SUBSET Nat
      OBVIOUS
    <2> HIDE DEF S
    <2> QED  BY <1>2, <1>3, <2>1, SetInduction
  <1> QED  BY <1>4 DEF some

LEMMA JoinedTasks ==
  ASSUME NEW parts, NEW n \in Nat, \A k \in 1 .. n : parts[k] \in Seq(TensorTasks)
  PROVE  /\ Joined(parts, n) \in Seq(TensorTasks)
         /\ Gathers(Joined(parts, n), parts, n)
         /\ \A cells : TasksOn(Joined(parts, n), cells)
                         = Joined([k \in 1 .. n |-> TasksOn(parts[k], cells)], n)
  <1>1. Joined(parts, n) \in Seq(TensorTasks)
    BY JoinedType
  <1>2. Gathers(Joined(parts, n), parts, n)
    BY JoinedElements
  <1>3. \A cells : TasksOn(Joined(parts, n), cells)
                    = Joined([k \in 1 .. n |-> TasksOn(parts[k], cells)], n)
    BY TasksOnJoined, SMTT(30)
  <1> QED  BY <1>1, <1>2, <1>3

(* The part of a thread in all rounds of the loop around.                  *)
PartsOf(parts, n, count) ==
  [t \in 0 .. n - 1 |-> Joined([b \in 1 .. count |-> parts[b][t]], count)]

LEMMA JoinedShares ==
  ASSUME NEW count \in Nat, NEW n \in Nat \ {0}, NEW wide \in Nat, NEW out,
         NEW wholes, NEW parts,
         \A b \in 1 .. count : SharedOut(wholes[b], parts[b], n),
         \A b \in 1 .. count : wholes[b] \in Seq(RowTasks(out, b - 1, wide))
  PROVE  SharedOut(Joined(wholes, count), PartsOf(parts, n, count), n)
  <1> DEFINE mine(t) == [b \in 1 .. count |-> parts[b][t]]
             part(t) == Joined(mine(t), count)
             whole == Joined(wholes, count)
             R(b) == RowTasks(out, b - 1, wide)
  <1>1. \A t \in 0 .. n - 1 : PartsOf(parts, n, count)[t] = part(t)
    BY DEF PartsOf
  <1>2. \A t \in 0 .. n - 1 : \A b \in 1 .. count : mine(t)[b] = parts[b][t]
    OBVIOUS
  <1>3. ASSUME NEW b \in 1 .. count
        PROVE  /\ wholes[b] \in Seq(TensorTasks)
               /\ \A a \in DOMAIN wholes[b] : wholes[b][a] \in R(b)
    BY RowsAre
  <1>4. ASSUME NEW t \in 0 .. n - 1, NEW b \in 1 .. count
        PROVE  /\ parts[b][t] \in Seq(TensorTasks)
               /\ \A a \in DOMAIN parts[b][t] : parts[b][t][a] \in R(b)
               /\ parts[b][t] = TasksOn(wholes[b], Written(parts[b][t]))
               /\ Touched(parts[b][t]) \cap Written(wholes[b]) \subseteq Written(parts[b][t])
    <2>1. PartOf(wholes[b], parts[b][t])
      BY DEF SharedOut
    <2>2. parts[b][t] \in Seq(RowTasks(out, b - 1, wide))
      <3> DEFINE T == RowTasks(out, b - 1, wide)
                 w == wholes[b]
                 cells == Written(parts[b][t])
      <3>1. w \in Seq(T) /\ parts[b][t] = TasksOn(w, cells)
        BY <2>1 DEF PartOf
      <3> HIDE DEF T, w, cells
      <3>2. TasksOn(w, cells) \in Seq(T)
        BY <3>1, TasksOnType
      <3> QED  BY <3>1, <3>2 DEF T
    <2> QED  BY <2>1, <2>2, RowsAre DEF PartOf
  <1>5. ASSUME NEW b \in 1 .. count, NEW d \in 1 .. count, NEW x \in R(b), NEW y \in R(d),
               x.cell = y.cell \/ \E k \in DOMAIN y.reads : y.reads[k] = x.cell
        PROVE  b = d
    <2> SUFFICES ASSUME b # d PROVE FALSE
      OBVIOUS
    <2>1. b - 1 \in Nat /\ d - 1 \in Nat /\ b - 1 # d - 1
      OBVIOUS
    <2> QED  BY <1>5, <2>1, RowsApart
  <1>6. /\ whole \in Seq(TensorTasks)
        /\ \A x \in DOMAIN whole : \E b \in 1 .. count :
             \E a \in DOMAIN wholes[b] : whole[x] = wholes[b][a]
    <2>1. whole \in Seq(TensorTasks) /\ Gathers(whole, wholes, count)
      BY <1>3, JoinedTasks
    <2> QED  BY <2>1 DEF Gathers
  <1> HIDE DEF mine, R
  <1>7. ASSUME NEW t \in 0 .. n - 1
        PROVE  /\ part(t) \in Seq(TensorTasks)
               /\ \A x \in DOMAIN part(t) : \E b \in 1 .. count :
                    \E a \in DOMAIN parts[b][t] : part(t)[x] = parts[b][t][a]
               /\ \A b \in 1 .. count : \A a \in DOMAIN parts[b][t] :
                    \E x \in DOMAIN part(t) : part(t)[x] = parts[b][t][a]
    <2>1. \A b \in 1 .. count : mine(t)[b] \in Seq(TensorTasks) /\ mine(t)[b] = parts[b][t]
      BY <1>2, <1>4
    <2> DEFINE m == mine(t)
    <2> HIDE DEF m
    <2>2. \A b \in 1 .. count : m[b] \in Seq(TensorTasks) /\ m[b] = parts[b][t]
      BY <2>1 DEF m
    <2>2a. \A b \in 1 .. count : m[b] \in Seq(TensorTasks)
      BY <2>2
    <2>3. Joined(m, count) \in Seq(TensorTasks) /\ Gathers(Joined(m, count), m, count)
      BY <2>2a, JoinedTasks
    <2>6. part(t) = Joined(m, count)
      BY DEF m
    <2> HIDE DEF part
    <2> DEFINE s == Joined(m, count)
    <2> HIDE DEF s
    <2>7. s \in Seq(TensorTasks) /\ Gathers(s, m, count)
      BY <2>3 DEF s
    <2>8. \A x \in DOMAIN s : \E b \in 1 .. count : \E a \in DOMAIN parts[b][t] : s[x] = parts[b][t][a]
      <3> SUFFICES ASSUME NEW x \in DOMAIN s
                   PROVE  \E b \in 1 .. count : \E a \in DOMAIN parts[b][t] : s[x] = parts[b][t][a]
        OBVIOUS
      <3>1. PICK b \in 1 .. count : \E a \in DOMAIN m[b] : s[x] = m[b][a]
        BY <2>7 DEF Gathers
      <3>2. m[b] = parts[b][t]
        BY <2>2
      <3> QED  BY <3>1, <3>2
    <2>9. \A b \in 1 .. count : \A a \in DOMAIN parts[b][t] : \E x \in DOMAIN s : s[x] = parts[b][t][a]
      <3> SUFFICES ASSUME NEW b \in 1 .. count, NEW a \in DOMAIN parts[b][t]
                   PROVE  \E x \in DOMAIN s : s[x] = parts[b][t][a]
        OBVIOUS
      <3>1. m[b] = parts[b][t]
        BY <2>2
      <3> QED  BY <2>7, <3>1 DEF Gathers
    <2> QED  BY <2>6, <2>7, <2>8, <2>9 DEF s
  <1> HIDE DEF part, whole
  <1>a. \A t \in 0 .. n - 1 : \A b \in 1 .. count : Written(parts[b][t]) \subseteq Written(part(t))
    BY <1>7 DEF Written
  (* What a thread writes in a round is what it writes of the round.       *)
  <1>8. ASSUME NEW t \in 0 .. n - 1, NEW b \in 1 .. count, NEW i \in DOMAIN wholes[b]
        PROVE  wholes[b][i].cell \in Written(part(t)) <=> wholes[b][i].cell \in Written(parts[b][t])
    <2>1. ASSUME NEW x \in DOMAIN part(t), wholes[b][i].cell = part(t)[x].cell
          PROVE  wholes[b][i].cell \in Written(parts[b][t])
      <3>1. PICK d \in 1 .. count : \E a \in DOMAIN parts[d][t] : part(t)[x] = parts[d][t][a]
        BY <1>7
      <3>2. part(t)[x] \in R(d) /\ wholes[b][i] \in R(b)
        BY <1>3, <1>4, <3>1
      <3>3. d = b
        BY <1>5, <2>1, <3>2
      <3> QED  BY <2>1, <3>1, <3>3 DEF Written
    <2>2. \A a \in DOMAIN parts[b][t] : parts[b][t][a].cell \in Written(part(t))
      BY <1>a DEF Written
    <2> QED  BY <2>1, <2>2 DEF Written
  <1>9. ASSUME NEW t \in 0 .. n - 1 PROVE part(t) = TasksOn(whole, Written(part(t)))
    <2> DEFINE cells == Written(part(t))
               some == [b \in 1 .. count |-> TasksOn(wholes[b], cells)]
               m == mine(t)
    <2>1. \A b \in 1 .. count : TasksOn(wholes[b], cells) = parts[b][t]
      <3> SUFFICES ASSUME NEW b \in 1 .. count PROVE TasksOn(wholes[b], cells) = parts[b][t]
        OBVIOUS
      <3>1. TasksOn(wholes[b], cells) = TasksOn(wholes[b], Written(parts[b][t]))
        <4> DEFINE w == wholes[b]
                   own == Written(parts[b][t])
        <4>1. w \in Seq(TensorTasks) /\ \A i \in DOMAIN w : w[i].cell \in cells <=> w[i].cell \in own
          BY <1>3, <1>8
        <4> HIDE DEF w, own, cells
        <4>2. TasksOn(w, cells) = TasksOn(w, own)
          BY <4>1, TasksOnSame
        <4> QED  BY <4>2 DEF w, own
      <3> QED  BY <1>4, <3>1
    <2> HIDE DEF cells
    <2>2. \A b \in 1 .. count : some[b] = m[b]
      BY <1>2, <2>1
    <2>3. TasksOn(whole, cells) = Joined(some, count)
      BY <1>3, JoinedTasks DEF whole
    <2> HIDE DEF some, m
    <2>4. Joined(some, count) = Joined(m, count)
      BY <2>2, JoinedSame
    <2> QED  BY <2>3, <2>4 DEF cells, m, part
  <1>10. ASSUME NEW t \in 0 .. n - 1
         PROVE  Touched(part(t)) \cap Written(whole) \subseteq Written(part(t))
    <2> SUFFICES ASSUME NEW cell \in Touched(part(t)), cell \in Written(whole)
                 PROVE  cell \in Written(part(t))
      OBVIOUS
    <2>1. PICK x \in DOMAIN part(t) :
            cell = part(t)[x].cell \/ \E m \in DOMAIN part(t)[x].reads : cell = part(t)[x].reads[m]
      BY DEF Touched
    <2>2. PICK b \in 1 .. count : \E a \in DOMAIN parts[b][t] : part(t)[x] = parts[b][t][a]
      BY <1>7
    <2>3. PICK y \in DOMAIN whole : cell = whole[y].cell
      BY DEF Written
    <2>4. PICK d \in 1 .. count : \E a \in DOMAIN wholes[d] : whole[y] = wholes[d][a]
      BY <1>6
    <2>5. d = b
      <3>1. part(t)[x] \in R(b) /\ whole[y] \in R(d)
        BY <1>3, <1>4, <2>2, <2>4
      <3> QED  BY <1>5, <2>1, <2>3, <3>1
    <2>6. cell \in Written(wholes[b])
      BY <2>3, <2>4, <2>5 DEF Written
    <2>7. cell \in Touched(parts[b][t])
      BY <2>1, <2>2 DEF Touched
    <2>8. cell \in Written(parts[b][t])
      BY <1>4, <2>6, <2>7
    <2> QED  BY <1>a, <2>8
  <1>11. ASSUME NEW cell \in Written(whole)
         PROVE  \E t \in 0 .. n - 1 : cell \in Written(part(t))
    <2>0. PICK y \in DOMAIN whole : cell = whole[y].cell
      BY DEF Written
    <2>1. PICK b \in 1 .. count : cell \in Written(wholes[b])
      <3>1. PICK b \in 1 .. count : \E a \in DOMAIN wholes[b] : whole[y] = wholes[b][a]
        BY <1>6
      <3> QED  BY <2>0, <3>1 DEF Written
    <2>2. PICK t \in 0 .. n - 1 : cell \in Written(parts[b][t])
      BY <2>1 DEF SharedOut
    <2> QED  BY <1>a, <2>2
  <1>12. ASSUME NEW t \in 0 .. n - 1, NEW u \in 0 .. n - 1, t # u,
                NEW i \in DOMAIN part(t), NEW j \in DOMAIN part(u)
         PROVE  /\ \A k \in DOMAIN part(u)[j].reads : part(u)[j].reads[k] # part(t)[i].cell
                /\ part(t)[i].cell = part(u)[j].cell =>
                     part(t)[i].op = part(u)[j].op /\ part(t)[i].reads = part(u)[j].reads
    <2>1. PICK b \in 1 .. count : \E a \in DOMAIN parts[b][t] : part(t)[i] = parts[b][t][a]
      BY <1>7
    <2>2. PICK d \in 1 .. count : \E a \in DOMAIN parts[d][u] : part(u)[j] = parts[d][u][a]
      BY <1>7
    <2>3. PICK a \in DOMAIN parts[b][t] : part(t)[i] = parts[b][t][a]
      BY <2>1
    <2>4. PICK e \in DOMAIN parts[d][u] : part(u)[j] = parts[d][u][e]
      BY <2>2
    <2>5. CASE b = d
      <3>1. TasksApart(parts[b], t, a, u, e)
        BY <1>12, <2>5 DEF SharedOut
      <3> QED  BY <2>3, <2>4, <2>5, <3>1 DEF TasksApart
    <2>6. CASE b # d
      <3>1. part(t)[i] \in R(b) /\ part(u)[j] \in R(d)
        BY <1>4, <2>3, <2>4
      <3> QED  BY <1>5, <2>6, <3>1
    <2> QED  BY <2>5, <2>6
  <1>13. \A t, u \in 0 .. n - 1 : t # u =>
           \A i \in DOMAIN PartsOf(parts, n, count)[t], j \in DOMAIN PartsOf(parts, n, count)[u] :
             TasksApart(PartsOf(parts, n, count), t, i, u, j)
    <2> DEFINE all == PartsOf(parts, n, count)
    <2> HIDE DEF all
    <2>1. \A t \in 0 .. n - 1 : all[t] = part(t)
      BY <1>1 DEF all
    <2>2. ASSUME NEW t \in 0 .. n - 1, NEW u \in 0 .. n - 1, t # u,
                 NEW i \in DOMAIN all[t], NEW j \in DOMAIN all[u]
          PROVE  TasksApart(all, t, i, u, j)
      <3>1. all[t] = part(t) /\ all[u] = part(u)
        BY <2>1
      <3>2. i \in DOMAIN part(t) /\ j \in DOMAIN part(u)
        BY <3>1
      <3>3. /\ \A k \in DOMAIN part(u)[j].reads : part(u)[j].reads[k] # part(t)[i].cell
            /\ part(t)[i].cell = part(u)[j].cell =>
                 part(t)[i].op = part(u)[j].op /\ part(t)[i].reads = part(u)[j].reads
        BY <1>12, <2>2, <3>2
      <3> QED  BY <3>1, <3>3 DEF TasksApart
    <2> QED  BY <2>2 DEF all
  <1>14. \A t \in 0 .. n - 1 : PartOf(whole, part(t))
    BY <1>7, <1>9, <1>10 DEF PartOf
  <1>15. SharedOut(whole, PartsOf(parts, n, count), n)
    BY <1>1, <1>6, <1>11, <1>13, <1>14 DEF SharedOut
  <1> QED  BY <1>15 DEF whole

(* A row of a plane is in the plane.                                       *)
LEMMA RowInPlane ==
  ASSUME NEW out, NEW b \in Nat, NEW rows \in Nat, NEW k \in 0 .. rows - 1, NEW width \in Nat
  PROVE  /\ b * rows + k \in Nat
         /\ RowTasks(out, b * rows + k, width) \subseteq RowTasks(out, b, rows * width)
  <1> DEFINE i == b * rows + k
             wide == rows * width
  <1>1. i \in Nat /\ wide \in Nat /\ b * rows \in Nat
    OBVIOUS
  <1>2. ASSUME NEW x \in Row(i, width) PROVE x \in Row(b, wide)
    <2>1. i * width = b * wide + k * width
      <3>1. i * width = (b * rows) * width + k * width
        BY <1>1
      <3>2. (b * rows) * width = b * (rows * width)
        OBVIOUS
      <3> QED  BY <3>1, <3>2
    <2>2. width \in Nat \ {0}
      <3> SUFFICES ASSUME width = 0 PROVE FALSE
        OBVIOUS
      <3>1. i * width = 0
        BY <1>1
      <3> QED  BY <3>1 DEF Row
    <2>3. k * width \in Nat /\ k * width + width <= rows * width /\ b * wide \in Nat
      <3>1. k \in Nat /\ k < rows
        OBVIOUS
      <3>2. k * width \in Nat /\ k * width + width <= rows * width
        BY <2>2, <3>1, Multiples
      <3>3. b * wide \in Nat
        BY <1>1
      <3> QED  BY <3>2, <3>3
    <2> DEFINE low == i * width
               from == b * wide
               at == k * width
    <2>4. x \in low .. low + width - 1
      BY DEF Row
    <2> HIDE DEF low, from, at, wide, i
    <2>5. low = from + at /\ at \in Nat /\ at + width <= wide /\ from \in Nat
      BY <2>1, <2>3 DEF low, from, at, wide
    <2>6. x \in from .. from + wide - 1
      BY <1>1, <2>4, <2>5
    <2> QED  BY <2>6 DEF Row, from
  <1> HIDE DEF i, wide
  <1>3. RowCells(out, i, width) \subseteq RowCells(out, b, wide)
    BY <1>2 DEF RowCells
  <1>4. ASSUME NEW s \in Seq(RowCells(out, i, width)) PROVE s \in Seq(RowCells(out, b, wide))
    <2> DEFINE A == RowCells(out, i, width)
               B == RowCells(out, b, wide)
    <2>1. s \in Seq(A) /\ A \subseteq B
      BY <1>3
    <2> HIDE DEF A, B
    <2>2. s \in Seq(B)
      BY <2>1
    <2> QED  BY <2>2 DEF B
  <1>5. RowTasks(out, i, width) \subseteq RowTasks(out, b, wide)
    BY <1>2, <1>4 DEF RowTasks
  <1> QED  BY <1>1, <1>5 DEF i, wide

LEMMA PlaneRounds ==
  ASSUME NEW size \in Nat, NEW width \in Nat, NEW rounds, NEW out, NEW b \in Nat,
         \A k \in 0 .. size - 1 : rounds[k] \in Seq(RowTasks(out, b * size + k, width))
  PROVE  /\ AreRounds(rounds, size)
         /\ Strides(rounds, 0, 1, size) \in Seq(RowTasks(out, b, size * width))
  <1>1. \A k \in 0 .. size - 1 :
          /\ b * size + k \in Nat
          /\ rounds[k] \in Seq(TensorTasks)
          /\ \A a \in DOMAIN rounds[k] : rounds[k][a] \in RowTasks(out, b * size + k, width)
    BY RowsAre, RowInPlane
  <1>2. Independent(rounds, size)
    <2> SUFFICES ASSUME NEW i \in 0 .. size - 1, NEW j \in 0 .. size - 1, i # j,
                        NEW a \in DOMAIN rounds[i], NEW e \in DOMAIN rounds[j]
                 PROVE  /\ rounds[i][a].cell # rounds[j][e].cell
                        /\ \A k \in DOMAIN rounds[j][e].reads :
                             rounds[j][e].reads[k] # rounds[i][a].cell
      BY DEF Independent
    <2> DEFINE p == b * size + i
               q == b * size + j
    <2>1. p # q
      <3>1. b * size \in Nat
        OBVIOUS
      <3> QED  BY <3>1
    <2>2. /\ p \in Nat /\ rounds[i][a] \in RowTasks(out, p, width)
          /\ q \in Nat /\ rounds[j][e] \in RowTasks(out, q, width)
      BY <1>1
    <2> HIDE DEF p, q
    <2> QED  BY <2>1, <2>2, RowsApart
  <1>3. ASSUME NEW k \in 0 .. size - 1 PROVE rounds[k] \in Seq(RowTasks(out, b, size * width))
    <2> DEFINE A == RowTasks(out, b * size + k, width)
               B == RowTasks(out, b, size * width)
               s == rounds[k]
    <2>1. s \in Seq(A) /\ A \subseteq B
      BY RowInPlane
    <2> HIDE DEF A, B, s
    <2>2. s \in Seq(B)
      BY <2>1
    <2> QED  BY <2>2 DEF B, s
  <1>4. Strides(rounds, 0, 1, size) \in Seq(RowTasks(out, b, size * width))
    <2> DEFINE one == Strided(0, 1, size)
               every == [k \in DOMAIN one |-> rounds[one[k]]]
               T == RowTasks(out, b, size * width)
    <2>1. one = [k \in 1 .. size |-> k - 1] /\ Len(one) = size
      BY OneThread
    <2>2. Strides(rounds, 0, 1, size) = Joined(every, size)
      BY <2>1 DEF Strides
    <2> HIDE DEF one
    <2>3. \A k \in 1 .. size : k - 1 \in 0 .. size - 1 /\ every[k] = rounds[k - 1]
      BY <2>1
    <2> HIDE DEF every, T
    <2>4. \A k \in 1 .. size : every[k] \in Seq(T)
      BY <1>3, <2>3 DEF T
    <2>5. Joined(every, size) \in Seq(T)
      BY <2>4, JoinedType
    <2> QED  BY <2>2, <2>5 DEF T
  <1> QED  BY <1>1, <1>2, <1>4 DEF AreRounds

(* A loop over the batch around a loop over planes.                        *)
OverBatch(planes, t, n, size, batch) ==
  Joined([b \in 1 .. batch |-> Strides(planes[b - 1], t, n, size)], batch)

ArePlanes(planes, out, batch, size, width) ==
  \A b \in 0 .. batch - 1 : \A k \in 0 .. size - 1 :
    planes[b][k] \in Seq(RowTasks(out, b * size + k, width))
MadeOfPlanes(c, n, planes, batch, size) ==
  /\ Body(c, 0, 1) = OverBatch(planes, 0, 1, size, batch)
  /\ \A t \in 0 .. n - 1 : Body(c, t, n) = OverBatch(planes, t, n, size, batch)

LEMMA PlanesShare ==
  ASSUME NEW c, c.kernel \in {"avgpool", "maxpoolgrad", "conv2d"},
         NEW n \in Nat \ {0}, NEW batch \in Nat, NEW size \in Nat, NEW width \in Nat, NEW out,
         NEW planes, ArePlanes(planes, out, batch, size, width),
         MadeOfPlanes(c, n, planes, batch, size)
  PROVE  Shares(c, n)
  <1> DEFINE wholes == [b \in 1 .. batch |-> Strides(planes[b - 1], 0, 1, size)]
             parts == [b \in 1 .. batch |-> AllStrides(planes[b - 1], n, size)]
             wide == size * width
  <1>1. ASSUME NEW b \in 1 .. batch
        PROVE  /\ SharedOut(wholes[b], parts[b], n)
               /\ wholes[b] \in Seq(RowTasks(out, b - 1, wide))
    <2> DEFINE d == b - 1
               rounds == planes[d]
    <2>1. d \in 0 .. batch - 1 /\ d \in Nat
      OBVIOUS
    <2>2. wholes[b] = Strides(rounds, 0, 1, size) /\ parts[b] = AllStrides(rounds, n, size)
      OBVIOUS
    <2> HIDE DEF d
    <2>3. \A k \in 0 .. size - 1 : rounds[k] \in Seq(RowTasks(out, d * size + k, width))
      BY <2>1 DEF ArePlanes
    <2> HIDE DEF rounds, wholes, parts
    <2>4. AreRounds(rounds, size) /\ Strides(rounds, 0, 1, size) \in Seq(RowTasks(out, d, wide))
      BY <2>1, <2>3, PlaneRounds
    <2>5. SharedOut(Strides(rounds, 0, 1, size), AllStrides(rounds, n, size), n)
      BY <2>4, StridedShares
    <2> QED  BY <2>2, <2>4, <2>5 DEF d
  <1>2. wide \in Nat
    OBVIOUS
  <1>3. Body(c, 0, 1) = Joined(wholes, batch)
    BY DEF OverBatch, MadeOfPlanes
  <1>4. ASSUME NEW t \in 0 .. n - 1 PROVE Body(c, t, n) = PartsOf(parts, n, batch)[t]
    <2>1. \A b \in 1 .. batch : parts[b][t] = Strides(planes[b - 1], t, n, size)
      BY DEF AllStrides
    <2> HIDE DEF parts
    <2>2. [b \in 1 .. batch |-> parts[b][t]]
            = [b \in 1 .. batch |-> Strides(planes[b - 1], t, n, size)]
      BY <2>1
    <2>3. PartsOf(parts, n, batch)[t] = Joined([b \in 1 .. batch |-> parts[b][t]], batch)
      BY DEF PartsOf
    <2> QED  BY <2>2, <2>3 DEF OverBatch, MadeOfPlanes
  <1> HIDE DEF wholes, parts, wide
  <1>5. SharedOut(Joined(wholes, batch), PartsOf(parts, n, batch), n)
    BY <1>1, <1>2, JoinedShares
  <1> QED  BY <1>3, <1>4, <1>5, PartsShare

-----------------------------------------------------------------------------
(* Pooling by two in both directions. *)

LEMMA UpToIs ==
  ASSUME NEW size \in Nat
  PROVE  /\ Len(UpTo(size)) = size /\ DOMAIN UpTo(size) = 1 .. size
         /\ \A k \in 1 .. size : UpTo(size)[k] = k - 1 /\ k - 1 \in 0 .. size - 1
  BY DEF UpTo

LEMMA EvenIs ==
  ASSUME NEW half \in Nat
  PROVE  /\ Len(Even(2 * half)) = half /\ DOMAIN Even(2 * half) = 1 .. half
         /\ \A k \in 1 .. half : Even(2 * half)[k] = 2 * (k - 1) /\ k - 1 \in 0 .. half - 1
  <1>1. (2 * half + 1) \div 2 = half
    OBVIOUS
  <1>2. Even(2 * half) = [k \in 1 .. half |-> 2 * (k - 1)]
    BY <1>1 DEF Even
  <1> QED  BY <1>2

(* Where the tasks of one round are.                                       *)
LEMMA PoolOffsets ==
  ASSUME NEW high \in Nat, NEW wide \in Nat, NEW y \in 0 .. high - 1, NEW x \in 0 .. wide - 1
  PROVE  LET h == 2 * high
             w == 2 * wide
             j == 2 * y
             i == 2 * x
             small == ((h \div 2) * w) \div 2
         IN  /\ small \in Nat /\ (w * j) \div 4 + i \div 2 \in 0 .. small - 1
             /\ h * w \in Nat /\ w * j + i \in 0 .. h * w - 1
             /\ w * j + i + w \in 0 .. h * w - 1
             /\ w * j + i + 1 \in 0 .. h * w - 1
             /\ w * j + i + w + 1 \in 0 .. h * w - 1
  <1> DEFINE a == wide * y
             all == high * wide
  <1>1. a \in Nat /\ all \in Nat /\ a + wide <= all
    <2>1. /\ y \in Nat /\ y < high /\ wide \in Nat \ {0}
      OBVIOUS
    <2>2. y * wide \in Nat /\ y * wide + wide <= high * wide
      BY <2>1, Multiples
    <2>3. wide * y = y * wide
      OBVIOUS
    <2> QED  BY <2>2, <2>3
  <1>2. (2 * wide) * (2 * y) = 4 * a
    OBVIOUS
  <1>3. (2 * high) \div 2 = high /\ high * (2 * wide) = 2 * all
    OBVIOUS
  <1>4. (2 * high) * (2 * wide) = 4 * all
    OBVIOUS
  <1> HIDE DEF a, all
  <1>5. (4 * a) \div 4 = a /\ (2 * all) \div 2 = all /\ (2 * x) \div 2 = x
    BY <1>1
  <1>6. x \in Nat /\ x < wide /\ wide \in Nat
    OBVIOUS
  <1>7. a + x \in 0 .. all - 1
    BY <1>1, <1>6
  <1>8. /\ 4 * a + 2 * x \in 0 .. 4 * all - 1
        /\ 4 * a + 2 * x + 2 * wide \in 0 .. 4 * all - 1
        /\ 4 * a + 2 * x + 1 \in 0 .. 4 * all - 1
        /\ 4 * a + 2 * x + 2 * wide + 1 \in 0 .. 4 * all - 1
    BY <1>1, <1>6
  <1> QED  BY <1>1, <1>2, <1>3, <1>4, <1>5, <1>7, <1>8

Four(c, b, k, j, i) ==
  LET at == (b * c.channels + k) * (c.height * c.width) + c.width * j + i
  IN  <<at, at + c.width, at + 1, at + c.width + 1>>
SmallSize(c) == ((c.height \div 2) * c.width) \div 2
OfFour(c, b, k, j, i) ==
  (b * c.channels + k) * SmallSize(c) + (c.width * j) \div 4 + i \div 2

AvgTask(c, b, k, j, i) ==
  <<Set(<<c.out, OfFour(c, b, k, j, i)>>, "avg",
        [m \in 1 .. 4 |-> <<c.in, Four(c, b, k, j, i)[m]>>])>>
AvgRow(c, b, k, j) == For(Even(c.width), LAMBDA i : AvgTask(c, b, k, j, i))
AvgPlane(c, b, k) == For(Even(c.height), LAMBDA j : AvgRow(c, b, k, j))
AvgPlanes(c) ==
  [b \in 0 .. c.batch - 1 |-> [k \in 0 .. c.channels - 1 |-> AvgPlane(c, b, k)]]

GradTasks(c, b, k, j, i) ==
  [m \in 1 .. 4 |-> Set(<<c.out, Four(c, b, k, j, i)[m]>>, "maxgrad",
                        <<<<c.in, Four(c, b, k, j, i)[m]>>, <<c.w, OfFour(c, b, k, j, i)>>>>)]
GradRow(c, b, k, j) == For(Even(c.width), LAMBDA i : GradTasks(c, b, k, j, i))
GradPlane(c, b, k) == For(Even(c.height), LAMBDA j : GradRow(c, b, k, j))
GradPlanes(c) ==
  [b \in 0 .. c.batch - 1 |-> [k \in 0 .. c.channels - 1 |-> GradPlane(c, b, k)]]

LEMMA FourIn ==
  ASSUME NEW c, NEW high \in Nat, NEW wide \in Nat, c.height = 2 * high, c.width = 2 * wide,
         NEW b \in Nat, NEW k \in Nat, c.channels \in Nat,
         NEW y \in 0 .. high - 1, NEW x \in 0 .. wide - 1
  PROVE  /\ SmallSize(c) \in Nat /\ c.height * c.width \in Nat
         /\ OfFour(c, b, k, 2 * y, 2 * x) \in Row(b * c.channels + k, SmallSize(c))
         /\ \A m \in 1 .. 4 : Four(c, b, k, 2 * y, 2 * x)[m]
                                \in Row(b * c.channels + k, c.height * c.width)
         /\ OfFour(c, b, k, 2 * y, 2 * x) \in Int
         /\ \A m \in 1 .. 4 : Four(c, b, k, 2 * y, 2 * x)[m] \in Int
  <1> DEFINE row == b * c.channels + k
             low == row * SmallSize(c)
             base == row * (c.height * c.width)
             e == (c.width * (2 * y)) \div 4 + (2 * x) \div 2
             at == c.width * (2 * y) + 2 * x
             size == c.height * c.width
  <1>1. SmallSize(c) \in Nat /\ e \in 0 .. SmallSize(c) - 1
    BY PoolOffsets DEF SmallSize
  <1>2. /\ size \in Nat /\ at \in 0 .. size - 1 /\ at + c.width \in 0 .. size - 1
        /\ at + 1 \in 0 .. size - 1 /\ at + c.width + 1 \in 0 .. size - 1
    BY PoolOffsets
  <1>3. row \in Nat
    OBVIOUS
  <1>4. low \in Nat /\ base \in Nat
    BY <1>1, <1>2, <1>3
  <1>5. OfFour(c, b, k, 2 * y, 2 * x) = low + (c.width * (2 * y)) \div 4 + (2 * x) \div 2
    BY DEF OfFour
  <1>6. (c.width * (2 * y)) \div 4 \in Int /\ (2 * x) \div 2 \in Int /\ c.width \in Int
    OBVIOUS
  <1>7. Four(c, b, k, 2 * y, 2 * x)
          = <<base + c.width * (2 * y) + 2 * x, base + c.width * (2 * y) + 2 * x + c.width,
              base + c.width * (2 * y) + 2 * x + 1, base + c.width * (2 * y) + 2 * x + c.width + 1>>
    BY DEF Four
  <1>8. Row(row, SmallSize(c)) = low .. low + SmallSize(c) - 1 /\ Row(row, size) = base .. base + size - 1
    BY DEF Row
  <1>9. c.width * (2 * y) \in Int /\ 2 * x \in Int
    OBVIOUS
  <1> DEFINE cy == c.width * (2 * y)
             cx == 2 * x
             q == cy \div 4
             r == cx \div 2
  <1>10. low + q + r \in low .. low + SmallSize(c) - 1 /\ low + q + r \in Int
    <2> HIDE DEF low, cy, cx, q, r
    <2>1. q + r \in 0 .. SmallSize(c) - 1 /\ q \in Int /\ r \in Int
      BY <1>1, <1>6 DEF cy, cx, q, r
    <2> QED  BY <1>1, <1>4, <2>1
  <1>11. /\ base + cy + cx \in base .. base + size - 1
         /\ base + cy + cx + c.width \in base .. base + size - 1
         /\ base + cy + cx + 1 \in base .. base + size - 1
         /\ base + cy + cx + c.width + 1 \in base .. base + size - 1
         /\ base \in Nat
    <2> HIDE DEF base, cy, cx, size
    <2>1. /\ cy + cx \in 0 .. size - 1 /\ cy + cx + c.width \in 0 .. size - 1
          /\ cy + cx + 1 \in 0 .. size - 1 /\ cy + cx + c.width + 1 \in 0 .. size - 1
          /\ cy \in Int /\ cx \in Int
      BY <1>2, <1>9 DEF cy, cx
    <2> QED  BY <1>2, <1>4, <1>6, <2>1
  <1> DEFINE four == Four(c, b, k, 2 * y, 2 * x)
             of == OfFour(c, b, k, 2 * y, 2 * x)
  <1>12. four = <<base + cy + cx, base + cy + cx + c.width, base + cy + cx + 1,
                  base + cy + cx + c.width + 1>>
    BY <1>7
  <1>13. of = low + q + r
    BY <1>5
  <1> HIDE DEF four, of, cy, cx, q, r, low, base, size
  <1>14. \A m \in 1 .. 4 : four[m] \in base .. base + size - 1 /\ four[m] \in Int
    BY <1>11, <1>12
  <1>15. of \in Row(row, SmallSize(c)) /\ of \in Int
    BY <1>8, <1>10, <1>13
  <1> QED  BY <1>1, <1>2, <1>8, <1>14, <1>15 DEF four, of, size

LEMMA AvgInPlane ==
  ASSUME NEW c \in Calls, c.kernel = "avgpool", IsEven(c.height), IsEven(c.width),
         c.in # c.out, NEW b \in Nat, NEW k \in Nat
  PROVE  AvgPlane(c, b, k) \in Seq(RowTasks(c.out, b * c.channels + k, SmallSize(c)))
  <1> DEFINE row == b * c.channels + k
             width == SmallSize(c)
             T == RowTasks(c.out, row, width)
             R == RowCells(c.out, row, width)
  <1>1. /\ c.in \in Tensors /\ c.w \in Tensors /\ c.out \in Tensors
        /\ c.channels \in Nat /\ row \in Nat /\ row \in Int
    BY DEF Calls
  <1>2. PICK high \in Nat, wide \in Nat : c.height = 2 * high /\ c.width = 2 * wide
    BY DEF IsEven
  <1> HIDE DEF row
  <1>3. ASSUME NEW y \in 0 .. high - 1, NEW x \in 0 .. wide - 1
        PROVE  AvgTask(c, b, k, 2 * y, 2 * x) \in Seq(T)
    <2> DEFINE four == Four(c, b, k, 2 * y, 2 * x)
               of == OfFour(c, b, k, 2 * y, 2 * x)
               reads == [m \in 1 .. 4 |-> <<c.in, four[m]>>]
    <2>1. /\ width \in Nat /\ of \in Row(row, width) /\ \A m \in 1 .. 4 : four[m] \in Int
      BY <1>1, <1>2, FourIn DEF row
    <2> HIDE DEF width
    <2>2. \A m \in 1 .. 4 : <<c.in, four[m]>> \in R
      BY <1>1, <2>1, CellInRow
    <2>3. "avg" \in Operations
      BY DEF Operations
    <2>4. AvgTask(c, b, k, 2 * y, 2 * x) = <<Set(<<c.out, of>>, "avg", reads)>>
      BY DEF AvgTask
    <2> HIDE DEF four, of, R
    <2>5. reads \in Seq(R)
      BY <2>2
    <2> HIDE DEF reads
    <2>6. reads \in Seq(RowCells(c.out, row, width))
      BY <2>5 DEF R
    <2>7. <<Set(<<c.out, of>>, "avg", reads)>> \in Seq(RowTasks(c.out, row, width))
      BY <1>1, <2>1, <2>3, <2>6, SetInRow
    <2> QED  BY <2>4, <2>7
  <1> HIDE DEF width, T
  <1>4. ASSUME NEW y \in 0 .. high - 1 PROVE AvgRow(c, b, k, 2 * y) \in Seq(T)
    <2> DEFINE all == Even(c.width)
               parts == [x \in DOMAIN all |-> AvgTask(c, b, k, 2 * y, all[x])]
    <2>1. AvgRow(c, b, k, 2 * y) = Joined(parts, Len(all))
      BY DEF AvgRow, For
    <2>2. /\ DOMAIN all = 1 .. wide /\ Len(all) = wide
          /\ \A x \in 1 .. wide : all[x] = 2 * (x - 1) /\ x - 1 \in 0 .. wide - 1
      BY <1>2, EvenIs
    <2> HIDE DEF all
    <2>3. ASSUME NEW x \in 1 .. wide PROVE parts[x] \in Seq(T)
      <3>1. parts[x] = AvgTask(c, b, k, 2 * y, 2 * (x - 1)) /\ x - 1 \in 0 .. wide - 1
        BY <2>2
      <3> QED  BY <1>3, <3>1
    <2> HIDE DEF parts
    <2>4. Joined(parts, wide) \in Seq(T)
      BY <2>3, JoinedType
    <2> QED  BY <2>1, <2>2, <2>4
  <1> DEFINE all == Even(c.height)
             parts == [y \in DOMAIN all |-> AvgRow(c, b, k, all[y])]
  <1>5. AvgPlane(c, b, k) = Joined(parts, Len(all))
    BY DEF AvgPlane, For
  <1>6. /\ DOMAIN all = 1 .. high /\ Len(all) = high
        /\ \A y \in 1 .. high : all[y] = 2 * (y - 1) /\ y - 1 \in 0 .. high - 1
    BY <1>2, EvenIs
  <1> HIDE DEF all
  <1>7. ASSUME NEW y \in 1 .. high PROVE parts[y] \in Seq(T)
    <2>1. parts[y] = AvgRow(c, b, k, 2 * (y - 1)) /\ y - 1 \in 0 .. high - 1
      BY <1>6
    <2> QED  BY <1>4, <2>1
  <1> HIDE DEF parts
  <1>8. Joined(parts, high) \in Seq(T)
    BY <1>7, JoinedType
  <1> QED  BY <1>5, <1>6, <1>8 DEF T, row, width

LEMMA AvgShares ==
  ASSUME NEW c \in Calls, c.kernel = "avgpool", IsEven(c.height), IsEven(c.width),
         c.in # c.out, NEW n \in Nat \ {0}
  PROVE  Shares(c, n)
  <1> DEFINE width == SmallSize(c)
  <1>1. /\ c.batch \in Nat /\ c.channels \in Nat /\ width \in Nat
    <2>1. PICK high \in Nat, wide \in Nat : c.height = 2 * high /\ c.width = 2 * wide
      BY DEF IsEven
    <2>2. ((c.height \div 2) * c.width) \div 2 \in Nat /\ c.height * c.width \in Nat
      <3>1. c.height \div 2 = high /\ high * (2 * wide) = 2 * (high * wide) /\ high * wide \in Nat
        BY <2>1
      <3> DEFINE a == high * wide
      <3> HIDE DEF a
      <3>2. a \in Nat => (2 * a) \div 2 \in Nat
        OBVIOUS
      <3>3. (c.height \div 2) * c.width = 2 * a /\ a \in Nat
        BY <2>1, <3>1 DEF a
      <3>4. c.height * c.width \in Nat
        BY DEF Calls
      <3> QED  BY <3>2, <3>3, <3>4
    <2> QED  BY <2>2 DEF Calls, SmallSize
  <1>2. \A b \in 0 .. c.batch - 1 : \A k \in 0 .. c.channels - 1 :
          AvgPlanes(c)[b][k] = AvgPlane(c, b, k) /\ b \in Nat /\ k \in Nat
    BY DEF AvgPlanes
  <1>3. \A b \in 0 .. c.batch - 1 : \A k \in 0 .. c.channels - 1 :
          AvgPlanes(c)[b][k] \in Seq(RowTasks(c.out, b * c.channels + k, width))
    BY <1>2, AvgInPlane
  <1> HIDE DEF width
  <1>4. ASSUME NEW t \in Nat, NEW m \in Nat \ {0}
        PROVE  Body(c, t, m) = OverBatch(AvgPlanes(c), t, m, c.channels, c.batch)
    <2> DEFINE idx == Strided(t, m, c.channels)
               all == UpTo(c.batch)
               rounds(b) == Joined([y \in DOMAIN idx |-> AvgPlane(c, b, idx[y])], Len(idx))
    <2>1. Body(c, t, m) = avgpool(c, t, m)
      BY TasksOfRounds
    <2>2. avgpool(c, t, m) = Joined([x \in DOMAIN all |-> rounds(all[x])], Len(all))
      BY DEF avgpool, Pooling, Pooled, For, AvgPlane, AvgRow, AvgTask, Four, OfFour, SmallSize
    <2>3. \A y \in DOMAIN idx : idx[y] \in 0 .. c.channels - 1
      BY <1>1, StridedInside
    <2>4. /\ Len(all) = c.batch /\ DOMAIN all = 1 .. c.batch
          /\ \A x \in 1 .. c.batch : all[x] = x - 1 /\ x - 1 \in 0 .. c.batch - 1
      BY <1>1, UpToIs
    <2> HIDE DEF all
    <2>5. ASSUME NEW b \in 0 .. c.batch - 1
          PROVE  rounds(b) = Strides(AvgPlanes(c)[b], t, m, c.channels)
      <3> HIDE DEF idx
      <3>1. [y \in DOMAIN idx |-> AvgPlane(c, b, idx[y])]
              = [y \in DOMAIN idx |-> AvgPlanes(c)[b][idx[y]]]
        BY <1>2, <2>3
      <3> QED  BY <3>1 DEF Strides, idx
    <2> HIDE DEF idx, rounds
    <2>6. [x \in DOMAIN all |-> rounds(all[x])]
            = [x \in 1 .. c.batch |-> Strides(AvgPlanes(c)[x - 1], t, m, c.channels)]
      BY <2>4, <2>5
    <2> QED  BY <2>1, <2>2, <2>4, <2>6 DEF OverBatch
  <1>5. Body(c, 0, 1) = OverBatch(AvgPlanes(c), 0, 1, c.channels, c.batch)
    BY <1>4
  <1>6. \A t \in 0 .. n - 1 : Body(c, t, n) = OverBatch(AvgPlanes(c), t, n, c.channels, c.batch)
    BY <1>4
  <1>7. ArePlanes(AvgPlanes(c), c.out, c.batch, c.channels, width)
    BY <1>3 DEF ArePlanes
  <1>8. MadeOfPlanes(c, n, AvgPlanes(c), c.batch, c.channels)
    BY <1>5, <1>6 DEF MadeOfPlanes
  <1> QED  BY <1>1, <1>7, <1>8, PlanesShare

LEMMA GradInPlane ==
  ASSUME NEW c \in Calls, c.kernel = "maxpoolgrad", IsEven(c.height), IsEven(c.width),
         c.w # c.out, NEW b \in Nat, NEW k \in Nat
  PROVE  GradPlane(c, b, k) \in Seq(RowTasks(c.out, b * c.channels + k, (c.height * c.width)))
  <1> DEFINE row == b * c.channels + k
             width == (c.height * c.width)
             T == RowTasks(c.out, row, width)
             R == RowCells(c.out, row, width)
  <1>1. /\ c.in \in Tensors /\ c.w \in Tensors /\ c.out \in Tensors
        /\ c.channels \in Nat /\ row \in Nat /\ row \in Int
    BY DEF Calls
  <1>2. PICK high \in Nat, wide \in Nat : c.height = 2 * high /\ c.width = 2 * wide
    BY DEF IsEven
  <1> HIDE DEF row
  <1>3. ASSUME NEW y \in 0 .. high - 1, NEW x \in 0 .. wide - 1
        PROVE  GradTasks(c, b, k, 2 * y, 2 * x) \in Seq(T)
    <2> DEFINE four == Four(c, b, k, 2 * y, 2 * x)
               of == OfFour(c, b, k, 2 * y, 2 * x)
               task(m) == Set(<<c.out, four[m]>>, "maxgrad", <<<<c.in, four[m]>>, <<c.w, of>>>>)
    <2>1. width \in Nat /\ \A m \in 1 .. 4 : four[m] \in Row(row, width) /\ four[m] \in Int
      BY <1>1, <1>2, FourIn DEF row
    <2>2. of \in Int
      BY <1>1, <1>2, FourIn
    <2>3. "maxgrad" \in Operations
      BY DEF Operations
    <2>4. GradTasks(c, b, k, 2 * y, 2 * x) = [m \in 1 .. 4 |-> task(m)]
      BY DEF GradTasks
    <2> HIDE DEF four, of, width
    <2>5. ASSUME NEW m \in 1 .. 4 PROVE task(m) \in T
      <3>0. four[m] \in Row(row, width) /\ four[m] \in Int
        BY <2>1
      <3> DEFINE at == four[m]
      <3> HIDE DEF at
      <3>1. <<c.in, at>> \in R
        BY <1>1, <2>1, <3>0, CellInRow DEF at
      <3> DEFINE reads == <<<<c.in, at>>, <<c.w, of>>>>
      <3>2. <<c.w, of>> \in R
        BY <1>1, <2>1, <2>2, CellInRow
      <3>3. reads \in Seq(R)
        <4> HIDE DEF R
        <4> QED  BY <3>1, <3>2
      <3> HIDE DEF reads
      <3>4. <<Set(<<c.out, at>>, "maxgrad", reads)>> \in Seq(T)
        BY <1>1, <2>1, <2>3, <3>0, <3>3, SetInRow DEF at
      <3> DEFINE one == Set(<<c.out, at>>, "maxgrad", reads)
      <3> HIDE DEF one, T
      <3>5. <<one>> \in Seq(T) => one \in T
        <4>1. ASSUME <<one>> \in Seq(T) PROVE one \in T
          <5>1. <<one>>[1] \in T
            BY <4>1
          <5> QED  BY <5>1
        <4> QED  BY <4>1
      <3> QED  BY <3>4, <3>5 DEF one, reads, at
    <2> HIDE DEF task, T
    <2>6. [m \in 1 .. 4 |-> task(m)] \in Seq(T)
      BY <2>5
    <2> QED  BY <2>4, <2>6
  <1> HIDE DEF width, T
  <1>4. ASSUME NEW y \in 0 .. high - 1 PROVE GradRow(c, b, k, 2 * y) \in Seq(T)
    <2> DEFINE all == Even(c.width)
               parts == [x \in DOMAIN all |-> GradTasks(c, b, k, 2 * y, all[x])]
    <2>1. GradRow(c, b, k, 2 * y) = Joined(parts, Len(all))
      BY DEF GradRow, For
    <2>2. /\ DOMAIN all = 1 .. wide /\ Len(all) = wide
          /\ \A x \in 1 .. wide : all[x] = 2 * (x - 1) /\ x - 1 \in 0 .. wide - 1
      BY <1>2, EvenIs
    <2> HIDE DEF all
    <2>3. ASSUME NEW x \in 1 .. wide PROVE parts[x] \in Seq(T)
      <3>1. parts[x] = GradTasks(c, b, k, 2 * y, 2 * (x - 1)) /\ x - 1 \in 0 .. wide - 1
        BY <2>2
      <3> QED  BY <1>3, <3>1
    <2> HIDE DEF parts
    <2>4. Joined(parts, wide) \in Seq(T)
      BY <2>3, JoinedType
    <2> QED  BY <2>1, <2>2, <2>4
  <1> DEFINE all == Even(c.height)
             parts == [y \in DOMAIN all |-> GradRow(c, b, k, all[y])]
  <1>5. GradPlane(c, b, k) = Joined(parts, Len(all))
    BY DEF GradPlane, For
  <1>6. /\ DOMAIN all = 1 .. high /\ Len(all) = high
        /\ \A y \in 1 .. high : all[y] = 2 * (y - 1) /\ y - 1 \in 0 .. high - 1
    BY <1>2, EvenIs
  <1> HIDE DEF all
  <1>7. ASSUME NEW y \in 1 .. high PROVE parts[y] \in Seq(T)
    <2>1. parts[y] = GradRow(c, b, k, 2 * (y - 1)) /\ y - 1 \in 0 .. high - 1
      BY <1>6
    <2> QED  BY <1>4, <2>1
  <1> HIDE DEF parts
  <1>8. Joined(parts, high) \in Seq(T)
    BY <1>7, JoinedType
  <1> QED  BY <1>5, <1>6, <1>8 DEF T, row, width

LEMMA GradShares ==
  ASSUME NEW c \in Calls, c.kernel = "maxpoolgrad", IsEven(c.height), IsEven(c.width),
         c.w # c.out, NEW n \in Nat \ {0}
  PROVE  Shares(c, n)
  <1> DEFINE width == (c.height * c.width)
  <1>1. /\ c.batch \in Nat /\ c.channels \in Nat /\ width \in Nat
    <2>1. PICK high \in Nat, wide \in Nat : c.height = 2 * high /\ c.width = 2 * wide
      BY DEF IsEven
    <2>2. ((c.height \div 2) * c.width) \div 2 \in Nat /\ c.height * c.width \in Nat
      <3>1. c.height \div 2 = high /\ high * (2 * wide) = 2 * (high * wide) /\ high * wide \in Nat
        BY <2>1
      <3> DEFINE a == high * wide
      <3> HIDE DEF a
      <3>2. a \in Nat => (2 * a) \div 2 \in Nat
        OBVIOUS
      <3>3. (c.height \div 2) * c.width = 2 * a /\ a \in Nat
        BY <2>1, <3>1 DEF a
      <3>4. c.height * c.width \in Nat
        BY DEF Calls
      <3> QED  BY <3>2, <3>3, <3>4
    <2> QED  BY <2>2 DEF Calls, SmallSize
  <1>2. \A b \in 0 .. c.batch - 1 : \A k \in 0 .. c.channels - 1 :
          GradPlanes(c)[b][k] = GradPlane(c, b, k) /\ b \in Nat /\ k \in Nat
    BY DEF GradPlanes
  <1>3. \A b \in 0 .. c.batch - 1 : \A k \in 0 .. c.channels - 1 :
          GradPlanes(c)[b][k] \in Seq(RowTasks(c.out, b * c.channels + k, width))
    BY <1>2, GradInPlane
  <1> HIDE DEF width
  <1>4. ASSUME NEW t \in Nat, NEW m \in Nat \ {0}
        PROVE  Body(c, t, m) = OverBatch(GradPlanes(c), t, m, c.channels, c.batch)
    <2> DEFINE idx == Strided(t, m, c.channels)
               all == UpTo(c.batch)
               rounds(b) == Joined([y \in DOMAIN idx |-> GradPlane(c, b, idx[y])], Len(idx))
    <2>1. Body(c, t, m) = maxpoolgrad(c, t, m)
      BY TasksOfRounds
    <2>2. maxpoolgrad(c, t, m) = Joined([x \in DOMAIN all |-> rounds(all[x])], Len(all))
      BY DEF maxpoolgrad, Pooling, Pooled, For, GradPlane, GradRow, GradTasks, Four, OfFour, SmallSize
    <2>3. \A y \in DOMAIN idx : idx[y] \in 0 .. c.channels - 1
      BY <1>1, StridedInside
    <2>4. /\ Len(all) = c.batch /\ DOMAIN all = 1 .. c.batch
          /\ \A x \in 1 .. c.batch : all[x] = x - 1 /\ x - 1 \in 0 .. c.batch - 1
      BY <1>1, UpToIs
    <2> HIDE DEF all
    <2>5. ASSUME NEW b \in 0 .. c.batch - 1
          PROVE  rounds(b) = Strides(GradPlanes(c)[b], t, m, c.channels)
      <3> HIDE DEF idx
      <3>1. [y \in DOMAIN idx |-> GradPlane(c, b, idx[y])]
              = [y \in DOMAIN idx |-> GradPlanes(c)[b][idx[y]]]
        BY <1>2, <2>3
      <3> QED  BY <3>1 DEF Strides, idx
    <2> HIDE DEF idx, rounds
    <2>6. [x \in DOMAIN all |-> rounds(all[x])]
            = [x \in 1 .. c.batch |-> Strides(GradPlanes(c)[x - 1], t, m, c.channels)]
      BY <2>4, <2>5
    <2> QED  BY <2>1, <2>2, <2>4, <2>6 DEF OverBatch
  <1>5. Body(c, 0, 1) = OverBatch(GradPlanes(c), 0, 1, c.channels, c.batch)
    BY <1>4
  <1>6. \A t \in 0 .. n - 1 : Body(c, t, n) = OverBatch(GradPlanes(c), t, n, c.channels, c.batch)
    BY <1>4
  <1>7. ArePlanes(GradPlanes(c), c.out, c.batch, c.channels, width)
    BY <1>3 DEF ArePlanes
  <1>8. MadeOfPlanes(c, n, GradPlanes(c), c.batch, c.channels)
    BY <1>5, <1>6 DEF MadeOfPlanes
  <1> QED  BY <1>1, <1>7, <1>8, PlanesShare

-----------------------------------------------------------------------------
(* Convolution: a plane for every filter. *)

LEMMA AddInRow ==
  ASSUME NEW out \in Tensors, NEW i \in Int, NEW width \in Nat,
         NEW x \in Row(i, width), NEW op \in Operations,
         NEW reads \in Seq(RowCells(out, i, width))
  PROVE  <<Add(<<out, x>>, op, reads)>> \in Seq(RowTasks(out, i, width))
  <1> DEFINE cell == <<out, x>>
             task == Add(cell, op, reads)
             R == RowCells(out, i, width)
             T == RowTasks(out, i, width)
             all == <<cell>> \o reads
  <1>1. cell \in TensorCells /\ cell \in R /\ cell[1] = out /\ cell[2] = x
    <2>1. x \in Int
      BY DEF Row
    <2> QED  BY <2>1, CellInRow DEF TensorCells
  <1>2. task.do = "add" /\ task.cell = cell /\ task.op = op /\ task.reads = all
        /\ task = [do |-> "add", cell |-> cell, op |-> op, reads |-> all]
    BY DEF Add
  <1>3. all \in Seq(R) /\ all \in Seq(TensorCells)
    <2>1. reads \in Seq(R) /\ \A y \in R : y \in TensorCells
      BY DEF RowCells
    <2> HIDE DEF R, cell
    <2>2. all \in Seq(R)
      BY <1>1, <2>1
    <2> HIDE DEF all
    <2>3. all \in Seq(TensorCells)
      BY <2>1, <2>2
    <2> QED  BY <2>2, <2>3
  <1> HIDE DEF task, all, cell
  <1>4. task \in TensorTasks
    BY <1>1, <1>2, <1>3 DEF TensorTasks
  <1>5. task \in T
    BY <1>1, <1>2, <1>3, <1>4 DEF RowTasks
  <1> HIDE DEF T
  <1>6. <<task>> \in Seq(T)
    BY <1>5
  <1> QED  BY <1>6 DEF task, T, cell

Image(c) == Padded(c).height * Padded(c).width
Window(c, b, k, i, j) ==
  For([m \in 1 .. 9 |-> <<i + (m - 1) \div 3 - 1, j + ((m - 1) % 3) - 1>>],
      LAMBDA at :
        IF ~ (at[1] \in 0 .. Padded(c).height - 1 /\ at[2] \in 0 .. Padded(c).width - 1) THEN <<>>
        ELSE <<<<c.in, b * c.height * c.width * c.channels + k * Image(c)
                         + at[1] * Padded(c).width + at[2]>>>>)
ConvCell(c, b, h, k, i, j) ==
  <<Add(<<c.out, (b * c.outs + h) * Image(c) + i * Padded(c).width + j>>, "conv",
        Window(c, b, k, i, j) \o <<<<c.w, h>>>>)>>
ConvRow(c, b, h, k, i) == For(UpTo(Padded(c).width), LAMBDA j : ConvCell(c, b, h, k, i, j))
ConvMatrix(c, b, h, k) == For(UpTo(Padded(c).height), LAMBDA i : ConvRow(c, b, h, k, i))
ConvPlane(c, b, h) == For(UpTo(c.channels), LAMBDA k : ConvMatrix(c, b, h, k))
ConvPlanes(c) == [b \in 0 .. c.batch - 1 |-> [h \in 0 .. c.outs - 1 |-> ConvPlane(c, b, h)]]

LEMMA PaddedSizes ==
  ASSUME NEW c \in Calls, PaddingIn(c)
  PROVE  Padded(c).height \in Nat /\ Padded(c).width \in Nat /\ Image(c) \in Nat
  <1>1. /\ Padded(c).height = IF c.padding THEN c.height - 2 ELSE c.height
        /\ Padded(c).width = IF c.padding THEN c.width - 2 ELSE c.width
    BY DEF Padded, Calls
  <1>2. c.height \in Nat /\ c.width \in Nat
    BY DEF Calls
  <1>3. Padded(c).height \in Nat /\ Padded(c).width \in Nat
    BY <1>1, <1>2 DEF PaddingIn
  <1> QED  BY <1>3 DEF Image

LEMMA WindowReads ==
  ASSUME NEW c \in Calls, PaddingIn(c), c.in # c.out, NEW row \in Int, NEW width \in Nat,
         NEW b \in Int, NEW k \in Int, NEW i \in Int, NEW j \in Int
  PROVE  Window(c, b, k, i, j) \in Seq(RowCells(c.out, row, width))
  <1> DEFINE R == RowCells(c.out, row, width)
             around == [m \in 1 .. 9 |-> <<i + (m - 1) \div 3 - 1, j + ((m - 1) % 3) - 1>>]
             base == b * c.height * c.width * c.channels + k * Image(c)
             at(p) == base + p[1] * Padded(c).width + p[2]
             reads(p) ==
               IF ~ (p[1] \in 0 .. Padded(c).height - 1 /\ p[2] \in 0 .. Padded(c).width - 1) THEN <<>>
               ELSE <<<<c.in, at(p)>>>>
             parts == [m \in DOMAIN around |-> reads(around[m])]
  <1>1. Window(c, b, k, i, j) = Joined(parts, Len(around))
    BY DEF Window, For
  <1>2. /\ c.in \in Tensors /\ c.out \in Tensors
        /\ c.height \in Nat /\ c.width \in Nat /\ c.channels \in Nat
    BY DEF Calls
  <1>3. base \in Int /\ Padded(c).width \in Int
    <2>1. Image(c) \in Int /\ Padded(c).width \in Int
      BY PaddedSizes
    <2>2. b * c.height \in Int
      BY <1>2
    <2>3. (b * c.height) * c.width \in Int
      BY <1>2, <2>2
    <2>4. ((b * c.height) * c.width) * c.channels \in Int
      BY <1>2, <2>3
    <2>5. k * Image(c) \in Int
      BY <2>1
    <2> QED  BY <2>1, <2>4, <2>5
  <1>4. /\ DOMAIN around = 1 .. 9 /\ Len(around) = 9
        /\ \A m \in 1 .. 9 : around[m][1] \in Int /\ around[m][2] \in Int
    OBVIOUS
  <1> HIDE DEF around, base
  <1>5. ASSUME NEW m \in 1 .. 9 PROVE parts[m] \in Seq(R)
    <2> DEFINE p == around[m]
    <2>1. p[1] \in Int /\ p[2] \in Int /\ parts[m] = reads(p)
      BY <1>4
    <2> HIDE DEF p, parts
    <2>2. at(p) \in Int
      <3>1. p[1] * Padded(c).width \in Int
        BY <1>3, <2>1
      <3> QED  BY <1>3, <2>1, <3>1
    <2> HIDE DEF at
    <2>3. <<<<c.in, at(p)>>>> \in Seq(R)
      BY <1>2, <2>2, CellInRow
    <2>4. <<>> \in Seq(R)
      OBVIOUS
    <2> QED  BY <2>1, <2>3, <2>4
  <1> HIDE DEF parts, R
  <1>6. Joined(parts, 9) \in Seq(R)
    BY <1>5, JoinedType
  <1> QED  BY <1>1, <1>4, <1>6 DEF R

LEMMA ConvInPlane ==
  ASSUME NEW c \in Calls, PaddingIn(c), c.in # c.out, c.w # c.out, NEW b \in Nat, NEW h \in Nat
  PROVE  ConvPlane(c, b, h) \in Seq(RowTasks(c.out, b * c.outs + h, Image(c)))
  <1> DEFINE row == b * c.outs + h
             T == RowTasks(c.out, row, Image(c))
             R == RowCells(c.out, row, Image(c))
             high == Padded(c).height
             wide == Padded(c).width
  <1>1. /\ c.in \in Tensors /\ c.w \in Tensors /\ c.out \in Tensors
        /\ c.channels \in Nat /\ row \in Nat /\ row \in Int
    BY DEF Calls
  <1>2. high \in Nat /\ wide \in Nat /\ Image(c) \in Nat /\ Image(c) = high * wide
    BY PaddedSizes DEF Image
  <1>3. ASSUME NEW k \in Nat, NEW i \in 0 .. high - 1, NEW j \in 0 .. wide - 1
        PROVE  ConvCell(c, b, h, k, i, j) \in Seq(T)
    <2> DEFINE x == row * Image(c) + i * wide + j
               reads == Window(c, b, k, i, j) \o <<<<c.w, h>>>>
    <2>1. x \in Row(row, Image(c))
      <3> DEFINE low == row * Image(c)
                 a == i * wide
      <3>1. low \in Nat
        BY <1>1, <1>2
      <3>2. a \in Nat /\ a + wide <= Image(c)
        <4>1. i \in Nat /\ i < high /\ wide \in Nat \ {0}
          BY <1>2
        <4>2. i * wide \in Nat /\ i * wide + wide <= high * wide
          BY <1>2, <4>1, Multiples
        <4> QED  BY <1>2, <4>2
      <3> HIDE DEF low, a, row
      <3>3. low + a + j \in low .. low + Image(c) - 1
        BY <1>2, <3>1, <3>2
      <3> QED  BY <3>3 DEF Row, low, a
    <2>2. ConvCell(c, b, h, k, i, j) = <<Add(<<c.out, x>>, "conv", reads)>>
      BY DEF ConvCell
    <2> HIDE DEF x, row
    <2>3. reads \in Seq(R)
      <3> DEFINE window == Window(c, b, k, i, j)
                 weight == <<<<c.w, h>>>>
      <3>0. i \in Int /\ j \in Int /\ b \in Int /\ k \in Int /\ h \in Int
        BY <1>2
      <3>1. window \in Seq(R)
        BY <1>1, <1>2, <3>0, WindowReads
      <3>2. weight \in Seq(R)
        BY <1>1, <1>2, <3>0, CellInRow
      <3> HIDE DEF window, weight, R
      <3>3. window \o weight \in Seq(R)
        BY <3>1, <3>2
      <3> QED  BY <3>3 DEF window, weight
    <2>4. "conv" \in Operations
      BY DEF Operations
    <2> HIDE DEF reads
    <2> QED  BY <1>1, <1>2, <2>1, <2>2, <2>3, <2>4, AddInRow
  <1> HIDE DEF row, T, R
  <1>4. ASSUME NEW k \in Nat, NEW i \in 0 .. high - 1 PROVE ConvRow(c, b, h, k, i) \in Seq(T)
    <2> DEFINE all == UpTo(wide)
               parts == [x \in DOMAIN all |-> ConvCell(c, b, h, k, i, all[x])]
    <2>1. ConvRow(c, b, h, k, i) = Joined(parts, Len(all))
      BY DEF ConvRow, For
    <2>2. /\ Len(all) = wide /\ DOMAIN all = 1 .. wide
          /\ \A x \in 1 .. wide : all[x] = x - 1 /\ x - 1 \in 0 .. wide - 1
      BY <1>2, UpToIs
    <2> HIDE DEF all, wide
    <2>3. \A x \in 1 .. wide : parts[x] \in Seq(T)
      BY <1>3, <2>2
    <2> HIDE DEF parts
    <2>4. Joined(parts, wide) \in Seq(T)
      BY <1>2, <2>3, JoinedType
    <2> QED  BY <2>1, <2>2, <2>4
  <1>5. ASSUME NEW k \in Nat PROVE ConvMatrix(c, b, h, k) \in Seq(T)
    <2> DEFINE all == UpTo(high)
               parts == [x \in DOMAIN all |-> ConvRow(c, b, h, k, all[x])]
    <2>1. ConvMatrix(c, b, h, k) = Joined(parts, Len(all))
      BY DEF ConvMatrix, For
    <2>2. /\ Len(all) = high /\ DOMAIN all = 1 .. high
          /\ \A x \in 1 .. high : all[x] = x - 1 /\ x - 1 \in 0 .. high - 1
      BY <1>2, UpToIs
    <2> HIDE DEF all, high
    <2>3. \A x \in 1 .. high : parts[x] \in Seq(T)
      BY <1>4, <2>2
    <2> HIDE DEF parts
    <2>4. Joined(parts, high) \in Seq(T)
      BY <1>2, <2>3, JoinedType
    <2> QED  BY <2>1, <2>2, <2>4
  <1> DEFINE all == UpTo(c.channels)
             parts == [x \in DOMAIN all |-> ConvMatrix(c, b, h, all[x])]
  <1>6. ConvPlane(c, b, h) = Joined(parts, Len(all))
    BY DEF ConvPlane, For
  <1>7. /\ Len(all) = c.channels /\ DOMAIN all = 1 .. c.channels
        /\ \A x \in 1 .. c.channels : all[x] = x - 1 /\ x - 1 \in Nat
    BY <1>1, UpToIs
  <1> HIDE DEF all
  <1>8. \A x \in 1 .. c.channels : parts[x] \in Seq(T)
    BY <1>5, <1>7
  <1> HIDE DEF parts
  <1>9. Joined(parts, c.channels) \in Seq(T)
    BY <1>1, <1>8, JoinedType
  <1> QED  BY <1>6, <1>7, <1>9 DEF T, row

LEMMA ConvShares ==
  ASSUME NEW c \in Calls, c.kernel = "conv2d", PaddingIn(c), c.in # c.out, c.w # c.out,
         NEW n \in Nat \ {0}
  PROVE  Shares(c, n)
  <1>1. /\ c.batch \in Nat /\ c.outs \in Nat /\ Image(c) \in Nat
    BY PaddedSizes DEF Calls
  <1>2. \A b \in 0 .. c.batch - 1 : \A h \in 0 .. c.outs - 1 :
          ConvPlanes(c)[b][h] = ConvPlane(c, b, h) /\ b \in Nat /\ h \in Nat
    BY DEF ConvPlanes
  <1>3. \A b \in 0 .. c.batch - 1 : \A h \in 0 .. c.outs - 1 :
          ConvPlanes(c)[b][h] \in Seq(RowTasks(c.out, b * c.outs + h, Image(c)))
    BY <1>2, ConvInPlane
  <1>4. ASSUME NEW t \in Nat, NEW m \in Nat \ {0}
        PROVE  Body(c, t, m) = OverBatch(ConvPlanes(c), t, m, c.outs, c.batch)
    <2> DEFINE idx == Strided(t, m, c.outs)
               all == UpTo(c.batch)
               rounds(b) == Joined([y \in DOMAIN idx |-> ConvPlane(c, b, idx[y])], Len(idx))
    <2>1. Body(c, t, m) = conv2d(c, t, m)
      BY TasksOfRounds
    <2>2. conv2d(c, t, m) = Joined([x \in DOMAIN all |-> rounds(all[x])], Len(all))
      BY DEF conv2d, For, ConvPlane, ConvMatrix, ConvRow, ConvCell, Window, Image
    <2>3. \A y \in DOMAIN idx : idx[y] \in 0 .. c.outs - 1
      BY <1>1, StridedInside
    <2>4. /\ Len(all) = c.batch /\ DOMAIN all = 1 .. c.batch
          /\ \A x \in 1 .. c.batch : all[x] = x - 1 /\ x - 1 \in 0 .. c.batch - 1
      BY <1>1, UpToIs
    <2> HIDE DEF all
    <2>5. ASSUME NEW b \in 0 .. c.batch - 1
          PROVE  rounds(b) = Strides(ConvPlanes(c)[b], t, m, c.outs)
      <3> HIDE DEF idx
      <3>1. [y \in DOMAIN idx |-> ConvPlane(c, b, idx[y])]
              = [y \in DOMAIN idx |-> ConvPlanes(c)[b][idx[y]]]
        BY <1>2, <2>3
      <3> QED  BY <3>1 DEF Strides, idx
    <2> HIDE DEF idx, rounds
    <2>6. [x \in DOMAIN all |-> rounds(all[x])]
            = [x \in 1 .. c.batch |-> Strides(ConvPlanes(c)[x - 1], t, m, c.outs)]
      BY <2>4, <2>5
    <2> QED  BY <2>1, <2>2, <2>4, <2>6 DEF OverBatch
  <1>5. Body(c, 0, 1) = OverBatch(ConvPlanes(c), 0, 1, c.outs, c.batch)
    BY <1>4
  <1>6. \A t \in 0 .. n - 1 : Body(c, t, n) = OverBatch(ConvPlanes(c), t, n, c.outs, c.batch)
    BY <1>4
  <1>7. ArePlanes(ConvPlanes(c), c.out, c.batch, c.outs, Image(c))
    BY <1>3 DEF ArePlanes
  <1>8. MadeOfPlanes(c, n, ConvPlanes(c), c.batch, c.outs)
    BY <1>5, <1>6 DEF MadeOfPlanes
  <1> QED  BY <1>1, <1>7, <1>8, PlanesShare

-----------------------------------------------------------------------------
(* Kernels that thread 0 makes alone. *)

LEMMA AloneShares ==
  ASSUME NEW c, NEW n \in Nat \ {0}, Whole(c) \in Seq(TensorTasks), Tasks(c, 0, n) = Whole(c),
         \A t \in 1 .. n - 1 : Tasks(c, t, n) = <<>>
  PROVE  Shares(c, n)
  <1> DEFINE whole == Whole(c)
  <1>1. \A t \in 0 .. n - 1 : t = 0 \/ t \in 1 .. n - 1
    OBVIOUS
  <1>2. ASSUME NEW t \in 0 .. n - 1
        PROVE  Tasks(c, t, n) = whole \/ (Tasks(c, t, n) = <<>> /\ t # 0)
    BY <1>1
  <1>3. <<>> \in Seq(TensorTasks) /\ DOMAIN <<>> = {}
    OBVIOUS
  <1>4. /\ Written(<<>>) = {} /\ Touched(<<>>) = {}
    BY <1>3 DEF Written, Touched
  <1>5. Unbroken(c, n)
    BY <1>2, <1>3 DEF Unbroken
  <1>6. TasksOn(whole, Written(whole)) = whole /\ TasksOn(whole, {}) = <<>>
    <2>1. \A i \in DOMAIN whole : whole[i].cell \in Written(whole)
      BY DEF Written
    <2> HIDE DEF whole
    <2>2. whole \in Seq(TensorTasks)
      BY DEF whole
    <2> QED  BY <2>1, <2>2, SomeOfTasks
  <1>7. Divided(c, n)
    <2>1. ASSUME NEW t \in 0 .. n - 1
          PROVE  /\ Tasks(c, t, n) = TasksOn(whole, Written(Tasks(c, t, n)))
                 /\ Touched(Tasks(c, t, n)) \cap Written(whole) \subseteq Written(Tasks(c, t, n))
      <3>1. CASE Tasks(c, t, n) = whole
        BY <1>6, <3>1
      <3>2. CASE Tasks(c, t, n) = <<>>
        BY <1>4, <1>6, <3>2
      <3> QED  BY <1>2, <3>1, <3>2
    <2>2. 0 \in 0 .. n - 1
      OBVIOUS
    <2>3. Written(whole) \subseteq UNION {Written(Tasks(c, t, n)) : t \in 0 .. n - 1}
      BY <2>2
    <2> QED  BY <2>1, <2>3 DEF Divided
  <1>8. Apart(c, n)
    <2> SUFFICES ASSUME NEW t \in 0 .. n - 1, NEW u \in 0 .. n - 1, t # u
                 PROVE  DOMAIN Tasks(c, t, n) = {} \/ DOMAIN Tasks(c, u, n) = {}
      BY DEF Apart
    <2>1. t \in 1 .. n - 1 \/ u \in 1 .. n - 1
      BY <1>1
    <2> QED  BY <1>3, <2>1
  <1> QED  BY <1>5, <1>7, <1>8 DEF Shares

LEMMA TasksAlone ==
  ASSUME NEW c, c.kernel \in {"softmaxgrad", "conv2dbackpropinput"}, NEW t, NEW n
  PROVE  /\ c.kernel = "softmaxgrad" => Body(c, t, n) = softmaxgrad(c)
         /\ c.kernel = "conv2dbackpropinput" => Body(c, t, n) = conv2dbackpropinput(c)
         /\ t = 0 => Tasks(c, t, n) = Body(c, t, n) \o <<>>
         /\ t # 0 => Tasks(c, t, n) = <<>> \o <<>>
  <1>1. c.kernel = "softmaxgrad" => Body(c, t, n) = softmaxgrad(c)
    BY ElementwiseNames DEF Body
  <1>2. c.kernel = "conv2dbackpropinput" => Body(c, t, n) = conv2dbackpropinput(c)
    BY ElementwiseNames DEF Body
  <1>3. c.kernel # "conv2dbackpropfilter" /\ (Takes_part(c.kernel, t) <=> t = 0)
    BY DEF Takes_part
  <1>4. /\ t = 0 => Tasks(c, t, n) = Body(c, t, n) \o <<>>
        /\ t # 0 => Tasks(c, t, n) = <<>> \o <<>>
    BY <1>3 DEF Tasks
  <1> QED  BY <1>1, <1>2, <1>4

(* What has to be shown of such a kernel: what it is of.                   *)
LEMMA AloneMade ==
  ASSUME NEW c, c.kernel \in {"softmaxgrad", "conv2dbackpropinput"}, NEW n \in Nat \ {0},
         NEW whole \in Seq(TensorTasks),
         c.kernel = "softmaxgrad" => softmaxgrad(c) = whole,
         c.kernel = "conv2dbackpropinput" => conv2dbackpropinput(c) = whole
  PROVE  Shares(c, n)
  <1>1. whole \o <<>> = whole /\ <<>> \o <<>> = <<>>
    OBVIOUS
  <1>2. ASSUME NEW t, NEW m PROVE Body(c, t, m) = whole
    BY TasksAlone
  <1>3. Whole(c) = whole
    BY <1>2 DEF Whole
  <1>4. Tasks(c, 0, n) = whole
    <2>1. Tasks(c, 0, n) = Body(c, 0, n) \o <<>>
      BY TasksAlone
    <2>2. Body(c, 0, n) = whole
      BY <1>2
    <2> QED  BY <1>1, <2>1, <2>2
  <1>5. \A t \in 1 .. n - 1 : Tasks(c, t, n) = <<>>
    <2> SUFFICES ASSUME NEW t \in 1 .. n - 1 PROVE Tasks(c, t, n) = <<>>
      OBVIOUS
    <2>1. t # 0
      OBVIOUS
    <2> QED  BY <1>1, <2>1, TasksAlone
  <1> QED  BY <1>3, <1>4, <1>5, AloneShares

LEMMA CellsType ==
  ASSUME NEW tensor \in Tensors, NEW first \in Int, NEW count \in Int
  PROVE  Cells(tensor, first, count) \in Seq(TensorCells)
  <1> DEFINE n == IF count \in Nat THEN count ELSE 0
             s == Cells(tensor, first, count)
  <1>1. 1 .. count = 1 .. n /\ n \in Nat
    OBVIOUS
  <1>2. s = [k \in 1 .. n |-> <<tensor, first + k - 1>>]
    BY <1>1 DEF Cells
  <1>3. \A k \in 1 .. n : <<tensor, first + k - 1>> \in TensorCells
    BY DEF TensorCells
  <1> HIDE DEF n
  <1>4. s \in [1 .. n -> TensorCells]
    BY <1>2, <1>3
  <1> QED  BY <1>1, <1>4

LEMMA TaskType ==
  ASSUME NEW tensor \in Tensors, NEW x \in Int, NEW op \in Operations,
         NEW reads \in Seq(TensorCells)
  PROVE  <<Set(<<tensor, x>>, op, reads)>> \in Seq(TensorTasks)
         /\ <<Add(<<tensor, x>>, op, reads)>> \in Seq(TensorTasks)
  <1> DEFINE cell == <<tensor, x>>
             all == <<cell>> \o reads
  <1>1. cell \in TensorCells
    BY DEF TensorCells
  <1>2. all \in Seq(TensorCells)
    <2> HIDE DEF cell
    <2> QED  BY <1>1
  <1>3. /\ Set(cell, op, reads) = [do |-> "set", cell |-> cell, op |-> op, reads |-> reads]
        /\ Add(cell, op, reads) = [do |-> "add", cell |-> cell, op |-> op, reads |-> all]
    BY DEF Set, Add
  <1> HIDE DEF cell, all
  <1>4. Set(cell, op, reads) \in TensorTasks /\ Add(cell, op, reads) \in TensorTasks
    BY <1>1, <1>2, <1>3 DEF TensorTasks
  <1>5. \A a \in TensorTasks : <<a>> \in Seq(TensorTasks)
    OBVIOUS
  <1>6. <<Set(cell, op, reads)>> \in Seq(TensorTasks) /\ <<Add(cell, op, reads)>> \in Seq(TensorTasks)
    BY <1>4, <1>5
  <1> QED  BY <1>6 DEF cell

SumRow(c, i) ==
  <<Set(<<c.out, i>>, "softmaxgrad",
        Cells(c.in, 0, i + 1) \o Cells(c.in, 0, c.size) \o Cells(c.w, 0, c.size))>>

LEMMA SumsShare ==
  ASSUME NEW c \in Calls, c.kernel = "softmaxgrad", NEW n \in Nat \ {0}
  PROVE  Shares(c, n)
  <1> DEFINE all == UpTo(c.size)
             parts == [k \in DOMAIN all |-> SumRow(c, all[k])]
             whole == Joined(parts, Len(all))
  <1>1. c.size \in Nat /\ c.in \in Tensors /\ c.w \in Tensors /\ c.out \in Tensors
    BY DEF Calls
  <1>2. /\ Len(all) = c.size /\ DOMAIN all = 1 .. c.size
        /\ \A k \in 1 .. c.size : all[k] = k - 1
    BY <1>1, UpToIs
  <1>5. softmaxgrad(c) = whole
    BY DEF softmaxgrad, For, SumRow
  <1> HIDE DEF all
  <1>3. ASSUME NEW i \in Int PROVE SumRow(c, i) \in Seq(TensorTasks)
    <2> DEFINE a == Cells(c.in, 0, i + 1)
               b == Cells(c.in, 0, c.size)
               d == Cells(c.w, 0, c.size)
    <2>1. a \in Seq(TensorCells) /\ b \in Seq(TensorCells) /\ d \in Seq(TensorCells)
      <3>1. i + 1 \in Int /\ c.size \in Int
        BY <1>1
      <3>2. \A first, count \in Int : /\ Cells(c.in, first, count) \in Seq(TensorCells)
                                      /\ Cells(c.w, first, count) \in Seq(TensorCells)
        BY <1>1, CellsType
      <3>3. ASSUME NEW count \in Int
            PROVE  Cells(c.in, 0, count) \in Seq(TensorCells) /\ Cells(c.w, 0, count) \in Seq(TensorCells)
        <4> DEFINE first == 0
        <4>1. first \in Int
          OBVIOUS
        <4> HIDE DEF first
        <4>2. /\ Cells(c.in, first, count) \in Seq(TensorCells)
              /\ Cells(c.w, first, count) \in Seq(TensorCells)
          BY <3>2, <4>1
        <4> QED  BY <4>2 DEF first
      <3> QED  BY <3>1, <3>3
    <2>2. SumRow(c, i) = <<Set(<<c.out, i>>, "softmaxgrad", a \o b \o d)>>
      BY DEF SumRow
    <2> HIDE DEF a, b, d
    <2>3. a \o b \o d \in Seq(TensorCells)
      BY <2>1
    <2>4. "softmaxgrad" \in Operations
      BY DEF Operations
    <2> QED  BY <1>1, <2>2, <2>3, <2>4, TaskType
  <1>4. \A k \in 1 .. c.size : parts[k] \in Seq(TensorTasks)
    BY <1>2, <1>3
  <1> HIDE DEF parts
  <1>6. whole \in Seq(TensorTasks)
    BY <1>1, <1>2, <1>4, JoinedType
  <1> HIDE DEF whole
  <1> QED  BY <1>5, <1>6, AloneMade

(* The gradient of the input: six loops, one in the other.                 *)
DxReads(c, inc, outc, y, x, f) ==
  <<<<c.w, (inc * c.outs + outc) * GradientSizes(c).filter + f>>,
    <<c.in, outc * GradientSizes(c).outs + y * c.width + x>>>>
DxDelta(c, b, inc, outc, y, x, f) ==
  <<Add(<<c.out, (b * c.channels + inc) * GradientSizes(c).ins
                   + (y + f \div c.filter) * GradientSizes(c).width + x + (f % c.filter)>>, "dx",
        DxReads(c, inc, outc, y, x, f))>>
DxWindow(c, b, inc, outc, y, x) ==
  For(UpTo(GradientSizes(c).filter), LAMBDA f : DxDelta(c, b, inc, outc, y, x, f))
DxLine(c, b, inc, outc, y) ==
  For(UpTo(c.width), LAMBDA x : DxWindow(c, b, inc, outc, y, x))
DxPlane(c, b, inc, outc) ==
  For(UpTo(c.height), LAMBDA y : DxLine(c, b, inc, outc, y))
DxOuts(c, b, inc) ==
  For(UpTo(c.outs), LAMBDA outc : DxPlane(c, b, inc, outc))
DxIns(c, b) ==
  For(UpTo(c.channels), LAMBDA inc : DxOuts(c, b, inc))

LEMMA GradientNumbers ==
  ASSUME NEW c \in Calls
  PROVE  /\ GradientSizes(c).width \in Nat /\ GradientSizes(c).ins \in Nat
         /\ GradientSizes(c).outs \in Nat /\ GradientSizes(c).filter \in Nat
         /\ GradientSizes(c).filter = c.filter * c.filter
  <1> DEFINE pad == IF c.padding THEN 2 ELSE 0
  <1>1. pad \in Nat /\ c.height \in Nat /\ c.width \in Nat /\ c.filter \in Nat
    BY DEF Calls
  <1>2. GradientSizes(c) = [width |-> c.width + pad, ins |-> (c.height + pad) * (c.width + pad),
                            outs |-> c.height * c.width, filter |-> c.filter * c.filter]
    BY DEF GradientSizes
  <1> HIDE DEF pad
  <1>3. c.width + pad \in Nat /\ c.height + pad \in Nat
    BY <1>1
  <1> QED  BY <1>1, <1>2, <1>3

LEMMA DxDeltaType ==
  ASSUME NEW c \in Calls, NEW b \in Int, NEW inc \in Int, NEW outc \in Int, NEW y \in Int,
         NEW x \in Int, NEW f \in 0 .. GradientSizes(c).filter - 1
  PROVE  DxDelta(c, b, inc, outc, y, x, f) \in Seq(TensorTasks)
  <1> DEFINE s == GradientSizes(c)
             at == (b * c.channels + inc) * s.ins + (y + f \div c.filter) * s.width + x + (f % c.filter)
             weight == (inc * c.outs + outc) * s.filter + f
             input == outc * s.outs + y * c.width + x
             reads == <<<<c.w, weight>>, <<c.in, input>>>>
  <1>1. /\ c.in \in Tensors /\ c.w \in Tensors /\ c.out \in Tensors
        /\ c.channels \in Nat /\ c.outs \in Nat /\ c.width \in Nat /\ c.filter \in Nat
    BY DEF Calls
  <1>2. /\ s.width \in Int /\ s.ins \in Int /\ s.outs \in Int /\ s.filter \in Int
        /\ s.filter = c.filter * c.filter
    BY GradientNumbers
  <1>3. f \in Int /\ c.filter \in Nat \ {0}
    <2>1. f \in Int /\ 0 < s.filter
      BY <1>2
    <2>2. c.filter # 0
      <3> SUFFICES ASSUME c.filter = 0 PROVE FALSE
        OBVIOUS
      <3>1. c.filter * c.filter = 0
        OBVIOUS
      <3> QED  BY <1>2, <2>1, <3>1
    <2> QED  BY <1>1, <2>1, <2>2
  <1> HIDE DEF s
  <1>4. f \div c.filter \in Int /\ f % c.filter \in Int
    BY <1>3
  <1>5. at \in Int
    <2>1. b * c.channels + inc \in Int
      BY <1>1
    <2>2. (b * c.channels + inc) * s.ins \in Int
      BY <1>2, <2>1
    <2>3. (y + f \div c.filter) * s.width \in Int
      BY <1>2, <1>4
    <2> QED  BY <1>4, <2>2, <2>3
  <1>6. weight \in Int
    <2>1. inc * c.outs + outc \in Int
      BY <1>1
    <2>2. (inc * c.outs + outc) * s.filter \in Int
      BY <1>2, <2>1
    <2> QED  BY <1>3, <2>2
  <1>7. input \in Int
    <2>1. outc * s.outs \in Int /\ y * c.width \in Int
      BY <1>1, <1>2
    <2> QED  BY <2>1
  <1>8. DxDelta(c, b, inc, outc, y, x, f) = <<Add(<<c.out, at>>, "dx", reads)>>
    BY DEF DxDelta, DxReads, s
  <1> HIDE DEF at, weight, input
  <1>9. reads \in Seq(TensorCells)
    <2> DEFINE a == <<c.w, weight>>
               d == <<c.in, input>>
    <2>1. a \in TensorCells /\ d \in TensorCells
      BY <1>1, <1>6, <1>7 DEF TensorCells
    <2> HIDE DEF a, d
    <2>2. <<a, d>> \in Seq(TensorCells)
      BY <2>1
    <2> QED  BY <2>2 DEF a, d
  <1>10. "dx" \in Operations
    BY DEF Operations
  <1> HIDE DEF reads
  <1> QED  BY <1>1, <1>5, <1>8, <1>9, <1>10, TaskType

LEMMA DxShares ==
  ASSUME NEW c \in Calls, c.kernel = "conv2dbackpropinput", NEW n \in Nat \ {0}
  PROVE  Shares(c, n)
  <1>1. /\ c.batch \in Nat /\ c.channels \in Nat /\ c.outs \in Nat /\ c.height \in Nat
        /\ c.width \in Nat /\ GradientSizes(c).filter \in Nat
    BY GradientNumbers DEF Calls
  <1>2. ASSUME NEW b \in Int, NEW inc \in Int, NEW outc \in Int, NEW y \in Int, NEW x \in Int
        PROVE  DxWindow(c, b, inc, outc, y, x) \in Seq(TensorTasks)
    <2> DEFINE all == UpTo(GradientSizes(c).filter)
               parts == [k \in DOMAIN all |-> DxDelta(c, b, inc, outc, y, x, all[k])]
    <2>1. DxWindow(c, b, inc, outc, y, x) = Joined(parts, Len(all))
      BY DEF DxWindow, For
    <2>2. /\ Len(all) = GradientSizes(c).filter /\ DOMAIN all = 1 .. GradientSizes(c).filter
          /\ \A k \in 1 .. GradientSizes(c).filter : all[k] = k - 1 /\ k - 1 \in 0 .. GradientSizes(c).filter - 1
      BY <1>1, UpToIs
    <2> HIDE DEF all
    <2>3. \A k \in 1 .. GradientSizes(c).filter : parts[k] \in Seq(TensorTasks)
      BY DxDeltaType, <2>2
    <2> HIDE DEF parts
    <2>4. Joined(parts, GradientSizes(c).filter) \in Seq(TensorTasks)
      BY <1>1, <2>3, JoinedType
    <2> QED  BY <2>1, <2>2, <2>4
  <1>3. ASSUME NEW b \in Int, NEW inc \in Int, NEW outc \in Int, NEW y \in Int
        PROVE  DxLine(c, b, inc, outc, y) \in Seq(TensorTasks)
    <2> DEFINE all == UpTo(c.width)
               parts == [k \in DOMAIN all |-> DxWindow(c, b, inc, outc, y, all[k])]
    <2>1. DxLine(c, b, inc, outc, y) = Joined(parts, Len(all))
      BY DEF DxLine, For
    <2>2. /\ Len(all) = c.width /\ DOMAIN all = 1 .. c.width
          /\ \A k \in 1 .. c.width : all[k] = k - 1 /\ k - 1 \in Int
      BY <1>1, UpToIs
    <2> HIDE DEF all
    <2>3. \A k \in 1 .. c.width : parts[k] \in Seq(TensorTasks)
      BY <1>2, <2>2
    <2> HIDE DEF parts
    <2>4. Joined(parts, c.width) \in Seq(TensorTasks)
      BY <1>1, <2>3, JoinedType
    <2> QED  BY <2>1, <2>2, <2>4
  <1>4. ASSUME NEW b \in Int, NEW inc \in Int, NEW outc \in Int
        PROVE  DxPlane(c, b, inc, outc) \in Seq(TensorTasks)
    <2> DEFINE all == UpTo(c.height)
               parts == [k \in DOMAIN all |-> DxLine(c, b, inc, outc, all[k])]
    <2>1. DxPlane(c, b, inc, outc) = Joined(parts, Len(all))
      BY DEF DxPlane, For
    <2>2. /\ Len(all) = c.height /\ DOMAIN all = 1 .. c.height
          /\ \A k \in 1 .. c.height : all[k] = k - 1 /\ k - 1 \in Int
      BY <1>1, UpToIs
    <2> HIDE DEF all
    <2>3. \A k \in 1 .. c.height : parts[k] \in Seq(TensorTasks)
      BY <1>3, <2>2
    <2> HIDE DEF parts
    <2>4. Joined(parts, c.height) \in Seq(TensorTasks)
      BY <1>1, <2>3, JoinedType
    <2> QED  BY <2>1, <2>2, <2>4
  <1>5. ASSUME NEW b \in Int, NEW inc \in Int
        PROVE  DxOuts(c, b, inc) \in Seq(TensorTasks)
    <2> DEFINE all == UpTo(c.outs)
               parts == [k \in DOMAIN all |-> DxPlane(c, b, inc, all[k])]
    <2>1. DxOuts(c, b, inc) = Joined(parts, Len(all))
      BY DEF DxOuts, For
    <2>2. /\ Len(all) = c.outs /\ DOMAIN all = 1 .. c.outs
          /\ \A k \in 1 .. c.outs : all[k] = k - 1 /\ k - 1 \in Int
      BY <1>1, UpToIs
    <2> HIDE DEF all
    <2>3. \A k \in 1 .. c.outs : parts[k] \in Seq(TensorTasks)
      BY <1>4, <2>2
    <2> HIDE DEF parts
    <2>4. Joined(parts, c.outs) \in Seq(TensorTasks)
      BY <1>1, <2>3, JoinedType
    <2> QED  BY <2>1, <2>2, <2>4
  <1>6. ASSUME NEW b \in Int
        PROVE  DxIns(c, b) \in Seq(TensorTasks)
    <2> DEFINE all == UpTo(c.channels)
               parts == [k \in DOMAIN all |-> DxOuts(c, b, all[k])]
    <2>1. DxIns(c, b) = Joined(parts, Len(all))
      BY DEF DxIns, For
    <2>2. /\ Len(all) = c.channels /\ DOMAIN all = 1 .. c.channels
          /\ \A k \in 1 .. c.channels : all[k] = k - 1 /\ k - 1 \in Int
      BY <1>1, UpToIs
    <2> HIDE DEF all
    <2>3. \A k \in 1 .. c.channels : parts[k] \in Seq(TensorTasks)
      BY <1>5, <2>2
    <2> HIDE DEF parts
    <2>4. Joined(parts, c.channels) \in Seq(TensorTasks)
      BY <1>1, <2>3, JoinedType
    <2> QED  BY <2>1, <2>2, <2>4
  <1> DEFINE all == UpTo(c.batch)
             parts == [k \in DOMAIN all |-> DxIns(c, all[k])]
             whole == Joined(parts, Len(all))
  <1>7. conv2dbackpropinput(c) = whole
    BY DEF conv2dbackpropinput, For, DxIns, DxOuts, DxPlane, DxLine, DxWindow, DxDelta, DxReads
  <1>8. /\ Len(all) = c.batch /\ DOMAIN all = 1 .. c.batch
        /\ \A k \in 1 .. c.batch : all[k] = k - 1 /\ k - 1 \in Int
    BY <1>1, UpToIs
  <1> HIDE DEF all
  <1>9. \A k \in 1 .. c.batch : parts[k] \in Seq(TensorTasks)
    BY <1>6, <1>8
  <1> HIDE DEF parts
  <1>10. whole \in Seq(TensorTasks)
    BY <1>1, <1>8, <1>9, JoinedType
  <1> HIDE DEF whole
  <1> QED  BY <1>7, <1>10, AloneMade

-----------------------------------------------------------------------------
(* dense: a thread makes rows that other threads make as well, the same.   *)

DenseCell(c, i, h) ==
  Set(<<c.out, i * c.outs + h>>, "dense",
      Cells(c.in, i * c.channels, c.channels) \o Cells(c.w, h * c.channels, c.channels))
DenseRow(c, i) == For(UpTo(c.outs), LAMBDA h : <<DenseCell(c, i, h)>>)
DenseRows(c) == [k \in 1 .. c.batch |-> DenseRow(c, k - 1)]
DensePart(c, t) == Joined(DenseRows(c), IF t < c.batch THEN c.batch - t ELSE 0)
DenseParts(c, n) == [t \in 0 .. n - 1 |-> DensePart(c, t)]

LEMMA DenseCellIs ==
  ASSUME NEW c \in Calls, c.in # c.out, c.w # c.out, NEW i \in Nat, NEW h \in 0 .. c.outs - 1
  PROVE  /\ DenseCell(c, i, h) \in RowTasks(c.out, i, c.outs)
         /\ DenseCell(c, i, h).cell = <<c.out, i * c.outs + h>>
         /\ <<DenseCell(c, i, h)>> \in Seq(RowTasks(c.out, i, c.outs))
  <1> DEFINE R == RowCells(c.out, i, c.outs)
             a == Cells(c.in, i * c.channels, c.channels)
             b == Cells(c.w, h * c.channels, c.channels)
             T == RowTasks(c.out, i, c.outs)
             x == i * c.outs + h
             task == DenseCell(c, i, h)
  <1>1. /\ c.in \in Tensors /\ c.w \in Tensors /\ c.out \in Tensors
        /\ c.channels \in Nat /\ c.outs \in Nat /\ i \in Int /\ h \in Nat
    BY DEF Calls
  <1>2. i * c.channels \in Int /\ h * c.channels \in Int
    BY <1>1
  <1>3. a \in Seq(R) /\ b \in Seq(R)
    <2> DEFINE first == i * c.channels
               second == h * c.channels
    <2> HIDE DEF first, second, R
    <2>1. first \in Int /\ second \in Int
      BY <1>2 DEF first, second
    <2>2. Cells(c.in, first, c.channels) \in Seq(R) /\ Cells(c.w, second, c.channels) \in Seq(R)
      BY <1>1, <2>1, CellsInRow DEF R
    <2> QED  BY <2>2 DEF first, second
  <1>4. task = Set(<<c.out, x>>, "dense", a \o b)
    BY DEF DenseCell
  <1>5. x \in Row(i, c.outs)
    <2> DEFINE low == i * c.outs
    <2>1. low \in Int
      BY <1>1
    <2> HIDE DEF low
    <2>2. low + h \in low .. low + c.outs - 1
      BY <1>1, <2>1
    <2> QED  BY <2>2 DEF low, Row
  <1>6. "dense" \in Operations
    BY DEF Operations
  <1> HIDE DEF a, b, R
  <1>7. a \o b \in Seq(R)
    BY <1>3
  <1> DEFINE reads == a \o b
  <1> HIDE DEF x, reads
  <1>8. <<Set(<<c.out, x>>, "dense", reads)>> \in Seq(T)
    BY <1>1, <1>5, <1>6, <1>7, SetInRow DEF R, reads
  <1>9. task = Set(<<c.out, x>>, "dense", reads)
    BY <1>4 DEF reads
  <1>10. task.cell = <<c.out, x>>
    BY <1>9 DEF Set
  <1> HIDE DEF T, task
  <1>11. \A s : <<s>> \in Seq(T) => s \in T
    <2> SUFFICES ASSUME NEW s, <<s>> \in Seq(T) PROVE s \in T
      OBVIOUS
    <2> DEFINE one == <<s>>
    <2>1. one \in Seq(T) /\ 1 \in DOMAIN one /\ one[1] = s
      OBVIOUS
    <2> HIDE DEF one
    <2>2. one[1] \in T
      BY <2>1
    <2> QED  BY <2>1, <2>2
  <1> QED  BY <1>8, <1>9, <1>10, <1>11 DEF x, T, task

LEMMA DenseRowIs ==
  ASSUME NEW c \in Calls, c.in # c.out, c.w # c.out, NEW i \in Nat
  PROVE  /\ DenseRow(c, i) \in Seq(RowTasks(c.out, i, c.outs))
         /\ \A x \in DOMAIN DenseRow(c, i) : \E h \in 0 .. c.outs - 1 :
              DenseRow(c, i)[x] = DenseCell(c, i, h)
  <1> DEFINE all == UpTo(c.outs)
             parts == [k \in DOMAIN all |-> <<DenseCell(c, i, all[k])>>]
             T == RowTasks(c.out, i, c.outs)
             s == Joined(parts, c.outs)
  <1>1. c.outs \in Nat
    BY DEF Calls
  <1>2. /\ Len(all) = c.outs /\ DOMAIN all = 1 .. c.outs
        /\ \A k \in 1 .. c.outs : all[k] = k - 1 /\ k - 1 \in 0 .. c.outs - 1
    BY <1>1, UpToIs
  <1>3. DenseRow(c, i) = Joined(parts, Len(all))
    BY DEF DenseRow, For
  <1> HIDE DEF all
  <1>4. \A k \in 1 .. c.outs : parts[k] = <<DenseCell(c, i, k - 1)>>
    BY <1>2
  <1>5. \A k \in 1 .. c.outs : parts[k] \in Seq(T)
    BY <1>2, <1>4, DenseCellIs
  <1> HIDE DEF parts, T
  <1>6. s \in Seq(T)
    BY <1>1, <1>5, JoinedType
  <1>7. Gathers(s, parts, c.outs)
    BY <1>1, <1>5, JoinedElements
  <1> HIDE DEF s
  <1>8. ASSUME NEW x \in DOMAIN s PROVE \E h \in 0 .. c.outs - 1 : s[x] = DenseCell(c, i, h)
    <2>1. PICK k \in 1 .. c.outs : \E y \in DOMAIN parts[k] : s[x] = parts[k][y]
      BY <1>7 DEF Gathers
    <2>2. s[x] = DenseCell(c, i, k - 1)
      BY <1>4, <2>1
    <2> QED  BY <1>2, <2>2
  <1>9. DenseRow(c, i) = s
    BY <1>2, <1>3 DEF s
  <1> QED  BY <1>6, <1>8, <1>9 DEF T

(* Rounds that do nothing, after the first ones, do not count.             *)
FirstOf(some, parts, n, m) ==
  \A k \in 1 .. n : some[k] = IF k <= m THEN parts[k] ELSE <<>>

LEMMA JoinedPrefix ==
  ASSUME NEW T, NEW parts, NEW some, NEW n \in Nat, NEW m \in 0 .. n,
         \A k \in 1 .. n : parts[k] \in Seq(T),
         FirstOf(some, parts, n, m)
  PROVE  Joined(some, n) = Joined(parts, m)
  <1> DEFINE S == {j \in Nat : m + j <= n => Joined(some, m + j) = Joined(parts, m)}
  <1>1. m \in Nat /\ m + 0 = m
    OBVIOUS
  <1>2. 0 \in S
    <2>1. \A k \in 1 .. m : some[k] = parts[k]
      BY DEF FirstOf
    <2>2. Joined(some, m) = Joined(parts, m)
      BY <1>1, <2>1, JoinedSame
    <2> QED  BY <1>1, <2>2
  <1>3. Joined(parts, m) \in Seq(T)
    <2>1. \A k \in 1 .. m : parts[k] \in Seq(T)
      OBVIOUS
    <2> QED  BY <1>1, <2>1, JoinedType
  <1>4. ASSUME NEW j \in S PROVE j + 1 \in S
    <2> SUFFICES ASSUME m + (j + 1) <= n
                 PROVE  Joined(some, m + (j + 1)) = Joined(parts, m)
      OBVIOUS
    <2>1. /\ j \in Nat /\ m + j \in Nat /\ m + (j + 1) = (m + j) + 1
          /\ Joined(some, m + j) = Joined(parts, m)
      OBVIOUS
    <2>2. some[(m + j) + 1] = <<>>
      BY <2>1 DEF FirstOf
    <2>3. Joined(some, (m + j) + 1) = Joined(some, m + j) \o some[(m + j) + 1]
      BY <2>1, JoinedUnfolds
    <2> DEFINE s == Joined(parts, m)
    <2> HIDE DEF s
    <2>4. s \o <<>> = s
      BY <1>3 DEF s
    <2> QED  BY <2>1, <2>2, <2>3, <2>4 DEF s
  <1>5. n - m \in S
    <2>1. S \in SUBSET Nat /\ n - m \in Nat
      OBVIOUS
    <2> HIDE DEF S
    <2> QED  BY <1>2, <1>4, <2>1, SetInduction
  <1>6. m + (n - m) = n
    OBVIOUS
  <1> QED  BY <1>5, <1>6

LEMMA DenseReads ==
  ASSUME NEW c \in Calls, c.in # c.out, c.w # c.out, NEW i \in Nat, NEW h \in Nat
  PROVE  \A k \in DOMAIN DenseCell(c, i, h).reads : DenseCell(c, i, h).reads[k][1] # c.out
  <1> DEFINE a == Cells(c.in, i * c.channels, c.channels)
             b == Cells(c.w, h * c.channels, c.channels)
             R == {cell \in TensorCells : cell[1] # c.out}
             s == a \o b
  <1>1. /\ c.in \in Tensors /\ c.w \in Tensors /\ c.channels \in Nat
        /\ i * c.channels \in Int /\ h * c.channels \in Int
    BY DEF Calls
  <1>2. a \in Seq(TensorCells) /\ b \in Seq(TensorCells)
    <2> DEFINE first == i * c.channels
               second == h * c.channels
    <2> HIDE DEF first, second
    <2>1. first \in Int /\ second \in Int /\ c.channels \in Int
      BY <1>1 DEF first, second
    <2>2. Cells(c.in, first, c.channels) \in Seq(TensorCells)
          /\ Cells(c.w, second, c.channels) \in Seq(TensorCells)
      BY <1>1, <2>1, CellsType
    <2> QED  BY <2>2 DEF first, second
  <1>3. (\A k \in DOMAIN a : a[k][1] # c.out) /\ (\A k \in DOMAIN b : b[k][1] # c.out)
    BY DEF Cells
  <1>4. DenseCell(c, i, h).reads = s
    BY DEF DenseCell, Set
  <1> HIDE DEF a, b
  <1>5. \A q : (q \in Seq(TensorCells) /\ \A k \in DOMAIN q : q[k][1] # c.out) => q \in Seq(R)
    <2> SUFFICES ASSUME NEW q, q \in Seq(TensorCells), \A k \in DOMAIN q : q[k][1] # c.out
                 PROVE  q \in Seq(R)
      OBVIOUS
    <2>1. \A k \in DOMAIN q : q[k] \in R
      OBVIOUS
    <2> HIDE DEF R
    <2> QED  BY <2>1
  <1> HIDE DEF R
  <1>6. a \in Seq(R) /\ b \in Seq(R)
    BY <1>2, <1>3, <1>5
  <1>7. s \in Seq(R)
    BY <1>6
  <1> HIDE DEF s
  <1>8. \A k \in DOMAIN s : s[k] \in R
    BY <1>7
  <1> QED  BY <1>4, <1>8 DEF R

(* A cell has one task, whoever does it.                                   *)
LEMMA DenseUnique ==
  ASSUME NEW c \in Calls, c.in # c.out, c.w # c.out,
         NEW i \in Nat, NEW h \in 0 .. c.outs - 1, NEW j \in Nat, NEW g \in 0 .. c.outs - 1,
         DenseCell(c, i, h).cell = DenseCell(c, j, g).cell
  PROVE  i = j /\ h = g
  <1>1. c.outs \in Nat
    BY DEF Calls
  <1>2. /\ DenseCell(c, i, h) \in RowTasks(c.out, i, c.outs)
        /\ DenseCell(c, j, g) \in RowTasks(c.out, j, c.outs)
        /\ DenseCell(c, i, h).cell = <<c.out, i * c.outs + h>>
        /\ DenseCell(c, j, g).cell = <<c.out, j * c.outs + g>>
    BY DenseCellIs
  <1>3. i = j
    BY <1>1, <1>2, RowsApart
  <1>4. i * c.outs + h = i * c.outs + g
    <2>1. DenseCell(c, j, g).cell = <<c.out, i * c.outs + g>>
      BY <1>2, <1>3
    <2> DEFINE x == i * c.outs + h
               y == i * c.outs + g
    <2>2. <<c.out, x>> = <<c.out, y>>
      BY <1>2, <2>1
    <2> HIDE DEF x, y
    <2>3. x = y
      BY <2>2
    <2> QED  BY <2>3 DEF x, y
  <1> DEFINE low == i * c.outs
  <1>5. low \in Int /\ h \in Int /\ g \in Int
    BY <1>1
  <1> HIDE DEF low
  <1>6. low + h = low + g
    BY <1>4 DEF low
  <1> QED  BY <1>3, <1>5, <1>6

LEMMA DensePartIs ==
  ASSUME NEW c \in Calls, c.in # c.out, c.w # c.out, NEW m \in 0 .. c.batch
  PROVE  LET s == Joined(DenseRows(c), m)
         IN  /\ s \in Seq(TensorTasks)
             /\ Gathers(s, DenseRows(c), m)
             /\ \A x \in DOMAIN s : \E i \in 0 .. m - 1, h \in 0 .. c.outs - 1 :
                  s[x] = DenseCell(c, i, h)
  <1> DEFINE s == Joined(DenseRows(c), m)
  <1>1. m \in Nat /\ \A k \in 1 .. m : k \in 1 .. c.batch /\ k - 1 \in Nat /\ k - 1 \in 0 .. m - 1
    BY DEF Calls
  <1>2. \A k \in 1 .. m : DenseRows(c)[k] = DenseRow(c, k - 1)
    BY <1>1 DEF DenseRows
  <1>3. \A k \in 1 .. m : DenseRows(c)[k] \in Seq(RowTasks(c.out, k - 1, c.outs))
    BY <1>1, <1>2, DenseRowIs
  <1>4. \A k \in 1 .. m : DenseRows(c)[k] \in Seq(TensorTasks)
    BY <1>3, RowsAre
  <1>5. s \in Seq(TensorTasks)
    BY <1>1, <1>4, JoinedType
  <1>6. Gathers(s, DenseRows(c), m)
    BY <1>1, <1>4, JoinedElements
  <1> HIDE DEF s
  <1>7. ASSUME NEW x \in DOMAIN s
        PROVE  \E i \in 0 .. m - 1, h \in 0 .. c.outs - 1 : s[x] = DenseCell(c, i, h)
    <2>1. PICK k \in 1 .. m : \E y \in DOMAIN DenseRows(c)[k] : s[x] = DenseRows(c)[k][y]
      BY <1>6 DEF Gathers
    <2>2. \E h \in 0 .. c.outs - 1 : s[x] = DenseCell(c, k - 1, h)
      BY <1>1, <1>2, <2>1, DenseRowIs
    <2> QED  BY <1>1, <2>2
  <1> QED  BY <1>5, <1>6, <1>7 DEF s

LEMMA DensePartOf ==
  ASSUME NEW c \in Calls, c.in # c.out, c.w # c.out, NEW m \in 0 .. c.batch
  PROVE  PartOf(Joined(DenseRows(c), c.batch), Joined(DenseRows(c), m))
  <1> DEFINE rows == DenseRows(c)
             part == Joined(rows, m)
             whole == Joined(rows, c.batch)
             W == Written(part)
             some == [k \in 1 .. c.batch |-> TasksOn(rows[k], W)]
  <1>1. c.batch \in Nat /\ m \in Nat /\ c.batch \in 0 .. c.batch
    BY DEF Calls
  <1>2. /\ part \in Seq(TensorTasks) /\ Gathers(part, rows, m)
        /\ \A x \in DOMAIN part : \E i \in 0 .. m - 1, h \in 0 .. c.outs - 1 :
             part[x] = DenseCell(c, i, h)
    BY DensePartIs
  <1>3. ASSUME NEW k \in 1 .. c.batch
        PROVE  /\ rows[k] \in Seq(TensorTasks)
               /\ \A x \in DOMAIN rows[k] : \E h \in 0 .. c.outs - 1 :
                    rows[k][x] = DenseCell(c, k - 1, h)
    <2>1. rows[k] = DenseRow(c, k - 1) /\ k - 1 \in Nat
      BY <1>1 DEF DenseRows
    <2>2. rows[k] \in Seq(RowTasks(c.out, k - 1, c.outs))
      BY <2>1, DenseRowIs
    <2>3. rows[k] \in Seq(TensorTasks)
      BY <2>2, RowsAre
    <2> QED  BY <2>1, <2>3, DenseRowIs
  <1> HIDE DEF rows
  <1>4. \A k \in 1 .. c.batch : rows[k] \in Seq(TensorTasks)
    BY <1>3
  <1>8. TasksOn(whole, W) = Joined(some, c.batch)
    <2> HIDE DEF W
    <2> QED  BY <1>1, <1>4, TasksOnJoined, SMTT(30)
  <1>5. ASSUME NEW k \in 1 .. c.batch
        PROVE  some[k] = IF k <= m THEN rows[k] ELSE <<>>
    <2>1. some[k] = TasksOn(rows[k], W)
      OBVIOUS
    <2>2. CASE k <= m
      <3>1. k \in 1 .. m
        BY <1>1, <2>2
      <3>2. \A x \in DOMAIN rows[k] : rows[k][x].cell \in W
        BY <1>2, <3>1 DEF Gathers, Written
      <3> HIDE DEF W, some
      <3>3. TasksOn(rows[k], W) = rows[k]
        BY <1>3, <3>2, SomeOfTasks
      <3> QED  BY <2>1, <2>2, <3>3
    <2>3. CASE ~ (k <= m)
      <3>1. ASSUME NEW x \in DOMAIN rows[k] PROVE rows[k][x].cell \notin W
        <4> SUFFICES ASSUME rows[k][x].cell \in W PROVE FALSE
          OBVIOUS
        <4>1. PICK y \in DOMAIN part : part[y].cell = rows[k][x].cell
          BY DEF Written
        <4>2. PICK i \in 0 .. m - 1, h \in 0 .. c.outs - 1 : part[y] = DenseCell(c, i, h)
          BY <1>2
        <4>3. PICK g \in 0 .. c.outs - 1 : rows[k][x] = DenseCell(c, k - 1, g)
          BY <1>3
        <4>4. i \in Nat /\ k - 1 \in Nat /\ i # k - 1
          BY <1>1, <2>3
        <4> QED  BY <4>1, <4>2, <4>3, <4>4, DenseUnique
      <3> HIDE DEF W, some
      <3>2. TasksOn(rows[k], W) = <<>>
        BY <1>3, <3>1, SomeOfTasks
      <3> QED  BY <2>1, <2>3, <3>2
    <2> QED  BY <2>2, <2>3
  <1>6. Joined(some, c.batch) = part
    <2>1. FirstOf(some, rows, c.batch, m)
      BY <1>5 DEF FirstOf
    <2> HIDE DEF some, W
    <2> QED  BY <1>1, <1>4, <2>1, JoinedPrefix
  <1>7. Touched(part) \cap Written(whole) \subseteq Written(part)
    <2> SUFFICES ASSUME NEW cell \in Touched(part), cell \in Written(whole)
                 PROVE  cell \in Written(part)
      OBVIOUS
    <2>1. PICK x \in DOMAIN part :
            cell = part[x].cell \/ \E a \in DOMAIN part[x].reads : cell = part[x].reads[a]
      BY DEF Touched
    <2>2. CASE cell = part[x].cell
      BY <2>2 DEF Written
    <2>3. CASE \E a \in DOMAIN part[x].reads : cell = part[x].reads[a]
      <3>1. PICK i \in 0 .. m - 1, h \in 0 .. c.outs - 1 : part[x] = DenseCell(c, i, h)
        BY <1>2
      <3>2. cell[1] # c.out
        <4>1. i \in Nat /\ h \in Nat
          BY <1>1
        <4> QED  BY <2>3, <3>1, <4>1, DenseReads
      <3>3. PICK y \in DOMAIN whole : cell = whole[y].cell
        BY DEF Written
      <3>4. PICK j \in 0 .. c.batch - 1, g \in 0 .. c.outs - 1 : whole[y] = DenseCell(c, j, g)
        BY <1>1, DensePartIs DEF rows
      <3>5. whole[y].cell = <<c.out, j * c.outs + g>>
        <4>1. j \in Nat
          BY <1>1
        <4> QED  BY <3>4, <4>1, DenseCellIs
      <3> QED  BY <3>2, <3>3, <3>5
    <2> QED  BY <2>1, <2>2, <2>3
  <1> QED  BY <1>2, <1>8, <1>6, <1>7 DEF PartOf, rows

LEMMA DenseShares ==
  ASSUME NEW c \in Calls, c.kernel = "dense", c.in # c.out, c.w # c.out, NEW n \in Nat \ {0}
  PROVE  Shares(c, n)
  <1> DEFINE whole == Joined(DenseRows(c), c.batch)
             count(t) == IF t < c.batch THEN c.batch - t ELSE 0
             part(t) == Joined(DenseRows(c), count(t))
  <1>1. c.batch \in Nat /\ c.batch \in 0 .. c.batch
    BY DEF Calls
  <1>2. \A t \in Nat : count(t) \in 0 .. c.batch
    BY <1>1
  <1>3. count(0) = c.batch
    BY <1>1
  <1>4. ASSUME NEW t \in Nat, NEW m PROVE Body(c, t, m) = part(t)
    <2> DEFINE idx == From(t, c.batch)
               mine == [k \in DOMAIN idx |-> DenseRow(c, idx[k] - t)]
    <2>1. Body(c, t, m) = dense(c, t)
      BY TasksOfRounds
    <2>2. dense(c, t) = Joined(mine, Len(idx))
      BY DEF dense, For, DenseRow, DenseCell
    <2>3. /\ Len(idx) = count(t) /\ DOMAIN idx = 1 .. count(t)
          /\ \A k \in 1 .. count(t) : idx[k] = t + k - 1
      BY <1>1 DEF From
    <2> HIDE DEF idx
    <2>4. ASSUME NEW k \in 1 .. count(t) PROVE mine[k] = DenseRows(c)[k]
      <3>1. idx[k] - t = k - 1 /\ k \in 1 .. c.batch
        BY <1>1, <1>2, <2>3
      <3> QED  BY <2>3, <3>1 DEF DenseRows
    <2>5. count(t) \in Nat
      BY <1>1, <1>2
    <2> HIDE DEF count, mine
    <2>6. Joined(mine, count(t)) = Joined(DenseRows(c), count(t))
      BY <2>4, <2>5, JoinedSame
    <2> QED  BY <2>1, <2>2, <2>3, <2>6
  <1> HIDE DEF count
  <1>5. Body(c, 0, 1) = whole
    <2>1. Body(c, 0, 1) = part(0)
      BY <1>4
    <2> QED  BY <1>3, <2>1
  <1>6. \A t \in 0 .. n - 1 : Body(c, t, n) = DenseParts(c, n)[t]
    BY <1>4 DEF DenseParts, DensePart, count
  <1>7. \A t \in 0 .. n - 1 : DenseParts(c, n)[t] = part(t) /\ t \in Nat
    BY DEF DenseParts, DensePart, count
  <1>8. whole \in Seq(TensorTasks)
    BY <1>1, DensePartIs
  <1>9. \A t \in 0 .. n - 1 : PartOf(whole, DenseParts(c, n)[t])
    <2> SUFFICES ASSUME NEW t \in 0 .. n - 1 PROVE PartOf(whole, DenseParts(c, n)[t])
      OBVIOUS
    <2>1. count(t) \in 0 .. c.batch
      BY <1>2
    <2>2. PartOf(whole, part(t))
      BY <2>1, DensePartOf
    <2> QED  BY <1>7, <2>2
  <1>10. \A cell \in Written(whole) : \E t \in 0 .. n - 1 : cell \in Written(DenseParts(c, n)[t])
    <2>1. 0 \in 0 .. n - 1
      OBVIOUS
    <2>2. part(0) = whole
      BY <1>3
    <2> QED  BY <1>7, <2>1, <2>2
  <1> HIDE DEF whole
  <1>11. ASSUME NEW t \in 0 .. n - 1
         PROVE  \A x \in DOMAIN part(t) : \E i \in Nat, h \in 0 .. c.outs - 1 :
                  part(t)[x] = DenseCell(c, i, h)
    <2> DEFINE m == count(t)
    <2>1. m \in 0 .. c.batch
      BY <1>2
    <2> HIDE DEF m
    <2>2. \A x \in DOMAIN Joined(DenseRows(c), m) : \E i \in 0 .. m - 1, h \in 0 .. c.outs - 1 :
            Joined(DenseRows(c), m)[x] = DenseCell(c, i, h)
      BY <2>1, DensePartIs
    <2>3. \A i \in 0 .. m - 1 : i \in Nat
      BY <1>1, <2>1
    <2> QED  BY <2>2, <2>3 DEF m
  <1> HIDE DEF part
  <1>12. ASSUME NEW t \in 0 .. n - 1, NEW u \in 0 .. n - 1,
                NEW x \in DOMAIN part(t), NEW y \in DOMAIN part(u)
         PROVE  /\ \A k \in DOMAIN part(u)[y].reads : part(u)[y].reads[k] # part(t)[x].cell
                /\ part(t)[x].cell = part(u)[y].cell => part(t)[x] = part(u)[y]
    <2>1. PICK i \in Nat, h \in 0 .. c.outs - 1 : part(t)[x] = DenseCell(c, i, h)
      BY <1>11
    <2>2. PICK j \in Nat, g \in 0 .. c.outs - 1 : part(u)[y] = DenseCell(c, j, g)
      BY <1>11
    <2>3. DenseCell(c, i, h).cell = <<c.out, i * c.outs + h>>
      BY DenseCellIs
    <2>4. \A k \in DOMAIN DenseCell(c, j, g).reads : DenseCell(c, j, g).reads[k][1] # c.out
      <3>1. g \in Nat
        BY DEF Calls
      <3> QED  BY <3>1, DenseReads
    <2>5. DenseCell(c, i, h).cell = DenseCell(c, j, g).cell => i = j /\ h = g
      BY DenseUnique, ZenonT(60)
    <2>6. DenseCell(c, i, h).cell = DenseCell(c, j, g).cell
            => DenseCell(c, i, h) = DenseCell(c, j, g)
      BY <2>5
    <2> QED  BY <2>1, <2>2, <2>3, <2>4, <2>6
  <1>13. \A t, u \in 0 .. n - 1 : t # u =>
           \A x \in DOMAIN DenseParts(c, n)[t], y \in DOMAIN DenseParts(c, n)[u] :
             TasksApart(DenseParts(c, n), t, x, u, y)
    BY <1>7, <1>12 DEF TasksApart
  <1>14. SharedOut(whole, DenseParts(c, n), n)
    BY <1>8, <1>9, <1>10, <1>13 DEF SharedOut
  <1> QED  BY <1>5, <1>6, <1>14, PartsShare

-----------------------------------------------------------------------------
(* Programs of these kernels. *)

LEMMA AnyTeamShares ==
  ASSUME NEW c \in Calls, AnyTeam(c), NEW n \in Nat \ {0}
  PROVE  Shares(c, n)
  <1>1. /\ c.size \in Nat /\ c.batch \in Nat /\ c.channels \in Nat /\ c.width \in Nat
        /\ c.in \in Tensors /\ c.w \in Tensors /\ c.out \in Tensors
    BY DEF Calls
  <1>2. CASE c.kernel \in OfOne \cup OfTwo
    <2>1. c.kernel \in Elementwise
      BY <1>2 DEF Elementwise
    <2>2. c.kernel \notin ScalarOps
      BY <1>2 DEF OfOne, OfTwo, ScalarOps, Activations, LinearUnits, MoreActivations, TensorOps
    <2> QED  BY <1>1, <2>1, <2>2, ElementwiseShares
  <1>3. CASE c.kernel \in ScalarOps /\ c.w # c.out
    <2>1. c.kernel \in Elementwise
      BY <1>3 DEF Elementwise
    <2> QED  BY <1>1, <1>3, <2>1, ElementwiseShares
  <1>4. CASE c.kernel = "sdp" /\ (c.mode \in 4 .. 7 => c.w # c.out)
    BY <1>4, SdpShares
  <1>5. CASE c.kernel = "softmax" /\ c.in # c.out
    BY <1>1, <1>5, SoftmaxShares
  <1>6. CASE c.kernel = "bias_add" /\ c.w # c.out
    BY <1>1, <1>6, BiasShares
  <1>7. CASE c.kernel = "lrn" /\ c.width # 0
    BY <1>1, <1>7, LrnShares
  <1>8. CASE c.kernel = "avgpool" /\ IsEven(c.height) /\ IsEven(c.width) /\ c.in # c.out
    BY <1>8, AvgShares
  <1>9. CASE c.kernel = "maxpoolgrad" /\ IsEven(c.height) /\ IsEven(c.width) /\ c.w # c.out
    BY <1>9, GradShares
  <1>10. CASE c.kernel = "conv2d" /\ PaddingIn(c) /\ c.in # c.out /\ c.w # c.out
    BY <1>10, ConvShares
  <1>11. CASE c.kernel \in {"softmaxgrad", "conv2dbackpropinput"}
    BY <1>11, SumsShare, DxShares
  <1>12. CASE c.kernel = "dense" /\ c.in # c.out /\ c.w # c.out
    BY <1>12, DenseShares
  <1> QED
    BY <1>2, <1>3, <1>4, <1>5, <1>6, <1>7, <1>8, <1>9, <1>10, <1>11, <1>12 DEF AnyTeam

(* A program of such kernels, on arrays of any size and with a team of any *)
(* size, which need not divide the work: no races, and at every barrier    *)
(* and in the end the tensors are those of the native program.  What is    *)
(* asked of a call can be read off its arguments; nothing is asked of the  *)
(* texts of the threads.                                                   *)
THEOREM AnyTeamResults ==
  ASSUME \A p \in Programs : \A k \in DOMAIN p.calls :
           p.calls[k] \in Calls /\ AnyTeam(p.calls[k])
  PROVE  Spec => [](TypeOK /\ NoRace /\ SerialResult /\ NativeResult)
  <1>1. ASSUME NEW p \in Programs PROVE AllShared(p)
    <2>1. p.team \in Nat \ {0}
      <3>1. p.team \in 1 .. MaxTeam /\ MaxTeam \in Nat
        BY ProgramAssumption
      <3> QED  BY <3>1
    <2> QED  BY <2>1, AnyTeamShares DEF AllShared
  <1>2. \A p \in Programs : AllShared(p)
    BY <1>1
  <1>3. \A p \in Programs : WellFormed(p)
    BY <1>2, SharedWellFormed
  <1>4. Spec => []TypeOK
    BY <1>3, TensorTypeOK
  <1>5. Spec => []NoRace
    BY <1>2, SharedNoRace
  <1>6. Spec => []SerialResult
    BY <1>2, SharedSerialResult
  <1>7. Spec => []NativeResult
    BY <1>2, SharedNativeResult
  <1> QED  BY <1>4, <1>5, <1>6, <1>7, PTL

(* In such a program each cell has a thread that makes all of it, in the   *)
(* order of the source, and no thread reads what another one writes.       *)
THEOREM AnyTeamCallsShared ==
  ASSUME \A p \in Programs : \A k \in DOMAIN p.calls :
           p.calls[k] \in Calls /\ AnyTeam(p.calls[k])
  PROVE  Spec => []CallsShared
  <1> DEFINE Chosen == program \in Programs
  <1>1. Init => Chosen
    BY DEF Init
  <1>2. Chosen /\ [Next]_vars => Chosen'
    BY DEF Next, Load, Finish, DECADES_BARRIER, Return, vars
  <1>3. Chosen => CallsShared
    <2> SUFFICES ASSUME Chosen, NEW k \in DOMAIN program.calls
                 PROVE  Shares(program.calls[k], program.team)
      BY DEF CallsShared
    <2>1. program.team \in Nat \ {0}
      <3>1. program.team \in 1 .. MaxTeam /\ MaxTeam \in Nat
        BY ProgramAssumption
      <3> QED  BY <3>1
    <2> QED  BY <2>1, AnyTeamShares
  <1> QED  BY <1>1, <1>2, <1>3, PTL DEF Spec
=============================================================================
