---------------------------- MODULE MemoryProofs ----------------------------
(***************************************************************************)
(* The answer to the question of DecoupledKernel, for every kernel and any *)
(* number of pairs: if the accesses of the kernel are among those that     *)
(* decoupling keeps in order, a pair leaves in memory what the kernel      *)
(* leaves there.  The two threads are never where the kernel is; what is   *)
(* invariant is that every register that is defined holds what the kernel  *)
(* computes for it, and every cell what it holds at some point of the      *)
(* kernel, a different one for every cell.                                 *)
(***************************************************************************)
EXTENDS KernelProofs

(* What the kernel computes from memory m, taken on its own: the registers *)
(* it leaves, the instructions it executes, the cells they access and the  *)
(* ones they write.                                                        *)
Results(k, m) == Run(k, m)[Len(k)].reg
Executes(k, m, i) == Taken(k[i], Results(k, m))
CellOf(k, m, i) == ValueOf(k[i].at, Results(k, m))
Writes(k, m, i, a) ==
  Executes(k, m, i) /\ k[i].op \in {"store", "rmw"} /\ CellOf(k, m, i) = a

(* The pair has written what instruction i writes. *)
Written(p, i) == Did(p, i, "write") \/ Did(Partner(p), i, "update")

(* A cell holds what it holds after n instructions of the kernel, and just *)
(* those n have been written to it.                                        *)
CellAt(p, a, n) ==
  /\ mem[p][a] = Run(kernel, start[p])[n].mem[a]
  /\ \A i \in 1 .. Length :
       Writes(kernel, start[p], i, a) => (Written(p, i) <=> i <= n)

(* A register of either slice that is defined holds what the kernel        *)
(* computes for it.                                                        *)
RegsRight(p) ==
  \A t \in {p, Partner(p)} : \A i \in 1 .. Length :
    Defined(t, i) => reg[t][i] = Results(kernel, start[p])[i]

(* So the pair follows the kernel, each cell and register at its own pace. *)
Follows(p) ==
  /\ RegsRight(p)
  /\ \A a \in Cells : \E n \in 0 .. Length : CellAt(p, a, n)

PairsFollow ==
  region > 0 =>
    \A p \in ComputeThreads : InOrderFrom(kernel, start[p]) => Follows(p)
-----------------------------------------------------------------------------
(* The kernel on its own. *)

(* The states of Run are those its recursive definition asks for. *)
LEMMA RunUnfolds ==
  ASSUME NEW k, Len(k) \in Nat, NEW m
  PROVE  \A x \in 0 .. Len(k) :
           Run(k, m)[x] = IF x = 0 THEN [reg |-> [i \in 1 .. Len(k) |-> 0], mem |-> m]
                                   ELSE Execute(k[x], x, Run(k, m)[x - 1])
  <1> DEFINE N == Len(k)
             B == [reg |-> [i \in 1 .. N |-> 0], mem |-> m]
             Next1(f, n) == IF n = 0 THEN B ELSE Execute(k[n], n, f[n - 1])
             Upto(f, n) == \A x \in 0 .. n : f[x] = Next1(f, x)
             S == {n \in Nat : n <= N => \E f : Upto(f, n)}
  <1> HIDE DEF B
  <1>1. 0 \in S
    <2>1. Upto([x \in 0 .. 0 |-> B], 0)
      OBVIOUS
    <2> HIDE DEF Upto
    <2> QED  BY <2>1
  <1>2. ASSUME NEW n \in S PROVE n + 1 \in S
    <2> HIDE DEF Upto
    <2> SUFFICES ASSUME n + 1 <= N PROVE \E h : Upto(h, n + 1)
      OBVIOUS
    <2>0. n \in Nat /\ n <= N
      OBVIOUS
    <2>1. PICK f : Upto(f, n)
      BY <2>0
    <2> DEFINE h == [x \in 0 .. n + 1 |-> IF x = n + 1 THEN Execute(k[n + 1], n + 1, f[n]) ELSE f[x]]
    <2>2. \A x \in 0 .. n : h[x] = f[x]
      BY <2>0
    <2>3. h[n + 1] = Execute(k[n + 1], n + 1, f[n])
      BY <2>0
    <2> HIDE DEF h
    <2>4. ASSUME NEW x \in 0 .. n + 1 PROVE h[x] = Next1(h, x)
      <3>1. CASE x = n + 1
        <4>1. x # 0 /\ x - 1 = n /\ n \in 0 .. n
          BY <2>0, <3>1
        <4>2. h[x - 1] = f[n]
          BY <2>2, <4>1
        <4> QED  BY <2>3, <3>1, <4>1, <4>2
      <3>2. CASE x # n + 1
        <4>1. x \in 0 .. n /\ (x # 0 => x - 1 \in 0 .. n)
          BY <2>0, <3>2
        <4>2. f[x] = Next1(f, x)
          BY <2>1, <4>1 DEF Upto
        <4>3. h[x] = f[x] /\ (x # 0 => h[x - 1] = f[x - 1])
          BY <2>2, <4>1
        <4> QED  BY <4>2, <4>3
      <3> QED  BY <3>1, <3>2
    <2>5. Upto(h, n + 1)
      BY <2>4 DEF Upto
    <2> QED  BY <2>5
  <1>3. PICK f : Upto(f, N)
    <2> HIDE DEF Upto
    <2>1. S \in SUBSET Nat
      OBVIOUS
    <2> HIDE DEF S
    <2>2. \A n \in Nat : n \in S
      BY <1>1, <1>2, <2>1, SetInduction
    <2>3. N \in S
      BY <2>2
    <2> QED  BY <2>3 DEF S
  <1> DEFINE F(g) == [x \in 0 .. N |-> IF x = 0 THEN B ELSE Execute(k[x], x, g[x - 1])]
  <1>4. \E g : g = F(g)
    <2> DEFINE g == [x \in 0 .. N |-> f[x]]
    <2>1. ASSUME NEW x \in 0 .. N PROVE g[x] = F(g)[x]
      <3>1. x # 0 => x - 1 \in 0 .. N
        OBVIOUS
      <3>2. g[x] = f[x] /\ (x # 0 => g[x - 1] = f[x - 1])
        BY <3>1
      <3>3. f[x] = Next1(f, x)
        BY <1>3
      <3>4. F(g)[x] = Next1(g, x)
        OBVIOUS
      <3> HIDE DEF g, F
      <3> QED  BY <3>2, <3>3, <3>4
    <2>2. DOMAIN F(g) = 0 .. N /\ F(g) = [x \in 0 .. N |-> F(g)[x]]
      OBVIOUS
    <2>3. g = [x \in 0 .. N |-> g[x]]
      OBVIOUS
    <2> HIDE DEF F, g
    <2>4. g = F(g)
      BY <2>1, <2>2, <2>3, Zenon
    <2> QED  BY <2>4
  <1> DEFINE run == CHOOSE g : g = F(g)
  <1>5. run = F(run)
    <2> HIDE DEF F
    <2> QED  BY <1>4, Zenon
  <1>6. Run(k, m) = run
    BY DEF Run, B
  <1> HIDE DEF run
  <1>7. \A x \in 0 .. N : run[x] = IF x = 0 THEN B ELSE Execute(k[x], x, run[x - 1])
    BY <1>5
  <1> QED  BY <1>6, <1>7 DEF B

LEMMA RunStarts ==
  ASSUME NEW k, Len(k) \in Nat, NEW m
  PROVE  Run(k, m)[0] = [reg |-> [i \in 1 .. Len(k) |-> 0], mem |-> m]
  <1>1. 0 \in 0 .. Len(k)
    OBVIOUS
  <1> QED  BY <1>1, RunUnfolds, Zenon

LEMMA RunGoesOn ==
  ASSUME NEW k, Len(k) \in Nat, NEW m
  PROVE  \A n \in 1 .. Len(k) : Run(k, m)[n] = Execute(k[n], n, Run(k, m)[n - 1])
  <1> SUFFICES ASSUME NEW n \in 1 .. Len(k)
               PROVE  Run(k, m)[n] = Execute(k[n], n, Run(k, m)[n - 1])
    OBVIOUS
  <1>1. n \in 0 .. Len(k) /\ n # 0
    OBVIOUS
  <1> QED  BY <1>1, RunUnfolds, Zenon

States(n) == [reg : [1 .. n -> Data], mem : [Cells -> Data]]

LEMMA KernelGiven ==
  ASSUME NEW k \in Kernels
  PROVE  /\ Len(k) \in Nat
         /\ \A i \in 1 .. Len(k) : k[i] \in Instructions(Len(k))
         /\ \A i \in 1 .. Len(k) : \A r \in 1 .. Len(k) :
              Reads(k[i], r) => r < i /\ k[r].op # "store"
         /\ \A i \in 1 .. Len(k) : k[i].guard \in 0 .. i - 1
         /\ \A i \in 1 .. Len(k) : \A o \in {k[i].at, k[i].from} : o.reg \in 0 .. i - 1
  <1> DEFINE N == Len(k)
             T == Instructions(N)
  <1>1. k \in Seq(T) /\ IsKernel(k)
    BY KernelAssumption
  <1>2. \A i \in T : /\ i.guard \in 0 .. N
                     /\ \A o \in {i.at, i.from} : o.reg \in 0 .. N
    BY DEF Instructions, Operand
  <1> HIDE DEF T
  <1>3. N \in Nat /\ \A i \in 1 .. N : k[i] \in T
    BY <1>1
  <1>4. \A i \in 1 .. N : \A r \in 1 .. N : Reads(k[i], r) => r < i /\ k[r].op # "store"
    BY <1>1 DEF IsKernel
  <1>5. ASSUME NEW i \in 1 .. N PROVE k[i].guard \in 0 .. i - 1
    <2>1. Reads(k[i], k[i].guard)
      BY DEF Reads
    <2> QED  BY <1>2, <1>3, <1>4, <2>1
  <1>6. ASSUME NEW i \in 1 .. N, NEW o \in {k[i].at, k[i].from} PROVE o.reg \in 0 .. i - 1
    <2>1. o.reg # 0 => Reads(k[i], o.reg)
      BY DEF Reads, Operands
    <2> QED  BY <1>2, <1>3, <1>4, <2>1
  <1> QED  BY <1>3, <1>4, <1>5, <1>6 DEF T

LEMMA OperandIsData ==
  ASSUME NEW k \in Kernels, NEW i \in 1 .. Len(k), NEW r \in [1 .. Len(k) -> Data]
  PROVE  ValueOf(k[i].at, r) \in Data /\ ValueOf(k[i].from, r) \in Data
  <1>1. ASSUME NEW o \in Operand(Len(k)) PROVE ValueOf(o, r) \in Data
    <2>1. o.reg \in 0 .. Len(k) /\ o.const \in Data
      BY DEF Operand
    <2> QED  BY <2>1, KernelGiven DEF ValueOf
  <1>2. k[i].at \in Operand(Len(k)) /\ k[i].from \in Operand(Len(k))
    BY KernelGiven DEF Instructions
  <1> QED  BY <1>1, <1>2

(* One instruction of the kernel. *)
LEMMA ExecuteOne ==
  ASSUME NEW k \in Kernels, NEW n \in 1 .. Len(k), NEW s \in States(Len(k))
  PROVE  LET e == Execute(k[n], n, s)
             a == ValueOf(k[n].at, s.reg)
             taken == Taken(k[n], s.reg)
         IN  /\ e \in States(Len(k))
             /\ \A i \in 1 .. Len(k) : i # n => e.reg[i] = s.reg[i]
             /\ ~ taken \/ k[n].op = "store" => e.reg[n] = s.reg[n]
             /\ taken /\ k[n].op \in {"load", "xload", "rmw"} => e.reg[n] = s.mem[a]
             /\ taken /\ k[n].op = "cmp" =>
                  e.reg[n] = IF ValueOf(k[n].from, s.reg) = 0 THEN 1 ELSE 0
             /\ \A b \in Cells :
                  ~ (taken /\ k[n].op \in {"store", "rmw"} /\ a = b) => e.mem[b] = s.mem[b]
             /\ taken /\ k[n].op = "rmw" => e.mem[a] = (s.mem[a] + 1) % DataSize
             /\ taken /\ k[n].op = "store" => e.mem[a] = ValueOf(k[n].from, s.reg)
  <1> DEFINE N == Len(k)
             a == ValueOf(k[n].at, s.reg)
             b == ValueOf(k[n].from, s.reg)
             e == Execute(k[n], n, s)
  <1>1. N \in Nat /\ k[n].op \in Ops
    BY KernelGiven DEF Instructions
  <1>2. s.reg \in [1 .. N -> Data] /\ s.mem \in [Cells -> Data] /\ s = [reg |-> s.reg, mem |-> s.mem]
    BY DEF States
  <1>3. a \in Data /\ b \in Data /\ a \in Cells
    BY <1>2, OperandIsData DEF Cells
  <1>4. s.mem[a] \in Data /\ (s.mem[a] + 1) % DataSize \in Data
    BY <1>2, <1>3, DataKnown
  <1> HIDE DEF a, b
  <1>5. CASE ~ Taken(k[n], s.reg)
    <2>1. e = s
      BY <1>5 DEF Execute
    <2> QED  BY <1>5, <2>1
  <1>6. ASSUME Taken(k[n], s.reg), k[n].op \in {"load", "xload"} PROVE
          e = [reg |-> [s.reg EXCEPT ![n] = s.mem[a]], mem |-> s.mem]
    BY <1>2, <1>6 DEF Execute, a
  <1>7. ASSUME Taken(k[n], s.reg), k[n].op = "rmw" PROVE
          e = [reg |-> [s.reg EXCEPT ![n] = s.mem[a]],
               mem |-> [s.mem EXCEPT ![a] = (s.mem[a] + 1) % DataSize]]
    BY <1>2, <1>7 DEF Execute, a
  <1>8. ASSUME Taken(k[n], s.reg), k[n].op = "cmp" PROVE
          e = [reg |-> [s.reg EXCEPT ![n] = IF b = 0 THEN 1 ELSE 0], mem |-> s.mem]
    BY <1>2, <1>8 DEF Execute, b
  <1>9. ASSUME Taken(k[n], s.reg), k[n].op = "store" PROVE
          e = [reg |-> s.reg, mem |-> [s.mem EXCEPT ![a] = b]]
    BY <1>2, <1>9 DEF Execute, a, b
  <1> HIDE DEF e
  <1> SUFFICES ASSUME Taken(k[n], s.reg)
               PROVE  /\ e \in States(N)
                      /\ \A i \in 1 .. N : i # n => e.reg[i] = s.reg[i]
                      /\ k[n].op = "store" => e.reg[n] = s.reg[n]
                      /\ k[n].op \in {"load", "xload", "rmw"} => e.reg[n] = s.mem[a]
                      /\ k[n].op = "cmp" => e.reg[n] = IF b = 0 THEN 1 ELSE 0
                      /\ \A c \in Cells :
                           ~ (k[n].op \in {"store", "rmw"} /\ a = c) => e.mem[c] = s.mem[c]
                      /\ k[n].op = "rmw" => e.mem[a] = (s.mem[a] + 1) % DataSize
                      /\ k[n].op = "store" => e.mem[a] = b
    BY <1>5 DEF e, a, b
  <1>10. CASE k[n].op \in {"load", "xload"}
    BY <1>2, <1>3, <1>4, <1>6, <1>10, SMTT(30) DEF States
  <1>11. CASE k[n].op = "rmw"
    BY <1>2, <1>3, <1>4, <1>7, <1>11, SMTT(30) DEF States
  <1>12. CASE k[n].op = "cmp"
    <2> DEFINE v == IF b = 0 THEN 1 ELSE 0
    <2>1. v \in Data
      BY DataKnown
    <2>2. e = [reg |-> [s.reg EXCEPT ![n] = v], mem |-> s.mem]
      BY <1>8, <1>12
    <2> HIDE DEF v
    <2>3. /\ e \in States(N) /\ e.reg[n] = v /\ e.mem = s.mem
          /\ \A i \in 1 .. N : i # n => e.reg[i] = s.reg[i]
      BY <1>2, <2>1, <2>2 DEF States
    <2> QED  BY <1>12, <2>3 DEF v
  <1>13. CASE k[n].op = "store"
    BY <1>2, <1>3, <1>4, <1>9, <1>13 DEF States
  <1> QED  BY <1>1, <1>10, <1>11, <1>12, <1>13 DEF Ops

LEMMA RunTyped ==
  ASSUME NEW k \in Kernels, NEW m \in [Cells -> Data]
  PROVE  \A n \in 0 .. Len(k) : Run(k, m)[n] \in States(Len(k))
  <1> DEFINE N == Len(k)
             S == {n \in Nat : n <= N => Run(k, m)[n] \in States(N)}
  <1>1. N \in Nat
    BY KernelGiven
  <1>2. Run(k, m)[0] \in States(N)
    <2>1. Run(k, m)[0] = [reg |-> [i \in 1 .. N |-> 0], mem |-> m]
      BY <1>1, RunStarts
    <2>2. [i \in 1 .. N |-> 0] \in [1 .. N -> Data]
      BY DataKnown
    <2> QED  BY <2>1, <2>2 DEF States
  <1>3. ASSUME NEW n \in S PROVE n + 1 \in S
    <2> SUFFICES ASSUME n + 1 <= N PROVE Run(k, m)[n + 1] \in States(N)
      OBVIOUS
    <2>1. n \in Nat /\ n + 1 \in 1 .. N /\ (n + 1) - 1 = n /\ Run(k, m)[n] \in States(N)
      BY <1>1
    <2>2. Run(k, m)[n + 1] = Execute(k[n + 1], n + 1, Run(k, m)[n])
      <3>1. \A x \in 1 .. N : Run(k, m)[x] = Execute(k[x], x, Run(k, m)[x - 1])
        BY <1>1, RunGoesOn
      <3> QED  BY <2>1, <3>1
    <2> QED  BY <2>1, <2>2, ExecuteOne
  <1>4. S \in SUBSET Nat /\ 0 \in S
    BY <1>2
  <1> HIDE DEF S
  <1>5. \A n \in Nat : n \in S
    BY <1>3, <1>4, SetInduction
  <1> QED  BY <1>1, <1>5 DEF S

(* A step of the kernel, between two of its states. *)
LEMMA RunStep ==
  ASSUME NEW k \in Kernels, NEW m \in [Cells -> Data], NEW n \in 1 .. Len(k)
  PROVE  /\ n - 1 \in 0 .. Len(k) /\ n \in 0 .. Len(k)
         /\ Run(k, m)[n - 1] \in States(Len(k))
         /\ Run(k, m)[n] = Execute(k[n], n, Run(k, m)[n - 1])
  <1>1. Len(k) \in Nat
    BY KernelGiven
  <1>2. \A x \in 1 .. Len(k) : Run(k, m)[x] = Execute(k[x], x, Run(k, m)[x - 1])
    BY <1>1, RunGoesOn
  <1>3. n - 1 \in 0 .. Len(k) /\ n \in 0 .. Len(k)
    BY <1>1
  <1> QED  BY <1>2, <1>3, RunTyped

(* A register is zero until its instruction, and keeps what it gets there. *)
LEMMA RegSettles ==
  ASSUME NEW k \in Kernels, NEW m \in [Cells -> Data]
  PROVE  \A n \in 0 .. Len(k), i \in 1 .. Len(k) :
           Run(k, m)[n].reg[i] = IF i <= n THEN Results(k, m)[i] ELSE 0
  <1> DEFINE N == Len(k)
             r(n) == Run(k, m)[n].reg
             S == {n \in Nat : n <= N =>
                     \A i \in 1 .. N : r(n)[i] = IF i <= n THEN r(i)[i] ELSE 0}
  <1>1. N \in Nat
    BY KernelGiven
  <1>2. 0 \in S
    <2>1. Run(k, m)[0] = [reg |-> [i \in 1 .. N |-> 0], mem |-> m]
      BY <1>1, RunStarts
    <2>2. r(0) = [i \in 1 .. N |-> 0]
      BY <2>1
    <2> HIDE DEF r
    <2> QED  BY <2>2
  <1>3. ASSUME NEW n \in S PROVE n + 1 \in S
    <2> SUFFICES ASSUME n + 1 <= N, NEW i \in 1 .. N
                 PROVE  r(n + 1)[i] = IF i <= n + 1 THEN r(i)[i] ELSE 0
      OBVIOUS
    <2>1. n \in Nat /\ n + 1 \in 1 .. N /\ (n + 1) - 1 = n
      BY <1>1
    <2>2. /\ Run(k, m)[n] \in States(N)
          /\ Run(k, m)[n + 1] = Execute(k[n + 1], n + 1, Run(k, m)[n])
      BY <2>1, RunStep
    <2>3. i # n + 1 => r(n + 1)[i] = r(n)[i]
      <3> DEFINE e == Execute(k[n + 1], n + 1, Run(k, m)[n])
      <3>1. \A j \in 1 .. N : j # n + 1 => e.reg[j] = Run(k, m)[n].reg[j]
        BY <2>1, <2>2, ExecuteOne, Zenon
      <3> QED  BY <2>2, <3>1
    <2>4. r(n)[i] = IF i <= n THEN r(i)[i] ELSE 0
      BY <2>1
    <2> HIDE DEF r
    <2> QED  BY <2>1, <2>3, <2>4
  <1>4. S \in SUBSET Nat
    OBVIOUS
  <1> HIDE DEF S, r
  <1>5. \A n \in Nat : n \in S
    BY <1>2, <1>3, <1>4, SetInduction
  <1>6. \A n \in 0 .. N : \A i \in 1 .. N : r(n)[i] = IF i <= n THEN r(i)[i] ELSE 0
    BY <1>1, <1>5 DEF S
  <1>7. \A i \in 1 .. N : r(N)[i] = r(i)[i]
    BY <1>1, <1>6
  <1>8. r(N) = Results(k, m) /\ \A n : r(n) = Run(k, m)[n].reg
    BY DEF Results, r
  <1> QED  BY <1>6, <1>7, <1>8

LEMMA ResultsTyped ==
  ASSUME NEW k \in Kernels, NEW m \in [Cells -> Data]
  PROVE  Results(k, m) \in [1 .. Len(k) -> Data]
  BY KernelGiven, RunTyped DEF Results, States

(* So whether an instruction is executed, and on what, can be seen from    *)
(* the registers the kernel leaves.                                        *)
LEMMA OperandsSettle ==
  ASSUME NEW k \in Kernels, NEW m \in [Cells -> Data], NEW n \in 1 .. Len(k)
  PROVE  LET r == Run(k, m)[n - 1].reg
         IN  /\ Taken(k[n], r) <=> Executes(k, m, n)
             /\ ValueOf(k[n].at, r) = CellOf(k, m, n)
             /\ ValueOf(k[n].from, r) = ValueOf(k[n].from, Results(k, m))
             /\ CellOf(k, m, n) \in Cells /\ ValueOf(k[n].from, r) \in Data
  <1> DEFINE r == Run(k, m)[n - 1].reg
             f == Results(k, m)
  <1>1. n - 1 \in 0 .. Len(k) /\ Len(k) \in Nat
    BY KernelGiven, RunStep
  <1>2. \A i \in 1 .. Len(k) : i < n => r[i] = f[i]
    BY <1>1, RegSettles
  <1>3. k[n].guard \in 0 .. n - 1 /\ k[n].at.reg \in 0 .. n - 1 /\ k[n].from.reg \in 0 .. n - 1
    BY KernelGiven
  <1>4. f \in [1 .. Len(k) -> Data]
    BY ResultsTyped
  <1>5. ValueOf(k[n].at, f) \in Data /\ ValueOf(k[n].from, f) \in Data
    BY <1>4, OperandIsData
  <1> HIDE DEF r, f
  <1>6. Taken(k[n], r) <=> Taken(k[n], f)
    BY <1>1, <1>2, <1>3 DEF Taken, NoGuard
  <1>7. ValueOf(k[n].at, r) = ValueOf(k[n].at, f)
    BY <1>1, <1>2, <1>3 DEF ValueOf
  <1>8. ValueOf(k[n].from, r) = ValueOf(k[n].from, f)
    BY <1>1, <1>2, <1>3 DEF ValueOf
  <1> QED  BY <1>5, <1>6, <1>7, <1>8 DEF r, f, Executes, CellOf, Cells

(* What an executed instruction does to registers and memory. *)
LEMMA WhatIsExecuted ==
  ASSUME NEW k \in Kernels, NEW m \in [Cells -> Data], NEW n \in 1 .. Len(k)
  PROVE  LET before == Run(k, m)[n - 1].mem
             after == Run(k, m)[n].mem
             a == CellOf(k, m, n)
             v == ValueOf(k[n].from, Results(k, m))
         IN  /\ ~ Executes(k, m, n) => Results(k, m)[n] = 0
             /\ Executes(k, m, n) =>
                  /\ k[n].op \in {"load", "xload", "rmw"} => Results(k, m)[n] = before[a]
                  /\ k[n].op = "cmp" => Results(k, m)[n] = IF v = 0 THEN 1 ELSE 0
                  /\ k[n].op = "rmw" => after[a] = (before[a] + 1) % DataSize
                  /\ k[n].op = "store" => after[a] = v
             /\ \A b \in Cells : ~ Writes(k, m, n, b) => after[b] = before[b]
  <1> DEFINE s == Run(k, m)[n - 1]
             e == Execute(k[n], n, s)
             a == CellOf(k, m, n)
             v == ValueOf(k[n].from, Results(k, m))
  <1>1. s \in States(Len(k)) /\ Run(k, m)[n] = e /\ n \in 0 .. Len(k) /\ n - 1 \in 0 .. Len(k)
    BY RunStep
  <1>2. /\ Taken(k[n], s.reg) <=> Executes(k, m, n)
        /\ ValueOf(k[n].at, s.reg) = a
        /\ ValueOf(k[n].from, s.reg) = v
    BY OperandsSettle, Zenon
  <1>3. e.reg[n] = Results(k, m)[n] /\ s.reg[n] = 0
    <2>1. n <= n /\ ~ (n <= n - 1)
      OBVIOUS
    <2> QED  BY <1>1, <2>1, RegSettles
  <1> HIDE DEF s
  <1>4. /\ ~ Taken(k[n], s.reg) \/ k[n].op = "store" => e.reg[n] = s.reg[n]
        /\ Taken(k[n], s.reg) /\ k[n].op \in {"load", "xload", "rmw"} =>
             e.reg[n] = s.mem[ValueOf(k[n].at, s.reg)]
        /\ Taken(k[n], s.reg) /\ k[n].op = "cmp" =>
             e.reg[n] = IF ValueOf(k[n].from, s.reg) = 0 THEN 1 ELSE 0
        /\ \A b \in Cells :
             ~ (Taken(k[n], s.reg) /\ k[n].op \in {"store", "rmw"} /\ ValueOf(k[n].at, s.reg) = b)
               => e.mem[b] = s.mem[b]
        /\ Taken(k[n], s.reg) /\ k[n].op = "rmw" =>
             e.mem[ValueOf(k[n].at, s.reg)] = (s.mem[ValueOf(k[n].at, s.reg)] + 1) % DataSize
        /\ Taken(k[n], s.reg) /\ k[n].op = "store" =>
             e.mem[ValueOf(k[n].at, s.reg)] = ValueOf(k[n].from, s.reg)
    BY <1>1, ExecuteOne, ZenonT(40)
  <1> HIDE DEF e, a, v
  <1>5. /\ ~ Executes(k, m, n) => Results(k, m)[n] = 0
        /\ Executes(k, m, n) =>
             /\ k[n].op \in {"load", "xload", "rmw"} => Results(k, m)[n] = s.mem[a]
             /\ k[n].op = "cmp" => Results(k, m)[n] = IF v = 0 THEN 1 ELSE 0
             /\ k[n].op = "rmw" => e.mem[a] = (s.mem[a] + 1) % DataSize
             /\ k[n].op = "store" => e.mem[a] = v
    BY <1>2, <1>3, <1>4
  <1>6. \A b \in Cells : ~ Writes(k, m, n, b) => e.mem[b] = s.mem[b]
    BY <1>2, <1>4 DEF Writes, a
  <1>7. e = Run(k, m)[n] /\ s = Run(k, m)[n - 1]
    BY <1>1 DEF s
  <1> QED  BY <1>5, <1>6, <1>7 DEF a, v

(* A cell nothing writes between two points is the same at both. *)
LEMMA CellSettles ==
  ASSUME NEW k \in Kernels, NEW m \in [Cells -> Data], NEW a \in Cells,
         NEW x \in 0 .. Len(k), NEW y \in 0 .. Len(k), x <= y,
         \A i \in 1 .. Len(k) : x < i /\ i <= y => ~ Writes(k, m, i, a)
  PROVE  Run(k, m)[y].mem[a] = Run(k, m)[x].mem[a]
  <1> DEFINE c(n) == Run(k, m)[n].mem[a]
             S == {n \in Nat : x <= n /\ n <= y => c(n) = c(x)}
  <1>1. x \in Nat /\ y \in Nat /\ Len(k) \in Nat /\ y <= Len(k)
    BY KernelGiven
  <1>2. 0 \in S
    BY <1>1
  <1>3. ASSUME NEW n \in S PROVE n + 1 \in S
    <2> SUFFICES ASSUME x <= n + 1, n + 1 <= y PROVE c(n + 1) = c(x)
      OBVIOUS
    <2>1. n \in Nat /\ n + 1 \in 1 .. Len(k) /\ (n + 1) - 1 = n
      BY <1>1
    <2>2. CASE x = n + 1
      BY <2>2
    <2>3. CASE x < n + 1
      <3>1. ~ Writes(k, m, n + 1, a)
        BY <2>1, <2>3
      <3>2. c(n + 1) = c((n + 1) - 1)
        BY <2>1, <3>1, WhatIsExecuted, Zenon
      <3>3. c(n) = c(x)
        BY <1>1, <2>1, <2>3
      <3> QED  BY <2>1, <3>2, <3>3
    <2> QED  BY <1>1, <2>1, <2>2, <2>3
  <1>4. S \in SUBSET Nat
    OBVIOUS
  <1> HIDE DEF S, c
  <1>5. \A n \in Nat : n \in S
    BY <1>2, <1>3, <1>4, SetInduction
  <1>6. c(y) = c(x)
    BY <1>1, <1>5 DEF S
  <1> QED  BY <1>6 DEF c

(* What InOrderFrom asks of two accesses to one cell. *)
LEMMA InOrderMeans ==
  ASSUME NEW k \in Kernels, NEW m \in [Cells -> Data], InOrderFrom(k, m),
         NEW i \in 1 .. Len(k), NEW j \in 1 .. Len(k), i < j,
         Executes(k, m, i), Executes(k, m, j), CellOf(k, m, i) = CellOf(k, m, j),
         k[i].op \in {"store", "rmw"} \/ k[j].op \in {"store", "rmw"}
  PROVE  /\ /\ supply_keeps(k)[i] /\ k[i].op \in {"load", "rmw"}
            /\ k[j].op \in {"store", "xload"}
            => \E c \in i .. j - 1 :
                 Executes(k, m, c) /\ produces(k, c) /\ ~ consume_removed(k, c)
         /\ ~ /\ k[i].op \in {"store", "xload"}
              /\ supply_keeps(k)[j] /\ k[j].op \in {"load", "rmw"}
  <1> DEFINE run == Run(k, m)
             executed(x) == Taken(k[x], run[x - 1].reg)
             cell(x) == ValueOf(k[x].at, run[x - 1].reg)
             bySupply(x) == executed(x) /\ supply_keeps(k)[x] /\ k[x].op \in {"load", "rmw"}
             byCompute(x) == executed(x) /\ k[x].op \in {"store", "xload"}
             clash(x, y) == /\ cell(x) = cell(y)
                            /\ {k[x].op, k[y].op} \cap {"store", "rmw"} # {}
             told(x, y) == \E c \in x .. y - 1 :
                             executed(c) /\ produces(k, c) /\ ~ consume_removed(k, c)
  <1>1. \A x, y \in 1 .. Len(k) :
          x < y /\ clash(x, y) =>
            /\ bySupply(x) /\ byCompute(y) => told(x, y)
            /\ ~ (byCompute(x) /\ bySupply(y))
    BY Zenon DEF InOrderFrom
  <1>2. \A x \in 1 .. Len(k) : (executed(x) <=> Executes(k, m, x)) /\ cell(x) = CellOf(k, m, x)
    BY OperandsSettle, Zenon
  <1> HIDE DEF run, executed, cell
  <1>3. clash(i, j) /\ executed(i) /\ executed(j)
    BY <1>2
  <1> HIDE DEF clash
  <1>4. /\ bySupply(i) /\ byCompute(j) => told(i, j)
        /\ ~ (byCompute(i) /\ bySupply(j))
    BY <1>1, <1>3, Zenon
  <1>5. ASSUME told(i, j)
        PROVE  \E c \in i .. j - 1 :
                 Executes(k, m, c) /\ produces(k, c) /\ ~ consume_removed(k, c)
    <2>1. PICK c \in i .. j - 1 : executed(c) /\ produces(k, c) /\ ~ consume_removed(k, c)
      BY <1>5, Zenon
    <2>2. c \in 1 .. Len(k)
      BY KernelGiven
    <2> QED  BY <1>2, <2>1, <2>2
  <1> HIDE DEF told
  <1> QED  BY <1>3, <1>4, <1>5, Zenon

(* Only a store reads what a compute_exclusive_load has loaded. *)
LEMMA WhoReadsXload ==
  ASSUME NEW k \in Kernels, NEW j \in 1 .. Len(k), NEW r \in Operands(k[j]), k[j].op # "store"
  PROVE  r \in 1 .. j - 1 /\ k[r].op \in {"load", "rmw", "cmp"}
  <1>1. \A o \in {k[j].at, k[j].from} : o.reg \in 0 .. j - 1
    BY KernelGiven
  <1>2. r \in 1 .. j - 1
    BY <1>1 DEF Operands
  <1>3. r \in 1 .. Len(k)
    BY <1>2, KernelGiven
  <1>4. k[r].op # "store" /\ k[r].op \in Ops
    BY <1>3, KernelGiven DEF Reads, Instructions
  <1>5. k[r].op # "xload"
    <2> DEFINE computed(x) == x # 0 /\ k[x].op = "xload"
               from_xload == {f \in {"at", "from"} : computed(k[j][f].reg)}
    <2>1. from_xload # {} => k[j].op = "store"
      BY KernelAssumption, Zenon DEF Compiles
    <2>2. ~ computed(k[j].at.reg) /\ ~ computed(k[j].from.reg)
      BY <2>1
    <2> QED  BY <1>2, <2>2 DEF Operands
  <1> QED  BY <1>2, <1>4, <1>5 DEF Ops

-----------------------------------------------------------------------------
(* How far a thread is. *)

LEMMA NotRepeated ==
  ASSUME Compiled, Placed, NEW t \in Threads, ~ Finished(t)
  PROVE  ~ Did(t, Step(t).of, Step(t).do)
  <1>1. pc[t] \in 1 .. Len(Slice(t))
    BY AtStep
  <1>2. IsSlice(Slice(t), Length)
    BY SliceShape
  <1> QED  BY <1>1, <1>2 DEF IsSlice, Did, Step

LEMMA DoneEarlier ==
  ASSUME Compiled, Placed, NEW t \in Threads, NEW i \in 1 .. Length, NEW what,
         \E a \in 1 .. Len(Slice(t)) : Slice(t)[a].do = what /\ Slice(t)[a].of = i,
         Finished(t) \/ \E j \in 1 .. Length : i < j /\ Reached(t, j)
  PROVE  Did(t, i, what)
  <1>1. PICK a \in 1 .. Len(Slice(t)) : Slice(t)[a].do = what /\ Slice(t)[a].of = i
    OBVIOUS
  <1>2. Len(Slice(t)) \in Nat /\ pc[t] \in Nat
    BY SliceShape DEF Placed
  <1>3. a < pc[t]
    BY <1>1, <1>2 DEF Finished, Reached
  <1> QED  BY <1>1, <1>3 DEF Did

(* A value is sent when it has been computed. *)
LEMMA AccessFirst ==
  ASSUME Compiled, Placed, NEW s \in SupplyThreads, NEW i, Did(s, i, "send")
  PROVE  Did(s, i, Access(kernel[i].op)) /\ Defined(s, i)
  <1>1. s \in Threads /\ s \notin ComputeThreads
    BY ThreadPairs
  <1>2. PICK a \in 1 .. Len(Slice(s)) :
          a < pc[s] /\ Slice(s)[a].do = "send" /\ Slice(s)[a].of = i
    BY DEF Did
  <1>3. PICK b \in 1 .. Len(Slice(s)) :
          b < a /\ Slice(s)[b].of = i /\ Slice(s)[b].do = Access(kernel[i].op)
    BY <1>1, <1>2, SlicesKnown
  <1>4. Len(Slice(s)) \in Nat /\ pc[s] \in Nat
    BY <1>1, SliceShape DEF Placed
  <1>5. Did(s, i, Access(kernel[i].op))
    BY <1>2, <1>3, <1>4 DEF Did
  <1>6. Access(kernel[i].op) \in Definers
    BY DEF Access, Definers
  <1> QED  BY <1>5, <1>6 DEF Defined

(* Which instruction a step that was done, or is next, is for. *)
LEMMA WhatIsDone ==
  ASSUME Compiled, NEW t \in Threads, NEW a \in 1 .. Len(Slice(t))
  PROVE  LET op == kernel[Slice(t)[a].of].op
             do == Slice(t)[a].do
         IN  /\ t \in ComputeThreads =>
                  /\ do = "write" => op = "store"
                  /\ do = "read" => op = "xload"
                  /\ do \notin {"update", "compare"}
             /\ t \in SupplyThreads =>
                  /\ supply_keeps(kernel)[Slice(t)[a].of]
                  /\ do = "read" => op = "load"
                  /\ do = "update" => op = "rmw"
                  /\ do = "compare" => op = "cmp"
                  /\ do \notin {"write", "receive"}
  <1>1. CASE t \in ComputeThreads
    BY <1>1, SlicesKnown, ThreadPairs
  <1>2. CASE t \in SupplyThreads
    <2> DEFINE op == kernel[Slice(t)[a].of].op
               do == Slice(t)[a].do
    <2>1. /\ supply_keeps(kernel)[Slice(t)[a].of]
          /\ op \in {"load", "rmw", "cmp"}
          /\ do \in {Access(op), "call", "open", "send", "close"}
      BY <1>2, SlicesKnown, ThreadPairs
    <2> HIDE DEF op, do
    <2>2. /\ do = "read" => op = "load"
          /\ do = "update" => op = "rmw"
          /\ do = "compare" => op = "cmp"
          /\ do \notin {"write", "receive"}
      BY <2>1 DEF Access
    <2> QED  BY <1>2, <2>1, <2>2, ThreadPairs DEF op, do
  <1> QED  BY <1>1, <1>2, ThreadPairs

-----------------------------------------------------------------------------
(* What a thread needs it has, and it is right. *)

(* The registers a thread reads in what it still does are defined. *)
LEMMA GuardDefined ==
  ASSUME Compiled, Placed, CmpsUsed(kernel), NEW p \in ComputeThreads, NEW t \in {p, Partner(p)},
         NEW j \in 1 .. Length, Reached(t, j), kernel[j].guard # 0
  PROVE  kernel[j].guard \in 1 .. Length /\ Defined(t, kernel[j].guard)
  <1> DEFINE g == kernel[j].guard
  <1>1. g \in 1 .. Length /\ g < j /\ kernel[g].op \in {"load", "rmw", "cmp"}
    BY KernelKnown
  <1>2. Received(g)
    BY <1>1 DEF Received, compute_instruments, consume_removed, compute_reads, Length
  <1>3. t = p => Did(t, g, "receive")
    BY <1>1, <1>2, DoneWhenPast
  <1>4. t = Partner(p) => Did(t, g, "send") /\ t \in SupplyThreads
    BY <1>1, <1>2, DoneWhenPast, ThreadPairs
  <1> HIDE DEF g
  <1>5. t = Partner(p) => Defined(t, g)
    BY <1>4, AccessFirst
  <1>6. t = p => Defined(t, g)
    BY <1>3 DEF Defined, Definers
  <1> QED  BY <1>1, <1>5, <1>6 DEF g

LEMMA OperandDefined ==
  ASSUME Compiled, Placed, CmpsUsed(kernel), NEW p \in ComputeThreads, NEW t \in {p, Partner(p)},
         NEW j \in 1 .. Length, Reached(t, j), NEW r \in Operands(kernel[j]),
         \/ t = p /\ kernel[j].op \in {"store", "xload"}
         \/ t = Partner(p) /\ supply_keeps(kernel)[j] /\ kernel[j].op \in {"load", "rmw", "cmp"}
  PROVE  r \in 1 .. Length /\ Defined(t, r)
  <1>1. /\ kernel \in Kernels /\ Length = Len(kernel) /\ Length \in Nat
        /\ t \in Threads /\ p \in Threads
    BY KernelKnown, ThreadPairs DEF Compiled, Length
  <1>2. r \in 1 .. Length /\ r < j /\ kernel[r].op # "store" /\ kernel[r].op \in Ops
    <2>1. \A o \in {kernel[j].at, kernel[j].from} : o.reg \in 0 .. j - 1
      BY <1>1, KernelGiven
    <2>2. r \in 1 .. j - 1
      BY <2>1 DEF Operands
    <2>3. r \in 1 .. Length /\ r < j
      BY <1>1, <2>2
    <2>4. Reads(kernel[j], r)
      BY DEF Reads
    <2> QED  BY <1>1, <2>3, <2>4, KernelGiven DEF Instructions
  <1>3. CASE t = p /\ kernel[r].op = "xload"
    <2>1. \E a \in 1 .. Len(Slice(t)) : Slice(t)[a].do = "read" /\ Slice(t)[a].of = r
      BY <1>1, <1>2, <1>3, SlicesKnown
    <2>2. Did(t, r, "read")
      BY <1>1, <1>2, <2>1, DoneEarlier
    <2> QED  BY <1>2, <2>2 DEF Defined, Definers
  <1>4. CASE t = p /\ kernel[r].op # "xload"
    <2>1. kernel[j].op \in {"store", "xload"}
      BY <1>4, ThreadPairs
    <2>2. Received(r)
      BY <1>1, <1>2, <1>4, <2>1
         DEF Received, compute_instruments, consume_removed, compute_reads, Ops
    <2>3. Did(t, r, "receive")
      BY <1>2, <1>4, <2>2, DoneWhenPast
    <2> QED  BY <1>2, <2>3 DEF Defined, Definers
  <1>5. CASE t = Partner(p)
    <2>1. supply_keeps(kernel)[j] /\ kernel[j].op \in {"load", "rmw", "cmp"} /\ t \in SupplyThreads
      BY <1>5, ThreadPairs
    <2>2. kernel[r].op \in {"load", "rmw", "cmp"}
      BY <1>1, <2>1, WhoReadsXload
    <2>3. supply_keeps(kernel)[r]
      <3>1. Reads(kernel[j], r) /\ supply_instruments(kernel[r])
        BY <2>2 DEF Reads, supply_instruments
      <3>2. j \in r + 1 .. Len(kernel) /\ r \in 1 .. Len(kernel)
        BY <1>1, <1>2
      <3> QED  BY <1>1, <2>1, <3>1, <3>2, SupplyKeeps
    <2>4. \E a \in 1 .. Len(Slice(t)) :
            Slice(t)[a].do = Access(kernel[r].op) /\ Slice(t)[a].of = r
      BY <1>1, <1>2, <2>1, <2>3, SlicesKnown, ThreadPairs
    <2>5. Did(t, r, Access(kernel[r].op))
      BY <1>1, <1>2, <2>4, DoneEarlier
    <2>6. Access(kernel[r].op) \in Definers
      BY DEF Access, Definers
    <2> QED  BY <1>2, <2>5, <2>6 DEF Defined
  <1> QED  BY <1>3, <1>4, <1>5

(* So it takes the branches the kernel takes ... *)
LEMMA TakenRight ==
  ASSUME Compiled, Placed, CmpsUsed(kernel), NEW p \in ComputeThreads, RegsRight(p),
         NEW t \in {p, Partner(p)}, NEW j \in 1 .. Length, Reached(t, j)
  PROVE  Taken(kernel[j], reg[t]) <=> Executes(kernel, start[p], j)
  <1>1. kernel[j].guard # 0 =>
          reg[t][kernel[j].guard] = Results(kernel, start[p])[kernel[j].guard]
    BY GuardDefined DEF RegsRight
  <1> QED  BY <1>1 DEF Executes, Taken, NoGuard

(* ... and works on what the kernel works on. *)
LEMMA OperandsRight ==
  ASSUME Compiled, Placed, CmpsUsed(kernel), NEW p \in ComputeThreads, RegsRight(p),
         NEW t \in {p, Partner(p)}, NEW j \in 1 .. Length, Reached(t, j),
         \/ t = p /\ kernel[j].op \in {"store", "xload"}
         \/ t = Partner(p) /\ supply_keeps(kernel)[j] /\ kernel[j].op \in {"load", "rmw", "cmp"}
  PROVE  /\ ValueOf(kernel[j].at, reg[t]) = CellOf(kernel, start[p], j)
         /\ ValueOf(kernel[j].from, reg[t]) = ValueOf(kernel[j].from, Results(kernel, start[p]))
  <1>1. \A r \in Operands(kernel[j]) : reg[t][r] = Results(kernel, start[p])[r]
    BY OperandDefined DEF RegsRight
  <1> QED  BY <1>1 DEF ValueOf, CellOf, Operands

(* What the compute slice has gone past was sent. *)
LEMMA SentWhenPast ==
  ASSUME Compiled, Placed, Copies, CmpsUsed(kernel), NEW p \in ComputeThreads, RegsRight(p),
         NEW c \in 1 .. Length, NEW x \in 1 .. Length, c < x, Reached(p, x),
         Executes(kernel, start[p], c), produces(kernel, c)
  PROVE  Did(Partner(p), c, "send")
  <1>1. Received(c)
    BY SentAsReceived
  <1>2. Did(p, c, "receive")
    BY <1>1, DoneWhenPast
  <1>3. Reached(p, c)
    BY WhatIsReached, ThreadPairs
  <1>4. Taken(kernel[c], reg[p])
    BY <1>3, TakenRight
  <1> QED  BY <1>2, <1>4 DEF Copies, Got, Sent

-----------------------------------------------------------------------------
(* Accesses to one cell. *)

(* Which thread has written what.                                          *)
LEMMA WhoWrote ==
  ASSUME Compiled, NEW p \in ComputeThreads, NEW i
  PROVE  /\ Did(p, i, "write") => kernel[i].op = "store"
         /\ ~ Did(p, i, "update")
         /\ Did(Partner(p), i, "update") => kernel[i].op = "rmw"
  <1>1. p \in Threads /\ Partner(p) \in Threads /\ Partner(p) \in SupplyThreads
    BY ThreadPairs
  <1> QED  BY <1>1, WhatIsDone DEF Did

(* A thread about to access a cell: what the kernel writes to it earlier   *)
(* is there, what the kernel writes to it from then on is not.             *)
LEMMA OrderKept ==
  ASSUME Compiled, Placed, Copies, CmpsUsed(kernel), KernelVarsOK,
         NEW p \in ComputeThreads, RegsRight(p), InOrderFrom(kernel, start[p]),
         NEW t \in {p, Partner(p)}, ~ Finished(t),
         Step(t).do \in {"read", "update", "write"}, Taken(Ins(t), reg[t]),
         NEW i \in 1 .. Length,
         Writes(kernel, start[p], i, CellOf(kernel, start[p], Step(t).of))
  PROVE  Written(p, i) <=> i < Step(t).of
  <1> DEFINE j == Step(t).of
             s == Partner(p)
             k == kernel
             m == start[p]
  <1>1. /\ k \in Kernels /\ Length = Len(k) /\ Length \in Nat /\ m \in [Cells -> Data]
        /\ p \in Threads /\ s \in Threads /\ t \in Threads /\ s \in SupplyThreads
        /\ s \notin ComputeThreads /\ p # s
    BY KernelKnown, ThreadPairs DEF Compiled, Length, KernelVarsOK
  <1>2. j \in 1 .. Length /\ Reached(t, j) /\ pc[t] \in 1 .. Len(Slice(t))
    BY <1>1, AtStep, WhatIsReached
  <1>3. Executes(k, m, j)
    BY <1>2, TakenRight DEF Ins
  <1>4. Executes(k, m, i) /\ k[i].op \in {"store", "rmw"} /\ CellOf(k, m, i) = CellOf(k, m, j)
    BY DEF Writes
  <1>5. /\ t = p => k[j].op \in {"store", "xload"} /\ (k[j].op = "store" => Step(t).do = "write")
        /\ t = s => /\ k[j].op \in {"load", "rmw"} /\ supply_keeps(k)[j]
                    /\ k[j].op = "rmw" => Step(t).do = "update"
    <2>1. /\ t = p => /\ Step(t).do = "write" => k[j].op = "store"
                      /\ Step(t).do = "read" => k[j].op = "xload"
                      /\ Step(t).do # "update"
          /\ t = s => /\ supply_keeps(k)[j]
                      /\ Step(t).do = "read" => k[j].op = "load"
                      /\ Step(t).do = "update" => k[j].op = "rmw"
                      /\ Step(t).do # "write"
      BY <1>1, <1>2, WhatIsDone DEF Step
    <2> QED  BY <2>1
  <1>6. k[i].op = "rmw" => supply_keeps(k)[i] /\ Access(k[i].op) = "update"
    <2>1. i \in 1 .. Len(k) /\ Len(k) \in Nat
      BY <1>1
    <2> QED  BY <2>1, SupplyKeeps DEF Access
  <1>7. /\ Did(p, i, "write") => k[i].op = "store"
        /\ Did(s, i, "update") => k[i].op = "rmw"
    BY WhoWrote
  <1>8. ~ Did(t, j, Step(t).do) /\ ~ Did(t, j, "send")
    BY <1>1, NotRepeated, NotTwice
  <1>9. \A what : Did(t, i, what) => i <= j
    BY <1>1, DoneBefore
  <1> HIDE DEF j, s, k, m
  <1>10. CASE i < j
    <2>1. CASE k[i].op = "store"
      <3>1. t = p
        <4> SUFFICES ASSUME t = s PROVE FALSE
          BY DEF s
        <4>1. ~ (k[i].op \in {"store", "xload"} /\ supply_keeps(k)[j] /\ k[j].op \in {"load", "rmw"})
          BY <1>1, <1>2, <1>3, <1>4, <1>10, InOrderMeans DEF k, m
        <4> QED  BY <1>5, <2>1, <4>1
      <3>2. \E a \in 1 .. Len(Slice(p)) : Slice(p)[a].do = "write" /\ Slice(p)[a].of = i
        BY <1>1, <2>1, SlicesKnown DEF k
      <3>3. Did(p, i, "write")
        BY <1>1, <1>2, <1>10, <3>1, <3>2, DoneEarlier
      <3> QED  BY <1>10, <3>3 DEF Written, j
    <2>2. CASE k[i].op = "rmw"
      <3>1. \E a \in 1 .. Len(Slice(s)) : Slice(s)[a].do = "update" /\ Slice(s)[a].of = i
        BY <1>1, <1>6, <2>2, SlicesKnown DEF k
      <3>2. ASSUME NEW x \in 1 .. Length, i < x, Reached(s, x) PROVE Did(s, i, "update")
        BY <1>1, <3>1, <3>2, DoneEarlier
      <3>3. CASE t = s
        BY <1>2, <1>10, <3>2, <3>3 DEF Written, j, s
      <3>4. CASE t = p
        <4>1. PICK c \in i .. j - 1 : Executes(k, m, c) /\ produces(k, c)
          BY <1>1, <1>2, <1>3, <1>4, <1>5, <1>6, <1>10, <2>2, <3>4, InOrderMeans DEF k, m
        <4>2. c \in 1 .. Length /\ c < j /\ i <= c
          BY <1>1, <1>2
        <4>3. Did(s, c, "send")
          BY <1>2, <3>4, <4>1, <4>2, SentWhenPast DEF k, m, s
        <4>4. CASE i = c
          <5>1. Did(s, i, "update")
            BY <1>1, <1>6, <2>2, <4>3, <4>4, AccessFirst DEF k
          <5> QED  BY <1>10, <5>1 DEF Written, j, s
        <4>5. CASE i < c
          <5>1. Reached(s, c)
            BY <1>1, <4>3, WhatIsReached
          <5> QED  BY <1>10, <3>2, <4>2, <4>5, <5>1 DEF Written, j, s
        <4> QED  BY <1>1, <4>2, <4>4, <4>5
      <3> QED  BY <3>3, <3>4 DEF s
    <2> QED  BY <1>4, <2>1, <2>2
  <1>11. CASE i = j
    <2>1. ~ Did(p, i, "write")
      <3> SUFFICES ASSUME Did(p, i, "write") PROVE FALSE
        OBVIOUS
      <3>1. k[j].op = "store"
        BY <1>7, <1>11
      <3>2. t = p /\ Step(t).do = "write"
        BY <1>5, <3>1 DEF s
      <3> QED  BY <1>8, <1>11, <3>2
    <2>2. ~ Did(s, i, "update")
      <3> SUFFICES ASSUME Did(s, i, "update") PROVE FALSE
        OBVIOUS
      <3>1. k[j].op = "rmw"
        BY <1>7, <1>11
      <3>2. t = s /\ Step(t).do = "update"
        BY <1>5, <3>1 DEF s
      <3> QED  BY <1>8, <1>11, <3>2
    <2> QED  BY <1>2, <1>11, <2>1, <2>2 DEF Written, j, s
  <1>12. CASE j < i
    <2>1. ASSUME Did(p, i, "write") PROVE FALSE
      <3>1. k[i].op = "store" /\ t = s
        BY <1>1, <1>2, <1>7, <1>9, <1>12, <2>1 DEF s
      <3>2. PICK c \in j .. i - 1 : Executes(k, m, c) /\ produces(k, c)
        BY <1>1, <1>2, <1>3, <1>4, <1>5, <1>12, <3>1, InOrderMeans DEF k, m
      <3>3. c \in 1 .. Length /\ c < i /\ j <= c
        BY <1>1, <1>2
      <3>4. Reached(p, i)
        BY <1>1, <2>1, WhatIsReached
      <3>5. Did(s, c, "send")
        BY <3>2, <3>3, <3>4, SentWhenPast DEF k, m, s
      <3>6. c <= j
        BY <1>1, <3>1, <3>5, DoneBefore DEF j
      <3>7. c = j
        BY <1>1, <1>2, <3>3, <3>6
      <3> QED  BY <1>8, <3>1, <3>5, <3>7
    <2>2. ASSUME Did(s, i, "update") PROVE FALSE
      <3>1. k[i].op = "rmw" /\ t = p
        BY <1>1, <1>2, <1>7, <1>9, <1>12, <2>2 DEF s
      <3>2. ~ (k[j].op \in {"store", "xload"} /\ supply_keeps(k)[i] /\ k[i].op \in {"load", "rmw"})
        BY <1>1, <1>2, <1>3, <1>4, <1>12, InOrderMeans DEF k, m
      <3> QED  BY <1>5, <1>6, <3>1, <3>2
    <2> QED  BY <1>1, <1>2, <1>12, <2>1, <2>2 DEF Written, j, s
  <1> QED  BY <1>1, <1>2, <1>10, <1>11, <1>12

(* So it finds there what the kernel finds. *)
LEMMA CellSeen ==
  ASSUME Compiled, Placed, Copies, CmpsUsed(kernel), KernelVarsOK,
         NEW p \in ComputeThreads, Follows(p), InOrderFrom(kernel, start[p]),
         NEW t \in {p, Partner(p)}, ~ Finished(t),
         Step(t).do \in {"read", "update", "write"}, Taken(Ins(t), reg[t])
  PROVE  LET j == Step(t).of
             a == CellOf(kernel, start[p], j)
         IN  mem[p][a] = Run(kernel, start[p])[j - 1].mem[a]
  <1> DEFINE j == Step(t).of
             k == kernel
             m == start[p]
             a == CellOf(k, m, j)
  <1>1. /\ k \in Kernels /\ Length = Len(k) /\ Length \in Nat /\ m \in [Cells -> Data]
        /\ t \in Threads /\ RegsRight(p)
    BY KernelKnown, ThreadPairs DEF Compiled, Length, KernelVarsOK, Follows
  <1>2. j \in 1 .. Length /\ j - 1 \in 0 .. Length
    BY <1>1, AtStep
  <1>3. a \in Cells
    BY <1>1, <1>2, OperandsSettle, Zenon
  <1>4. PICK n \in 0 .. Length : CellAt(p, a, n)
    BY <1>3 DEF Follows
  <1>5. mem[p][a] = Run(k, m)[n].mem[a]
    BY <1>4 DEF CellAt
  <1>6. \A i \in 1 .. Length : Writes(k, m, i, a) => (i < j <=> i <= n)
    <2> SUFFICES ASSUME NEW i \in 1 .. Length, Writes(k, m, i, a) PROVE i < j <=> i <= n
      OBVIOUS
    <2>1. Written(p, i) <=> i < j
      BY <1>1, OrderKept
    <2>2. Written(p, i) <=> i <= n
      BY <1>4 DEF CellAt
    <2> QED  BY <2>1, <2>2
  <1> HIDE DEF j, a, k, m
  <1>7. CASE n <= j - 1
    <2>1. \A i \in 1 .. Len(k) : n < i /\ i <= j - 1 => ~ Writes(k, m, i, a)
      BY <1>1, <1>2, <1>6
    <2> QED  BY <1>1, <1>2, <1>3, <1>5, <1>7, <2>1, CellSettles DEF j, k, m, a
  <1>8. CASE j - 1 <= n
    <2>1. \A i \in 1 .. Len(k) : j - 1 < i /\ i <= n => ~ Writes(k, m, i, a)
      BY <1>1, <1>2, <1>6
    <2> QED  BY <1>1, <1>2, <1>3, <1>5, <1>8, <2>1, CellSettles DEF j, k, m, a
  <1> QED  BY <1>1, <1>2, <1>7, <1>8

-----------------------------------------------------------------------------
(* The steps of the threads. *)

LEMMA MemAfter ==
  ASSUME KernelTypes, NEW t \in Threads, ThreadStep(t)
  PROVE  /\ \A q \in ComputeThreads : q # Pair(t) => mem'[q] = mem[q]
         /\ ~ (Taken(Ins(t), reg[t]) /\ Step(t).do \in {"update", "write"}) => mem' = mem
         /\ Taken(Ins(t), reg[t]) =>
              /\ Step(t).do = "read" => Read(t)
              /\ Step(t).do = "update" => Update(t)
              /\ Step(t).do = "write" => Write(t)
  <1>1. mem \in [ComputeThreads -> [Cells -> Data]]
    BY DEF KernelTypes, KernelVarsOK
  <1>2. CASE Update(t)
    BY <1>1, <1>2 DEF Update, At
  <1>3. CASE Write(t)
    BY <1>1, <1>3 DEF Write, At
  <1>4. CASE Skip(t)
    BY <1>4 DEF Skip
  <1>5. CASE Read(t)
    BY <1>5 DEF Read, At
  <1>6. CASE Compare(t) \/ BeginCall(t) \/ Open(t) \/ SendValue(t) \/ ReceiveValue(t) \/ Close(t)
    BY <1>6 DEF Compare, BeginCall, Open, SendValue, ReceiveValue, Close, At
  <1> QED  BY <1>2, <1>3, <1>4, <1>5, <1>6 DEF ThreadStep

(* A register gets what the kernel computes for it. *)
LEMMA ValueRight ==
  ASSUME KernelInv, CmpsUsed(kernel), NEW p \in ComputeThreads,
         Follows(p), InOrderFrom(kernel, start[p]),
         NEW t \in {p, Partner(p)}, ThreadStep(t),
         Taken(Ins(t), reg[t]), Step(t).do \in Definers
  PROVE  reg'[t][Step(t).of] = Results(kernel, start[p])[Step(t).of]
  <1> DEFINE j == Step(t).of
             k == kernel
             m == start[p]
             a == CellOf(k, m, j)
  <1>1. /\ KernelTypes /\ Compiled /\ Placed /\ Copies /\ KernelVarsOK /\ RegsRight(p)
        /\ k \in Kernels /\ Length = Len(k) /\ Length \in Nat /\ m \in [Cells -> Data]
        /\ reg \in [Threads -> [1 .. Length -> Data]]
        /\ t \in Threads /\ Pair(t) = p /\ p \notin SupplyThreads
        /\ (t = p \/ t \in SupplyThreads)
    BY KernelKnown, ThreadPairs
       DEF KernelInv, KernelTypes, Compiled, Length, KernelVarsOK, Follows
  <1>2. ~ Finished(t)
    BY <1>1, StepShape
  <1>3. j \in 1 .. Length /\ Reached(t, j) /\ pc[t] \in 1 .. Len(Slice(t)) /\ Ins(t) = k[j]
    BY <1>1, <1>2, AtStep, WhatIsReached DEF Ins
  <1>4. Executes(k, m, j)
    BY <1>1, <1>3, TakenRight
  <1>5. /\ k[j].op \in {"load", "xload", "rmw"} => Results(k, m)[j] = Run(k, m)[j - 1].mem[a]
        /\ k[j].op = "cmp" =>
             Results(k, m)[j] = IF ValueOf(k[j].from, Results(k, m)) = 0 THEN 1 ELSE 0
    BY <1>1, <1>3, <1>4, WhatIsExecuted, SMTT(30)
  <1>6. /\ t = p => /\ Step(t).do = "read" => k[j].op = "xload"
                    /\ Step(t).do \notin {"update", "compare"}
        /\ t # p => /\ supply_keeps(k)[j]
                    /\ Step(t).do = "read" => k[j].op = "load"
                    /\ Step(t).do = "update" => k[j].op = "rmw"
                    /\ Step(t).do = "compare" => k[j].op = "cmp"
    BY <1>1, <1>3, WhatIsDone DEF Step
  <1>7. CASE Step(t).do \in {"read", "update"}
    <2>1. Read(t) \/ Update(t)
      BY <1>1, <1>7, MemAfter
    <2>2. reg'[t][j] = mem[p][Address(t)]
      BY <1>1, <1>3, <2>1 DEF Read, Update, Assign
    <2>3. k[j].op \in {"load", "xload", "rmw"}
      BY <1>6, <1>7
    <2>4. Address(t) = a
      <3>1. \/ t = p /\ k[j].op \in {"store", "xload"}
            \/ t = Partner(p) /\ supply_keeps(k)[j] /\ k[j].op \in {"load", "rmw", "cmp"}
        BY <1>6, <1>7
      <3> QED  BY <1>1, <1>3, <3>1, OperandsRight DEF Address
    <2>5. mem[p][a] = Run(k, m)[j - 1].mem[a]
      BY <1>1, <1>2, <1>7, CellSeen
    <2> QED  BY <1>5, <2>2, <2>3, <2>4, <2>5
  <1>8. CASE Step(t).do = "compare"
    <2>1. Compare(t)
      BY <1>1, <1>8, WhichAction
    <2>2. reg'[t][j] = IF ValueOf(k[j].from, reg[t]) = 0 THEN 1 ELSE 0
      BY <1>1, <1>3, <2>1 DEF Compare, Assign
    <2>3. t = Partner(p) /\ supply_keeps(k)[j] /\ k[j].op = "cmp"
      BY <1>6, <1>8
    <2>4. ValueOf(k[j].from, reg[t]) = ValueOf(k[j].from, Results(k, m))
      BY <1>1, <1>3, <2>3, OperandsRight
    <2> QED  BY <1>5, <2>2, <2>3, <2>4
  <1>9. CASE Step(t).do = "receive"
    <2>1. ReceiveValue(t)
      BY <1>1, <1>9, WhichAction
    <2>2. t = p /\ Sent(Partner(p), j) /\ reg'[t][j] = reg[Partner(p)][j]
      BY <1>1, <2>1, Receiving, ThreadPairs DEF Pending
    <2>3. Defined(Partner(p), j)
      BY <1>1, <2>2, AccessFirst, ThreadPairs DEF Sent
    <2> QED  BY <1>1, <1>3, <2>2, <2>3 DEF RegsRight
  <1> QED  BY <1>7, <1>8, <1>9 DEF Definers

LEMMA RegsStayRight ==
  ASSUME KernelInv, CmpsUsed(kernel), NEW p \in ComputeThreads,
         Follows(p), InOrderFrom(kernel, start[p]),
         NEW t \in {p, Partner(p)}, ThreadStep(t)
  PROVE  RegsRight(p)'
  <1> DEFINE j == Step(t).of
             k == kernel
             m == start[p]
             f == Results(k, m)
  <1>1. /\ KernelTypes /\ Compiled /\ Placed /\ RegsDefined /\ RegsRight(p)
        /\ k \in Kernels /\ Length = Len(k) /\ m \in [Cells -> Data]
        /\ t \in Threads /\ p \in Threads /\ Partner(p) \in Threads
    BY KernelKnown, ThreadPairs
       DEF KernelInv, KernelTypes, Compiled, Length, KernelVarsOK, Follows
  <1>2. /\ kernel' = kernel /\ start' = start /\ Length' = Length
        /\ \A u \in Threads : \A i \in 1 .. Length :
             reg'[u][i] # reg[u][i] =>
               u = t /\ i = j /\ Taken(Ins(t), reg[t]) /\ Step(t).do \in Definers
    BY <1>1, StepShape, ThreadMoves
  <1>3. ~ Finished(t) /\ j \in 1 .. Length /\ Reached(t, j) /\ Ins(t) = k[j]
    BY <1>1, StepShape, AtStep, WhatIsReached DEF Ins
  <1>4. Taken(Ins(t), reg[t]) /\ Step(t).do \in Definers => reg'[t][j] = f[j]
    BY ValueRight
  <1>5. ~ Taken(Ins(t), reg[t]) => reg[t][j] = 0 /\ f[j] = 0
    <2>1. ~ Taken(Ins(t), reg[t]) => ~ Executes(k, m, j)
      BY <1>1, <1>3, TakenRight
    <2>2. ~ Executes(k, m, j) => f[j] = 0
      BY <1>1, <1>3, WhatIsExecuted, Zenon
    <2> QED  BY <1>1, <1>3, <2>1, <2>2 DEF RegsDefined
  <1> HIDE DEF f, k, m, j
  <1>6. ASSUME NEW u \in {p, Partner(p)}, NEW i \in 1 .. Length, Defined(u, i)'
        PROVE  reg'[u][i] = f[i]
    <2>1. u \in Threads
      BY <1>1
    <2>2. CASE Defined(u, i)
      <3>1. reg[u][i] = f[i]
        BY <1>1, <2>2 DEF RegsRight, f, k, m
      <3> QED  BY <1>2, <1>4, <2>1, <3>1
    <2>3. CASE ~ Defined(u, i)
      <3>1. PICK what \in Definers : Did(u, i, what)'
        BY <1>6 DEF Defined
      <3>2. ~ Did(u, i, what)
        BY <2>3 DEF Defined
      <3>3. u = t /\ Step(t).do = what /\ i = j
        BY <1>1, <2>1, <3>1, <3>2, DidAfter DEF j
      <3> QED  BY <1>2, <1>3, <1>4, <1>5, <2>1, <3>3
    <2> QED  BY <2>2, <2>3
  <1>7. Results(kernel, start[p])' = f
    BY <1>2 DEF f, k, m
  <1> QED  BY <1>2, <1>6, <1>7 DEF RegsRight

LEMMA WrittenAfter ==
  ASSUME KernelTypes, NEW p \in ComputeThreads, NEW t \in Threads, ThreadStep(t), NEW i
  PROVE  Written(p, i)' <=> \/ Written(p, i)
                            \/ t = p /\ Step(t).do = "write" /\ Step(t).of = i
                            \/ t = Partner(p) /\ Step(t).do = "update" /\ Step(t).of = i
  <1>1. p \in Threads /\ Partner(p) \in Threads
    BY ThreadPairs
  <1>2. Did(p, i, "write")' <=> Did(p, i, "write") \/ (p = t /\ Step(t).do = "write" /\ Step(t).of = i)
    BY <1>1, DidAfter
  <1>3. Did(Partner(p), i, "update")' <=>
          \/ Did(Partner(p), i, "update")
          \/ Partner(p) = t /\ Step(t).do = "update" /\ Step(t).of = i
    BY <1>1, DidAfter
  <1>4. Partner(p)' = Partner(p)
    BY DEF Partner
  <1> QED  BY <1>2, <1>3, <1>4 DEF Written

LEMMA CellsStayRight ==
  ASSUME KernelInv, CmpsUsed(kernel), NEW p \in ComputeThreads,
         Follows(p), InOrderFrom(kernel, start[p]),
         NEW t \in {p, Partner(p)}, ThreadStep(t), NEW a \in Cells
  PROVE  \E n \in 0 .. Length : CellAt(p, a, n)'
  <1> DEFINE j == Step(t).of
             do == Step(t).do
             k == kernel
             m == start[p]
             wr(i) == \/ t = p /\ do = "write" /\ j = i
                      \/ t = Partner(p) /\ do = "update" /\ j = i
             c == CellOf(k, m, j)
  <1>1. /\ KernelTypes /\ Compiled /\ Placed /\ Copies /\ KernelVarsOK /\ RegsRight(p)
        /\ k \in Kernels /\ Length = Len(k) /\ Length \in Nat /\ m \in [Cells -> Data]
        /\ mem \in [ComputeThreads -> [Cells -> Data]]
        /\ t \in Threads /\ Pair(t) = p /\ p \in Threads /\ Partner(p) \in Threads
        /\ p \notin SupplyThreads /\ Partner(p) \in SupplyThreads
    BY KernelKnown, ThreadPairs
       DEF KernelInv, KernelTypes, Compiled, Length, KernelVarsOK, Follows
  <1>2. /\ kernel' = kernel /\ start' = start /\ Length' = Length
        /\ ~ Finished(t)
    BY <1>1, StepShape, ThreadMoves
  <1>3. j \in 1 .. Length /\ j \in 0 .. Length /\ Reached(t, j) /\ Ins(t) = k[j]
        /\ pc[t] \in 1 .. Len(Slice(t))
    BY <1>1, <1>2, AtStep, WhatIsReached DEF Ins
  <1>4. Taken(Ins(t), reg[t]) <=> Executes(k, m, j)
    BY <1>1, <1>3, TakenRight
  <1>5. \A i : Written(p, i)' <=> Written(p, i) \/ wr(i)
    BY <1>1, WrittenAfter
  <1>6. PICK n \in 0 .. Length : CellAt(p, a, n)
    BY DEF Follows
  <1>7. /\ mem[p][a] = Run(k, m)[n].mem[a]
        /\ \A i \in 1 .. Length : Writes(k, m, i, a) => (Written(p, i) <=> i <= n)
    BY <1>6, Zenon DEF CellAt
  <1>8. ASSUME NEW x \in 0 .. Length, mem'[p][a] = Run(k, m)[x].mem[a],
               \A i \in 1 .. Length : Writes(k, m, i, a) => (Written(p, i)' <=> i <= x)
        PROVE  CellAt(p, a, x)'
    BY <1>2, <1>8 DEF CellAt
  <1>9. /\ t = p => /\ do = "write" => k[j].op = "store"
                    /\ do # "update"
        /\ t = Partner(p) => /\ supply_keeps(k)[j]
                             /\ do = "update" => k[j].op = "rmw"
                             /\ do # "write"
    BY <1>1, <1>3, WhatIsDone DEF Step
  <1>10. CASE Taken(Ins(t), reg[t]) /\ do \in {"update", "write"} /\ a = c
    <2>1. wr(j) /\ \A i : wr(i) => i = j
      BY <1>9, <1>10
    <2>2. k[j].op \in {"store", "rmw"} /\ (k[j].op = "store" <=> do = "write")
      BY <1>9, <1>10
    <2>3. \A i \in 1 .. Length : Writes(k, m, i, a) => (Written(p, i) <=> i < j)
      BY <1>1, <1>2, <1>10, OrderKept
    <2>4. \A i \in 1 .. Length : Writes(k, m, i, a) => (Written(p, i)' <=> i <= j)
      <3> SUFFICES ASSUME NEW i \in 1 .. Length, Writes(k, m, i, a)
                   PROVE  Written(p, i)' <=> i <= j
        OBVIOUS
      <3>1. Written(p, i) <=> i < j
        BY <2>3
      <3>2. wr(i) <=> i = j
        BY <2>1
      <3> HIDE DEF wr, j
      <3> QED  BY <1>3, <1>5, <3>1, <3>2
    <2>5. Address(t) = a /\ ValueOf(Ins(t).from, reg[t]) = ValueOf(k[j].from, Results(k, m))
      <3>1. \/ t = p /\ k[j].op \in {"store", "xload"}
            \/ t = Partner(p) /\ supply_keeps(k)[j] /\ k[j].op \in {"load", "rmw", "cmp"}
        BY <1>9, <1>10
      <3> QED  BY <1>1, <1>3, <1>10, <3>1, OperandsRight DEF Address
    <2>6. mem[p][a] = Run(k, m)[j - 1].mem[a]
      BY <1>1, <1>2, <1>10, CellSeen
    <2>7. /\ k[j].op = "rmw" => Run(k, m)[j].mem[a] = (Run(k, m)[j - 1].mem[a] + 1) % DataSize
          /\ k[j].op = "store" => Run(k, m)[j].mem[a] = ValueOf(k[j].from, Results(k, m))
      BY <1>1, <1>3, <1>4, <1>10, WhatIsExecuted, SMTT(30)
    <2>8. mem'[p][a] = Run(k, m)[j].mem[a]
      <3>1. CASE do = "update"
        <4>1. Update(t)
          BY <1>1, <1>10, <3>1, MemAfter
        <4>2. mem'[p][a] = (mem[p][a] + 1) % DataSize
          BY <1>1, <2>5, <4>1 DEF Update
        <4> QED  BY <2>2, <2>6, <2>7, <3>1, <4>2
      <3>2. CASE do = "write"
        <4>1. Write(t)
          BY <1>1, <1>10, <3>2, MemAfter
        <4>2. mem'[p][a] = ValueOf(Ins(t).from, reg[t])
          BY <1>1, <2>5, <4>1 DEF Write
        <4> QED  BY <2>2, <2>5, <2>7, <3>2, <4>2
      <3> QED  BY <1>10, <3>1, <3>2
    <2> QED  BY <1>3, <1>8, <2>4, <2>8
  <1>11. CASE ~ (Taken(Ins(t), reg[t]) /\ do \in {"update", "write"} /\ a = c)
    <2>1. \A i \in 1 .. Length : Writes(k, m, i, a) => (Written(p, i)' <=> i <= n)
      <3> SUFFICES ASSUME NEW i \in 1 .. Length, Writes(k, m, i, a) PROVE ~ wr(i)
        BY <1>5, <1>7
      <3> SUFFICES ASSUME wr(i) PROVE FALSE
        OBVIOUS
      <3>1. i = j /\ do \in {"update", "write"}
        OBVIOUS
      <3> HIDE DEF j, do, wr
      <3>2. Executes(k, m, j) /\ a = c
        BY <3>1 DEF Writes
      <3> QED  BY <1>4, <1>11, <3>1, <3>2
    <2>2. mem'[p][a] = mem[p][a]
      <3>1. CASE ~ (Taken(Ins(t), reg[t]) /\ do \in {"update", "write"})
        BY <1>1, <3>1, MemAfter
      <3>2. CASE Taken(Ins(t), reg[t]) /\ do \in {"update", "write"}
        <4>1. Address(t) = c /\ a # c
          <5>1. \/ t = p /\ k[j].op \in {"store", "xload"}
                \/ t = Partner(p) /\ supply_keeps(k)[j] /\ k[j].op \in {"load", "rmw", "cmp"}
            BY <1>9, <3>2
          <5> QED  BY <1>1, <1>3, <1>11, <3>2, <5>1, OperandsRight DEF Address
        <4>2. Update(t) \/ Write(t)
          BY <1>1, <3>2, MemAfter
        <4> QED  BY <1>1, <4>1, <4>2 DEF Update, Write
      <3> QED  BY <3>1, <3>2
    <2> QED  BY <1>7, <1>8, <2>1, <2>2
  <1> QED  BY <1>10, <1>11

(* A pair is not disturbed by the others. *)
LEMMA OthersFollow ==
  ASSUME KernelInv, NEW p \in ComputeThreads, Follows(p),
         NEW t \in Threads, ThreadStep(t), t # p, t # Partner(p)
  PROVE  Follows(p)'
  <1>1. KernelTypes /\ p \in Threads /\ Partner(p) \in Threads /\ Pair(t) # p
    BY ThreadPairs DEF KernelInv
  <1>2. /\ kernel' = kernel /\ start' = start /\ Length' = Length
        /\ reg'[p] = reg[p] /\ reg'[Partner(p)] = reg[Partner(p)]
        /\ mem'[p] = mem[p] /\ Partner(p)' = Partner(p)
    BY <1>1, StepShape, ThreadMoves, MemAfter DEF Partner
  <1>3. \A u \in {p, Partner(p)} : \A i : Defined(u, i)' <=> Defined(u, i)
    <2>1. \A u \in {p, Partner(p)} : \A i, what : Did(u, i, what)' <=> Did(u, i, what)
      BY <1>1, DidAfter
    <2> QED  BY <2>1 DEF Defined
  <1>4. \A i : Written(p, i)' <=> Written(p, i)
    BY <1>1, WrittenAfter
  <1>5. RegsRight(p)'
    BY <1>2, <1>3 DEF Follows, RegsRight
  <1>6. \A a \in Cells : \E n \in 0 .. Length : CellAt(p, a, n)'
    <2> SUFFICES ASSUME NEW a \in Cells PROVE \E n \in 0 .. Length : CellAt(p, a, n)'
      OBVIOUS
    <2>1. PICK n \in 0 .. Length : CellAt(p, a, n)
      BY DEF Follows
    <2>2. CellAt(p, a, n)'
      BY <1>2, <1>4, <2>1 DEF CellAt
    <2> QED  BY <2>2
  <1> QED  BY <1>2, <1>5, <1>6 DEF Follows

LEMMA ThreadKeepsFollowing ==
  ASSUME KernelInv, CmpsUsed(kernel), PairsFollow, NEW t \in Threads, ThreadStep(t)
  PROVE  PairsFollow'
  <1>1. kernel' = kernel /\ start' = start /\ region' = region /\ Length' = Length
    BY StepShape, ThreadMoves DEF KernelInv
  <1> SUFFICES ASSUME region > 0, NEW p \in ComputeThreads, InOrderFrom(kernel, start[p])
               PROVE  Follows(p)'
    BY <1>1 DEF PairsFollow
  <1>2. Follows(p)
    BY DEF PairsFollow
  <1>3. CASE t \in {p, Partner(p)}
    <2>1. RegsRight(p)'
      BY <1>2, <1>3, RegsStayRight
    <2>2. \A a \in Cells : \E n \in 0 .. Length : CellAt(p, a, n)'
      BY <1>2, <1>3, CellsStayRight
    <2> QED  BY <1>1, <2>1, <2>2 DEF Follows
  <1>4. CASE t \notin {p, Partner(p)}
    BY <1>2, <1>4, OthersFollow
  <1> QED  BY <1>3, <1>4

LEMMA EnteringFollows ==
  ASSUME KernelInv, KernelTypes', EnterRegion
  PROVE  PairsFollow'
  <1>1. /\ kernel' = kernel /\ start' = mem /\ mem' = mem /\ Length' = Length
        /\ pc' = [t \in Threads |-> 1] /\ Length \in Nat /\ Length = Len(kernel)
    BY KernelKnown DEF EnterRegion, programVars, Length, KernelInv, KernelTypes
  <1> SUFFICES ASSUME NEW p \in ComputeThreads PROVE Follows(p)'
    BY DEF PairsFollow
  <1>2. p \in Threads /\ Partner(p) \in Threads /\ Partner(p)' = Partner(p)
    BY ThreadPairs DEF Partner
  <1>3. ASSUME NEW u \in Threads, NEW i, NEW what PROVE ~ Did(u, i, what)'
    BY <1>1 DEF Did
  <1>4. RegsRight(p)'
    BY <1>2, <1>3 DEF RegsRight, Defined
  <1>5. ASSUME NEW a \in Cells PROVE CellAt(p, a, 0)'
    <2>1. Run(kernel, mem[p])[0] = [reg |-> [i \in 1 .. Length |-> 0], mem |-> mem[p]]
      BY <1>1, RunStarts, Zenon
    <2>2. Run(kernel, mem[p])[0].mem = mem[p]
      BY <2>1
    <2>3. \A i : ~ Written(p, i)'
      BY <1>2, <1>3 DEF Written
    <2> QED  BY <1>1, <2>2, <2>3 DEF CellAt
  <1> QED  BY <1>1, <1>4, <1>5 DEF Follows

(* The registers and the cells of every pair follow the kernel. *)
LEMMA FollowingKept ==
  ASSUME \A k \in Kernels : CmpsUsed(k)
  PROVE  KernelInv /\ PairsFollow /\ [KernelNext]_allVars => PairsFollow'
  <1> SUFFICES ASSUME KernelInv, PairsFollow, [KernelNext]_allVars PROVE PairsFollow'
    OBVIOUS
  <1>1. CmpsUsed(kernel) /\ KernelTypes'
    BY KernelTypesKept DEF KernelInv, KernelTypes, Compiled
  <1>2. CASE \E t \in Threads : ThreadStep(t)
    BY <1>1, <1>2, ThreadKeepsFollowing
  <1>3. CASE EnterRegion
    BY <1>1, <1>3, EnteringFollows
  <1>4. CASE MainInit \/ ProgramEnds \/ UNCHANGED allVars
    <2>1. UNCHANGED kernelVars
      BY <1>4 DEF MainInit, ProgramEnds, allVars
    <2> QED  BY <2>1 DEF PairsFollow, Follows, RegsRight, CellAt, Written, Defined, Did, Slice,
                         Length, kernelVars, programVars, Partner
  <1> QED  BY <1>2, <1>3, <1>4 DEF KernelNext

LEMMA FollowingMeansSame ==
  ASSUME KernelInv, PairsFollow, RegionOver, region > 0,
         NEW p \in ComputeThreads, InOrderFrom(kernel, start[p])
  PROVE  mem[p] = Run(kernel, start[p])[Length].mem
  <1> DEFINE k == kernel
             m == start[p]
             s == Partner(p)
  <1>1. /\ Compiled /\ Placed /\ Follows(p)
        /\ k \in Kernels /\ Length = Len(k) /\ Length \in Nat /\ m \in [Cells -> Data]
        /\ mem[p] \in [Cells -> Data]
        /\ p \in Threads /\ s \in Threads /\ s \notin ComputeThreads
    BY KernelKnown, ThreadPairs
       DEF KernelInv, KernelTypes, Compiled, Length, KernelVarsOK, PairsFollow
  <1>2. Finished(p) /\ Finished(s)
    BY <1>1 DEF RegionOver
  <1>3. ASSUME NEW i \in 1 .. Length, k[i].op \in {"store", "rmw"} PROVE Written(p, i)
    <2>1. CASE k[i].op = "store"
      <3>1. \E a \in 1 .. Len(Slice(p)) : Slice(p)[a].do = "write" /\ Slice(p)[a].of = i
        BY <1>1, <2>1, SlicesKnown
      <3> QED  BY <1>1, <1>2, <3>1, DoneEarlier DEF Written
    <2>2. CASE k[i].op = "rmw"
      <3>1. supply_keeps(k)[i] /\ Access(k[i].op) = "update"
        BY <1>1, <2>2, SupplyKeeps DEF Access
      <3>2. \E a \in 1 .. Len(Slice(s)) : Slice(s)[a].do = "update" /\ Slice(s)[a].of = i
        BY <1>1, <3>1, SlicesKnown
      <3> QED  BY <1>1, <1>2, <3>2, DoneEarlier DEF Written
    <2> QED  BY <1>3, <2>1, <2>2
  <1> HIDE DEF k, m, s
  <1>4. ASSUME NEW a \in Cells PROVE mem[p][a] = Run(k, m)[Length].mem[a]
    <2>1. PICK n \in 0 .. Length : CellAt(p, a, n)
      BY <1>1 DEF Follows
    <2>2. \A i \in 1 .. Length : Writes(k, m, i, a) => i <= n
      BY <1>3, <2>1 DEF CellAt, Writes, k, m
    <2>3. Length \in 0 .. Len(k) /\ n \in 0 .. Len(k) /\ n <= Length
          /\ \A i \in 1 .. Len(k) : n < i /\ i <= Length => ~ Writes(k, m, i, a)
      BY <1>1, <2>2
    <2>4. Run(k, m)[Length].mem[a] = Run(k, m)[n].mem[a]
      BY <1>1, <2>3, CellSettles
    <2> QED  BY <2>1, <2>4 DEF CellAt, k, m
  <1>5. Run(k, m)[Length].mem \in [Cells -> Data]
    <2>1. Length \in 0 .. Len(k)
      BY <1>1
    <2> QED  BY <1>1, <2>1, RunTyped DEF States
  <1> QED  BY <1>1, <1>4, <1>5 DEF k, m

-----------------------------------------------------------------------------
(* If the compute slice reads every comparison of pointers and the         *)
(* kernel's accesses are among those decoupling keeps in order, the pair   *)
(* leaves in memory what the kernel does, however the two slices and the   *)
(* other pairs are interleaved.                                            *)
THEOREM SameMemoryAlways ==
  ASSUME \A k \in Kernels : CmpsUsed(k)
  PROVE  KernelSpec => []SameMemory
  <1>1. KernelInit => PairsFollow
    BY DEF KernelInit, PairsFollow
  <1>2. KernelInv /\ PairsFollow => SameMemory
    BY FollowingMeansSame DEF SameMemory
  <1> QED  BY <1>1, <1>2, KernelInvStarts, KernelInvKept, FollowingKept, PTL DEF KernelSpec
=============================================================================
