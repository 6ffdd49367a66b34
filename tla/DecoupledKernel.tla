-------------------------- MODULE DecoupledKernel --------------------------
(***************************************************************************)
(* A compiled program: main makes the queues and calls the kernel in one   *)
(* or more OpenMP parallel regions, in which the compute threads run the   *)
(* compute slice of Slicing and the supply threads the supply slice, over  *)
(* the calls of DescRuntime.  Each pair works on memory of its own, as the *)
(* threads of a parallel kernel that is free of races do; the two threads  *)
(* of a pair share it.                                                     *)
(*                                                                         *)
(* The question is what a programmer expects of a compiler: does the pair  *)
(* leave in memory what the kernel would?                                  *)
(*                                                                         *)
(* A definition marked MUTANT is a mistaken version of the one after it,   *)
(* with which a property must fail; it is no part of the model.            *)
(***************************************************************************)
EXTENDS DescRuntime, Slicing

CONSTANTS
  Kernels,      \* the kernels considered
  DataSize,     \* bound: data are 0 .. DataSize - 1 and wrap around
  Regions       \* bound: how often main calls the kernel

Data == 0 .. DataSize - 1
Cells == Data   \* a datum is an address where one is asked for

(* What an instruction of a kernel of n instructions may be made of. *)
Operand(n) == [reg : 0 .. n, const : Data]
Instructions(n) ==
  [op : Ops, type : Types, at : Operand(n), from : Operand(n), guard : 0 .. n]

ASSUME KernelAssumption ==
  /\ DataSize \in Nat \ {0} /\ DataSize % 2 = 0
  /\ Regions \in Nat
  /\ \A v \in Values : v.data \in Data
  /\ \A k \in Kernels : /\ k \in Seq(Instructions(Len(k)))
                        /\ IsKernel(k) /\ Compiles(k)
                        /\ [label : 0 .. Len(k) - 1, data : Data] \subseteq Values

VARIABLES
  kernel,       \* the kernel that was compiled, and
  slice,        \* its slice for each role
  pc,           \* the step each thread is at
  reg,          \* its registers
  mem,          \* the memory of each pair
  start,        \* history: that memory when the region was entered
  region        \* how many regions main has entered

programVars == <<kernel, slice>>
kernelVars == <<programVars, pc, reg, mem, start, region>>
allVars == <<runtimeVars, kernelVars>>

Length == Len(kernel)
Pair(t) == IF t \in ComputeThreads THEN t ELSE t - NumPairs
Slice(t) == IF t \in ComputeThreads THEN slice.compute ELSE slice.supply

(* The operators of a kernel on registers r. *)
ValueOf(o, r) == IF o.reg = 0 THEN o.const ELSE r[o.reg]
Taken(ins, r) == ins.guard # NoGuard => r[ins.guard] # 0

Finished(t) == pc[t] > Len(Slice(t))
RegionOver == \A t \in Threads : Finished(t)
Step(t) == Slice(t)[pc[t]]
Ins(t) == kernel[Step(t).of]

(* The thread's next step is one of these, on an instruction it executes.  *)
At(t, what) ==
  /\ ~ Finished(t)
  /\ Step(t).do = what
  /\ Taken(Ins(t), reg[t])
  /\ pc' = [pc EXCEPT ![t] = @ + 1]

Label(t) == IF t \in ComputeThreads THEN compute_label(kernel, Step(t).of)
                                    ELSE supply_label(kernel, Step(t).of)
Address(t) == ValueOf(Ins(t).at, reg[t])
Assign(t, v) == reg' = [reg EXCEPT ![t][Step(t).of] = v]

-----------------------------------------------------------------------------
KernelInit ==
  /\ RuntimeInit
  /\ kernel \in Kernels
  /\ slice = [compute |-> compute_slice(kernel), supply |-> supply_slice(kernel)]
  /\ pc = [t \in Threads |-> 1 + Len(Slice(t))]
  /\ reg = [t \in Threads |-> [i \in 1 .. Length |-> 0]]
  /\ mem \in [ComputeThreads -> [Cells -> Data]]
  /\ start = mem
  /\ region = 0

MainInit ==
  /\ desc_init
  /\ UNCHANGED kernelVars

(* Every thread enters the region at once, and a region ends when all of   *)
(* them have: OpenMP's barrier at the end of a parallel region.            *)
EnterRegion ==
  /\ live # {}
  /\ RegionOver
  /\ region < Regions
  /\ region' = region + 1
  /\ pc' = [t \in Threads |-> 1]
  /\ reg' = [t \in Threads |-> [i \in 1 .. Length |-> 0]]
  /\ start' = mem
  /\ UNCHANGED <<runtimeVars, programVars, mem>>

(* The branch around a step is not taken. *)
Skip(t) ==
  /\ ~ Finished(t)
  /\ ~ Taken(Ins(t), reg[t])
  /\ pc' = [pc EXCEPT ![t] = @ + 1]
  /\ UNCHANGED <<runtimeVars, programVars, reg, mem, start, region>>

-----------------------------------------------------------------------------
(* Memory. *)

Read(t) ==
  /\ At(t, "read")
  /\ Assign(t, mem[Pair(t)][Address(t)])
  /\ UNCHANGED <<runtimeVars, programVars, mem, start, region>>

(* An atomic: fetch-and-add of one. *)
Update(t) ==
  /\ At(t, "update")
  /\ Assign(t, mem[Pair(t)][Address(t)])
  /\ mem' = [mem EXCEPT ![Pair(t)][Address(t)] = (@ + 1) % DataSize]
  /\ UNCHANGED <<runtimeVars, programVars, start, region>>

Write(t) ==
  /\ At(t, "write")
  /\ mem' = [mem EXCEPT ![Pair(t)][Address(t)] = ValueOf(Ins(t).from, reg[t])]
  /\ UNCHANGED <<runtimeVars, programVars, reg, start, region>>

(* MUTANT: the one-bit result is extended with its sign. *)
CompareSigned(t) ==
  /\ At(t, "compare")
  /\ Assign(t, IF ValueOf(Ins(t).from, reg[t]) = 0 THEN -1 ELSE 0)
  /\ UNCHANGED <<runtimeVars, programVars, mem, start, region>>

(* A comparison with the null pointer. *)
Compare(t) ==
  /\ At(t, "compare")
  /\ Assign(t, IF ValueOf(Ins(t).from, reg[t]) = 0 THEN 1 ELSE 0)
  /\ UNCHANGED <<runtimeVars, programVars, mem, start, region>>

(* The calls of DescRuntime.  The bit of a comparison is sent as a byte    *)
(* extended with its sign, of which the receiver takes the lowest bit.     *)

Widened(ins, v) == IF ins.op = "cmp" THEN (0 - v) % DataSize ELSE v
Narrowed(ins, v) == IF ins.op = "cmp" THEN v % 2 ELSE v

BeginCall(t) ==
  /\ At(t, "call")
  /\ desc_call(t, IF t \in ComputeThreads THEN "consume" ELSE "produce",
                  QueueType(Ins(t)))
  /\ UNCHANGED <<programVars, reg, mem, start, region>>

Open(t) ==
  /\ At(t, "open")
  /\ open_queue(t)
  /\ UNCHANGED <<programVars, reg, mem, start, region>>

SendValue(t) ==
  /\ At(t, "send")
  /\ produce(t, [label |-> Label(t), data |-> Widened(Ins(t), reg[t][Step(t).of])])
  /\ UNCHANGED <<programVars, reg, mem, start, region>>

ReceiveValue(t) ==
  /\ At(t, "receive")
  /\ consume(t)
  /\ Assign(t, Narrowed(Ins(t), Head(chan[CallQueue(t)]).data))
  /\ UNCHANGED <<programVars, mem, start, region>>

Close(t) ==
  /\ At(t, "close")
  /\ close_queue(t)
  /\ UNCHANGED <<programVars, reg, mem, start, region>>

ThreadStep(t) ==
  \/ Skip(t)
  \/ Read(t) \/ Update(t) \/ Write(t) \/ Compare(t)
  \/ BeginCall(t) \/ Open(t) \/ SendValue(t) \/ ReceiveValue(t) \/ Close(t)

ProgramEnds ==
  /\ RegionOver /\ region = Regions /\ live # {}
  /\ UNCHANGED allVars

KernelNext ==
  \/ MainInit \/ EnterRegion \/ ProgramEnds
  \/ \E t \in Threads : ThreadStep(t)

KernelSpec == KernelInit /\ [][KernelNext]_allVars

(* Threads and main are scheduled. *)
FairKernelSpec ==
  /\ KernelSpec
  /\ WF_allVars(MainInit) /\ WF_allVars(EnterRegion)
  /\ \A t \in Threads : WF_allVars(ThreadStep(t))

-----------------------------------------------------------------------------
(* The kernel as the programmer wrote it: its instructions one by one.     *)

Execute(ins, i, s) ==
  LET a == ValueOf(ins.at, s.reg)
      Set(v) == [s.reg EXCEPT ![i] = v]
  IN  IF ~ Taken(ins, s.reg) THEN s
      ELSE CASE ins.op \in {"load", "xload"} -> [s EXCEPT !.reg = Set(s.mem[a])]
             [] ins.op = "rmw" ->
                  [reg |-> Set(s.mem[a]),
                   mem |-> [s.mem EXCEPT ![a] = (@ + 1) % DataSize]]
             [] ins.op = "cmp" ->
                  [s EXCEPT !.reg = Set(IF ValueOf(ins.from, s.reg) = 0
                                        THEN 1 ELSE 0)]
             [] ins.op = "store" ->
                  [s EXCEPT !.mem = [s.mem EXCEPT ![a] = ValueOf(ins.from, s.reg)]]

(* Run(k, m)[n]: memory and registers after n instructions of kernel k,    *)
(* from memory m.                                                          *)
Run(k, m) ==
  LET run[n \in 0 .. Len(k)] ==
        IF n = 0 THEN [reg |-> [i \in 1 .. Len(k) |-> 0], mem |-> m]
                 ELSE Execute(k[n], n, run[n - 1])
  IN  run

(* Which pairs of accesses decoupling leaves in order.  The supply slice   *)
(* runs ahead, so nothing it does waits for the compute slice; the compute *)
(* slice is behind an access of the supply slice once it has received any  *)
(* value sent after it.                                                    *)
InOrderFrom(k, m) ==
  LET run == Run(k, m)
      executed(i) == Taken(k[i], run[i - 1].reg)
      cell(i) == ValueOf(k[i].at, run[i - 1].reg)
      keeps == supply_keeps(k)
      bySupply(i) == executed(i) /\ keeps[i] /\ k[i].op \in {"load", "rmw"}
      byCompute(i) == executed(i) /\ k[i].op \in {"store", "xload"}
      clash(i, j) == /\ cell(i) = cell(j)
                     /\ {k[i].op, k[j].op} \cap {"store", "rmw"} # {}
      told(i, j) == \E c \in i .. j - 1 :
                      executed(c) /\ produces(k, c) /\ ~ consume_removed(k, c)
  IN  \A i, j \in 1 .. Len(k) :
        i < j /\ clash(i, j) =>
          /\ bySupply(i) /\ byCompute(j) => told(i, j)
          /\ ~ (byCompute(i) /\ bySupply(j))

-----------------------------------------------------------------------------
(* Properties *)

KernelTypeOK ==
  /\ RuntimeTypeOK
  /\ \A t \in Threads : pc[t] \in 1 .. Len(Slice(t)) + 1
  /\ reg \in [Threads -> [1 .. Length -> Data]]
  /\ mem \in [ComputeThreads -> [Cells -> Data]]
  /\ start \in [ComputeThreads -> [Cells -> Data]]
  /\ region \in 0 .. Regions

(* The value a compute thread is about to receive was sent for the         *)
(* instruction it is at: the two passes number alike, and what one slice   *)
(* drops the other drops.                                                  *)
LabelsMeet ==
  \A t \in ComputeThreads :
    call[t].stage = "transfer" /\ chan[CallQueue(t)] # <<>> =>
      Head(chan[CallQueue(t)]).label = Label(t)

(* A parallel region leaves no value behind for the next one to receive.   *)
Drained ==
  RegionOver => \A q \in Qids : chan[q] = <<>>

(* A pair leaves in memory what the kernel leaves there, if the kernel's   *)
(* accesses are among those decoupling keeps in order.                     *)
SameMemory ==
  RegionOver /\ region > 0 =>
    \A p \in ComputeThreads :
      InOrderFrom(kernel, start[p]) =>
        mem[p] = Run(kernel, start[p])[Length].mem

(* Every region ends, and main with it: no slice waits for ever for a      *)
(* value the other does not send, or for room the other does not make.     *)
EveryRegionEnds == <>(RegionOver /\ region = Regions)

(* "The decoupling compilation mode that slices the kernel function into   *)
(* supply and compute programs completely automatically", README.md: the   *)
(* slices leave in memory what the native compilation leaves there, which  *)
(* README.md offers "for verification of correct program output".          *)
AlwaysSameMemory ==
  RegionOver /\ region > 0 =>
    \A p \in ComputeThreads : mem[p] = Run(kernel, start[p])[Length].mem
=============================================================================
