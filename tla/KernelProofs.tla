---------------------------- MODULE KernelProofs ----------------------------
(***************************************************************************)
(* The properties of a compiled kernel, for every kernel and any number of *)
(* pairs.  The heart is an invariant about each pair: its queues hold      *)
(* exactly what the supply slice has sent and the compute slice has yet to *)
(* receive, in the order of the kernel.  It rests on what SlicingProofs    *)
(* says of the slices and on the fact that both threads of a pair take the *)
(* same branches.                                                          *)
(***************************************************************************)
EXTENDS DecoupledKernel, DescProofs, SlicingProofs

(* What a thread has done in this region: the step what of instruction i.  *)
Did(t, i, what) ==
  \E a \in 1 .. Len(Slice(t)) :
    a < pc[t] /\ Slice(t)[a].do = what /\ Slice(t)[a].of = i

Definers == {"read", "update", "compare", "receive"}
Defined(t, i) == \E what \in Definers : Did(t, i, what)

Sent(s, i) == Did(s, i, "send") /\ Taken(kernel[i], reg[s])
Got(c, i) == Did(c, i, "receive") /\ Taken(kernel[i], reg[c])

(* The slices are those of the kernel, and no thread runs before there are *)
(* queues.                                                                 *)
Compiled ==
  /\ kernel \in Kernels
  /\ slice = [compute |-> compute_slice(kernel), supply |-> supply_slice(kernel)]
  /\ live = {} => RegionOver

(* A thread is in the stage of a call that its next step needs.            *)
CallsFollow ==
  \A t \in Threads :
    /\ call[t].stage = IF ~ Finished(t) /\ Taken(Ins(t), reg[t])
                         THEN StageAt(Slice(t), pc[t]) ELSE "none"
    /\ call[t].stage # "none" =>
         /\ call[t].dir = IF t \in ComputeThreads THEN "consume" ELSE "produce"
         /\ call[t].type = QueueType(Ins(t))

(* A register that is not zero was defined, and not under a branch that    *)
(* was not taken.                                                          *)
RegsDefined ==
  \A t \in Threads : \A i \in 1 .. Length :
    reg[t][i] # 0 => Defined(t, i) /\ Taken(kernel[i], reg[t])

(* What is received was sent, and is what the sender has.                  *)
Copies ==
  \A c \in ComputeThreads : \A i \in 1 .. Length :
    Got(c, i) => Sent(Partner(c), i) /\ reg[c][i] = reg[Partner(c)][i]

CmpBits ==
  \A t \in SupplyThreads : \A i \in 1 .. Length :
    kernel[i].op = "cmp" => reg[t][i] \in {0, 1}

(* The queues of a pair hold exactly what is sent and not yet received, in *)
(* the order of the kernel; nothing is in other queues.                    *)
KernelQueue(c, type) == queue_of(c, "consume", type)

Pending(c, type, i) ==
  /\ i \in 1 .. Length /\ QueueType(kernel[i]) = type
  /\ Sent(Partner(c), i) /\ ~ Got(c, i)

Message(s, i) ==
  [label |-> supply_label(kernel, i), data |-> Widened(kernel[i], reg[s][i])]

Increasing(q) ==
  \A m, n \in 1 .. Len(chan[q]) : m < n => chan[q][m].label < chan[q][n].label

HoldsPending(c, type) ==
  LET q == KernelQueue(c, type)
  IN  /\ Increasing(q)
      /\ \A n \in 1 .. Len(chan[q]) :
           \E i \in 1 .. Length : Pending(c, type, i) /\ chan[q][n] = Message(Partner(c), i)
      /\ \A i \in 1 .. Length :
           Pending(c, type, i) => \E n \in 1 .. Len(chan[q]) : chan[q][n] = Message(Partner(c), i)

QueuesHoldPending ==
  /\ \A c \in ComputeThreads, type \in Types : HoldsPending(c, type)
  /\ \A q \in Qids :
       (\A c \in ComputeThreads, type \in Types : q # KernelQueue(c, type)) => chan[q] = <<>>
-----------------------------------------------------------------------------
(* The kernel and its slices. *)

LEMMA KernelKnown ==
  ASSUME Compiled
  PROVE  /\ Length \in Nat
         /\ \A i \in 1 .. Length : kernel[i] \in Instructions(Length)
         /\ \A i \in 1 .. Length : kernel[i].guard # 0 =>
              /\ kernel[i].guard \in 1 .. i - 1
              /\ kernel[kernel[i].guard].op \in {"load", "rmw", "cmp"}
         /\ \A l \in 0 .. Length - 1, d \in Data : [label |-> l, data |-> d] \in Values
  <1> DEFINE T == Instructions(Length)
  <1>1. /\ kernel \in Seq(T) /\ IsKernel(kernel) /\ Compiles(kernel)
        /\ [label : 0 .. Length - 1, data : Data] \subseteq Values
    BY KernelAssumption DEF Compiled, Length
  <1>2. \A i \in T : i.op \in Ops /\ i.guard \in 0 .. Length
    BY DEF Instructions
  <1> HIDE DEF T
  <1>3. Length \in Nat /\ \A i \in 1 .. Length : kernel[i] \in T
    BY <1>1 DEF Length
  <1>4. ASSUME NEW i \in 1 .. Length, kernel[i].guard # 0
        PROVE  /\ kernel[i].guard \in 1 .. i - 1
               /\ kernel[kernel[i].guard].op \in {"load", "rmw", "cmp"}
    <2> DEFINE g == kernel[i].guard
    <2>1. g \in 1 .. Length
      BY <1>2, <1>3, <1>4
    <2>2. Reads(kernel[i], g) => g < i /\ kernel[g].op # "store"
      BY <1>1, <2>1 DEF IsKernel, Length
    <2>3. g < i /\ kernel[g].op # "store"
      BY <2>2 DEF Reads
    <2>4. kernel[g].op # "xload"
      BY <1>1, <1>4 DEF Compiles, Length
    <2>5. kernel[g].op \in Ops
      BY <1>2, <1>3, <2>1
    <2> QED  BY <1>3, <2>1, <2>3, <2>4, <2>5 DEF Ops
  <1>5. \A l \in 0 .. Length - 1, d \in Data : [label |-> l, data |-> d] \in Values
    BY <1>1
  <1> QED  BY <1>3, <1>4, <1>5 DEF T

LEMMA SlicesKnown ==
  ASSUME Compiled, NEW t \in Threads
  PROVE  LET S == Slice(t)
             received(i) == compute_instruments(kernel[i]) /\ ~ consume_removed(kernel, i)
         IN  /\ IsSlice(S, Length)
             /\ t \in ComputeThreads =>
                  /\ \A a \in 1 .. Len(S) :
                       /\ S[a].do \in {"write", "read", "call", "open", "receive", "close"}
                       /\ S[a].do = "write" => kernel[S[a].of].op = "store"
                       /\ S[a].do = "read" => kernel[S[a].of].op = "xload"
                       /\ S[a].do = "receive" => received(S[a].of)
                  /\ \A i \in 1 .. Length :
                       /\ received(i) => \E a \in 1 .. Len(S) : S[a].do = "receive" /\ S[a].of = i
                       /\ kernel[i].op = "store" => \E a \in 1 .. Len(S) : S[a].do = "write" /\ S[a].of = i
                       /\ kernel[i].op = "xload" => \E a \in 1 .. Len(S) : S[a].do = "read" /\ S[a].of = i
             /\ t \notin ComputeThreads =>
                  /\ \A a \in 1 .. Len(S) :
                       /\ supply_keeps(kernel)[S[a].of]
                       /\ kernel[S[a].of].op \in {"load", "rmw", "cmp"}
                       /\ S[a].do \in {"read", "update", "compare", "call", "open", "send", "close"}
                       /\ S[a].do \in {Access(kernel[S[a].of].op), "call", "open", "send", "close"}
                       /\ S[a].do = "send" =>
                            /\ produces(kernel, S[a].of)
                            /\ \E b \in 1 .. Len(S) :
                                 b < a /\ S[b].of = S[a].of /\ S[b].do = Access(kernel[S[a].of].op)
                  /\ \A i \in 1 .. Length :
                       /\ supply_keeps(kernel)[i] =>
                            \E a \in 1 .. Len(S) : S[a].do = Access(kernel[i].op) /\ S[a].of = i
                       /\ produces(kernel, i) => \E a \in 1 .. Len(S) : S[a].do = "send" /\ S[a].of = i
  <1>1. Len(kernel) \in Nat /\ \A i \in 1 .. Len(kernel) : kernel[i].op \in Ops
    BY KernelKnown DEF Instructions, Length
  <1>2. CASE t \in ComputeThreads
    <2>1. Slice(t) = compute_slice(kernel)
      BY <1>2 DEF Compiled, Slice
    <2> QED  BY <1>1, <1>2, <2>1, ComputeSlice, SMTT(30) DEF Length
  <1>3. CASE t \notin ComputeThreads
    <2> DEFINE S == supply_slice(kernel)
    <2>1. Slice(t) = S
      BY <1>3 DEF Compiled, Slice
    <2>2. IsSlice(S, Len(kernel))
      BY <1>1, SupplySlice
    <2>3. \A a \in 1 .. Len(S) :
            /\ supply_keeps(kernel)[S[a].of]
            /\ kernel[S[a].of].op \in {"load", "rmw", "cmp"}
            /\ S[a].do \in {Access(kernel[S[a].of].op), "call", "open", "send", "close"}
            /\ S[a].do = "send" =>
                 /\ produces(kernel, S[a].of)
                 /\ \E b \in 1 .. Len(S) :
                      b < a /\ S[b].of = S[a].of /\ S[b].do = Access(kernel[S[a].of].op)
      BY <1>1, SupplySlice
    <2>4. \A i \in 1 .. Len(kernel) :
            /\ supply_keeps(kernel)[i] =>
                 \E a \in 1 .. Len(S) : S[a].do = Access(kernel[i].op) /\ S[a].of = i
            /\ produces(kernel, i) => \E a \in 1 .. Len(S) : S[a].do = "send" /\ S[a].of = i
      BY <1>1, SupplySlice
    <2> HIDE DEF S
    <2>5. \A a \in 1 .. Len(S) :
            S[a].do \in {"read", "update", "compare", "call", "open", "send", "close"}
      BY <2>3 DEF Access
    <2> QED  BY <1>3, <2>1, <2>2, <2>3, <2>4, <2>5 DEF Length
  <1> QED  BY <1>2, <1>3

LEMMA SliceShape ==
  ASSUME Compiled, NEW t \in Threads
  PROVE  /\ IsSlice(Slice(t), Length)
         /\ Slice(t) \in Seq([do : Dos, of : 1 .. Length])
         /\ Len(Slice(t)) \in Nat
  <1>1. IsSlice(Slice(t), Length)
    BY SlicesKnown
  <1>2. Slice(t) \in Seq([do : Dos, of : 1 .. Length])
    BY <1>1 DEF IsSlice
  <1> QED  BY <1>1, <1>2

LEMMA ThreadPairs ==
  /\ Threads = ComputeThreads \cup SupplyThreads
  /\ ComputeThreads \cap SupplyThreads = {}
  /\ \A t \in Threads : t \in Int /\ Pair(t) \in ComputeThreads
  /\ \A c \in ComputeThreads : Partner(c) \in SupplyThreads /\ Pair(Partner(c)) = c /\ Pair(c) = c
  /\ \A s \in SupplyThreads : Partner(Pair(s)) = s /\ s \notin ComputeThreads
  BY RuntimeAssumption DEF ComputeThreads, SupplyThreads, Pair, Partner

(* The step a thread is at. *)
Placed ==
  /\ pc \in [Threads -> Nat]
  /\ \A t \in Threads : pc[t] \in 1 .. Len(Slice(t)) + 1

LEMMA AtStep ==
  ASSUME Compiled, Placed, NEW t \in Threads, ~ Finished(t)
  PROVE  /\ pc[t] \in 1 .. Len(Slice(t)) /\ Step(t).of \in 1 .. Length /\ Step(t).do \in Dos
         /\ Ins(t) \in Instructions(Length) /\ Len(Slice(t)) \in Nat
  <1> DEFINE T == [do : Dos, of : 1 .. Length]
  <1>1. Slice(t) \in Seq(T)
    BY SlicesKnown DEF IsSlice
  <1>2. \A r \in T : r.of \in 1 .. Length /\ r.do \in Dos
    OBVIOUS
  <1> HIDE DEF T
  <1>3. Len(Slice(t)) \in Nat
    BY <1>1
  <1>4. pc[t] \in 1 .. Len(Slice(t))
    BY <1>3 DEF Placed, Finished
  <1>5. Step(t) \in T
    BY <1>1, <1>4 DEF Step
  <1> QED  BY <1>2, <1>3, <1>4, <1>5, KernelKnown DEF Ins

-----------------------------------------------------------------------------
(* Types, and the calls of the runtime. *)

KernelVarsOK ==
  /\ Placed
  /\ reg \in [Threads -> [1 .. Length -> Data]]
  /\ mem \in [ComputeThreads -> [Cells -> Data]]
  /\ start \in [ComputeThreads -> [Cells -> Data]]
  /\ region \in 0 .. Regions

KernelTypes == Compiled /\ RInv /\ KernelVarsOK

LEMMA DataKnown ==
  /\ Data \subseteq Nat /\ 0 \in Data /\ 1 \in Data /\ Regions \in Nat
  /\ \A v \in Data : (v + 1) % DataSize \in Data /\ (0 - v) % DataSize \in Data /\ v % 2 \in Data
  /\ ((0 - 1) % DataSize) % 2 = 1 /\ ((0 - 0) % DataSize) % 2 = 0
  /\ \A v \in Values : v.data \in Data
  <1>1. DataSize \in Nat /\ DataSize >= 2 /\ DataSize % 2 = 0
    BY KernelAssumption
  <1>2. \A v \in Data : v \in Nat
    BY <1>1 DEF Data
  <1>3. \A v \in Int : v % DataSize \in 0 .. DataSize - 1
    BY <1>1
  <1>4. \A v \in Data : (v + 1) % DataSize \in Data /\ (0 - v) % DataSize \in Data
    BY <1>1, <1>2, <1>3 DEF Data
  <1>5. \A v \in Data : v % 2 \in Data
    <2>1. \A v \in Nat : v % 2 \in 0 .. 1
      OBVIOUS
    <2> QED  BY <1>1, <1>2, <2>1 DEF Data
  <1>6. (0 - 1) % DataSize = DataSize - 1 /\ (0 - 0) % DataSize = 0
    BY <1>1
  <1>7. (DataSize - 1) % 2 = 1 /\ 0 % 2 = 0
    BY <1>1
  <1>8. Data \subseteq Nat /\ 0 \in Data /\ 1 \in Data
    BY <1>1 DEF Data
  <1>9. Regions \in Nat /\ \A v \in Values : v.data \in Data
    BY KernelAssumption
  <1>10. ((0 - 1) % DataSize) % 2 = 1 /\ ((0 - 0) % DataSize) % 2 = 0
    BY <1>6, <1>7, Zenon
  <1> QED  BY <1>4, <1>5, <1>8, <1>9, <1>10

LEMMA OperandsKnown ==
  ASSUME Compiled, KernelVarsOK, NEW t \in Threads, ~ Finished(t)
  PROVE  /\ ValueOf(Ins(t).at, reg[t]) \in Data
         /\ ValueOf(Ins(t).from, reg[t]) \in Data
         /\ reg[t][Step(t).of] \in Data
         /\ \A v \in Data : Widened(Ins(t), v) \in Data /\ Narrowed(Ins(t), v) \in Data
  <1>1. Ins(t) \in Instructions(Length) /\ Step(t).of \in 1 .. Length
    BY AtStep DEF KernelVarsOK
  <1>2. reg[t] \in [1 .. Length -> Data] /\ Length \in Nat
    BY KernelKnown DEF KernelVarsOK
  <1>3. ASSUME NEW o \in Operand(Length) PROVE ValueOf(o, reg[t]) \in Data
    <2>1. o.reg \in 0 .. Length /\ o.const \in Data
      BY DEF Operand
    <2> QED  BY <1>2, <2>1 DEF ValueOf
  <1>4. Ins(t).at \in Operand(Length) /\ Ins(t).from \in Operand(Length)
    BY <1>1 DEF Instructions
  <1> QED  BY <1>1, <1>2, <1>3, <1>4, DataKnown DEF Widened, Narrowed

(* A step of a thread moves that thread only; it defines a register if it  *)
(* is one of the Definers and the branch it is under is taken.             *)
LEMMA StepShape ==
  ASSUME KernelTypes, NEW t \in Threads, ThreadStep(t)
  PROVE  /\ ~ Finished(t)
         /\ UNCHANGED <<kernel, slice, start, region>>
         /\ pc' = [pc EXCEPT ![t] = @ + 1]
         /\ mem' \in [ComputeThreads -> [Cells -> Data]]
         /\ chan' = chan \/ SendValue(t) \/ ReceiveValue(t)
         /\ \/ ~ Taken(Ins(t), reg[t]) /\ UNCHANGED <<runtimeVars, reg>>
            \/ Taken(Ins(t), reg[t]) /\ Step(t).do \notin Definers /\ reg' = reg
            \/ /\ Taken(Ins(t), reg[t]) /\ Step(t).do \in Definers
               /\ \E v \in Data : reg' = [reg EXCEPT ![t][Step(t).of] = v]
  <1>1. /\ Pair(t) \in ComputeThreads
        /\ mem \in [ComputeThreads -> [Cells -> Data]]
        /\ RInv /\ Compiled /\ KernelVarsOK
    BY ThreadPairs DEF KernelTypes, KernelVarsOK
  <1>2. CASE Skip(t)
    BY <1>1, <1>2 DEF Skip, programVars, runtimeVars, vars
  <1>3. CASE Read(t)
    <2>1. ~ Finished(t)
      BY <1>3 DEF Read, At
    <2>2. mem[Pair(t)][Address(t)] \in Data
      BY <1>1, <2>1, OperandsKnown DEF Address, Cells
    <2> QED  BY <1>1, <1>3, <2>2 DEF Read, At, Assign, programVars, runtimeVars, vars, Definers
  <1>4. CASE Update(t)
    <2>1. ~ Finished(t)
      BY <1>4 DEF Update, At
    <2>2. mem[Pair(t)][Address(t)] \in Data /\ Address(t) \in Cells
      BY <1>1, <2>1, OperandsKnown DEF Address, Cells
    <2>3. mem' \in [ComputeThreads -> [Cells -> Data]]
      BY <1>1, <1>4, <2>2, DataKnown DEF Update
    <2> QED  BY <1>1, <1>4, <2>2, <2>3 DEF Update, At, Assign, programVars, runtimeVars, vars, Definers
  <1>5. CASE Write(t)
    <2>1. ~ Finished(t)
      BY <1>5 DEF Write, At
    <2>2. ValueOf(Ins(t).from, reg[t]) \in Data
      BY <1>1, <2>1, OperandsKnown
    <2>3. mem' \in [ComputeThreads -> [Cells -> Data]]
      BY <1>1, <1>5, <2>2 DEF Write
    <2> QED  BY <1>1, <1>5, <2>3 DEF Write, At, programVars, runtimeVars, vars, Definers
  <1>6. CASE Compare(t)
    BY <1>1, <1>6, DataKnown DEF Compare, At, Assign, programVars, runtimeVars, vars, Definers
  <1>7. CASE BeginCall(t)
    BY <1>1, <1>7 DEF BeginCall, At, desc_call, programVars, vars, Definers
  <1>8. CASE Open(t)
    <2>1. chan' = chan
      BY <1>8 DEF Open, open_queue, OpenProducer, OpenConsumer
    <2> QED  BY <1>1, <1>8, <2>1 DEF Open, At, programVars, Definers
  <1>9. CASE SendValue(t)
    BY <1>1, <1>9 DEF SendValue, At, programVars, Definers
  <1>10. CASE ReceiveValue(t)
    <2>1. ~ Finished(t) /\ consume(t)
      BY <1>10 DEF ReceiveValue, At
    <2>2. CallQueue(t) \in Qids /\ chan \in [Qids -> Seq(Values)]
      BY <1>1, QueuesMade DEF RInv, RuntimeTypeOK, CallQueue
    <2>3. chan[CallQueue(t)] \in Seq(Values) /\ chan[CallQueue(t)] # <<>>
      BY <2>1, <2>2 DEF consume, Receive
    <2>4. Head(chan[CallQueue(t)]) \in Values
      BY <2>3
    <2>5. Narrowed(Ins(t), Head(chan[CallQueue(t)]).data) \in Data
      BY <1>1, <2>1, <2>4, DataKnown, OperandsKnown
    <2> QED  BY <1>1, <1>10, <2>5 DEF ReceiveValue, At, Assign, programVars, Definers
  <1>11. CASE Close(t)
    <2>1. chan' = chan
      BY <1>11 DEF Close, close_queue, CloseProducer, CloseConsumer
    <2> QED  BY <1>1, <1>11, <2>1 DEF Close, At, programVars, Definers
  <1> QED  BY <1>2, <1>3, <1>4, <1>5, <1>6, <1>7, <1>8, <1>9, <1>10, <1>11 DEF ThreadStep

-----------------------------------------------------------------------------
(* What the threads do is among what DescRuntime allows. *)

LEMMA ThreadMakesCalls ==
  ASSUME KernelTypes, NEW t \in Threads, ThreadStep(t)
  PROVE  [RuntimeNext]_runtimeVars
  <1>1. Compiled /\ KernelVarsOK /\ Placed
    BY DEF KernelTypes, KernelVarsOK
  <1>2. CASE SendValue(t)
    <2>1. ~ Finished(t)
      BY <1>2 DEF SendValue, At
    <2>2. Step(t).of \in 1 .. Length /\ Length \in Nat
      BY <1>1, <2>1, AtStep, KernelKnown
    <2>3. Label(t) \in 0 .. Length - 1
      BY <2>2, LabelBound, SameLabels DEF Label, Length
    <2>4. Widened(Ins(t), reg[t][Step(t).of]) \in Data
      BY <1>1, <2>1, OperandsKnown
    <2> DEFINE v == [label |-> Label(t), data |-> Widened(Ins(t), reg[t][Step(t).of])]
    <2>5. v \in Values
      BY <1>1, <2>3, <2>4, KernelKnown
    <2>6. produce(t, v)
      BY <1>2 DEF SendValue
    <2> HIDE DEF v
    <2> QED  BY <2>5, <2>6, Zenon DEF RuntimeNext, InCall
  <1>3. CASE BeginCall(t)
    <2>1. QueueType(Ins(t)) \in Types
      <3>1. ~ Finished(t)
        BY <1>3 DEF BeginCall, At
      <3>2. Ins(t) \in Instructions(Length)
        BY <1>1, <3>1, AtStep
      <3> QED  BY <3>2 DEF Instructions, QueueType, Types
    <2> QED  BY <1>3, <2>1 DEF BeginCall, RuntimeNext, Directions
  <1>4. CASE Open(t) \/ Close(t) \/ ReceiveValue(t)
    BY <1>4 DEF Open, Close, ReceiveValue, RuntimeNext, InCall
  <1>5. CASE Skip(t) \/ Read(t) \/ Update(t) \/ Write(t) \/ Compare(t)
    BY <1>5 DEF Skip, Read, Update, Write, Compare
  <1> QED  BY <1>2, <1>3, <1>4, <1>5 DEF ThreadStep

LEMMA KernelStepsAreCalls ==
  ASSUME KernelTypes, [KernelNext]_allVars
  PROVE  [RuntimeNext]_runtimeVars
  <1>1. CASE MainInit
    BY <1>1 DEF MainInit, RuntimeNext
  <1>2. CASE EnterRegion \/ ProgramEnds \/ UNCHANGED allVars
    BY <1>2 DEF EnterRegion, ProgramEnds, allVars
  <1> QED  BY <1>1, <1>2, ThreadMakesCalls DEF KernelNext

LEMMA KernelTypesKept == KernelTypes /\ [KernelNext]_allVars => KernelTypes'
  <1> SUFFICES ASSUME KernelTypes, [KernelNext]_allVars PROVE KernelTypes'
    OBVIOUS
  <1>1. RInv'
    BY KernelStepsAreCalls, StepKeepsRInv DEF KernelTypes
  <1>2. Compiled /\ KernelVarsOK /\ Placed /\ RuntimeTypeOK
    BY DEF KernelTypes, KernelVarsOK, RInv
  <1>3. Regions \in Nat /\ 0 \in Data
    BY DataKnown
  <1>4. \A t \in Threads : Slice(t) \in Seq([do : Dos, of : 1 .. Length]) /\ Len(Slice(t)) \in Nat
    BY <1>2, SliceShape
  <1>5. ASSUME NEW t \in Threads, ThreadStep(t) PROVE KernelTypes'
    <2>1. /\ ~ Finished(t)
          /\ UNCHANGED <<kernel, slice, start, region>>
          /\ pc' = [pc EXCEPT ![t] = @ + 1]
          /\ mem' \in [ComputeThreads -> [Cells -> Data]]
          /\ reg' = reg \/ \E v \in Data : reg' = [reg EXCEPT ![t][Step(t).of] = v]
      BY <1>5, StepShape
    <2>2. \A u \in Threads : Slice(u)' = Slice(u)
      BY <2>1 DEF Slice
    <2>3. reg' \in [Threads -> [1 .. Length -> Data]] /\ Length' = Length
      <3>1. Length' = Length
        BY <2>1 DEF Length
      <3>2. ASSUME NEW v \in Data, reg' = [reg EXCEPT ![t][Step(t).of] = v]
            PROVE  reg' \in [Threads -> [1 .. Length -> Data]]
        BY <1>2, <3>2 DEF KernelVarsOK
      <3> QED  BY <1>2, <2>1, <3>1, <3>2 DEF KernelVarsOK
    <2>4. pc[t] \in 1 .. Len(Slice(t))
      BY <1>2, <2>1, AtStep
    <2>5. Placed'
      BY <1>2, <1>4, <2>1, <2>2, <2>4 DEF Placed
    <2>6. Compiled'
      <3>1. ~ RegionOver
        BY <2>1 DEF RegionOver
      <3>2. live # {} /\ live' # {}
        <4>1. live # {}
          BY <1>2, <3>1 DEF Compiled
        <4>2. live' = live \/ live' # {}
          <5>1. CASE desc_init
            BY <4>1, <5>1 DEF desc_init
          <5>2. CASE ~ desc_init
            <6>1. [RuntimeNext]_runtimeVars
              BY KernelStepsAreCalls
            <6> QED  BY <5>2, <6>1
                 DEF RuntimeNext, InCall, open_queue, close_queue, produce, consume, desc_call,
                     OpenProducer, OpenConsumer, CloseProducer, CloseConsumer, Send, Receive,
                     runtimeVars, vars
          <5> QED  BY <5>1, <5>2
        <4> QED  BY <4>1, <4>2
      <3> QED  BY <1>2, <2>1, <3>2 DEF Compiled
    <2>7. KernelVarsOK'
      BY <1>2, <2>1, <2>3, <2>5 DEF KernelVarsOK
    <2> QED  BY <1>1, <2>6, <2>7 DEF KernelTypes
  <1>6. CASE MainInit
    <2>1. UNCHANGED kernelVars /\ live = {}
      BY <1>6 DEF MainInit, desc_init
    <2>2. /\ \A u \in Threads : Slice(u)' = Slice(u) /\ Finished(u)' = Finished(u)
          /\ Length' = Length
      BY <2>1 DEF kernelVars, programVars, Slice, Length, Finished
    <2>3. Compiled'
      BY <1>2, <2>1, <2>2 DEF Compiled, RegionOver, kernelVars, programVars
    <2>4. KernelVarsOK'
      BY <1>2, <2>1, <2>2 DEF KernelVarsOK, Placed, kernelVars, programVars
    <2> QED  BY <1>1, <2>3, <2>4 DEF KernelTypes
  <1>7. CASE EnterRegion
    <2>1. /\ UNCHANGED <<kernel, slice, live, mem>> /\ live # {} /\ start' = mem
          /\ pc' = [t \in Threads |-> 1]
          /\ reg' = [t \in Threads |-> [i \in 1 .. Length |-> 0]]
          /\ region < Regions /\ region' = region + 1
      BY <1>7 DEF EnterRegion, runtimeVars, vars, programVars
    <2>2. /\ \A u \in Threads : Slice(u)' = Slice(u)
          /\ Length' = Length
      BY <2>1 DEF Slice, Length
    <2>3. Compiled'
      BY <1>2, <2>1, <2>2 DEF Compiled
    <2>4. Placed'
      BY <1>4, <2>1, <2>2 DEF Placed
    <2>5. region' \in 0 .. Regions
      BY <1>2, <1>3, <2>1 DEF KernelVarsOK
    <2>6. KernelVarsOK'
      BY <1>2, <1>3, <2>1, <2>2, <2>4, <2>5 DEF KernelVarsOK
    <2> QED  BY <1>1, <2>3, <2>6 DEF KernelTypes
  <1>8. CASE UNCHANGED allVars
    <2>1. UNCHANGED kernelVars /\ live' = live
      BY <1>8 DEF allVars, runtimeVars, vars
    <2>2. /\ \A u \in Threads : Slice(u)' = Slice(u) /\ Finished(u)' = Finished(u)
          /\ Length' = Length
      BY <2>1 DEF kernelVars, programVars, Slice, Length, Finished
    <2>3. Compiled'
      BY <1>2, <2>1, <2>2 DEF Compiled, RegionOver, kernelVars, programVars
    <2>4. KernelVarsOK'
      BY <1>2, <2>1, <2>2 DEF KernelVarsOK, Placed, kernelVars, programVars
    <2> QED  BY <1>1, <2>3, <2>4 DEF KernelTypes
  <1> QED  BY <1>5, <1>6, <1>7, <1>8 DEF KernelNext, ProgramEnds

LEMMA KernelTypesStart == KernelInit => KernelTypes
  <1> SUFFICES ASSUME KernelInit PROVE KernelTypes
    OBVIOUS
  <1>1. RInv
    BY RuntimeStarts DEF KernelInit
  <1>2. pc = [t \in Threads |-> 1 + Len(Slice(t))]
    BY DEF KernelInit
  <1>3. \A t \in Threads : pc[t] = 1 + Len(Slice(t))
    BY <1>2
  <1>4. Compiled
    <2> SUFFICES ASSUME NEW t \in Threads, live = {} PROVE pc[t] > Len(Slice(t))
      BY DEF KernelInit, Compiled, RegionOver, Finished
    <2>1. kernel \in Kernels /\ slice = [compute |-> compute_slice(kernel), supply |-> supply_slice(kernel)]
      BY DEF KernelInit
    <2>2. Length \in Nat /\ \A i \in 1 .. Length : kernel[i].op \in Ops
      <3>1. kernel \in Seq(Instructions(Length))
        BY <2>1, KernelAssumption DEF Length
      <3>2. \A i \in Instructions(Length) : i.op \in Ops
        BY DEF Instructions
      <3> QED  BY <3>1, <3>2 DEF Length
    <2>3. IsSlice(Slice(t), Length)
      BY <2>1, <2>2, ComputeSlice, SupplySlice DEF Slice, Length
    <2>4. Len(Slice(t)) \in Nat
      BY <2>3 DEF IsSlice
    <2> QED  BY <1>3, <2>4
  <1>5. Placed
    <2>1. \A t \in Threads : Len(Slice(t)) \in Nat
      BY <1>4, SliceShape
    <2> QED  BY <1>2, <2>1 DEF Placed
  <1>6. KernelVarsOK
    BY <1>5, DataKnown DEF KernelInit, KernelVarsOK
  <1> QED  BY <1>1, <1>4, <1>6 DEF KernelTypes

-----------------------------------------------------------------------------
(* How a step of a thread moves what the invariants look at. *)

LEMMA ThreadMoves ==
  ASSUME KernelTypes, NEW t \in Threads, ThreadStep(t)
  PROVE  /\ kernel' = kernel /\ Length' = Length
         /\ pc[t] \in 1 .. Len(Slice(t)) /\ pc'[t] = pc[t] + 1
         /\ \A u \in Threads \ {t} : pc'[u] = pc[u] /\ reg'[u] = reg[u]
         /\ \A u \in Threads : Slice(u)' = Slice(u)
         /\ \A u \in Threads : \A i \in 1 .. Length :
              reg'[u][i] # reg[u][i] =>
                u = t /\ i = Step(t).of /\ Taken(Ins(t), reg[t]) /\ Step(t).do \in Definers
  <1>1. /\ ~ Finished(t) /\ UNCHANGED <<kernel, slice>>
        /\ pc' = [pc EXCEPT ![t] = @ + 1]
    BY StepShape
  <1>2. Compiled /\ Placed /\ pc \in [Threads -> Nat] /\ reg \in [Threads -> [1 .. Length -> Data]]
    BY DEF KernelTypes, KernelVarsOK, Placed
  <1>3. pc[t] \in 1 .. Len(Slice(t))
    BY <1>1, <1>2, AtStep
  <1>4. \/ reg' = reg
        \/ /\ Taken(Ins(t), reg[t]) /\ Step(t).do \in Definers
           /\ \E v \in Data : reg' = [reg EXCEPT ![t][Step(t).of] = v]
    BY StepShape, Zenon
  <1>5. ASSUME NEW u \in Threads, NEW i \in 1 .. Length, reg'[u][i] # reg[u][i]
        PROVE  u = t /\ i = Step(t).of /\ Taken(Ins(t), reg[t]) /\ Step(t).do \in Definers
    <2>1. PICK v \in Data : reg' = [reg EXCEPT ![t][Step(t).of] = v]
      BY <1>4, <1>5
    <2> QED  BY <1>2, <1>4, <1>5, <2>1
  <1>6. \A u \in Threads \ {t} : pc'[u] = pc[u] /\ reg'[u] = reg[u]
    BY <1>1, <1>2, <1>4
  <1> QED  BY <1>1, <1>2, <1>3, <1>5, <1>6 DEF Slice, Length

LEMMA DidAfter ==
  ASSUME KernelTypes, NEW t \in Threads, ThreadStep(t), NEW u \in Threads, NEW i, NEW what
  PROVE  Did(u, i, what)' <=> \/ Did(u, i, what)
                              \/ u = t /\ Step(t).do = what /\ Step(t).of = i
  <1>1. /\ pc[t] \in 1 .. Len(Slice(t)) /\ pc'[t] = pc[t] + 1
        /\ u # t => pc'[u] = pc[u]
        /\ Slice(u)' = Slice(u)
    BY ThreadMoves
  <1>2. pc[u] \in Nat /\ Len(Slice(u)) \in Nat
    BY SliceShape DEF KernelTypes, KernelVarsOK, Placed
  <1> QED  BY <1>1, <1>2 DEF Did, Step

(* What a thread has done comes before, or belongs to, what it is at.      *)
LEMMA DoneBefore ==
  ASSUME Compiled, Placed, NEW t \in Threads, ~ Finished(t), NEW i, NEW what, Did(t, i, what)
  PROVE  i \in 1 .. Length /\ i <= Step(t).of
  <1>1. PICK a \in 1 .. Len(Slice(t)) : a < pc[t] /\ Slice(t)[a].of = i
    BY DEF Did
  <1>2. pc[t] \in 1 .. Len(Slice(t))
    BY AtStep
  <1>3. Slice(t)[a].of <= Slice(t)[pc[t]].of
    BY <1>1, <1>2, SliceShape DEF IsSlice
  <1> DEFINE T == [do : Dos, of : 1 .. Length]
  <1>4. \A r \in T : r.of \in 1 .. Length
    OBVIOUS
  <1>5. Slice(t) \in Seq(T)
    BY SliceShape
  <1> HIDE DEF T
  <1>6. Slice(t)[a] \in T
    BY <1>1, <1>5
  <1> QED  BY <1>1, <1>3, <1>4, <1>6 DEF Step

(* The register an instruction's branch looks at is defined before it.     *)
LEMMA TakenKept ==
  ASSUME KernelTypes, NEW t \in Threads, ThreadStep(t), NEW u \in Threads,
         NEW i \in 1 .. Length, u = t => i <= Step(t).of
  PROVE  Taken(kernel[i], reg[u])' <=> Taken(kernel[i], reg[u])
  <1> DEFINE g == kernel[i].guard
  <1>1. Compiled /\ Placed /\ ~ Finished(t)
    BY StepShape DEF KernelTypes, KernelVarsOK
  <1>2. Length \in Nat /\ (g # 0 => g \in 1 .. i - 1)
    BY <1>1, KernelKnown
  <1>3. Step(t).of \in 1 .. Length
    BY <1>1, AtStep
  <1>4. g # 0 => g \in 1 .. Length /\ (u = t => g # Step(t).of)
    BY <1>2, <1>3
  <1>5. kernel' = kernel
    BY ThreadMoves
  <1>6. g # 0 => reg'[u][g] = reg[u][g]
    BY <1>4, ThreadMoves
  <1> HIDE DEF g
  <1>7. Taken(kernel[i], reg[u])' <=> (g # 0 => reg'[u][g] # 0)
    BY <1>5 DEF Taken, NoGuard, g
  <1>8. Taken(kernel[i], reg[u]) <=> (g # 0 => reg[u][g] # 0)
    BY DEF Taken, NoGuard, g
  <1> QED  BY <1>6, <1>7, <1>8

-----------------------------------------------------------------------------
(* The calls. *)

LEMMA CallAfter ==
  ASSUME KernelTypes, CallsFollow, NEW t \in Threads, ThreadStep(t), Taken(Ins(t), reg[t])
  PROVE  /\ call' \in [Threads -> [stage : Stages, dir : Directions, type : Types]]
         /\ \A u \in Threads \ {t} : call'[u] = call[u]
         /\ call'[t].stage = NextStage(Slice(t), pc[t])
         /\ call'[t].stage # "none" =>
              /\ call'[t].dir = IF t \in ComputeThreads THEN "consume" ELSE "produce"
              /\ call'[t].type = QueueType(Ins(t))
  <1> DEFINE S == Slice(t)
             a == pc[t]
             dir == IF t \in ComputeThreads THEN "consume" ELSE "produce"
             C == [stage : Stages, dir : Directions, type : Types]
  <1>1. ~ Finished(t) /\ Step(t) = S[a]
    BY StepShape DEF Step
  <1>2. /\ call[t].stage = Stage(S[a].do, Inner(S, a))
        /\ call[t].stage # "none" => call[t].dir = dir /\ call[t].type = QueueType(Ins(t))
    BY <1>1 DEF CallsFollow, StageAt
  <1>3. NextStage(S, a) = After(S[a].do, Inner(S, a))
    BY DEF NextStage
  <1>4. call \in [Threads -> C]
    BY DEF KernelTypes, RInv, RuntimeTypeOK
  <1>5. call' \in [Threads -> C]
    BY KernelStepsAreCalls, StepKeepsRInv DEF KernelTypes, RInv, RuntimeTypeOK, KernelNext
  <1>6. Inner(S, a) \in BOOLEAN
    BY DEF Inner
  <1>7. CASE Skip(t)
    BY <1>7 DEF Skip
  <1>8. CASE Read(t) \/ Write(t) \/ Compare(t)
    <2>1. call' = call /\ S[a].do \in {"read", "write", "compare"}
      BY <1>1, <1>8 DEF Read, Write, Compare, At, runtimeVars
    <2>2. call[t].stage = "none" /\ NextStage(S, a) = "none"
      BY <1>2, <1>3, <2>1 DEF Stage, After
    <2> QED  BY <1>4, <2>1, <2>2
  <1>9. CASE Update(t)
    <2>1. call' = call /\ S[a].do = "update"
      BY <1>1, <1>9 DEF Update, At, runtimeVars
    <2>2. call[t].stage = NextStage(S, a)
      BY <1>2, <1>3, <1>6, <2>1 DEF Stage, After
    <2> QED  BY <1>2, <1>4, <2>1, <2>2
  <1>10. CASE BeginCall(t)
    <2>1. /\ call' = [call EXCEPT ![t] = [stage |-> "open", dir |-> dir, type |-> QueueType(Ins(t))]]
          /\ S[a].do = "call"
      BY <1>1, <1>10 DEF BeginCall, At, desc_call
    <2>2. NextStage(S, a) = "open"
      BY <1>3, <2>1 DEF After
    <2> QED  BY <1>4, <1>5, <2>1, <2>2
  <1>11. CASE Open(t)
    <2>1. /\ call' = [call EXCEPT ![t].stage = "transfer"]
          /\ S[a].do = "open"
      BY <1>1, <1>11 DEF Open, At, open_queue, To
    <2>2. NextStage(S, a) = "transfer" /\ call[t].stage # "none"
      BY <1>2, <1>3, <2>1 DEF After, Stage
    <2> QED  BY <1>2, <1>4, <1>5, <2>1, <2>2
  <1>12. CASE SendValue(t) \/ ReceiveValue(t)
    <2>1. /\ call' = [call EXCEPT ![t].stage = "close"]
          /\ S[a].do \in {"send", "receive"}
      BY <1>1, <1>12 DEF SendValue, ReceiveValue, At, produce, consume, To
    <2>2. NextStage(S, a) = "close" /\ call[t].stage # "none"
      BY <1>2, <1>3, <2>1 DEF After, Stage
    <2> QED  BY <1>2, <1>4, <1>5, <2>1, <2>2
  <1>13. CASE Close(t)
    <2>1. call' = [call EXCEPT ![t] = NoCall] /\ S[a].do = "close"
      BY <1>1, <1>13 DEF Close, At, close_queue
    <2>2. NextStage(S, a) = "none" /\ NoCall.stage = "none"
      BY <1>3, <2>1 DEF After, NoCall
    <2> QED  BY <1>4, <1>5, <2>1, <2>2
  <1> QED  BY <1>7, <1>8, <1>9, <1>10, <1>11, <1>12, <1>13 DEF ThreadStep

LEMMA CallsFollowKept ==
  ASSUME KernelTypes, CallsFollow, NEW t \in Threads, ThreadStep(t)
  PROVE  CallsFollow'
  <1> DEFINE S == Slice(t)
             a == pc[t]
             Follows(u) ==
               /\ call[u].stage = IF ~ Finished(u) /\ Taken(Ins(u), reg[u])
                                    THEN StageAt(Slice(u), pc[u]) ELSE "none"
               /\ call[u].stage # "none" =>
                    /\ call[u].dir = IF u \in ComputeThreads THEN "consume" ELSE "produce"
                    /\ call[u].type = QueueType(Ins(u))
  <1>1. /\ kernel' = kernel /\ Length' = Length
        /\ a \in 1 .. Len(S) /\ pc'[t] = a + 1
        /\ \A u \in Threads \ {t} : pc'[u] = pc[u] /\ reg'[u] = reg[u]
        /\ \A u \in Threads : Slice(u)' = Slice(u)
    BY ThreadMoves
  <1>2. Compiled /\ Placed /\ ~ Finished(t)
    BY StepShape DEF KernelTypes, KernelVarsOK
  <1>3. IsSlice(S, Length) /\ Len(S) \in Nat
    BY <1>2, SliceShape
  <1>4. \/ ~ Taken(Ins(t), reg[t]) /\ call' = call
        \/ /\ Taken(Ins(t), reg[t])
           /\ \A u \in Threads \ {t} : call'[u] = call[u]
    BY StepShape, CallAfter, Zenon DEF runtimeVars
  <1>5. ASSUME NEW u \in Threads \ {t} PROVE Follows(u)'
    <2>1. Follows(u)
      BY DEF CallsFollow
    <2>2. call'[u] = call[u]
      BY <1>4
    <2>3. Finished(u)' = Finished(u) /\ Ins(u)' = Ins(u)
      BY <1>1 DEF Finished, Ins, Step
    <2>4. Taken(Ins(u), reg[u])' = Taken(Ins(u), reg[u])
      BY <1>1, <2>3 DEF Taken
    <2>5. StageAt(Slice(u), pc[u])' = StageAt(Slice(u), pc[u])
      BY <1>1
    <2> QED  BY <2>1, <2>2, <2>3, <2>4, <2>5
  <1>6. Finished(t)' <=> a + 1 \notin 1 .. Len(S)
    BY <1>1, <1>3 DEF Finished
  <1>7. Step(t).of \in 1 .. Length
    BY <1>2, AtStep
  <1>8. PICK i \in 1 .. Length : i = Step(t).of
    BY <1>7
  <1>9. Ins(t) = kernel[i] /\ S[a].of = i
    BY <1>8 DEF Ins, Step
  <1>10. Taken(kernel[i], reg'[t]) <=> Taken(kernel[i], reg[t])
    <2>1. t = t => i <= Step(t).of
      BY <1>7, <1>8
    <2>2. Taken(kernel[i], reg[t])' <=> Taken(kernel[i], reg[t])
      BY <2>1, TakenKept
    <2>3. Taken(kernel[i], reg[t])' <=> Taken(kernel[i], reg'[t])
      BY <1>1 DEF Taken
    <2> QED  BY <2>2, <2>3
  <1>11. ASSUME a + 1 \in 1 .. Len(S)
         PROVE  /\ ~ Finished(t)' /\ Step(t)' = S[a + 1]
                /\ Ins(t)' = kernel[S[a + 1].of]
    BY <1>1, <1>6, <1>11 DEF Step, Ins
  <1>12. ASSUME a + 1 \in 1 .. Len(S), ~ Inner(S, a + 1) PROVE StageAt(S, a + 1) = "none"
    BY <1>3, <1>12 DEF IsSlice
  <1>13. ASSUME a + 1 \in 1 .. Len(S), Inner(S, a + 1) PROVE S[a + 1].of = i
    BY <1>1, <1>9, <1>13 DEF Inner
  <1>14. /\ NextStage(S, a) # "none" => a + 1 \in 1 .. Len(S) /\ S[a + 1].of = i
         /\ a + 1 \in 1 .. Len(S) => StageAt(S, a + 1) = NextStage(S, a)
    BY <1>1, <1>3, <1>9 DEF IsSlice
  <1>15. Taken(Ins(t), reg[t])' = Taken(Ins(t)', reg'[t])
    BY DEF Taken
  <1>16. StageAt(Slice(t), pc[t])' = StageAt(S, a + 1)
    BY <1>1
  <1>17. ASSUME ~ Taken(Ins(t), reg[t]) PROVE Follows(t)'
    <2>1. call' = call
      BY <1>4, <1>17
    <2>2. call[t].stage = "none"
      BY <1>17 DEF CallsFollow
    <2>3. ~ Finished(t)' /\ Taken(Ins(t), reg[t])' => StageAt(Slice(t), pc[t])' = "none"
      BY <1>6, <1>9, <1>10, <1>11, <1>12, <1>13, <1>15, <1>16, <1>17
    <2> QED  BY <2>1, <2>2, <2>3
  <1>18. ASSUME Taken(Ins(t), reg[t]) PROVE Follows(t)'
    <2>1. /\ call'[t].stage = NextStage(S, a)
          /\ call'[t].stage # "none" =>
              /\ call'[t].dir = IF t \in ComputeThreads THEN "consume" ELSE "produce"
              /\ call'[t].type = QueueType(Ins(t))
      BY <1>18, CallAfter
    <2>2. CASE NextStage(S, a) = "none"
      BY <1>6, <1>14, <1>16, <2>1, <2>2
    <2>3. CASE NextStage(S, a) # "none"
      <3>1. ~ Finished(t)' /\ Ins(t)' = kernel[i] /\ StageAt(S, a + 1) = NextStage(S, a)
        BY <1>11, <1>14, <2>3
      <3>2. Taken(Ins(t), reg[t])'
        BY <1>9, <1>10, <1>15, <1>18, <3>1
      <3>3. QueueType(Ins(t))' = QueueType(Ins(t))
        BY <1>1, <1>9, <3>1 DEF QueueType
      <3> QED  BY <1>16, <2>1, <3>1, <3>2, <3>3
    <2> QED  BY <2>2, <2>3
  <1>19. Follows(t)'
    BY <1>17, <1>18
  <1> QED  BY <1>5, <1>19, Zenon DEF CallsFollow

-----------------------------------------------------------------------------
(* Both threads of a pair take the same branches. *)

(* A thread has all steps of earlier instructions behind it. *)
Reached(t, i) ==
  \A a \in 1 .. Len(Slice(t)) : Slice(t)[a].of < i => a < pc[t]

LEMMA WhatIsReached ==
  ASSUME Compiled, Placed, NEW t \in Threads
  PROVE  /\ Finished(t) => \A i \in 1 .. Length : Reached(t, i)
         /\ ~ Finished(t) => Reached(t, Step(t).of)
         /\ \A i, what : Did(t, i, what) => i \in 1 .. Length /\ Reached(t, i)
         /\ \A i, j \in 1 .. Length : j < i /\ Reached(t, i) => Reached(t, j)
  <1> DEFINE S == Slice(t)
             T == [do : Dos, of : 1 .. Length]
  <1>1. S \in Seq(T) /\ Len(S) \in Nat /\ pc[t] \in Nat
        /\ \A a, b \in 1 .. Len(S) : a < b => S[a].of <= S[b].of
    BY SliceShape DEF IsSlice, Placed
  <1>2. \A r \in T : r.of \in 1 .. Length
    OBVIOUS
  <1> HIDE DEF T
  <1>3. \A a \in 1 .. Len(S) : S[a].of \in 1 .. Length
    BY <1>1, <1>2
  <1>4. \A i \in 1 .. Length : \A b \in 1 .. Len(S) :
          b <= pc[t] /\ S[b].of = i => Reached(t, i)
    <2> SUFFICES ASSUME NEW b \in 1 .. Len(S), b <= pc[t], NEW a \in 1 .. Len(S), S[a].of < S[b].of
                 PROVE  a < pc[t]
      BY DEF Reached
    <2>1. ~ (b < a) /\ a # b
      BY <1>1, <1>3
    <2> QED  BY <1>1, <2>1
  <1>5. Finished(t) => \A i \in 1 .. Length : Reached(t, i)
    BY <1>1 DEF Finished, Reached
  <1>6. ~ Finished(t) => Reached(t, Step(t).of)
    <2> SUFFICES ASSUME ~ Finished(t) PROVE Reached(t, Step(t).of)
      OBVIOUS
    <2>1. pc[t] \in 1 .. Len(S) /\ Step(t).of \in 1 .. Length
      BY AtStep
    <2> QED  BY <1>4, <2>1 DEF Step
  <1>7. \A i, what : Did(t, i, what) => i \in 1 .. Length /\ Reached(t, i)
    <2> SUFFICES ASSUME NEW i, NEW what, Did(t, i, what) PROVE i \in 1 .. Length /\ Reached(t, i)
      OBVIOUS
    <2>1. PICK b \in 1 .. Len(S) : b < pc[t] /\ S[b].of = i
      BY DEF Did
    <2> QED  BY <1>1, <1>3, <1>4, <2>1
  <1>8. \A i, j \in 1 .. Length : j < i /\ Reached(t, i) => Reached(t, j)
    BY <1>3 DEF Reached
  <1> QED  BY <1>5, <1>6, <1>7, <1>8

Received(i) == compute_instruments(kernel[i]) /\ ~ consume_removed(kernel, i)

LEMMA SentAsReceived ==
  ASSUME Compiled, CmpsUsed(kernel), NEW i \in 1 .. Length
  PROVE  produces(kernel, i) <=> Received(i)
  <1>1. Len(kernel) \in Nat /\ i \in 1 .. Len(kernel)
    BY KernelKnown DEF Length
  <1> QED  BY <1>1, WhatIsSent DEF Received

(* What is received by c, or sent by its partner, was reached.             *)
LEMMA DoneWhenPast ==
  ASSUME Compiled, Placed, CmpsUsed(kernel), NEW c \in ComputeThreads,
         NEW i \in 1 .. Length, Received(i)
  PROVE  /\ Finished(c) \/ (\E j \in 1 .. Length : i < j /\ Reached(c, j))
              => Did(c, i, "receive")
         /\ Finished(Partner(c)) \/ (\E j \in 1 .. Length : i < j /\ Reached(Partner(c), j))
              => Did(Partner(c), i, "send")
  <1> DEFINE s == Partner(c)
  <1>1. c \in Threads /\ s \in Threads /\ s \notin ComputeThreads
    BY ThreadPairs
  <1>2. PICK a \in 1 .. Len(Slice(c)) : Slice(c)[a].do = "receive" /\ Slice(c)[a].of = i
    BY <1>1, SlicesKnown DEF Received
  <1>3. PICK b \in 1 .. Len(Slice(s)) : Slice(s)[b].do = "send" /\ Slice(s)[b].of = i
    BY <1>1, SlicesKnown, SentAsReceived
  <1>4. Len(Slice(c)) \in Nat /\ Len(Slice(s)) \in Nat /\ pc[c] \in Nat /\ pc[s] \in Nat
    BY <1>1, SliceShape DEF Placed
  <1> HIDE DEF s
  <1>5. Finished(c) \/ (\E j \in 1 .. Length : i < j /\ Reached(c, j)) => a < pc[c]
    BY <1>2, <1>4 DEF Finished, Reached
  <1>6. Finished(s) \/ (\E j \in 1 .. Length : i < j /\ Reached(s, j)) => b < pc[s]
    BY <1>3, <1>4 DEF Finished, Reached
  <1> QED  BY <1>2, <1>3, <1>5, <1>6 DEF Did, s

LEMMA GuardsAgree ==
  ASSUME Compiled, Placed, RegsDefined, Copies, CmpsUsed(kernel),
         NEW c \in ComputeThreads, NEW i \in 1 .. Length,
         Reached(c, i), Reached(Partner(c), i)
  PROVE  Taken(kernel[i], reg[c]) <=> Taken(kernel[i], reg[Partner(c)])
  <1> DEFINE s == Partner(c)
             Agree(n) == Taken(kernel[n], reg[c]) <=> Taken(kernel[n], reg[s])
             Bad == {n \in 1 .. Length : Reached(c, n) /\ Reached(s, n) /\ ~ Agree(n)}
  <1>1. c \in Threads /\ s \in Threads
    BY ThreadPairs
  <1> SUFFICES ASSUME Bad # {} PROVE FALSE
    OBVIOUS
  <1>2. PICK n \in Bad : \A m \in Bad : n <= m
    <2>1. Bad \in SUBSET Nat
      OBVIOUS
    <2> HIDE DEF Bad
    <2> QED  BY <2>1, LeastElement
  <1>3. n \in 1 .. Length /\ Reached(c, n) /\ Reached(s, n) /\ ~ Agree(n)
    OBVIOUS
  <1> DEFINE g == kernel[n].guard
  <1>4. g # 0
    BY <1>3 DEF Taken, NoGuard
  <1>5. g \in 1 .. Length /\ g < n /\ kernel[g].op \in {"load", "rmw", "cmp"}
    BY <1>3, <1>4, KernelKnown
  <1>6. Received(g)
    BY <1>3, <1>5 DEF Received, compute_instruments, consume_removed, compute_reads, Length
  <1>7. Did(c, g, "receive") /\ Did(s, g, "send")
    BY <1>3, <1>5, <1>6, DoneWhenPast
  <1>8. Reached(c, g) /\ Reached(s, g)
    BY <1>1, <1>3, <1>5, WhatIsReached
  <1>9. Agree(g)
    <2>1. g \notin Bad
      BY <1>2, <1>5
    <2> QED  BY <1>5, <1>8, <2>1
  <1>10. reg[c][g] # 0 => Taken(kernel[g], reg[c])
    BY <1>1, <1>5 DEF RegsDefined
  <1>11. reg[s][g] # 0 => Taken(kernel[g], reg[s])
    BY <1>1, <1>5 DEF RegsDefined
  <1>12. Taken(kernel[g], reg[c]) => reg[c][g] = reg[s][g]
    BY <1>5, <1>7 DEF Copies, Got
  <1>13. reg[c][g] # 0 <=> reg[s][g] # 0
    BY <1>9, <1>10, <1>11, <1>12
  <1> QED  BY <1>3, <1>13 DEF Taken, NoGuard

-----------------------------------------------------------------------------
(* The value at the head is the one the receiver is at. *)

LEMMA ReceiverAt ==
  ASSUME KernelTypes, CallsFollow, NEW c \in ComputeThreads, call[c].stage = "transfer"
  PROVE  /\ ~ Finished(c) /\ Taken(Ins(c), reg[c]) /\ Step(c).do = "receive"
         /\ CallQueue(c) = KernelQueue(c, QueueType(Ins(c)))
         /\ QueueType(Ins(c)) \in Types
  <1>1. c \in Threads /\ Compiled /\ Placed
    BY ThreadPairs DEF KernelTypes, KernelVarsOK
  <1>2. /\ ~ Finished(c) /\ Taken(Ins(c), reg[c]) /\ StageAt(Slice(c), pc[c]) = "transfer"
        /\ call[c].dir = "consume" /\ call[c].type = QueueType(Ins(c))
    BY <1>1 DEF CallsFollow
  <1>3. Step(c).do \in {"write", "read", "call", "open", "receive", "close"}
    <2>1. pc[c] \in 1 .. Len(Slice(c))
      BY <1>1, <1>2, AtStep
    <2>2. Slice(c)[pc[c]].do \in {"write", "read", "call", "open", "receive", "close"}
      BY <1>1, <2>1, SlicesKnown
    <2> QED  BY <2>2 DEF Step
  <1>4. Step(c).do = "receive"
    BY <1>2, <1>3 DEF StageAt, Stage, Step
  <1>5. QueueType(Ins(c)) \in Types
    <2>1. Ins(c) \in Instructions(Length)
      BY <1>1, <1>2, AtStep
    <2> QED  BY <2>1 DEF Instructions, QueueType, Types
  <1> QED  BY <1>2, <1>4, <1>5 DEF CallQueue, KernelQueue

(* After the transfer of an instruction there is only the close.           *)
LEMMA NotTwice ==
  ASSUME Compiled, Placed, NEW t \in Threads, ~ Finished(t), Step(t).do # "close"
  PROVE  ~ Did(t, Step(t).of, "send") /\ ~ Did(t, Step(t).of, "receive")
  <1>1. pc[t] \in 1 .. Len(Slice(t))
    BY AtStep
  <1>2. IsSlice(Slice(t), Length)
    BY SliceShape
  <1> QED  BY <1>1, <1>2 DEF IsSlice, Did, Step

LEMMA QueueKnown ==
  ASSUME RInv, NEW c \in ComputeThreads, NEW type \in Types
  PROVE  /\ KernelQueue(c, type) \in Qids
         /\ chan[KernelQueue(c, type)] \in Seq(Values)
         /\ Len(chan[KernelQueue(c, type)]) \in Nat
  <1>1. KernelQueue(c, type) \in Qids
    BY ThreadPairs, QueuesMade DEF KernelQueue, Directions
  <1>2. chan \in [Qids -> Seq(Values)]
    BY DEF RInv, RuntimeTypeOK
  <1> QED  BY <1>1, <1>2

LEMMA MessageLabel ==
  ASSUME Compiled, NEW s, NEW i \in 1 .. Length
  PROVE  Message(s, i).label = supply_label(kernel, i) /\ supply_label(kernel, i) \in Nat
         /\ Message(s, i).data = Widened(kernel[i], reg[s][i])
  <1>1. supply_label(kernel, i) \in 0 .. Len(kernel) - 1
    BY KernelKnown, LabelBound DEF Length
  <1> QED  BY <1>1 DEF Message

(* Of what is pending, the receiver is at the first. *)
LEMMA HeadIsMine ==
  ASSUME KernelTypes, CallsFollow, RegsDefined, Copies, QueuesHoldPending, CmpsUsed(kernel),
         NEW c \in ComputeThreads, call[c].stage = "transfer", chan[CallQueue(c)] # <<>>
  PROVE  /\ Pending(c, QueueType(Ins(c)), Step(c).of)
         /\ chan[CallQueue(c)][1] = Message(Partner(c), Step(c).of)
  <1> DEFINE s == Partner(c)
             type == QueueType(Ins(c))
             q == CallQueue(c)
             i == Step(c).of
  <1>1. c \in Threads /\ s \in Threads /\ Compiled /\ Placed /\ RInv
    BY ThreadPairs DEF KernelTypes, KernelVarsOK
  <1>2. /\ ~ Finished(c) /\ Taken(Ins(c), reg[c]) /\ Step(c).do = "receive"
        /\ q = KernelQueue(c, type) /\ type \in Types
    BY ReceiverAt
  <1>3. i \in 1 .. Length /\ Ins(c) = kernel[i] /\ pc[c] \in 1 .. Len(Slice(c))
    BY <1>1, <1>2, AtStep DEF Ins
  <1>4. /\ Increasing(q)
        /\ \A n \in 1 .. Len(chan[q]) :
             \E j \in 1 .. Length : Pending(c, type, j) /\ chan[q][n] = Message(s, j)
        /\ \A j \in 1 .. Length :
             Pending(c, type, j) => \E n \in 1 .. Len(chan[q]) : chan[q][n] = Message(s, j)
    <2>1. HoldsPending(c, type)
      BY <1>2 DEF QueuesHoldPending
    <2> QED  BY <1>2, <2>1 DEF HoldsPending
  <1>5. Len(chan[q]) \in Nat /\ 1 \in 1 .. Len(chan[q])
    BY <1>1, <1>2, QueueKnown
  <1>6. PICK j \in 1 .. Length : Pending(c, type, j) /\ chan[q][1] = Message(s, j)
    BY <1>4, <1>5
  <1>7. Sent(s, j) /\ ~ Got(c, j)
    BY <1>6 DEF Pending
  <1>8. Received(j)
    <2>1. PICK a \in 1 .. Len(Slice(s)) : Slice(s)[a].do = "send" /\ Slice(s)[a].of = j
      BY <1>7 DEF Sent, Did
    <2>2. s \notin ComputeThreads
      BY ThreadPairs
    <2>3. produces(kernel, j)
      BY <1>1, <2>1, <2>2, SlicesKnown
    <2> QED  BY <1>1, <2>3, SentAsReceived
  <1>9. Received(i)
    BY <1>1, <1>2, <1>3, SlicesKnown DEF Step, Received
  <1>10. Reached(c, i) /\ Reached(s, j)
    BY <1>1, <1>2, <1>7, WhatIsReached DEF Sent
  <1>11. ASSUME j < i PROVE FALSE
    <2>1. Did(c, j, "receive")
      BY <1>1, <1>3, <1>8, <1>10, <1>11, DoneWhenPast
    <2>2. Reached(c, j)
      BY <1>1, <1>3, <1>10, <1>11, WhatIsReached
    <2>3. Taken(kernel[j], reg[c])
      BY <1>1, <1>7, <1>10, <2>2, GuardsAgree DEF Sent
    <2> QED  BY <1>7, <2>1, <2>3 DEF Got
  <1>12. ASSUME i < j PROVE FALSE
    <2>1. Did(s, i, "send")
      BY <1>1, <1>3, <1>9, <1>10, <1>12, DoneWhenPast
    <2>2. Reached(s, i)
      BY <1>1, <1>3, <1>10, <1>12, WhatIsReached
    <2>3. Taken(kernel[i], reg[s])
      BY <1>1, <1>2, <1>3, <1>10, <2>2, GuardsAgree
    <2>4. ~ Got(c, i)
      BY <1>1, <1>2, NotTwice DEF Got
    <2>5. Pending(c, type, i)
      BY <1>3, <2>1, <2>3, <2>4 DEF Pending, Sent
    <2>6. PICK n \in 1 .. Len(chan[q]) : chan[q][n] = Message(s, i)
      BY <1>3, <1>4, <2>5
    <2>7. supply_label(kernel, i) < supply_label(kernel, j)
      BY <1>1, <1>3, <1>9, <1>12, KernelKnown, LabelsGrow
         DEF Received, compute_instruments, supply_instruments, Length
    <2>8. chan[q][n].label < chan[q][1].label
      BY <1>1, <1>3, <1>6, <2>6, <2>7, MessageLabel
    <2>9. n = 1 \/ chan[q][1].label < chan[q][n].label
      BY <1>4, <1>5 DEF Increasing
    <2>10. chan[q][1].label \in Nat /\ chan[q][n].label \in Nat
      BY <1>1, <1>3, <1>6, <2>6, MessageLabel
    <2> HIDE DEF q
    <2> QED  BY <2>8, <2>9, <2>10
  <1>13. i = j
    BY <1>3, <1>11, <1>12, KernelKnown, <1>1
  <1> QED  BY <1>6, <1>13

(* When all threads are through nothing is left. *)
LEMMA NothingLeft ==
  ASSUME KernelTypes, RegsDefined, Copies, QueuesHoldPending, CmpsUsed(kernel), RegionOver
  PROVE  \A q \in Qids : chan[q] = <<>>
  <1> SUFFICES ASSUME NEW q \in Qids, chan[q] # <<>> PROVE FALSE
    OBVIOUS
  <1>1. Compiled /\ Placed /\ RInv
    BY DEF KernelTypes, KernelVarsOK
  <1>2. PICK c \in ComputeThreads, type \in Types : q = KernelQueue(c, type)
    BY DEF QueuesHoldPending
  <1> DEFINE s == Partner(c)
  <1>3. c \in Threads /\ s \in Threads /\ s \notin ComputeThreads
    BY ThreadPairs
  <1>4. Len(chan[q]) \in Nat /\ 1 \in 1 .. Len(chan[q])
    BY <1>1, <1>2, QueueKnown
  <1>5. PICK j \in 1 .. Length : Pending(c, type, j)
    BY <1>2, <1>4 DEF QueuesHoldPending, HoldsPending
  <1>6. Sent(s, j) /\ ~ Got(c, j)
    BY <1>5 DEF Pending
  <1>7. Received(j)
    <2>1. PICK a \in 1 .. Len(Slice(s)) : Slice(s)[a].do = "send" /\ Slice(s)[a].of = j
      BY <1>6 DEF Sent, Did
    <2>2. produces(kernel, j)
      BY <1>1, <1>3, <2>1, SlicesKnown
    <2> QED  BY <1>1, <2>2, SentAsReceived
  <1>8. Finished(c) /\ Finished(s)
    BY <1>3 DEF RegionOver
  <1>9. Did(c, j, "receive") /\ Reached(c, j) /\ Reached(s, j)
    BY <1>1, <1>3, <1>7, <1>8, DoneWhenPast, WhatIsReached
  <1>10. Taken(kernel[j], reg[c])
    BY <1>1, <1>6, <1>9, GuardsAgree DEF Sent
  <1> QED  BY <1>6, <1>9, <1>10 DEF Got

-----------------------------------------------------------------------------
(* The step of a thread keeps the invariants. *)

LEMMA WhichAction ==
  ASSUME NEW t \in Threads, ThreadStep(t), Taken(Ins(t), reg[t])
  PROVE  /\ Step(t).do = "receive" => ReceiveValue(t)
         /\ Step(t).do = "send" => SendValue(t)
         /\ Step(t).do = "compare" => Compare(t)
  BY DEF ThreadStep, Skip, Read, Update, Write, Compare, BeginCall, Open, SendValue,
         ReceiveValue, Close, At

LEMMA SentAfter ==
  ASSUME KernelTypes, NEW t \in Threads, ThreadStep(t), NEW u \in Threads, NEW i \in 1 .. Length
  PROVE  /\ Sent(u, i)' <=> \/ Sent(u, i)
                            \/ /\ u = t /\ Step(t).do = "send" /\ Step(t).of = i
                               /\ Taken(kernel[i], reg[u])
         /\ Got(u, i)' <=> \/ Got(u, i)
                           \/ /\ u = t /\ Step(t).do = "receive" /\ Step(t).of = i
                              /\ Taken(kernel[i], reg[u])
  <1>1. Compiled /\ Placed /\ ~ Finished(t)
    BY StepShape DEF KernelTypes, KernelVarsOK
  <1>2. ASSUME NEW what
        PROVE  Did(u, i, what)' /\ Taken(kernel[i], reg[u])'
                 <=> /\ Did(u, i, what) \/ (u = t /\ Step(t).do = what /\ Step(t).of = i)
                     /\ Taken(kernel[i], reg[u])
    <2>1. Did(u, i, what)' <=> Did(u, i, what) \/ (u = t /\ Step(t).do = what /\ Step(t).of = i)
      BY DidAfter
    <2>2. ASSUME Did(u, i, what) \/ (u = t /\ Step(t).do = what /\ Step(t).of = i)
          PROVE  u = t => i <= Step(t).of
      <3>1. Step(t).of \in 1 .. Length
        BY <1>1, AtStep
      <3> QED  BY <1>1, <2>2, <3>1, DoneBefore
    <2>3. (u = t => i <= Step(t).of) => (Taken(kernel[i], reg[u])' <=> Taken(kernel[i], reg[u]))
      BY TakenKept
    <2> QED  BY <2>1, <2>2, <2>3
  <1> QED  BY <1>2 DEF Sent, Got

LEMMA RegKept ==
  ASSUME KernelTypes, NEW t \in Threads, ThreadStep(t), NEW u \in Threads, NEW i \in 1 .. Length,
         Did(u, i, "send") \/ Did(u, i, "receive")
  PROVE  reg'[u][i] = reg[u][i]
  <1>1. Compiled /\ Placed /\ ~ Finished(t)
    BY StepShape DEF KernelTypes, KernelVarsOK
  <1> SUFFICES ASSUME reg'[u][i] # reg[u][i] PROVE FALSE
    OBVIOUS
  <1>2. u = t /\ i = Step(t).of /\ Step(t).do \in Definers
    BY ThreadMoves
  <1> QED  BY <1>1, <1>2, NotTwice DEF Definers

LEMMA RegsDefinedKept ==
  ASSUME KernelTypes, RegsDefined, NEW t \in Threads, ThreadStep(t)
  PROVE  RegsDefined'
  <1>1. Compiled /\ Placed /\ ~ Finished(t)
    BY StepShape DEF KernelTypes, KernelVarsOK
  <1>2. Length' = Length /\ kernel' = kernel
    BY ThreadMoves
  <1>3. ASSUME NEW u \in Threads, NEW i \in 1 .. Length, reg'[u][i] # 0
        PROVE  Defined(u, i)' /\ Taken(kernel[i], reg[u])'
    <2>1. CASE reg'[u][i] = reg[u][i]
      <3>1. Defined(u, i) /\ Taken(kernel[i], reg[u])
        BY <1>3, <2>1 DEF RegsDefined
      <3>2. PICK what \in Definers : Did(u, i, what)
        BY <3>1 DEF Defined
      <3>3. Did(u, i, what)'
        BY <3>2, DidAfter
      <3>4. u = t => i <= Step(t).of
        BY <1>1, <3>2, DoneBefore
      <3>5. Taken(kernel[i], reg[u])'
        BY <3>1, <3>4, TakenKept
      <3> QED  BY <3>3, <3>5 DEF Defined
    <2>2. CASE reg'[u][i] # reg[u][i]
      <3>1. u = t /\ i = Step(t).of /\ Taken(Ins(t), reg[t]) /\ Step(t).do \in Definers
        BY <2>2, ThreadMoves
      <3>2. PICK what \in Definers : what = Step(t).do
        BY <3>1
      <3>3. Did(u, i, what)'
        BY <3>1, <3>2, DidAfter
      <3>4. u = t => i <= Step(t).of
        BY <3>1, <1>1, AtStep
      <3>5. Taken(kernel[i], reg[u])'
        BY <3>1, <3>4, TakenKept DEF Ins
      <3> QED  BY <3>3, <3>5 DEF Defined
    <2> QED  BY <2>1, <2>2
  <1> QED  BY <1>2, <1>3 DEF RegsDefined

LEMMA CmpBitsKept ==
  ASSUME KernelTypes, CmpBits, NEW t \in Threads, ThreadStep(t)
  PROVE  CmpBits'
  <1>1. Compiled /\ Placed /\ ~ Finished(t)
    BY StepShape DEF KernelTypes, KernelVarsOK
  <1>2. Length' = Length /\ kernel' = kernel
    BY ThreadMoves
  <1>3. ASSUME NEW u \in SupplyThreads, NEW i \in 1 .. Length, kernel[i].op = "cmp"
        PROVE  reg'[u][i] \in {0, 1}
    <2>1. u \in Threads /\ u \notin ComputeThreads
      BY ThreadPairs
    <2>2. CASE reg'[u][i] = reg[u][i]
      BY <1>3, <2>2 DEF CmpBits
    <2>3. CASE reg'[u][i] # reg[u][i]
      <3>1. u = t /\ i = Step(t).of /\ Taken(Ins(t), reg[t]) /\ Step(t).do \in Definers
        BY <2>1, <2>3, ThreadMoves
      <3>2. pc[t] \in 1 .. Len(Slice(t))
        BY <1>1, AtStep
      <3>3. /\ Slice(t)[pc[t]].do \in {"read", "update", "compare", "call", "open", "send", "close"}
            /\ Slice(t)[pc[t]].do \in {Access(kernel[Slice(t)[pc[t]].of].op), "call", "open", "send", "close"}
        BY <1>1, <2>1, <3>1, <3>2, SlicesKnown
      <3>4. Step(t).do = "compare"
        BY <1>3, <3>1, <3>3 DEF Step, Definers, Access
      <3>5. Compare(t)
        BY <3>1, <3>4, WhichAction
      <3>6. reg \in [Threads -> [1 .. Length -> Data]]
        BY DEF KernelTypes, KernelVarsOK
      <3> QED  BY <3>1, <3>5, <3>6 DEF Compare, Assign
    <2> QED  BY <2>2, <2>3
  <1> QED  BY <1>2, <1>3 DEF CmpBits

KernelInv ==
  KernelTypes /\ CallsFollow /\ RegsDefined /\ Copies /\ CmpBits /\ QueuesHoldPending

LEMMA Receiving ==
  ASSUME KernelInv, CmpsUsed(kernel), NEW c \in Threads, ReceiveValue(c)
  PROVE  /\ c \in ComputeThreads
         /\ Pending(c, QueueType(Ins(c)), Step(c).of)
         /\ CallQueue(c) = KernelQueue(c, QueueType(Ins(c))) /\ QueueType(Ins(c)) \in Types
         /\ chan[CallQueue(c)] # <<>>
         /\ chan[CallQueue(c)][1] = Message(Partner(c), Step(c).of)
         /\ chan' = [chan EXCEPT ![CallQueue(c)] = Tail(@)]
         /\ reg'[c][Step(c).of] = reg[Partner(c)][Step(c).of]
  <1>1. Compiled /\ Placed /\ RInv /\ CmpBits /\ reg \in [Threads -> [1 .. Length -> Data]]
    BY DEF KernelInv, KernelTypes, KernelVarsOK
  <1>2. /\ ~ Finished(c) /\ Step(c).do = "receive"
        /\ call[c].stage = "transfer" /\ chan[CallQueue(c)] # <<>>
        /\ chan' = [chan EXCEPT ![CallQueue(c)] = Tail(@)]
        /\ reg' = [reg EXCEPT ![c][Step(c).of] = Narrowed(Ins(c), Head(chan[CallQueue(c)]).data)]
    BY DEF ReceiveValue, At, consume, To, Receive, Assign
  <1>3. pc[c] \in 1 .. Len(Slice(c)) /\ Step(c).of \in 1 .. Length
    BY <1>1, <1>2, AtStep
  <1>4. c \in ComputeThreads
    <2> SUFFICES ASSUME c \notin ComputeThreads PROVE FALSE
      OBVIOUS
    <2>1. Slice(c)[pc[c]].do \in {"read", "update", "compare", "call", "open", "send", "close"}
      BY <1>1, <1>3, SlicesKnown
    <2> QED  BY <1>2, <2>1 DEF Step
  <1>5. /\ Pending(c, QueueType(Ins(c)), Step(c).of)
        /\ chan[CallQueue(c)][1] = Message(Partner(c), Step(c).of)
    BY <1>2, <1>4, HeadIsMine DEF KernelInv
  <1>6. CallQueue(c) = KernelQueue(c, QueueType(Ins(c))) /\ QueueType(Ins(c)) \in Types
    BY <1>2, <1>4, ReceiverAt DEF KernelInv
  <1>7. reg'[c][Step(c).of] = reg[Partner(c)][Step(c).of]
    <2> DEFINE v == reg[Partner(c)][Step(c).of]
    <2>1. Head(chan[CallQueue(c)]) = chan[CallQueue(c)][1]
      BY <1>1, <1>4, <1>6, <1>2, QueueKnown
    <2>2. Head(chan[CallQueue(c)]).data = Widened(kernel[Step(c).of], v)
      BY <1>1, <1>3, <1>5, <2>1, MessageLabel
    <2>3. kernel[Step(c).of].op = "cmp" => v \in {0, 1}
      BY <1>1, <1>3, <1>4, ThreadPairs DEF CmpBits
    <2> HIDE DEF v
    <2>4. Narrowed(Ins(c), Widened(kernel[Step(c).of], v)) = v
      BY <2>3, DataKnown DEF Narrowed, Widened, Ins
    <2>5. reg'[c][Step(c).of] = v
      BY <1>1, <1>2, <1>3, <2>2, <2>4
    <2> QED  BY <2>5 DEF v
  <1> QED  BY <1>2, <1>4, <1>5, <1>6, <1>7

LEMMA CopiesKept ==
  ASSUME KernelInv, CmpsUsed(kernel), NEW t \in Threads, ThreadStep(t)
  PROVE  Copies'
  <1>1. KernelTypes /\ Copies
    BY DEF KernelInv
  <1>2. Length' = Length /\ kernel' = kernel
    BY <1>1, ThreadMoves
  <1>3. ASSUME NEW c \in ComputeThreads, NEW i \in 1 .. Length, Got(c, i)'
        PROVE  Sent(Partner(c), i)' /\ reg'[c][i] = reg'[Partner(c)][i]
    <2> DEFINE s == Partner(c)
    <2>1. c \in Threads /\ s \in Threads /\ s # c
      BY ThreadPairs
    <2>2. CASE Got(c, i)
      <3>1. Sent(s, i) /\ reg[c][i] = reg[s][i]
        BY <1>1, <2>2 DEF Copies
      <3>2. Sent(s, i)'
        BY <1>1, <2>1, <3>1, SentAfter
      <3>3. Did(s, i, "send") /\ Did(c, i, "receive")
        BY <2>2, <3>1 DEF Sent, Got
      <3>4. reg'[c][i] = reg[c][i] /\ reg'[s][i] = reg[s][i]
        BY <1>1, <2>1, <3>3, RegKept
      <3> QED  BY <3>1, <3>2, <3>4
    <2>3. CASE ~ Got(c, i)
      <3>1. c = t /\ Step(t).do = "receive" /\ Step(t).of = i /\ Taken(kernel[i], reg[t])
        BY <1>1, <1>3, <2>1, <2>3, SentAfter
      <3>2. ReceiveValue(t)
        BY <3>1, WhichAction DEF Ins
      <3>3. Pending(c, QueueType(Ins(c)), i) /\ reg'[c][i] = reg[s][i]
        BY <3>1, <3>2, Receiving
      <3>4. Sent(s, i)
        BY <3>3 DEF Pending
      <3>5. Sent(s, i)' /\ reg'[s][i] = reg[s][i]
        BY <1>1, <2>1, <3>1, <3>4, SentAfter, ThreadMoves
      <3> QED  BY <3>3, <3>5
    <2> QED  BY <2>2, <2>3
  <1> QED  BY <1>2, <1>3 DEF Copies

-----------------------------------------------------------------------------
(* The queues. *)

LEMMA QueuesDiffer ==
  ASSUME NEW c \in ComputeThreads, NEW d \in ComputeThreads,
         NEW type1 \in Types, NEW type2 \in Types,
         KernelQueue(c, type1) = KernelQueue(d, type2)
  PROVE  c = d /\ type1 = type2
  <1>1. c \in Threads /\ d \in Threads /\ "consume" \in Directions
    BY ThreadPairs DEF Directions
  <1>2. c = d
    BY <1>1, OneThreadPerQueueEnd DEF KernelQueue
  <1>3. Region(c, "consume", type1) = Region(d, "consume", type2)
    BY <1>1, RegionsDisjoint, QueuesMade DEF KernelQueue, queue_of
  <1> QED  BY <1>2, <1>3 DEF Region, Types

LEMMA SameQueue ==
  ASSUME NEW c \in ComputeThreads, NEW type \in Types
  PROVE  queue_of(Partner(c), "produce", type) = KernelQueue(c, type)
  <1>1. Partner(c) \notin ComputeThreads
    BY ThreadPairs
  <1>2. Base(Partner(c)) = Base(c)
    BY <1>1, RuntimeAssumption
       DEF Base, Partner, ComputeThreads, get_producer_qid, get_consumer_qid
  <1>3. Region(Partner(c), "produce", type) = Region(c, "consume", type)
    BY <1>1 DEF Region
  <1> QED  BY <1>2, <1>3 DEF queue_of, KernelQueue

(* A queue nobody touches goes on holding what is pending. *)
LEMMA HoldsFrame ==
  ASSUME KernelTypes, NEW t \in Threads, ThreadStep(t),
         NEW c \in ComputeThreads, NEW type \in Types, HoldsPending(c, type),
         chan'[KernelQueue(c, type)] = chan[KernelQueue(c, type)],
         \A i \in 1 .. Length : Pending(c, type, i)' <=> Pending(c, type, i)
  PROVE  HoldsPending(c, type)'
  <1> DEFINE s == Partner(c)
  <1>1. PICK q : q = KernelQueue(c, type)
    OBVIOUS
  <1>2. Length' = Length /\ kernel' = kernel
    BY ThreadMoves
  <1>3. ASSUME NEW i \in 1 .. Length, Pending(c, type, i)
        PROVE  Message(s, i)' = Message(s, i)
    <2>1. Did(s, i, "send")
      BY <1>3 DEF Pending, Sent
    <2>2. reg'[s][i] = reg[s][i]
      BY <2>1, RegKept, ThreadPairs
    <2> QED  BY <1>2, <2>2 DEF Message
  <1>4. KernelQueue(c, type)' = q
    BY <1>1 DEF KernelQueue, queue_of, Base, Region, get_producer_qid, get_consumer_qid
  <1>5. /\ Increasing(q)
        /\ \A n \in 1 .. Len(chan[q]) :
             \E i \in 1 .. Length : Pending(c, type, i) /\ chan[q][n] = Message(s, i)
        /\ \A i \in 1 .. Length :
             Pending(c, type, i) => \E n \in 1 .. Len(chan[q]) : chan[q][n] = Message(s, i)
    BY <1>1 DEF HoldsPending
  <1>6. chan'[q] = chan[q]
    BY <1>1
  <1>7. Increasing(q)'
    BY <1>5, <1>6 DEF Increasing
  <1>8. \A n \in 1 .. Len(chan'[q]) :
          \E i \in 1 .. Length : Pending(c, type, i)' /\ chan'[q][n] = Message(s, i)'
    BY <1>3, <1>5, <1>6
  <1>9. \A i \in 1 .. Length :
          Pending(c, type, i)' => \E n \in 1 .. Len(chan'[q]) : chan'[q][n] = Message(s, i)'
    BY <1>3, <1>5, <1>6
  <1> QED  BY <1>2, <1>4, <1>7, <1>8, <1>9 DEF HoldsPending

LEMMA PendingAfter ==
  ASSUME KernelTypes, NEW t \in Threads, ThreadStep(t),
         NEW c \in ComputeThreads, NEW type \in Types, NEW i \in 1 .. Length
  PROVE  /\ Sent(Partner(c), i)' <=>
              \/ Sent(Partner(c), i)
              \/ t = Partner(c) /\ Step(t).do = "send" /\ Step(t).of = i /\ Taken(kernel[i], reg[t])
         /\ Got(c, i)' <=>
              \/ Got(c, i)
              \/ t = c /\ Step(t).do = "receive" /\ Step(t).of = i /\ Taken(kernel[i], reg[t])
         /\ Pending(c, type, i)' <=>
              QueueType(kernel[i]) = type /\ Sent(Partner(c), i)' /\ ~ Got(c, i)'
         /\ Pending(c, type, i) <=>
              QueueType(kernel[i]) = type /\ Sent(Partner(c), i) /\ ~ Got(c, i)
  <1>1. c \in Threads /\ Partner(c) \in Threads
    BY ThreadPairs
  <1>2. Length' = Length /\ kernel' = kernel
    BY ThreadMoves
  <1>3. Sent(Partner(c), i)' <=>
              \/ Sent(Partner(c), i)
              \/ t = Partner(c) /\ Step(t).do = "send" /\ Step(t).of = i /\ Taken(kernel[i], reg[t])
    BY <1>1, SentAfter
  <1>4. Got(c, i)' <=>
              \/ Got(c, i)
              \/ t = c /\ Step(t).do = "receive" /\ Step(t).of = i /\ Taken(kernel[i], reg[t])
    BY <1>1, SentAfter
  <1>5. Pending(c, type, i)' <=>
              QueueType(kernel[i]) = type /\ Sent(Partner(c), i)' /\ ~ Got(c, i)'
    BY <1>2 DEF Pending
  <1> QED  BY <1>3, <1>4, <1>5 DEF Pending

(* A step that neither sends nor receives. *)
LEMMA QueuesUntouched ==
  ASSUME KernelInv, NEW t \in Threads, ThreadStep(t), chan' = chan,
         ~ SendValue(t), ~ ReceiveValue(t)
  PROVE  QueuesHoldPending'
  <1>1. KernelTypes /\ QueuesHoldPending
    BY DEF KernelInv
  <1>2. ASSUME NEW c \in ComputeThreads, NEW type \in Types
        PROVE  HoldsPending(c, type)'
    <2>1. ASSUME NEW i \in 1 .. Length PROVE Pending(c, type, i)' <=> Pending(c, type, i)
      <3>1. Step(t).of = i /\ Taken(kernel[i], reg[t]) => Step(t).do # "send" /\ Step(t).do # "receive"
        BY WhichAction DEF Ins
      <3> QED  BY <1>1, <3>1, PendingAfter
    <2>2. HoldsPending(c, type)
      BY <1>1 DEF QueuesHoldPending
    <2> QED  BY <1>1, <2>1, <2>2, HoldsFrame
  <1>3. \A q \in Qids : (\A c \in ComputeThreads, type \in Types : q # KernelQueue(c, type)) => chan'[q] = <<>>
    BY <1>1 DEF QueuesHoldPending
  <1> QED  BY <1>2, <1>3 DEF QueuesHoldPending, KernelQueue

LEMMA SendingKeepsQueues ==
  ASSUME KernelInv, CmpsUsed(kernel), NEW t \in Threads, ThreadStep(t), SendValue(t)
  PROVE  QueuesHoldPending'
  <1>1. /\ KernelTypes /\ QueuesHoldPending /\ Compiled /\ Placed /\ RInv /\ Copies /\ CallsFollow
    BY DEF KernelInv, KernelTypes, KernelVarsOK
  <1>2. /\ ~ Finished(t) /\ Step(t).do = "send" /\ Taken(Ins(t), reg[t])
        /\ call[t].stage = "transfer" /\ call[t].dir = "produce"
        /\ chan' = [chan EXCEPT ![CallQueue(t)] =
                      Append(@, [label |-> Label(t), data |-> Widened(Ins(t), reg[t][Step(t).of])])]
    BY DEF SendValue, At, produce, To, Send
  <1>3. pc[t] \in 1 .. Len(Slice(t)) /\ Step(t).of \in 1 .. Length /\ Ins(t) \in Instructions(Length)
    BY <1>1, <1>2, AtStep
  <1>4. t \notin ComputeThreads
    <2> SUFFICES ASSUME t \in ComputeThreads PROVE FALSE
      OBVIOUS
    <2>1. Slice(t)[pc[t]].do \in {"write", "read", "call", "open", "receive", "close"}
      BY <1>1, <1>3, SlicesKnown
    <2> QED  BY <1>2, <2>1 DEF Step
  <1>5. PICK d \in ComputeThreads : Partner(d) = t
    BY <1>4, ThreadPairs
  <1>6. PICK i0 \in 1 .. Length : i0 = Step(t).of
    BY <1>3
  <1>7. Ins(t) = kernel[i0] /\ Taken(kernel[i0], reg[t])
    BY <1>2, <1>6 DEF Ins
  <1>8. QueueType(Ins(t)) \in Types
    BY <1>3 DEF Instructions, QueueType, Types
  <1>9. PICK type0 \in Types : type0 = QueueType(kernel[i0])
    BY <1>7, <1>8
  <1>10. PICK q0 \in Qids : q0 = KernelQueue(d, type0)
    BY <1>1, QueueKnown
  <1>11. CallQueue(t) = q0
    <2>1. call[t].type = QueueType(Ins(t))
      BY <1>1, <1>2 DEF CallsFollow
    <2> QED  BY <1>2, <1>5, <1>7, <1>9, <1>10, <2>1, SameQueue DEF CallQueue
  <1>12. chan' = [chan EXCEPT ![q0] = Append(@, Message(t, i0))]
    BY <1>2, <1>4, <1>6, <1>7, <1>11 DEF Label, Message
  <1>13. chan \in [Qids -> Seq(Values)]
    BY <1>1 DEF RInv, RuntimeTypeOK
  <1>14. /\ \A q \in Qids : q # q0 => chan'[q] = chan[q]
         /\ chan'[q0] = Append(chan[q0], Message(t, i0))
    BY <1>10, <1>12, <1>13
  <1>15. Step(t).do = "send" /\ Step(t).do # "receive"
    BY <1>2
  <1>16. \A q \in Qids : (\A c \in ComputeThreads, type \in Types : q # KernelQueue(c, type)) => chan'[q] = <<>>
    BY <1>1, <1>10, <1>14 DEF QueuesHoldPending
  <1>17. ASSUME NEW c \in ComputeThreads, NEW type \in Types, ~ (c = d /\ type = type0)
         PROVE  HoldsPending(c, type)'
    <2>1. KernelQueue(c, type) # q0 /\ KernelQueue(c, type) \in Qids
      BY <1>1, <1>10, <1>17, QueuesDiffer, QueueKnown
    <2>2. ASSUME NEW i \in 1 .. Length PROVE Pending(c, type, i)' <=> Pending(c, type, i)
      <3>1. Partner(c) = t => c = d
        BY <1>5, ThreadPairs
      <3>2. c = d /\ i = i0 => QueueType(kernel[i]) # type
        BY <1>9, <1>17
      <3> QED  BY <1>1, <1>6, <1>15, <3>1, <3>2, PendingAfter
    <2>3. HoldsPending(c, type)
      BY <1>1 DEF QueuesHoldPending
    <2> QED  BY <1>1, <1>14, <2>1, <2>2, <2>3, HoldsFrame
  <1>18. HoldsPending(d, type0)'
    <2>1. /\ Increasing(q0)
          /\ \A n \in 1 .. Len(chan[q0]) :
               \E i \in 1 .. Length : Pending(d, type0, i) /\ chan[q0][n] = Message(t, i)
          /\ \A i \in 1 .. Length :
               Pending(d, type0, i) => \E n \in 1 .. Len(chan[q0]) : chan[q0][n] = Message(t, i)
      BY <1>1, <1>5, <1>10 DEF QueuesHoldPending, HoldsPending
    <2>2. ~ Sent(t, i0) /\ ~ Got(d, i0)
      <3>1. ~ Did(t, i0, "send")
        BY <1>1, <1>2, <1>6, NotTwice
      <3> QED  BY <1>1, <1>5, <3>1 DEF Sent, Copies
    <2>3. \A i \in 1 .. Length : Pending(d, type0, i)' <=> Pending(d, type0, i) \/ i = i0
      <3>1. t # d
        BY <1>4
      <3> QED  BY <1>1, <1>5, <1>6, <1>7, <1>9, <1>15, <2>2, <3>1, PendingAfter
    <2>4. \A i \in 1 .. Length : Pending(d, type0, i) =>
            i < i0 /\ supply_instruments(kernel[i])
      <3> SUFFICES ASSUME NEW i \in 1 .. Length, Pending(d, type0, i)
                   PROVE  i < i0 /\ supply_instruments(kernel[i])
        OBVIOUS
      <3>1. Sent(t, i) /\ Did(t, i, "send")
        BY <1>5 DEF Pending, Sent
      <3>2. i <= i0 /\ i # i0
        BY <1>1, <1>2, <1>6, <2>2, <3>1, DoneBefore
      <3>3. PICK b \in 1 .. Len(Slice(t)) : Slice(t)[b].do = "send" /\ Slice(t)[b].of = i
        BY <3>1 DEF Did
      <3>4. produces(kernel, i)
        BY <1>1, <1>4, <3>3, SlicesKnown
      <3>5. Length \in Nat
        BY <1>1, KernelKnown
      <3> QED  BY <3>2, <3>4, <3>5 DEF produces
    <2>5. \A i \in 1 .. Length : Pending(d, type0, i) =>
            Message(t, i).label < Message(t, i0).label
      <3>1. Len(kernel) \in Nat /\ Length = Len(kernel)
        BY <1>1, KernelKnown DEF Length
      <3>2. \A i \in 1 .. Length : Message(t, i).label = supply_label(kernel, i)
        BY <1>1, MessageLabel
      <3>3. \A i \in 1 .. Length : Pending(d, type0, i) =>
              supply_label(kernel, i) < supply_label(kernel, i0)
        BY <2>4, <3>1, LabelsGrow
      <3> QED  BY <3>2, <3>3
    <2> DEFINE s == chan[q0]
               m == Message(t, i0)
    <2>6. s \in Seq(Values) /\ Len(s) \in Nat
      BY <1>13
    <2>7. chan'[q0] = Append(s, m)
      BY <1>14
    <2>8. /\ Len(chan'[q0]) = Len(s) + 1
          /\ \A n \in 1 .. Len(s) : chan'[q0][n] = s[n]
          /\ chan'[q0][Len(s) + 1] = m
      <3> HIDE DEF s, m
      <3> QED  BY <2>6, <2>7
    <2>9. \A n \in 1 .. Len(s) : s[n].label < m.label
      BY <2>1, <2>5
    <2>10. \A k, n \in 1 .. Len(s) : k < n => s[k].label < s[n].label
      BY <2>1 DEF Increasing
    <2>11. \A i \in 1 .. Length : Pending(d, type0, i) \/ i = i0 => Message(t, i)' = Message(t, i)
      <3> SUFFICES ASSUME NEW i \in 1 .. Length PROVE Message(t, i)' = Message(t, i)
        OBVIOUS
      <3>1. reg'[t][i] = reg[t][i]
        BY <1>1, <1>2, ThreadMoves DEF Definers
      <3>2. kernel' = kernel
        BY <1>1, ThreadMoves
      <3> QED  BY <3>1, <3>2 DEF Message
    <2>12. \A n \in 1 .. Len(chan'[q0]) : n \in 1 .. Len(s) \/ n = Len(s) + 1
      BY <2>6, <2>8
    <2>13. \A n \in 1 .. Len(s) : n \in 1 .. Len(chan'[q0])
      BY <2>6, <2>8
    <2>14. Len(s) + 1 \in 1 .. Len(chan'[q0])
      BY <2>6, <2>8
    <2> HIDE DEF s, m
    <2>15. \A k, n \in 1 .. Len(chan'[q0]) : k < n => chan'[q0][k].label < chan'[q0][n].label
      BY <2>6, <2>8, <2>9, <2>10, <2>12
    <2>16. \A n \in 1 .. Len(chan'[q0]) :
             \E i \in 1 .. Length : Pending(d, type0, i)' /\ chan'[q0][n] = Message(t, i)'
      <3> SUFFICES ASSUME NEW n \in 1 .. Len(chan'[q0])
                   PROVE  \E i \in 1 .. Length : Pending(d, type0, i)' /\ chan'[q0][n] = Message(t, i)'
        OBVIOUS
      <3>1. CASE n \in 1 .. Len(s)
        <4>1. PICK i \in 1 .. Length : Pending(d, type0, i) /\ s[n] = Message(t, i)
          BY <2>1, <3>1 DEF s
        <4> QED  BY <2>3, <2>8, <2>11, <3>1, <4>1
      <3>2. CASE n = Len(s) + 1
        BY <2>3, <2>8, <2>11, <3>2 DEF m
      <3> QED  BY <2>12, <3>1, <3>2
    <2>17. \A i \in 1 .. Length :
             Pending(d, type0, i)' => \E n \in 1 .. Len(chan'[q0]) : chan'[q0][n] = Message(t, i)'
      <3> SUFFICES ASSUME NEW i \in 1 .. Length, Pending(d, type0, i)'
                   PROVE  \E n \in 1 .. Len(chan'[q0]) : chan'[q0][n] = Message(t, i)'
        OBVIOUS
      <3>1. CASE Pending(d, type0, i)
        <4>1. PICK n \in 1 .. Len(s) : s[n] = Message(t, i)
          BY <2>1, <3>1 DEF s
        <4> QED  BY <2>8, <2>11, <2>13, <3>1, <4>1
      <3>2. CASE i = i0
        BY <2>8, <2>11, <2>14, <3>2 DEF m
      <3> QED  BY <2>3, <3>1, <3>2
    <2>18. KernelQueue(d, type0)' = q0 /\ Length' = Length
      <3>1. Length' = Length
        BY <1>1, ThreadMoves
      <3> QED  BY <1>10, <3>1 DEF KernelQueue
    <2>19. Increasing(q0)'
      BY <2>15 DEF Increasing
    <2> QED  BY <1>5, <2>16, <2>17, <2>18, <2>19 DEF HoldsPending
  <1>19. \A c \in ComputeThreads, type \in Types : HoldsPending(c, type)'
    BY <1>17, <1>18
  <1> QED  BY <1>16, <1>19 DEF QueuesHoldPending, KernelQueue

LEMMA ReceivingKeepsQueues ==
  ASSUME KernelInv, CmpsUsed(kernel), NEW d \in Threads, ThreadStep(d), ReceiveValue(d)
  PROVE  QueuesHoldPending'
  <1>1. /\ KernelTypes /\ QueuesHoldPending /\ Compiled /\ Placed /\ RInv
    BY DEF KernelInv, KernelTypes, KernelVarsOK
  <1>2. /\ d \in ComputeThreads
        /\ Pending(d, QueueType(Ins(d)), Step(d).of)
        /\ CallQueue(d) = KernelQueue(d, QueueType(Ins(d))) /\ QueueType(Ins(d)) \in Types
        /\ chan[CallQueue(d)] # <<>>
        /\ chan[CallQueue(d)][1] = Message(Partner(d), Step(d).of)
        /\ chan' = [chan EXCEPT ![CallQueue(d)] = Tail(@)]
    BY Receiving
  <1>3. Step(d).do = "receive" /\ Taken(Ins(d), reg[d]) /\ ~ Finished(d)
    BY DEF ReceiveValue, At
  <1>4. Step(d).of \in 1 .. Length
    BY <1>1, <1>3, AtStep
  <1>5. PICK i0 \in 1 .. Length : i0 = Step(d).of
    BY <1>4
  <1>6. Ins(d) = kernel[i0] /\ Taken(kernel[i0], reg[d])
    BY <1>3, <1>5 DEF Ins
  <1>7. PICK type0 \in Types : type0 = QueueType(kernel[i0])
    BY <1>2, <1>6
  <1>8. PICK q0 \in Qids : q0 = KernelQueue(d, type0)
    BY <1>1, <1>2, QueueKnown
  <1>9. /\ Pending(d, type0, i0)
        /\ chan[q0] # <<>> /\ chan[q0][1] = Message(Partner(d), i0)
        /\ chan' = [chan EXCEPT ![q0] = Tail(@)]
    BY <1>2, <1>5, <1>6, <1>7, <1>8
  <1>10. chan \in [Qids -> Seq(Values)]
    BY <1>1 DEF RInv, RuntimeTypeOK
  <1>11. /\ \A q \in Qids : q # q0 => chan'[q] = chan[q]
         /\ chan'[q0] = Tail(chan[q0])
    BY <1>8, <1>9, <1>10
  <1>12. Step(d).do # "send" /\ Step(d).do = "receive"
    BY <1>3
  <1>13. \A q \in Qids : (\A c \in ComputeThreads, type \in Types : q # KernelQueue(c, type)) => chan'[q] = <<>>
    BY <1>1, <1>2, <1>8, <1>11 DEF QueuesHoldPending
  <1>14. ASSUME NEW c \in ComputeThreads, NEW type \in Types, ~ (c = d /\ type = type0)
         PROVE  HoldsPending(c, type)'
    <2>1. KernelQueue(c, type) # q0 /\ KernelQueue(c, type) \in Qids
      BY <1>1, <1>2, <1>8, <1>14, QueuesDiffer, QueueKnown
    <2>2. ASSUME NEW i \in 1 .. Length PROVE Pending(c, type, i)' <=> Pending(c, type, i)
      <3>1. c = d /\ i = i0 => QueueType(kernel[i]) # type
        BY <1>7, <1>14
      <3> QED  BY <1>1, <1>5, <1>12, <3>1, PendingAfter
    <2>3. HoldsPending(c, type)
      BY <1>1 DEF QueuesHoldPending
    <2> QED  BY <1>1, <1>11, <2>1, <2>2, <2>3, HoldsFrame
  <1>15. HoldsPending(d, type0)'
    <2>1. PICK t \in SupplyThreads : t = Partner(d)
      BY <1>2, ThreadPairs
    <2>2. t \in Threads /\ t # d
      BY <1>2, <2>1, ThreadPairs
    <2>3. /\ Increasing(q0)
          /\ \A n \in 1 .. Len(chan[q0]) :
               \E i \in 1 .. Length : Pending(d, type0, i) /\ chan[q0][n] = Message(t, i)
          /\ \A i \in 1 .. Length :
               Pending(d, type0, i) => \E n \in 1 .. Len(chan[q0]) : chan[q0][n] = Message(t, i)
      <3>1. HoldsPending(d, type0)
        BY <1>1, <1>2, <1>8, <2>1 DEF QueuesHoldPending
      <3> QED  BY <1>2, <1>8, <2>1, <3>1 DEF HoldsPending
    <2>4. \A i \in 1 .. Length : Pending(d, type0, i)' <=> Pending(d, type0, i) /\ i # i0
      BY <1>1, <1>2, <1>5, <1>6, <1>12, PendingAfter
    <2>5. \A i \in 1 .. Length : Message(t, i)' = Message(t, i)
      <3>1. \A i \in 1 .. Length : reg'[t][i] = reg[t][i]
        BY <1>1, <2>2, ThreadMoves
      <3>2. kernel' = kernel
        BY <1>1, ThreadMoves
      <3> QED  BY <3>1, <3>2 DEF Message
    <2> DEFINE s == chan[q0]
    <2>6. s \in Seq(Values) /\ Len(s) \in Nat /\ s # <<>>
      BY <1>9, <1>10
    <2>7. chan'[q0] = Tail(s)
      BY <1>11
    <2>8. /\ Len(s) >= 1 /\ Len(chan'[q0]) = Len(s) - 1
          /\ \A n \in 1 .. Len(s) - 1 : chan'[q0][n] = s[n + 1]
      <3> HIDE DEF s
      <3> QED  BY <2>6, <2>7
    <2>9. \A k, n \in 1 .. Len(s) : k < n => s[k].label < s[n].label
      BY <2>3 DEF Increasing
    <2>10. s[1] = Message(t, i0)
      BY <1>9, <2>1
    <2>11. \A n \in 1 .. Len(chan'[q0]) : n + 1 \in 1 .. Len(s) /\ 1 < n + 1 /\ chan'[q0][n] = s[n + 1]
      BY <2>6, <2>8
    <2>12. \A n \in 1 .. Len(s) : n # 1 => n - 1 \in 1 .. Len(chan'[q0]) /\ chan'[q0][n - 1] = s[n]
      <3> HIDE DEF s
      <3> SUFFICES ASSUME NEW n \in 1 .. Len(s), n # 1
                   PROVE  n - 1 \in 1 .. Len(chan'[q0]) /\ chan'[q0][n - 1] = s[n]
        OBVIOUS
      <3>1. n - 1 \in 1 .. Len(s) - 1 /\ (n - 1) + 1 = n
        BY <2>6
      <3> QED  BY <2>8, <3>1
    <2>13. 1 \in 1 .. Len(s)
      BY <2>6, <2>8
    <2> HIDE DEF s
    <2>14. \A k, n \in 1 .. Len(chan'[q0]) : k < n => chan'[q0][k].label < chan'[q0][n].label
      BY <2>6, <2>8, <2>9, <2>11
    <2>15. \A n \in 1 .. Len(chan'[q0]) :
             \E i \in 1 .. Length : Pending(d, type0, i)' /\ chan'[q0][n] = Message(t, i)'
      <3> SUFFICES ASSUME NEW n \in 1 .. Len(chan'[q0])
                   PROVE  \E i \in 1 .. Length : Pending(d, type0, i)' /\ chan'[q0][n] = Message(t, i)'
        OBVIOUS
      <3>1. PICK i \in 1 .. Length : Pending(d, type0, i) /\ s[n + 1] = Message(t, i)
        BY <2>3, <2>11 DEF s
      <3>2. i # i0
        <4>1. s[1].label < s[n + 1].label
          BY <2>9, <2>11, <2>13
        <4>2. Message(t, i0).label \in Nat
          BY <1>1, MessageLabel
        <4> QED  BY <2>10, <3>1, <4>1, <4>2
      <3> QED  BY <2>4, <2>5, <2>11, <3>1, <3>2
    <2>16. \A i \in 1 .. Length :
             Pending(d, type0, i)' => \E n \in 1 .. Len(chan'[q0]) : chan'[q0][n] = Message(t, i)'
      <3> SUFFICES ASSUME NEW i \in 1 .. Length, Pending(d, type0, i)'
                   PROVE  \E n \in 1 .. Len(chan'[q0]) : chan'[q0][n] = Message(t, i)'
        OBVIOUS
      <3>1. Pending(d, type0, i) /\ i # i0
        BY <2>4
      <3>2. PICK n \in 1 .. Len(s) : s[n] = Message(t, i)
        BY <2>3, <3>1 DEF s
      <3>3. n # 1
        <4>1. /\ Did(t, i, "send") /\ Did(t, i0, "send")
          BY <1>9, <2>1, <3>1 DEF Pending, Sent
        <4>2. supply_instruments(kernel[i]) /\ supply_instruments(kernel[i0])
          <5>1. \A j : Did(t, j, "send") => produces(kernel, j)
            BY <1>1, <2>1, <2>2, SlicesKnown, ThreadPairs DEF Did
          <5> QED  BY <4>1, <5>1 DEF produces
        <4>3. Len(kernel) \in Nat /\ Length = Len(kernel)
          BY <1>1, KernelKnown DEF Length
        <4>4. supply_label(kernel, i) # supply_label(kernel, i0)
          <5>1. i < i0 \/ i0 < i
            BY <3>1, <4>3
          <5>2. supply_label(kernel, i) \in Nat /\ supply_label(kernel, i0) \in Nat
            BY <1>1, MessageLabel
          <5> QED  BY <4>2, <4>3, <5>1, <5>2, LabelsGrow
        <4>5. Message(t, i).label # Message(t, i0).label
          BY <1>1, <4>4, MessageLabel
        <4> QED  BY <2>10, <3>2, <4>5
      <3> QED  BY <2>5, <2>12, <3>2, <3>3
    <2>17. KernelQueue(d, type0)' = q0 /\ Length' = Length
      <3>1. Length' = Length
        BY <1>1, ThreadMoves
      <3> QED  BY <1>8, <3>1 DEF KernelQueue
    <2>18. Increasing(q0)'
      BY <2>14 DEF Increasing
    <2> QED  BY <2>1, <2>15, <2>16, <2>17, <2>18 DEF HoldsPending
  <1>16. \A c \in ComputeThreads, type \in Types : HoldsPending(c, type)'
    BY <1>14, <1>15
  <1> QED  BY <1>13, <1>16 DEF QueuesHoldPending, KernelQueue

LEMMA ThreadKeepsInv ==
  ASSUME KernelInv, CmpsUsed(kernel), NEW t \in Threads, ThreadStep(t)
  PROVE  KernelInv'
  <1>1. KernelTypes /\ CallsFollow /\ RegsDefined /\ CmpBits
    BY DEF KernelInv
  <1>2. KernelTypes'
    BY <1>1, KernelTypesKept DEF KernelNext
  <1>3. CallsFollow' /\ RegsDefined' /\ CmpBits'
    BY <1>1, CallsFollowKept, RegsDefinedKept, CmpBitsKept
  <1>4. Copies'
    BY CopiesKept
  <1>5. QueuesHoldPending'
    <2>1. chan' = chan \/ SendValue(t) \/ ReceiveValue(t)
      BY <1>1, StepShape
    <2> QED  BY <2>1, QueuesUntouched, SendingKeepsQueues, ReceivingKeepsQueues
  <1> QED  BY <1>2, <1>3, <1>4, <1>5 DEF KernelInv

-----------------------------------------------------------------------------
(* The steps of main. *)

LEMMA UnmovedKeepsInv ==
  ASSUME KernelInv, KernelTypes', UNCHANGED <<kernelVars, call>>,
         \A q \in Qids : chan'[q] = chan[q]
  PROVE  KernelInv'
  <1>1. /\ KernelTypes /\ CallsFollow /\ RegsDefined /\ Copies /\ CmpBits /\ QueuesHoldPending
        /\ RInv
    BY DEF KernelInv, KernelTypes
  <1>2. /\ kernel' = kernel /\ slice' = slice /\ pc' = pc /\ reg' = reg /\ call' = call
        /\ Length' = Length
    BY DEF kernelVars, programVars, Length
  <1>3. \A t \in Threads : Slice(t)' = Slice(t)
    BY <1>2 DEF Slice
  <1>4. \A t \in Threads : Finished(t)' = Finished(t) /\ Step(t)' = Step(t) /\ Ins(t)' = Ins(t)
    BY <1>2, <1>3 DEF Finished, Step, Ins
  <1>5. CallsFollow'
    BY <1>1, <1>2, <1>3, <1>4 DEF CallsFollow, Taken
  <1>6. \A t \in Threads : \A i, what : Did(t, i, what)' = Did(t, i, what)
    BY <1>2, <1>3 DEF Did
  <1>7. RegsDefined'
    BY <1>1, <1>2, <1>6 DEF RegsDefined, Defined, Taken
  <1>8. \A t \in Threads : \A i : Sent(t, i)' = Sent(t, i) /\ Got(t, i)' = Got(t, i)
    BY <1>2, <1>6 DEF Sent, Got, Taken
  <1>9. \A c \in ComputeThreads : c \in Threads /\ Partner(c) \in Threads
    BY ThreadPairs
  <1>10. Copies'
    BY <1>1, <1>2, <1>8, <1>9 DEF Copies
  <1>11. CmpBits'
    BY <1>1, <1>2 DEF CmpBits
  <1>12. ASSUME NEW c \in ComputeThreads, NEW type \in Types
         PROVE  HoldsPending(c, type)'
    <2>1. PICK q \in Qids : q = KernelQueue(c, type)
      BY <1>1, QueueKnown
    <2>2. KernelQueue(c, type)' = q
      BY <2>1 DEF KernelQueue
    <2>3. chan'[q] = chan[q]
      OBVIOUS
    <2>4. HoldsPending(c, type)
      BY <1>1 DEF QueuesHoldPending
    <2>5. \A i : Pending(c, type, i)' = Pending(c, type, i)
      BY <1>2, <1>8, <1>9 DEF Pending
    <2>6. \A i : Message(Partner(c), i)' = Message(Partner(c), i)
      BY <1>2 DEF Message
    <2> QED  BY <1>2, <2>1, <2>2, <2>3, <2>4, <2>5, <2>6 DEF HoldsPending, Increasing
  <1>13. \A q \in Qids : (\A c \in ComputeThreads, type \in Types : q # KernelQueue(c, type)) => chan'[q] = <<>>
    BY <1>1 DEF QueuesHoldPending
  <1>14. QueuesHoldPending'
    BY <1>12, <1>13 DEF QueuesHoldPending, KernelQueue
  <1> QED  BY <1>5, <1>7, <1>10, <1>11, <1>14 DEF KernelInv

LEMMA EnteringKeepsInv ==
  ASSUME KernelInv, KernelTypes', CmpsUsed(kernel), EnterRegion
  PROVE  KernelInv'
  <1>1. /\ KernelTypes /\ CallsFollow /\ RegsDefined /\ Copies /\ QueuesHoldPending
        /\ RInv /\ Compiled
    BY DEF KernelInv, KernelTypes
  <1>2. /\ UNCHANGED <<kernel, slice, chan, call>>
        /\ pc' = [t \in Threads |-> 1]
        /\ reg' = [t \in Threads |-> [i \in 1 .. Length |-> 0]]
        /\ RegionOver
    BY DEF EnterRegion, runtimeVars, vars, programVars
  <1>3. Length' = Length /\ \A t \in Threads : Slice(t)' = Slice(t) /\ pc'[t] = 1
    BY <1>2 DEF Slice, Length
  <1>4. \A t \in Threads : \A i, what : ~ Did(t, i, what)'
    <2> SUFFICES ASSUME NEW t \in Threads, NEW i, NEW what PROVE ~ Did(t, i, what)'
      OBVIOUS
    <2>1. \A a \in 1 .. Len(Slice(t)) : ~ (a < 1)
      OBVIOUS
    <2> QED  BY <1>3, <2>1 DEF Did
  <1>5. \A t \in Threads, i \in 1 .. Length : reg'[t][i] = 0
    BY <1>2
  <1>6. RegsDefined'
    BY <1>3, <1>5 DEF RegsDefined
  <1>7. \A c \in ComputeThreads : c \in Threads /\ Partner(c) \in Threads
    BY ThreadPairs
  <1>8. Copies'
    BY <1>4, <1>7 DEF Copies, Got
  <1>9. CmpBits'
    BY <1>3, <1>5, ThreadPairs DEF CmpBits
  <1>10. CallsFollow'
    <2> SUFFICES ASSUME NEW t \in Threads
                 PROVE  /\ call'[t].stage = "none"
                        /\ ~ Finished(t)' => StageAt(Slice(t), pc[t])' = "none"
      BY DEF CallsFollow
    <2>1. Finished(t) /\ call[t].stage = "none"
      BY <1>1, <1>2 DEF RegionOver, CallsFollow
    <2>2. ASSUME ~ Finished(t)' PROVE StageAt(Slice(t), 1) = "none"
      <3>1. IsSlice(Slice(t), Length) /\ Len(Slice(t)) \in Nat
        BY <1>1, SliceShape
      <3>2. 1 \in 1 .. Len(Slice(t))
        BY <1>3, <2>2, <3>1 DEF Finished
      <3>3. ~ Inner(Slice(t), 1)
        BY DEF Inner
      <3> QED  BY <3>1, <3>2, <3>3 DEF IsSlice
    <2>3. StageAt(Slice(t), pc[t])' = StageAt(Slice(t), 1)
      BY <1>3
    <2> QED  BY <1>2, <2>1, <2>2, <2>3
  <1>11. \A q \in Qids : chan'[q] = <<>>
    BY <1>1, <1>2, NothingLeft
  <1>12. ASSUME NEW c \in ComputeThreads, NEW type \in Types
         PROVE  HoldsPending(c, type)'
    <2>1. PICK q \in Qids : q = KernelQueue(c, type)
      BY <1>1, QueueKnown
    <2>2. KernelQueue(c, type)' = q
      BY <2>1 DEF KernelQueue
    <2>3. chan'[q] = <<>> /\ 1 .. Len(chan'[q]) = {}
      BY <1>11
    <2>4. \A i : ~ Pending(c, type, i)'
      BY <1>4, <1>7 DEF Pending, Sent
    <2> QED  BY <2>2, <2>3, <2>4 DEF HoldsPending, Increasing
  <1>13. QueuesHoldPending'
    BY <1>11, <1>12 DEF QueuesHoldPending
  <1> QED  BY <1>6, <1>8, <1>9, <1>10, <1>13 DEF KernelInv

LEMMA KernelInvKept ==
  ASSUME \A k \in Kernels : CmpsUsed(k)
  PROVE  KernelInv /\ [KernelNext]_allVars => KernelInv'
  <1> SUFFICES ASSUME KernelInv, [KernelNext]_allVars PROVE KernelInv'
    OBVIOUS
  <1>1. KernelTypes /\ KernelTypes' /\ CmpsUsed(kernel) /\ Compiled
    BY KernelTypesKept DEF KernelInv, KernelTypes, Compiled
  <1>2. CASE \E t \in Threads : ThreadStep(t)
    BY <1>1, <1>2, ThreadKeepsInv
  <1>3. CASE EnterRegion
    BY <1>1, <1>3, EnteringKeepsInv
  <1>4. CASE MainInit
    <2>1. /\ UNCHANGED <<kernelVars, call>> /\ live = {}
          /\ \A q \in Qids : chan'[q] = <<>> \/ chan'[q] = chan[q]
      BY <1>4 DEF MainInit, desc_init, Create
    <2>2. \A q \in Qids : chan[q] = <<>>
      BY <1>1, <2>1, NothingLeft DEF Compiled, KernelInv
    <2> QED  BY <1>1, <2>1, <2>2, UnmovedKeepsInv
  <1>5. CASE ProgramEnds \/ UNCHANGED allVars
    <2>1. UNCHANGED <<kernelVars, call, chan>>
      BY <1>5 DEF ProgramEnds, allVars, runtimeVars, vars
    <2> QED  BY <1>1, <2>1, UnmovedKeepsInv
  <1> QED  BY <1>2, <1>3, <1>4, <1>5 DEF KernelNext

LEMMA KernelInvStarts ==
  ASSUME \A k \in Kernels : CmpsUsed(k)
  PROVE  KernelInit => KernelInv
  <1> SUFFICES ASSUME KernelInit PROVE KernelInv
    OBVIOUS
  <1>1. KernelTypes /\ Compiled /\ Placed /\ RInv /\ CmpsUsed(kernel) /\ RegionOver
    BY KernelTypesStart DEF KernelTypes, KernelVarsOK, Compiled, KernelInit, RuntimeInit, Init
  <1>2. \A t \in Threads, i \in 1 .. Length : reg[t][i] = 0
    BY DEF KernelInit
  <1>3. \A c \in ComputeThreads : c \in Threads /\ Partner(c) \in Threads /\ Partner(c) \notin ComputeThreads
    BY ThreadPairs
  <1>4. RegsDefined /\ CmpBits
    BY <1>2, ThreadPairs DEF RegsDefined, CmpBits
  <1>5. CallsFollow
    <2>1. \A t \in Threads : call[t].stage = "none"
      BY DEF KernelInit, RuntimeInit, NoCall
    <2> QED  BY <1>1, <2>1 DEF CallsFollow, RegionOver
  <1>6. ASSUME NEW c \in ComputeThreads, NEW i \in 1 .. Length
        PROVE  Taken(kernel[i], reg[c]) <=> Taken(kernel[i], reg[Partner(c)])
    <2>1. kernel[i].guard # 0 => kernel[i].guard \in 1 .. Length
      BY <1>1, KernelKnown
    <2> QED  BY <1>2, <1>3, <2>1 DEF Taken, NoGuard
  <1>7. ASSUME NEW c \in ComputeThreads, NEW i \in 1 .. Length
        PROVE  Got(c, i) <=> Sent(Partner(c), i)
    <2> DEFINE s == Partner(c)
    <2>1. Finished(c) /\ Finished(s)
      BY <1>1, <1>3 DEF RegionOver
    <2>2. Received(i) => Did(c, i, "receive") /\ Did(s, i, "send")
      BY <1>1, <2>1, DoneWhenPast
    <2>3. Did(c, i, "receive") => Received(i)
      BY <1>1, <1>3, SlicesKnown DEF Did, Received
    <2>4. Did(s, i, "send") => produces(kernel, i)
      BY <1>1, <1>3, SlicesKnown DEF Did
    <2>5. Did(s, i, "send") => Received(i)
      BY <1>1, <2>4, SentAsReceived
    <2> QED  BY <1>6, <2>2, <2>3, <2>5 DEF Got, Sent
  <1>8. Copies
    BY <1>2, <1>3, <1>7 DEF Copies
  <1>9. \A q \in Qids : chan[q] = <<>>
    BY DEF KernelInit, RuntimeInit, Init
  <1>10. ASSUME NEW c \in ComputeThreads, NEW type \in Types
         PROVE  HoldsPending(c, type)
    <2>1. KernelQueue(c, type) \in Qids
      BY <1>1, QueueKnown
    <2>2. chan[KernelQueue(c, type)] = <<>> /\ 1 .. Len(chan[KernelQueue(c, type)]) = {}
      BY <1>9, <2>1
    <2>3. \A i \in 1 .. Length : ~ Pending(c, type, i)
      BY <1>7 DEF Pending
    <2> QED  BY <2>2, <2>3 DEF HoldsPending, Increasing
  <1>11. QueuesHoldPending
    BY <1>9, <1>10 DEF QueuesHoldPending
  <1> QED  BY <1>1, <1>4, <1>5, <1>8, <1>11 DEF KernelInv

-----------------------------------------------------------------------------
(* What it gives. *)

(* A compiled kernel makes the calls of produce_consume.cpp as DescRuntime *)
(* allows them, so what is proved of those calls holds of it.              *)
THEOREM KernelMakesCalls == KernelSpec => RuntimeSpec
  <1>1. KernelInit => RuntimeInit
    BY DEF KernelInit
  <1>2. KernelTypes /\ [KernelNext]_allVars => [RuntimeNext]_runtimeVars
    BY KernelStepsAreCalls
  <1> QED  BY <1>1, <1>2, KernelTypesStart, KernelTypesKept, PTL DEF KernelSpec, RuntimeSpec

(* Whatever the kernel, the threads run nothing but their slices, and what *)
(* they compute, store and send are data.                                  *)
THEOREM KernelTypesAlways == KernelSpec => []KernelTypeOK
  <1>1. KernelTypes => KernelTypeOK
    BY DEF KernelTypes, KernelTypeOK, KernelVarsOK, Placed, RInv
  <1> QED  BY <1>1, KernelTypesStart, KernelTypesKept, PTL DEF KernelSpec

(* If the compute slice reads every comparison of pointers, a value is     *)
(* always received where it was meant: DecoupleSupply and DecoupleCompute  *)
(* number alike, DecoupleSupplyAddr drops alike, and the branches agree.   *)
THEOREM LabelsMeetAlways ==
  ASSUME \A k \in Kernels : CmpsUsed(k)
  PROVE  KernelSpec => []LabelsMeet
  <1>1. KernelInv => LabelsMeet
    <2> SUFFICES ASSUME KernelInv, NEW c \in ComputeThreads,
                        call[c].stage = "transfer", chan[CallQueue(c)] # <<>>
                 PROVE  Head(chan[CallQueue(c)]).label = Label(c)
      BY DEF LabelsMeet
    <2>1. KernelTypes /\ Compiled /\ Placed /\ RInv /\ CmpsUsed(kernel) /\ c \in Threads
      BY ThreadPairs DEF KernelInv, KernelTypes, KernelVarsOK, Compiled
    <2>2. /\ Pending(c, QueueType(Ins(c)), Step(c).of)
          /\ chan[CallQueue(c)][1] = Message(Partner(c), Step(c).of)
      BY <2>1, HeadIsMine DEF KernelInv
    <2>3. CallQueue(c) = KernelQueue(c, QueueType(Ins(c))) /\ QueueType(Ins(c)) \in Types
      BY <2>1, ReceiverAt DEF KernelInv
    <2>4. Head(chan[CallQueue(c)]) = chan[CallQueue(c)][1]
      BY <2>1, <2>3, QueueKnown
    <2>5. Message(Partner(c), Step(c).of).label = supply_label(kernel, Step(c).of)
      BY DEF Message
    <2> QED  BY <2>2, <2>4, <2>5, SameLabels DEF Label
  <1> QED  BY <1>1, KernelInvStarts, KernelInvKept, PTL DEF KernelSpec

(* Then no region leaves a value behind for the next. *)
THEOREM DrainedAlways ==
  ASSUME \A k \in Kernels : CmpsUsed(k)
  PROVE  KernelSpec => []Drained
  <1>1. KernelInv => Drained
    <2> SUFFICES ASSUME KernelInv, RegionOver PROVE \A q \in Qids : chan[q] = <<>>
      BY DEF Drained
    <2>1. CmpsUsed(kernel)
      BY DEF KernelInv, KernelTypes, Compiled
    <2> QED  BY <2>1, NothingLeft DEF KernelInv
  <1> QED  BY <1>1, KernelInvStarts, KernelInvKept, PTL DEF KernelSpec
=============================================================================
