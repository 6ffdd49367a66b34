------------------------------ MODULE MCTensor ------------------------------
(***************************************************************************)
(* Teams of one, two and three threads and, for each, the kernels that a   *)
(* team of this size computes; then pairs of kernels of which the second   *)
(* reads what the first has written.                                       *)
(***************************************************************************)
EXTENDS TensorProgram

MCMaxTeam == 3
MCTensors == {"A", "B", "C", "D", "bias"}

(* Small sizes at which the team does not divide the work.                 *)
Default ==
  [kernel |-> "relu", in |-> "A", w |-> "B", out |-> "C", size |-> 5, mode |-> 0,
   batch |-> 2, height |-> 2, width |-> 2, channels |-> 2, outs |-> 2, filter |-> 1,
   padding |-> FALSE, bias |-> FALSE, act |-> "none", pool |-> "none"]

Call(name) == [Default EXCEPT !.kernel = name]

Simple == {Call(k) : k \in Elementwise} \cup {[Call("sdp") EXCEPT !.mode = m] : m \in 0 .. 8}
Blocked ==
  {Call(k) : k \in {"softmax", "softmaxgrad", "maxpoolgrad", "avgpool", "lrn", "dense"}}
  \cup {[Call(k) EXCEPT !.batch = 1] : k \in {"conv2d", "conv2dbackpropinput"}}
  \cup {[Call("bias_add") EXCEPT !.batch = 3]}

(* One filter of two by two, padding, and channels to spare.               *)
Larger ==
  {[Call("maxpoolgrad") EXCEPT !.batch = 1, !.channels = 3, !.height = 4],
   [Call("conv2d") EXCEPT !.batch = 1, !.padding = TRUE, !.height = 4, !.width = 3],
   [Call("conv2dbackpropinput") EXCEPT !.batch = 1, !.height = 1, !.filter = 2,
                                       !.padding = TRUE]}

(* A matrix of one row, an image of one channel, a layer that only fuses   *)
(* what is split in the same way: too little for two threads to share.     *)
Undivided ==
  {[Call("matmul") EXCEPT !.height = 1], [Call("maxpool") EXCEPT !.channels = 1],
   [Call("dense_layer") EXCEPT !.act = "none"],
   [Call("conv2d_layer") EXCEPT !.batch = 1]}

ByOne ==
  {Call("matmul"), Call("maxpool"), [Call("biasaddgrad") EXCEPT !.batch = 1],
   [Call("dense_layer") EXCEPT !.act = "tanh"],
   [Call("conv2d_layer") EXCEPT !.batch = 1, !.bias = TRUE, !.act = "relu", !.pool = "max"],
   [Call("conv2d_layer") EXCEPT !.batch = 1, !.act = "sigmoid", !.pool = "avg"]}
ByTwo == {[Call("conv2dbackpropfilter") EXCEPT !.batch = 1, !.filter = 2, !.padding = TRUE]}

Then(first, second) == <<first, [second EXCEPT !.in = first.out, !.out = "D"]>>
Pairs ==
  {Then(f, s) : f \in {Call("relu"), Call("add"), Call("avgpool"), Call("dense"), Call("softmax"),
                       [Call("conv2d") EXCEPT !.batch = 1]},
                s \in {Call("tanh"), Call("mul"), Call("softmax"), Call("dense"), Call("avgpool"),
                       [Call("bias_add") EXCEPT !.batch = 2]}}

Programs_of(calls, teams) == {[team |-> n, calls |-> <<c>>] : c \in calls, n \in teams}
MCPrograms ==
  Programs_of(Simple \cup Blocked \cup Larger, 1 .. 3)
  \cup Programs_of(Undivided, 1 .. 2)
  \cup Programs_of(ByOne, {1})
  \cup Programs_of(ByTwo, {2})
  \cup {[team |-> n, calls |-> p] : n \in 2 .. 3, p \in Pairs}

(* What the theorem about TypeOK asks of the programs.                     *)
ASSUME ProgramsWellFormed == \A p \in MCPrograms : WellFormed(p)

(* Two rows of one column each, two threads.                               *)
Matmul == Programs_of({[Call("matmul") EXCEPT !.batch = 1, !.width = 1, !.channels = 1]}, {2})
=============================================================================
