# Verification of the DECADES decoupling compiler and runtime

This directory models the parts of the DECADES compiler that are hard to test:
the runtime over which two threads pass values, in shared memory and on the
Maple device; the passes that cut one kernel into a *supply* slice, which loads,
and a *compute* slice, which calculates and stores; the barriers and atomics
that kernels synchronise with; and the library of tensor kernels that teams of
threads share. The two slices run concurrently, meet only in queues and
in memory, and were never written by anybody, so no unit test covers their
interleavings; the kernels of the library take any number of threads, while the
program `DEC_TensorFlow.py` writes calls them with one.

Paths below are relative to the repository (`RT/`, `passes/`, `utils/`).

## 1. Inventory of the system

| Component | State | Operations | What is hard, what makes it correct |
|---|---|---|---|
| Shared-memory runtime, `RT/src/shmem_decoupling.cpp` | `DEC_QUEUES` (rings with `head`, `tail`, `arr`), `INITIALIZED`, the two ownership maps | `dec_fifo_init/cleanup`, `dec_open/close_producer/consumer`, `dec_produce32/64`, `dec_consume32/64`, `dec_*_async`, queries | Unlocked rings protected by a compare-and-swap spin lock held across calls. Each queue must be a FIFO whoever takes turns at its ends |
| `desc_*` runtime, `RT/src/produce_consume.cpp` | `DEC_NUM_THREADS`, `DEC_NUM_CONSUMERS`, counters | `desc_init/cleanup`, `desc_{supply,compute}_{produce,consume}_*`, `desc_supply_alu_rmw_*` | Four regions of queues told apart by arithmetic on thread numbers; partners only, no waiting at an open, no end kept |
| Slicing, `passes/DecoupleSupply.cpp`, `DecoupleCompute.cpp`, `DecoupleSupplyAddr.cpp` | `INT_LABEL`, `labels_to_erase`, `to_erase` | instrument, drop, promote | Separate walks over two copies must agree on what is sent; stores move away from the loads they used to precede |
| Visitor, `passes/DECVisitor.cpp`, `passes/Decouple.h` | | copies the kernel, wraps calls of it in an OpenMP region, adds `desc_init` to `main` | Thread numbers of the slices; queues outlive a region |
| FindNMA, `passes/FindNMA.cpp` | `CandidateNMAs`, `NMADepth`, `DependentInstructions` | finds the deepest indirect access, makes what depends on it `compute_exclusive` | state left over between functions |
| Other passes (`AlwaysInliner`, `NumbaFunctionReplace`, `PrintFunctionCalls`, `KernelProfiler`) | | source-to-source | |
| Maple runtime, `RT/src/maple_decoupling.cpp`, `dcp_alloc.h` | `base`, `initialized`, `fpid`, `fcid`; on the device: tiles, connections, contents | the same interface on a device | Allocation and configuration may stop half-way, tiles may be left over by an earlier program, connections are retried; the answer of `dec_fifo_init` must be one a caller can rely on |
| Decoupling server, `utils/DecoupleServer` | `DEC_NUM_*`, per-thread senses | `desc_*` over Maple, `simple_barrier` | `desc_init` falls through and makes the queues twice |
| Barriers and atomics, `RT/include/DECADES.h`, `dec_atomics.h`, `desc_DECADES.h`, `utils/DecoupleServer/simple_barrier.h` | `fences`; `counter`, `flag`, `local_sense` | three barriers, compare-and-swap loops | Late resets, stale senses, reads that are old when they are used; nobody leaves early, everybody leaves |
| DECLib, `utils/DECLib/DECADES_TensorFlow.h` | tensors | 42 kernels, each a partition of its work over a team | Every element computed once, by one thread, from finished operands |
| Driver, `utils/DECpp.py` | directories | the order of passes per mode | |
| Python pipeline, `utils/python` | | writes kernels: calls of the library, a barrier after each | the order between calls |

How they interact: `DECpp.py` runs the visitor and the passes. The passes insert
`desc_*` calls. A `desc_*` call is three `dec_*` calls on one queue (open,
transfer, close), made by OpenMP threads: the first half of them run the compute
slice, the second half the supply slice, and thread *t* is the partner of thread
*t + pairs*. The two share memory and four queues. All stores are made
`compute_exclusive` first, so compiled kernels use only the two regions that
lead from supply to compute; the runtime offers all four and `DescRuntime`
covers all four. The decoupling server puts the same calls on the Maple runtime,
where the supply threads are the first half. `DEC_TensorFlow.py` writes kernels
that call the tensor library, each call followed by `DECADES_BARRIER`; the
visitor makes them run on a team, and hands each thread its number and the size
of the team.

`PROJECT.json` lists every component with what is left out of it, and the
hazards, each at its line.

## 2. Modules

| Module | What it is |
|---|---|
| `Channels` | The abstract specification: numbered bounded FIFO channels with one holder per end, sending and receiving in one step |
| `ShmemDecoupling` | `shmem_decoupling.cpp`, one action per access to shared memory; refines `Channels` |
| `ShmemProofs` | Proofs: its inductive invariant, its safety, and that it implements `Channels` |
| `DescRuntime` | `produce_consume.cpp` over `Channels`: the life of a `desc_*` call, for any program |
| `DescProofs` | Proofs: its inductive invariant and safety |
| `Slicing` | What the passes make of a kernel, as operators on sequences of instructions |
| `DecoupledKernel` | Composition: the slices of `Slicing` executed over `DescRuntime` on a shared memory, and the kernel itself as the reference |
| `SlicingProofs` | Lemmas on the slices of a kernel of any length: which steps each has and in which order |
| `KernelProofs` | Proofs: a compiled program makes `desc_*` calls, labels meet, queues are drained |
| `MemoryProofs` | Proofs: the pair leaves the kernel's memory |
| `Rendezvous` | The abstract specification of a barrier, for any plan of barriers and who takes part |
| `KernelSync` | The three barriers and the atomics, one action per access to shared memory; refines `Rendezvous` |
| `SyncProofs` | Proofs: the inductive invariant of the barriers, that they implement `Rendezvous`, and that the atomics are linearizable |
| `TensorKernels` | What each thread of a team does in each tensor kernel, as operators |
| `TensorProgram` | Composition: a team runs a sequence of those calls with barriers in between |
| `TensorProofs` | Proofs: a team leaves what one thread leaves, and which kernels a team of any size shares |
| `MapleRuntime` | `maple_decoupling.cpp`, one action per access to the device or to a shared variable |
| `DecoupleServer` | Composition: `produce_consume_maple.cpp` over `MapleRuntime`, with `main` |
| `MapleProofs` | Proofs: the inductive invariants and safety of the two together |
| `MCShmem`, `MCDescRuntime`, `MCKernel`, `MCSync`, `MCTensor`, `MCMaple` | Instances for TLC |

The layers fit together by refinement. `ShmemDecoupling` implements `Channels`
(property `ImplementsChannels`: a value counts as sent when `head` is stored and
as received when `tail` is, an end as taken at the successful
compare-and-swap), so the modules above it use atomic channels and need not
repeat the accesses to `arr`, `head` and `tail`. `DecoupledKernel` in turn implements
`RuntimeSpec` of `DescRuntime` (theorem `KernelMakesCalls`), so what is proved of
the calls holds in every compiled program.

### How state and actions correspond to the code

*ShmemDecoupling.* `head`, `tail`, `arr`, `producer`, `consumer`, `count` and
`INITIALIZED` are the globals of the same or nearly the same name; `pc`, `qid`,
`index`, `val`, `async` are what a thread inside a call has on its stack;
`sent` and `received` are history. `dec_produce` becomes: the entry with its
assertions, `LeaveFullSpin`, `FillSlot` (the store to `arr`), `AdvanceHead` (the
store to `head`). `dec_consume` likewise: entry (which reads `tail`),
`LeaveEmptySpin`, `TakeSlot`, `AdvanceTail`. Spinning is the absence of a step.
A failed compare-and-swap, weak or not, changes nothing and is not a step
either. Assertions at the entry of a call are guards, as a failed assertion ends
the process; the ones that come later are what `AssertionsHold` states. The
machine is x86 (the library is built for it and for RISC-V): stores become
visible in program order and every location has one writer at a time, so the
interleaving of single accesses is what can be observed, provided the compiler
keeps the store to the plain `arr` before the one to the volatile `head`.

*DescRuntime.* `call[t]` is the `desc_*` call a thread is in and how far it got.
`queue_of` is the arithmetic on thread numbers, `Region` the comment at
`produce_consume.cpp:225` as the code realises it call by call. The type of the
value only matters as "pointer or not", as it does for the choice of a queue.

*Slicing.* A kernel is a sequence of instructions, each optionally under a
branch on an earlier register. `supply_label` and `compute_label` are the
`INT_LABEL` counters of the two passes; `consume_removed`, `labels_to_erase` and
`produces` the dropping of receives and sends in `DecoupleSupplyAddr`;
`can_be_promoted` the fusion of a load or an atomic with its send;
`supply_keeps` the dead-code elimination after it. `Compiles` says for which
kernels the compiler does not stop or crash over a `compute_exclusive_load`.

*DecoupledKernel.* `EnterRegion` is the call of a kernel inside the OpenMP
region the visitor writes, which ends when all threads have ended. `Read`,
`Write`, `Update` and `Compare` are what is left in the slices;
`BeginCall`, `Open`, `SendValue`, `ReceiveValue` and `Close` are the calls of
`DescRuntime`. Values carry the label they were sent under, which the C code
passes along for debugging and does not transfer; only `LabelsMeet` looks at
it. `Run` executes the kernel as written, for comparison.

*KernelSync.* A program is a sequence of calls, a record each, that all threads
or some of them make. `simple_barrier` becomes: the flip of `local_sense` and
the increment of the counter (one step, as only the second is shared),
`ResetCounter`, `StoreFlag` for the last one to come and `LeaveSpin` for the
others. `DECADES_PARTIAL_BARRIER` becomes the increment, the two loads of its
loop (`TestCount`, `TestZero`), which may see different values, and
`ClearFence`. The atomics' loops are a load and a compare-and-swap that may
succeed, fail because the word has changed, or fail for no reason, as a weak
one may. A word has `Width` bits, so that the comparison of an `int` with a
`uint32_t` in `dec_atomic_fetch_min` differs from the one in
`desc_DECADES_FETCH_MIN`. `was` is history: the word when the last thread comes
to a barrier.

*TensorKernels, TensorProgram.* A task is one assignment to a tensor: the cell,
what is read for it, and a name for the arithmetic. The value of a cell is the
term of all that was done to get there, so that two results are equal exactly
when every operation was made on the same operands in the same order. `Tasks`
gives the tasks of one thread, from the loop bounds and strides of the kernel;
`Load` and `Finish` are the reads and the store of one task, between which
others may run. `Whole` is what one thread that takes part would do.
`Tensors` is the set of the arrays' names.

*MapleRuntime, DecoupleServer.* `main` goes through `dec_fifo_init` step by
step: `alloc_tile` (any number of tiles may be mapped), `dec_fifo_cleanup`,
`InitTile` for each tile (the device may say yes or no), `CountTiles`. A call of
a thread is `LeaveWait` (the spin on `initialized`), `Connect` (a retry that the
device has answered with a yes), the transfer, `Close`. `ready`, `taken` and
`buf` stand for the device, of which the code's comments say what the model
assumes; a load it is asked for is answered later and in any order
(`MemoryAnswers`). The addresses in `fpid` and `fcid` stay after a close, as in
the code. `desc_init` is the sequence of counts its fall-through cases ask for;
the source fixes the mode to 'd', which asks twice, before the threads start.
This program's values are numbered from 1, and what an earlier one has left is 0.

## 3. What is checked

| Run | Question | Bounds |
|---|---|---|
| `shmem_contention` | Three threads making any calls on one queue: types, assertions, exclusion at each end, no race on a slot, FIFO order, no overwriting of unread slots, refinement of `Channels`; the holder of an end is served | 3 threads (two contend for one end while a third uses the other), 3 slots (full, empty and partly filled differ, and indices wrap), 4 values sent (the ring wraps once and fills again), 2 data |
| `shmem_queues` | A second `dec_fifo_init`, which finds the first queue in use, or a cleanup, between calls: FIFO order | 2 threads, 2 queues of 3 slots (room for two values, which could change places), 2 values sent per queue, 2 data |
| `desc_runtime` | Any mix of `desc_*` calls | 2 pairs, one slot; at most 3 threads in calls and values in at most 2 queues (`MaxBusy`, `MaxUsed`), enough for any two calls to meet |
| `kernel_memory` | All kernels of three instructions ending in a store or an atomic, from every memory | 1 pair, 2 cells, data 0 and 1, queue of one slot |
| `kernel_regions` | All kernels of two instructions, called twice: empty queues at the end of a region, termination | as above, `Regions = 2` |
| `shmem_load_async` | violated, see below | 2 threads |
| `kernel_unused_cmp`, `kernel_aliasing` | violated, see below | one kernel each |
| `kernel_sync` | The barriers, in any mixture, and each atomic | 3 threads, 2 fences and 2 barrier_types; every sequence of three barriers that the barriers serve, partial ones of all threads or of two; every atomic with two choices of operands, once, or twice with a barrier in between; words of 2 bits. Three uses are enough for a barrier to be used, reused, and reused by threads still leaving the first use |
| `tensor_kernels` | Every kernel on the teams that compute it (below), and 36 pairs of kernels of which the second reads what the first has written | teams of 1 to 3; sizes that the team does not divide |
| `tensor_matmul` | violated, see below | 2 threads, 2 rows |
| `maple_server` | The queues are made twice, as mode 'd' does, with any number of tiles mapped and configured, after an earlier program has used no tile, the first one or all, and left values in their queues or ends held; then two pairs make their calls | 2 pairs, 4 tiles of 2 queues (the tile of the data, which is reset, and that of the addresses, which is not), two slots per queue (a value can be there before the load ahead of it is answered); async loads, data and addresses |

`MaxSent` bounds how many values enter a queue between two cleanups; a producer
whose queue has had that many stays in its spin, and `HolderIsServed` says so.
One pair is enough for TLC because pairs share neither queues
(`PairsTalk`) nor, in a parallel kernel free of races, memory. A queue of one
slot makes the supply slice wait as early as possible; more room only lets it
run further ahead, which matters to `SameMemory` only through pairs of accesses
that one slot already lets happen in both orders. The theorems of section 4 do
without these bounds: any number of pairs, any capacity, any kernel.

The interesting properties:

* `ImplementsChannels`, `DeliveredInOrder`, `UnreadSlotKept`, `NoSlotRace`: the
  ring is correct although every test of an index is used two accesses later.
* `HolderIsServed`: room for a producer and a value for a consumer cannot be
  taken away while they spin.
* `OpensAtOnce`: the spin lock in the runtime never delays a compiled kernel.
* `LabelsMeet`, `Drained`: two passes that never look at each other's result
  agree on every send, in kernels with branches, dropped values and promotion.
* `SameMemory`: the pair computes what the kernel does **if** its accesses are
  `InOrderFrom` the initial memory: no access of the supply slice follows a
  conflicting one of the compute slice, and where one precedes it, a value is
  sent and received in between. The run `kernel_aliasing` shows that
  a condition is needed.
* `EveryRegionEnds`: neither slice waits for ever.
* `ImplementsRendezvous`, `NobodyEarly`, `RegionEnds`: nobody leaves any of the
  barriers before all have come, and all leave, although the partial barrier is
  cleared by everybody who leaves it. Three conditions are needed and stated, as
  `Serves`:
  `FencesRest` (between two uses of a fence another barrier joins their threads:
  a late store of zero would wipe out arrivals), `SensesFit` (a thread's one
  `local_sense` is not what the flag of the barrier shows) and `TeamsStay` (a
  barrier_type always joins the same threads, as it has one counter).
* `Linearizable`: between two barriers the atomics act one after the other, each
  returning what it replaced. `desc_DECADES_COMPARE_AND_SWAP` does not, as it
  reads and then exchanges: for it the property says only that what it returns
  was there at some time.
* `SerialResult`, `NoRace`: no thread reads what another has yet to store or is
  storing, and all together leave what one thread would have left.
* `CallsShared`: each cell is made by a thread that does all that is done to it,
  in the order of the source, and to every cell it is made from (`Divided`), and
  no thread reads what another writes (`Apart`). Two threads may make the same
  cell, if they make the same of it. This is what the theorems ask of a program;
  it holds on the teams of the table below for all kernels but
  `conv2dbackpropfilter`, which has a barrier inside.
* `AnswerIsTrue`, `Served`: when `dec_fifo_init` answers with at least the number
  asked for, the queues are there, and every call returns, unless an earlier
  program still holds an end of one of them (`NoneHeld`): those of the first tile
  are set free, those of the later ones are not. Values it has left do not
  keep a call from returning.
* `NoWildAddress`: `desc_init` ignores a smaller answer. An address that was
  never set is then used only for queues that were not counted, and never
  before a `dec_fifo_init` has come to its end.
* `OwnValuesInOrder`: what is received from a queue is what this program has sent,
  in order, behind what an earlier program has left there; on the first tile,
  the one that is reset, nothing is left.

What the runs are not about: the programs of `kernel_sync` are those that
`Serves` admits, and those of `tensor_kernels` have only the teams of the table
below. So these runs show that the reuse of a fence or a sense, or the division
of a kernel, is right where the condition holds. They do not show the failures
outside it: a late store of zero in the partial barrier, a stale `local_sense`,
a fused layer on two threads.

### Which teams compute which kernels

`SerialResult` and `NoRace` hold on the sizes of the run for

| Kernels | Teams |
|---|---|
| all element-wise ones, `sdp`, `softmax`, `softmaxgrad` (thread 0 alone), `maxpoolgrad`, `avgpool`, `bias_add`, `lrn`, `dense` (threads repeat each other's rows), `conv2d`, `conv2dbackpropinput` (thread 0 alone) | 1, 2 and 3 threads |
| `matmul` of one row, `maxpool` of one channel, `dense_layer` and `conv2d_layer` without anything fused | 1 and 2 |
| `matmul`, `maxpool`, `biasaddgrad`, `dense_layer` with an activation, `conv2d_layer` with bias, activation or pooling | 1 |
| `conv2dbackpropfilter` | exactly 2 |
| `avgpoolgrad` | none |

The reasons are in the code: the rows of `matmul` go on by one; `maxpool` is done
by thread 0, which still skips to every `num_threads`-th channel; `biasaddgrad`
is accumulated by every thread; a layer splits its parts in different ways with
no barrier between them; `avgpoolgrad` and `conv2dbackpropfilter` are for
threads above 0, so that one thread does nothing, and the first channel of
`avgpoolgrad` is nobody's. `SerialResult` compares with what one thread does and
says nothing of whether that is the gradient or the layer it should be: the
batches of `matmul` share the first matrix B, `softmaxgrad` does not
reset its sum, `biasaddgrad` adds floats up in an `int`, and `bias_add` in a
layer takes the channels to come last where the convolution has them first.

Deadlock is checked where the system must not stop (`kernel_memory`,
where `ProgramEnds` is the only way to idle). In the runtime models the program
may stop calling, so those configurations do not check it, and termination is
covered by `EveryRegionEnds` and `HolderIsServed`. With `maple_server`, too, the
program stops when its calls are done, or crashes when there are too few queues.

### Fairness

`FairSpec` of `ShmemDecoupling` is weak fairness of each thread's steps inside a
call: the operating system schedules every thread. Starting a call is not fair,
and a compare-and-swap that other threads keep winning may fail for ever;
nothing is claimed about the wait for an end. `FairKernelSpec` is weak fairness
of each thread and of `main`. Weak fairness is enough there because
`OpensAtOnce` makes an open succeed at once. `KernelSync` and `TensorProgram`
assume that every thread runs; `KernelSync` adds strong fairness of a successful
compare-and-swap, as a weak one that fails for no reason for ever would keep a
loop from ending on any machine. `DecoupleServer` assumes that `main` and every
thread run and that memory answers.

### Disagreements found

1. `dec_load32_async` and `dec_load64_async` require the caller to own the
   producing end and then wait until nobody owns it (`shmem_load_async`). No
   compiled kernel calls them.
2. A pointer comparison used only for an address: its receive is dropped, its
   send is not, because the send's name does not contain `desc_supply_produce`
   (`kernel_unused_cmp`). The kernels of the passing runs exclude it
   (`CmpsUsed`).
3. A load of a cell that the kernel stored to before reads the old value
   (`kernel_aliasing`).
4. The rows of `decadesTF_matmul` go on by one and not by the number of threads:
   with two, the second row may come out doubled (`tensor_matmul`).

Seen while modelling, and not a run of their own: in the DeSC mode, too, the
compute slice does the stores, where `DECpp.py:380` says the supply nodes do.
`dec_fifo_cleanup` of the Maple runtime resets the first tile only, under a
comment that says "TILE ALLOCATED AND RESET" (`maple_decoupling.cpp:194` and
`:158`). A program with more than two queues, as every `desc_*` program is, may
find a later tile as an earlier program has left it, if the device answers a
further configuration with a yes: the first value received is then not its own,
which is why `OwnValuesInOrder` speaks of what was left, and an end still held
makes a call wait for ever, which is why `Served` asks for `NoneHeld`. `desc_supply_consume_*` of the decoupling server
computes the number of a queue that does not exist, and its
`desc_compute_produce_*` writes to queues nobody reads.

## 4. What is proved

The proofs hold for every value of the constants that satisfies the named
assumptions.

**Shared-memory runtime** (`ShmemProofs`; assumption `ShmemAssumption`: at least
two slots, at least one queue, thread numbers are naturals). The safety
properties are not inductive: that a slot is still free when it is filled
depends on a test made two accesses earlier. The strengthening `IInv` adds
`CallKnows`: what a thread at each `pc` knows of its queue (not full since the
spin ended; `index` equals `head` or `tail`; the slot holds `val`). It survives
the steps of others because only the holder of an end moves that end's index,
and the other side's moves make the tested condition truer. `AssertionsHold`,
a part of `IInv`, provides the holder. `DeliveredInOrder` rests on lemmas about
arithmetic around the ring. The proof has one step per action. Theorems:
`TypeOKAlways`, `AssertionsHoldAlways`, `OneThreadPerEndAlways`,
`NoSlotRaceAlways`, `DeliveredInOrderAlways`. From the same invariant follow the
action property (`UnreadSlotKeptAlways`: the only slot a step writes is the one
at `head`, which is outside the published part) and the refinement
(`RuntimeIsChannels`): the contents of an abstract channel are
the occupied slots of its ring, the initial states are initial states of `Channels`,
and each action is a send (`AdvanceHead`), a receive (`AdvanceTail`), the taking
or giving back of an end, the making or unmaking of all channels, or a stutter.
The lemma that matters is that a ring that is not full has fewer values in
flight than the channel's capacity, and one that is not empty has some.

**`desc_*` runtime** (`DescProofs`; assumptions `ChannelsAssumption` and
`RuntimeAssumption`: four queues per pair exist). The strengthening `RInv` adds
`CallsHoldEnds`, the converse of `NoEndLeaks`. The heart is the lemma
`RegionsDisjoint`: base plus region times pairs determines the thread and the
region, so no two threads use the same end of a queue, and the lemma
`PairPerQueue`. Theorems: `RuntimeTypeOKAlways`, `NoEndLeaksAlways`,
`OpensAtOnceAlways`, `PairsTalkAlways`, for any number of pairs.

**Slices** (`SlicingProofs`). No theorem, but lemmas on which the next two
modules rest: a slice lists, instruction after instruction, the steps left of
each, none twice (`SliceLayout`, `ShapedIsSlice`); and `SupplyKeeps`, that an
instruction the dead-code elimination keeps has all it needs kept, too. `supply_keeps` is a
recursive function; that its recursion is well founded comes from the library's
`NatLessThanWellFounded`, and the induction over the length of a kernel is an
argument by the least counterexample, as the library's induction rules cannot be
instantiated with the provers at hand.

**Compiled kernels** (`KernelProofs`). Unconditional, for kernels of any length,
any number of pairs, cells and slots: `KernelMakesCalls` (every step is a step
of a `desc_*` call or none) and `KernelTypesAlways`. Under the hypothesis
`\A k \in Kernels : CmpsUsed(k)`: `LabelsMeetAlways` and `DrainedAlways`. The
hypothesis is the one the run `kernel_unused_cmp` shows to be needed; the sets
of kernels of the passing runs are filtered by it. The inductive `KernelInv`
says where a call is at each step of a slice (`CallsFollow`), that only what was
defined and taken is in a register (`RegsDefined`), that a received value is the
sender's (`Copies`, which keeps the branches of the two slices together), and
`QueuesHoldPending`: a queue holds exactly the values that the supply slice has
sent and the compute slice is still to receive, in the order of the kernel.
`LabelsMeet` is what that says of the head of a queue and `Drained` what it says
of the end of a region.

**Memory** (`MemoryProofs`; the same hypothesis). `SameMemoryAlways`: when a
region ends, the memory is the kernel's, for every kernel and initial memory
that `InOrderFrom` allows. Neither thread is ever where the kernel is, so no
state of the pair matches a state of the kernel. `PairsFollow`, inductive
together with `KernelInv`, says it register by register and cell by cell: every
register that is defined, in either slice, holds what the kernel computes for
it, and every cell holds what it holds after some number of instructions,
another number for each cell, with just the writes of those instructions done.
A read is then right because `InOrderFrom` puts it behind the last write before
it and ahead of the first one after it (`OrderKept`, `CellSeen`, `ValueRight`);
"behind" is either the order within a slice or a value that was sent in between,
which the compute slice cannot have before the supply slice has passed it
(`SentWhenPast`). `kernel_aliasing` shows that the condition cannot be dropped.

**Barriers** (`SyncProofs`; `SyncAssumption`, in which `Modulus` is said to be
positive because no prover here knows `^`). Hypothesis of its theorems:
`\A p \in SyncPrograms : Serves(p)`, that is `FencesRest`, `SensesFit` and
`TeamsStay`; `ProgramsServe` of `MCSync` has TLC check that the programs of the
run satisfy it. The inductive `SyncInv` says what a thread at every access
knows of its counter, flag or fence (`Whereabouts`), what the counts are
(`FenceCounts`, `FirstCounts`), what the senses are (`OwnSenses`), and that only
one arrival opens a barrier (`OneOpens`), for any number of threads, calls and
barriers in any mixture, atomics in between. Theorems: `SyncTypeCorrect`,
`NobodyLeavesEarly`, `BarriersRendezvous` (every step is an arrival, a departure
after all have come, or a stutter of `Rendezvous`).

**Atomics** (`SyncProofs`; the same hypothesis). `Linearizable` asks for an order
of all calls between two barriers after the last of them has returned.
`AtomicsLinearizable` proves it with an invariant that holds such an order at
every moment (`LinInv`): for a call between two barriers of all threads there is
a record of the threads that have made it, in the order in which it took effect,
with the word after each (`History`). A step of an atomic either leaves word
and record as they are, or is the one with which the call takes effect, and
writes one more thread at the record's end. The first barrier provides the word
the record starts from and the second one closes it: nobody can be past a
barrier all have to join before all have made the call (`WordsNoted`). What a
thread has read before its exchange is the word after one of the threads of the
record, so an exchange that is made in two steps, as in
`desc_DECADES_COMPARE_AND_SWAP`, returns some word of the record, and not
always the last one.

**Teams** (`TensorProofs`; `ProgramAssumption`: what a program is, and that no
array has the name of a barrier). In the first half the hypothesis is
`\A p \in Programs : AllShared(p)`, which is what `CallsShared` checks of the
programs of the run. The inductive `TeamInv` says that all threads are in the same call,
that each has done the first `done[t]` tasks of its part, and that every cell
that a thread has written holds what it would hold had the thread been alone
since the last barrier; a cell that nobody has written is as the call found it
(`Halfway`). A value read is then the one the thread would have read alone,
whoever else runs, as the cell is its own or unwritten. When all have done
their parts, each cell is what its maker would have left alone, and as the
maker does everything that is done to it in the order of the source, that is
what one thread leaves that does the whole. The sums and sequences over loops
are recursive functions; an induction is an argument over a set of numbers
(`SetInduction`), since the library's rules cannot be instantiated. Theorems:
`SharedNoRace`, `SharedSerialResult`, `SharedNativeResult`; and
`TensorTypeOK`, which holds also for kernels with a barrier inside and for calls
that are not shared, and asks only that tasks are on the program's tensors
(`WellFormed`; `ProgramsWellFormed` of `MCTensor` has TLC check that of the
programs of the run).

The second half discharges the hypothesis from the arguments of a call
(`AnyTeam`), for arrays of any size and a team of any size, which need not divide the work.
`AnyTeamCallsShared` and `AnyTeamResults` are the results: `CallsShared`, types,
`NoRace`, `SerialResult` and `NativeResult` for every program of

| Kernels | Asked of the arguments | Why a team shares them |
|---|---|---|
| element-wise ones, `sdp` | a scalar operand is not in the output; in place is fine otherwise | `for (i = tid; i < n; i += num_threads)` gives each round to exactly one thread (`RoundUnique`, `RoundExists`), and a round sees its own element only |
| `softmax`, `bias_add`, `lrn` | input (of `softmax`) or bias not the output; a radius of at least 1 | the same for rows, which do not overlap (`RowsApart`) |
| `avgpool`, `maxpoolgrad`, `conv2d` | even sizes for pooling, an image larger than its padding, the tensors read from are not the output | the same for the channels of each image of the batch; the images, too, are rows (`JoinedShares`, `PlanesShare`) |
| `softmaxgrad`, `conv2dbackpropinput` | nothing | thread 0 makes them alone |
| `dense` | neither input nor weights are the output | the threads' rows are the first ones of the whole, and a row is the same whoever makes it (`DensePartOf`, `DenseUnique`) |

**Decoupling server on Maple** (`MapleProofs`). The inductive `SInv` says what
`main` knows of the tiles at each step of `dec_fifo_init`, what a thread in a
call knows, and that an end of a queue of the device is held by the thread whose
call is about it. Theorems for any number of pairs, tiles, slots and any
scripts, whatever tiles earlier programs have left configured:
`MapleTypeCorrect`, `EndsOfOnePair`, `WildOnlyIfNotCounted`. A second invariant,
`CleanQueues`, is about the contents: behind what was left in it, a queue holds
what was sent and is still to be received; on the first tile nothing is left
once `dec_fifo_cleanup` has been there. With it: `CleanAlways`, `ReceivedInOrder`
and `AnswerCanBeTrusted`.

**Only model-checked.** Liveness (`HolderIsServed`, `EveryRegionEnds`,
`RegionEnds`, `Returns`, `Served`), because the prover has neither ENABLED nor
fairness. `SerialResult` and `NoRace` for the kernels that only some teams
compute (`matmul`, `maxpool`, `biasaddgrad`, the fused layers; the table in
section 3): on those teams `CallsShared` has TLC check the hypothesis, which
`AnyTeam` does not imply for them. For `conv2dbackpropfilter`, whose barrier is
inside, no theorem says more than `TensorTypeOK`.

## 5. Not modelled

`PROJECT.json` gives the reason per component. In short: `FindNMA`, whose every
path that changes a load ends in undefined behaviour; the queries of the
shared-memory runtime, which nothing calls; the compute-to-supply half of the
decoupling server, which uses the wrong queues; text generation, the inliner's
copy of LLVM code, tensor arithmetic and report printing, which are out of
scope. Data are small
numbers that wrap; floating point is not represented, and the width of a word
only in `KernelSync`.
The library of the decoupling server is not built (its lines in
`utils/DecoupleServer/CMakeLists.txt` are comments) and expects the supply
threads to be the first half, the opposite of what the visitor writes.
More than 64 pairs, for which the runtime has too few queues, are excluded by
`RuntimeAssumption`.

## 6. Plan

1. Done: `Channels`, `ShmemDecoupling`, `ShmemProofs` with the refinement.
2. Done: `DescRuntime`, `DescProofs`, `Slicing`, `DecoupledKernel`,
   `SlicingProofs`, `KernelProofs`, `MemoryProofs`.
3. Done: `Rendezvous`, `KernelSync`, `SyncProofs` with the atomics.
4. Done: `TensorKernels`, `TensorProgram`, `TensorProofs`.
5. Done: `MapleRuntime`, `DecoupleServer`, `MapleProofs`.
6. `ShmemQueries`: `dec_queueCapacity`, `dec_isEmptyQ`, `dec_peek` against the
   moving ring; what an answer still means when it is used.
7. `Driver`: modes and the order of passes, directories and failures.
