---------------------------- MODULE DescRuntime ----------------------------
(***************************************************************************)
(* The calls the compiler inserts into a decoupled kernel,                 *)
(* RT/src/produce_consume.cpp, over the channels of the shared-memory      *)
(* runtime.  Of 2p threads, the first p run the compute slice and the      *)
(* others the supply slice; thread t and thread t + p are a pair.  Every   *)
(* desc_* call opens one end of one queue, transfers one value and closes  *)
(* the end again.                                                          *)
(*                                                                         *)
(* The module knows nothing of kernels: a thread outside a call may make   *)
(* any call of its slice.  DecoupledKernel says which ones a compiled      *)
(* kernel makes.                                                           *)
(*                                                                         *)
(* A definition marked MUTANT is a mistaken version of the one after it,   *)
(* with which a property must fail; it is no part of the model.            *)
(***************************************************************************)
EXTENDS Channels

CONSTANTS
  NumPairs,     \* DEC_NUM_CONSUMERS, which is half of DEC_NUM_THREADS
  MaxQueues     \* MAX_QUEUES of the shared-memory runtime

ComputeThreads == 0 .. NumPairs - 1
SupplyThreads == NumPairs .. 2 * NumPairs - 1
Partner(t) == IF t \in ComputeThreads THEN t + NumPairs ELSE t - NumPairs

(* utils/DECpp.py sets both counts for a decoupled compilation, and nobody *)
(* compares the number of queues asked for with the number made.           *)
ASSUME RuntimeAssumption ==
  /\ NumPairs \in Nat \ {0}
  /\ MaxQueues \in Nat
  /\ 4 * NumPairs <= MaxQueues
  /\ Threads = 0 .. 2 * NumPairs - 1
  /\ Qids = 0 .. MaxQueues - 1

VARIABLE call   \* the desc_* call each thread is in

runtimeVars == <<vars, call>>

(* The kinds of call: which slice sends to which, and whether pointers.    *)
Types == {"data", "ptr"}
Directions == {"produce", "consume"}
Stages == {"none", "open", "transfer", "close"}
NoCall == [stage |-> "none", dir |-> "produce", type |-> "data"]

-----------------------------------------------------------------------------
(* Which queue a call uses. *)

get_producer_qid(t) == t - NumPairs
get_consumer_qid(t) == t

Base(t) == IF t \in ComputeThreads THEN get_consumer_qid(t)
                                   ELSE get_producer_qid(t)

(* MUTANT: both slices of a pair send data in the same region. *)
RegionByDirection(t, dir, type) ==
  IF dir = "produce" THEN IF type = "data" THEN 0 ELSE 3
                     ELSE IF type = "data" THEN 1 ELSE 2

(* The four regions of the queues, in the code's words:                    *)
(*   0 supply_to_compute          1 compute_to_supply                      *)
(*   2 compute_to_supply (addr)   3 supply_to_compute (addr)               *)
Region(t, dir, type) ==
  LET toCompute == (t \in ComputeThreads) = (dir = "consume")
  IN  IF toCompute THEN IF type = "data" THEN 0 ELSE 3
                   ELSE IF type = "data" THEN 1 ELSE 2

(* MUTANT: the regions are one queue apart. *)
QueueOverlap(t, dir, type) == Base(t) + Region(t, dir, type)

queue_of(t, dir, type) == Base(t) + Region(t, dir, type) * NumPairs

CallQueue(t) == queue_of(t, call[t].dir, call[t].type)

-----------------------------------------------------------------------------
RuntimeInit ==
  /\ Init
  /\ call = [t \in Threads |-> NoCall]

(* MUTANT: one queue per thread. *)
DescInitHalf ==
  /\ live = {}
  /\ Create(0 .. 2 * NumPairs - 1, 0 .. 2 * NumPairs - 1)
  /\ UNCHANGED call

(* main starts with a call of desc_init, which asks for two queues per     *)
(* thread; dec_fifo_init makes at most MAX_QUEUES.                         *)
desc_init ==
  LET made == 0 .. (IF 4 * NumPairs > MaxQueues THEN MaxQueues
                                                ELSE 4 * NumPairs) - 1
  IN  /\ live = {}
      /\ Create(made, made)
      /\ UNCHANGED call

(* A call starts. *)
desc_call(t, dir, type) ==
  /\ live # {}
  /\ call[t].stage = "none"
  /\ call' = [call EXCEPT ![t] = [stage |-> "open", dir |-> dir, type |-> type]]
  /\ UNCHANGED vars

To(t, from, to) ==
  /\ call[t].stage = from
  /\ call' = [call EXCEPT ![t].stage = to]

open_queue(t) ==
  /\ To(t, "open", "transfer")
  /\ IF call[t].dir = "produce" THEN OpenProducer(t, CallQueue(t))
                                ELSE OpenConsumer(t, CallQueue(t))

produce(t, v) ==
  /\ call[t].dir = "produce"
  /\ To(t, "transfer", "close")
  /\ Send(t, CallQueue(t), v)

consume(t) ==
  /\ call[t].dir = "consume"
  /\ To(t, "transfer", "close")
  /\ Receive(t, CallQueue(t))

(* MUTANT: the call of dec_close_producer is missing. *)
ReturnOpen(t) ==
  /\ call[t].stage = "close"
  /\ call' = [call EXCEPT ![t] = NoCall]
  /\ IF call[t].dir = "produce" THEN UNCHANGED vars
                                ELSE CloseConsumer(t, CallQueue(t))

close_queue(t) ==
  /\ call[t].stage = "close"
  /\ call' = [call EXCEPT ![t] = NoCall]
  /\ IF call[t].dir = "produce" THEN CloseProducer(t, CallQueue(t))
                                ELSE CloseConsumer(t, CallQueue(t))

InCall(t) ==
  \/ open_queue(t)
  \/ \E v \in Values : produce(t, v)
  \/ consume(t)
  \/ close_queue(t)

RuntimeNext ==
  \/ desc_init
  \/ \E t \in Threads :
       \/ InCall(t)
       \/ \E dir \in Directions, type \in Types : desc_call(t, dir, type)

RuntimeSpec == RuntimeInit /\ [][RuntimeNext]_runtimeVars

-----------------------------------------------------------------------------
(* Properties *)

RuntimeTypeOK ==
  /\ live \in {{}, 0 .. 4 * NumPairs - 1}
  /\ chan \in [Qids -> Seq(Values)]
  /\ delivered \in [Qids -> Values \cup {None}]
  /\ producer \in [Qids -> Threads \cup {NoThread}]
  /\ consumer \in [Qids -> Threads \cup {NoThread}]
  /\ call \in [Threads -> [stage : Stages, dir : Directions, type : Types]]

(* A thread about to spin in dec_open_producer or dec_open_consumer finds  *)
(* the queue made and its end free: the layout of the four regions gives   *)
(* every end to one thread, so the spin lock never makes a slice wait.     *)
OpensAtOnce ==
  \A t \in Threads :
    call[t].stage = "open" =>
      /\ CallQueue(t) \in live
      /\ IF call[t].dir = "produce" THEN producer[CallQueue(t)] = NoThread
                                    ELSE consumer[CallQueue(t)] = NoThread

(* When both ends of a queue are held, a pair holds them: no value of a    *)
(* supply thread reaches the compute thread of another pair.               *)
PairsTalk ==
  \A q \in live :
    producer[q] # NoThread /\ consumer[q] # NoThread =>
      consumer[q] = Partner(producer[q])

(* The ends that are held are those of the calls in progress: no desc_*    *)
(* call returns without giving its end back, so no later call blocks.      *)
NoEndLeaks ==
  \A q \in live, t \in Threads :
    /\ producer[q] = t => /\ call[t].stage \in {"transfer", "close"}
                          /\ call[t].dir = "produce" /\ CallQueue(t) = q
    /\ consumer[q] = t => /\ call[t].stage \in {"transfer", "close"}
                          /\ call[t].dir = "consume" /\ CallQueue(t) = q
=============================================================================
