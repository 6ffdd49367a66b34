-------------------------- MODULE ShmemDecoupling --------------------------
(***************************************************************************)
(* The shared-memory decoupling runtime, RT/src/shmem_decoupling.cpp:      *)
(* circular buffers (T_queue) in the vector DEC_QUEUES, an ownership cell  *)
(* per queue and side, and the calls on them.  There is no lock around a   *)
(* buffer: head and tail are plain volatile integers, and what keeps two   *)
(* threads off the same end is the compare-and-swap on the ownership cell  *)
(* in dec_open_producer and dec_open_consumer, a spin lock that may be     *)
(* held over many calls.                                                   *)
(*                                                                         *)
(* One action is one access to memory that other threads write or read,    *)
(* together with the thread-local work around it.  The file is compiled    *)
(* for x86, where stores become visible in program order and every         *)
(* location here has one writer at a time, so interleaving the accesses    *)
(* is faithful.                                                            *)
(*                                                                         *)
(* A call whose DEC_DEBUG assertion fails ends the process, so assertions  *)
(* at the start of a call are guards of its action.  Assertions in the     *)
(* middle of a call are not guards: AssertionsHold, below, states them.    *)
(*                                                                         *)
(* A definition marked MUTANT is no part of the model.  It is a mistaken   *)
(* version of the definition after it, with which a property below must    *)
(* fail.                                                                   *)
(***************************************************************************)
EXTENDS Integers, Sequences

CONSTANTS
  Threads,      \* OpenMP thread numbers
  NumQueues,    \* bound: DEC_QUEUES never holds more queues than this
  VirtualSize,  \* slots of a buffer in use: virtual_size, from size_table
  Values,       \* the data
  Junk,         \* what a slot nobody wrote holds
  MaxSent       \* bound: values enqueued in a queue between two cleanups

Qids == 0 .. NumQueues - 1
Slots == 0 .. VirtualSize - 1
NoThread == -1

ASSUME ShmemAssumption ==
  /\ Threads \subseteq Nat
  /\ NumQueues \in Nat \ {0}
  /\ VirtualSize \in Nat \ {0, 1}
  /\ Junk \notin Values
  /\ MaxSent \in Nat

VARIABLES
  INITIALIZED,  \* the flag of the same name
  count,        \* DEC_QUEUES.size()
  head, tail,   \* indices of the next slot to fill and the next to empty
  arr,          \* the slots
  producer,     \* producer_ownership_map
  consumer,     \* consumer_ownership_map
  pc,           \* where each thread is
  qid,          \* the queue its call is about
  index,        \* the local of that name in enqueue and do_dequeue
  val,          \* the value being enqueued or dequeued
  async,        \* which composite its call belongs to, if any
  sent,         \* history: values enqueued in each queue since it was made
  received      \* history: values dequeued

queueVars == <<INITIALIZED, count>>
bufferVars == <<head, tail, arr>>
ownerVars == <<producer, consumer>>
threadVars == <<pc, qid, index, val, async>>
historyVars == <<sent, received>>
vars == <<queueVars, bufferVars, ownerVars, threadVars, historyVars>>

(* The ownership maps are zero-initialised statics: until dec_fifo_init    *)
(* resets a cell it names thread 0.                                        *)
Init ==
  /\ INITIALIZED = FALSE
  /\ count = 0
  /\ head = [q \in Qids |-> 0]
  /\ tail = [q \in Qids |-> 0]
  /\ arr = [q \in Qids |-> [i \in Slots |-> Junk]]
  /\ producer = [q \in Qids |-> 0]
  /\ consumer = [q \in Qids |-> 0]
  /\ pc = [t \in Threads |-> "idle"]
  /\ qid = [t \in Threads |-> 0]
  /\ index = [t \in Threads |-> 0]
  /\ val = [t \in Threads |-> Junk]
  /\ async = [t \in Threads |-> "none"]
  /\ sent = [q \in Qids |-> <<>>]
  /\ received = [q \in Qids |-> <<>>]

-----------------------------------------------------------------------------
(* T_queue *)

(* MUTANT: the index does not wrap around. *)
SuccUnwrapped(i) == i + 1

Succ(i) == (i + 1) % VirtualSize
is_full(q) == tail[q] = Succ(head[q])

DebugCheck(q) == INITIALIZED /\ q < count

(* Control of a thread. *)
Calls(t, q, label) ==
  /\ pc[t] = "idle" /\ DebugCheck(q)
  /\ pc' = [pc EXCEPT ![t] = label]
  /\ qid' = [qid EXCEPT ![t] = q]

Steps(t, from, to) ==
  /\ pc[t] = from
  /\ pc' = [pc EXCEPT ![t] = to]

(* A call that returns leaves no locals behind. *)
Returns(t, from) ==
  /\ Steps(t, from, "idle")
  /\ qid' = [qid EXCEPT ![t] = 0]
  /\ index' = [index EXCEPT ![t] = 0]
  /\ val' = [val EXCEPT ![t] = Junk]
  /\ async' = [async EXCEPT ![t] = "none"]

-----------------------------------------------------------------------------
(* Ownership. *)

dec_open_producer(t, q) ==
  /\ Calls(t, q, "cas_producer")
  /\ UNCHANGED <<queueVars, bufferVars, ownerVars, index, val, async,
                 historyVars>>

(* MUTANT: the old owner is not compared. *)
SwapProducer(t) ==
  /\ producer' = [producer EXCEPT ![qid[t]] = t]
  /\ \/ /\ async[t] # "none"
        /\ Steps(t, "cas_producer", "rmw")
        /\ UNCHANGED <<qid, index, val, async>>
     \/ async[t] = "none" /\ Returns(t, "cas_producer")
  /\ UNCHANGED <<queueVars, bufferVars, consumer, historyVars>>

(* The compare-and-swap that ends the spin of dec_open_producer. *)
CasProducer(t) ==
  /\ producer[qid[t]] = NoThread
  /\ producer' = [producer EXCEPT ![qid[t]] = t]
  /\ \/ /\ async[t] # "none"
        /\ Steps(t, "cas_producer", "rmw")
        /\ UNCHANGED <<qid, index, val, async>>
     \/ async[t] = "none" /\ Returns(t, "cas_producer")
  /\ UNCHANGED <<queueVars, bufferVars, consumer, historyVars>>

dec_open_consumer(t, q) ==
  /\ Calls(t, q, "cas_consumer")
  /\ UNCHANGED <<queueVars, bufferVars, ownerVars, index, val, async,
                 historyVars>>

CasConsumer(t) ==
  /\ consumer[qid[t]] = NoThread
  /\ consumer' = [consumer EXCEPT ![qid[t]] = t]
  /\ Returns(t, "cas_consumer")
  /\ UNCHANGED <<queueVars, bufferVars, producer, historyVars>>

(* MUTANT: DEBUG_PRODUCER is missing. *)
CloseUnowned(t, q) ==
  /\ pc[t] = "idle" /\ DebugCheck(q)
  /\ producer' = [producer EXCEPT ![q] = NoThread]
  /\ UNCHANGED <<queueVars, bufferVars, consumer, threadVars, historyVars>>

dec_close_producer(t, q) ==
  /\ pc[t] = "idle" /\ DebugCheck(q)
  /\ producer[q] = t
  /\ producer' = [producer EXCEPT ![q] = NoThread]
  /\ UNCHANGED <<queueVars, bufferVars, consumer, threadVars, historyVars>>

(* MUTANT: the cell is cleared to zero, which is a thread number. *)
CloseToZero(t, q) ==
  /\ pc[t] = "idle" /\ DebugCheck(q)
  /\ consumer[q] = t
  /\ consumer' = [consumer EXCEPT ![q] = 0]
  /\ UNCHANGED <<queueVars, bufferVars, producer, threadVars, historyVars>>

dec_close_consumer(t, q) ==
  /\ pc[t] = "idle" /\ DebugCheck(q)
  /\ consumer[q] = t
  /\ consumer' = [consumer EXCEPT ![q] = NoThread]
  /\ UNCHANGED <<queueVars, bufferVars, producer, threadVars, historyVars>>

-----------------------------------------------------------------------------
(* Producing: do_enqueue spins while the buffer is full, stores the value  *)
(* in the slot at head and only then advances head.                        *)

dec_produce(t, q, v) ==
  /\ producer[q] = t
  /\ Calls(t, q, "full")
  /\ val' = [val EXCEPT ![t] = v]
  /\ UNCHANGED <<queueVars, bufferVars, ownerVars, index, async, historyVars>>

(* MUTANT: a full buffer does not hold the producer back. *)
NoFullSpin(t) ==
  /\ Len(sent[qid[t]]) < MaxSent
  /\ Steps(t, "full", "fill")
  /\ UNCHANGED <<queueVars, bufferVars, ownerVars, qid, index, val, async,
                 historyVars>>

LeaveFullSpin(t) ==
  /\ ~ is_full(qid[t])
  /\ Len(sent[qid[t]]) < MaxSent
  /\ Steps(t, "full", "fill")
  /\ UNCHANGED <<queueVars, bufferVars, ownerVars, qid, index, val, async,
                 historyVars>>

(* MUTANT: head is taken for the slot filled last. *)
FillBehind(t) ==
  LET last == (head[qid[t]] + VirtualSize - 1) % VirtualSize IN
    /\ Steps(t, "fill", "publish")
    /\ index' = [index EXCEPT ![t] = head[qid[t]]]
    /\ arr' = [arr EXCEPT ![qid[t]][last] = val[t]]
    /\ UNCHANGED <<queueVars, head, tail, ownerVars, qid, val, async,
                   historyVars>>

FillSlot(t) ==
  /\ Steps(t, "fill", "publish")
  /\ index' = [index EXCEPT ![t] = head[qid[t]]]
  /\ arr' = [arr EXCEPT ![qid[t]][head[qid[t]]] = val[t]]
  /\ UNCHANGED <<queueVars, head, tail, ownerVars, qid, val, async, historyVars>>

AdvanceHead(t) ==
  /\ head' = [head EXCEPT ![qid[t]] = Succ(index[t])]
  /\ sent' = [sent EXCEPT ![qid[t]] = Append(@, val[t])]
  /\ \/ /\ async[t] # "none"
        /\ Steps(t, "publish", "close")
        /\ UNCHANGED <<qid, index, val, async>>
     \/ async[t] = "none" /\ Returns(t, "publish")
  /\ UNCHANGED <<queueVars, tail, arr, ownerVars, received>>

-----------------------------------------------------------------------------
(* Consuming: do_dequeue remembers tail, spins while head still equals it, *)
(* loads the slot and only then advances tail.                             *)

dec_consume(t, q) ==
  /\ consumer[q] = t
  /\ Calls(t, q, "empty")
  /\ index' = [index EXCEPT ![t] = tail[q]]
  /\ UNCHANGED <<queueVars, bufferVars, ownerVars, val, async, historyVars>>

(* MUTANT: an empty buffer does not hold the consumer back. *)
NoEmptySpin(t) ==
  /\ Steps(t, "empty", "take")
  /\ UNCHANGED <<queueVars, bufferVars, ownerVars, qid, index, val, async,
                 historyVars>>

LeaveEmptySpin(t) ==
  /\ head[qid[t]] # index[t]
  /\ Steps(t, "empty", "take")
  /\ UNCHANGED <<queueVars, bufferVars, ownerVars, qid, index, val, async,
                 historyVars>>

TakeSlot(t) ==
  /\ Steps(t, "take", "retire")
  /\ index' = [index EXCEPT ![t] = tail[qid[t]]]
  /\ val' = [val EXCEPT ![t] = arr[qid[t]][tail[qid[t]]]]
  /\ UNCHANGED <<queueVars, bufferVars, ownerVars, qid, async, historyVars>>

AdvanceTail(t) ==
  /\ tail' = [tail EXCEPT ![qid[t]] = Succ(index[t])]
  /\ received' = [received EXCEPT ![qid[t]] = Append(@, val[t])]
  /\ Returns(t, "retire")
  /\ UNCHANGED <<queueVars, head, arr, ownerVars, sent>>

-----------------------------------------------------------------------------
(* The composite calls.  dec_atomic_fetch_add_async, ..fetch_add_float..,  *)
(* ..fetch_min.. and ..compare_exchange_async open the queue, perform the  *)
(* read-modify-write, produce its result and close.  dec_load32_async and  *)
(* dec_load64_async assert that the caller is already the producer before  *)
(* they open the queue.                                                    *)

dec_atomic_async(t, q) ==
  /\ Calls(t, q, "cas_producer")
  /\ async' = [async EXCEPT ![t] = "atomic"]
  /\ UNCHANGED <<queueVars, bufferVars, ownerVars, index, val, historyVars>>

dec_load_async(t, q) ==
  /\ producer[q] = t
  /\ Calls(t, q, "cas_producer")
  /\ async' = [async EXCEPT ![t] = "load"]
  /\ UNCHANGED <<queueVars, bufferVars, ownerVars, index, val, historyVars>>

(* The read-modify-write, or the load, once the queue is open.  What it    *)
(* returns depends on memory outside the runtime.                          *)
ReadMemory(t, v) ==
  /\ Steps(t, "rmw", "full")
  /\ val' = [val EXCEPT ![t] = v]
  /\ UNCHANGED <<queueVars, bufferVars, ownerVars, qid, index, async,
                 historyVars>>

CloseAfterAsync(t) ==
  /\ producer' = [producer EXCEPT ![qid[t]] = NoThread]
  /\ Returns(t, "close")
  /\ UNCHANGED <<queueVars, bufferVars, consumer, historyVars>>

-----------------------------------------------------------------------------
(* Set-up and tear-down run in serial code, outside every parallel region. *)

Serial == \A t \in Threads : pc[t] = "idle"

(* MUTANT: set-up starts again at the first queue. *)
InitFromFirst(n) ==
  /\ Serial
  /\ count + n <= NumQueues
  /\ head' = [q \in Qids |-> IF q < n THEN 0 ELSE head[q]]
  /\ tail' = [q \in Qids |-> IF q < n THEN 0 ELSE tail[q]]
  /\ producer' = [q \in Qids |-> IF q < n THEN NoThread ELSE producer[q]]
  /\ consumer' = [q \in Qids |-> IF q < n THEN NoThread ELSE consumer[q]]
  /\ count' = count + n
  /\ INITIALIZED' = TRUE
  /\ UNCHANGED <<arr, threadVars, historyVars>>

(* The new queues are appended to DEC_QUEUES, which a second call without  *)
(* a cleanup finds non-empty, while the ownership cells that are reset are *)
(* those of the first n queues.                                            *)
dec_fifo_init(n) ==
  /\ Serial
  /\ count + n <= NumQueues
  /\ LET Fresh(q) == count <= q /\ q < count + n IN
       /\ head' = [q \in Qids |-> IF Fresh(q) THEN 0 ELSE head[q]]
       /\ tail' = [q \in Qids |-> IF Fresh(q) THEN 0 ELSE tail[q]]
       /\ sent' = [q \in Qids |-> IF Fresh(q) THEN <<>> ELSE sent[q]]
       /\ received' = [q \in Qids |-> IF Fresh(q) THEN <<>> ELSE received[q]]
  /\ producer' = [q \in Qids |-> IF q < n THEN NoThread ELSE producer[q]]
  /\ consumer' = [q \in Qids |-> IF q < n THEN NoThread ELSE consumer[q]]
  /\ count' = count + n
  /\ INITIALIZED' = TRUE
  /\ UNCHANGED <<arr, threadVars>>

(* MUTANT: tear-down does not wait for the parallel region to end. *)
CleanupInRegion ==
  /\ INITIALIZED
  /\ INITIALIZED' = FALSE
  /\ count' = 0
  /\ head' = [q \in Qids |-> 0]
  /\ tail' = [q \in Qids |-> 0]
  /\ arr' = [q \in Qids |-> [i \in Slots |-> Junk]]
  /\ sent' = [q \in Qids |-> <<>>]
  /\ received' = [q \in Qids |-> <<>>]
  /\ UNCHANGED <<ownerVars, threadVars>>

(* The vector is emptied.  The ownership cells keep their values. *)
dec_fifo_cleanup ==
  /\ Serial
  /\ INITIALIZED
  /\ INITIALIZED' = FALSE
  /\ count' = 0
  /\ head' = [q \in Qids |-> 0]
  /\ tail' = [q \in Qids |-> 0]
  /\ arr' = [q \in Qids |-> [i \in Slots |-> Junk]]
  /\ sent' = [q \in Qids |-> <<>>]
  /\ received' = [q \in Qids |-> <<>>]
  /\ UNCHANGED <<ownerVars, threadVars>>

-----------------------------------------------------------------------------
ProducerStep(t) ==
  \/ CasProducer(t)
  \/ \E v \in Values : ReadMemory(t, v)
  \/ LeaveFullSpin(t) \/ FillSlot(t) \/ AdvanceHead(t)
  \/ CloseAfterAsync(t)

ConsumerStep(t) ==
  \/ CasConsumer(t)
  \/ LeaveEmptySpin(t) \/ TakeSlot(t) \/ AdvanceTail(t)

Call(t, q) ==
  \/ dec_open_producer(t, q) \/ dec_close_producer(t, q)
  \/ dec_open_consumer(t, q) \/ dec_close_consumer(t, q)
  \/ \E v \in Values : dec_produce(t, q, v)
  \/ dec_consume(t, q)
  \/ dec_atomic_async(t, q) \/ dec_load_async(t, q)

Next ==
  \/ \E t \in Threads : ProducerStep(t) \/ ConsumerStep(t)
  \/ \E t \in Threads, q \in Qids : Call(t, q)
  \/ \E n \in 1 .. NumQueues : dec_fifo_init(n)
  \/ dec_fifo_cleanup

Spec == Init /\ [][Next]_vars

(* A thread inside a call keeps executing; which calls it makes is up to   *)
(* the program.                                                            *)
FairSpec == Spec /\ \A t \in Threads : WF_vars(ProducerStep(t) \/ ConsumerStep(t))

-----------------------------------------------------------------------------
(* Properties *)

TypeOK ==
  /\ INITIALIZED \in BOOLEAN
  /\ count \in 0 .. NumQueues
  /\ head \in [Qids -> Slots]
  /\ tail \in [Qids -> Slots]
  /\ arr \in [Qids -> [Slots -> Values \cup {Junk}]]
  /\ producer \in [Qids -> Nat \cup {NoThread}]
  /\ consumer \in [Qids -> Nat \cup {NoThread}]
  /\ pc \in [Threads -> {"idle", "cas_producer", "rmw", "full", "fill",
                         "publish", "close", "cas_consumer", "empty", "take",
                         "retire"}]
  /\ qid \in [Threads -> Qids]
  /\ index \in [Threads -> Slots]
  /\ val \in [Threads -> Values \cup {Junk}]
  /\ async \in [Threads -> {"none", "atomic", "load"}]
  /\ sent \in [Qids -> Seq(Values)]
  /\ received \in [Qids -> Seq(Values)]

Producing(t) == pc[t] \in {"rmw", "full", "fill", "publish", "close"}
Consuming(t) == pc[t] \in {"empty", "take", "retire"}

(* DEBUG_CHECK, DEBUG_PRODUCER and DEBUG_CONSUMER hold wherever a call has *)
(* passed its opening compare-and-swap or its first assertion: no other    *)
(* thread, and no set-up call, takes the end away from a thread inside.    *)
AssertionsHold ==
  \A t \in Threads :
    /\ pc[t] # "idle" => DebugCheck(qid[t])
    /\ Producing(t) => producer[qid[t]] = t
    /\ Consuming(t) => consumer[qid[t]] = t

(* The spin lock excludes: two threads are never inside the unlocked       *)
(* enqueue, or inside the unlocked dequeue, of the same queue.             *)
OneThreadPerEnd ==
  \A t, u \in Threads :
    t # u /\ qid[t] = qid[u] =>
      /\ ~ (Producing(t) /\ Producing(u))
      /\ ~ (Consuming(t) /\ Consuming(u))

(* Around the ring: the steps from lo up to hi, and the slot i steps on. *)
Distance(lo, hi) == IF lo <= hi THEN hi - lo ELSE hi - lo + VirtualSize
Around(lo, i) == IF lo + i < VirtualSize THEN lo + i ELSE lo + i - VirtualSize

(* The number of values in a queue, and the slot of the i-th oldest. *)
Occupied(q) == Distance(tail[q], head[q])
SlotAt(q, i) == Around(tail[q], i)

(* The producer never touches the slot the consumer is loading: the plain  *)
(* accesses to arr in enqueue and dequeue do not race.                     *)
NoSlotRace ==
  \A t, u \in Threads :
    pc[t] = "fill" /\ pc[u] \in {"take", "retire"} /\ qid[t] = qid[u] =>
      head[qid[t]] # tail[qid[u]]

(* A value that was published and not yet retired keeps its slot: no step  *)
(* but a cleanup overwrites it.                                            *)
UnreadSlotKept ==
  [][INITIALIZED' =>
       \A q \in Qids : q < count =>
         \A i \in 0 .. Occupied(q) - 1 :
           arr'[q][SlotAt(q, i)] = arr[q][SlotAt(q, i)]]_vars

(* What a queue delivered is a prefix of what was put in, whatever threads *)
(* took turns at either end, and the rest is in its slots in order: no     *)
(* value is lost, duplicated, reordered or read before it was written.     *)
InOrder(slots, lo, hi, in, out) ==
  /\ Len(in) = Len(out) + Distance(lo, hi)
  /\ \A i \in 1 .. Len(out) : out[i] = in[i]
  /\ \A i \in 0 .. Distance(lo, hi) - 1 :
       slots[Around(lo, i)] = in[Len(out) + i + 1]

DeliveredInOrder ==
  \A q \in Qids :
    q < count => InOrder(arr[q], tail[q], head[q], sent[q], received[q])

(* The runtime implements the channels it promises. *)
Contents(q) ==
  IF q < count THEN [i \in 1 .. Occupied(q) |-> arr[q][SlotAt(q, i - 1)]]
               ELSE <<>>
Delivered(q) ==
  IF q < count /\ received[q] # <<>> THEN received[q][Len(received[q])]
                                     ELSE Junk
Promise == INSTANCE Channels WITH
  Capacity <- VirtualSize - 1,
  None <- Junk,
  live <- 0 .. count - 1,
  chan <- [q \in Qids |-> Contents(q)],
  delivered <- [q \in Qids |-> Delivered(q)]
ImplementsChannels == Promise!Spec

(* What a thread inside a call knows of its queue, and with it an          *)
(* inductive invariant: what was tested before the spin ended still holds  *)
(* when it is used, because the tested index can move only the good way.   *)
CallKnows(t) ==
  /\ pc[t] \in {"full", "fill", "publish"} => val[t] \in Values
  /\ pc[t] \in {"fill", "publish"} => ~ is_full(qid[t])
  /\ pc[t] = "publish" => /\ index[t] = head[qid[t]]
                          /\ arr[qid[t]][head[qid[t]]] = val[t]
  /\ pc[t] \in {"empty", "take", "retire"} => index[t] = tail[qid[t]]
  /\ pc[t] \in {"take", "retire"} => head[qid[t]] # tail[qid[t]]
  /\ pc[t] = "retire" => val[t] = arr[qid[t]][tail[qid[t]]]

IInv ==
  /\ TypeOK
  /\ AssertionsHold
  /\ \A t \in Threads : CallKnows(t)
  /\ DeliveredInOrder

(* Room, once there, stays there for the thread spinning on a full queue,  *)
(* and so does a value for the thread spinning on an empty one: neither    *)
(* can be overtaken, so each leaves its spin.                              *)
HolderIsServed ==
  \A t \in Threads :
    \/ pc[t] = "full" /\ ~ is_full(qid[t]) /\ Len(sent[qid[t]]) < MaxSent
    \/ pc[t] = "empty" /\ head[qid[t]] # index[t]
    ~> pc[t] \notin {"full", "empty"}

(* What the code says of DEC_DEBUG: "Do some runtime checks, but           *)
(* potentially slows things down a bit."  So a thread that passes the      *)
(* checks of dec_load32_async or dec_load64_async comes back from it.      *)
LoadAsyncReturns ==
  \A t \in Threads : async[t] = "load" ~> async[t] = "none"
=============================================================================
