---------------------------- MODULE ShmemProofs ----------------------------
(***************************************************************************)
(* Proofs about ShmemDecoupling for any threads, queues, buffer size and   *)
(* values: the ring arithmetic first, then the inductive invariant, action *)
(* by action, then what follows from it; at the end, that unread slots are *)
(* kept and that the runtime implements Channels.                          *)
(***************************************************************************)
EXTENDS ShmemDecoupling, SequenceTheorems, TLAPS

(* One step around the ring, without the remainder. *)
LEMMA SuccWraps ==
  ASSUME NEW i \in Slots
  PROVE  /\ Succ(i) = IF i + 1 = VirtualSize THEN 0 ELSE i + 1
         /\ Succ(i) \in Slots
  <1>1. VirtualSize \in Nat /\ VirtualSize > 1 /\ i \in Nat /\ i < VirtualSize
    BY ShmemAssumption DEF Slots
  <1>2. CASE i + 1 = VirtualSize
    <2>1. VirtualSize % VirtualSize = 0
      BY <1>1
    <2> QED  BY <1>1, <1>2, <2>1 DEF Succ, Slots
  <1>3. CASE i + 1 # VirtualSize
    <2>1. (i + 1) % VirtualSize = i + 1
      BY <1>1, <1>3
    <2> QED  BY <1>1, <1>3, <2>1 DEF Succ, Slots
  <1> QED  BY <1>2, <1>3

(* Two slots with the same successor are the same slot. *)
LEMMA SuccInjective ==
  ASSUME NEW i \in Slots, NEW j \in Slots, Succ(i) = Succ(j)
  PROVE  i = j
  BY SuccWraps, ShmemAssumption DEF Slots

(* Counting the occupied slots: a full buffer leaves one slot free, an     *)
(* empty one has equal indices, and the slot after the last occupied one   *)
(* is the head.                                                            *)
LEMMA RingDistance ==
  ASSUME NEW lo \in Slots, NEW hi \in Slots
  PROVE  /\ Distance(lo, hi) \in 0 .. VirtualSize - 1
         /\ Around(lo, Distance(lo, hi)) = hi
         /\ Distance(lo, hi) = 0 <=> lo = hi
         /\ Distance(lo, hi) = VirtualSize - 1 <=> lo = Succ(hi)
  BY SuccWraps, ShmemAssumption DEF Distance, Around, Slots

(* Different offsets are different slots. *)
LEMMA RingOffsets ==
  ASSUME NEW lo \in Slots,
         NEW i \in 0 .. VirtualSize - 1, NEW j \in 0 .. VirtualSize - 1
  PROVE  /\ Around(lo, i) \in Slots
         /\ Around(lo, i) = Around(lo, j) => i = j
  BY ShmemAssumption DEF Around, Slots

(* Filling the slot at the head adds one at the far end. *)
LEMMA RingGrows ==
  ASSUME NEW lo \in Slots, NEW hi \in Slots, lo # Succ(hi)
  PROVE  Distance(lo, Succ(hi)) = Distance(lo, hi) + 1
  BY SuccWraps, ShmemAssumption DEF Distance, Slots

(* Retiring the slot at the tail moves every other one a place forward. *)
LEMMA RingShrinks ==
  ASSUME NEW lo \in Slots, NEW hi \in Slots, lo # hi
  PROVE  /\ Distance(Succ(lo), hi) = Distance(lo, hi) - 1
         /\ \A i \in 0 .. VirtualSize - 2 :
              Around(Succ(lo), i) = Around(lo, i + 1)
  BY SuccWraps, ShmemAssumption DEF Distance, Around, Slots

-----------------------------------------------------------------------------
(* What each of the three writes to a buffer does to the values in it.     *)

(* The slot at the head is not an occupied one. *)
LEMMA FillKeepsOrder ==
  ASSUME NEW slots \in [Slots -> Values \cup {Junk}],
         NEW lo \in Slots, NEW hi \in Slots, NEW v,
         NEW in, NEW out, InOrder(slots, lo, hi, in, out)
  PROVE  InOrder([slots EXCEPT ![hi] = v], lo, hi, in, out)
  <1>1. \A i \in 0 .. Distance(lo, hi) - 1 :
          /\ i \in 0 .. VirtualSize - 1
          /\ i # Distance(lo, hi)
    BY RingDistance, ShmemAssumption
  <1>2. \A i \in 0 .. Distance(lo, hi) - 1 :
          Around(lo, i) \in Slots /\ Around(lo, i) # hi
    BY <1>1, RingDistance, RingOffsets
  <1> QED  BY <1>2 DEF InOrder

(* Once the head is advanced the slot filled last is the newest one. *)
LEMMA PublishKeepsOrder ==
  ASSUME NEW slots, NEW lo \in Slots, NEW hi \in Slots, lo # Succ(hi),
         NEW in \in Seq(Values), NEW out \in Seq(Values), slots[hi] \in Values,
         InOrder(slots, lo, hi, in, out)
  PROVE  InOrder(slots, lo, Succ(hi), Append(in, slots[hi]), out)
  <1> DEFINE n == Distance(lo, hi)
             more == Append(in, slots[hi])
  <1>1. /\ n \in Nat /\ Len(out) \in Nat /\ Len(in) \in Nat
        /\ Distance(lo, Succ(hi)) = n + 1
        /\ Around(lo, n) = hi
    BY RingDistance, RingGrows, ShmemAssumption
  <1>2. /\ Len(in) = Len(out) + n
        /\ \A i \in 1 .. Len(out) : out[i] = in[i]
        /\ \A i \in 0 .. n - 1 : slots[Around(lo, i)] = in[Len(out) + i + 1]
    BY DEF InOrder
  <1>3. /\ Len(more) = Len(in) + 1
        /\ \A i \in 1 .. Len(in) : more[i] = in[i]
        /\ more[Len(in) + 1] = slots[hi]
    OBVIOUS
  <1> HIDE DEF n, more
  <1>4. \A i \in 0 .. n : slots[Around(lo, i)] = more[Len(out) + i + 1]
    <2>1. \A i \in 0 .. n - 1 : slots[Around(lo, i)] = more[Len(out) + i + 1]
      BY <1>1, <1>2, <1>3
    <2>2. slots[Around(lo, n)] = more[Len(out) + n + 1]
      BY <1>1, <1>2, <1>3
    <2> QED  BY <1>1, <2>1, <2>2
  <1>5. \A i \in 1 .. Len(out) : out[i] = more[i]
    BY <1>1, <1>2, <1>3
  <1>6. InOrder(slots, lo, Succ(hi), more, out)
    BY <1>1, <1>2, <1>3, <1>4, <1>5 DEF InOrder
  <1> QED  BY <1>6 DEF more

(* Once the tail is advanced the oldest value is the last one delivered. *)
LEMMA RetireKeepsOrder ==
  ASSUME NEW slots, NEW lo \in Slots, NEW hi \in Slots, lo # hi,
         NEW in \in Seq(Values), NEW out \in Seq(Values),
         InOrder(slots, lo, hi, in, out)
  PROVE  /\ slots[lo] \in Values
         /\ InOrder(slots, Succ(lo), hi, in, Append(out, slots[lo]))
  <1> DEFINE n == Distance(lo, hi)
             more == Append(out, slots[lo])
  <1>1. /\ n \in 1 .. VirtualSize - 1 /\ Len(out) \in Nat /\ Len(in) \in Nat
        /\ VirtualSize \in Nat
        /\ Distance(Succ(lo), hi) = n - 1
        /\ \A i \in 0 .. VirtualSize - 2 : Around(Succ(lo), i) = Around(lo, i + 1)
    BY RingDistance, RingShrinks, ShmemAssumption
  <1>2. Around(lo, 0) = lo
    BY ShmemAssumption DEF Around, Slots
  <1>3. /\ Len(in) = Len(out) + n
        /\ \A i \in 1 .. Len(out) : out[i] = in[i]
        /\ \A i \in 0 .. n - 1 : slots[Around(lo, i)] = in[Len(out) + i + 1]
    BY DEF InOrder
  <1>4. slots[lo] = in[Len(out) + 1] /\ slots[lo] \in Values
    <2>1. 0 \in 0 .. n - 1 /\ Len(out) + 0 + 1 = Len(out) + 1 /\ Len(out) + 1 \in 1 .. Len(in)
      BY <1>1, <1>3
    <2>2. slots[Around(lo, 0)] = in[Len(out) + 0 + 1]
      BY <1>3, <2>1
    <2>3. in[Len(out) + 1] \in Values
      BY <2>1
    <2> QED  BY <1>2, <2>1, <2>2, <2>3
  <1>5. /\ Len(more) = Len(out) + 1
        /\ \A i \in 1 .. Len(out) : more[i] = out[i]
        /\ more[Len(out) + 1] = slots[lo]
    BY <1>4
  <1> HIDE DEF n, more
  <1>6. \A i \in 1 .. Len(more) : more[i] = in[i]
    <2> SUFFICES ASSUME NEW i \in 1 .. Len(out) + 1 PROVE more[i] = in[i]
      BY <1>5
    <2>1. CASE i = Len(out) + 1
      BY <1>4, <1>5, <2>1
    <2>2. CASE i # Len(out) + 1
      <3>1. i \in 1 .. Len(out)
        BY <1>1, <2>2
      <3> QED  BY <1>3, <1>5, <3>1
    <2> QED  BY <2>1, <2>2
  <1>7. \A i \in 0 .. n - 2 : slots[Around(Succ(lo), i)] = in[Len(more) + i + 1]
    BY <1>1, <1>3, <1>5
  <1>8. InOrder(slots, Succ(lo), hi, in, more)
    <2>1. Len(in) = Len(more) + (n - 1) /\ (n - 1) - 1 = n - 2
      BY <1>1, <1>3, <1>5
    <2> QED  BY <1>1, <1>6, <1>7, <2>1 DEF InOrder
  <1> QED  BY <1>4, <1>8 DEF more

-----------------------------------------------------------------------------
(* The fewer things an action touches, the less of the invariant there is  *)
(* to show.                                                                *)

(* A function updated at a point with a value of its range keeps its type. *)
LEMMA Updated ==
  ASSUME NEW A, NEW B, NEW f \in [A -> B], NEW x, NEW v \in B
  PROVE  [f EXCEPT ![x] = v] \in [A -> B]
  OBVIOUS

(* The free value of an ownership cell is no thread number. *)
LEMMA NegativeOne == NoThread \notin Nat
  BY DEF NoThread

(* Actions that leave the buffers alone keep what they hold. *)
LEMMA BuffersKept ==
  ASSUME DeliveredInOrder, UNCHANGED <<queueVars, bufferVars, historyVars>>
  PROVE  DeliveredInOrder'
  BY DEF DeliveredInOrder, queueVars, bufferVars, historyVars

(* The invariant holds before dec_fifo_init. *)
LEMMA InitHolds == Init => IInv
  <1> SUFFICES ASSUME Init PROVE IInv
    OBVIOUS
  <1>1. TypeOK
    <2>1. 0 \in Qids /\ 0 \in Slots
      BY ShmemAssumption DEF Qids, Slots
    <2>2. <<>> \in Seq(Values)
      OBVIOUS
    <2>3. /\ count \in 0 .. NumQueues
          /\ producer \in [Qids -> Nat \cup {NoThread}]
          /\ consumer \in [Qids -> Nat \cup {NoThread}]
      BY ShmemAssumption DEF Init
    <2> QED  BY <2>1, <2>2, <2>3 DEF Init, TypeOK
  <1>2. AssertionsHold /\ DeliveredInOrder
    BY DEF Init, AssertionsHold, Producing, Consuming, DeliveredInOrder, Qids
  <1>3. \A t \in Threads : CallKnows(t)
    BY DEF Init, CallKnows
  <1> QED  BY <1>1, <1>2, <1>3 DEF IInv

(* A call that only starts to spin for an end of a queue. *)
LEMMA OpenStep ==
  ASSUME IInv, NEW t \in Threads, NEW q \in Qids,
         \/ dec_open_producer(t, q) \/ dec_open_consumer(t, q)
         \/ dec_atomic_async(t, q) \/ dec_load_async(t, q)
  PROVE  IInv'
  <1>1. PICK label \in {"cas_producer", "cas_consumer"} :
          /\ pc[t] = "idle" /\ DebugCheck(q)
          /\ pc' = [pc EXCEPT ![t] = label]
          /\ qid' = [qid EXCEPT ![t] = q]
    BY DEF dec_open_producer, dec_open_consumer, dec_atomic_async,
           dec_load_async, Calls
  <1>2. /\ UNCHANGED <<queueVars, bufferVars, ownerVars, index, val, historyVars>>
        /\ async' \in {async, [async EXCEPT ![t] = "atomic"],
                              [async EXCEPT ![t] = "load"]}
    BY DEF dec_open_producer, dec_open_consumer, dec_atomic_async,
           dec_load_async
  <1>3. TypeOK'
    BY <1>1, <1>2 DEF IInv, TypeOK, queueVars, bufferVars, ownerVars, historyVars
  <1>4. AssertionsHold'
    BY <1>1, <1>2 DEF IInv, AssertionsHold, DebugCheck, Producing, Consuming,
       TypeOK, queueVars, ownerVars
  <1>5. \A u \in Threads : CallKnows(u)'
    BY <1>1, <1>2 DEF IInv, CallKnows, TypeOK, is_full, bufferVars
  <1>6. DeliveredInOrder'
    BY <1>2, BuffersKept DEF IInv
  <1> QED  BY <1>3, <1>4, <1>5, <1>6 DEF IInv

(* Winning the compare-and-swap: whoever was inside held the end, so an    *)
(* end that is free has nobody inside.                                     *)
LEMMA CasStep ==
  ASSUME IInv, NEW t \in Threads, CasProducer(t) \/ CasConsumer(t)
  PROVE  IInv'
  <1>1. /\ UNCHANGED <<queueVars, bufferVars, historyVars>>
        /\ pc[t] \in {"cas_producer", "cas_consumer"}
        /\ \/ /\ CasProducer(t)
              /\ pc' \in {[pc EXCEPT ![t] = "rmw"], [pc EXCEPT ![t] = "idle"]}
              /\ producer[qid[t]] = NoThread
              /\ producer' = [producer EXCEPT ![qid[t]] = t]
              /\ pc'[t] = "rmw" => UNCHANGED <<qid, index, val, async>>
              /\ UNCHANGED consumer
           \/ /\ CasConsumer(t)
              /\ pc' = [pc EXCEPT ![t] = "idle"]
              /\ consumer[qid[t]] = NoThread
              /\ consumer' = [consumer EXCEPT ![qid[t]] = t]
              /\ UNCHANGED producer
    BY DEF CasProducer, CasConsumer, Steps, Returns, IInv, TypeOK
  <1>2. /\ qid' \in {qid, [qid EXCEPT ![t] = 0]}
        /\ index' \in {index, [index EXCEPT ![t] = 0]}
        /\ val' \in {val, [val EXCEPT ![t] = Junk]}
        /\ async' \in {async, [async EXCEPT ![t] = "none"]}
        /\ pc'[t] = "idle" \/ UNCHANGED <<qid, index, val, async>>
    BY DEF CasProducer, CasConsumer, Steps, Returns, IInv, TypeOK
  <1>3. 0 \in Qids /\ 0 \in Slots /\ t \in Nat
    BY ShmemAssumption DEF Qids, Slots
  <1>4. TypeOK'
    <2>1. qid' \in [Threads -> Qids]
      BY <1>1, <1>2, <1>3, Updated DEF IInv, TypeOK
    <2>6. index' \in [Threads -> Slots]
      BY <1>1, <1>2, <1>3, Updated DEF IInv, TypeOK
    <2>4. val' \in [Threads -> Values \cup {Junk}]
      BY <1>1, <1>2, Updated DEF IInv, TypeOK
    <2>5. async' \in [Threads -> {"none", "atomic", "load"}]
      BY <1>1, <1>2, Updated DEF IInv, TypeOK
    <2>8. /\ producer' \in {producer, [producer EXCEPT ![qid[t]] = t]}
          /\ consumer' \in {consumer, [consumer EXCEPT ![qid[t]] = t]}
      BY <1>1
    <2>9. t \in Nat \cup {NoThread}
      BY <1>3
    <2>2. producer' \in [Qids -> Nat \cup {NoThread}]
      BY <2>8, <2>9 DEF IInv, TypeOK
    <2>7. consumer' \in [Qids -> Nat \cup {NoThread}]
      BY <2>8, <2>9 DEF IInv, TypeOK
    <2>3. pc' \in [Threads -> {"idle", "cas_producer", "rmw", "full", "fill",
                              "publish", "close", "cas_consumer", "empty",
                              "take", "retire"}]
      BY <1>1, ZenonT(40) DEF IInv, TypeOK
    <2> QED  BY <1>1, <2>1, <2>2, <2>3, <2>4, <2>5, <2>6, <2>7, ZenonT(40)
         DEF IInv, TypeOK, queueVars, bufferVars, historyVars
  <1>5. AssertionsHold'
    <2>1. \A u \in Threads : u \in Nat /\ u # NoThread
      BY ShmemAssumption, NegativeOne
    <2>2. \A u \in Threads : u # t => pc'[u] = pc[u] /\ qid'[u] = qid[u]
      BY <1>1, <1>2 DEF IInv, TypeOK
    <2> SUFFICES ASSUME NEW u \in Threads
                 PROVE  /\ pc'[u] # "idle" => DebugCheck(qid[u])'
                        /\ Producing(u)' => producer'[qid'[u]] = u
                        /\ Consuming(u)' => consumer'[qid'[u]] = u
      BY DEF AssertionsHold
    <2>3. CASE u # t
      BY <1>1, <2>1, <2>2, <2>3 DEF IInv, AssertionsHold, DebugCheck,
         Producing, Consuming, TypeOK, queueVars
    <2>4. CASE u = t
      BY <1>1, <1>2, <2>4 DEF IInv, AssertionsHold, DebugCheck, Producing,
         Consuming, TypeOK, queueVars
    <2> QED  BY <2>3, <2>4
  <1>6. \A u \in Threads : CallKnows(u)'
    BY <1>1, <1>2 DEF IInv, CallKnows, TypeOK, is_full, bufferVars
  <1>7. DeliveredInOrder'
    BY <1>1, BuffersKept DEF IInv
  <1> QED  BY <1>4, <1>5, <1>6, <1>7 DEF IInv

(* Giving an end back, by a call of its own or at the end of a composite:  *)
(* only the holder does, and it is not inside an enqueue or a dequeue.     *)
LEMMA CloseStep ==
  ASSUME IInv, NEW t \in Threads, NEW q \in Qids,
         \/ dec_close_producer(t, q) \/ dec_close_consumer(t, q)
         \/ CloseAfterAsync(t)
  PROVE  IInv'
  <1>1. /\ UNCHANGED <<queueVars, bufferVars, historyVars>>
        /\ pc[t] \in {"idle", "close"}
        /\ pc' = [pc EXCEPT ![t] = "idle"]
        /\ qid' \in {qid, [qid EXCEPT ![t] = 0]}
        /\ index' \in {index, [index EXCEPT ![t] = 0]}
        /\ val' \in {val, [val EXCEPT ![t] = Junk]}
        /\ async' \in {async, [async EXCEPT ![t] = "none"]}
    BY DEF dec_close_producer, dec_close_consumer, CloseAfterAsync, Steps,
           Returns, threadVars, IInv, TypeOK
  <1>2. PICK r \in Qids :
          \/ /\ producer[r] = t
             /\ producer' = [producer EXCEPT ![r] = NoThread]
             /\ UNCHANGED consumer
          \/ /\ consumer[r] = t
             /\ consumer' = [consumer EXCEPT ![r] = NoThread]
             /\ UNCHANGED producer
    BY DEF dec_close_producer, dec_close_consumer, CloseAfterAsync, Steps,
           Returns, IInv, TypeOK, AssertionsHold, Producing
  <1>3. 0 \in Qids /\ 0 \in Slots
    BY ShmemAssumption DEF Qids, Slots
  <1>4. TypeOK'
    <2>1. qid' \in [Threads -> Qids]
      BY <1>1, <1>2, <1>3, Updated DEF IInv, TypeOK
    <2>6. index' \in [Threads -> Slots]
      BY <1>1, <1>2, <1>3, Updated DEF IInv, TypeOK
    <2>4. val' \in [Threads -> Values \cup {Junk}]
      BY <1>1, <1>2, Updated DEF IInv, TypeOK
    <2>5. async' \in [Threads -> {"none", "atomic", "load"}]
      BY <1>1, <1>2, Updated DEF IInv, TypeOK
    <2>2. producer' \in [Qids -> Nat \cup {NoThread}]
      BY <1>1, <1>2, <1>3, Updated DEF IInv, TypeOK
    <2>7. consumer' \in [Qids -> Nat \cup {NoThread}]
      BY <1>1, <1>2, <1>3, Updated DEF IInv, TypeOK
    <2>3. pc' \in [Threads -> {"idle", "cas_producer", "rmw", "full", "fill",
                              "publish", "close", "cas_consumer", "empty",
                              "take", "retire"}]
      BY <1>1 DEF IInv, TypeOK
    <2> QED  BY <1>1, <2>1, <2>2, <2>3, <2>4, <2>5, <2>6, <2>7
         DEF IInv, TypeOK, queueVars, bufferVars, historyVars
  <1>5. \A u \in Threads : u # t => pc'[u] = pc[u] /\ qid'[u] = qid[u]
    BY <1>1 DEF IInv, TypeOK
  <1>6. AssertionsHold'
    BY <1>1, <1>2, <1>5 DEF IInv, AssertionsHold, DebugCheck, Producing,
       Consuming, TypeOK, queueVars
  <1>7. \A u \in Threads : CallKnows(u)'
    BY <1>1 DEF IInv, CallKnows, TypeOK, is_full, bufferVars
  <1>8. DeliveredInOrder'
    BY <1>1, BuffersKept DEF IInv
  <1> QED  BY <1>4, <1>6, <1>7, <1>8 DEF IInv

(* Steps of an enqueue or a dequeue that write nothing others read. *)
LEMMA LocalStep ==
  ASSUME IInv, NEW t \in Threads, NEW q \in Qids, NEW v,
         \/ v \in Values /\ (dec_produce(t, q, v) \/ ReadMemory(t, v))
         \/ dec_consume(t, q)
         \/ LeaveFullSpin(t) \/ LeaveEmptySpin(t) \/ TakeSlot(t)
  PROVE  IInv'
  <1>1. UNCHANGED <<queueVars, bufferVars, ownerVars, async, historyVars>>
    BY DEF dec_produce, dec_consume, ReadMemory, LeaveFullSpin,
           LeaveEmptySpin, TakeSlot
  <1>2. DeliveredInOrder'
    BY <1>1, BuffersKept DEF IInv
  <1>3. \A u \in Threads :
          u # t => pc'[u] = pc[u] /\ qid'[u] = qid[u] /\ index'[u] = index[u]
                   /\ val'[u] = val[u]
    BY DEF dec_produce, dec_consume, ReadMemory, LeaveFullSpin,
           LeaveEmptySpin, TakeSlot, Calls, Steps, IInv, TypeOK
  <1>4. SUFFICES /\ TypeOK'
                 /\ pc'[t] # "idle" => DebugCheck(qid[t])'
                 /\ Producing(t)' => producer'[qid'[t]] = t
                 /\ Consuming(t)' => consumer'[qid'[t]] = t
                 /\ CallKnows(t)'
    <2>1. \A u \in Threads : u # t =>
            /\ pc'[u] # "idle" => DebugCheck(qid[u])'
            /\ Producing(u)' => producer'[qid'[u]] = u
            /\ Consuming(u)' => consumer'[qid'[u]] = u
            /\ CallKnows(u)'
      BY <1>1, <1>3 DEF IInv, AssertionsHold, DebugCheck, Producing, Consuming,
         CallKnows, is_full, queueVars, ownerVars, bufferVars
    <2> QED  BY <1>2, <2>1 DEF IInv, AssertionsHold
  <1>5. CASE v \in Values /\ dec_produce(t, q, v)
    BY <1>1, <1>5 DEF dec_produce, Calls, IInv, TypeOK, CallKnows, DebugCheck,
       Producing, Consuming, queueVars, ownerVars, bufferVars, historyVars
  <1>6. CASE dec_consume(t, q)
    BY <1>1, <1>6 DEF dec_consume, Calls, IInv, TypeOK, CallKnows, DebugCheck,
       Producing, Consuming, queueVars, ownerVars, bufferVars, historyVars
  <1>7. CASE v \in Values /\ ReadMemory(t, v)
    BY <1>1, <1>7 DEF ReadMemory, Steps, IInv, TypeOK, CallKnows, DebugCheck,
       Producing, Consuming, AssertionsHold, queueVars, ownerVars, bufferVars,
       historyVars
  <1>8. CASE LeaveFullSpin(t)
    BY <1>1, <1>8 DEF LeaveFullSpin, Steps, IInv, TypeOK, CallKnows, DebugCheck,
       Producing, Consuming, AssertionsHold, is_full, queueVars, ownerVars,
       bufferVars, historyVars
  <1>9. CASE LeaveEmptySpin(t)
    BY <1>1, <1>9 DEF LeaveEmptySpin, Steps, IInv, TypeOK, CallKnows,
       DebugCheck, Producing, Consuming, AssertionsHold, queueVars, ownerVars,
       bufferVars, historyVars
  <1>10. CASE TakeSlot(t)
    BY <1>1, <1>10 DEF TakeSlot, Steps, IInv, TypeOK, CallKnows, DebugCheck,
       Producing, Consuming, AssertionsHold, queueVars, ownerVars, bufferVars,
       historyVars
  <1> QED  BY <1>5, <1>6, <1>7, <1>8, <1>9, <1>10

(* Filling the slot at the head of a queue that is not full changes        *)
(* nothing that was published or is being taken.                           *)
LEMMA FillStep ==
  ASSUME IInv, NEW t \in Threads, FillSlot(t)
  PROVE  IInv'
  <1>1. PICK q \in Qids : q = qid[t]
    BY DEF IInv, TypeOK
  <1>2. /\ head[q] \in Slots /\ tail[q] \in Slots
        /\ arr[q] \in [Slots -> Values \cup {Junk}]
        /\ pc[t] = "fill" /\ val[t] \in Values /\ ~ is_full(q)
        /\ producer[q] = t
    BY <1>1 DEF FillSlot, Steps, IInv, TypeOK, CallKnows, AssertionsHold, Producing
  <1>3. /\ UNCHANGED <<queueVars, head, tail, ownerVars, qid, val, async,
                       historyVars>>
        /\ pc' = [pc EXCEPT ![t] = "publish"]
        /\ index' = [index EXCEPT ![t] = head[q]]
        /\ arr' = [arr EXCEPT ![q] = [arr[q] EXCEPT ![head[q]] = val[t]]]
    BY <1>1 DEF FillSlot, Steps, IInv, TypeOK
  <1>4. TypeOK'
    BY <1>2, <1>3 DEF IInv, TypeOK, queueVars, ownerVars, historyVars
  <1>5. AssertionsHold'
    BY <1>1, <1>2, <1>3 DEF IInv, TypeOK, AssertionsHold, DebugCheck, Producing,
       Consuming, queueVars, ownerVars
  <1>6. \A u \in Threads : CallKnows(u)'
    <2>1. ASSUME NEW u \in Threads, u # t
          PROVE  CallKnows(u)'
      <3>1. /\ pc'[u] = pc[u] /\ index'[u] = index[u]
            /\ pc[u] \in {"fill", "publish"} => qid[u] # q
        BY <1>2, <1>3, <2>1 DEF IInv, TypeOK, AssertionsHold, Producing
      <3>2. \A r \in Qids, i \in Slots :
              r # q \/ i # head[q] => arr'[r][i] = arr[r][i]
        BY <1>2, <1>3 DEF IInv, TypeOK
      <3>3. qid[u] \in Qids /\ head[qid[u]] \in Slots /\ tail[qid[u]] \in Slots
        BY DEF IInv, TypeOK
      <3>4. pc[u] = "publish" => arr'[qid[u]][head[qid[u]]] = arr[qid[u]][head[qid[u]]]
        BY <3>1, <3>2, <3>3
      <3>5. pc[u] = "retire" => arr'[qid[u]][tail[qid[u]]] = arr[qid[u]][tail[qid[u]]]
        BY <3>2, <3>3 DEF IInv, CallKnows
      <3> QED  BY <1>3, <3>1, <3>4, <3>5 DEF IInv, CallKnows, is_full
    <2>2. CallKnows(t)'
      BY <1>1, <1>2, <1>3 DEF IInv, TypeOK, CallKnows, is_full
    <2> QED  BY <2>1, <2>2
  <1>7. DeliveredInOrder'
    <2>1. ASSUME NEW r \in Qids, r < count
          PROVE  InOrder(arr'[r], tail[r], head[r], sent[r], received[r])
      <3>1. InOrder(arr[r], tail[r], head[r], sent[r], received[r])
        BY <2>1 DEF IInv, DeliveredInOrder
      <3>2. CASE r = q
        <4>1. arr'[q] = [arr[q] EXCEPT ![head[q]] = val[t]]
          BY <1>3 DEF IInv, TypeOK
        <4>2. InOrder(arr[q], tail[q], head[q], sent[q], received[q])
          BY <3>1, <3>2
        <4>3. InOrder([arr[q] EXCEPT ![head[q]] = val[t]],
                      tail[q], head[q], sent[q], received[q])
          BY <1>2, <4>2, FillKeepsOrder
        <4> QED  BY <3>2, <4>1, <4>3
      <3>3. CASE r # q
        <4>1. arr'[r] = arr[r]
          BY <1>3, <3>3 DEF IInv, TypeOK
        <4> QED  BY <3>1, <4>1
      <3> QED  BY <3>2, <3>3
    <2> QED  BY <1>3, <2>1 DEF DeliveredInOrder, queueVars, historyVars
  <1> QED  BY <1>4, <1>5, <1>6, <1>7 DEF IInv

(* What the two steps that advance an index have in common for the thread. *)
Leaves(t, label) ==
  \/ /\ pc' = [pc EXCEPT ![t] = label]
     /\ UNCHANGED <<qid, index, val, async>>
  \/ Returns(t, pc[t])

(* Such a step keeps the types of the thread's own variables. *)
LEMMA LeavesType ==
  ASSUME IInv, NEW t \in Threads, NEW label \in {"close"}, Leaves(t, label)
  PROVE  /\ pc' \in [Threads -> {"idle", "cas_producer", "rmw", "full", "fill",
                                 "publish", "close", "cas_consumer", "empty",
                                 "take", "retire"}]
         /\ qid' \in [Threads -> Qids]
         /\ index' \in [Threads -> Slots]
         /\ val' \in [Threads -> Values \cup {Junk}]
         /\ async' \in [Threads -> {"none", "atomic", "load"}]
         /\ \A u \in Threads : u # t =>
              /\ pc'[u] = pc[u] /\ qid'[u] = qid[u]
              /\ index'[u] = index[u] /\ val'[u] = val[u]
         /\ \/ pc'[t] = "idle"
            \/ pc'[t] = label /\ qid'[t] = qid[t]
  <1>1. 0 \in Qids /\ 0 \in Slots
    BY ShmemAssumption DEF Qids, Slots
  <1>2. CASE Returns(t, pc[t])
    BY <1>1, <1>2 DEF Returns, Steps, IInv, TypeOK
  <1>3. CASE ~ Returns(t, pc[t])
    BY <1>3 DEF Leaves, IInv, TypeOK
  <1> QED  BY <1>2, <1>3

(* Advancing the head publishes exactly the value in the slot just filled. *)
LEMMA PublishStep ==
  ASSUME IInv, NEW t \in Threads, AdvanceHead(t)
  PROVE  IInv'
  <1>1. PICK q \in Qids : q = qid[t]
    BY DEF IInv, TypeOK
  <1>2. /\ head[q] \in Slots /\ tail[q] \in Slots
        /\ pc[t] = "publish" /\ val[t] \in Values /\ ~ is_full(q)
        /\ index[t] = head[q] /\ arr[q][head[q]] = val[t]
        /\ producer[q] = t /\ DebugCheck(q)
    BY <1>1 DEF AdvanceHead, Steps, Returns, IInv, TypeOK, CallKnows,
       AssertionsHold, Producing
  <1>3. /\ UNCHANGED <<queueVars, tail, arr, ownerVars, received>>
        /\ head' = [head EXCEPT ![q] = Succ(head[q])]
        /\ sent' = [sent EXCEPT ![q] = Append(sent[q], val[t])]
    BY <1>1, <1>2 DEF AdvanceHead
  <1>4. Leaves(t, "close")
    BY <1>2 DEF AdvanceHead, Steps, Returns, Leaves
  <1>5. Succ(head[q]) \in Slots
    BY <1>2, SuccWraps
  <1>6. TypeOK'
    <2>1. sent' \in [Qids -> Seq(Values)]
      BY <1>2, <1>3 DEF IInv, TypeOK
    <2>2. head' \in [Qids -> Slots]
      BY <1>3, <1>5 DEF IInv, TypeOK
    <2> QED  BY <1>3, <1>4, LeavesType, <2>1, <2>2 DEF IInv, TypeOK, queueVars,
                ownerVars
  <1>7. \A u \in Threads : u # t =>
          /\ pc'[u] = pc[u] /\ qid'[u] = qid[u]
          /\ index'[u] = index[u] /\ val'[u] = val[u]
    BY <1>4, LeavesType
  <1>8. pc'[t] = "idle" \/ (pc'[t] = "close" /\ qid'[t] = q)
    <2>1. Leaves(t, "close") => \/ pc' = [pc EXCEPT ![t] = "close"] /\ qid' = qid
                                \/ pc' = [pc EXCEPT ![t] = "idle"]
      BY DEF Leaves, Returns, Steps
    <2> QED  BY <1>1, <1>4, <2>1 DEF IInv, TypeOK
  <1>9. AssertionsHold'
    BY <1>2, <1>3, <1>7, <1>8 DEF IInv, AssertionsHold, DebugCheck, Producing,
       Consuming, queueVars, ownerVars
  <1>10. \A u \in Threads : CallKnows(u)'
    <2>1. ASSUME NEW u \in Threads, u # t
          PROVE  CallKnows(u)'
      <3>1. pc[u] \in {"fill", "publish"} => head'[qid[u]] = head[qid[u]]
        BY <1>2, <1>3, <2>1 DEF IInv, TypeOK, AssertionsHold, Producing
      <3>2. pc[u] \in {"take", "retire"} => head'[qid[u]] # tail[qid[u]]
        BY <1>2, <1>3 DEF IInv, TypeOK, CallKnows, is_full
      <3> QED  BY <1>3, <1>7, <2>1, <3>1, <3>2 DEF IInv, CallKnows, is_full
    <2>2. CallKnows(t)'
      BY <1>8 DEF CallKnows
    <2> QED  BY <2>1, <2>2
  <1>11. DeliveredInOrder'
    <2>1. ASSUME NEW r \in Qids, r < count
          PROVE  InOrder(arr[r], tail[r], head'[r], sent'[r], received[r])
      <3>1. InOrder(arr[r], tail[r], head[r], sent[r], received[r])
        BY <2>1 DEF IInv, DeliveredInOrder
      <3>2. CASE r = q
        <4>1. /\ head'[q] = Succ(head[q]) /\ sent'[q] = Append(sent[q], arr[q][head[q]])
              /\ sent[q] \in Seq(Values) /\ received[q] \in Seq(Values)
          BY <1>2, <1>3 DEF IInv, TypeOK
        <4>2. tail[q] # Succ(head[q])
          BY <1>2 DEF is_full
        <4> QED  BY <1>2, <3>1, <3>2, <4>1, <4>2, PublishKeepsOrder
      <3>3. CASE r # q
        <4>1. head'[r] = head[r] /\ sent'[r] = sent[r]
          BY <1>3, <3>3 DEF IInv, TypeOK
        <4> QED  BY <3>1, <4>1
      <3> QED  BY <3>2, <3>3
    <2> QED  BY <1>3, <2>1 DEF DeliveredInOrder, queueVars
  <1> QED  BY <1>6, <1>9, <1>10, <1>11 DEF IInv

(* Advancing the tail delivers exactly the oldest value. *)
LEMMA RetireStep ==
  ASSUME IInv, NEW t \in Threads, AdvanceTail(t)
  PROVE  IInv'
  <1>1. PICK q \in Qids : q = qid[t]
    BY DEF IInv, TypeOK
  <1>2. /\ head[q] \in Slots /\ tail[q] \in Slots /\ head[q] # tail[q]
        /\ pc[t] = "retire" /\ index[t] = tail[q] /\ val[t] = arr[q][tail[q]]
        /\ consumer[q] = t /\ DebugCheck(q)
    BY <1>1 DEF AdvanceTail, Steps, Returns, IInv, TypeOK, CallKnows,
       AssertionsHold, Consuming
  <1>3. /\ UNCHANGED <<queueVars, head, arr, ownerVars, sent>>
        /\ tail' = [tail EXCEPT ![q] = Succ(tail[q])]
        /\ received' = [received EXCEPT ![q] = Append(received[q], arr[q][tail[q]])]
    BY <1>1, <1>2 DEF AdvanceTail
  <1>4. Leaves(t, "close") /\ pc'[t] = "idle"
    BY <1>2 DEF AdvanceTail, Steps, Returns, Leaves, IInv, TypeOK
  <1>5. Succ(tail[q]) \in Slots
    BY <1>2, SuccWraps
  <1>6. InOrder(arr[q], tail[q], head[q], sent[q], received[q])
    BY <1>2 DEF IInv, DeliveredInOrder, DebugCheck
  <1>7. /\ sent[q] \in Seq(Values) /\ received[q] \in Seq(Values)
        /\ arr[q][tail[q]] \in Values
        /\ InOrder(arr[q], Succ(tail[q]), head[q], sent[q],
                   Append(received[q], arr[q][tail[q]]))
    <2>1. sent[q] \in Seq(Values) /\ received[q] \in Seq(Values)
      BY DEF IInv, TypeOK
    <2> QED  BY <1>2, <1>6, <2>1, RetireKeepsOrder
  <1>8. TypeOK'
    <2>1. received' \in [Qids -> Seq(Values)]
      BY <1>3, <1>7 DEF IInv, TypeOK
    <2>2. tail' \in [Qids -> Slots]
      BY <1>3, <1>5 DEF IInv, TypeOK
    <2> QED  BY <1>3, <1>4, LeavesType, <2>1, <2>2 DEF IInv, TypeOK, queueVars,
                ownerVars
  <1>9. \A u \in Threads : u # t =>
          /\ pc'[u] = pc[u] /\ qid'[u] = qid[u]
          /\ index'[u] = index[u] /\ val'[u] = val[u]
    BY <1>4, LeavesType
  <1>10. AssertionsHold'
    BY <1>3, <1>4, <1>9 DEF IInv, AssertionsHold, DebugCheck, Producing,
       Consuming, queueVars, ownerVars
  <1>11. \A u \in Threads : CallKnows(u)'
    <2>1. ASSUME NEW u \in Threads, u # t
          PROVE  CallKnows(u)'
      <3>1. pc[u] \in {"empty", "take", "retire"} => tail'[qid[u]] = tail[qid[u]]
        BY <1>2, <1>3, <2>1 DEF IInv, TypeOK, AssertionsHold, Consuming
      <3>2. pc[u] \in {"fill", "publish"} => tail'[qid[u]] # Succ(head[qid[u]])
        <4>1. CASE qid[u] = q
          <5>1. tail'[q] = Succ(tail[q])
            BY <1>3 DEF IInv, TypeOK
          <5>2. Succ(tail[q]) # Succ(head[q])
            BY <1>2, SuccInjective
          <5> QED  BY <4>1, <5>1, <5>2
        <4>2. CASE qid[u] # q
          BY <1>3, <4>2 DEF IInv, TypeOK, CallKnows, is_full
        <4> QED  BY <4>1, <4>2
      <3> QED  BY <1>3, <1>9, <2>1, <3>1, <3>2 DEF IInv, CallKnows, is_full, Succ
    <2>2. CallKnows(t)'
      BY <1>4 DEF CallKnows
    <2> QED  BY <2>1, <2>2
  <1>12. DeliveredInOrder'
    <2>1. ASSUME NEW r \in Qids, r < count
          PROVE  InOrder(arr[r], tail'[r], head[r], sent[r], received'[r])
      <3>1. CASE r = q
        <4>1. /\ tail'[q] = Succ(tail[q])
              /\ received'[q] = Append(received[q], arr[q][tail[q]])
          BY <1>3 DEF IInv, TypeOK
        <4> QED  BY <1>7, <3>1, <4>1
      <3>2. CASE r # q
        <4>1. tail'[r] = tail[r] /\ received'[r] = received[r]
          BY <1>3, <3>2 DEF IInv, TypeOK
        <4> QED  BY <2>1, <4>1 DEF IInv, DeliveredInOrder
      <3> QED  BY <3>1, <3>2
    <2> QED  BY <1>3, <2>1 DEF DeliveredInOrder, queueVars
  <1> QED  BY <1>8, <1>10, <1>11, <1>12 DEF IInv
-----------------------------------------------------------------------------
(* Set-up and tear-down, which find every thread outside the runtime.      *)
LEMMA SetupStep ==
  ASSUME IInv, \/ \E n \in 1 .. NumQueues : dec_fifo_init(n)
               \/ dec_fifo_cleanup
  PROVE  IInv'
  <1>1. Serial /\ UNCHANGED threadVars
    BY DEF dec_fifo_init, dec_fifo_cleanup
  <1>2. 0 \in Slots /\ <<>> \in Seq(Values) /\ NoThread \in Nat \cup {NoThread}
    BY ShmemAssumption DEF Slots
  <1>3. AssertionsHold' /\ \A t \in Threads : CallKnows(t)'
    BY <1>1 DEF Serial, AssertionsHold, CallKnows, Producing, Consuming, threadVars
  <1>4. InOrder(arr', 0, 0, <<>>, <<>>)
    BY DEF InOrder, Distance
  <1>5. ASSUME NEW n \in 1 .. NumQueues, dec_fifo_init(n)
        PROVE  TypeOK' /\ DeliveredInOrder'
    <2>1. count' \in 0 .. NumQueues /\ count' = count + n /\ INITIALIZED' = TRUE
      BY <1>5, ShmemAssumption DEF dec_fifo_init, IInv, TypeOK
    <2>2. TypeOK'
      BY <1>1, <1>2, <1>5, <2>1 DEF dec_fifo_init, IInv, TypeOK, threadVars
    <2>3. DeliveredInOrder'
      <3>1. ASSUME NEW q \in Qids, q < count + n
            PROVE  InOrder(arr[q], tail'[q], head'[q], sent'[q], received'[q])
        <4>1. CASE count <= q
          BY <1>4, <1>5, <3>1, <4>1 DEF dec_fifo_init, InOrder, Distance
        <4>2. CASE ~ (count <= q)
          <5>1. q < count
            BY <4>2 DEF IInv, TypeOK, Qids
          <5> QED  BY <1>5, <4>2, <5>1 DEF dec_fifo_init, IInv, DeliveredInOrder
        <4> QED  BY <4>1, <4>2
      <3> QED  BY <1>5, <2>1, <3>1 DEF DeliveredInOrder, dec_fifo_init
    <2> QED  BY <2>2, <2>3
  <1>6. ASSUME dec_fifo_cleanup
        PROVE  TypeOK' /\ DeliveredInOrder'
    <2>1. TypeOK'
      <3>1. count' \in 0 .. NumQueues
        BY <1>6, ShmemAssumption DEF dec_fifo_cleanup
      <3>2. arr' \in [Qids -> [Slots -> Values \cup {Junk}]]
        BY <1>6 DEF dec_fifo_cleanup
      <3>3. /\ head' \in [Qids -> Slots] /\ tail' \in [Qids -> Slots]
            /\ sent' \in [Qids -> Seq(Values)] /\ received' \in [Qids -> Seq(Values)]
        BY <1>2, <1>6 DEF dec_fifo_cleanup
      <3> QED  BY <1>1, <1>6, <3>1, <3>2, <3>3 DEF dec_fifo_cleanup, IInv, TypeOK,
                  threadVars, ownerVars
    <2>2. DeliveredInOrder'
      BY <1>6 DEF dec_fifo_cleanup, DeliveredInOrder, Qids
    <2> QED  BY <2>1, <2>2
  <1> QED  BY <1>3, <1>5, <1>6 DEF IInv

-----------------------------------------------------------------------------
(* Every step keeps the invariant. *)
LEMMA StepKeepsIInv == IInv /\ [Next]_vars => IInv'
  <1> SUFFICES ASSUME IInv, [Next]_vars PROVE IInv'
    OBVIOUS
  <1>1. ASSUME NEW t \in Threads, ProducerStep(t) PROVE IInv'
    <2>1. CASE CasProducer(t)
      BY <2>1, CasStep
    <2>0. qid[t] \in Qids
      BY DEF IInv, TypeOK
    <2>2. CASE LeaveFullSpin(t) \/ \E v \in Values : ReadMemory(t, v)
      BY <2>0, <2>2, LocalStep
    <2>3. CASE FillSlot(t)
      BY <2>3, FillStep
    <2>4. CASE AdvanceHead(t)
      BY <2>4, PublishStep
    <2>5. CASE CloseAfterAsync(t)
      BY <2>0, <2>5, CloseStep
    <2> QED  BY <1>1, <2>1, <2>2, <2>3, <2>4, <2>5 DEF ProducerStep
  <1>2. ASSUME NEW t \in Threads, ConsumerStep(t) PROVE IInv'
    <2>1. CASE CasConsumer(t)
      BY <2>1, CasStep
    <2>2. CASE LeaveEmptySpin(t) \/ TakeSlot(t)
      <3>1. qid[t] \in Qids
        BY DEF IInv, TypeOK
      <3> QED  BY <2>2, <3>1, LocalStep
    <2>3. CASE AdvanceTail(t)
      BY <2>3, RetireStep
    <2> QED  BY <1>2, <2>1, <2>2, <2>3 DEF ConsumerStep
  <1>3. ASSUME NEW t \in Threads, NEW q \in Qids, Call(t, q) PROVE IInv'
    <2>1. CASE \/ dec_open_producer(t, q) \/ dec_open_consumer(t, q)
               \/ dec_atomic_async(t, q) \/ dec_load_async(t, q)
      BY <2>1, OpenStep
    <2>2. CASE dec_close_producer(t, q) \/ dec_close_consumer(t, q)
      BY <2>2, CloseStep
    <2>3. CASE dec_consume(t, q) \/ \E v \in Values : dec_produce(t, q, v)
      BY <2>3, LocalStep
    <2> QED  BY <1>3, <2>1, <2>2, <2>3 DEF Call
  <1>4. CASE UNCHANGED vars
    BY <1>4 DEF vars, queueVars, bufferVars, ownerVars, threadVars, historyVars,
       IInv, TypeOK, AssertionsHold, CallKnows, DeliveredInOrder, DebugCheck,
       Producing, Consuming, is_full
  <1> QED  BY <1>1, <1>2, <1>3, <1>4, SetupStep DEF Next

(* The inductive invariant holds in every reachable state. *)
THEOREM IInvAlways == Spec => []IInv
  BY InitHolds, StepKeepsIInv, PTL DEF Spec

(* Every variable keeps its type. *)
THEOREM TypeOKAlways == Spec => []TypeOK
  <1>1. IInv => TypeOK
    BY DEF IInv
  <1> QED  BY <1>1, IInvAlways, PTL

(* No DEC_DEBUG assertion in the middle of a call fails. *)
THEOREM AssertionsHoldAlways == Spec => []AssertionsHold
  <1>1. IInv => AssertionsHold
    BY DEF IInv
  <1> QED  BY <1>1, IInvAlways, PTL

(* The compare-and-swap in dec_open_* keeps two threads off the same end   *)
(* of a queue, however the calls interleave.                               *)
THEOREM OneThreadPerEndAlways == Spec => []OneThreadPerEnd
  <1>1. IInv => OneThreadPerEnd
    BY DEF IInv, AssertionsHold, OneThreadPerEnd
  <1> QED  BY <1>1, IInvAlways, PTL

(* The unlocked accesses of enqueue and dequeue to arr never race.         *)
THEOREM NoSlotRaceAlways == Spec => []NoSlotRace
  <1>1. IInv => NoSlotRace
    BY DEF IInv, CallKnows, NoSlotRace
  <1> QED  BY <1>1, IInvAlways, PTL

(* A queue delivers what was put in, in order, and keeps the rest.         *)
THEOREM DeliveredInOrderAlways == Spec => []DeliveredInOrder
  <1>1. IInv => DeliveredInOrder
    BY DEF IInv
  <1> QED  BY <1>1, IInvAlways, PTL

-----------------------------------------------------------------------------
(* What the steps do, from the inductive invariant: they keep unread       *)
(* slots, and they are the steps of the channels the runtime promises, or  *)
(* change none of what a channel is.                                       *)

(* Only the store of an enqueue changes a buffer in use, and the slot it   *)
(* stores to is outside the occupied part.                                 *)
LEMMA StepKeepsUnread ==
  ASSUME IInv, [Next]_vars, INITIALIZED', NEW q \in Qids, q < count,
         NEW i \in 0 .. Occupied(q) - 1
  PROVE  arr'[q][SlotAt(q, i)] = arr[q][SlotAt(q, i)]
  <1>1. CASE \E t \in Threads : FillSlot(t)
    <2>1. PICK t \in Threads : FillSlot(t)
      BY <1>1
    <2>2. /\ arr' = [arr EXCEPT ![qid[t]][head[qid[t]]] = val[t]]
          /\ arr \in [Qids -> [Slots -> Values \cup {Junk}]]
          /\ head[q] \in Slots /\ tail[q] \in Slots
      BY <2>1 DEF FillSlot, IInv, TypeOK
    <2>3. i \in 0 .. VirtualSize - 1 /\ i # Occupied(q)
      BY <2>2, RingDistance, ShmemAssumption DEF Occupied
    <2>4. SlotAt(q, i) \in Slots /\ SlotAt(q, i) # head[q]
      BY <2>2, <2>3, RingDistance, RingOffsets DEF SlotAt, Occupied
    <2> QED  BY <2>2, <2>4
  <1>2. CASE ~ \E t \in Threads : FillSlot(t)
    <2>1. UNCHANGED arr
      BY <1>2 DEF Next, ProducerStep, ConsumerStep, Call, CasProducer,
         CasConsumer, ReadMemory, LeaveFullSpin, AdvanceHead, CloseAfterAsync,
         LeaveEmptySpin, TakeSlot, AdvanceTail, dec_open_producer,
         dec_open_consumer, dec_close_producer, dec_close_consumer, dec_produce,
         dec_consume, dec_atomic_async, dec_load_async, dec_fifo_init,
         dec_fifo_cleanup, bufferVars, vars
    <2> QED  BY <2>1
  <1> QED  BY <1>1, <1>2

(* A value that was published and not yet retired keeps its slot, whatever *)
(* the other threads do, until dec_fifo_cleanup.                           *)
THEOREM UnreadSlotKeptAlways == Spec => UnreadSlotKept
  <1>1. IInv /\ [Next]_vars =>
          [INITIALIZED' =>
             \A q \in Qids : q < count =>
               \A i \in 0 .. Occupied(q) - 1 :
                 arr'[q][SlotAt(q, i)] = arr[q][SlotAt(q, i)]]_vars
    BY StepKeepsUnread
  <1> QED  BY <1>1, IInvAlways, PTL DEF Spec, UnreadSlotKept

-----------------------------------------------------------------------------
(* The channels the runtime's state stands for. *)
Live == 0 .. count - 1
Chan == [q \in Qids |-> Contents(q)]
Handed == [q \in Qids |-> Delivered(q)]

(* A queue in use stands for a sequence of at most VirtualSize - 1 values, *)
(* the unread slots in order.                                              *)
LEMMA ContentsType ==
  ASSUME IInv, NEW q \in Qids, q < count
  PROVE  /\ Contents(q) \in Seq(Values)
         /\ Len(Contents(q)) = Occupied(q)
         /\ Occupied(q) \in 0 .. VirtualSize - 1
         /\ \A i \in 1 .. Occupied(q) : Contents(q)[i] = arr[q][SlotAt(q, i - 1)]
  <1>1. /\ head[q] \in Slots /\ tail[q] \in Slots
        /\ sent[q] \in Seq(Values) /\ received[q] \in Seq(Values)
        /\ InOrder(arr[q], tail[q], head[q], sent[q], received[q])
    BY DEF IInv, TypeOK, DeliveredInOrder
  <1>2. Occupied(q) \in 0 .. VirtualSize - 1
    BY <1>1, RingDistance DEF Occupied
  <1>3. /\ Len(sent[q]) = Len(received[q]) + Occupied(q)
        /\ \A i \in 0 .. Occupied(q) - 1 :
             arr[q][SlotAt(q, i)] = sent[q][Len(received[q]) + i + 1]
    BY <1>1 DEF InOrder, Occupied, SlotAt
  <1>4. VirtualSize \in Nat /\ Len(received[q]) \in Nat /\ Len(sent[q]) \in Nat
    BY <1>1, ShmemAssumption
  <1>5. \A i \in 1 .. Occupied(q) : arr[q][SlotAt(q, i - 1)] \in Values
    <2>1. ASSUME NEW i \in 1 .. Occupied(q)
          PROVE  arr[q][SlotAt(q, i - 1)] \in Values
      <3>1. i - 1 \in 0 .. Occupied(q) - 1
        BY <1>2, <1>4
      <3>2. Len(received[q]) + (i - 1) + 1 \in 1 .. Len(sent[q])
        BY <1>2, <1>3, <1>4
      <3> QED  BY <1>1, <1>3, <3>1, <3>2
    <2> QED  BY <2>1
  <1>6. Contents(q) = [i \in 1 .. Occupied(q) |-> arr[q][SlotAt(q, i - 1)]]
    BY DEF Contents
  <1> HIDE DEF Contents, Occupied
  <1> QED  BY <1>2, <1>5, <1>6

(* Steps that move no index and no unread value leave the channels alone.  *)
LEMMA ChannelsKept ==
  ASSUME IInv, UNCHANGED <<count, head, tail, received>>,
         \A q \in Qids : q < count =>
           \A i \in 0 .. Occupied(q) - 1 :
             arr'[q][SlotAt(q, i)] = arr[q][SlotAt(q, i)]
  PROVE  UNCHANGED <<Live, Chan, Handed>>
  <1>1. ASSUME NEW q \in Qids
        PROVE  Contents(q)' = Contents(q) /\ Delivered(q)' = Delivered(q)
    <2>1. Occupied(q)' = Occupied(q) /\ \A i \in Nat : SlotAt(q, i)' = SlotAt(q, i)
      BY DEF Occupied, SlotAt
    <2>2. CASE q < count
      <3>1. Occupied(q) \in Nat
        BY <2>2, ContentsType
      <3>2. \A i \in 1 .. Occupied(q) : i - 1 \in 0 .. Occupied(q) - 1 /\ i - 1 \in Nat
        BY <3>1
      <3>3. \A i \in 1 .. Occupied(q) :
              arr'[q][SlotAt(q, i - 1)'] = arr[q][SlotAt(q, i - 1)]
        BY <2>1, <2>2, <3>2
      <3> QED  BY <2>1, <2>2, <3>3 DEF Contents, Delivered
    <2>3. CASE ~ (q < count)
      BY <2>3 DEF Contents, Delivered
    <2> QED  BY <2>2, <2>3
  <1> QED  BY <1>1 DEF Live, Chan, Handed

(* Another queue's indices and history are its own. *)
LEMMA OtherChannelKept ==
  ASSUME NEW q \in Qids,
         count' = count, head'[q] = head[q], tail'[q] = tail[q], arr'[q] = arr[q],
         received'[q] = received[q]
  PROVE  Contents(q)' = Contents(q) /\ Delivered(q)' = Delivered(q)
  <1>1. Occupied(q)' = Occupied(q) /\ \A i : SlotAt(q, i)' = SlotAt(q, i)
    BY DEF Occupied, SlotAt
  <1> QED  BY <1>1 DEF Contents, Delivered

(* Steps that change neither an end nor a channel. *)
LEMMA StutterStep ==
  ASSUME IInv, [Next]_vars, NEW t \in Threads,
         \/ \E q \in Qids :
              \/ dec_open_producer(t, q) \/ dec_open_consumer(t, q)
              \/ dec_atomic_async(t, q) \/ dec_load_async(t, q)
              \/ dec_consume(t, q) \/ \E v \in Values : dec_produce(t, q, v)
         \/ \E v \in Values : ReadMemory(t, v)
         \/ LeaveFullSpin(t) \/ FillSlot(t) \/ LeaveEmptySpin(t) \/ TakeSlot(t)
  PROVE  UNCHANGED <<Live, Chan, Handed, producer, consumer>>
  <1>1. UNCHANGED <<INITIALIZED, count, head, tail, received, producer, consumer>>
    BY DEF dec_open_producer, dec_open_consumer, dec_atomic_async,
       dec_load_async, dec_consume, dec_produce, ReadMemory, LeaveFullSpin,
       FillSlot, LeaveEmptySpin, TakeSlot, queueVars, bufferVars, ownerVars,
       historyVars
  <1>2. CASE INITIALIZED'
    BY <1>1, <1>2, StepKeepsUnread, ChannelsKept
  <1>3. CASE ~ INITIALIZED'
    <2>1. ~ FillSlot(t)
      BY <1>1, <1>3 DEF FillSlot, Steps, IInv, TypeOK, AssertionsHold, DebugCheck
    <2>2. UNCHANGED arr
      BY <2>1 DEF dec_open_producer, dec_open_consumer, dec_atomic_async,
         dec_load_async, dec_consume, dec_produce, ReadMemory, LeaveFullSpin,
         LeaveEmptySpin, TakeSlot, bufferVars
    <2> QED  BY <1>1, <2>2, ChannelsKept
  <1> QED  BY <1>2, <1>3

(* Taking or giving back an end. *)
LEMMA EndStep ==
  ASSUME IInv, NEW t \in Threads,
         \/ CasProducer(t) \/ CasConsumer(t) \/ CloseAfterAsync(t)
         \/ \E q \in Qids : dec_close_producer(t, q) \/ dec_close_consumer(t, q)
  PROVE  Promise!Next
  <1>1. UNCHANGED <<Live, Chan, Handed>>
    <2>1. UNCHANGED <<count, head, tail, arr, received>>
      BY DEF CasProducer, CasConsumer, CloseAfterAsync, dec_close_producer,
         dec_close_consumer, queueVars, bufferVars, historyVars
    <2> QED  BY <2>1, ChannelsKept
  <1>2. qid[t] \in Qids /\ (pc[t] # "idle" => qid[t] \in Live)
    BY DEF IInv, TypeOK, AssertionsHold, DebugCheck, Live, Qids
  <1>3. CASE CasProducer(t)
    <2>1. pc[t] # "idle"
      BY <1>3 DEF CasProducer, Steps, Returns
    <2>2. Promise!OpenProducer(t, qid[t])
      BY <1>1, <1>2, <1>3, <2>1
         DEF CasProducer, Promise!OpenProducer, Promise!NoThread, NoThread,
             Live, Chan, Handed
    <2> QED  BY <1>2, <2>2 DEF Promise!Next
  <1>4. CASE CasConsumer(t)
    <2>1. pc[t] # "idle"
      BY <1>4 DEF CasConsumer, Steps, Returns
    <2>2. Promise!OpenConsumer(t, qid[t])
      BY <1>1, <1>2, <1>4, <2>1
         DEF CasConsumer, Promise!OpenConsumer, Promise!NoThread, NoThread,
             Live, Chan, Handed
    <2> QED  BY <1>2, <2>2 DEF Promise!Next
  <1>5. CASE CloseAfterAsync(t)
    <2>1. pc[t] # "idle" /\ producer[qid[t]] = t
      BY <1>5 DEF CloseAfterAsync, Steps, Returns, IInv, AssertionsHold, Producing
    <2>2. Promise!CloseProducer(t, qid[t])
      BY <1>1, <1>2, <1>5, <2>1
         DEF CloseAfterAsync, Promise!CloseProducer, Promise!NoThread, NoThread,
             Live, Chan, Handed
    <2> QED  BY <1>2, <2>2 DEF Promise!Next
  <1>6. ASSUME NEW q \in Qids, dec_close_producer(t, q) \/ dec_close_consumer(t, q)
        PROVE  Promise!Next
    <2>1. q \in Live
      BY <1>6 DEF dec_close_producer, dec_close_consumer, DebugCheck, Live, Qids,
         IInv, TypeOK
    <2>2. Promise!CloseProducer(t, q) \/ Promise!CloseConsumer(t, q)
      BY <1>1, <1>6, <2>1
         DEF dec_close_producer, dec_close_consumer, Promise!CloseProducer,
             Promise!CloseConsumer, Promise!NoThread, NoThread, Live, Chan, Handed
    <2> QED  BY <2>2 DEF Promise!Next
  <1> QED  BY <1>3, <1>4, <1>5, <1>6

(* Storing head sends the value in the slot filled before. *)
LEMMA SendStep ==
  ASSUME IInv, NEW t \in Threads, AdvanceHead(t)
  PROVE  Promise!Next
  <1>1. PICK q \in Qids : q = qid[t]
    BY DEF IInv, TypeOK
  <1>2. /\ head[q] \in Slots /\ tail[q] \in Slots
        /\ pc[t] = "publish" /\ val[t] \in Values /\ ~ is_full(q)
        /\ index[t] = head[q] /\ arr[q][head[q]] = val[t]
        /\ producer[q] = t /\ q < count /\ count \in Nat
    BY <1>1 DEF AdvanceHead, Steps, Returns, IInv, TypeOK, CallKnows,
       AssertionsHold, Producing, DebugCheck
  <1>3. /\ UNCHANGED <<count, tail, arr, producer, consumer, received>>
        /\ head' = [head EXCEPT ![q] = Succ(head[q])]
        /\ head \in [Qids -> Slots]
    BY <1>1, <1>2 DEF AdvanceHead, queueVars, ownerVars, IInv, TypeOK
  <1>4. /\ Contents(q) \in Seq(Values) /\ Len(Contents(q)) = Occupied(q)
        /\ Occupied(q) \in 0 .. VirtualSize - 2
        /\ \A i \in 1 .. Occupied(q) : Contents(q)[i] = arr[q][SlotAt(q, i - 1)]
    BY <1>2, ContentsType, RingDistance, ShmemAssumption DEF Occupied, is_full
  <1>5. Contents(q)' = Append(Contents(q), val[t])
    <2> DEFINE n == Occupied(q)
               slot(i) == arr[q][SlotAt(q, i - 1)]
    <2>1. Occupied(q)' = n + 1
      BY <1>2, <1>3, RingGrows DEF Occupied, is_full
    <2>2. slot(n + 1) = val[t]
      <3>1. (n + 1) - 1 = n
        BY <1>4
      <3> QED  BY <1>2, <3>1, RingDistance DEF SlotAt, Occupied
    <2>3. Contents(q)' = [i \in 1 .. n + 1 |-> slot(i)]
      BY <1>2, <1>3, <2>1 DEF Contents, SlotAt
    <2>4. \A i \in 1 .. n : slot(i) = Contents(q)[i]
      BY <1>4
    <2> HIDE DEF n, slot
    <2>5. n \in Nat /\ Len(Contents(q)) = n
      BY <1>4, ShmemAssumption DEF n
    <2> QED  BY <1>2, <1>4, <2>2, <2>3, <2>4, <2>5
  <1>6. \A r \in Qids \ {q} : Contents(r)' = Contents(r)
    BY <1>3, OtherChannelKept
  <1>7. \A r \in Qids : Delivered(r)' = Delivered(r)
    BY <1>3 DEF Delivered
  <1>8. Promise!Send(t, q, val[t])
    <2>1. q \in Live /\ UNCHANGED <<Live, Handed>>
      BY <1>2, <1>3, <1>7 DEF Live, Handed, Qids
    <2>2. Len(Chan[q]) < VirtualSize - 1
      BY <1>4, ShmemAssumption DEF Chan
    <2>3. Chan' = [Chan EXCEPT ![q] = Append(@, val[t])]
      BY <1>5, <1>6 DEF Chan
    <2> QED  BY <1>2, <1>3, <2>1, <2>2, <2>3 DEF Promise!Send, Live, Chan, Handed
  <1> QED  BY <1>2, <1>8 DEF Promise!Next

(* Storing tail hands out the oldest value. *)
LEMMA ReceiveStep ==
  ASSUME IInv, NEW t \in Threads, AdvanceTail(t)
  PROVE  Promise!Next
  <1>1. PICK q \in Qids : q = qid[t]
    BY DEF IInv, TypeOK
  <1>2. /\ head[q] \in Slots /\ tail[q] \in Slots /\ head[q] # tail[q]
        /\ pc[t] = "retire" /\ index[t] = tail[q] /\ val[t] = arr[q][tail[q]]
        /\ consumer[q] = t /\ q < count /\ count \in Nat
    BY <1>1 DEF AdvanceTail, Steps, Returns, IInv, TypeOK, CallKnows,
       AssertionsHold, Consuming, DebugCheck
  <1>3. /\ UNCHANGED <<count, head, arr, producer, consumer>>
        /\ tail' = [tail EXCEPT ![q] = Succ(tail[q])]
        /\ received' = [received EXCEPT ![q] = Append(received[q], val[t])]
        /\ tail \in [Qids -> Slots] /\ received \in [Qids -> Seq(Values)]
    BY <1>1, <1>2 DEF AdvanceTail, queueVars, ownerVars, IInv, TypeOK
  <1>4. /\ Contents(q) \in Seq(Values) /\ Len(Contents(q)) = Occupied(q)
        /\ Occupied(q) \in 1 .. VirtualSize - 1
        /\ \A i \in 1 .. Occupied(q) : Contents(q)[i] = arr[q][SlotAt(q, i - 1)]
    BY <1>2, ContentsType, RingDistance, ShmemAssumption DEF Occupied
  <1>5. VirtualSize \in Nat
    BY ShmemAssumption
  <1>6. Head(Contents(q)) = val[t] /\ Contents(q) # <<>> /\ val[t] \in Values
    <2>1. SlotAt(q, 1 - 1) = tail[q]
      BY <1>2, <1>5 DEF SlotAt, Around, Slots
    <2> QED  BY <1>2, <1>4, <1>5, <2>1
  <1>7. Contents(q)' = Tail(Contents(q))
    <2> DEFINE n == Occupied(q)
               moved(i) == arr[q][Around(Succ(tail[q]), i - 1)]
    <2>1. Occupied(q)' = n - 1
      BY <1>2, <1>3, RingShrinks DEF Occupied
    <2>2. Contents(q)' = [i \in 1 .. n - 1 |-> moved(i)]
      BY <1>2, <1>3, <2>1 DEF Contents, SlotAt
    <2>3. \A i \in 1 .. n - 1 : moved(i) = Contents(q)[i + 1]
      <3>1. ASSUME NEW i \in 1 .. n - 1
            PROVE  moved(i) = Contents(q)[i + 1]
        <4>1. i - 1 \in 0 .. VirtualSize - 2 /\ i + 1 \in 1 .. n /\ (i - 1) + 1 = (i + 1) - 1
          BY <1>4, <1>5
        <4>2. Around(Succ(tail[q]), i - 1) = Around(tail[q], (i + 1) - 1)
          BY <1>2, <4>1, RingShrinks
        <4> QED  BY <1>4, <4>1, <4>2 DEF SlotAt
      <3> QED  BY <3>1
    <2> HIDE DEF n, moved
    <2>4. n \in Nat \ {0} /\ Len(Contents(q)) = n
      BY <1>4, <1>5 DEF n
    <2>5. \A i \in 1 .. n - 1 : moved(i) = Tail(Contents(q))[i] /\ moved(i) \in Values
      BY <1>4, <1>6, <2>3, <2>4, HeadTailProperties
    <2>6. /\ [i \in 1 .. n - 1 |-> moved(i)] \in Seq(Values)
          /\ Len([i \in 1 .. n - 1 |-> moved(i)]) = n - 1
      BY <2>4, <2>5
    <2>7. Tail(Contents(q)) \in Seq(Values) /\ Len(Tail(Contents(q))) = n - 1
      BY <1>4, <1>6, <2>4, HeadTailProperties
    <2>8. [i \in 1 .. n - 1 |-> moved(i)] = Tail(Contents(q))
      BY <2>4, <2>5, <2>6, <2>7, SeqEqual
    <2> QED  BY <2>2, <2>8
  <1>8. Delivered(q)' = val[t]
    <2>1. received'[q] # <<>> /\ received'[q][Len(received'[q])] = val[t]
      BY <1>3, <1>6, SMTT(30)
    <2> QED  BY <1>2, <1>3, <2>1, ZenonT(40) DEF Delivered
  <1>9. \A r \in Qids \ {q} : Contents(r)' = Contents(r) /\ Delivered(r)' = Delivered(r)
    BY <1>3, OtherChannelKept
  <1>10. Promise!Receive(t, q)
    <2>1. q \in Live /\ UNCHANGED Live
      BY <1>2, <1>3 DEF Live, Qids
    <2>2. Chan[q] = Contents(q)
      BY DEF Chan
    <2>3. Chan' = [Chan EXCEPT ![q] = Tail(@)]
      BY <1>7, <1>9 DEF Chan
    <2>4. Handed' = [Handed EXCEPT ![q] = Head(Chan[q])]
      BY <1>6, <1>8, <1>9, <2>2 DEF Handed
    <2> QED  BY <1>2, <1>3, <1>6, <2>1, <2>2, <2>3, <2>4
             DEF Promise!Receive, Live, Chan, Handed
  <1> QED  BY <1>10 DEF Promise!Next

(* A queue that was just made, and one that is no more, is empty. *)
LEMMA NewChannelEmpty ==
  ASSUME NEW q \in Qids,
         (q < count)' => head'[q] = 0 /\ tail'[q] = 0 /\ received'[q] = <<>>
  PROVE  Contents(q)' = <<>> /\ Delivered(q)' = Junk
  <1>1. CASE (q < count)'
    <2>1. Occupied(q)' = 0
      BY <1>1 DEF Occupied, Distance
    <2>2. Contents(q)' = [i \in 1 .. 0 |-> arr'[q][SlotAt(q, i - 1)']]
      BY <1>1, <2>1 DEF Contents
    <2> QED  BY <1>1, <2>2 DEF Delivered
  <1>2. CASE ~ (q < count)'
    BY <1>2 DEF Contents, Delivered
  <1> QED  BY <1>1, <1>2

(* Set-up makes the queues after those there are, and resets the first     *)
(* ownership cells.                                                        *)
LEMMA CreateStep ==
  ASSUME IInv, NEW n \in 1 .. NumQueues, dec_fifo_init(n)
  PROVE  Promise!Next
  <1> DEFINE fresh == count .. count + n - 1
             reset == 0 .. n - 1
  <1>1. /\ count \in Nat /\ n \in Nat /\ n > 0 /\ NumQueues \in Nat
        /\ count + n <= NumQueues /\ count' = count + n
    BY ShmemAssumption DEF dec_fifo_init, IInv, TypeOK
  <1>2. /\ fresh \in SUBSET Qids /\ reset \in SUBSET Qids
        /\ fresh \cap Live = {} /\ Live' = Live \cup fresh
    BY <1>1 DEF Qids, Live
  <1>3. ASSUME NEW q \in Qids
        PROVE  /\ Contents(q)' = IF q \in fresh THEN <<>> ELSE Contents(q)
               /\ Delivered(q)' = IF q \in fresh THEN Junk ELSE Delivered(q)
    <2>0. q \in Nat
      BY <1>1 DEF Qids
    <2>1. CASE q \in fresh
      <3>1. count <= q /\ q < count + n
        BY <1>1, <2>1
      <3>2. head'[q] = 0 /\ tail'[q] = 0 /\ received'[q] = <<>>
        BY <3>1 DEF dec_fifo_init
      <3> QED  BY <2>1, <3>2, NewChannelEmpty
    <2>2. CASE q \notin fresh
      <3>1. ~ (count <= q /\ q < count + n)
        BY <1>1, <2>0, <2>2
      <3>2. /\ head'[q] = head[q] /\ tail'[q] = tail[q]
            /\ received'[q] = received[q] /\ arr' = arr
        BY <3>1 DEF dec_fifo_init
      <3>3. (q < count)' <=> q < count
        BY <1>1, <2>0, <3>1
      <3>4. Occupied(q)' = Occupied(q) /\ \A i : SlotAt(q, i)' = SlotAt(q, i)
        BY <3>2 DEF Occupied, SlotAt
      <3> QED  BY <2>2, <3>2, <3>3, <3>4 DEF Contents, Delivered
    <2> QED  BY <2>1, <2>2
  <1>4. ASSUME NEW q \in Qids
        PROVE  q \in reset <=> q < n
    BY <1>1 DEF Qids
  <1>5. Promise!Create(fresh, reset)
    <2>1. /\ Chan' = [q \in Qids |-> IF q \in fresh THEN <<>> ELSE Chan[q]]
          /\ Handed' = [q \in Qids |-> IF q \in fresh THEN Junk ELSE Handed[q]]
      BY <1>3 DEF Chan, Handed
    <2>2. /\ producer' = [q \in Qids |-> IF q \in reset THEN NoThread ELSE producer[q]]
          /\ consumer' = [q \in Qids |-> IF q \in reset THEN NoThread ELSE consumer[q]]
      BY <1>4 DEF dec_fifo_init
    <2> HIDE DEF fresh, reset
    <2> QED  BY <1>2, <2>1, <2>2
             DEF Promise!Create, Promise!NoThread, NoThread, Live, Chan, Handed
  <1> QED  BY <1>2, <1>5 DEF Promise!Next

(* Tear-down leaves no channel. *)
LEMMA DestroyStep ==
  ASSUME IInv, dec_fifo_cleanup
  PROVE  Promise!Next
  <1>1. count' = 0 /\ UNCHANGED <<producer, consumer>>
    BY DEF dec_fifo_cleanup, ownerVars
  <1>2. \A q \in Qids : Contents(q)' = <<>> /\ Delivered(q)' = Junk
    BY <1>1 DEF Contents, Delivered, Qids
  <1>3. Live' = {}
    BY <1>1 DEF Live
  <1>4. Promise!Destroy
    BY <1>1, <1>2, <1>3 DEF Promise!Destroy, Live, Chan, Handed
  <1> QED  BY <1>4 DEF Promise!Next

(* Before set-up there is no channel. *)
LEMMA InitialChannels == Init => Promise!Init
  <1> SUFFICES ASSUME Init PROVE Promise!Init
    OBVIOUS
  <1>1. Live = {} /\ \A q \in Qids : Contents(q) = <<>> /\ Delivered(q) = Junk
    BY DEF Init, Live, Contents, Delivered, Qids
  <1> QED  BY <1>1 DEF Init, Promise!Init, Live, Chan, Handed

(* Every access to memory is a step of the channels, or none to them.      *)
LEMMA StepsAreChannelSteps == IInv /\ [Next]_vars => [Promise!Next]_(Promise!vars)
  <1> SUFFICES ASSUME IInv, [Next]_vars
               PROVE  Promise!Next \/ UNCHANGED <<Live, Chan, Handed, producer, consumer>>
    BY DEF Promise!vars, Live, Chan, Handed
  <1>1. ASSUME NEW t \in Threads, ProducerStep(t) \/ ConsumerStep(t)
        PROVE  Promise!Next \/ UNCHANGED <<Live, Chan, Handed, producer, consumer>>
    <2>1. CASE CasProducer(t) \/ CloseAfterAsync(t) \/ CasConsumer(t)
      BY <2>1, EndStep
    <2>2. CASE \/ \E v \in Values : ReadMemory(t, v)
               \/ LeaveFullSpin(t) \/ FillSlot(t) \/ LeaveEmptySpin(t) \/ TakeSlot(t)
      BY <2>2, StutterStep
    <2>3. CASE AdvanceHead(t)
      BY <2>3, SendStep
    <2>4. CASE AdvanceTail(t)
      BY <2>4, ReceiveStep
    <2> QED  BY <1>1, <2>1, <2>2, <2>3, <2>4 DEF ProducerStep, ConsumerStep
  <1>2. ASSUME NEW t \in Threads, NEW q \in Qids, Call(t, q)
        PROVE  Promise!Next \/ UNCHANGED <<Live, Chan, Handed, producer, consumer>>
    <2>1. CASE dec_close_producer(t, q) \/ dec_close_consumer(t, q)
      BY <2>1, EndStep
    <2>2. CASE ~ (dec_close_producer(t, q) \/ dec_close_consumer(t, q))
      BY <1>2, <2>2, StutterStep DEF Call
    <2> QED  BY <2>1, <2>2
  <1>3. CASE \E n \in 1 .. NumQueues : dec_fifo_init(n)
    BY <1>3, CreateStep
  <1>4. CASE dec_fifo_cleanup
    BY <1>4, DestroyStep
  <1>5. CASE UNCHANGED vars
    <2>1. UNCHANGED <<count, head, tail, arr, producer, consumer, received>>
      BY <1>5 DEF vars, queueVars, bufferVars, ownerVars, historyVars
    <2> QED  BY <2>1, ChannelsKept
  <1> QED  BY <1>1, <1>2, <1>3, <1>4, <1>5 DEF Next

(* The unlocked loads and stores of shmem_decoupling.cpp implement bounded *)
(* FIFO channels with one holder per end, whose sends and receives are     *)
(* single steps: the layers above may take the runtime for that.           *)
THEOREM RuntimeIsChannels == Spec => ImplementsChannels
  BY InitialChannels, StepsAreChannelSteps, IInvAlways, PTL
     DEF Spec, ImplementsChannels, Promise!Spec
=============================================================================
