----------------------------- MODULE DescProofs -----------------------------
(***************************************************************************)
(* The properties of DescRuntime, for any number of pairs.  That no end of *)
(* a queue is left behind is inductive together with its converse, that a  *)
(* call in progress holds its end; this argument does not look at the      *)
(* layout of the queues.  The layout lemmas then turn it into OpensAtOnce  *)
(* and PairsTalk.                                                          *)
(***************************************************************************)
EXTENDS DescRuntime, TLAPS

(* A call past its opening holds its end, and calls only happen once there *)
(* are queues.                                                             *)
CallsHoldEnds ==
  \A t \in Threads :
    /\ call[t].stage # "none" => live # {}
    /\ call[t].stage \in {"transfer", "close"} =>
         /\ call[t].dir = "produce" => producer[CallQueue(t)] = t
         /\ call[t].dir = "consume" => consumer[CallQueue(t)] = t

RInv == RuntimeTypeOK /\ NoEndLeaks /\ CallsHoldEnds

-----------------------------------------------------------------------------
(* The layout of the queues. *)

(* A queue number determines the region it is in and the place there: the  *)
(* four regions of NumPairs queues do not overlap.                         *)
LEMMA RegionsDisjoint ==
  ASSUME NEW b \in 0 .. NumPairs - 1, NEW c \in 0 .. NumPairs - 1,
         NEW r \in 0 .. 3, NEW s \in 0 .. 3,
         b + r * NumPairs = c + s * NumPairs
  PROVE  b = c /\ r = s
<1>1. NumPairs \in Nat \ {0} BY RuntimeAssumption
<1>2. (r = 0 \/ r = 1 \/ r = 2 \/ r = 3) /\ (s = 0 \/ s = 1 \/ s = 2 \/ s = 3)
  OBVIOUS
<1>3. CASE r = 0 BY <1>1, <1>2, <1>3
<1>4. CASE r = 1 BY <1>1, <1>2, <1>4
<1>5. CASE r = 2 BY <1>1, <1>2, <1>5
<1>6. CASE r = 3 BY <1>1, <1>2, <1>6
<1>7. QED BY <1>2, <1>3, <1>4, <1>5, <1>6

(* get_producer_qid and get_consumer_qid stay within a region, and every   *)
(* call's queue is one of those desc_init makes.                           *)
LEMMA QueuesMade ==
  ASSUME NEW t \in Threads, NEW dir \in Directions, NEW type \in Types
  PROVE  /\ Base(t) \in 0 .. NumPairs - 1
         /\ Region(t, dir, type) \in 0 .. 3
         /\ queue_of(t, dir, type) \in 0 .. 4 * NumPairs - 1
         /\ queue_of(t, dir, type) \in Qids
<1>1. NumPairs \in Nat \ {0} /\ MaxQueues \in Nat /\ 4 * NumPairs <= MaxQueues
  BY RuntimeAssumption
<1>2. Base(t) \in 0 .. NumPairs - 1
  BY <1>1, RuntimeAssumption
     DEF Base, ComputeThreads, get_producer_qid, get_consumer_qid
<1>3. Region(t, dir, type) \in 0 .. 3 BY DEF Region
<1>4. PICK r \in 0 .. 3 : r = Region(t, dir, type) BY <1>3
<1>5. PICK b \in 0 .. NumPairs - 1 : b = Base(t) BY <1>2
<1>6. b + r * NumPairs \in 0 .. 4 * NumPairs - 1
  <2>1. r = 0 \/ r = 1 \/ r = 2 \/ r = 3 OBVIOUS
  <2>2. QED BY <1>1, <2>1
<1>7. queue_of(t, dir, type) = b + r * NumPairs BY <1>4, <1>5 DEF queue_of
<1>8. 0 .. 4 * NumPairs - 1 \subseteq Qids BY <1>1, RuntimeAssumption
<1>9. QED BY <1>2, <1>3, <1>6, <1>7, <1>8

(* Two calls of the same direction use the same queue only if the same     *)
(* thread makes them.                                                      *)
LEMMA OneThreadPerQueueEnd ==
  ASSUME NEW t \in Threads, NEW u \in Threads, NEW dir \in Directions,
         NEW type1 \in Types, NEW type2 \in Types,
         queue_of(t, dir, type1) = queue_of(u, dir, type2)
  PROVE  t = u
<1>1. Base(t) = Base(u) /\ Region(t, dir, type1) = Region(u, dir, type2)
  BY RegionsDisjoint, QueuesMade DEF queue_of
<1>2. (t \in ComputeThreads) = (u \in ComputeThreads)
  BY <1>1 DEF Region, Types, Directions
<1>3. QED
  BY <1>1, <1>2, RuntimeAssumption
     DEF Base, ComputeThreads, get_producer_qid, get_consumer_qid

(* A call that sends and one that receives use the same queue only if the  *)
(* two threads are a pair.                                                 *)
LEMMA PairPerQueue ==
  ASSUME NEW t \in Threads, NEW u \in Threads,
         NEW type1 \in Types, NEW type2 \in Types,
         queue_of(t, "produce", type1) = queue_of(u, "consume", type2)
  PROVE  u = Partner(t)
<1>1. /\ Base(t) = Base(u)
      /\ Region(t, "produce", type1) = Region(u, "consume", type2)
  BY RegionsDisjoint, QueuesMade DEF queue_of, Directions
<1>2. (t \in ComputeThreads) # (u \in ComputeThreads)
  BY <1>1 DEF Region, Types
<1>3. QED
  BY <1>1, <1>2, RuntimeAssumption
     DEF Base, ComputeThreads, Partner, get_producer_qid, get_consumer_qid

-----------------------------------------------------------------------------
(* The invariant.                                                          *)

(* A call that takes or gives back the producing end of its queue changes  *)
(* nobody else's hold on any end.                                          *)
LEMMA ProducerEndMoves ==
  ASSUME RInv, NEW t \in Threads,
         NEW holder \in {t, NoThread},
         call[t].dir = "produce", call[t].stage # "none",
         UNCHANGED <<live, consumer>>,
         producer' = [producer EXCEPT ![CallQueue(t)] = holder],
         producer[CallQueue(t)] \in {t, NoThread},
         \/ /\ holder = t
            /\ call[t].stage = "open"
            /\ call' = [call EXCEPT ![t].stage = "transfer"]
         \/ /\ holder = NoThread
            /\ call[t].stage = "close"
            /\ call' = [call EXCEPT ![t] = NoCall]
  PROVE  NoEndLeaks' /\ CallsHoldEnds'
<1>1. /\ call \in [Threads -> [stage : Stages, dir : Directions, type : Types]]
      /\ producer \in [Qids -> Threads \cup {NoThread}]
      /\ consumer \in [Qids -> Threads \cup {NoThread}]
      /\ live \subseteq Qids
  <2>1. 0 .. 4 * NumPairs - 1 \subseteq Qids BY RuntimeAssumption
  <2>2. QED BY <2>1 DEF RInv, RuntimeTypeOK
<1>2. NoThread \notin Threads BY RuntimeAssumption DEF NoThread
<1>3. CallQueue(t) \in Qids BY <1>1, QueuesMade DEF CallQueue
<1>4. \A u \in Threads \ {t} : call'[u] = call[u] /\ CallQueue(u)' = CallQueue(u)
  BY <1>1 DEF CallQueue
<1>5. \A q \in Qids \ {CallQueue(t)} : producer'[q] = producer[q]
  BY <1>1
<1>6. producer'[CallQueue(t)] = holder BY <1>1, <1>3
<1>7. holder = t => /\ call'[t].stage = "transfer" /\ call'[t].dir = "produce"
                    /\ CallQueue(t)' = CallQueue(t)
  BY <1>1, <1>2 DEF CallQueue
<1>8. holder = NoThread => call'[t].stage = "none"
  BY <1>1, <1>2 DEF NoCall
<1>9. \A q \in live : producer[q] = t => q = CallQueue(t)
  BY <1>1, <1>2 DEF RInv, NoEndLeaks
<1>10. \A q \in live : consumer[q] # t
  BY <1>1, <1>2 DEF RInv, NoEndLeaks
<1>11. NoEndLeaks'
  <2>1. SUFFICES ASSUME NEW q \in live, NEW u \in Threads
        PROVE  /\ producer'[q] = u =>
                    /\ call'[u].stage \in {"transfer", "close"}
                    /\ call'[u].dir = "produce" /\ CallQueue(u)' = q
               /\ consumer'[q] = u =>
                    /\ call'[u].stage \in {"transfer", "close"}
                    /\ call'[u].dir = "consume" /\ CallQueue(u)' = q
    BY DEF NoEndLeaks
  <2>2. CASE u = t
    <3>1. consumer'[q] # t BY <1>10
    <3>2. producer'[q] = t => q = CallQueue(t) /\ holder = t
      BY <1>1, <1>2, <1>5, <1>6, <1>9
    <3>3. QED BY <2>2, <3>1, <3>2, <1>7
  <2>3. CASE u # t
    <3>1. producer'[q] = u => producer[q] = u BY <2>3, <1>1, <1>2, <1>5, <1>6
    <3>2. QED BY <2>3, <3>1, <1>4 DEF RInv, NoEndLeaks
  <2>4. QED BY <2>2, <2>3
<1>12. CallsHoldEnds'
  <2>1. SUFFICES ASSUME NEW u \in Threads
        PROVE  /\ call'[u].stage # "none" => live' # {}
               /\ call'[u].stage \in {"transfer", "close"} =>
                    /\ call'[u].dir = "produce" => producer'[CallQueue(u)'] = u
                    /\ call'[u].dir = "consume" => consumer'[CallQueue(u)'] = u
    BY DEF CallsHoldEnds
  <2>2. CASE u = t BY <2>2, <1>6, <1>7, <1>8 DEF RInv, CallsHoldEnds
  <2>3. CASE u # t
    <3>1. CallQueue(u) \in Qids BY <1>1, QueuesMade DEF CallQueue
    <3>2. CallQueue(u) = CallQueue(t) => producer[CallQueue(u)] # u
      BY <1>2, <2>3
    <3>3. call'[u] = call[u] /\ CallQueue(u)' = CallQueue(u) BY <1>4, <2>3
    <3>4. QED BY <3>1, <3>2, <3>3, <1>5 DEF RInv, CallsHoldEnds
  <2>4. QED BY <2>2, <2>3
<1>13. QED BY <1>11, <1>12

(* A call that takes or gives back the consuming end of its queue changes  *)
(* nobody else's hold on any end.                                          *)
LEMMA ConsumerEndMoves ==
  ASSUME RInv, NEW t \in Threads,
         NEW holder \in {t, NoThread},
         call[t].dir = "consume", call[t].stage # "none",
         UNCHANGED <<live, producer>>,
         consumer' = [consumer EXCEPT ![CallQueue(t)] = holder],
         consumer[CallQueue(t)] \in {t, NoThread},
         \/ /\ holder = t
            /\ call[t].stage = "open"
            /\ call' = [call EXCEPT ![t].stage = "transfer"]
         \/ /\ holder = NoThread
            /\ call[t].stage = "close"
            /\ call' = [call EXCEPT ![t] = NoCall]
  PROVE  NoEndLeaks' /\ CallsHoldEnds'
<1>1. /\ call \in [Threads -> [stage : Stages, dir : Directions, type : Types]]
      /\ consumer \in [Qids -> Threads \cup {NoThread}]
      /\ producer \in [Qids -> Threads \cup {NoThread}]
      /\ live \subseteq Qids
  <2>1. 0 .. 4 * NumPairs - 1 \subseteq Qids BY RuntimeAssumption
  <2>2. QED BY <2>1 DEF RInv, RuntimeTypeOK
<1>2. NoThread \notin Threads BY RuntimeAssumption DEF NoThread
<1>3. CallQueue(t) \in Qids BY <1>1, QueuesMade DEF CallQueue
<1>4. \A u \in Threads \ {t} : call'[u] = call[u] /\ CallQueue(u)' = CallQueue(u)
  BY <1>1 DEF CallQueue
<1>5. \A q \in Qids \ {CallQueue(t)} : consumer'[q] = consumer[q]
  BY <1>1
<1>6. consumer'[CallQueue(t)] = holder BY <1>1, <1>3
<1>7. holder = t => /\ call'[t].stage = "transfer" /\ call'[t].dir = "consume"
                    /\ CallQueue(t)' = CallQueue(t)
  BY <1>1, <1>2 DEF CallQueue
<1>8. holder = NoThread => call'[t].stage = "none"
  BY <1>1, <1>2 DEF NoCall
<1>9. \A q \in live : consumer[q] = t => q = CallQueue(t)
  BY <1>1, <1>2 DEF RInv, NoEndLeaks
<1>10. \A q \in live : producer[q] # t
  BY <1>1, <1>2 DEF RInv, NoEndLeaks
<1>11. NoEndLeaks'
  <2>1. SUFFICES ASSUME NEW q \in live, NEW u \in Threads
        PROVE  /\ consumer'[q] = u =>
                    /\ call'[u].stage \in {"transfer", "close"}
                    /\ call'[u].dir = "consume" /\ CallQueue(u)' = q
               /\ producer'[q] = u =>
                    /\ call'[u].stage \in {"transfer", "close"}
                    /\ call'[u].dir = "produce" /\ CallQueue(u)' = q
    BY DEF NoEndLeaks
  <2>2. CASE u = t
    <3>1. producer'[q] # t BY <1>10
    <3>2. consumer'[q] = t => q = CallQueue(t) /\ holder = t
      BY <1>1, <1>2, <1>5, <1>6, <1>9
    <3>3. QED BY <2>2, <3>1, <3>2, <1>7
  <2>3. CASE u # t
    <3>1. consumer'[q] = u => consumer[q] = u BY <2>3, <1>1, <1>2, <1>5, <1>6
    <3>2. QED BY <2>3, <3>1, <1>4 DEF RInv, NoEndLeaks
  <2>4. QED BY <2>2, <2>3
<1>12. CallsHoldEnds'
  <2>1. SUFFICES ASSUME NEW u \in Threads
        PROVE  /\ call'[u].stage # "none" => live' # {}
               /\ call'[u].stage \in {"transfer", "close"} =>
                    /\ call'[u].dir = "consume" => consumer'[CallQueue(u)'] = u
                    /\ call'[u].dir = "produce" => producer'[CallQueue(u)'] = u
    BY DEF CallsHoldEnds
  <2>2. CASE u = t BY <2>2, <1>6, <1>7, <1>8 DEF RInv, CallsHoldEnds
  <2>3. CASE u # t
    <3>1. CallQueue(u) \in Qids BY <1>1, QueuesMade DEF CallQueue
    <3>2. CallQueue(u) = CallQueue(t) => consumer[CallQueue(u)] # u
      BY <1>2, <2>3
    <3>3. call'[u] = call[u] /\ CallQueue(u)' = CallQueue(u) BY <1>4, <2>3
    <3>4. QED BY <3>1, <3>2, <3>3, <1>5 DEF RInv, CallsHoldEnds
  <2>4. QED BY <2>2, <2>3
<1>13. QED BY <1>11, <1>12

(* Every step keeps the invariant. *)
LEMMA StepKeepsRInv == RInv /\ [RuntimeNext]_runtimeVars => RInv'
<1>1. SUFFICES ASSUME RInv, [RuntimeNext]_runtimeVars PROVE RInv'
  OBVIOUS
<1>2. /\ live \in {{}, 0 .. 4 * NumPairs - 1}
      /\ chan \in [Qids -> Seq(Values)]
      /\ delivered \in [Qids -> Values \cup {None}]
      /\ producer \in [Qids -> Threads \cup {NoThread}]
      /\ consumer \in [Qids -> Threads \cup {NoThread}]
      /\ call \in [Threads -> [stage : Stages, dir : Directions, type : Types]]
  BY <1>1 DEF RInv, RuntimeTypeOK
<1>3. NoThread \notin Threads BY RuntimeAssumption DEF NoThread
<1>4. \A t \in Threads : CallQueue(t) \in Qids
  BY <1>2, QueuesMade DEF CallQueue
<1>5. CASE desc_init
  <2>1. /\ live = {} /\ UNCHANGED call
        /\ live' = 0 .. 4 * NumPairs - 1
    BY <1>5, RuntimeAssumption DEF desc_init, Create
  <2>2. /\ chan' = [q \in Qids |-> IF q \in live' THEN <<>> ELSE chan[q]]
        /\ delivered' = [q \in Qids |-> IF q \in live' THEN None ELSE delivered[q]]
        /\ producer' = [q \in Qids |-> IF q \in live' THEN NoThread ELSE producer[q]]
        /\ consumer' = [q \in Qids |-> IF q \in live' THEN NoThread ELSE consumer[q]]
    BY <1>5, RuntimeAssumption DEF desc_init, Create
  <2>3. RuntimeTypeOK'
    <3>1. chan' \in [Qids -> Seq(Values)] BY <2>2, <1>2
    <3>2. delivered' \in [Qids -> Values \cup {None}] BY <2>2, <1>2
    <3>3. producer' \in [Qids -> Threads \cup {NoThread}] BY <2>2, <1>2
    <3>4. consumer' \in [Qids -> Threads \cup {NoThread}] BY <2>2, <1>2
    <3>5. QED BY <2>1, <3>1, <3>2, <3>3, <3>4, <1>2 DEF RuntimeTypeOK
  <2>4. \A t \in Threads : call[t].stage = "none"
    BY <1>1, <2>1 DEF RInv, CallsHoldEnds
  <2>5. \A q \in live' : producer'[q] = NoThread /\ consumer'[q] = NoThread
    <3>1. live' \subseteq Qids BY <2>1, RuntimeAssumption
    <3>2. QED BY <3>1, <2>2
  <2>6. QED BY <2>1, <2>3, <2>4, <2>5, <1>3 DEF RInv, NoEndLeaks, CallsHoldEnds
<1>6. ASSUME NEW t \in Threads, NEW dir \in Directions, NEW type \in Types,
             desc_call(t, dir, type)
      PROVE  RInv'
  <2>1. /\ live # {} /\ call[t].stage = "none" /\ UNCHANGED vars
        /\ call' = [call EXCEPT ![t] = [stage |-> "open", dir |-> dir,
                                        type |-> type]]
    BY <1>6 DEF desc_call
  <2>2. RuntimeTypeOK' BY <2>1, <1>2, <1>6 DEF RuntimeTypeOK, vars, Stages
  <2>3. \A u \in Threads \ {t} : call'[u] = call[u] /\ CallQueue(u)' = CallQueue(u)
    BY <2>1, <1>2 DEF CallQueue
  <2>4. call'[t].stage = "open" BY <2>1, <1>2
  <2>5. NoEndLeaks'
    <3>1. \A q \in live : producer[q] # t /\ consumer[q] # t
      BY <1>1, <2>1 DEF RInv, NoEndLeaks
    <3>2. QED BY <3>1, <1>1, <2>1, <2>3 DEF RInv, NoEndLeaks, vars
  <2>6. CallsHoldEnds'
    BY <1>1, <2>1, <2>3, <2>4 DEF RInv, CallsHoldEnds, vars
  <2>7. QED BY <2>2, <2>5, <2>6 DEF RInv
<1>7. ASSUME NEW t \in Threads, open_queue(t) PROVE RInv'
  <2>1. /\ call[t].stage = "open"
        /\ call' = [call EXCEPT ![t].stage = "transfer"]
    BY <1>7 DEF open_queue, To
  <2>2. call' \in [Threads -> [stage : Stages, dir : Directions, type : Types]]
    BY <2>1, <1>2 DEF Stages
  <2>3. CASE call[t].dir = "produce"
    <3>1. OpenProducer(t, CallQueue(t)) BY <1>7, <2>3 DEF open_queue
    <3>2. RuntimeTypeOK' BY <3>1, <2>2, <1>2 DEF OpenProducer, RuntimeTypeOK
    <3>3. NoEndLeaks' /\ CallsHoldEnds'
      BY <3>1, <2>1, <2>3, <1>1, ProducerEndMoves DEF OpenProducer
    <3>4. QED BY <3>2, <3>3 DEF RInv
  <2>4. CASE call[t].dir = "consume"
    <3>1. OpenConsumer(t, CallQueue(t)) BY <1>7, <2>4 DEF open_queue
    <3>2. RuntimeTypeOK' BY <3>1, <2>2, <1>2 DEF OpenConsumer, RuntimeTypeOK
    <3>3. NoEndLeaks' /\ CallsHoldEnds'
      BY <3>1, <2>1, <2>4, <1>1, ConsumerEndMoves DEF OpenConsumer
    <3>4. QED BY <3>2, <3>3 DEF RInv
  <2>5. QED BY <2>3, <2>4, <1>2 DEF Directions
<1>8. ASSUME NEW t \in Threads, To(t, "transfer", "close"),
             UNCHANGED <<live, producer, consumer>>,
             chan' \in [Qids -> Seq(Values)],
             delivered' \in [Qids -> Values \cup {None}]
      PROVE  RInv'
  <2>1. /\ call[t].stage = "transfer"
        /\ call' = [call EXCEPT ![t].stage = "close"]
    BY <1>8 DEF To
  <2>2. /\ call' \in [Threads -> [stage : Stages, dir : Directions, type : Types]]
        /\ call'[t].stage = "close" /\ call'[t].dir = call[t].dir
    BY <2>1, <1>2 DEF Stages
  <2>3. RuntimeTypeOK' BY <1>8, <2>2, <1>2 DEF RuntimeTypeOK
  <2>4. \A u \in Threads : CallQueue(u)' = CallQueue(u)
    BY <2>1, <1>2 DEF CallQueue
  <2>5. \A u \in Threads \ {t} : call'[u] = call[u]
    BY <2>1, <1>2
  <2>6. NoEndLeaks'
    BY <1>1, <1>8, <2>2, <2>4, <2>5 DEF RInv, NoEndLeaks
  <2>7. CallsHoldEnds'
    BY <1>1, <1>8, <2>1, <2>2, <2>4, <2>5 DEF RInv, CallsHoldEnds
  <2>8. QED BY <2>3, <2>6, <2>7 DEF RInv
<1>9. ASSUME NEW t \in Threads, NEW v \in Values, produce(t, v) PROVE RInv'
  <2>1. To(t, "transfer", "close") /\ Send(t, CallQueue(t), v)
    BY <1>9 DEF produce
  <2>2. chan' \in [Qids -> Seq(Values)] BY <2>1, <1>2, <1>4 DEF Send
  <2>3. QED BY <2>1, <2>2, <1>2, <1>8 DEF Send
<1>10. ASSUME NEW t \in Threads, consume(t) PROVE RInv'
  <2>1. To(t, "transfer", "close") /\ Receive(t, CallQueue(t))
    BY <1>10 DEF consume
  <2>2. PICK s \in Seq(Values) : s = chan[CallQueue(t)] BY <1>2, <1>4
  <2>3. s # <<>> BY <2>1, <2>2 DEF Receive
  <2>4. Tail(s) \in Seq(Values) /\ Head(s) \in Values BY <2>3
  <2>5. chan' \in [Qids -> Seq(Values)]
    BY <2>1, <2>2, <2>4, <1>2, <1>4 DEF Receive
  <2>6. delivered' \in [Qids -> Values \cup {None}]
    BY <2>1, <2>2, <2>4, <1>2, <1>4 DEF Receive
  <2>7. QED BY <2>1, <2>5, <2>6, <1>8 DEF Receive
<1>11. ASSUME NEW t \in Threads, close_queue(t) PROVE RInv'
  <2>1. call[t].stage = "close" /\ call' = [call EXCEPT ![t] = NoCall]
    BY <1>11 DEF close_queue
  <2>2. call' \in [Threads -> [stage : Stages, dir : Directions, type : Types]]
    BY <2>1, <1>2 DEF NoCall, Stages, Directions, Types
  <2>3. CASE call[t].dir = "produce"
    <3>1. CloseProducer(t, CallQueue(t)) BY <1>11, <2>3 DEF close_queue
    <3>2. RuntimeTypeOK' BY <3>1, <2>2, <1>2 DEF CloseProducer, RuntimeTypeOK
    <3>3. NoEndLeaks' /\ CallsHoldEnds'
      BY <3>1, <2>1, <2>3, <1>1, ProducerEndMoves DEF CloseProducer
    <3>4. QED BY <3>2, <3>3 DEF RInv
  <2>4. CASE call[t].dir = "consume"
    <3>1. CloseConsumer(t, CallQueue(t)) BY <1>11, <2>4 DEF close_queue
    <3>2. RuntimeTypeOK' BY <3>1, <2>2, <1>2 DEF CloseConsumer, RuntimeTypeOK
    <3>3. NoEndLeaks' /\ CallsHoldEnds'
      BY <3>1, <2>1, <2>4, <1>1, ConsumerEndMoves DEF CloseConsumer
    <3>4. QED BY <3>2, <3>3 DEF RInv
  <2>5. QED BY <2>3, <2>4, <1>2 DEF Directions
<1>12. CASE UNCHANGED runtimeVars
  BY <1>1, <1>12
     DEF runtimeVars, vars, RInv, RuntimeTypeOK, NoEndLeaks, CallsHoldEnds, CallQueue
<1>13. QED
  BY <1>1, <1>5, <1>6, <1>7, <1>9, <1>10, <1>11, <1>12 DEF RuntimeNext, InCall

(* Before desc_init there is no queue and no call. *)
LEMMA RuntimeStarts == RuntimeInit => RInv
<1>1. SUFFICES ASSUME RuntimeInit PROVE RInv
  OBVIOUS
<1>2. 0 \in Threads BY RuntimeAssumption
<1>3. RuntimeTypeOK
  BY <1>1, <1>2
     DEF RuntimeInit, Init, RuntimeTypeOK, NoCall, Stages, Directions, Types
<1>4. QED
  BY <1>1, <1>3 DEF RuntimeInit, Init, RInv, NoEndLeaks, CallsHoldEnds, NoCall

(* The invariant holds in every reachable state. *)
THEOREM RInvAlways == RuntimeSpec => []RInv
BY RuntimeStarts, StepKeepsRInv, PTL DEF RuntimeSpec

-----------------------------------------------------------------------------
(* What it gives.                                                          *)

(* The variables of the runtime keep their types, for any number of pairs. *)
THEOREM RuntimeTypeOKAlways == RuntimeSpec => []RuntimeTypeOK
<1>1. RInv => RuntimeTypeOK BY DEF RInv
<1>2. QED BY <1>1, RInvAlways, PTL

(* No desc_* call leaves an end of a queue behind. *)
THEOREM NoEndLeaksAlways == RuntimeSpec => []NoEndLeaks
<1>1. RInv => NoEndLeaks BY DEF RInv
<1>2. QED BY <1>1, RInvAlways, PTL

(* A desc_* call never spins on the ownership of its queue. *)
THEOREM OpensAtOnceAlways == RuntimeSpec => []OpensAtOnce
<1>1. RInv => OpensAtOnce
  <2>1. SUFFICES ASSUME RInv, NEW t \in Threads, call[t].stage = "open"
        PROVE  /\ CallQueue(t) \in live
               /\ call[t].dir = "produce" => producer[CallQueue(t)] = NoThread
               /\ call[t].dir # "produce" => consumer[CallQueue(t)] = NoThread
    BY DEF OpensAtOnce
  <2>2. /\ call \in [Threads -> [stage : Stages, dir : Directions, type : Types]]
        /\ producer \in [Qids -> Threads \cup {NoThread}]
        /\ consumer \in [Qids -> Threads \cup {NoThread}]
    BY <2>1 DEF RInv, RuntimeTypeOK
  <2>3. CallQueue(t) \in live /\ CallQueue(t) \in Qids
    BY <2>1, <2>2, QueuesMade DEF RInv, RuntimeTypeOK, CallsHoldEnds, CallQueue
  <2>4. ASSUME NEW u \in Threads, call[u].stage \in {"transfer", "close"},
               call[u].dir = call[t].dir, CallQueue(u) = CallQueue(t)
        PROVE  FALSE
    BY <2>1, <2>2, <2>4, OneThreadPerQueueEnd DEF CallQueue
  <2>5. call[t].dir = "produce" => producer[CallQueue(t)] = NoThread
    BY <2>1, <2>2, <2>3, <2>4 DEF RInv, NoEndLeaks
  <2>6. call[t].dir # "produce" => consumer[CallQueue(t)] = NoThread
    BY <2>1, <2>2, <2>3, <2>4 DEF RInv, NoEndLeaks, Directions
  <2>7. QED BY <2>3, <2>5, <2>6
<1>2. QED BY <1>1, RInvAlways, PTL

(* A queue joins the two threads of a pair and no others. *)
THEOREM PairsTalkAlways == RuntimeSpec => []PairsTalk
<1>1. RInv => PairsTalk
  <2>1. SUFFICES ASSUME RInv, NEW q \in live,
                        producer[q] # NoThread, consumer[q] # NoThread
        PROVE  consumer[q] = Partner(producer[q])
    BY DEF PairsTalk
  <2>2. /\ call \in [Threads -> [stage : Stages, dir : Directions, type : Types]]
        /\ producer[q] \in Threads /\ consumer[q] \in Threads
    BY <2>1, RuntimeAssumption, SMTT(30) DEF RInv, RuntimeTypeOK
  <2>3. PICK t \in Threads, u \in Threads : t = producer[q] /\ u = consumer[q]
    BY <2>2
  <2>4. /\ call[t].dir = "produce" /\ CallQueue(t) = q
        /\ call[u].dir = "consume" /\ CallQueue(u) = q
    BY <2>1, <2>3 DEF RInv, NoEndLeaks
  <2>5. u = Partner(t) BY <2>2, <2>4, PairPerQueue DEF CallQueue
  <2>6. QED BY <2>3, <2>5
<1>2. QED BY <1>1, RInvAlways, PTL
=============================================================================
