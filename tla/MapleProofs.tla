---------------------------- MODULE MapleProofs ----------------------------
(***************************************************************************)
(* The safety of DecoupleServer over MapleRuntime, for any number of       *)
(* pairs, tiles and slots and any scripts.  main and the threads share the *)
(* device: the argument is that a thread past its wait knows main to be    *)
(* done, so that no reset takes an end from it, and that what main knows   *)
(* of the tiles at each step is what its last answer says.                 *)
(***************************************************************************)
EXTENDS DecoupleServer, SequenceTheorems, TLAPS

Asked == 4 * NumPairs   \* both counts of desc_init("d")

Holders == Threads \cup {Nobody, Earlier}
Steps == {"idle", "open", "connect", "transfer", "close"}

ServerType ==
  /\ ready \in [Tiles -> BOOLEAN] /\ base \in [Tiles -> BOOLEAN]
  /\ initialized \in BOOLEAN
  /\ taken \in [Fifos -> [producer : Holders, consumer : Holders]]
  /\ buf \in [Fifos -> Seq([val : Nat, here : BOOLEAN])]
  /\ \A f \in Fifos : Len(buf[f]) <= Slots
  /\ fpid \in [Qids -> Fifos \cup {NoFifo}]
  /\ fcid \in [Qids -> Fifos \cup {NoFifo}]
  /\ main \in [step : {"call", "clean", "tile", "count"}, tile : Nat, allocated : Nat]
  /\ main.tile <= main.allocated /\ main.allocated <= MaxTiles
  /\ call \in [Threads -> [do : {"none", "produce", "load", "consume"}, qid : Qids,
                           step : Steps, val : Nat]]
  /\ sent \in [Qids -> Seq(Nat)] /\ received \in [Qids -> Seq(Nat)]
  /\ answer \in [count : Nat, res : Nat]
  /\ made \in [Threads -> Nat]

(* What main knows of the tiles, and what is left to its callers.          *)
MainKnows ==
  /\ inits \in {<<Asked, Asked>>, <<Asked>>, <<>>}
  /\ main.step # "call" => \A i \in Tiles : i < main.allocated => base[i]
  /\ main.step \in {"clean", "tile"} => main.tile < main.allocated
  /\ main.step = "clean" => main.tile = 0
  /\ main.step \in {"tile", "count"} => \A i \in Tiles : i < main.tile => ready[i]
  /\ inits = <<>> =>
       /\ answer.count = Asked
       /\ \A i \in Tiles : 2 * i < answer.res => base[i] /\ ready[i]
  /\ answer.res > 0 => initialized

(* What a thread in a call knows: the queue is one of its own, main is     *)
(* done once the wait has ended, and its end is its own until it closes.   *)
Busy(t) == call[t].step \in {"transfer", "close"}
CallKnows(t) ==
  LET q == call[t].qid
  IN  /\ call[t].step = "idle" <=> call[t].do = "none"
      /\ call[t].step = "idle" => call[t] = Idle
      /\ call[t].step # "idle" => Started
      /\ call[t].do \in {"produce", "load"} => t < NumPairs /\ q \in {t, t + 3 * NumPairs}
      /\ call[t].do = "consume" =>
           NumPairs <= t /\ q \in {t - NumPairs, t + 2 * NumPairs}
      /\ call[t].step \in {"connect", "transfer", "close"} => initialized
      /\ Busy(t) /\ call[t].do # "consume" =>
           fpid[q] = FifoOf(q) /\ taken[FifoOf(q)].producer = t
      /\ Busy(t) /\ call[t].do = "consume" =>
           fcid[q] = FifoOf(q) /\ taken[FifoOf(q)].consumer = t

(* An end that a thread holds is the one its call is about.                *)
EndsInUse ==
  \A f \in Fifos, t \in Threads :
    /\ taken[f].producer = t =>
         Busy(t) /\ call[t].do # "consume" /\ FifoOf(call[t].qid) = f
    /\ taken[f].consumer = t =>
         Busy(t) /\ call[t].do = "consume" /\ FifoOf(call[t].qid) = f

SInv ==
  /\ ServerType /\ MainKnows /\ EndsInUse
  /\ \A t \in Threads : CallKnows(t)

(* The tiles whose queues can be told: the first one only when             *)
(* dec_fifo_cleanup has been there.                                        *)
Fit(i) == i # 0 \/ initialized \/ main.step \in {"tile", "count"}

Passed(values, in, out) ==
  /\ Len(in) = Len(out) + Len(values)
  /\ \A i \in 1 .. Len(out) : out[i] = in[i]
  /\ \A i \in 1 .. Len(values) : values[i].val = in[Len(out) + i]

(* A queue holds what was sent and not yet received, after what an earlier *)
(* program may have left there; on the first tile, nothing is left.        *)
Lefts == {<<>>, <<0>>}
InQueue(q) ==
  \E left \in Lefts :
    /\ FifoOf(q)[1] = 0 => left = <<>>
    /\ Passed(buf[FifoOf(q)], left \o sent[q], received[q])

(* Nothing is passed on before main is done, and no earlier program holds  *)
(* an end of a queue of the first tile once that has been reset.           *)
CleanQueues ==
  /\ inits # <<>> \/ ~ initialized =>
       \A q \in Qids : sent[q] = <<>> /\ received[q] = <<>>
  /\ \A q \in Qids : Fit(FifoOf(q)[1]) => InQueue(q)
  /\ \A f \in Fifos :
       f[1] = 0 /\ Fit(0) => Earlier \notin {taken[f].producer, taken[f].consumer}

-----------------------------------------------------------------------------
(* Numbers of threads, queues and tiles. *)

(* A queue number names one queue of one tile. *)
LEMMA QueueOfNumber ==
  /\ \A q \in Qids : FifoOf(q) \in Fifos
  /\ \A q \in Nat : FifoOf(q)[1] = q \div 2 /\ FifoOf(q)[2] = q % 2
  /\ \A p, q \in Nat : FifoOf(p) = FifoOf(q) => p = q
  <1>1. ASSUME NEW q \in Nat
        PROVE  q = 2 * (q \div 2) + (q % 2) /\ q \div 2 \in Nat /\ q % 2 \in 0 .. 1
    OBVIOUS
  <1>2. ASSUME NEW q \in Qids PROVE FifoOf(q) \in Fifos
    <2>1. q \in Nat /\ q < MaxTiles * 2 /\ MaxTiles \in Nat
      BY MapleAssumption DEF Qids, queues_per_tile
    <2>2. q \div 2 \in 0 .. MaxTiles - 1 /\ q % 2 \in 0 .. 2 - 1
      BY <2>1
    <2> QED  BY <2>2 DEF FifoOf, Fifos, Tiles, queues_per_tile
  <1>3. ASSUME NEW p \in Nat, NEW q \in Nat, FifoOf(p) = FifoOf(q) PROVE p = q
    <2>1. p \div 2 = q \div 2 /\ p % 2 = q % 2
      BY <1>3 DEF FifoOf, queues_per_tile
    <2> QED  BY <1>1, <2>1
  <1> QED  BY <1>2, <1>3 DEF FifoOf, queues_per_tile

(* The threads, and the queues of a thread: all within what desc_init asks *)
(* for, which the device has.                                              *)
LEMMA ThreadNumbers ==
  /\ NumPairs \in Nat \ {0} /\ Asked \in Nat
  /\ Nobody \notin Threads /\ Earlier \notin Threads /\ Nobody # Earlier
  /\ 0 .. Asked - 1 \subseteq Qids /\ Qids \subseteq Nat
  /\ \A t \in Threads :
       /\ t \in Nat /\ t < 2 * NumPairs
       /\ t < NumPairs => {t, t + 3 * NumPairs} \subseteq 0 .. Asked - 1
       /\ NumPairs <= t => {t - NumPairs, t + 2 * NumPairs} \subseteq 0 .. Asked - 1
  <1>1. /\ NumPairs \in Nat \ {0} /\ MaxTiles \in Nat /\ 2 * NumPairs <= MaxTiles
        /\ Threads = 0 .. 2 * NumPairs - 1
    BY ServerAssumption, MapleAssumption
  <1> QED  BY <1>1 DEF Asked, Nobody, Earlier, Qids, queues_per_tile

(* The initial states. *)
LEMMA InitHolds == Init => SInv
  <1> SUFFICES ASSUME Init PROVE SInv
    OBVIOUS
  <1>1. PICK dirty \in DirtySets : MapleInit(dirty)
    BY DEF Init
  <1>2. /\ base = [i \in Tiles |-> FALSE] /\ initialized = FALSE
        /\ ready = [i \in Tiles |-> i \in dirty]
        /\ fpid = [q \in Qids |-> NoFifo] /\ fcid = [q \in Qids |-> NoFifo]
        /\ call = [t \in Threads |-> Idle]
        /\ sent = [q \in Qids |-> <<>>] /\ received = [q \in Qids |-> <<>>]
        /\ answer = [count |-> 0, res |-> 0]
        /\ main = [step |-> "call", tile |-> 0, allocated |-> 0]
        /\ made = [t \in Threads |-> 0]
    BY <1>1 DEF Init, MapleInit
  <1>3. /\ taken \in [Fifos -> [producer : {Nobody, Earlier}, consumer : {Nobody, Earlier}]]
        /\ buf \in [Fifos -> Seq([val : Nat, here : BOOLEAN])]
        /\ \A f \in Fifos : Len(buf[f]) <= Slots
    <2>1. PICK ends \in [producer : {Nobody, Earlier}, consumer : {Nobody, Earlier}],
               left \in {<<>>, <<[val |-> 0, here |-> TRUE]>>} :
            /\ taken = [f \in Fifos |-> IF f[1] \in dirty THEN ends ELSE Free]
            /\ buf = [f \in Fifos |-> IF f[1] \in dirty THEN left ELSE <<>>]
      BY <1>1 DEF MapleInit
    <2>2. Free \in [producer : {Nobody, Earlier}, consumer : {Nobody, Earlier}]
      BY DEF Free
    <2>3. /\ left \in Seq([val : Nat, here : BOOLEAN]) /\ Len(left) <= Slots
          /\ <<>> \in Seq([val : Nat, here : BOOLEAN]) /\ Len(<<>>) <= Slots
      <3>1. <<[val |-> 0, here |-> TRUE]>> \in Seq([val : Nat, here : BOOLEAN])
        OBVIOUS
      <3>2. Len(<<[val |-> 0, here |-> TRUE]>>) = 1 /\ Len(<<>>) = 0
        OBVIOUS
      <3>3. 1 <= Slots /\ 0 <= Slots
        BY MapleAssumption
      <3>4. CASE left = <<>>
        BY <3>2, <3>3, <3>4
      <3>5. CASE left = <<[val |-> 0, here |-> TRUE]>>
        BY <3>1, <3>2, <3>3, <3>5
      <3> QED  BY <3>4, <3>5
    <2> QED  BY <2>1, <2>2, <2>3
  <1>4. inits = <<Asked, Asked>>
    <2> DEFINE both == 2 * (NumPairs + NumPairs)
    <2>1. both = Asked
      BY ThreadNumbers DEF Asked
    <2>2. inits = desc_init("d")
      BY DEF Init
    <2>3. desc_init("d") = CASE "d" = "c" -> <<NumPairs, both, both>>
                             [] "d" = "d" -> <<both, both>>
                             [] "d" = "g" -> <<both>>
      BY Zenon DEF desc_init, DEC_NUM_PRODUCERS, DEC_NUM_CONSUMERS
    <2> HIDE DEF both
    <2> QED  BY <2>1, <2>2, <2>3
  <1>5. ServerType
    <2>1. 0 \in Qids /\ MaxTiles \in Nat
      BY MapleAssumption DEF Qids, queues_per_tile
    <2>2. call \in [Threads -> [do : {"none", "produce", "load", "consume"}, qid : Qids,
                               step : Steps, val : Nat]]
      BY <1>2, <2>1 DEF Idle, Steps
    <2>3. taken \in [Fifos -> [producer : Holders, consumer : Holders]]
      BY <1>3 DEF Holders
    <2>4. /\ ready \in [Tiles -> BOOLEAN] /\ base \in [Tiles -> BOOLEAN]
          /\ fpid \in [Qids -> Fifos \cup {NoFifo}]
          /\ fcid \in [Qids -> Fifos \cup {NoFifo}]
      BY <1>2
    <2>5. /\ sent \in [Qids -> Seq(Nat)] /\ received \in [Qids -> Seq(Nat)]
          /\ made \in [Threads -> Nat]
      <3>1. <<>> \in Seq(Nat)
        OBVIOUS
      <3> QED  BY <1>2, <3>1
    <2>6. /\ main \in [step : {"call", "clean", "tile", "count"}, tile : Nat, allocated : Nat]
          /\ main.tile <= main.allocated /\ main.allocated <= MaxTiles
          /\ answer \in [count : Nat, res : Nat] /\ initialized \in BOOLEAN
      <3>1. main.tile = 0 /\ main.allocated = 0
        BY <1>2
      <3>2. 0 <= 0 /\ 0 <= MaxTiles
        BY <2>1
      <3>3. main \in [step : {"call", "clean", "tile", "count"}, tile : Nat, allocated : Nat]
        BY <1>2
      <3>4. answer \in [count : Nat, res : Nat]
        BY <1>2
      <3> QED  BY <1>2, <3>1, <3>2, <3>3, <3>4
    <2> QED  BY <1>3, <2>2, <2>3, <2>4, <2>5, <2>6 DEF ServerType
  <1>6. MainKnows
    <2>1. inits # <<>>
      BY <1>4
    <2>2. main.step = "call" /\ answer.res = 0
      BY <1>2
    <2> QED  BY <1>4, <2>1, <2>2 DEF MainKnows
  <1>7. EndsInUse
    BY <1>3, ThreadNumbers DEF EndsInUse
  <1>8. \A t \in Threads : CallKnows(t)
    BY <1>2 DEF CallKnows, Idle, Busy
  <1> QED  BY <1>5, <1>6, <1>7, <1>8 DEF SInv

-----------------------------------------------------------------------------
(* The steps of main. *)

(* While dec_fifo_init is still to be called, no thread is in a call, and  *)
(* none holds an end.                                                      *)
LEMMA NobodyPasses ==
  ASSUME SInv, inits # <<>>
  PROVE  /\ \A t \in Threads : call[t].step = "idle" /\ ~ Busy(t)
         /\ \A f \in Fifos : taken[f].producer \notin Threads /\ taken[f].consumer \notin Threads
  <1>1. \A t \in Threads : call[t].step = "idle"
    BY DEF SInv, CallKnows, Started
  <1>2. \A t \in Threads : ~ Busy(t)
    BY <1>1 DEF Busy
  <1> QED  BY <1>1, <1>2 DEF SInv, EndsInUse

(* So what threads know outlives a step of main.                           *)
LEMMA CallersKept ==
  ASSUME SInv, inits # <<>>, call' = call,
         \A f \in Fifos : taken'[f].producer \notin Threads /\ taken'[f].consumer \notin Threads
  PROVE  EndsInUse' /\ \A t \in Threads : CallKnows(t)'
  <1>1. EndsInUse'
    BY DEF EndsInUse
  <1>2. ASSUME NEW t \in Threads PROVE CallKnows(t)'
    <2>1. call'[t] = call[t] /\ call[t].step = "idle" /\ ~ Busy(t)'
      BY NobodyPasses DEF Busy
    <2> QED  BY <2>1 DEF SInv, CallKnows
  <1> QED  BY <1>1, <1>2

(* What the end of a dec_fifo_init leaves to the next one.                 *)
LEMMA InitsShrinks ==
  ASSUME SInv, inits # <<>>
  PROVE  /\ Tail(inits) \in {<<Asked>>, <<>>}
         /\ Tail(inits) = <<>> => Count = Asked
         /\ Count \in Nat
         /\ num_tiles \in Nat
  <1>1. Asked \in Nat
    BY ThreadNumbers
  <1>2. inits \in {<<Asked, Asked>>, <<Asked>>}
    BY DEF SInv, MainKnows
  <1>3. /\ Head(<<Asked, Asked>>) = Asked /\ Head(<<Asked>>) = Asked
        /\ Tail(<<Asked, Asked>>) = <<Asked>> /\ Tail(<<Asked>>) = <<>>
    <2>1. Tail(<<Asked, Asked>>) = <<Asked>>
      OBVIOUS
    <2>2. Tail(<<Asked>>) = <<>>
      OBVIOUS
    <2> QED  BY <2>1, <2>2
  <1>4. /\ Count \in Nat /\ Tail(inits) \in {<<Asked>>, <<>>}
        /\ Tail(inits) = <<>> => Count = Asked
    BY <1>1, <1>2, <1>3 DEF Count
  <1>5. num_tiles \in Nat
    BY <1>4 DEF num_tiles, queues_per_tile
  <1> QED  BY <1>4, <1>5

LEMMA AllocStep ==
  ASSUME SInv, alloc_tile, UNCHANGED made
  PROVE  SInv'
  <1>1. PICK n \in 0 .. num_tiles :
          /\ n <= MaxTiles
          /\ base' = [i \in Tiles |-> base[i] \/ i < n]
          /\ IF n = 0 THEN InitReturns(0)
             ELSE /\ main' = [step |-> "clean", tile |-> 0, allocated |-> n]
                  /\ UNCHANGED <<inits, answer>>
    BY DEF alloc_tile
  <1>2. /\ inits # <<>> /\ main.step = "call"
        /\ UNCHANGED <<ready, taken, buf, initialized, fpid, fcid, call, sent, received, made>>
    BY DEF alloc_tile, At, device, history
  <1>3. n \in Nat /\ Count \in Nat
    BY <1>1, <1>2, InitsShrinks
  <1>4. base' \in [Tiles -> BOOLEAN] /\ \A i \in Tiles : (base[i] \/ i < n) => base'[i]
    BY <1>1 DEF SInv, ServerType
  <1>5. ServerType'
    <2>1. /\ main' \in [step : {"call", "clean", "tile", "count"}, tile : Nat, allocated : Nat]
          /\ main'.tile <= main'.allocated /\ main'.allocated <= MaxTiles
          /\ answer' \in [count : Nat, res : Nat]
      BY <1>1, <1>3, MapleAssumption DEF InitReturns, SInv, ServerType
    <2> QED  BY <1>2, <1>4, <2>1 DEF SInv, ServerType
  <1>6. MainKnows'
    <2>1. CASE n = 0
      <3>1. /\ answer' = [count |-> Count, res |-> 0] /\ inits' = Tail(inits)
            /\ main'.step = "call"
        BY <1>1, <2>1 DEF InitReturns
      <3>2. \A i \in Tiles : ~ 2 * i < answer'.res
        BY <3>1 DEF Tiles
      <3> QED  BY <1>2, <3>1, <3>2, InitsShrinks DEF MainKnows
    <2>2. CASE n # 0
      <3>1. /\ main' = [step |-> "clean", tile |-> 0, allocated |-> n]
            /\ inits' = inits /\ answer' = answer
        BY <1>1, <2>2
      <3>2. 0 < n
        BY <1>3, <2>2
      <3> QED  BY <1>2, <1>4, <3>1, <3>2 DEF SInv, MainKnows
    <2> QED  BY <2>1, <2>2
  <1>7. EndsInUse' /\ \A t \in Threads : CallKnows(t)'
    BY <1>1, <1>2, CallersKept, NobodyPasses DEF InitReturns
  <1> QED  BY <1>5, <1>6, <1>7 DEF SInv

LEMMA CleanupStep ==
  ASSUME SInv, dec_fifo_cleanup, UNCHANGED made
  PROVE  SInv'
  <1>1. /\ inits # <<>> /\ main.step = "clean"
        /\ ready' = [ready EXCEPT ![0] = FALSE]
        /\ taken' = [f \in Fifos |-> IF f[1] = 0 THEN Free ELSE taken[f]]
        /\ buf' = [f \in Fifos |-> IF f[1] = 0 THEN <<>> ELSE buf[f]]
        /\ main' = [main EXCEPT !.step = "tile"]
        /\ UNCHANGED <<base, initialized, fpid, fcid, inits, call, sent, received, answer, made>>
    BY DEF dec_fifo_cleanup, At, history
  <1>2. /\ main'.step = "tile" /\ main'.tile = main.tile /\ main'.allocated = main.allocated
        /\ main' \in [step : {"call", "clean", "tile", "count"}, tile : Nat, allocated : Nat]
    BY <1>1 DEF SInv, ServerType
  <1>3. ServerType'
    <2>1. Free \in [producer : Holders, consumer : Holders]
      BY DEF Free, Holders
    <2>2. <<>> \in Seq([val : Nat, here : BOOLEAN]) /\ Len(<<>>) <= Slots
      BY MapleAssumption
    <2>3. taken' \in [Fifos -> [producer : Holders, consumer : Holders]]
      BY <1>1, <2>1 DEF SInv, ServerType
    <2>4. /\ buf' \in [Fifos -> Seq([val : Nat, here : BOOLEAN])]
          /\ \A f \in Fifos : Len(buf'[f]) <= Slots
      BY <1>1, <2>2 DEF SInv, ServerType
    <2> QED  BY <1>1, <1>2, <2>3, <2>4 DEF SInv, ServerType
  <1>4. MainKnows'
    <2>1. main.tile = 0 /\ \A i \in Tiles : ~ i < main.tile
      BY <1>1 DEF SInv, MainKnows, Tiles
    <2> QED  BY <1>1, <1>2, <2>1 DEF SInv, MainKnows
  <1>5. EndsInUse' /\ \A t \in Threads : CallKnows(t)'
    <2>1. \A f \in Fifos : taken'[f].producer \notin Threads /\ taken'[f].consumer \notin Threads
      BY <1>1, NobodyPasses, ThreadNumbers DEF Free
    <2> QED  BY <1>1, <2>1, CallersKept
  <1> QED  BY <1>3, <1>4, <1>5 DEF SInv

LEMMA InitTileStep ==
  ASSUME SInv, InitTile, UNCHANGED made
  PROVE  SInv'
  <1>1. PICK yes \in BOOLEAN :
          /\ ready' = [ready EXCEPT ![main.tile] = @ \/ yes]
          /\ main' = [main EXCEPT !.tile = IF yes THEN @ + 1 ELSE @,
                                  !.step = IF yes /\ main.tile + 1 < main.allocated
                                           THEN "tile" ELSE "count"]
    BY DEF InitTile
  <1>2. /\ inits # <<>> /\ main.step = "tile"
        /\ UNCHANGED <<taken, buf, base, initialized, fpid, fcid, inits, call, sent,
                       received, answer, made>>
    BY DEF InitTile, At, history
  <1>3. /\ main.tile \in Nat /\ main.allocated \in Nat /\ main.tile < main.allocated
        /\ main.allocated <= MaxTiles /\ MaxTiles \in Nat
    BY <1>2, MapleAssumption DEF SInv, ServerType, MainKnows
  <1>4. /\ main'.tile = (IF yes THEN main.tile + 1 ELSE main.tile)
        /\ main'.allocated = main.allocated
        /\ main'.step = IF yes /\ main.tile + 1 < main.allocated THEN "tile" ELSE "count"
        /\ main' \in [step : {"call", "clean", "tile", "count"}, tile : Nat, allocated : Nat]
    <2> DEFINE next == IF yes /\ main.tile + 1 < main.allocated THEN "tile" ELSE "count"
               tile == IF yes THEN main.tile + 1 ELSE main.tile
    <2>1. main \in [step : {"call", "clean", "tile", "count"}, tile : Nat, allocated : Nat]
      BY DEF SInv, ServerType
    <2>2. main' = [main EXCEPT !.tile = tile, !.step = next]
      BY <1>1, Zenon
    <2>3. tile \in Nat /\ next \in {"tile", "count"}
      BY <1>3
    <2> HIDE DEF next, tile
    <2>4. /\ main'.tile = tile /\ main'.step = next /\ main'.allocated = main.allocated
          /\ main' \in [step : {"call", "clean", "tile", "count"}, tile : Nat, allocated : Nat]
      BY <2>1, <2>2, <2>3
    <2> QED  BY <2>4 DEF next, tile
  <1>5. /\ ready' \in [Tiles -> BOOLEAN] /\ \A i \in Tiles : ready[i] => ready'[i]
        /\ yes => ready'[main.tile]
    <2>1. main.tile \in Tiles
      BY <1>3 DEF Tiles
    <2> QED  BY <1>1, <2>1 DEF SInv, ServerType
  <1>6. ServerType'
    BY <1>2, <1>3, <1>4, <1>5 DEF SInv, ServerType
  <1>7. MainKnows'
    <2>1. \A i \in Tiles : i < main'.tile => ready'[i]
      BY <1>2, <1>3, <1>4, <1>5 DEF SInv, MainKnows, Tiles
    <2>2. main'.step = "tile" => main'.tile < main'.allocated
      BY <1>4
    <2> QED  BY <1>2, <1>4, <2>1, <2>2 DEF SInv, MainKnows
  <1>8. EndsInUse' /\ \A t \in Threads : CallKnows(t)'
    BY <1>2, CallersKept, NobodyPasses
  <1> QED  BY <1>6, <1>7, <1>8 DEF SInv

LEMMA CountStep ==
  ASSUME SInv, CountTiles, UNCHANGED made
  PROVE  SInv'
  <1>1. /\ inits # <<>> /\ main.step = "count" /\ initialized' = TRUE
        /\ answer' = [count |-> Count, res |-> main.tile * 2]
        /\ inits' = Tail(inits)
        /\ main' = [step |-> "call", tile |-> 0, allocated |-> 0]
        /\ UNCHANGED <<ready, taken, buf, base, fpid, fcid, call, sent, received, made>>
    BY DEF CountTiles, At, InitReturns, device, history, queues_per_tile
  <1>2. /\ main.tile \in Nat /\ main.allocated \in Nat /\ main.tile <= main.allocated
        /\ MaxTiles \in Nat
    BY MapleAssumption DEF SInv, ServerType
  <1>3. Count \in Nat
    BY <1>1, InitsShrinks
  <1>4. ServerType'
    BY <1>1, <1>2, <1>3, SMTT(30) DEF SInv, ServerType
  <1>5. MainKnows'
    <2>1. \A i \in Tiles : 2 * i < answer'.res => i < main.tile /\ i < main.allocated
      BY <1>1, <1>2 DEF Tiles
    <2>2. \A i \in Tiles : 2 * i < answer'.res => base[i] /\ ready[i]
      BY <1>1, <2>1 DEF SInv, MainKnows
    <2>3. main'.step = "call" /\ answer'.count = Count
      BY <1>1
    <2> QED  BY <1>1, <2>2, <2>3, InitsShrinks DEF MainKnows
  <1>6. EndsInUse' /\ \A t \in Threads : CallKnows(t)'
    BY <1>1, CallersKept, NobodyPasses
  <1> QED  BY <1>4, <1>5, <1>6 DEF SInv

-----------------------------------------------------------------------------
(* The steps of the threads. *)

(* They leave main and the tiles alone.                                    *)
LEMMA MainKept ==
  ASSUME SInv, UNCHANGED <<ready, base, initialized, inits, main, answer>>
  PROVE  MainKnows'
  BY DEF SInv, MainKnows

(* What a thread knows of its own call, another one cannot take from it:   *)
(* an address that is set anew is set to the same queue.                   *)
LEMMA OthersKept ==
  ASSUME SInv, NEW u \in Threads, call'[u] = call[u], UNCHANGED <<initialized, inits>>,
         \A q \in Qids : fpid'[q] \in {fpid[q], FifoOf(q)} /\ fcid'[q] \in {fcid[q], FifoOf(q)},
         \A f \in Fifos :
           /\ taken[f].producer = u => taken'[f].producer = u
           /\ taken[f].consumer = u => taken'[f].consumer = u
  PROVE  CallKnows(u)'
  <1>1. call[u].qid \in Qids /\ FifoOf(call[u].qid) \in Fifos
    BY QueueOfNumber DEF SInv, ServerType
  <1>2. (Started' <=> Started) /\ (Busy(u)' <=> Busy(u))
    BY DEF Started, Busy
  <1>3. CallKnows(u)
    BY DEF SInv
  <1>4. CASE Busy(u)
    <2>1. /\ call[u].do # "consume" =>
               /\ fpid'[call[u].qid] = FifoOf(call[u].qid)
               /\ taken'[FifoOf(call[u].qid)].producer = u
          /\ call[u].do = "consume" =>
               /\ fcid'[call[u].qid] = FifoOf(call[u].qid)
               /\ taken'[FifoOf(call[u].qid)].consumer = u
      <3> DEFINE q == call[u].qid
                 f == FifoOf(q)
      <3>1. /\ fpid'[q] \in {fpid[q], f} /\ fcid'[q] \in {fcid[q], f}
            /\ taken[f].producer = u => taken'[f].producer = u
            /\ taken[f].consumer = u => taken'[f].consumer = u
        BY <1>1
      <3>2. /\ call[u].do # "consume" => fpid[q] = f /\ taken[f].producer = u
            /\ call[u].do = "consume" => fcid[q] = f /\ taken[f].consumer = u
        BY <1>3, <1>4 DEF CallKnows
      <3> QED  BY <3>1, <3>2
    <2>2. FifoOf(call[u].qid)' = FifoOf(call[u].qid)
      BY Zenon DEF FifoOf
    <2> QED  BY <1>2, <1>3, <2>1, <2>2 DEF CallKnows
  <1>5. CASE ~ Busy(u)
    BY <1>2, <1>3, <1>5 DEF CallKnows
  <1> QED  BY <1>4, <1>5

(* What a thread in a call is at.                                          *)
LEMMA CallOf ==
  ASSUME SInv, NEW t \in Threads
  PROVE  /\ call[t] \in [do : {"none", "produce", "load", "consume"}, qid : Qids,
                         step : Steps, val : Nat]
         /\ call[t].qid \in Qids /\ FifoOf(call[t].qid) \in Fifos
         /\ call[t].step # "idle" =>
              /\ call[t].do \in {"produce", "load", "consume"} /\ Started
              /\ End(t) \in {"producer", "consumer"}
              /\ End(t) = "consumer" <=> call[t].do = "consume"
  <1>1. /\ call[t] \in [do : {"none", "produce", "load", "consume"}, qid : Qids,
                        step : Steps, val : Nat]
        /\ call[t].qid \in Qids
    BY DEF SInv, ServerType
  <1> QED  BY <1>1, QueueOfNumber DEF SInv, CallKnows, End

(* One end of one queue given to v.                                        *)
LEMMA EndGiven ==
  ASSUME SInv, NEW f \in Fifos, NEW e \in {"producer", "consumer"}, NEW v \in Holders,
         taken' = [taken EXCEPT ![f][e] = v]
  PROVE  /\ taken' \in [Fifos -> [producer : Holders, consumer : Holders]]
         /\ e = "producer" => taken'[f].producer = v
         /\ e = "consumer" => taken'[f].consumer = v
         /\ \A g \in Fifos :
              /\ ~ (g = f /\ e = "producer") => taken'[g].producer = taken[g].producer
              /\ ~ (g = f /\ e = "consumer") => taken'[g].consumer = taken[g].consumer
  <1>1. taken \in [Fifos -> [producer : Holders, consumer : Holders]]
    BY DEF SInv, ServerType
  <1>2. taken' = [taken EXCEPT ![f] = [taken[f] EXCEPT ![e] = v]]
    BY <1>1
  <1>3. CASE e = "producer"
    <2>1. [taken[f] EXCEPT ![e] = v] = [taken[f] EXCEPT !.producer = v]
      BY <1>3, Zenon
    <2>2. [taken[f] EXCEPT !.producer = v] = [producer |-> v, consumer |-> taken[f].consumer]
      BY <1>1
    <2> QED  BY <1>1, <1>2, <1>3, <2>1, <2>2
  <1>4. CASE e = "consumer"
    <2>1. [taken[f] EXCEPT ![e] = v] = [taken[f] EXCEPT !.consumer = v]
      BY <1>4, Zenon
    <2>2. [taken[f] EXCEPT !.consumer = v] = [producer |-> taken[f].producer, consumer |-> v]
      BY <1>1
    <2> QED  BY <1>1, <1>2, <1>4, <2>1, <2>2
  <1> QED  BY <1>3, <1>4

(* A call that goes from one step to the next.                             *)
LEMMA WentTo ==
  ASSUME SInv, NEW t \in Threads, NEW step \in Steps, Goto(t, step)
  PROVE  /\ call' \in [Threads -> [do : {"none", "produce", "load", "consume"}, qid : Qids,
                                   step : Steps, val : Nat]]
         /\ call'[t].step = step /\ call'[t].do = call[t].do
         /\ call'[t].qid = call[t].qid /\ call'[t].val = call[t].val
         /\ \A u \in Threads \ {t} : call'[u] = call[u]
  <1>1. call \in [Threads -> [do : {"none", "produce", "load", "consume"}, qid : Qids,
                             step : Steps, val : Nat]]
    BY DEF SInv, ServerType
  <1>2. call' = [call EXCEPT ![t] = [call[t] EXCEPT !.step = step]]
    BY <1>1 DEF Goto
  <1>3. [call[t] EXCEPT !.step = step] =
          [do |-> call[t].do, qid |-> call[t].qid, step |-> step, val |-> call[t].val]
    BY <1>1
  <1> QED  BY <1>1, <1>2, <1>3

LEMMA BeginStep ==
  ASSUME SInv, NEW t \in Threads, desc_supply_produce(t) \/ desc_compute_consume(t)
  PROVE  SInv'
  <1>1. PICK do \in {"produce", "load", "consume"}, qid \in Nat, val \in Nat :
          /\ Begin(t, do, qid, val)
          /\ do # "consume" => t < NumPairs /\ qid \in {t, t + 3 * NumPairs}
          /\ do = "consume" => NumPairs <= t /\ qid \in {t - NumPairs, t + 2 * NumPairs}
    <2>1. /\ t \in Nat /\ NumPairs \in Nat /\ made[t] \in Nat
      BY ThreadNumbers DEF SInv, ServerType
    <2>2. CASE desc_supply_produce(t)
      <3> DEFINE do == IF Following(t) = "load" THEN "load" ELSE "produce"
                 qid == get_producer_qid(t) + Region(Following(t))
      <3>1. Begin(t, do, qid, made[t] + 1) /\ t < NumPairs
        BY <2>2 DEF desc_supply_produce, Supplies, DEC_NUM_PRODUCERS
      <3>2. qid \in {t, t + 3 * NumPairs} /\ qid \in Nat
        BY <2>1 DEF get_producer_qid, Region, DEC_NUM_CONSUMERS
      <3>3. do \in {"produce", "load"} /\ made[t] + 1 \in Nat
        BY <2>1
      <3> HIDE DEF do, qid
      <3> QED  BY <3>1, <3>2, <3>3
    <2>3. CASE desc_compute_consume(t)
      <3> DEFINE qid == get_consumer_qid(t) + Region(Following(t))
      <3>1. Begin(t, "consume", qid, 0) /\ ~ t < NumPairs
        BY <2>3 DEF desc_compute_consume, Supplies, DEC_NUM_PRODUCERS
      <3>2. qid \in {t - NumPairs, t + 2 * NumPairs} /\ qid \in Nat /\ NumPairs <= t
        BY <2>1, <3>1 DEF get_consumer_qid, Region, DEC_NUM_CONSUMERS, DEC_NUM_PRODUCERS
      <3> HIDE DEF qid
      <3> QED  BY <3>1, <3>2
    <2> QED  BY <2>2, <2>3
  <1>2. qid \in Qids
    BY <1>1, ThreadNumbers
  <1>3. /\ call[t] = Idle
        /\ call' = [call EXCEPT ![t] = [do |-> do, qid |-> qid, step |-> "open", val |-> val]]
        /\ UNCHANGED <<ready, taken, buf, base, initialized, fpid, fcid, inits, main, sent,
                       received, answer>>
    BY <1>1 DEF Begin, device, history
  <1>4. Started /\ made' = [made EXCEPT ![t] = @ + 1]
    BY DEF desc_supply_produce, desc_compute_consume
  <1>5. /\ call' \in [Threads -> [do : {"none", "produce", "load", "consume"}, qid : Qids,
                                  step : Steps, val : Nat]]
        /\ call'[t] = [do |-> do, qid |-> qid, step |-> "open", val |-> val]
        /\ \A u \in Threads \ {t} : call'[u] = call[u]
    BY <1>1, <1>2, <1>3 DEF SInv, ServerType, Steps
  <1>6. ServerType'
    <2>1. made' \in [Threads -> Nat]
      BY <1>4 DEF SInv, ServerType
    <2> QED  BY <1>3, <1>5, <2>1 DEF SInv, ServerType
  <1>7. EndsInUse'
    <2>1. ~ Busy(t)
      BY <1>3 DEF Busy, Idle
    <2>2. \A u \in Threads \ {t} : Busy(u) => Busy(u)'
      BY <1>5 DEF Busy
    <2> QED  BY <1>3, <1>5, <2>1, <2>2 DEF SInv, EndsInUse
  <1>8. \A u \in Threads : CallKnows(u)'
    <2>1. CallKnows(t)'
      BY <1>1, <1>3, <1>4, <1>5 DEF CallKnows, Busy, Started
    <2>2. \A u \in Threads \ {t} : CallKnows(u)'
      BY <1>3, <1>5, OthersKept
    <2> QED  BY <2>1, <2>2
  <1> QED  BY <1>3, <1>6, <1>7, <1>8, MainKept DEF SInv

LEMMA LeaveWaitStep ==
  ASSUME SInv, NEW t \in Threads, LeaveWait(t), UNCHANGED made
  PROVE  SInv'
  <1>1. /\ call[t].step = "open" /\ initialized /\ Goto(t, "connect")
        /\ UNCHANGED <<ready, taken, buf, base, initialized, fpid, fcid, inits, main, sent,
                       received, answer, made>>
    BY DEF LeaveWait, In, device, history
  <1>2. "connect" \in Steps
    BY DEF Steps
  <1>3. ServerType'
    BY <1>1, <1>2, WentTo DEF SInv, ServerType
  <1>4. EndsInUse'
    <2>1. ~ Busy(t) /\ \A u \in Threads \ {t} : Busy(u) => Busy(u)'
      BY <1>1, <1>2, WentTo DEF Busy
    <2> QED  BY <1>1, <1>2, <2>1, WentTo DEF SInv, EndsInUse
  <1>5. \A u \in Threads : CallKnows(u)'
    <2>1. CallKnows(t)'
      <3>1. /\ call'[t].step = "connect" /\ call'[t].do = call[t].do /\ call'[t].qid = call[t].qid
            /\ ~ Busy(t)' /\ (Started' <=> Started)
        BY <1>1, <1>2, WentTo DEF Busy, Started
      <3> QED  BY <1>1, <3>1 DEF SInv, CallKnows
    <2>2. \A u \in Threads \ {t} : CallKnows(u)'
      BY <1>1, <1>2, WentTo, OthersKept
    <2> QED  BY <2>1, <2>2
  <1> QED  BY <1>1, <1>3, <1>4, <1>5, MainKept DEF SInv

(* What the end of an open changes: the end is free before, and then the   *)
(* thread's, and the thread has the address of the queue.                  *)
LEMMA Connected ==
  ASSUME SInv, NEW t \in Threads, Connect(t)
  PROVE  LET q == call[t].qid
             f == FifoOf(q)
         IN  /\ call[t].step = "connect" /\ Goto(t, "transfer") /\ ready[f[1]] /\ base[f[1]]
             /\ End(t) \in {"producer", "consumer"}
             /\ taken[f][End(t)] = Nobody /\ taken' = [taken EXCEPT ![f][End(t)] = t]
             /\ End(t) = "producer" => fpid' = [fpid EXCEPT ![q] = f] /\ fcid' = fcid
             /\ End(t) = "consumer" => fcid' = [fcid EXCEPT ![q] = f] /\ fpid' = fpid
             /\ UNCHANGED <<ready, buf, base, initialized, inits, main, sent, received, answer>>
  <1>1. call[t].step = "connect" /\ End(t) \in {"producer", "consumer"}
    BY CallOf DEF Connect, In
  <1> QED  BY <1>1 DEF Connect, In, Wild, history

LEMMA ConnectStep ==
  ASSUME SInv, NEW t \in Threads, Connect(t), UNCHANGED made
  PROVE  SInv'
  <1> DEFINE q == call[t].qid
             f == FifoOf(q)
  <1>1. /\ call[t].step = "connect" /\ Goto(t, "transfer")
        /\ End(t) \in {"producer", "consumer"}
        /\ taken[f][End(t)] = Nobody /\ taken' = [taken EXCEPT ![f][End(t)] = t]
        /\ End(t) = "producer" => fpid' = [fpid EXCEPT ![q] = f] /\ fcid' = fcid
        /\ End(t) = "consumer" => fcid' = [fcid EXCEPT ![q] = f] /\ fpid' = fpid
        /\ UNCHANGED <<ready, buf, base, initialized, inits, main, sent, received, answer, made>>
    BY Connected
  <1>2. /\ q \in Qids /\ f \in Fifos /\ t \in Holders /\ "transfer" \in Steps
        /\ call[t].do \in {"produce", "load", "consume"}
        /\ End(t) = "consumer" <=> call[t].do = "consume"
    BY <1>1, CallOf DEF Holders, Steps
  <1> HIDE DEF q, f
  <1>3. /\ taken' \in [Fifos -> [producer : Holders, consumer : Holders]]
        /\ End(t) = "producer" => taken[f].producer = Nobody /\ taken'[f].producer = t
        /\ End(t) = "consumer" => taken[f].consumer = Nobody /\ taken'[f].consumer = t
        /\ \A g \in Fifos :
             /\ ~ (g = f /\ End(t) = "producer") => taken'[g].producer = taken[g].producer
             /\ ~ (g = f /\ End(t) = "consumer") => taken'[g].consumer = taken[g].consumer
    BY <1>1, <1>2, EndGiven
  <1>4. ServerType'
    <2>1. fpid \in [Qids -> Fifos \cup {NoFifo}] /\ fcid \in [Qids -> Fifos \cup {NoFifo}]
      BY DEF SInv, ServerType
    <2>2. fpid' \in [Qids -> Fifos \cup {NoFifo}] /\ fcid' \in [Qids -> Fifos \cup {NoFifo}]
      <3>1. CASE End(t) = "producer"
        BY <1>1, <1>2, <2>1, <3>1
      <3>2. CASE End(t) = "consumer"
        BY <1>1, <1>2, <2>1, <3>2
      <3> QED  BY <1>1, <3>1, <3>2
    <2> QED  BY <1>1, <1>2, <1>3, <2>2, WentTo DEF SInv, ServerType
  <1>5. /\ call'[t].step = "transfer" /\ call'[t].do = call[t].do /\ call'[t].qid = q
        /\ Busy(t)' /\ \A u \in Threads \ {t} : call'[u] = call[u] /\ (Busy(u)' <=> Busy(u))
    BY <1>1, <1>2, WentTo DEF Busy, q
  <1>6. EndsInUse'
    <2>1. ~ Busy(t)
      BY <1>1 DEF Busy
    <2>2. ASSUME NEW g \in Fifos, NEW u \in Threads, taken'[g].producer = u
          PROVE  Busy(u)' /\ call'[u].do # "consume" /\ FifoOf(call'[u].qid) = g
      <3>1. CASE g = f /\ End(t) = "producer"
        BY <1>2, <1>3, <1>5, <2>2, <3>1 DEF f
      <3>2. CASE ~ (g = f /\ End(t) = "producer")
        BY <1>3, <1>5, <2>1, <2>2, <3>2 DEF SInv, EndsInUse
      <3> QED  BY <3>1, <3>2
    <2>3. ASSUME NEW g \in Fifos, NEW u \in Threads, taken'[g].consumer = u
          PROVE  Busy(u)' /\ call'[u].do = "consume" /\ FifoOf(call'[u].qid) = g
      <3>1. CASE g = f /\ End(t) = "consumer"
        BY <1>2, <1>3, <1>5, <2>3, <3>1 DEF f
      <3>2. CASE ~ (g = f /\ End(t) = "consumer")
        BY <1>3, <1>5, <2>1, <2>3, <3>2 DEF SInv, EndsInUse
      <3> QED  BY <3>1, <3>2
    <2>4. \A u \in Threads : FifoOf(call[u].qid)' = FifoOf(call'[u].qid)
      BY Zenon DEF FifoOf
    <2> QED  BY <2>2, <2>3, <2>4 DEF EndsInUse
  <1>7. \A u \in Threads : CallKnows(u)'
    <2>1. CallKnows(t)'
      <3>1. /\ End(t) = "producer" => fpid'[q] = f
            /\ End(t) = "consumer" => fcid'[q] = f
        BY <1>1, <1>2 DEF SInv, ServerType
      <3>2. (Started' <=> Started) /\ FifoOf(call[t].qid)' = f
        BY <1>1, <1>5, Zenon DEF Started, FifoOf, f
      <3> QED  BY <1>1, <1>2, <1>3, <1>5, <3>1, <3>2 DEF SInv, CallKnows, q
    <2>2. ASSUME NEW u \in Threads \ {t} PROVE CallKnows(u)'
      <3>1. \A p \in Qids : fpid'[p] \in {fpid[p], FifoOf(p)} /\ fcid'[p] \in {fcid[p], FifoOf(p)}
        BY <1>1, <1>2, SMTT(30) DEF SInv, ServerType, f
      <3>2. \A g \in Fifos :
              /\ taken[g].producer = u => taken'[g].producer = u
              /\ taken[g].consumer = u => taken'[g].consumer = u
        BY <1>1, <1>3, ThreadNumbers
      <3> QED  BY <1>1, <1>5, <3>1, <3>2, OthersKept
    <2> QED  BY <2>1, <2>2
  <1> QED  BY <1>1, <1>4, <1>6, <1>7, MainKept DEF SInv

(* A transfer changes nothing that a thread knows.                         *)
LEMMA TransferKept ==
  ASSUME SInv, NEW t \in Threads, call[t].step = "transfer", Goto(t, "close"),
         UNCHANGED <<taken, fpid, fcid, initialized, inits>>
  PROVE  /\ EndsInUse' /\ \A u \in Threads : CallKnows(u)'
         /\ call' \in [Threads -> [do : {"none", "produce", "load", "consume"}, qid : Qids,
                                   step : Steps, val : Nat]]
  <1>1. "close" \in Steps
    BY DEF Steps
  <1>2. /\ call'[t].step = "close" /\ call'[t].do = call[t].do /\ call'[t].qid = call[t].qid
        /\ \A u \in Threads \ {t} : call'[u] = call[u]
        /\ call' \in [Threads -> [do : {"none", "produce", "load", "consume"}, qid : Qids,
                                  step : Steps, val : Nat]]
    BY <1>1, WentTo
  <1>3. \A u \in Threads : /\ Busy(u)' <=> Busy(u)
                           /\ FifoOf(call[u].qid)' = FifoOf(call[u].qid)
    BY <1>2 DEF Busy, FifoOf
  <1>4. EndsInUse'
    BY <1>2, <1>3 DEF SInv, EndsInUse
  <1>5. CallKnows(t)'
    <2>1. CallKnows(t) /\ (Started' <=> Started)
      BY DEF SInv, Started
    <2> QED  BY <1>2, <1>3, <2>1 DEF CallKnows
  <1>6. \A u \in Threads \ {t} : CallKnows(u)'
    BY <1>2, OthersKept
  <1> QED  BY <1>2, <1>4, <1>5, <1>6

(* The queue a thread transfers to or from is the one its call names.      *)
LEMMA PushWhere ==
  ASSUME SInv, NEW t \in Threads, dec_produce(t) \/ dec_load_async(t)
  PROVE  LET q == call[t].qid
             f == FifoOf(q)
         IN  /\ call[t].step = "transfer" /\ call[t].do \in {"produce", "load"}
             /\ Goto(t, "close") /\ q \in Qids /\ f \in Fifos /\ call[t].val \in Nat
             /\ Len(buf[f]) < Slots
             /\ \E here \in BOOLEAN :
                  buf' = [buf EXCEPT ![f] = Append(@, [val |-> call[t].val, here |-> here])]
             /\ sent' = [sent EXCEPT ![q] = Append(@, call[t].val)]
             /\ UNCHANGED <<ready, taken, base, initialized, fpid, fcid, inits, main,
                            received, answer>>
  <1>1. PICK here \in BOOLEAN : Push(t, here)
    BY DEF dec_produce, dec_load_async
  <1>2. call[t].step = "transfer" /\ call[t].do \in {"produce", "load"}
    BY DEF dec_produce, dec_load_async, In
  <1>3. fpid[call[t].qid] = FifoOf(call[t].qid)
    BY <1>2 DEF SInv, CallKnows, Busy
  <1> QED  BY <1>1, <1>2, <1>3, CallOf DEF Push

LEMMA PushStep ==
  ASSUME SInv, NEW t \in Threads, dec_produce(t) \/ dec_load_async(t), UNCHANGED made
  PROVE  SInv'
  <1> DEFINE q == call[t].qid
             f == FifoOf(q)
             v == call[t].val
  <1>1. PICK here \in BOOLEAN :
          buf' = [buf EXCEPT ![f] = Append(@, [val |-> v, here |-> here])]
    BY PushWhere
  <1>2. /\ call[t].step = "transfer" /\ Goto(t, "close")
        /\ q \in Qids /\ f \in Fifos /\ v \in Nat /\ Len(buf[f]) < Slots
        /\ sent' = [sent EXCEPT ![q] = Append(@, v)]
        /\ UNCHANGED <<ready, taken, base, initialized, fpid, fcid, inits, main,
                       received, answer, made>>
    BY PushWhere
  <1> HIDE DEF q, f, v
  <1>3. ServerType'
    <2>1. buf' \in [Fifos -> Seq([val : Nat, here : BOOLEAN])]
      BY <1>1, <1>2 DEF SInv, ServerType
    <2>2. \A g \in Fifos : Len(buf'[g]) <= Slots
      <3>1. buf \in [Fifos -> Seq([val : Nat, here : BOOLEAN])] /\ Slots \in Nat
        BY MapleAssumption DEF SInv, ServerType
      <3>2. Len(Append(buf[f], [val |-> v, here |-> here])) = Len(buf[f]) + 1 /\ Len(buf[f]) \in Nat
        BY <1>2, <3>1
      <3>3. \A g \in Fifos : Len(buf[g]) <= Slots
        BY DEF SInv, ServerType
      <3> QED  BY <1>1, <1>2, <3>1, <3>2, <3>3
    <2>3. sent' \in [Qids -> Seq(Nat)]
      BY <1>2 DEF SInv, ServerType
    <2> QED  BY <1>2, <2>1, <2>2, <2>3, TransferKept DEF SInv, ServerType
  <1> QED  BY <1>2, <1>3, TransferKept, MainKept DEF SInv

LEMMA ConsumeWhere ==
  ASSUME SInv, NEW t \in Threads, dec_consume(t)
  PROVE  LET q == call[t].qid
             f == FifoOf(q)
         IN  /\ call[t].step = "transfer" /\ call[t].do = "consume"
             /\ Goto(t, "close") /\ q \in Qids /\ f \in Fifos
             /\ buf[f] # <<>> /\ Head(buf[f]).here
             /\ buf' = [buf EXCEPT ![f] = Tail(@)]
             /\ received' = [received EXCEPT ![q] = Append(@, Head(buf[f]).val)]
             /\ UNCHANGED <<ready, taken, base, initialized, fpid, fcid, inits, main,
                            sent, answer>>
  <1>1. call[t].step = "transfer" /\ call[t].do = "consume"
    BY DEF dec_consume, In
  <1>2. fcid[call[t].qid] = FifoOf(call[t].qid)
    BY <1>1 DEF SInv, CallKnows, Busy
  <1> QED  BY <1>1, <1>2, CallOf DEF dec_consume

LEMMA ConsumeStep ==
  ASSUME SInv, NEW t \in Threads, dec_consume(t), UNCHANGED made
  PROVE  SInv'
  <1> DEFINE q == call[t].qid
             f == FifoOf(q)
  <1>1. /\ call[t].step = "transfer" /\ Goto(t, "close") /\ q \in Qids /\ f \in Fifos
        /\ buf[f] # <<>>
        /\ buf' = [buf EXCEPT ![f] = Tail(@)]
        /\ received' = [received EXCEPT ![q] = Append(@, Head(buf[f]).val)]
        /\ UNCHANGED <<ready, taken, base, initialized, fpid, fcid, inits, main,
                       sent, answer, made>>
    BY ConsumeWhere
  <1> HIDE DEF q, f
  <1>2. ServerType'
    <2>1. buf \in [Fifos -> Seq([val : Nat, here : BOOLEAN])] /\ received \in [Qids -> Seq(Nat)]
      BY DEF SInv, ServerType
    <2>2. /\ Tail(buf[f]) \in Seq([val : Nat, here : BOOLEAN])
          /\ Len(Tail(buf[f])) = Len(buf[f]) - 1
          /\ Head(buf[f]) \in [val : Nat, here : BOOLEAN] /\ Len(buf[f]) \in Nat
      <3> DEFINE Packets == [val : Nat, here : BOOLEAN]
      <3>1. buf[f] \in Seq(Packets)
        BY <1>1, <2>1
      <3> HIDE DEF Packets
      <3>2. /\ Tail(buf[f]) \in Seq(Packets) /\ Len(Tail(buf[f])) = Len(buf[f]) - 1
            /\ Head(buf[f]) \in Packets /\ Len(buf[f]) \in Nat
        BY <1>1, <3>1, HeadTailProperties
      <3> QED  BY <3>2 DEF Packets
    <2>3. buf' \in [Fifos -> Seq([val : Nat, here : BOOLEAN])]
      BY <1>1, <2>1, <2>2
    <2>4. \A g \in Fifos : Len(buf'[g]) <= Slots
      <3>1. (\A g \in Fifos : Len(buf[g]) <= Slots) /\ Slots \in Nat
        BY MapleAssumption DEF SInv, ServerType
      <3> QED  BY <1>1, <2>1, <2>2, <3>1
    <2>5. received' \in [Qids -> Seq(Nat)]
      <3>1. Append(received[q], Head(buf[f]).val) \in Seq(Nat)
        BY <1>1, <2>1, <2>2
      <3> QED  BY <1>1, <2>1, <3>1
    <2> QED  BY <1>1, <2>3, <2>4, <2>5, TransferKept DEF SInv, ServerType
  <1> QED  BY <1>1, <1>2, TransferKept, MainKept DEF SInv

(* A close gives back the end that the call has held.                      *)
LEMMA CloseGives ==
  ASSUME SInv, NEW t \in Threads, Close(t)
  PROVE  LET q == call[t].qid
             f == FifoOf(q)
         IN  /\ call[t].step = "close" /\ End(t) \in {"producer", "consumer"}
             /\ call' = [call EXCEPT ![t] = Idle]
             /\ End(t) = "producer" => taken[f].producer = t
             /\ End(t) = "consumer" => taken[f].consumer = t
             /\ taken' = [taken EXCEPT ![f][End(t)] = Nobody]
             /\ UNCHANGED <<ready, buf, base, initialized, fpid, fcid, inits, main,
                            sent, received, answer>>
  <1> DEFINE q == call[t].qid
             f == FifoOf(q)
  <1>1. /\ call[t].step = "close" /\ End(t) \in {"producer", "consumer"} /\ f \in Fifos
        /\ End(t) = "consumer" <=> call[t].do = "consume"
    BY CallOf DEF Close, In
  <1>2. /\ End(t) = "producer" => fpid[q] = f /\ taken[f].producer = t
        /\ End(t) = "consumer" => fcid[q] = f /\ taken[f].consumer = t
    BY <1>1 DEF SInv, CallKnows, Busy
  <1>3. taken[f][End(t)] = t
    <2>1. CASE End(t) = "producer"
      BY <1>2, <2>1
    <2>2. CASE End(t) = "consumer"
      BY <1>2, <2>2
    <2> QED  BY <1>1, <2>1, <2>2
  <1>4. taken \in [Fifos -> [producer : Holders, consumer : Holders]]
    BY DEF SInv, ServerType
  <1>5. taken' = [taken EXCEPT ![f][End(t)] = IF @ = t THEN Nobody ELSE @]
    BY <1>1, <1>2 DEF Close
  <1> HIDE DEF f, q
  <1>6. taken' = [taken EXCEPT ![f][End(t)] = Nobody]
    BY <1>1, <1>3, <1>4, <1>5
  <1> QED  BY <1>1, <1>2, <1>6 DEF Close, q, f, history

LEMMA CloseStep ==
  ASSUME SInv, NEW t \in Threads, Close(t), UNCHANGED made
  PROVE  SInv'
  <1> DEFINE q == call[t].qid
             f == FifoOf(q)
  <1>1. /\ call[t].step = "close" /\ End(t) \in {"producer", "consumer"}
        /\ call' = [call EXCEPT ![t] = Idle]
        /\ End(t) = "producer" => taken[f].producer = t
        /\ End(t) = "consumer" => taken[f].consumer = t
        /\ taken' = [taken EXCEPT ![f][End(t)] = Nobody]
        /\ UNCHANGED <<ready, buf, base, initialized, fpid, fcid, inits, main,
                       sent, received, answer, made>>
    BY CloseGives
  <1>2. /\ q \in Qids /\ f \in Fifos /\ Nobody \in Holders
        /\ End(t) = "consumer" <=> call[t].do = "consume"
    BY <1>1, CallOf DEF Holders
  <1>3. Busy(t)
    BY <1>1 DEF Busy
  <1>4. \A g \in Fifos :
          /\ taken[g].producer = t => g = f /\ End(t) = "producer"
          /\ taken[g].consumer = t => g = f /\ End(t) = "consumer"
    BY <1>1, <1>2 DEF SInv, EndsInUse
  <1> HIDE DEF q, f
  <1>5. /\ taken' \in [Fifos -> [producer : Holders, consumer : Holders]]
        /\ End(t) = "producer" => taken'[f].producer = Nobody
        /\ End(t) = "consumer" => taken'[f].consumer = Nobody
        /\ \A g \in Fifos :
             /\ ~ (g = f /\ End(t) = "producer") => taken'[g].producer = taken[g].producer
             /\ ~ (g = f /\ End(t) = "consumer") => taken'[g].consumer = taken[g].consumer
    BY <1>1, <1>2, EndGiven
  <1>6. /\ call'[t] = Idle /\ \A u \in Threads \ {t} : call'[u] = call[u]
        /\ call' \in [Threads -> [do : {"none", "produce", "load", "consume"}, qid : Qids,
                                  step : Steps, val : Nat]]
    <2>1. Idle \in [do : {"none", "produce", "load", "consume"}, qid : Qids, step : Steps, val : Nat]
      <3>1. 0 \in Qids
        BY MapleAssumption DEF Qids, queues_per_tile
      <3> QED  BY <3>1 DEF Idle, Steps
    <2> QED  BY <1>1, <2>1 DEF SInv, ServerType
  <1>7. ServerType'
    BY <1>1, <1>5, <1>6 DEF SInv, ServerType
  <1>8. EndsInUse'
    <2>1. \A u \in Threads \ {t} :
            (Busy(u)' <=> Busy(u)) /\ FifoOf(call[u].qid)' = FifoOf(call[u].qid)
      BY <1>6 DEF Busy, FifoOf
    <2>2. ASSUME NEW g \in Fifos
          PROVE  /\ taken'[g].producer # t /\ taken'[g].consumer # t
                 /\ \A u \in Threads : /\ taken'[g].producer = u => taken[g].producer = u
                                       /\ taken'[g].consumer = u => taken[g].consumer = u
      BY <1>1, <1>4, <1>5, ThreadNumbers
    <2> QED  BY <1>6, <2>1, <2>2 DEF SInv, EndsInUse
  <1>9. \A u \in Threads : CallKnows(u)'
    <2>1. CallKnows(t)'
      BY <1>6 DEF CallKnows, Idle, Busy
    <2>2. ASSUME NEW u \in Threads \ {t} PROVE CallKnows(u)'
      <3>1. \A g \in Fifos :
              /\ taken[g].producer = u => taken'[g].producer = u
              /\ taken[g].consumer = u => taken'[g].consumer = u
        BY <1>1, <1>5
      <3> QED  BY <1>1, <1>6, <3>1, OthersKept
    <2> QED  BY <2>1, <2>2
  <1> QED  BY <1>1, <1>7, <1>8, <1>9, MainKept DEF SInv

LEMMA MemoryStep ==
  ASSUME SInv, MemoryAnswers, UNCHANGED made
  PROVE  SInv'
  <1>0. PICK f \in Fifos : \E i \in DOMAIN buf[f] : buf' = [buf EXCEPT ![f][i].here = TRUE]
    BY DEF MemoryAnswers
  <1>1. PICK i \in DOMAIN buf[f] : buf' = [buf EXCEPT ![f][i].here = TRUE]
    BY <1>0
  <1>2. UNCHANGED <<ready, taken, base, initialized, fpid, fcid, inits, main, call,
                    sent, received, answer, made>>
    BY DEF MemoryAnswers, history
  <1>3. buf \in [Fifos -> Seq([val : Nat, here : BOOLEAN])] /\ i \in 1 .. Len(buf[f])
    BY DEF SInv, ServerType
  <1>4. /\ buf' \in [Fifos -> Seq([val : Nat, here : BOOLEAN])]
        /\ \A g \in Fifos : Len(buf'[g]) = Len(buf[g])
    <2>1. buf[f][i] \in [val : Nat, here : BOOLEAN]
      <3> DEFINE Packets == [val : Nat, here : BOOLEAN]
      <3>1. buf[f] \in Seq(Packets)
        BY <1>3
      <3> HIDE DEF Packets
      <3>2. buf[f][i] \in Packets
        BY <1>3, <3>1, ElementOfSeq
      <3> QED  BY <3>2 DEF Packets
    <2>2. [buf[f][i] EXCEPT !.here = TRUE] \in [val : Nat, here : BOOLEAN]
      BY <2>1
    <2>3. /\ [buf[f] EXCEPT ![i].here = TRUE] \in Seq([val : Nat, here : BOOLEAN])
          /\ Len([buf[f] EXCEPT ![i].here = TRUE]) = Len(buf[f])
      <3> DEFINE Packets == [val : Nat, here : BOOLEAN]
                 answered == [buf[f][i] EXCEPT !.here = TRUE]
      <3>1. /\ buf[f] \in Seq(Packets) /\ answered \in Packets
            /\ [buf[f] EXCEPT ![i].here = TRUE] = [buf[f] EXCEPT ![i] = answered]
        BY <1>3, <2>2
      <3> HIDE DEF Packets, answered
      <3>2. /\ [buf[f] EXCEPT ![i] = answered] \in Seq(Packets)
            /\ Len([buf[f] EXCEPT ![i] = answered]) = Len(buf[f])
        BY <1>3, <3>1, ExceptSeq
      <3> QED  BY <3>1, <3>2 DEF Packets
    <2> QED  BY <1>1, <1>3, <2>3
  <1>5. ServerType'
    BY <1>2, <1>4 DEF SInv, ServerType
  <1>6. EndsInUse' /\ \A u \in Threads : CallKnows(u)'
    BY <1>2 DEF SInv, EndsInUse, CallKnows, Busy, Started, FifoOf
  <1> QED  BY <1>2, <1>5, <1>6, MainKept DEF SInv

-----------------------------------------------------------------------------
(* What every state satisfies, and what follows from it.                   *)

LEMMA StepKeepsSInv == SInv /\ [Next]_vars => SInv'
  <1> SUFFICES ASSUME SInv, [Next]_vars PROVE SInv'
    OBVIOUS
  <1>1. CASE Main
    BY <1>1, AllocStep, CleanupStep, InitTileStep, CountStep DEF Main, MainStep
  <1>2. CASE Memory
    BY <1>2, MemoryStep DEF Memory
  <1>3. ASSUME NEW t \in Threads, desc_supply_produce(t) \/ desc_compute_consume(t)
        PROVE  SInv'
    BY <1>3, BeginStep
  <1>4. ASSUME NEW t \in Threads, Step(t) PROVE SInv'
    BY <1>4, LeaveWaitStep, ConnectStep, PushStep, ConsumeStep, CloseStep DEF Step, CallStep
  <1>5. CASE UNCHANGED vars
    <2>1. UNCHANGED <<ready, taken, buf, base, initialized, fpid, fcid, inits, main, call,
                      sent, received, answer, made>>
      BY <1>5 DEF vars, mapleVars, device, history
    <2>2. ServerType' /\ MainKnows'
      BY <2>1 DEF SInv, ServerType, MainKnows
    <2>3. EndsInUse' /\ \A t \in Threads : CallKnows(t)'
      BY <2>1 DEF SInv, EndsInUse, CallKnows, Busy, Started, FifoOf
    <2> QED  BY <2>2, <2>3 DEF SInv
  <1> QED  BY <1>1, <1>2, <1>3, <1>4, <1>5 DEF Next

THEOREM SInvAlways == Spec => []SInv
  BY InitHolds, StepKeepsSInv, PTL DEF Spec

(* The device, the program's tables and main's counters have the values    *)
(* they are meant to have; no queue holds more than its slots.             *)
THEOREM MapleTypeCorrect == Spec => []MapleTypeOK
  <1>1. SInv => MapleTypeOK
    BY DEF SInv, ServerType, MapleTypeOK, Holders
  <1> QED  BY <1>1, SInvAlways, PTL

(* dec_connect gives the ends of a queue to threads of one pair only: the  *)
(* numbers get_producer_qid and get_consumer_qid come to, plus the region, *)
(* are the same for the two threads of a pair and for no others.           *)
THEOREM EndsOfOnePair == Spec => []PartnersOnly
  <1>1. ASSUME SInv, NEW f \in Fifos, taken[f].producer \in Threads, taken[f].consumer \in Threads
        PROVE  taken[f].consumer = taken[f].producer + NumPairs
    <2> DEFINE p == taken[f].producer
               c == taken[f].consumer
    <2>1. /\ Busy(p) /\ call[p].do # "consume" /\ FifoOf(call[p].qid) = f
          /\ Busy(c) /\ call[c].do = "consume" /\ FifoOf(call[c].qid) = f
      BY <1>1 DEF SInv, EndsInUse
    <2>2. call[p].do \in {"produce", "load"}
      BY <1>1, <2>1, CallOf DEF Busy
    <2>3. call[p].qid = call[c].qid
      <3>1. call[p].qid \in Nat /\ call[c].qid \in Nat
        BY <1>1, CallOf, ThreadNumbers
      <3> QED  BY <2>1, <3>1, QueueOfNumber
    <2>4. /\ p < NumPairs /\ call[p].qid \in {p, p + 3 * NumPairs}
          /\ NumPairs <= c /\ call[c].qid \in {c - NumPairs, c + 2 * NumPairs}
      BY <1>1, <2>1, <2>2 DEF SInv, CallKnows
    <2>5. p \in Nat /\ c \in Nat /\ c < 2 * NumPairs /\ NumPairs \in Nat
      BY <1>1, ThreadNumbers
    <2> HIDE DEF p, c
    <2>6. c = p + NumPairs
      BY <2>3, <2>4, <2>5
    <2> QED  BY <2>6 DEF p, c
  <1>2. SInv => PartnersOnly
    BY <1>1 DEF PartnersOnly
  <1> QED  BY <1>2, SInvAlways, PTL

(* A thread uses the base of a tile that main never set only for a queue   *)
(* that the last dec_fifo_init has not counted, and none before a          *)
(* dec_fifo_init has come to its end.                                      *)
THEOREM WildOnlyIfNotCounted == Spec => []NoWildAddress
  <1>1. ASSUME SInv, NEW t \in Threads, Wild(t)
        PROVE  initialized /\ answer.res <= call[t].qid
    <2> DEFINE q == call[t].qid
    <2>1. call[t].step = "connect" /\ ~ base[FifoOf(q)[1]]
      BY <1>1 DEF Wild, In
    <2>2. inits = <<>> /\ initialized
      BY <1>1, <2>1 DEF SInv, CallKnows, Started
    <2>3. \A i \in Tiles : 2 * i < answer.res => base[i] /\ ready[i]
      BY <1>1, <2>2 DEF SInv, MainKnows
    <2>4. q \in Nat /\ FifoOf(q)[1] \in Tiles /\ FifoOf(q)[1] = q \div 2
      <3>1. q \in Qids
        BY <1>1, CallOf
      <3> QED  BY <3>1, QueueOfNumber, ThreadNumbers DEF Fifos
    <2>5. ~ 2 * (q \div 2) < answer.res
      BY <2>1, <2>3, <2>4
    <2>6. answer.res \in Nat
      BY <1>1 DEF SInv, ServerType
    <2> HIDE DEF q
    <2>7. answer.res <= q
      BY <2>4, <2>5, <2>6
    <2> QED  BY <2>2, <2>7 DEF q
  <1>2. SInv => NoWildAddress
    BY <1>1 DEF NoWildAddress
  <1> QED  BY <1>2, SInvAlways, PTL

-----------------------------------------------------------------------------
(* The contents of the queues.                                             *)

(* A queue that has passed on nothing, empty or as an earlier program has  *)
(* left it.                                                                *)
LEMMA PassedNothing ==
  /\ Passed(<<>>, <<>> \o <<>>, <<>>)
  /\ Passed(<<[val |-> 0, here |-> TRUE]>>, <<0>> \o <<>>, <<>>)
  BY DEF Passed

(* What has been left stays in front of what is sent.                      *)
LEMMA LeftInFront ==
  ASSUME NEW left \in Lefts, NEW in \in Seq(Nat), NEW v \in Nat
  PROVE  /\ left \o in \in Seq(Nat)
         /\ left \o Append(in, v) = Append(left \o in, v)
  <1>1. <<>> \in Seq(Nat) /\ <<0>> \in Seq(Nat)
    OBVIOUS
  <1>2. left \in Seq(Nat)
    BY <1>1 DEF Lefts
  <1> QED  BY <1>2, SMT DEF Lefts

LEMMA PassedPush ==
  ASSUME NEW Packets, NEW values \in Seq(Packets), NEW in \in Seq(Nat), NEW out \in Seq(Nat),
         NEW packet \in Packets, NEW v \in Nat, packet.val = v, Passed(values, in, out)
  PROVE  Passed(Append(values, packet), Append(in, v), out)
  <1> DEFINE more == Append(values, packet)
             all == Append(in, v)
  <1>1. /\ Len(more) = Len(values) + 1 /\ Len(all) = Len(in) + 1
        /\ \A i \in 1 .. Len(values) : more[i] = values[i]
        /\ \A i \in 1 .. Len(in) : all[i] = in[i]
        /\ more[Len(values) + 1] = packet /\ all[Len(in) + 1] = v
        /\ Len(values) \in Nat /\ Len(in) \in Nat /\ Len(out) \in Nat
    OBVIOUS
  <1> HIDE DEF more, all
  <1>2. /\ Len(in) = Len(out) + Len(values)
        /\ \A i \in 1 .. Len(out) : out[i] = in[i]
        /\ \A i \in 1 .. Len(values) : values[i].val = in[Len(out) + i]
    BY DEF Passed
  <1>3. \A i \in 1 .. Len(out) : out[i] = all[i]
    BY <1>1, <1>2
  <1>4. ASSUME NEW i \in 1 .. Len(values) + 1 PROVE more[i].val = all[Len(out) + i]
    <2>1. CASE i = Len(values) + 1
      BY <1>1, <1>2, <2>1
    <2>2. CASE i # Len(values) + 1
      <3>1. i \in 1 .. Len(values) /\ Len(out) + i \in 1 .. Len(in)
        BY <1>1, <1>2, <2>2, SMTT(30)
      <3> QED  BY <1>1, <1>2, <3>1, ZenonT(40)
    <2> QED  BY <2>1, <2>2
  <1>5. Len(all) = Len(out) + Len(more)
    BY <1>1, <1>2
  <1>6. Passed(more, all, out)
    BY <1>1, <1>3, <1>4, <1>5 DEF Passed
  <1> QED  BY <1>6 DEF more, all

LEMMA PassedPop ==
  ASSUME NEW Packets, NEW values \in Seq(Packets), NEW in \in Seq(Nat), NEW out \in Seq(Nat),
         values # <<>>, Head(values).val \in Nat, Passed(values, in, out)
  PROVE  Passed(Tail(values), in, Append(out, Head(values).val))
  <1> DEFINE v == Head(values).val
             rest == Tail(values)
             more == Append(out, v)
  <1>1. /\ Len(rest) = Len(values) - 1
        /\ \A i \in 1 .. Len(rest) : rest[i] = values[i + 1]
        /\ Len(values) \in Nat \ {0} /\ Len(in) \in Nat /\ Len(out) \in Nat
        /\ v = values[1].val
    BY HeadTailProperties
  <1>2. /\ Len(more) = Len(out) + 1 /\ more[Len(out) + 1] = v
        /\ \A i \in 1 .. Len(out) : more[i] = out[i]
    OBVIOUS
  <1> HIDE DEF v, rest, more
  <1>3. /\ Len(in) = Len(out) + Len(values)
        /\ \A i \in 1 .. Len(out) : out[i] = in[i]
        /\ \A i \in 1 .. Len(values) : values[i].val = in[Len(out) + i]
    BY DEF Passed
  <1>4. ASSUME NEW i \in 1 .. Len(out) + 1 PROVE more[i] = in[i]
    <2>1. CASE i = Len(out) + 1
      BY <1>1, <1>2, <1>3, <2>1
    <2>2. CASE i # Len(out) + 1
      <3>1. i \in 1 .. Len(out)
        BY <1>1, <2>2
      <3> QED  BY <1>2, <1>3, <3>1
    <2> QED  BY <2>1, <2>2
  <1>5. ASSUME NEW i \in 1 .. Len(rest) PROVE rest[i].val = in[Len(more) + i]
    <2>1. i + 1 \in 1 .. Len(values) /\ Len(out) + (i + 1) = Len(more) + i
      BY <1>1, <1>2
    <2> QED  BY <1>1, <1>3, <2>1
  <1>6. Len(in) = Len(more) + Len(rest)
    BY <1>1, <1>2, <1>3
  <1>7. Passed(rest, in, more)
    BY <1>2, <1>4, <1>5, <1>6 DEF Passed
  <1> QED  BY <1>7 DEF v, rest, more

LEMMA PassedPrefix ==
  ASSUME NEW values, Len(values) \in Nat, NEW in \in Seq(Nat), NEW out \in Seq(Nat),
         Passed(values, in, out)
  PROVE  IsPrefix(out, in)
  <1>1. Len(out) <= Len(in) /\ \A i \in 1 .. Len(out) : out[i] = in[i]
    BY DEF Passed
  <1>2. SubSeq(out, 1, Len(out)) = SubSeq(in, 1, Len(out))
    BY <1>1
  <1> QED  BY <1>1, <1>2 DEF IsPrefix

LEMMA CleanInit == Init => CleanQueues
  <1> SUFFICES ASSUME Init PROVE CleanQueues
    OBVIOUS
  <1>1. PICK dirty \in DirtySets : MapleInit(dirty)
    BY DEF Init
  <1>2. /\ ~ initialized /\ main.step = "call"
        /\ sent = [q \in Qids |-> <<>>] /\ received = [q \in Qids |-> <<>>]
    BY <1>1 DEF Init, MapleInit
  <1>3. ASSUME NEW q \in Qids, FifoOf(q)[1] # 0 PROVE InQueue(q)
    <2>1. buf[FifoOf(q)] \in {<<>>, <<[val |-> 0, here |-> TRUE]>>}
      BY <1>1, QueueOfNumber DEF MapleInit
    <2>2. sent[q] = <<>> /\ received[q] = <<>>
      BY <1>2
    <2>3. CASE buf[FifoOf(q)] = <<>>
      BY <1>3, <2>2, <2>3, PassedNothing DEF InQueue, Lefts
    <2>4. CASE buf[FifoOf(q)] = <<[val |-> 0, here |-> TRUE]>>
      BY <1>3, <2>2, <2>4, PassedNothing DEF InQueue, Lefts
    <2> QED  BY <2>1, <2>3, <2>4
  <1> QED  BY <1>2, <1>3 DEF CleanQueues, Fit

(* A step that transfers nothing and gives no end to an earlier program.   *)
LEMMA CleanKept ==
  ASSUME SInv, CleanQueues, UNCHANGED <<buf, sent, received>>,
         \A i \in Tiles : Fit(i)' => Fit(i),
         inits' # <<>> \/ ~ initialized' => inits # <<>> \/ ~ initialized,
         \A f \in Fifos : /\ taken'[f].producer = Earlier => taken[f].producer = Earlier
                          /\ taken'[f].consumer = Earlier => taken[f].consumer = Earlier
  PROVE  CleanQueues'
  <1>1. /\ \A f \in Fifos : f[1] \in Tiles
        /\ 0 \in Tiles
    BY MapleAssumption DEF Fifos, Tiles
  <1>2. ASSUME NEW q \in Qids, Fit(FifoOf(q)[1])' PROVE InQueue(q)'
    <2>1. Fit(FifoOf(q)[1])
      BY <1>1, <1>2, QueueOfNumber DEF Fit, FifoOf
    <2>2. InQueue(q)
      BY <2>1 DEF CleanQueues
    <2> QED  BY <2>2 DEF InQueue, Lefts, Passed, FifoOf
  <1>3. ASSUME NEW f \in Fifos, f[1] = 0, Fit(0)'
        PROVE  Earlier \notin {taken'[f].producer, taken'[f].consumer}
    <2>1. Fit(0)
      BY <1>1, <1>3
    <2> QED  BY <1>3, <2>1 DEF CleanQueues
  <1> QED  BY <1>2, <1>3 DEF CleanQueues

(* dec_fifo_cleanup: the queues of the first tile are empty and free       *)
(* before anything has been sent; the others stay as they are.             *)
LEMMA CleanCleanup ==
  ASSUME SInv, CleanQueues, dec_fifo_cleanup
  PROVE  CleanQueues'
  <1>1. /\ inits # <<>> /\ main.step = "clean" /\ main'.step = "tile"
        /\ taken' = [f \in Fifos |-> IF f[1] = 0 THEN Free ELSE taken[f]]
        /\ buf' = [f \in Fifos |-> IF f[1] = 0 THEN <<>> ELSE buf[f]]
        /\ UNCHANGED <<initialized, inits, sent, received>>
    BY DEF dec_fifo_cleanup, At, history, SInv, ServerType
  <1>2. \A q \in Qids : sent[q] = <<>> /\ received[q] = <<>>
    BY <1>1 DEF CleanQueues
  <1>3. ASSUME NEW q \in Qids PROVE InQueue(q)'
    <2>1. FifoOf(q) \in Fifos /\ FifoOf(q)' = FifoOf(q)
      BY QueueOfNumber DEF FifoOf
    <2>2. CASE FifoOf(q)[1] = 0
      <3>1. buf'[FifoOf(q)] = <<>> /\ sent'[q] = <<>> /\ received'[q] = <<>>
        BY <1>1, <1>2, <2>1, <2>2
      <3>2. Passed(buf'[FifoOf(q)], <<>> \o sent'[q], received'[q])
        BY <3>1, PassedNothing
      <3> QED  BY <2>1, <3>2 DEF InQueue, Lefts, Passed
    <2>3. CASE FifoOf(q)[1] # 0
      <3>1. InQueue(q)
        BY <2>3 DEF CleanQueues, Fit
      <3>2. /\ buf'[FifoOf(q)] = buf[FifoOf(q)]
            /\ sent'[q] = sent[q] /\ received'[q] = received[q]
        BY <1>1, <2>1, <2>3
      <3> QED  BY <2>1, <3>1, <3>2 DEF InQueue, Lefts, Passed
    <2> QED  BY <2>2, <2>3
  <1>4. ASSUME NEW f \in Fifos, f[1] = 0
        PROVE  Earlier \notin {taken'[f].producer, taken'[f].consumer}
    BY <1>1, <1>4, ThreadNumbers DEF Free
  <1> QED  BY <1>1, <1>2, <1>3, <1>4 DEF CleanQueues

(* A transfer is about one queue: its number is in no other call.          *)
LEMMA CleanTransfer ==
  ASSUME SInv, CleanQueues, NEW t \in Threads, call[t].step = "transfer",
         UNCHANGED <<taken, initialized, inits, main>>,
         LET q == call[t].qid
             f == FifoOf(q)
         IN  /\ \E left \in Lefts :
                  /\ f[1] = 0 => left = <<>>
                  /\ Passed(buf'[f], left \o sent'[q], received'[q])
             /\ \A g \in Fifos \ {f} : buf'[g] = buf[g]
             /\ \A p \in Qids \ {q} : sent'[p] = sent[p] /\ received'[p] = received[p]
  PROVE  CleanQueues'
  <1> DEFINE q == call[t].qid
             f == FifoOf(q)
  <1>1. initialized /\ inits = <<>> /\ q \in Qids
    BY CallOf DEF SInv, CallKnows, Started
  <1>2. ASSUME NEW p \in Qids PROVE InQueue(p)'
    <2>1. CASE p = q
      <3>1. \E left \in Lefts :
              /\ f[1] = 0 => left = <<>>
              /\ Passed(buf'[f], left \o sent'[q], received'[q])
        OBVIOUS
      <3> QED  BY <2>1, <3>1 DEF InQueue, Lefts, Passed, FifoOf
    <2>2. CASE p # q
      <3>1. FifoOf(p) # f /\ FifoOf(p) \in Fifos
        BY <1>1, <2>2, QueueOfNumber, ThreadNumbers
      <3>2. InQueue(p)
        BY <1>1 DEF CleanQueues, Fit
      <3>3. /\ buf'[FifoOf(p)] = buf[FifoOf(p)]
            /\ sent'[p] = sent[p] /\ received'[p] = received[p]
        BY <2>2, <3>1
      <3> QED  BY <3>2, <3>3 DEF InQueue, Lefts, Passed, FifoOf
    <2> QED  BY <2>1, <2>2
  <1>3. \A g \in Fifos :
          g[1] = 0 => Earlier \notin {taken'[g].producer, taken'[g].consumer}
    BY <1>1 DEF CleanQueues, Fit
  <1> QED  BY <1>1, <1>2, <1>3 DEF CleanQueues

LEMMA CleanPush ==
  ASSUME SInv, CleanQueues, NEW t \in Threads, dec_produce(t) \/ dec_load_async(t)
  PROVE  CleanQueues'
  <1> DEFINE q == call[t].qid
             f == FifoOf(q)
             v == call[t].val
             Packets == [val : Nat, here : BOOLEAN]
  <1>1. PICK here \in BOOLEAN : buf' = [buf EXCEPT ![f] = Append(@, [val |-> v, here |-> here])]
    BY PushWhere
  <1>2. /\ call[t].step = "transfer" /\ q \in Qids /\ f \in Fifos /\ v \in Nat
        /\ sent' = [sent EXCEPT ![q] = Append(@, v)]
        /\ UNCHANGED <<taken, initialized, inits, main, received>>
    BY PushWhere
  <1>3. PICK left \in Lefts :
          (f[1] = 0 => left = <<>>) /\ Passed(buf[f], left \o sent[q], received[q])
    BY <1>2 DEF SInv, CallKnows, CleanQueues, Fit, InQueue
  <1>4. /\ buf \in [Fifos -> Seq(Packets)]
        /\ sent \in [Qids -> Seq(Nat)] /\ received \in [Qids -> Seq(Nat)]
    BY DEF SInv, ServerType
  <1>5. [val |-> v, here |-> here] \in Packets /\ [val |-> v, here |-> here].val = v
    BY <1>2
  <1> HIDE DEF Packets
  <1>6. Passed(Append(buf[f], [val |-> v, here |-> here]), left \o Append(sent[q], v), received[q])
    <2>1. sent[q] \in Seq(Nat) /\ buf[f] \in Seq(Packets) /\ received[q] \in Seq(Nat)
      BY <1>2, <1>4
    <2> HIDE DEF q, f, v
    <2>2. /\ left \o sent[q] \in Seq(Nat)
          /\ left \o Append(sent[q], v) = Append(left \o sent[q], v)
      BY <1>2, <2>1, LeftInFront
    <2>3. Passed(Append(buf[f], [val |-> v, here |-> here]), Append(left \o sent[q], v), received[q])
      BY <1>2, <1>3, <1>5, <2>1, <2>2, PassedPush
    <2> QED  BY <2>2, <2>3
  <1>7. /\ buf'[f] = Append(buf[f], [val |-> v, here |-> here])
        /\ sent'[q] = Append(sent[q], v) /\ received'[q] = received[q]
        /\ \A g \in Fifos \ {f} : buf'[g] = buf[g]
        /\ \A p \in Qids \ {q} : sent'[p] = sent[p] /\ received'[p] = received[p]
    BY <1>1, <1>2, <1>4
  <1>8. \E rest \in Lefts :
          (f[1] = 0 => rest = <<>>) /\ Passed(buf'[f], rest \o sent'[q], received'[q])
    BY <1>3, <1>6, <1>7
  <1> QED  BY <1>2, <1>7, <1>8, CleanTransfer

LEMMA CleanConsume ==
  ASSUME SInv, CleanQueues, NEW t \in Threads, dec_consume(t)
  PROVE  CleanQueues'
  <1> DEFINE q == call[t].qid
             f == FifoOf(q)
             Packets == [val : Nat, here : BOOLEAN]
  <1>1. /\ call[t].step = "transfer" /\ q \in Qids /\ f \in Fifos /\ buf[f] # <<>>
        /\ buf' = [buf EXCEPT ![f] = Tail(@)]
        /\ received' = [received EXCEPT ![q] = Append(@, Head(buf[f]).val)]
        /\ UNCHANGED <<taken, initialized, inits, main, sent>>
    BY ConsumeWhere
  <1>2. PICK left \in Lefts :
          (f[1] = 0 => left = <<>>) /\ Passed(buf[f], left \o sent[q], received[q])
    BY <1>1 DEF SInv, CallKnows, CleanQueues, Fit, InQueue
  <1>3. /\ buf \in [Fifos -> Seq(Packets)]
        /\ sent \in [Qids -> Seq(Nat)] /\ received \in [Qids -> Seq(Nat)]
    BY DEF SInv, ServerType
  <1>4. \A packet \in Packets : packet.val \in Nat
    OBVIOUS
  <1> HIDE DEF Packets
  <1>5. Head(buf[f]).val \in Nat
    BY <1>1, <1>3, <1>4, HeadTailProperties
  <1>6. Passed(Tail(buf[f]), left \o sent[q], Append(received[q], Head(buf[f]).val))
    <2>1. left \o sent[q] \in Seq(Nat) /\ received[q] \in Seq(Nat) /\ buf[f] \in Seq(Packets)
      BY <1>1, <1>3, LeftInFront
    <2> QED  BY <1>1, <1>2, <1>5, <2>1, PassedPop
  <1>7. /\ buf'[f] = Tail(buf[f])
        /\ sent'[q] = sent[q] /\ received'[q] = Append(received[q], Head(buf[f]).val)
        /\ \A g \in Fifos \ {f} : buf'[g] = buf[g]
        /\ \A p \in Qids \ {q} : sent'[p] = sent[p] /\ received'[p] = received[p]
    BY <1>1, <1>3
  <1>8. \E rest \in Lefts :
          (f[1] = 0 => rest = <<>>) /\ Passed(buf'[f], rest \o sent'[q], received'[q])
    BY <1>2, <1>6, <1>7
  <1> QED  BY <1>1, <1>7, <1>8, CleanTransfer

(* The answer of memory fills a place of a queue, whose value it keeps.    *)
LEMMA CleanMemory ==
  ASSUME SInv, CleanQueues, MemoryAnswers
  PROVE  CleanQueues'
  <1>1. UNCHANGED <<taken, initialized, inits, main, sent, received>>
    BY DEF MemoryAnswers, history
  <1>2. ASSUME NEW g \in Fifos
        PROVE  /\ Len(buf'[g]) = Len(buf[g]) /\ Len(buf[g]) \in Nat
               /\ \A j \in 1 .. Len(buf[g]) : buf'[g][j].val = buf[g][j].val
    <2>0. PICK f \in Fifos : \E i \in DOMAIN buf[f] : buf' = [buf EXCEPT ![f][i].here = TRUE]
      BY DEF MemoryAnswers
    <2>1. PICK i \in DOMAIN buf[f] : buf' = [buf EXCEPT ![f][i].here = TRUE]
      BY <2>0
    <2> DEFINE Packets == [val : Nat, here : BOOLEAN]
               answered == [buf[f][i] EXCEPT !.here = TRUE]
    <2>2. buf \in [Fifos -> Seq(Packets)]
      BY DEF SInv, ServerType
    <2>3. buf' = [buf EXCEPT ![f] = [buf[f] EXCEPT ![i] = answered]]
      BY <2>1, <2>2
    <2> HIDE DEF Packets
    <2>4. buf[f][i] \in Packets /\ i \in 1 .. Len(buf[f])
      BY <2>2, ElementOfSeq
    <2>5. answered \in Packets /\ answered.val = buf[f][i].val
      BY <2>4 DEF Packets
    <2> HIDE DEF answered
    <2>6. CASE g = f
      <3>1. buf'[f] = [buf[f] EXCEPT ![i] = answered]
        BY <2>2, <2>3
      <3>2. /\ Len(buf'[f]) = Len(buf[f])
            /\ \A j \in 1 .. Len(buf[f]) : buf'[f][j] = IF j = i THEN answered ELSE buf[f][j]
        BY <2>2, <2>4, <2>5, <3>1, ExceptSeq
      <3> QED  BY <2>2, <2>5, <2>6, <3>2
    <2>7. CASE g # f
      BY <2>2, <2>3, <2>7
    <2> QED  BY <2>6, <2>7
  <1>3. ASSUME NEW q \in Qids, Fit(FifoOf(q)[1])' PROVE InQueue(q)'
    <2> DEFINE f == FifoOf(q)
    <2>1. f \in Fifos /\ Fit(f[1])
      BY <1>1, <1>3, QueueOfNumber DEF Fit, FifoOf
    <2>2. PICK left \in Lefts :
            (f[1] = 0 => left = <<>>) /\ Passed(buf[f], left \o sent[q], received[q])
      BY <2>1 DEF CleanQueues, InQueue
    <2>3. /\ Len(buf'[f]) = Len(buf[f])
          /\ \A j \in 1 .. Len(buf[f]) : buf'[f][j].val = buf[f][j].val
      BY <1>2, <2>1
    <2> HIDE DEF f
    <2>4. Passed(buf'[f], left \o sent'[q], received'[q])
      BY <1>1, <2>2, <2>3 DEF Passed
    <2> QED  BY <2>2, <2>4 DEF f, InQueue, Lefts, Passed, FifoOf
  <1>4. ASSUME NEW f \in Fifos, f[1] = 0, Fit(0)'
        PROVE  Earlier \notin {taken'[f].producer, taken'[f].consumer}
    BY <1>1, <1>4 DEF CleanQueues, Fit
  <1> QED  BY <1>1, <1>3, <1>4 DEF CleanQueues

LEMMA StepKeepsClean == SInv /\ CleanQueues /\ [Next]_vars => CleanQueues'
  <1> SUFFICES ASSUME SInv, CleanQueues, [Next]_vars PROVE CleanQueues'
    OBVIOUS
  <1>1. CASE alloc_tile
    <2>1. /\ inits # <<>> /\ main.step = "call"
          /\ UNCHANGED <<taken, buf, initialized, sent, received>>
          /\ main'.step \in {"call", "clean"}
      BY <1>1 DEF alloc_tile, At, device, history, InitReturns
    <2>2. \A i \in Tiles : Fit(i)' => Fit(i)
      BY <2>1 DEF Fit
    <2> QED  BY <2>1, <2>2, CleanKept
  <1>2. CASE dec_fifo_cleanup
    BY <1>2, CleanCleanup
  <1>3. CASE InitTile
    <2>1. /\ main.step = "tile"
          /\ UNCHANGED <<taken, buf, initialized, inits, sent, received>>
      BY <1>3 DEF InitTile, At, history
    <2>2. \A i \in Tiles : Fit(i)
      BY <2>1 DEF Fit
    <2> QED  BY <2>1, <2>2, CleanKept
  <1>4. CASE CountTiles
    <2>1. /\ main.step = "count" /\ inits # <<>>
          /\ UNCHANGED <<taken, buf, sent, received>>
      BY <1>4 DEF CountTiles, At, device, history
    <2>2. \A i \in Tiles : Fit(i)
      BY <2>1 DEF Fit
    <2> QED  BY <2>1, <2>2, CleanKept
  <1>5. ASSUME NEW t \in Threads, desc_supply_produce(t) \/ desc_compute_consume(t)
        PROVE  CleanQueues'
    <2>1. UNCHANGED <<taken, buf, initialized, inits, main, sent, received>>
      BY <1>5 DEF desc_supply_produce, desc_compute_consume, Begin, device, history
    <2>2. \A i \in Tiles : Fit(i)' => Fit(i)
      BY <2>1 DEF Fit
    <2> QED  BY <2>1, <2>2, CleanKept
  <1>6. ASSUME NEW t \in Threads, LeaveWait(t) PROVE CleanQueues'
    <2>1. UNCHANGED <<taken, buf, initialized, inits, main, sent, received>>
      BY <1>6 DEF LeaveWait, device, history
    <2>2. \A i \in Tiles : Fit(i)' => Fit(i)
      BY <2>1 DEF Fit
    <2> QED  BY <2>1, <2>2, CleanKept
  <1>7. ASSUME NEW t \in Threads, Connect(t) \/ Close(t) PROVE CleanQueues'
    <2>1. PICK v \in {t, Nobody} :
            /\ taken' = [taken EXCEPT ![FifoOf(call[t].qid)][End(t)] = v]
            /\ End(t) \in {"producer", "consumer"}
            /\ UNCHANGED <<buf, initialized, inits, main, sent, received>>
      BY <1>7, Connected, CloseGives
    <2>2. v \in Holders /\ v # Earlier /\ FifoOf(call[t].qid) \in Fifos
      BY CallOf, ThreadNumbers DEF Holders
    <2>3. \A f \in Fifos :
            /\ taken'[f].producer = v \/ taken'[f].producer = taken[f].producer
            /\ taken'[f].consumer = v \/ taken'[f].consumer = taken[f].consumer
      BY <2>1, <2>2, EndGiven
    <2>4. \A i \in Tiles : Fit(i)' => Fit(i)
      BY <2>1 DEF Fit
    <2> QED  BY <2>1, <2>2, <2>3, <2>4, CleanKept
  <1>8. CASE MemoryAnswers
    BY <1>8, CleanMemory
  <1>9. CASE UNCHANGED vars
    <2>1. UNCHANGED <<taken, buf, initialized, inits, main, sent, received>>
      BY <1>9 DEF vars, mapleVars, device, history
    <2>2. \A i \in Tiles : Fit(i)' => Fit(i)
      BY <2>1 DEF Fit
    <2> QED  BY <2>1, <2>2, CleanKept
  <1> QED  BY <1>1, <1>2, <1>3, <1>4, <1>5, <1>6, <1>7, <1>8, <1>9, CleanPush, CleanConsume
           DEF Next, Main, MainStep, Memory, Step, CallStep

(* Every queue of the device holds, in order, what was sent and not yet    *)
(* received, after at most what an earlier program has left on a later     *)
(* tile; the first tile is reset, ends and values, before it is used.      *)
THEOREM CleanAlways == Spec => []CleanQueues
  BY CleanInit, StepKeepsClean, SInvAlways, PTL DEF Spec

(* What a thread receives from a queue is what threads of this program     *)
(* have put in, in that order, whichever of its loads memory answers       *)
(* first -- behind what an earlier program has left there, if the queue is *)
(* not on the first tile.                                                  *)
THEOREM ReceivedInOrder == Spec => []OwnValuesInOrder
  <1>1. ASSUME SInv, CleanQueues, NEW q \in Qids
        PROVE  \E left \in {<<>>, <<0>>} :
                 /\ FifoOf(q)[1] = 0 => left = <<>>
                 /\ IsPrefix(received[q], left \o sent[q])
    <2>1. received[q] \in Seq(Nat) /\ sent[q] \in Seq(Nat)
      BY <1>1 DEF SInv, ServerType
    <2>2. CASE Fit(FifoOf(q)[1])
      <3>1. PICK left \in {<<>>, <<0>>} :
              /\ FifoOf(q)[1] = 0 => left = <<>>
              /\ Passed(buf[FifoOf(q)], left \o sent[q], received[q])
        BY <1>1, <2>2 DEF CleanQueues, InQueue, Lefts
      <3>2. Len(buf[FifoOf(q)]) \in Nat
        BY <1>1, QueueOfNumber DEF SInv, ServerType
      <3>3. left \o sent[q] \in Seq(Nat)
        BY <2>1, LeftInFront DEF Lefts
      <3>4. IsPrefix(received[q], left \o sent[q])
        BY <2>1, <3>1, <3>2, <3>3, PassedPrefix
      <3> QED  BY <3>1, <3>4
    <2>3. CASE ~ Fit(FifoOf(q)[1])
      <3>1. sent[q] = <<>> /\ received[q] = <<>>
        BY <1>1, <2>3 DEF CleanQueues, Fit
      <3>2. IsPrefix(received[q], <<>> \o sent[q])
        BY <3>1 DEF IsPrefix
      <3> QED  BY <3>2
    <2> QED  BY <2>2, <2>3
  <1>2. SInv /\ CleanQueues => OwnValuesInOrder
    BY <1>1 DEF OwnValuesInOrder
  <1> QED  BY <1>2, SInvAlways, CleanAlways, PTL

(* If dec_fifo_init says that it has made the queues that were asked for,  *)
(* each of them is on a tile that is mapped and configured, threads hold   *)
(* its ends in calls about that queue only, and on the first tile nobody   *)
(* else holds one.                                                         *)
THEOREM AnswerCanBeTrusted == Spec => []AnswerIsTrue
  <1>1. ASSUME SInv, CleanQueues, Enough, NEW q \in 0 .. answer.count - 1
        PROVE  LET f == FifoOf(q)
               IN  /\ base[f[1]] /\ ready[f[1]]
                   /\ taken[f].producer \in Threads => call[taken[f].producer].qid = q
                   /\ taken[f].consumer \in Threads => call[taken[f].consumer].qid = q
                   /\ f[1] = 0 => Earlier \notin {taken[f].producer, taken[f].consumer}
    <2> DEFINE f == FifoOf(q)
    <2>1. /\ inits = <<>> /\ answer.count = Asked /\ Asked <= answer.res
          /\ \A i \in Tiles : 2 * i < answer.res => base[i] /\ ready[i]
          /\ answer.res > 0 => initialized
      BY <1>1 DEF SInv, MainKnows, Enough
    <2>2. q \in Qids /\ q \in Nat /\ f \in Fifos /\ f[1] \in Tiles /\ f[1] = q \div 2
      BY <2>1, QueueOfNumber, ThreadNumbers DEF Fifos
    <2>3. 2 * f[1] < answer.res /\ answer.res > 0
      <3>1. q < Asked /\ Asked \in Nat /\ answer.res \in Nat
        BY <1>1, <2>1, <2>2, ThreadNumbers DEF SInv, ServerType
      <3> HIDE DEF f
      <3> QED  BY <2>1, <2>2, <3>1
    <2>4. base[f[1]] /\ ready[f[1]]
      BY <2>1, <2>2, <2>3
    <2>5. f[1] = 0 => Earlier \notin {taken[f].producer, taken[f].consumer}
      BY <1>1, <2>1, <2>2, <2>3 DEF CleanQueues, Fit
    <2>6. ASSUME NEW t \in Threads, taken[f].producer = t \/ taken[f].consumer = t
          PROVE  call[t].qid = q
      <3>1. FifoOf(call[t].qid) = FifoOf(q)
        BY <1>1, <2>2, <2>6 DEF SInv, EndsInUse
      <3>2. call[t].qid \in Nat
        BY <1>1, CallOf, ThreadNumbers
      <3> QED  BY <2>2, <3>1, <3>2, QueueOfNumber
    <2> QED  BY <2>4, <2>5, <2>6
  <1>2. SInv /\ CleanQueues => AnswerIsTrue
    BY <1>1 DEF AnswerIsTrue
  <1> QED  BY <1>2, SInvAlways, CleanAlways, PTL
=============================================================================
