---------------------------- MODULE MapleRuntime ----------------------------
(***************************************************************************)
(* RT/src/maple_decoupling.cpp: the dec_* interface on a device.  The      *)
(* device has tiles of queues_per_tile queues.  A program maps tiles,      *)
(* configures them one after the other, and reaches a queue by an address  *)
(* made of its tile's base and its number in the tile.  Every access to    *)
(* the device, or to a variable that threads share, is a step.             *)
(*                                                                         *)
(* The device is not in the repository: a tile that is configured already  *)
(* ignores a further configuration (the comment in dec_fifo_init_conf) and *)
(* may answer anything; an end that is taken answers a connection with 0;  *)
(* a store to a full queue and a load of an empty one wait.                *)
(*                                                                         *)
(* A definition marked MUTANT is a mistaken version of the one after it,   *)
(* with which a property must fail; it is no part of the model.            *)
(***************************************************************************)
EXTENDS Integers, Sequences

CONSTANTS
  Threads,    \* numbers of the threads that use queues
  MaxTiles,   \* how many tiles the device has
  Slots       \* how many values a queue holds

ASSUME MapleAssumption == MaxTiles \in Nat \ {0} /\ Slots \in Nat \ {0} /\ Threads \subseteq Nat

VARIABLES
  ready, taken, buf,            \* device: configured tiles, who holds the ends
                                \* of a queue, and its values
  base, initialized, fpid, fcid,   \* the program's variables of these names
  inits, main,                  \* the counts main is to call dec_fifo_init with,
                                \* and where it is
  call,                         \* the dec_* calls a thread is in
  sent, received, answer        \* history: values by queue, and the last answer
                                \* of dec_fifo_init with what it was asked for

device == <<ready, taken, buf>>
history == <<sent, received>>
mapleVars == <<device, base, initialized, fpid, fcid, inits, main, call, history, answer>>

Nobody == -1
Earlier == -2     \* a program that ran before and is no more
queues_per_tile == 2
Tiles == 0 .. MaxTiles - 1
Fifos == Tiles \X (0 .. queues_per_tile - 1)
Qids == 0 .. MaxTiles * queues_per_tile - 1
NoFifo == <<>>
Idle == [do |-> "none", qid |-> 0, step |-> "idle", val |-> 0]

Free == [producer |-> Nobody, consumer |-> Nobody]

(* Earlier programs have left some tiles configured, the ends of their     *)
(* queues held or not, and perhaps a value in each.                        *)
MapleInit(dirty) ==
  /\ ready = [i \in Tiles |-> i \in dirty]
  /\ \E ends \in [producer : {Nobody, Earlier}, consumer : {Nobody, Earlier}],
        left \in {<<>>, <<[val |-> 0, here |-> TRUE]>>} :
       /\ taken = [f \in Fifos |-> IF f[1] \in dirty THEN ends ELSE Free]
       /\ buf = [f \in Fifos |-> IF f[1] \in dirty THEN left ELSE <<>>]
  /\ base = [i \in Tiles |-> FALSE]
  /\ initialized = FALSE
  /\ fpid = [q \in Qids |-> NoFifo] /\ fcid = [q \in Qids |-> NoFifo]
  /\ call = [t \in Threads |-> Idle]
  /\ sent = [q \in Qids |-> <<>>] /\ received = [q \in Qids |-> <<>>]
  /\ answer = [count |-> 0, res |-> 0]

-----------------------------------------------------------------------------
(* dec_fifo_init, by main. *)

Count == Head(inits)
num_tiles == Count \div queues_per_tile + (IF Count % queues_per_tile > 0 THEN 1 ELSE 0)
At(step) == inits # <<>> /\ main.step = step

InitReturns(res) ==
  /\ answer' = [count |-> Count, res |-> res]
  /\ inits' = Tail(inits)
  /\ main' = [step |-> "call", tile |-> 0, allocated |-> 0]

(* alloc_tile: maps tiles until that fails; with none, the call is over.   *)
alloc_tile ==
  /\ At("call")
  /\ \E n \in 0 .. num_tiles :
       /\ n <= MaxTiles
       /\ base' = [i \in Tiles |-> base[i] \/ i < n]
       /\ IF n = 0 THEN InitReturns(0)
          ELSE /\ main' = [step |-> "clean", tile |-> 0, allocated |-> n]
               /\ UNCHANGED <<inits, answer>>
  /\ UNCHANGED <<device, initialized, fpid, fcid, call, history>>

(* MUTANT: no clean-up.                                                    *)
NoCleanup ==
  /\ At("clean")
  /\ main' = [main EXCEPT !.step = "tile"]
  /\ UNCHANGED <<device, base, initialized, fpid, fcid, inits, call, history, answer>>

(* Resets the first tile.                                                  *)
dec_fifo_cleanup ==
  /\ At("clean")
  /\ ready' = [ready EXCEPT ![0] = FALSE]
  /\ taken' = [f \in Fifos |-> IF f[1] = 0 THEN Free ELSE taken[f]]
  /\ buf' = [f \in Fifos |-> IF f[1] = 0 THEN <<>> ELSE buf[f]]
  /\ main' = [main EXCEPT !.step = "tile"]
  /\ UNCHANGED <<base, initialized, fpid, fcid, inits, call, history, answer>>

(* MUTANT: goes on for one tile too many.                                  *)
InitTileTooMany ==
  /\ At("tile")
  /\ \E yes \in BOOLEAN :
       /\ ready' = [i \in Tiles |-> ready[i] \/ (yes /\ i = main.tile)]
       /\ main' = [main EXCEPT !.tile = IF yes THEN @ + 1 ELSE @,
                               !.step = IF yes /\ main.tile + 1 <= main.allocated
                                        THEN "tile" ELSE "count"]
  /\ UNCHANGED <<taken, buf, base, initialized, fpid, fcid, inits, call, history, answer>>

(* Configures one tile, and goes on while tiles say yes.                   *)
InitTile ==
  /\ At("tile")
  /\ \E yes \in BOOLEAN :
       /\ ready' = [ready EXCEPT ![main.tile] = @ \/ yes]
       /\ main' = [main EXCEPT !.tile = IF yes THEN @ + 1 ELSE @,
                               !.step = IF yes /\ main.tile + 1 < main.allocated
                                        THEN "tile" ELSE "count"]
  /\ UNCHANGED <<taken, buf, base, initialized, fpid, fcid, inits, call, history, answer>>

(* MUTANT: counts the tile that has said no.                               *)
CountAll ==
  /\ At("count")
  /\ initialized' = TRUE
  /\ InitReturns(main.allocated * queues_per_tile)
  /\ UNCHANGED <<device, base, fpid, fcid, call, history>>

CountTiles ==
  /\ At("count")
  /\ initialized' = TRUE
  /\ InitReturns(main.tile * queues_per_tile)
  /\ UNCHANGED <<device, base, fpid, fcid, call, history>>

MainStep == alloc_tile \/ dec_fifo_cleanup \/ InitTile \/ CountTiles

-----------------------------------------------------------------------------
(* The calls on a queue.  A call is made of an open, a transfer and a      *)
(* close, the way all desc_* functions make them.                          *)

Begin(t, do, qid, val) ==
  /\ call[t] = Idle
  /\ call' = [call EXCEPT ![t] = [do |-> do, qid |-> qid, step |-> "open", val |-> val]]
  /\ UNCHANGED <<device, base, initialized, fpid, fcid, inits, main, history, answer>>

In(t, step) == call[t].step = step
Goto(t, step) == call' = [call EXCEPT ![t].step = step]
End(t) == IF call[t].do = "consume" THEN "consumer" ELSE "producer"

(* MUTANT: the queues of a tile share an address.                          *)
FifoOfTile(qid) == <<qid \div queues_per_tile, 0>>
FifoOf(qid) == <<qid \div queues_per_tile, qid % queues_per_tile>>

(* MUTANT: does not wait.                                                  *)
NoWait(t) ==
  /\ In(t, "open")
  /\ Goto(t, "connect")
  /\ UNCHANGED <<device, base, initialized, fpid, fcid, inits, main, history, answer>>

(* while (!initialized)                                                    *)
LeaveWait(t) ==
  /\ In(t, "open") /\ initialized
  /\ Goto(t, "connect")
  /\ UNCHANGED <<device, base, initialized, fpid, fcid, inits, main, history, answer>>

(* A base that is not set leads anywhere: the program crashes.             *)
Wild(t) == In(t, "connect") /\ ~ base[FifoOf(call[t].qid)[1]]

(* The answer 0 is asked for again.                                        *)
Connect(t) ==
  /\ In(t, "connect") /\ ~ Wild(t)
  /\ LET fifo == FifoOf(call[t].qid)
     IN  /\ ready[fifo[1]] /\ taken[fifo][End(t)] = Nobody
         /\ taken' = [taken EXCEPT ![fifo][End(t)] = t]
         /\ IF End(t) = "producer"
            THEN fpid' = [fpid EXCEPT ![call[t].qid] = fifo] /\ UNCHANGED fcid
            ELSE fcid' = [fcid EXCEPT ![call[t].qid] = fifo] /\ UNCHANGED fpid
  /\ Goto(t, "transfer")
  /\ UNCHANGED <<ready, buf, base, initialized, inits, main, history, answer>>

Push(t, here) ==
  LET fifo == fpid[call[t].qid]
  IN  /\ Len(buf[fifo]) < Slots
      /\ buf' = [buf EXCEPT ![fifo] = Append(@, [val |-> call[t].val, here |-> here])]
      /\ sent' = [sent EXCEPT ![call[t].qid] = Append(@, call[t].val)]
      /\ Goto(t, "close")
      /\ UNCHANGED <<ready, taken, base, initialized, fpid, fcid, inits, main, received, answer>>

dec_produce(t) == In(t, "transfer") /\ call[t].do = "produce" /\ Push(t, TRUE)

(* The device is given the address; the value comes from memory later.     *)
dec_load_async(t) == In(t, "transfer") /\ call[t].do = "load" /\ Push(t, FALSE)

dec_consume(t) ==
  /\ In(t, "transfer") /\ call[t].do = "consume"
  /\ LET fifo == fcid[call[t].qid]
     IN  /\ buf[fifo] # <<>> /\ Head(buf[fifo]).here
         /\ buf' = [buf EXCEPT ![fifo] = Tail(@)]
         /\ received' = [received EXCEPT ![call[t].qid] = Append(@, Head(buf[fifo]).val)]
  /\ Goto(t, "close")
  /\ UNCHANGED <<ready, taken, base, initialized, fpid, fcid, inits, main, sent, answer>>

(* MUTANT: the connection stays.                                           *)
CloseNothing(t) ==
  /\ In(t, "close")
  /\ call' = [call EXCEPT ![t] = Idle]
  /\ UNCHANGED <<device, base, initialized, fpid, fcid, inits, main, history, answer>>

(* The addresses in fpid and fcid stay after a close.                      *)
Close(t) ==
  /\ In(t, "close")
  /\ LET fifo == IF End(t) = "producer" THEN fpid[call[t].qid] ELSE fcid[call[t].qid]
     IN  taken' = [taken EXCEPT ![fifo][End(t)] = IF @ = t THEN Nobody ELSE @]
  /\ call' = [call EXCEPT ![t] = Idle]
  /\ UNCHANGED <<ready, buf, base, initialized, fpid, fcid, inits, main, history, answer>>

CallStep(t) ==
  LeaveWait(t) \/ Connect(t) \/ dec_produce(t) \/ dec_load_async(t) \/ dec_consume(t) \/ Close(t)

(* Memory answers in any order.                                            *)
MemoryAnswers ==
  /\ \E f \in Fifos : \E i \in DOMAIN buf[f] :
       ~ buf[f][i].here /\ buf' = [buf EXCEPT ![f][i].here = TRUE]
  /\ UNCHANGED <<ready, taken, base, initialized, fpid, fcid, inits, main, call, history, answer>>
=============================================================================
