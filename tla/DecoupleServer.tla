--------------------------- MODULE DecoupleServer ---------------------------
(***************************************************************************)
(* utils/DecoupleServer/produce_consume_maple.cpp: the desc_* calls on the *)
(* Maple runtime.  main makes the queues; then pairs of threads make the   *)
(* calls of their scripts.  The first half of the threads are the supply   *)
(* side.                                                                   *)
(*                                                                         *)
(* A definition marked MUTANT is a mistaken version of the one after it,   *)
(* with which a property must fail; it is no part of the model.            *)
(***************************************************************************)
EXTENDS MapleRuntime, SequencesExt

CONSTANTS
  NumPairs,
  DirtySets,  \* which tiles earlier programs may have left configured
  Scripts     \* what pairs are to pass on: for each, a sequence of "data", "ptr",
              \* "load"

ASSUME ServerAssumption ==
  /\ NumPairs \in Nat \ {0} /\ Threads = 0 .. 2 * NumPairs - 1
  /\ 2 * NumPairs <= MaxTiles
  /\ \A s \in Scripts : s \in [0 .. NumPairs - 1 -> Seq({"data", "ptr", "load"})]

VARIABLES script, made     \* the script of a pair, and how many of its calls
                           \* a thread has begun
vars == <<mapleVars, script, made>>

DEC_NUM_PRODUCERS == NumPairs
DEC_NUM_CONSUMERS == NumPairs
Supplies(t) == t < DEC_NUM_PRODUCERS
Pair(t) == t % NumPairs

(* The cases of desc_init fall through.  The program is compiled for 'd'.  *)
desc_init(mode) ==
  LET both == 2 * (DEC_NUM_CONSUMERS + DEC_NUM_PRODUCERS)
  IN  CASE mode = "c" -> <<DEC_NUM_CONSUMERS, both, both>>
        [] mode = "d" -> <<both, both>>
        [] mode = "g" -> <<both>>

(* All modes come to the same.  Only threads of the compute side ask for a *)
(* consumer's queue here: for others the difference, a uint32_t, wraps     *)
(* around and no queue has that number.                                    *)
get_producer_qid(t) == t
get_consumer_qid(t) == t - DEC_NUM_PRODUCERS

(* The supply_to_compute regions: data, and addresses.                     *)
Region(kind) == IF kind = "ptr" THEN 3 * DEC_NUM_CONSUMERS ELSE 0

Init ==
  /\ \E dirty \in DirtySets : MapleInit(dirty)
  /\ inits = desc_init("d")
  /\ main = [step |-> "call", tile |-> 0, allocated |-> 0]
  /\ script \in Scripts
  /\ made = [t \in Threads |-> 0]

(* The region with the threads follows desc_init.                          *)
Started == inits = <<>>

HasMore(t) == made[t] < Len(script[Pair(t)])
Following(t) == script[Pair(t)][made[t] + 1]

(* desc_supply_produce_*, and dec_load32_async by a supply thread.         *)
desc_supply_produce(t) ==
  /\ Started /\ Supplies(t) /\ HasMore(t)
  /\ Begin(t, IF Following(t) = "load" THEN "load" ELSE "produce",
           get_producer_qid(t) + Region(Following(t)), made[t] + 1)
  /\ made' = [made EXCEPT ![t] = @ + 1]
  /\ UNCHANGED script

desc_compute_consume(t) ==
  /\ Started /\ ~ Supplies(t) /\ HasMore(t)
  /\ Begin(t, "consume", get_consumer_qid(t) + Region(Following(t)), 0)
  /\ made' = [made EXCEPT ![t] = @ + 1]
  /\ UNCHANGED script

Step(t) == CallStep(t) /\ UNCHANGED <<script, made>>
Main == MainStep /\ UNCHANGED <<script, made>>
Memory == MemoryAnswers /\ UNCHANGED <<script, made>>

Next ==
  \/ Main \/ Memory
  \/ \E t \in Threads : desc_supply_produce(t) \/ desc_compute_consume(t) \/ Step(t)

(* main and all threads run, and memory answers what it is asked.          *)
Spec ==
  /\ Init /\ [][Next]_vars
  /\ WF_vars(Main) /\ WF_vars(Memory)
  /\ \A t \in Threads : WF_vars(desc_supply_produce(t) \/ desc_compute_consume(t) \/ Step(t))

-----------------------------------------------------------------------------
(* Properties *)

MapleTypeOK ==
  /\ taken \in [Fifos -> [producer : Threads \cup {Nobody, Earlier},
                          consumer : Threads \cup {Nobody, Earlier}]]
  /\ \A f \in Fifos : Len(buf[f]) <= Slots
  /\ \A q \in Qids : fpid[q] \in Fifos \cup {NoFifo} /\ fcid[q] \in Fifos \cup {NoFifo}
  /\ main.tile <= main.allocated /\ main.allocated <= MaxTiles

(* A queue hands out what this program has put in, in order, although      *)
(* loads are answered late.  The values of this program are numbered from  *)
(* 1.  What an earlier one has left is 0: it comes out first on the later  *)
(* tiles, and never on the first, the only one dec_fifo_init resets.       *)
OwnValuesInOrder ==
  \A q \in Qids :
    \E left \in {<<>>, <<0>>} :
      /\ FifoOf(q)[1] = 0 => left = <<>>
      /\ IsPrefix(received[q], left \o sent[q])

(* dec_fifo_init has made at least what it was asked for.                  *)
Enough == inits = <<>> /\ answer.res >= answer.count

(* The two ends of a queue are held by the threads of one pair only.       *)
PartnersOnly ==
  \A f \in Fifos :
    LET p == taken[f].producer
        c == taken[f].consumer
    IN  p \in Threads /\ c \in Threads => c = p + NumPairs

(* If dec_fifo_init says so, these queues are there, and held by calls of  *)
(* this program on them; those of the first tile, by nothing else.         *)
AnswerIsTrue ==
  Enough =>
    \A q \in 0 .. answer.count - 1 :
      LET f == FifoOf(q)
      IN  /\ base[f[1]] /\ ready[f[1]]
          /\ taken[f].producer \in Threads => call[taken[f].producer].qid = q
          /\ taken[f].consumer \in Threads => call[taken[f].consumer].qid = q
          /\ f[1] = 0 => Earlier \notin {taken[f].producer, taken[f].consumer}

(* main goes on when there are too few queues.  Even then, an address that *)
(* leads anywhere is only used for a queue that dec_fifo_init has not      *)
(* counted, and none before a dec_fifo_init has come to its end.           *)
NoWildAddress ==
  \A t \in Threads : Wild(t) => initialized /\ answer.res <= call[t].qid

(* With enough queues, and no end of them left held by an earlier program, *)
(* all calls return, whatever values it has left.                          *)
NoneHeld ==
  \A q \in 0 .. answer.count - 1 :
    Earlier \notin {taken[FifoOf(q)].producer, taken[FifoOf(q)].consumer}
Finished == \A t \in Threads : ~ HasMore(t) /\ call[t] = Idle
Served == Enough /\ NoneHeld ~> Finished
=============================================================================
