------------------------------ MODULE Channels ------------------------------
(***************************************************************************)
(* What the decoupling runtime promises to the code that calls the dec_*   *)
(* interface (RT/include/dec_decoupling.h): numbered bounded FIFO channels *)
(* between threads.  At any time at most one thread holds the producing    *)
(* end of a channel and at most one its consuming end, only the holder of  *)
(* an end uses it, and what is received is what was sent, in order.        *)
(*                                                                         *)
(* Sending and receiving are single steps here.  ShmemDecoupling, where    *)
(* they are the loads and stores of RT/src/shmem_decoupling.cpp,           *)
(* implements this specification.                                          *)
(***************************************************************************)
EXTENDS Integers, Sequences

CONSTANTS
  Threads,      \* the threads that call the runtime, as OpenMP thread numbers
  Qids,         \* the channel numbers
  Values,       \* what a channel carries
  None,         \* no value at all
  Capacity      \* how many values a channel holds

NoThread == -1  \* the value of an ownership cell nobody holds

ASSUME ChannelsAssumption ==
  /\ Threads \subseteq Nat
  /\ Capacity \in Nat \ {0}
  /\ None \notin Values

VARIABLES
  live,         \* the channels that exist
  chan,         \* the values sent and not received yet, oldest first
  delivered,    \* the value each channel handed out last
  producer,     \* the holder of each producing end
  consumer      \* the holder of each consuming end

vars == <<live, chan, delivered, producer, consumer>>

Init ==
  /\ live = {}
  /\ chan = [q \in Qids |-> <<>>]
  /\ delivered = [q \in Qids |-> None]
  /\ producer = [q \in Qids |-> 0]
  /\ consumer = [q \in Qids |-> 0]

-----------------------------------------------------------------------------
(* Taking and giving back one end of a channel. *)

OpenProducer(t, q) ==
  /\ q \in live /\ producer[q] = NoThread
  /\ producer' = [producer EXCEPT ![q] = t]
  /\ UNCHANGED <<live, chan, delivered, consumer>>

OpenConsumer(t, q) ==
  /\ q \in live /\ consumer[q] = NoThread
  /\ consumer' = [consumer EXCEPT ![q] = t]
  /\ UNCHANGED <<live, chan, delivered, producer>>

CloseProducer(t, q) ==
  /\ q \in live /\ producer[q] = t
  /\ producer' = [producer EXCEPT ![q] = NoThread]
  /\ UNCHANGED <<live, chan, delivered, consumer>>

CloseConsumer(t, q) ==
  /\ q \in live /\ consumer[q] = t
  /\ consumer' = [consumer EXCEPT ![q] = NoThread]
  /\ UNCHANGED <<live, chan, delivered, producer>>

(* Using an end one holds. *)

Send(t, q, v) ==
  /\ q \in live /\ producer[q] = t
  /\ Len(chan[q]) < Capacity
  /\ chan' = [chan EXCEPT ![q] = Append(@, v)]
  /\ UNCHANGED <<live, delivered, producer, consumer>>

Receive(t, q) ==
  /\ q \in live /\ consumer[q] = t
  /\ chan[q] # <<>>
  /\ chan' = [chan EXCEPT ![q] = Tail(@)]
  /\ delivered' = [delivered EXCEPT ![q] = Head(chan[q])]
  /\ UNCHANGED <<live, producer, consumer>>

-----------------------------------------------------------------------------
(* Creating channels resets the ends of some of them and leaves the        *)
(* channels that already exist, with what they hold, alone.                *)
Create(fresh, reset) ==
  /\ fresh \cap live = {}
  /\ live' = live \cup fresh
  /\ chan' = [q \in Qids |-> IF q \in fresh THEN <<>> ELSE chan[q]]
  /\ delivered' = [q \in Qids |-> IF q \in fresh THEN None ELSE delivered[q]]
  /\ producer' = [q \in Qids |-> IF q \in reset THEN NoThread ELSE producer[q]]
  /\ consumer' = [q \in Qids |-> IF q \in reset THEN NoThread ELSE consumer[q]]

Destroy ==
  /\ live' = {}
  /\ chan' = [q \in Qids |-> <<>>]
  /\ delivered' = [q \in Qids |-> None]
  /\ UNCHANGED <<producer, consumer>>

Next ==
  \/ \E t \in Threads, q \in Qids :
       \/ OpenProducer(t, q) \/ CloseProducer(t, q)
       \/ OpenConsumer(t, q) \/ CloseConsumer(t, q)
       \/ \E v \in Values : Send(t, q, v)
       \/ Receive(t, q)
  \/ \E fresh, reset \in SUBSET Qids : Create(fresh, reset)
  \/ Destroy

Spec == Init /\ [][Next]_vars
=============================================================================
