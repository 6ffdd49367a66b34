--------------------------- MODULE TensorProgram ---------------------------
(***************************************************************************)
(* A team of threads runs the kernel that utils/python/DEC_TensorFlow.py   *)
(* writes: calls of tensor kernels, each followed by DECADES_BARRIER.      *)
(* Threads run their tasks at their own pace, and a task reads what it     *)
(* needs in one step and stores its result in another.                     *)
(*                                                                         *)
(* A definition marked MUTANT is a mistaken version of the one after it,   *)
(* with which a property must fail; it is no part of the model.            *)
(***************************************************************************)
EXTENDS TensorKernels

CONSTANTS
  Tensors,    \* the names of the arrays
  Programs,   \* what may be run: a team's size and a sequence of calls
  MaxTeam     \* the largest team

ASSUME ProgramAssumption ==
  /\ "" \notin Tensors
  /\ MaxTeam \in Nat
  /\ \A p \in Programs :
       p.team \in 1 .. MaxTeam /\ Len(p.calls) \in Nat /\ DOMAIN p.calls = 1 .. Len(p.calls)

VARIABLES
  program,    \* the program that is run
  todo,       \* the tasks each thread has left
  loaded,     \* what a thread has read for the task it is in, or <<>>
  mem         \* the tensors: a term in every cell

vars == <<program, todo, loaded, mem>>

Team(p) == 0 .. p.team - 1

(* MUTANT: no barrier between two calls.                                   *)
NoBarriers(p, tid) ==
  Joined([k \in DOMAIN p.calls |-> Tasks(p.calls[k], tid, p.team)], Len(p.calls))
  \o <<Barrier(Len(p.calls))>>

(* The text of the kernel, for one thread.                                 *)
program_text(p, tid) ==
  Joined([k \in DOMAIN p.calls |-> Tasks(p.calls[k], tid, p.team) \o <<Barrier(k)>>],
         Len(p.calls))

-----------------------------------------------------------------------------
(* Terms: what was in a cell at first, or an operation on terms.           *)
Term(op, at, args) == [op |-> op, at |-> at, args |-> args]
Initial(cell) == Term(cell[1], cell[2], <<>>)

Touched(tasks) ==
  UNION {{tasks[k].cell} \cup {tasks[k].reads[m] : m \in DOMAIN tasks[k].reads} :
           k \in DOMAIN tasks}

(* The whole of a call in the order it is written, by one thread that      *)
(* takes part in it: what the call is to compute.                          *)
Whole(c) == Body(c, 0, 1)

Store(m, task, values) == [m EXCEPT ![task.cell] = Term(task.op, task.cell[2], values)]

(* The tensors after each of the tasks, when they are done one by one.     *)
Perform(m, task) == Store(m, task, [k \in DOMAIN task.reads |-> m[task.reads[k]]])
Performed(m, tasks) ==
  LET after[k \in 0 .. Len(tasks)] ==
        IF k = 0 THEN m ELSE Perform(after[k - 1], tasks[k])
  IN  after
Applied(m, tasks) == Performed(m, tasks)[Len(tasks)]

AllCells(p) ==
  LET whole == UNION {Touched(Whole(p.calls[k])) : k \in DOMAIN p.calls}
      parts == UNION {Touched(program_text(p, t)) : t \in Team(p)}
  IN  {cell \in whole \cup parts : cell[1] # ""}

At_first(p) == [cell \in AllCells(p) |-> Initial(cell)]

-----------------------------------------------------------------------------
Init ==
  /\ program \in Programs
  /\ todo = [t \in Team(program) |-> program_text(program, t)]
  /\ loaded = [t \in Team(program) |-> <<>>]
  /\ mem = At_first(program)

AtBarrier(t) == todo[t] # <<>> /\ Head(todo[t]).do = "barrier"
Reads(t) == todo[t] # <<>> /\ ~ AtBarrier(t) /\ loaded[t] = <<>> /\ Head(todo[t]).reads # <<>>
Stores(t) == todo[t] # <<>> /\ ~ AtBarrier(t) /\ (loaded[t] # <<>> \/ Head(todo[t]).reads = <<>>)

Load(t) ==
  /\ Reads(t)
  /\ LET reads == Head(todo[t]).reads
     IN  loaded' = [loaded EXCEPT ![t] = [k \in DOMAIN reads |-> mem[reads[k]]]]
  /\ UNCHANGED <<program, todo, mem>>

(* MUTANT: what was read is used for the next task as well.                *)
FinishKeeping(t) ==
  /\ Stores(t)
  /\ mem' = Store(mem, Head(todo[t]), loaded[t])
  /\ todo' = [todo EXCEPT ![t] = Tail(@)]
  /\ UNCHANGED <<program, loaded>>

Finish(t) ==
  /\ Stores(t)
  /\ mem' = Store(mem, Head(todo[t]), loaded[t])
  /\ todo' = [todo EXCEPT ![t] = Tail(@)]
  /\ loaded' = [loaded EXCEPT ![t] = <<>>]
  /\ UNCHANGED program

(* The barrier of OpenMP: when all threads of the team stand at one, all   *)
(* of them go on.                                                          *)
DECADES_BARRIER ==
  /\ \A t \in Team(program) : AtBarrier(t)
  /\ todo' = [t \in Team(program) |-> Tail(todo[t])]
  /\ UNCHANGED <<program, loaded, mem>>

Ended == \A t \in Team(program) : todo[t] = <<>>

(* main goes on alone.                                                     *)
Return == Ended /\ UNCHANGED vars

Next ==
  \/ \E t \in Team(program) : Load(t) \/ Finish(t)
  \/ DECADES_BARRIER
  \/ Return

(* The operating system runs every thread of the team.                     *)
Spec ==
  /\ Init /\ [][Next]_vars
  /\ \A t \in 0 .. MaxTeam - 1 : WF_vars(t \in Team(program) /\ (Load(t) \/ Finish(t)))
  /\ WF_vars(DECADES_BARRIER)

-----------------------------------------------------------------------------
(* Calls that a team shares. *)

Written(tasks) == {tasks[k].cell : k \in DOMAIN tasks}

(* What tasks do to these cells.                                           *)
TasksOn(tasks, cells) ==
  Joined([k \in DOMAIN tasks |-> IF tasks[k].cell \in cells THEN <<tasks[k]>> ELSE <<>>],
         Len(tasks))

(* Every cell is made by a thread that does all that is done to it, and to *)
(* the cells it is made from.                                              *)
Divided(c, n) ==
  LET whole == Whole(c)
  IN  /\ \A t \in 0 .. n - 1 :
           LET part == Tasks(c, t, n)
           IN  /\ part = TasksOn(whole, Written(part))
               /\ Touched(part) \cap Written(whole) \subseteq Written(part)
      /\ Written(whole) \subseteq UNION {Written(Tasks(c, t, n)) : t \in 0 .. n - 1}

(* No thread reads what another one writes; two that write the same cell   *)
(* write the same.                                                         *)
Apart(c, n) ==
  \A t, u \in 0 .. n - 1 : t # u =>
    LET part == Tasks(c, t, n)
        others == Tasks(c, u, n)
    IN  \A i \in DOMAIN part, j \in DOMAIN others :
          /\ \A m \in DOMAIN others[j].reads : others[j].reads[m] # part[i].cell
          /\ part[i].cell = others[j].cell =>
               part[i].op = others[j].op /\ part[i].reads = others[j].reads

(* What a thread can be told to do.                                        *)
Operations ==
  Elementwise \cup
  {"exp", "divide", "softmaxgrad", "bias", "accumulate", "lrn", "zero", "*", "dense",
   "max", "avg", "maxgrad", "avggrad", "conv", "dx", "dw"}
TensorCells == Tensors \X Int
TensorTasks ==
  [do : {"set", "add"}, cell : TensorCells, op : Operations, reads : Seq(TensorCells)]
Instructions ==
  TensorTasks
  \cup [do : {"barrier"}, cell : {""} \X Nat, op : {""}, reads : {<<>>}]
WellFormed(p) ==
  \A k \in DOMAIN p.calls, t \in Team(p) : Tasks(p.calls[k], t, p.team) \in Seq(Instructions)

(* There is no barrier inside.                                             *)
Unbroken(c, n) ==
  Whole(c) \in Seq(TensorTasks) /\ \A t \in 0 .. n - 1 : Tasks(c, t, n) \in Seq(TensorTasks)

Shares(c, n) == Unbroken(c, n) /\ Divided(c, n) /\ Apart(c, n)

AllShared(p) == \A k \in DOMAIN p.calls : Shares(p.calls[k], p.team)

-----------------------------------------------------------------------------
(* Properties *)

TypeOK ==
  /\ DOMAIN todo = Team(program) /\ DOMAIN loaded = Team(program)
  /\ \A t \in Team(program) :
       loaded[t] # <<>> => Stores(t) /\ Len(loaded[t]) = Len(Head(todo[t]).reads)

(* The team shares the calls, but the one of the kernel with a barrier     *)
(* inside: each cell has a thread that does all that is done to it, in the *)
(* order of the source, whatever the team leaves over of a loop, and no    *)
(* thread reads what another one writes.                                   *)
CallsShared ==
  \A k \in DOMAIN program.calls :
    program.calls[k].kernel = "conv2dbackpropfilter" \/ Shares(program.calls[k], program.team)

(* Between calls, the tensors hold what the calls so far compute when one  *)
(* thread makes them: with the team of the program, nothing is left out,   *)
(* done twice or done too early.                                           *)
MadeAlone(made) ==
  Applied(At_first(program),
          Joined([k \in DOMAIN program.calls |-> Whole(program.calls[k])], made))

SerialResult ==
  (\A t \in Team(program) : AtBarrier(t)) =>
    LET made == Head(todo[0]).cell[2]
    IN  made # 0 => mem = MadeAlone(made)

(* "NUM_THREADS is the number of threads to utilize in parallel", and the  *)
(* native compilation, of one thread, is "for verification of correct      *)
(* program output", README.md: the kernel leaves what one thread leaves.   *)
NativeResult == Ended => mem = MadeAlone(Len(program.calls))

(* A cell one thread is about to store to is not one that another thread   *)
(* is about to read, or to store something else to.                        *)
NoRace ==
  \A t, u \in Team(program) :
    t # u /\ Stores(t) =>
      LET cell == Head(todo[t]).cell
      IN  /\ Reads(u) => \A k \in DOMAIN Head(todo[u]).reads :
                           Head(todo[u]).reads[k] # cell
          /\ Stores(u) /\ Head(todo[u]).cell = cell =>
               Head(todo[u]).op = Head(todo[t]).op /\ loaded[u] = loaded[t]

(* All threads pass the same barriers, so the kernel returns.              *)
Returns == <>Ended
=============================================================================
