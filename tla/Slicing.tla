------------------------------ MODULE Slicing ------------------------------
(***************************************************************************)
(* What the compiler makes of a kernel: the passes DecoupleSupply,         *)
(* DecoupleCompute and DecoupleSupplyAddr (passes/), run in this order     *)
(* with LLVM's -adce in between, turn two copies of it into a supply and a *)
(* compute slice (utils/DECpp.py).                                         *)
(*                                                                         *)
(* A kernel is a sequence of instructions, the i-th of which defines       *)
(* register i.  Each may be guarded by an earlier register: both slices    *)
(* keep the branches, so a loop is its unrolling.  Left out are the        *)
(* arithmetic between a load and its uses, types other than "pointer or    *)
(* not", operator new (its desc_* calls are assert(0)), the supply_        *)
(* exclusive operations and the compute_exclusive atomics.                 *)
(*                                                                         *)
(* A definition marked MUTANT is a mistaken version of the one after it,   *)
(* with which a property must fail; it is no part of the model.            *)
(***************************************************************************)
EXTENDS Integers, Sequences, SequencesExt

(* Operands: a register, or (register 0) a constant.                       *)
Reg(r) == [reg |-> r, const |-> 0]
Const(c) == [reg |-> 0, const |-> c]

(* The instructions the passes tell apart.                                 *)
(*   load   a load (LoadInst), of data or of a pointer                     *)
(*   rmw    a call dec_atomic_fetch_add, ..fetch_min or ..compare..        *)
(*   cmp    a comparison of pointers (ICmpInst)                            *)
(*   store  a store, which is or becomes a compute_exclusive_store         *)
(*   xload  a compute_exclusive_load, written by the programmer            *)
Ops == {"load", "rmw", "cmp", "store", "xload"}
NoGuard == 0

(* The registers an instruction reads, without the branch it is under.     *)
Operands(ins) == {ins.at.reg, ins.from.reg} \ {0}

Reads(ins, r) == r \in Operands(ins) \/ ins.guard = r

(* Registers are defined before they are read, and a store defines none.   *)
IsKernel(k) ==
  \A i \in 1 .. Len(k), r \in 1 .. Len(k) :
    /\ k[i].op \in Ops
    /\ Reads(k[i], r) => r < i /\ k[r].op # "store"

-----------------------------------------------------------------------------
(* DecoupleSupply and DecoupleCompute number what they instrument, each    *)
(* with a counter INT_LABEL of its own: a value sent under a label is      *)
(* meant for the receive with the same label.                              *)

supply_instruments(ins) == ins.op \in {"load", "rmw", "cmp"}
compute_instruments(ins) == ins.op \in {"load", "rmw", "cmp"}

supply_label(k, i) == Cardinality({j \in 1 .. i - 1 : supply_instruments(k[j])})
(* MUTANT: check_rmw does not advance INT_LABEL. *)
LabelWithoutRmw(k, i) ==
  Cardinality({j \in 1 .. i - 1 : k[j].op \in {"load", "cmp"}})

compute_label(k, i) == Cardinality({j \in 1 .. i - 1 : compute_instruments(k[j])})

(* In the compute slice a load, an atomic and a comparison of pointers     *)
(* become receives, which read no register.  What still reads registers    *)
(* are the stores, the compute_exclusive_loads and the branches.           *)
compute_reads(k, r) ==
  \E j \in 1 .. Len(k) :
    \/ k[j].guard = r
    \/ k[j].op \in {"store", "xload"} /\ r \in Operands(k[j])

(* DecoupleSupplyAddr drops the receives whose value nobody reads.         *)
consume_removed(k, i) == compute_instruments(k[i]) /\ ~ compute_reads(k, i)

labels_to_erase(k) ==
  {compute_label(k, i) : i \in {j \in 1 .. Len(k) : consume_removed(k, j)}}

(* MUTANT: DecoupleSupplyAddr looks at the compute slice only. *)
ProducesAll(k, i) == supply_instruments(k[i])

(* On the supply side the send of such a label is dropped too, if it is    *)
(* one of the desc_supply_produce functions.  The send of a comparison,    *)
(* desc_supply_special_produce_cmp, is not one of them.                    *)
produces(k, i) ==
  /\ supply_instruments(k[i])
  /\ k[i].op = "cmp" \/ supply_label(k, i) \notin labels_to_erase(k)

(* So the slices of a kernel agree only if the compute slice reads every   *)
(* comparison of pointers.                                                 *)
CmpsUsed(k) == \A i \in 1 .. Len(k) : k[i].op = "cmp" => ~ consume_removed(k, i)

(* A load or an atomic that only its own send reads is fused with it: a    *)
(* desc_supply_load_produce or a dec_atomic_.._async call.                 *)
can_be_promoted(k, i) ==
  /\ produces(k, i)
  /\ k[i].op # "cmp"
  /\ \A j \in 1 .. Len(k) : supply_instruments(k[j]) => ~ Reads(k[j], i)

(* MUTANT: an atomic whose result nobody reads is taken for dead code. *)
KeepsRead(k) ==
  LET keeps[i \in 1 .. Len(k)] ==
        /\ supply_instruments(k[i])
        /\ \/ produces(k, i)
           \/ \E j \in i + 1 .. Len(k) : keeps[j] /\ Reads(k[j], i)
  IN  keeps

(* What is left of the supply slice after the last dead-code elimination.  *)
supply_keeps(k) ==
  LET keeps[i \in 1 .. Len(k)] ==
        /\ supply_instruments(k[i])
        /\ \/ produces(k, i)
           \/ k[i].op = "rmw"
           \/ \E j \in i + 1 .. Len(k) : keeps[j] /\ Reads(k[j], i)
  IN  keeps

(* remove_compute_exclusive_load deletes the load and all that is computed *)
(* from it from the supply slice.  It stops the compiler at a desc_supply  *)
(* call on the way, leaves a block without an end when it deletes a        *)
(* branch, and erases twice what it meets twice.                           *)
Compiles(k) ==
  \A j \in 1 .. Len(k) :
    LET computed(r) == r # 0 /\ k[r].op = "xload"
        from_xload == {f \in {"at", "from"} : computed(k[j][f].reg)}
    IN  /\ ~ computed(k[j].guard)
        /\ from_xload # {} => k[j].op = "store" /\ Cardinality(from_xload) = 1

-----------------------------------------------------------------------------
(* The two slices, as the steps their threads take.  Every step names the  *)
(* instruction it is for; a desc_* call is the three steps of DescRuntime  *)
(* after the one that starts it.                                           *)

Does(i, what) == [n \in 1 .. Len(what) |-> [do |-> what[n], of |-> i]]

SendSteps == <<"call", "open", "send", "close">>
ReceiveSteps == <<"call", "open", "receive", "close">>

supply_steps(k, i) ==
  IF ~ supply_keeps(k)[i] THEN <<>>
  ELSE CASE k[i].op = "load" ->
              IF produces(k, i) THEN <<"read">> \o SendSteps ELSE <<"read">>
         [] k[i].op = "rmw" ->
              IF can_be_promoted(k, i) THEN <<"call", "open", "update", "send", "close">>
              ELSE IF produces(k, i) THEN <<"update">> \o SendSteps ELSE <<"update">>
         [] k[i].op = "cmp" -> <<"compare">> \o SendSteps

(* MUTANT: no receive is dropped. *)
ComputeReceivesAll(k, i) ==
  CASE k[i].op = "store" -> <<"write">>
    [] k[i].op = "xload" -> <<"read">>
    [] OTHER -> ReceiveSteps

compute_steps(k, i) ==
  CASE k[i].op = "store" -> <<"write">>
    [] k[i].op = "xload" -> <<"read">>
    [] OTHER -> IF consume_removed(k, i) THEN <<>> ELSE ReceiveSteps

supply_slice(k) ==
  FlattenSeq([i \in 1 .. Len(k) |-> Does(i, supply_steps(k, i))])
compute_slice(k) ==
  FlattenSeq([i \in 1 .. Len(k) |-> Does(i, compute_steps(k, i))])

(* The queue a value travels in: comparisons and the results of atomics    *)
(* are data.                                                               *)
QueueType(ins) == IF ins.op = "load" THEN ins.type ELSE "data"
=============================================================================
