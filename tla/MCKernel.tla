------------------------------ MODULE MCKernel ------------------------------
(***************************************************************************)
(* All kernels of two instructions, and all of three that end in a store   *)
(* or an atomic, over two cells, whose pointer comparisons the compute     *)
(* slice uses.  UnusedCmp and Aliasing are the kernels of the runs that    *)
(* violate AlwaysSameMemory.                                               *)
(***************************************************************************)
EXTENDS DecoupledKernel

MCDataSize == 2
MCValues == [label : 0 .. 3, data : 0 .. MCDataSize - 1]

Make(op, type, at, from, guard) ==
  [op |-> op, type |-> type, at |-> at, from |-> from, guard |-> guard]

(* What may stand at place i. *)
Addresses(i) == {Const(0), Const(1)} \cup {Reg(r) : r \in 1 .. i - 1}
Operators(i) == {Const(1)} \cup {Reg(r) : r \in 1 .. i - 1}

InsAt(i) ==
  {Make("load", type, a, Const(0), g) :
     type \in Types, a \in Addresses(i), g \in 0 .. i - 1}
  \cup {Make(op, "data", a, Const(0), g) :
          op \in {"rmw", "xload"}, a \in Addresses(i), g \in 0 .. i - 1}
  \cup {Make("cmp", "ptr", Const(0), Reg(r), g) : r \in 1 .. i - 1, g \in 0 .. i - 1}
  \cup {Make("store", "data", a, v, g) :
          a \in Addresses(i), v \in Operators(i), g \in 0 .. i - 1}

Compiled(K) == {k \in K : IsKernel(k) /\ Compiles(k) /\ CmpsUsed(k)}

ShortKernels == Compiled({<<a, b>> : a \in InsAt(1), b \in InsAt(2)})
LongKernels ==
  Compiled({<<a, b, c>> : a \in InsAt(1), b \in InsAt(2),
                          c \in {i \in InsAt(3) : i.op \in {"store", "rmw"}}})

(* A pointer is loaded and compared, the result chooses what to load, and  *)
(* what was loaded is stored.                                              *)
UnusedCmp ==
  {<<Make("load", "ptr", Const(0), Const(0), 0),
     Make("cmp", "ptr", Const(0), Reg(1), 0),
     Make("load", "data", Reg(2), Const(0), 0),
     Make("store", "data", Const(0), Reg(3), 0)>>}

(* A cell is stored to, loaded, and what was loaded is stored elsewhere.   *)
Aliasing ==
  {<<Make("store", "data", Const(0), Const(1), 0),
     Make("load", "data", Const(0), Const(0), 0),
     Make("store", "data", Const(1), Reg(2), 0)>>}
=============================================================================
