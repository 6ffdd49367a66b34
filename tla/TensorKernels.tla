--------------------------- MODULE TensorKernels ---------------------------
(***************************************************************************)
(* How the kernels of utils/DECLib/DECADES_TensorFlow.h split their work   *)
(* over a team of threads.  A kernel is called by every thread of the      *)
(* team with its number tid and the team's size num_threads; what a thread *)
(* then does is a sequence of tasks, one per value it stores.  A value is  *)
(* a term over the values read: what the arithmetic makes of them is left  *)
(* out, which of them it uses is not.                                      *)
(*                                                                         *)
(* A call is a record: the kernel, the tensors it reads (in, w) and writes *)
(* (out), and its sizes, each kernel using the fields it needs.            *)
(*                                                                         *)
(* A definition marked MUTANT is a mistaken version of the one after it,   *)
(* with which a property must fail; it is no part of the model.            *)
(***************************************************************************)
EXTENDS Integers, Sequences

Set(cell, op, reads) ==
  [do |-> "set", cell |-> cell, op |-> op, reads |-> reads]
(* out[..] += f(..), which reads the cell first.                           *)
Add(cell, op, reads) ==
  [do |-> "add", cell |-> cell, op |-> op, reads |-> <<cell>> \o reads]
(* A barrier: number 0, or the number of the call that it follows.         *)
Barrier(k) == [do |-> "barrier", cell |-> <<"", k>>, op |-> "", reads |-> <<>>]

(* The loops: from 0 to size - 1, and from tid on.                         *)
UpTo(size) == [k \in 1 .. size |-> k - 1]
From(tid, size) == [k \in 1 .. (IF tid < size THEN size - tid ELSE 0) |-> tid + k - 1]
Even(size) == [k \in 1 .. (size + 1) \div 2 |-> 2 * (k - 1)]
(* What a loop does: what its rounds do, one after the other.              *)
Joined(parts, count) ==
  LET joined[k \in 0 .. count] == IF k = 0 THEN <<>> ELSE joined[k - 1] \o parts[k]
  IN  joined[count]
For(indices, body(_)) ==
  Joined([k \in DOMAIN indices |-> body(indices[k])], Len(indices))

(* MUTANT: the loop goes on by one, as the one of decadesTF_matmul does.   *)
StridedByOne(tid, num_threads, size) == From(tid, size)

(* for (i = tid; i < size; i += num_threads), the loop of most kernels.    *)
Strided(tid, num_threads, size) ==
  [k \in 1 .. (IF tid < size THEN (size - tid - 1) \div num_threads + 1 ELSE 0)
     |-> tid + (k - 1) * num_threads]

(* The cells from one index up to another one.                             *)
Cells(tensor, first, count) == [k \in 1 .. count |-> <<tensor, first + k - 1>>]

-----------------------------------------------------------------------------
(* Element by element. *)

Activations ==
  [one |-> {"relu", "tanh", "sigmoid"},
   two |-> {"relugrad", "prelu", "prelugrad", "tanhgrad", "sigmoidgrad"}]
LinearUnits == [one |-> {"elu"}, two |-> {"elugrad"}]
MoreActivations ==
  [one |-> {"asinh", "selu", "leakyrelu"},
   two |-> {"asinhgrad", "selugrad", "leakyrelugrad"}]
TensorOps == {"add", "sub", "mul", "div"}
ScalarOps == {"scalar_add", "scalar_sub", "scalar_mul", "scalar_div"}
OfOne == Activations.one \cup LinearUnits.one \cup MoreActivations.one
OfTwo == Activations.two \cup LinearUnits.two \cup MoreActivations.two \cup TensorOps
Elementwise == OfOne \cup OfTwo \cup ScalarOps

elementwise(c, tid, n) ==
  LET element(i) ==
        <<Set(<<c.out, i>>, c.kernel,
              IF c.kernel \in OfOne THEN <<<<c.in, i>>>>
              ELSE IF c.kernel \in ScalarOps THEN <<<<c.in, i>>, <<c.w, 0>>>>
              ELSE <<<<c.in, i>>, <<c.w, i>>>>)>>
  IN  For(Strided(tid, n, c.size), element)

(* The working modes of the accelerator, in software.                      *)
sdp(c, tid, n) ==
  LET modes == <<"add", "sub", "mul", "div", "scalar_add", "scalar_sub",
                 "scalar_mul", "scalar_div", "relu">>
  IN  IF c.mode \in 0 .. 8
        THEN elementwise([c EXCEPT !.kernel = modes[c.mode + 1]], tid, n)
        ELSE <<>>

(* One row after the other; the maximum of every row starts from in[0].    *)
softmax(c, tid, n) ==
  LET row(b) ==
        LET indices == [k \in 1 .. c.size |-> b * c.size + k - 1]
            exps(i) == <<Set(<<c.out, i>>, "exp",
                             <<<<c.in, 0>>>> \o Cells(c.in, b * c.size, c.size))>>
            parts(i) == <<Set(<<c.out, i>>, "divide", <<<<c.out, i>>>>)>>
        IN  For(indices, exps) \o For(indices, parts)
  IN  For(Strided(tid, n, c.batch), row)

(* sum is not reset, so that a row holds the sums of the ones before it.   *)
softmaxgrad(c) ==
  LET row(i) == <<Set(<<c.out, i>>, "softmaxgrad",
                      Cells(c.in, 0, i + 1) \o Cells(c.in, 0, c.size)
                        \o Cells(c.w, 0, c.size))>>
  IN  For(UpTo(c.size), row)

bias_add(c, tid, n) ==
  LET cell(i, j) == <<Set(<<c.out, i * c.channels + j>>, "bias",
                          <<<<c.in, i * c.channels + j>>, <<c.w, j>>>>)>>
      row(i) == For(UpTo(c.channels), LAMBDA j : cell(i, j))
  IN  For(Strided(tid, n, c.batch), row)

(* Every thread adds everything.                                           *)
biasaddgrad(c) ==
  LET area == c.height * c.width
      bias(bc) == <<Add(<<c.out, bc>>, "accumulate", Cells(c.in, bc * area, area))>>
  IN  For(UpTo(c.outs * c.batch), bias)

(* A block of twice the radius after the other.                            *)
lrn(c, tid, n) ==
  LET block(i) ==
        For(Cells(c.out, i * 2 * c.width, 2 * c.width),
            LAMBDA cell : <<Set(cell, "lrn", <<<<c.in, cell[2]>>>>
                                   \o Cells(c.in, i * 2 * c.width, 2 * c.width))>>)
  IN  For(Strided(tid, n, c.size \div (2 * c.width)), block)

-----------------------------------------------------------------------------
(* Matrices.  A is rowsA (height) by colsA (channels), B has colsB (width) *)
(* columns and stays the first one of the batch.  The row loop goes on by  *)
(* one, whatever the number of threads.                                    *)
matmul(c, tid) ==
  LET cell(b, i, j) ==
        LET out == <<c.out, (b * c.height + i) * c.width + j>>
            product(k) == <<Add(out, "*", <<<<c.in, (b * c.height + i) * c.channels + k>>,
                                            <<c.w, k * c.width + j>>>>)>>
        IN  <<Set(out, "zero", <<>>)>> \o For(UpTo(c.channels), product)
      rows(b) == For(From(tid, c.height),
                     LAMBDA i : For(UpTo(c.width), LAMBDA j : cell(b, i, j)))
  IN  For(UpTo(c.batch), rows)

(* Thread tid starts with the first row, and stops tid rows before the     *)
(* last: the bases are not those of row b = tid.                           *)
dense(c, tid) ==
  LET cell(b, h) == <<Set(<<c.out, (b - tid) * c.outs + h>>, "dense",
                          Cells(c.in, (b - tid) * c.channels, c.channels)
                            \o Cells(c.w, h * c.channels, c.channels))>>
      row(b) == For(UpTo(c.outs), LAMBDA h : cell(b, h))
  IN  For(From(tid, c.batch), row)

-----------------------------------------------------------------------------
(* Pooling by two in both directions: body(four, o) for the four cells of  *)
(* the larger tensor that belong to cell o of the smaller one.             *)
Pooling(c, tid, n, body(_, _)) ==
  LET in_chan_size == c.height * c.width
      out_chan_size == ((c.height \div 2) * c.width) \div 2
      in_off(b, k) == (b * c.channels + k) * in_chan_size
      out_off(b, k) == (b * c.channels + k) * out_chan_size
      four(b, k, j, i) ==
        LET at == in_off(b, k) + c.width * j + i
        IN  <<at, at + c.width, at + 1, at + c.width + 1>>
      o(b, k, j, i) == out_off(b, k) + (c.width * j) \div 4 + i \div 2
      channel(b, k) ==
        For(Even(c.height), LAMBDA j :
          For(Even(c.width), LAMBDA i : body(four(b, k, j, i), o(b, k, j, i))))
  IN  For(UpTo(c.batch),
          LAMBDA b : For(Strided(tid, n, c.channels), LAMBDA k : channel(b, k)))

Pooled(c, op, four, o) ==
  <<Set(<<c.out, o>>, op, [m \in 1 .. 4 |-> <<c.in, four[m]>>])>>

maxpool(c, tid, n) == Pooling(c, tid, n, LAMBDA four, o : Pooled(c, "max", four, o))
avgpool(c, tid, n) == Pooling(c, tid, n, LAMBDA four, o : Pooled(c, "avg", four, o))

(* w stands for both out and d_out.                                        *)
maxpoolgrad(c, tid, n) ==
  Pooling(c, tid, n, LAMBDA four, o :
    [m \in 1 .. 4 |-> Set(<<c.out, four[m]>>, "maxgrad",
                          <<<<c.in, four[m]>>, <<c.w, o>>>>)])

avgpoolgrad(c, tid, n) ==
  Pooling(c, tid, n, LAMBDA four, o :
    [m \in 1 .. 4 |-> Set(<<c.out, four[m]>>, "avggrad", <<<<c.in, o>>>>)])

-----------------------------------------------------------------------------
(* Convolution.  The nine weights of a filter count as one cell.           *)

Padded(c) == [c EXCEPT !.height = IF c.padding THEN @ - 2 ELSE @,
                       !.width = IF c.padding THEN @ - 2 ELSE @]

conv2d(c, tid, n) ==
  LET p == Padded(c)
      size == p.height * p.width
      around(i, j) == [m \in 1 .. 9 |-> <<i + (m - 1) \div 3 - 1, j + ((m - 1) % 3) - 1>>]
      inside(at) == at[1] \in 0 .. p.height - 1 /\ at[2] \in 0 .. p.width - 1
      window(b, k, i, j) ==
        For(around(i, j), LAMBDA at :
          IF ~ inside(at) THEN <<>>
          ELSE <<<<c.in, b * c.height * c.width * c.channels + k * size
                           + at[1] * p.width + at[2]>>>>)
      cell(b, h, k, i, j) ==
        <<Add(<<c.out, (b * c.outs + h) * size + i * p.width + j>>, "conv",
              window(b, k, i, j) \o <<<<c.w, h>>>>)>>
      matrix(b, h, k) == For(UpTo(p.height), LAMBDA i :
                           For(UpTo(p.width), LAMBDA j : cell(b, h, k, i, j)))
  IN  For(UpTo(c.batch), LAMBDA b :
        For(Strided(tid, n, c.outs), LAMBDA h :
          For(UpTo(c.channels), LAMBDA k : matrix(b, h, k))))

activation(c, size, tid, n) ==
  IF c.act = "none" THEN <<>>
  ELSE elementwise([c EXCEPT !.kernel = c.act, !.size = size, !.in = c.out], tid, n)

(* What decadesTF_conv2d_layer fuses, each part split in its own way and   *)
(* nothing in between.  The part of max_pool that thread 0 does is the     *)
(* whole of what is done.                                                  *)
conv2d_layer(c, tid, n) ==
  LET p == Padded(c)
      size == p.height * p.width
      pool == [p EXCEPT !.channels = c.outs, !.in = c.out]
  IN  conv2d(c, tid, n)
      \o (IF ~ c.bias THEN <<>>
          ELSE bias_add([c EXCEPT !.batch = size, !.channels = c.outs,
                                  !.in = c.out, !.w = "bias"], tid, n))
      \o activation(c, size * c.outs, tid, n)
      \o (CASE c.pool = "none" -> <<>>
            [] c.pool = "avg" -> avgpool(pool, tid, n)
            [] c.pool = "max" -> IF tid = 0 THEN maxpool(pool, tid, n) ELSE <<>>)

dense_layer(c, tid, n) ==
  dense(c, tid) \o activation(c, c.batch * c.outs, tid, n)

(* The gradients.  in_channel_size is that of the padded matrix; the       *)
(* filters are square.                                                     *)
GradientSizes(c) ==
  LET pad == IF c.padding THEN 2 ELSE 0
  IN  [width |-> c.width + pad, ins |-> (c.height + pad) * (c.width + pad),
       outs |-> c.height * c.width, filter |-> c.filter * c.filter]

conv2dbackpropinput(c) ==
  LET s == GradientSizes(c)
      delta(b, inc, outc, y, x, f) ==
        <<Add(<<c.out, (b * c.channels + inc) * s.ins
                         + (y + f \div c.filter) * s.width + x + (f % c.filter)>>, "dx",
              <<<<c.w, (inc * c.outs + outc) * s.filter + f>>,
                <<c.in, outc * s.outs + y * c.width + x>>>>)>>
      plane(b, inc, outc) ==
        For(UpTo(c.height), LAMBDA y : For(UpTo(c.width), LAMBDA x :
          For(UpTo(s.filter), LAMBDA f : delta(b, inc, outc, y, x, f))))
  IN  For(UpTo(c.batch), LAMBDA b : For(UpTo(c.channels), LAMBDA inc :
        For(UpTo(c.outs), LAMBDA outc : plane(b, inc, outc))))

conv2dbackpropfilter(c) ==
  LET s == GradientSizes(c)
      weight(b, inc, outc, f) ==
        <<Add(<<c.out, (inc * c.outs + outc) * s.filter + f>>, "dw",
              [m \in 1 .. s.outs |-> <<c.in, (b * c.channels + inc) * s.ins
                   + ((m - 1) \div c.width) * s.width + ((m - 1) % c.width)>>]
              \o Cells(c.w, outc * s.outs, s.outs))>>
  IN  For(UpTo(c.batch), LAMBDA b : For(UpTo(c.channels), LAMBDA inc :
        For(UpTo(c.outs), LAMBDA outc :
          For(UpTo(s.filter), LAMBDA f : weight(b, inc, outc, f)))))

-----------------------------------------------------------------------------
(* The loops of a kernel, for one thread of a team of n.                   *)
Body(c, tid, n) ==
  CASE c.kernel \in Elementwise -> elementwise(c, tid, n)
    [] c.kernel = "sdp" -> sdp(c, tid, n)
    [] c.kernel = "softmax" -> softmax(c, tid, n)
    [] c.kernel = "softmaxgrad" -> softmaxgrad(c)
    [] c.kernel = "matmul" -> matmul(c, tid)
    [] c.kernel = "maxpool" -> maxpool(c, tid, n)
    [] c.kernel = "maxpoolgrad" -> maxpoolgrad(c, tid, n)
    [] c.kernel = "avgpool" -> avgpool(c, tid, n)
    [] c.kernel = "avgpoolgrad" -> avgpoolgrad(c, tid, n)
    [] c.kernel = "bias_add" -> bias_add(c, tid, n)
    [] c.kernel = "biasaddgrad" -> biasaddgrad(c)
    [] c.kernel = "lrn" -> lrn(c, tid, n)
    [] c.kernel = "conv2d" -> conv2d(c, tid, n)
    [] c.kernel = "conv2d_layer" -> conv2d_layer(c, tid, n)
    [] c.kernel = "conv2dbackpropinput" -> conv2dbackpropinput(c)
    [] c.kernel = "conv2dbackpropfilter" -> conv2dbackpropfilter(c)
    [] c.kernel = "dense" -> dense(c, tid)
    [] c.kernel = "dense_layer" -> dense_layer(c, tid, n)

(* Some kernels begin with if (tid == 0), some with if (tid > 0).          *)
Takes_part(kernel, tid) ==
  CASE kernel \in {"softmaxgrad", "maxpool", "conv2dbackpropinput"} -> tid = 0
    [] kernel \in {"avgpoolgrad", "conv2dbackpropfilter"} -> tid > 0
    [] OTHER -> TRUE

(* MUTANT: the barrier of decadesTF_conv2dbackpropfilter is in the if.     *)
TasksBarrierInside(c, tid, n) ==
  IF ~ Takes_part(c.kernel, tid) THEN <<>>
  ELSE Body(c, tid, n)
       \o (IF c.kernel = "conv2dbackpropfilter" THEN <<Barrier(0)>> ELSE <<>>)

Tasks(c, tid, n) ==
  (IF Takes_part(c.kernel, tid) THEN Body(c, tid, n) ELSE <<>>)
  \o (IF c.kernel = "conv2dbackpropfilter" THEN <<Barrier(0)>> ELSE <<>>)
=============================================================================
