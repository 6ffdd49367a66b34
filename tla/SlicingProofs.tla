---------------------------- MODULE SlicingProofs ----------------------------
(***************************************************************************)
(* What Slicing makes of any kernel: which instructions have a step in     *)
(* which slice, how the steps follow each other, and that the two passes   *)
(* number alike and drop alike.                                            *)
(***************************************************************************)
EXTENDS Slicing, FiniteSetTheorems, SequenceTheorems, WellFoundedInduction, TLAPS

-----------------------------------------------------------------------------
(* Induction over naturals, for sets. *)

LEMMA LeastElement ==
  ASSUME NEW S \in SUBSET Nat, S # {}
  PROVE  \E m \in S : \A n \in S : m <= n
  <1>1. PICK m \in S : \A n \in S : ~ (<<n, m>> \in OpToRel(<, Nat))
    BY NatLessThanWellFounded, WFMin, Zenon
  <1>2. ASSUME NEW n \in S PROVE m <= n
    <2>1. n \in Nat /\ m \in Nat
      OBVIOUS
    <2>2. ~ (n < m)
      BY <1>1, <2>1, Zenon DEF OpToRel
    <2> QED  BY <2>1, <2>2
  <1> QED  BY <1>2

LEMMA SetInduction ==
  ASSUME NEW S \in SUBSET Nat, 0 \in S, \A n \in S : n + 1 \in S
  PROVE  \A n \in Nat : n \in S
  <1> SUFFICES ASSUME Nat \ S # {} PROVE FALSE
    OBVIOUS
  <1>1. PICK m \in Nat \ S : \A n \in Nat \ S : m <= n
    BY LeastElement
  <1>2. m # 0 /\ m - 1 \in Nat
    BY <1>1
  <1>3. m - 1 \in S
    BY <1>1, <1>2
  <1> QED  BY <1>1, <1>2, <1>3

-----------------------------------------------------------------------------
(* FlattenSeq puts the parts one behind the other. *)

(* g[i] is what the first i parts make. *)
Builds(g, parts, n) ==
  g[1] = parts[1] /\ \A i \in 2 .. n : g[i] = g[i - 1] \o parts[i]

LEMMA FlattenBuilt ==
  ASSUME NEW T, NEW parts \in Seq(Seq(T)), parts # <<>>
  PROVE  \E g \in [1 .. Len(parts) -> Seq(T)] :
           Builds(g, parts, Len(parts)) /\ FlattenSeq(parts) = g[Len(parts)]
  <1> DEFINE N == Len(parts)
             S == {n \in Nat : n + 1 <= N =>
                     \E g \in [1 .. n + 1 -> Seq(T)] : Builds(g, parts, n + 1)}
  <1>1. N \in Nat \ {0} /\ \A i \in 1 .. N : parts[i] \in Seq(T)
    OBVIOUS
  <1> HIDE DEF N
  <1>2. 0 \in S
    <2>1. [i \in 1 .. 1 |-> parts[1]] \in [1 .. 0 + 1 -> Seq(T)]
      BY <1>1
    <2>2. Builds([i \in 1 .. 1 |-> parts[1]], parts, 0 + 1)
      BY DEF Builds
    <2> QED  BY <2>1, <2>2
  <1>3. ASSUME NEW n \in S PROVE n + 1 \in S
    <2> SUFFICES ASSUME n + 2 <= N
                 PROVE  \E g \in [1 .. n + 2 -> Seq(T)] : Builds(g, parts, n + 2)
      OBVIOUS
    <2>1. n \in Nat /\ n + 1 <= N
      BY <1>1
    <2>2. PICK g \in [1 .. n + 1 -> Seq(T)] : Builds(g, parts, n + 1)
      BY <2>1
    <2> DEFINE last == g[n + 1] \o parts[n + 2]
               h == [i \in 1 .. n + 2 |-> IF i = n + 2 THEN last ELSE g[i]]
    <2>3. parts[n + 2] \in Seq(T) /\ g[n + 1] \in Seq(T)
      BY <1>1, <2>1
    <2>4. last \in Seq(T)
      BY <2>3
    <2>5. \A i \in 1 .. n + 2 : /\ i = n + 2 => h[i] = last
                                /\ i # n + 2 => h[i] = g[i] /\ i \in 1 .. n + 1
      <3> HIDE DEF last
      <3> QED  BY <2>1
    <2>6. h \in [1 .. n + 2 -> Seq(T)]
      <3> HIDE DEF last
      <3> QED  BY <2>4, <2>1
    <2> HIDE DEF h
    <2>7. Builds(h, parts, n + 2)
      <3>1. h[1] = parts[1]
        <4>1. 1 \in 1 .. n + 2 /\ 1 # n + 2
          BY <2>1
        <4>2. h[1] = g[1]
          BY <2>5, <4>1, Zenon
        <4>3. g[1] = parts[1]
          BY <2>2, Zenon DEF Builds
        <4> QED  BY <4>2, <4>3
      <3>2. ASSUME NEW i \in 2 .. n + 2 PROVE h[i] = h[i - 1] \o parts[i]
        <4>1. i - 1 \in 1 .. n + 2 /\ i - 1 # n + 2 /\ i \in 1 .. n + 2
          BY <2>1
        <4>2. h[i - 1] = g[i - 1]
          BY <2>5, <4>1
        <4>3. CASE i = n + 2
          <5>1. i - 1 = n + 1
            BY <2>1, <4>3
          <5>2. h[i] = last
            BY <2>5, <4>1, <4>3, Zenon
          <5> QED  BY <4>2, <4>3, <5>1, <5>2, Zenon
        <4>4. CASE i # n + 2
          <5>1. i \in 2 .. n + 1
            BY <2>1, <4>4
          <5>2. h[i] = g[i]
            BY <2>5, <4>1, <4>4, Zenon
          <5>3. g[i] = g[i - 1] \o parts[i]
            BY <2>2, <5>1, Zenon DEF Builds
          <5> QED  BY <4>2, <5>2, <5>3, Zenon
        <4> QED  BY <4>3, <4>4
      <3> QED  BY <3>1, <3>2 DEF Builds
    <2> QED  BY <2>6, <2>7
  <1>4. PICK g \in [1 .. N -> Seq(T)] : Builds(g, parts, N)
    <2>1. N - 1 \in S
      <3>1. N - 1 \in Nat
        BY <1>1
      <3> HIDE DEF S
      <3>2. S \in SUBSET Nat
        BY DEF S
      <3> QED  BY <1>2, <1>3, <3>1, <3>2, SetInduction
    <2>2. N - 1 + 1 = N
      BY <1>1
    <2> QED  BY <2>1, <2>2
  <1> DEFINE F(f) == [i \in 1 .. N |-> IF i = 1 THEN parts[i] ELSE f[i - 1] \o parts[i]]
             f == CHOOSE x : x = F(x)
  <1>5. /\ g[1] = parts[1]
        /\ \A i \in 2 .. N : g[i] = g[i - 1] \o parts[i]
    BY <1>4 DEF Builds
  <1>6. g = F(g)
    <2>1. ASSUME NEW i \in 1 .. N
          PROVE  g[i] = IF i = 1 THEN parts[i] ELSE g[i - 1] \o parts[i]
      <3>1. CASE i = 1
        BY <1>5, <3>1
      <3>2. CASE i # 1
        <4>1. i \in 2 .. N
          BY <1>1, <3>2
        <4> QED  BY <1>5, <3>2, <4>1
      <3> QED  BY <3>1, <3>2
    <2> QED  BY <2>1
  <1>7. f = F(f)
    BY <1>6
  <1>8. FlattenSeq(parts) = f[N]
    BY <1>1 DEF FlattenSeq, N
  <1>9. \A i \in 1 .. N : f[i] = IF i = 1 THEN parts[i] ELSE f[i - 1] \o parts[i]
    BY <1>7
  <1> HIDE DEF f
  <1>10. \A i \in 1 .. N : f[i] = g[i]
    <2> DEFINE Q == {n \in Nat : n + 1 \in 1 .. N => f[n + 1] = g[n + 1]}
    <2>1. 0 \in Q
      <3>1. f[1] = parts[1]
        BY <1>1, <1>9
      <3> QED  BY <1>5, <3>1
    <2>2. ASSUME NEW n \in Q PROVE n + 1 \in Q
      <3> SUFFICES ASSUME NEW j \in 1 .. N, j = n + 2 PROVE f[j] = g[j]
        OBVIOUS
      <3>1. j # 1 /\ j \in 2 .. N /\ j - 1 = n + 1 /\ j - 1 \in 1 .. N
        BY <1>1
      <3>2. f[j - 1] = g[j - 1]
        BY <3>1
      <3>3. f[j] = f[j - 1] \o parts[j]
        BY <1>9, <3>1, Zenon
      <3>4. g[j] = g[j - 1] \o parts[j]
        BY <1>5, <3>1, Zenon
      <3> QED  BY <3>2, <3>3, <3>4, Zenon
    <2>3. Q \in SUBSET Nat
      OBVIOUS
    <2>4. \A n \in Nat : n \in Q
      <3> HIDE DEF Q
      <3> QED  BY <2>1, <2>2, <2>3, SetInduction
    <2>5. ASSUME NEW i \in 1 .. N PROVE f[i] = g[i]
      <3>1. i - 1 \in Nat /\ i - 1 + 1 = i
        BY <1>1
      <3>2. i - 1 \in Q
        BY <2>4, <3>1
      <3> QED  BY <3>1, <3>2
    <2> QED  BY <2>5
  <1>11. FlattenSeq(parts) = g[N]
    BY <1>1, <1>8, <1>10
  <1> QED  BY <1>4, <1>11 DEF N

(* Where each part begins. *)
Offsets(off, parts) ==
  /\ off \in [1 .. Len(parts) + 1 -> Nat]
  /\ off[1] = 0
  /\ \A i \in 1 .. Len(parts) : off[i + 1] = off[i] + Len(parts[i])

LEMMA OffsetsGrow ==
  ASSUME NEW T, NEW parts \in Seq(Seq(T)), NEW off, Offsets(off, parts)
  PROVE  \A i, j \in 1 .. Len(parts) + 1 : i <= j => off[i] <= off[j]
  <1> DEFINE N == Len(parts)
             Q == {n \in Nat : \A i \in 1 .. N + 1 :
                                 i + n <= N + 1 => off[i] <= off[i + n]}
  <1>1. N \in Nat /\ \A i \in 1 .. N : Len(parts[i]) \in Nat
    OBVIOUS
  <1>2. /\ off \in [1 .. N + 1 -> Nat]
        /\ \A i \in 1 .. N : off[i + 1] = off[i] + Len(parts[i])
    BY DEF Offsets
  <1> HIDE DEF N
  <1>3. 0 \in Q
    BY <1>1, <1>2
  <1>4. ASSUME NEW n \in Q PROVE n + 1 \in Q
    <2> SUFFICES ASSUME NEW i \in 1 .. N + 1, i + (n + 1) <= N + 1
                 PROVE  off[i] <= off[i + (n + 1)]
      OBVIOUS
    <2>1. i + n \in 1 .. N /\ i + (n + 1) = (i + n) + 1
      BY <1>1
    <2>2. off[i] <= off[i + n]
      BY <1>1
    <2>3. off[(i + n) + 1] = off[i + n] + Len(parts[i + n])
      BY <1>2, <2>1
    <2>4. off[i] \in Nat /\ off[i + n] \in Nat /\ Len(parts[i + n]) \in Nat
      BY <1>1, <1>2, <2>1, SMTT(30)
    <2> HIDE DEF Q
    <2>5. off[i] <= off[i + n] + Len(parts[i + n])
      BY <2>2, <2>4
    <2> QED  BY <2>1, <2>3, <2>5
  <1>5. \A n \in Nat : n \in Q
    <2>1. Q \in SUBSET Nat
      OBVIOUS
    <2> HIDE DEF Q
    <2> QED  BY <1>3, <1>4, <2>1, SetInduction
  <1> SUFFICES ASSUME NEW i \in 1 .. N + 1, NEW j \in 1 .. N + 1, i <= j
               PROVE  off[i] <= off[j]
    BY DEF N
  <1>6. j - i \in Nat /\ i + (j - i) = j
    BY <1>1
  <1>7. j - i \in Q
    BY <1>5, <1>6
  <1> QED  BY <1>6, <1>7

(* The n-th element of part i, in the whole. *)
LEMMA FlattenAt ==
  ASSUME NEW T, NEW parts \in Seq(Seq(T))
  PROVE  /\ FlattenSeq(parts) \in Seq(T)
         /\ \E off : /\ Offsets(off, parts)
                     /\ Len(FlattenSeq(parts)) = off[Len(parts) + 1]
                     /\ \A i \in 1 .. Len(parts) : \A n \in 1 .. Len(parts[i]) :
                          FlattenSeq(parts)[off[i] + n] = parts[i][n]
  <1>1. CASE parts = <<>>
    <2> DEFINE off == [i \in 1 .. 1 |-> 0]
    <2>1. FlattenSeq(parts) = <<>>
      BY <1>1, Zenon DEF FlattenSeq
    <2>2. Len(parts) = 0 /\ <<>> \in Seq(T)
      BY <1>1
    <2>3. Offsets(off, parts)
      BY <2>2 DEF Offsets
    <2>4. Len(FlattenSeq(parts)) = off[Len(parts) + 1]
      BY <2>1, <2>2
    <2> QED  BY <2>1, <2>2, <2>3, <2>4
  <1>2. CASE parts # <<>>
    <2> DEFINE N == Len(parts)
    <2>1. N \in Nat \ {0} /\ \A i \in 1 .. N : parts[i] \in Seq(T) /\ Len(parts[i]) \in Nat
      BY <1>2
    <2>2. PICK g \in [1 .. N -> Seq(T)] : Builds(g, parts, N) /\ FlattenSeq(parts) = g[N]
      BY <1>2, FlattenBuilt
    <2> HIDE DEF N
    <2>3. \A i \in 1 .. N : g[i] \in Seq(T) /\ Len(g[i]) \in Nat
      OBVIOUS
    <2>4. g[1] = parts[1]
      BY <2>2, Zenon DEF Builds
    <2>5. ASSUME NEW i \in 2 .. N
          PROVE  /\ i - 1 \in 1 .. N /\ i \in 1 .. N
                 /\ Len(g[i]) = Len(g[i - 1]) + Len(parts[i])
                 /\ \A n \in 1 .. Len(g[i - 1]) : g[i][n] = g[i - 1][n]
                 /\ \A n \in 1 .. Len(parts[i]) : g[i][Len(g[i - 1]) + n] = parts[i][n]
      <3>1. i - 1 \in 1 .. N /\ i \in 1 .. N
        BY <2>1
      <3>2. g[i] = g[i - 1] \o parts[i]
        BY <2>2, Zenon DEF Builds
      <3>3. g[i - 1] \in Seq(T) /\ parts[i] \in Seq(T)
        BY <2>1, <2>3, <3>1
      <3> DEFINE s == g[i - 1]
                 u == parts[i]
      <3>4. s \in Seq(T) /\ u \in Seq(T) /\ g[i] = s \o u
        BY <3>2, <3>3
      <3> HIDE DEF s, u
      <3>5. /\ Len(s \o u) = Len(s) + Len(u)
            /\ \A n \in 1 .. Len(s) : (s \o u)[n] = s[n]
            /\ \A n \in 1 .. Len(u) : (s \o u)[Len(s) + n] = u[n]
        BY <3>4
      <3>6. /\ Len(g[i]) = Len(s) + Len(u)
            /\ \A n \in 1 .. Len(s) : g[i][n] = s[n]
            /\ \A n \in 1 .. Len(u) : g[i][Len(s) + n] = u[n]
        BY <3>4, <3>5, Zenon
      <3> QED  BY <3>1, <3>6 DEF s, u
    <2> DEFINE off == [i \in 1 .. N + 1 |-> IF i = 1 THEN 0 ELSE Len(g[i - 1])]
    <2>6. off \in [1 .. N + 1 -> Nat]
      BY <2>1, <2>3
    <2>7. off[1] = 0 /\ \A i \in 1 .. N : off[i + 1] = Len(g[i])
      BY <2>1
    <2> HIDE DEF off
    <2>8. \A i \in 2 .. N : off[i] = Len(g[i - 1])
      BY <2>1 DEF off
    <2>9. Offsets(off, parts)
      <3>1. ASSUME NEW i \in 1 .. N PROVE off[i + 1] = off[i] + Len(parts[i])
        <4>1. CASE i = 1
          BY <2>1, <2>4, <2>7, <4>1, SMTT(30)
        <4>2. CASE i # 1
          <5>1. i \in 2 .. N
            BY <2>1, <4>2
          <5> QED  BY <2>5, <2>7, <2>8, <5>1
        <4> QED  BY <4>1, <4>2
      <3> QED  BY <2>6, <2>7, <3>1 DEF Offsets, N
    <2> DEFINE Q == {m \in Nat :
                       \A i \in 1 .. N : i + m <= N =>
                         \A n \in 1 .. Len(parts[i]) :
                           /\ off[i] + n \in 1 .. Len(g[i + m])
                           /\ g[i + m][off[i] + n] = parts[i][n]}
    <2>10. 0 \in Q
      <3> SUFFICES ASSUME NEW i \in 1 .. N, NEW n \in 1 .. Len(parts[i])
                   PROVE  /\ off[i] + n \in 1 .. Len(g[i])
                          /\ g[i][off[i] + n] = parts[i][n]
        <4>1. \A i \in 1 .. N : i + 0 = i
          BY <2>1
        <4> QED  BY <4>1
      <3>1. CASE i = 1
        <4>1. off[i] = 0 /\ off[i] + n = n /\ Len(g[1]) = Len(parts[1])
          BY <2>1, <2>4, <2>7, <3>1
        <4> QED  BY <2>1, <2>4, <3>1, <4>1
      <3>2. CASE i # 1
        <4>1. i \in 2 .. N
          BY <2>1, <3>2
        <4>2. off[i] = Len(g[i - 1]) /\ Len(g[i - 1]) \in Nat
          BY <2>3, <2>5, <2>8, <4>1
        <4>3. off[i] + n \in 1 .. Len(g[i])
          <5>1. Len(g[i]) = Len(g[i - 1]) + Len(parts[i])
            BY <2>5, <4>1, Zenon
          <5>2. Len(parts[i]) \in Nat
            BY <2>1
          <5> DEFINE x == Len(g[i - 1])
                     y == Len(parts[i])
                     z == Len(g[i])
          <5>3. z = x + y /\ x \in Nat /\ y \in Nat /\ off[i] = x /\ n \in 1 .. y
            BY <4>2, <5>1, <5>2
          <5> HIDE DEF x, y, z
          <5>4. off[i] + n \in 1 .. z
            BY <5>3
          <5> QED  BY <5>4 DEF z
        <4>4. g[i][off[i] + n] = parts[i][n]
          BY <2>5, <4>1, <4>2, Zenon
        <4> QED  BY <4>3, <4>4
      <3> QED  BY <3>1, <3>2
    <2>11. ASSUME NEW m \in Q PROVE m + 1 \in Q
      <3> SUFFICES ASSUME NEW i \in 1 .. N, i + (m + 1) <= N, NEW n \in 1 .. Len(parts[i])
                   PROVE  /\ off[i] + n \in 1 .. Len(g[i + (m + 1)])
                          /\ g[i + (m + 1)][off[i] + n] = parts[i][n]
        OBVIOUS
      <3> DEFINE j == i + (m + 1)
                 p == off[i] + n
      <3>1. j \in 2 .. N /\ j - 1 = i + m /\ i + m <= N
        BY <2>1
      <3>2. p \in 1 .. Len(g[j - 1]) /\ g[j - 1][p] = parts[i][n]
        BY <3>1
      <3> HIDE DEF j, p
      <3>3. Len(g[j]) = Len(g[j - 1]) + Len(parts[j])
        BY <2>5, <3>1, Zenon
      <3>6. j \in 1 .. N /\ j - 1 \in 1 .. N
        BY <2>1, <3>1
      <3>7. Len(g[j - 1]) \in Nat /\ Len(parts[j]) \in Nat
        BY <2>1, <2>3, <3>6
      <3>4. p \in 1 .. Len(g[j])
        <4> DEFINE x == Len(g[j - 1])
                   y == Len(parts[j])
                   z == Len(g[j])
        <4>1. z = x + y /\ x \in Nat /\ y \in Nat /\ p \in 1 .. x
          BY <3>2, <3>3, <3>7
        <4> HIDE DEF x, y, z
        <4>2. p \in 1 .. z
          BY <4>1
        <4> QED  BY <4>2 DEF z
      <3>5. g[j][p] = parts[i][n]
        BY <2>5, <3>1, <3>2, Zenon
      <3> QED  BY <3>4, <3>5 DEF j, p
    <2>12. \A m \in Nat : m \in Q
      <3>1. Q \in SUBSET Nat
        OBVIOUS
      <3> HIDE DEF Q
      <3> QED  BY <2>10, <2>11, <3>1, SetInduction
    <2>13. \A i \in 1 .. N : \A n \in 1 .. Len(parts[i]) : g[N][off[i] + n] = parts[i][n]
      <3> SUFFICES ASSUME NEW i \in 1 .. N, NEW n \in 1 .. Len(parts[i])
                   PROVE  g[N][off[i] + n] = parts[i][n]
        OBVIOUS
      <3>1. N - i \in Nat /\ i + (N - i) = N
        BY <2>1
      <3>2. N - i \in Q
        BY <2>12, <3>1
      <3> QED  BY <2>1, <3>1, <3>2
    <2>14. FlattenSeq(parts) \in Seq(T) /\ Len(FlattenSeq(parts)) = off[N + 1]
      BY <2>1, <2>2, <2>3, <2>7
    <2>15. \A i \in 1 .. Len(parts) : \A n \in 1 .. Len(parts[i]) :
             FlattenSeq(parts)[off[i] + n] = parts[i][n]
      BY <2>2, <2>13, Zenon DEF N
    <2> QED  BY <2>9, <2>14, <2>15, Zenon DEF N
  <1> QED  BY <1>1, <1>2

-----------------------------------------------------------------------------
(* A slice: the steps what[1], .., what[N] of its instructions.  The n-th  *)
(* step of instruction i stands at off[i] + n.                             *)

Dos == {"read", "update", "write", "compare", "call", "open", "send", "receive", "close"}

LayOut(S, off, N, what) ==
  /\ S \in Seq([do : Dos, of : 1 .. N])
  /\ off \in [1 .. N + 1 -> Nat]
  /\ \A i \in 1 .. N : \A n \in 1 .. Len(what[i]) :
       off[i] + n \in 1 .. Len(S) /\ S[off[i] + n] = [do |-> what[i][n], of |-> i]
  /\ \A a \in 1 .. Len(S) :
       /\ a - off[S[a].of] \in 1 .. Len(what[S[a].of])
       /\ S[a].do = what[S[a].of][a - off[S[a].of]]
  /\ \A i, j \in 1 .. N : i < j => off[i] + Len(what[i]) <= off[j]

LEMMA FunctionIsSeq ==
  ASSUME NEW N \in Nat, NEW T, NEW f \in [1 .. N -> T]
  PROVE  f \in Seq(T) /\ Len(f) = N
  BY SeqDef

LEMMA SliceLayout ==
  ASSUME NEW N \in Nat, NEW what \in [1 .. N -> Seq(Dos)]
  PROVE  \E off : LayOut(FlattenSeq([i \in 1 .. N |-> Does(i, what[i])]), off, N, what)
  <1> DEFINE T == [do : Dos, of : 1 .. N]
             parts == [i \in 1 .. N |-> Does(i, what[i])]
             S == FlattenSeq(parts)
  <1>1. \A i \in 1 .. N : what[i] \in Seq(Dos) /\ Len(what[i]) \in Nat
    OBVIOUS
  <1>2. ASSUME NEW i \in 1 .. N
        PROVE  /\ parts[i] \in Seq(T) /\ Len(parts[i]) = Len(what[i])
               /\ \A n \in 1 .. Len(what[i]) : parts[i][n] = [do |-> what[i][n], of |-> i]
    <2> DEFINE w == what[i]
    <2>1. w \in Seq(Dos) /\ Len(w) \in Nat /\ \A n \in 1 .. Len(w) : w[n] \in Dos
      BY <1>1
    <2>2. parts[i] = [n \in 1 .. Len(w) |-> [do |-> w[n], of |-> i]]
      BY DEF Does
    <2> HIDE DEF w, T, parts
    <2>3. \A n \in 1 .. Len(w) : [do |-> w[n], of |-> i] \in T
      BY <2>1 DEF T
    <2>4. parts[i] \in [1 .. Len(w) -> T]
      BY <2>2, <2>3
    <2>5. parts[i] \in Seq(T) /\ Len(parts[i]) = Len(w)
      BY <2>1, <2>4, FunctionIsSeq
    <2>6. \A n \in 1 .. Len(w) : parts[i][n] = [do |-> w[n], of |-> i]
      BY <2>2
    <2> QED  BY <2>5, <2>6 DEF w
  <1>3. parts \in Seq(Seq(T)) /\ Len(parts) = N
    <2>1. parts \in [1 .. N -> Seq(T)]
      <3>1. parts = [i \in 1 .. N |-> parts[i]]
        OBVIOUS
      <3> HIDE DEF parts
      <3> QED  BY <1>2, <3>1
    <2> HIDE DEF parts
    <2> QED  BY <2>1, FunctionIsSeq
  <1> HIDE DEF parts, T
  <1>0. PICK off : /\ Offsets(off, parts)
                   /\ Len(FlattenSeq(parts)) = off[Len(parts) + 1]
                   /\ \A i \in 1 .. Len(parts) : \A n \in 1 .. Len(parts[i]) :
                        FlattenSeq(parts)[off[i] + n] = parts[i][n]
    BY <1>3, FlattenAt
  <1>4. /\ Offsets(off, parts)
        /\ Len(S) = off[N + 1]
        /\ \A i \in 1 .. N : \A n \in 1 .. Len(parts[i]) : S[off[i] + n] = parts[i][n]
    BY <1>0, <1>3
  <1>5. S \in Seq(T) /\ Len(S) \in Nat
    BY <1>3, FlattenAt
  <1> HIDE DEF S
  <1>6. off \in [1 .. N + 1 -> Nat] /\ off[1] = 0
    BY <1>3, <1>4, Zenon DEF Offsets
  <1>7. \A i \in 1 .. N : off[i + 1] = off[i] + Len(what[i])
    BY <1>2, <1>3, <1>4, Zenon DEF Offsets
  <1>8. \A i, j \in 1 .. N + 1 : i <= j => off[i] <= off[j]
    BY <1>3, <1>4, OffsetsGrow, Zenon
  <1>9. ASSUME NEW i \in 1 .. N, NEW n \in 1 .. Len(what[i])
        PROVE  off[i] + n \in 1 .. Len(S) /\ S[off[i] + n] = [do |-> what[i][n], of |-> i]
    <2>1. i + 1 \in 1 .. N + 1 /\ N + 1 \in 1 .. N + 1 /\ i \in 1 .. N + 1 /\ i + 1 <= N + 1
      OBVIOUS
    <2>2. off[i + 1] <= off[N + 1] /\ off[i] \in Nat /\ off[i + 1] \in Nat
      BY <1>6, <1>8, <2>1
    <2>3. off[i] + n <= off[i + 1] /\ off[i] + n >= 1
      BY <1>1, <1>7, <2>2
    <2>4. off[i] + n \in 1 .. Len(S)
      BY <1>1, <1>4, <1>5, <2>2, <2>3, SMTT(30)
    <2>5. n \in 1 .. Len(parts[i]) /\ parts[i][n] = [do |-> what[i][n], of |-> i]
      BY <1>2
    <2>6. S[off[i] + n] = parts[i][n]
      BY <1>4, <2>5, Zenon
    <2> QED  BY <2>4, <2>5, <2>6
  <1>10. ASSUME NEW a \in 1 .. Len(S)
         PROVE  /\ a - off[S[a].of] \in 1 .. Len(what[S[a].of])
                /\ S[a].do = what[S[a].of][a - off[S[a].of]]
    <2> DEFINE Later == {i \in 1 .. N + 1 : a <= off[i]}
    <2>1. N + 1 \in Later
      BY <1>4, <1>5
    <2>2. PICK m \in Later : \A l \in Later : m <= l
      <3>1. Later \in SUBSET Nat /\ Later # {}
        BY <2>1
      <3> HIDE DEF Later
      <3> QED  BY <3>1, LeastElement
    <2> DEFINE i == m - 1
               n == a - off[i]
    <2>3. m # 1
      BY <1>6
    <2>4. i \in 1 .. N /\ i + 1 = m /\ i \in 1 .. N + 1 /\ i \notin Later
      BY <2>2, <2>3
    <2>5. off[i] < a /\ a <= off[i] + Len(what[i]) /\ off[i] \in Nat
      <3>1. off[i] \in Nat /\ off[m] = off[i] + Len(what[i]) /\ a <= off[m]
        BY <1>6, <1>7, <2>4
      <3>2. ~ (a <= off[i])
        BY <2>4
      <3> QED  BY <3>1, <3>2
    <2> HIDE DEF i, Later
    <2>6. n \in 1 .. Len(what[i]) /\ off[i] + n = a
      BY <1>1, <2>4, <2>5
    <2> HIDE DEF n
    <2>7. S[a] = [do |-> what[i][n], of |-> i]
      BY <1>9, <2>4, <2>6, Zenon
    <2>8. S[a].of = i /\ S[a].do = what[i][n]
      BY <2>7
    <2> QED  BY <2>6, <2>8, Zenon DEF n
  <1>11. ASSUME NEW i \in 1 .. N, NEW j \in 1 .. N, i < j
         PROVE  off[i] + Len(what[i]) <= off[j]
    <2>1. i + 1 \in 1 .. N + 1 /\ j \in 1 .. N + 1 /\ i + 1 <= j
      BY <1>11
    <2>2. off[i + 1] <= off[j]
      BY <1>8, <2>1
    <2> QED  BY <1>7, <2>2
  <1>12. LayOut(S, off, N, what)
    BY <1>5, <1>6, <1>9, <1>10, <1>11, Zenon DEF LayOut, T
  <1> QED  BY <1>12 DEF S, parts

-----------------------------------------------------------------------------
(* What is left of the supply slice are instrumented instructions, among   *)
(* them those that send, the atomics, and all whose result is read by      *)
(* something that is left.                                                 *)

LEMMA SupplyKeeps ==
  ASSUME NEW k, Len(k) \in Nat
  PROVE  \A i \in 1 .. Len(k) :
           /\ supply_keeps(k)[i] => supply_instruments(k[i])
           /\ produces(k, i) => supply_keeps(k)[i]
           /\ k[i].op = "rmw" => supply_keeps(k)[i]
           /\ \A j \in i + 1 .. Len(k) :
                supply_keeps(k)[j] /\ Reads(k[j], i) /\ supply_instruments(k[i])
                  => supply_keeps(k)[i]
  <1> DEFINE N == Len(k)
             Kept(g, i) == /\ supply_instruments(k[i])
                           /\ \/ produces(k, i)
                              \/ k[i].op = "rmw"
                              \/ \E j \in i + 1 .. N : g[j] /\ Reads(k[j], i)
             From(g, n) == \A i \in 1 .. N : i > N - n => g[i] = Kept(g, i)
             S == {n \in Nat : n <= N => \E g \in [1 .. N -> BOOLEAN] : From(g, n)}
  <1>1. 0 \in S
    <2>1. [i \in 1 .. N |-> FALSE] \in [1 .. N -> BOOLEAN]
      OBVIOUS
    <2>2. From([i \in 1 .. N |-> FALSE], 0)
      OBVIOUS
    <2> HIDE DEF From
    <2> QED  BY <2>1, <2>2
  <1>2. ASSUME NEW n \in S PROVE n + 1 \in S
    <2> HIDE DEF From
    <2> SUFFICES ASSUME n + 1 <= N
                 PROVE  \E h \in [1 .. N -> BOOLEAN] : From(h, n + 1)
      OBVIOUS
    <2>1. PICK g \in [1 .. N -> BOOLEAN] : From(g, n)
      <3>1. n \in Nat /\ n <= N
        OBVIOUS
      <3> QED  BY <3>1
    <2> USE DEF From
    <2> DEFINE m == N - n
               h == [i \in 1 .. N |-> IF i = m THEN Kept(g, m) ELSE g[i]]
    <2>2. n \in Nat /\ m \in 1 .. N
      OBVIOUS
    <2>3. h \in [1 .. N -> BOOLEAN]
      <3>1. Kept(g, m) \in BOOLEAN
        OBVIOUS
      <3> HIDE DEF Kept
      <3> QED  BY <3>1
    <2>4. \A i \in 1 .. N : i # m => h[i] = g[i]
      OBVIOUS
    <2>5. h[m] = Kept(g, m)
      BY <2>2, Zenon
    <2> HIDE DEF h
    <2>6. ASSUME NEW i \in 1 .. N, i >= m PROVE Kept(h, i) = Kept(g, i)
      <3>1. \A j \in i + 1 .. N : h[j] = g[j]
        BY <2>2, <2>4, <2>6
      <3> QED  BY <3>1
    <2>7. ASSUME NEW i \in 1 .. N, i > N - (n + 1) PROVE h[i] = Kept(h, i)
      <3>1. i >= m
        BY <2>2, <2>7
      <3>2. Kept(h, i) = Kept(g, i)
        BY <2>6, <3>1
      <3>3. CASE i = m
        BY <2>5, <3>2, <3>3
      <3>4. CASE i # m
        <4>1. i > m
          BY <2>2, <3>1, <3>4
        <4>2. g[i] = Kept(g, i)
          BY <2>1, <4>1
        <4> HIDE DEF Kept
        <4> QED  BY <2>4, <3>2, <3>4, <4>2
      <3> QED  BY <3>3, <3>4
    <2>8. From(h, n + 1)
      BY <2>7
    <2> HIDE DEF From
    <2> QED  BY <2>3, <2>8
  <1>3. PICK g \in [1 .. N -> BOOLEAN] : \A i \in 1 .. N : g[i] = Kept(g, i)
    <2>1. N \in S
      <3>1. S \in SUBSET Nat
        OBVIOUS
      <3> HIDE DEF S
      <3> QED  BY <1>1, <1>2, <3>1, SetInduction
    <2>2. PICK g \in [1 .. N -> BOOLEAN] : From(g, N)
      <3> HIDE DEF From
      <3> QED  BY <2>1
    <2>3. \A i \in 1 .. N : i > N - N
      OBVIOUS
    <2> HIDE DEF Kept
    <2> QED  BY <2>2, <2>3
  <1> DEFINE F(f) == [i \in 1 .. N |-> Kept(f, i)]
             f == CHOOSE x : x = F(x)
  <1>4. g = F(g)
    <2> HIDE DEF Kept
    <2> QED  BY <1>3
  <1>5. f = F(f)
    <2> HIDE DEF F
    <2> QED  BY <1>4
  <1>6. supply_keeps(k) = f
    BY DEF supply_keeps
  <1>7. \A i \in 1 .. N : f[i] = Kept(f, i)
    BY <1>5
  <1> HIDE DEF f
  <1>8. ASSUME NEW i \in 1 .. N
        PROVE  /\ f[i] => supply_instruments(k[i])
               /\ produces(k, i) => f[i]
               /\ k[i].op = "rmw" => f[i]
               /\ \A j \in i + 1 .. N :
                    f[j] /\ Reads(k[j], i) /\ supply_instruments(k[i]) => f[i]
    <2>1. f[i] = Kept(f, i)
      BY <1>7
    <2>2. produces(k, i) => supply_instruments(k[i])
      BY DEF produces
    <2>3. k[i].op = "rmw" => supply_instruments(k[i])
      BY DEF supply_instruments
    <2> QED  BY <2>1, <2>2, <2>3, Zenon
  <1> QED  BY <1>6, <1>8

-----------------------------------------------------------------------------
(* The steps of an instruction and the stages of its desc_* call. *)

Shapes ==
  {<<>>, <<"read">>, <<"update">>, <<"write">>,
   <<"read">> \o SendSteps, <<"update">> \o SendSteps, <<"compare">> \o SendSteps,
   <<"call", "open", "update", "send", "close">>,
   <<"call", "open", "receive", "close">>}

(* The stage a step finds the call of its thread in, where inner says that *)
(* another step of the same instruction comes before it, and the stage it  *)
(* leaves it in.                                                           *)
Stage(do, inner) ==
  IF do = "open" THEN "open"
  ELSE IF do \in {"send", "receive"} \/ (do = "update" /\ inner) THEN "transfer"
  ELSE IF do = "close" THEN "close"
  ELSE "none"

After(do, inner) ==
  IF do = "call" THEN "open"
  ELSE IF do = "open" THEN "transfer"
  ELSE IF do \in {"send", "receive"} THEN "close"
  ELSE IF do = "update" /\ inner THEN "transfer"
  ELSE "none"

Shaped(w) ==
  /\ w \in Seq(Dos) /\ Len(w) \in Nat
  /\ \A n \in 1 .. Len(w) :
       /\ After(w[n], n > 1) = IF n < Len(w) THEN Stage(w[n + 1], TRUE) ELSE "none"
       /\ n = 1 => Stage(w[n], FALSE) = "none"
       /\ w[n] \in {"send", "receive"} => \A m \in 1 .. Len(w) : n < m => w[m] = "close"
       /\ \A m \in 1 .. Len(w) : n < m => w[m] # w[n]

(* The steps of a call that sends, after what comes before it. *)
LEMMA Sending ==
  ASSUME NEW d \in Dos
  PROVE  LET w == <<d>> \o SendSteps
         IN  /\ Len(w) = 5 /\ w \in Seq(Dos) /\ w[1] = d /\ w[2] = "call"
             /\ w[3] = "open" /\ w[4] = "send" /\ w[5] = "close"
  <1>1. SendSteps \in Seq(Dos)
    BY DEF SendSteps, Dos
  <1>2. <<d>> \in Seq(Dos)
    OBVIOUS
  <1>3. <<d>> \o SendSteps \in Seq(Dos)
    BY <1>1, <1>2
  <1> QED  BY <1>3 DEF SendSteps

LEMMA ShapesShaped == \A w \in Shapes : Shaped(w)
  <1> SUFFICES ASSUME NEW w \in Shapes PROVE Shaped(w)
    OBVIOUS
  <1>1. CASE w = <<>>
    BY <1>1 DEF Shaped
  <1>2. CASE w \in {<<"read">>, <<"update">>, <<"write">>}
    <2>1. Len(w) = 1 /\ w[1] \in {"read", "update", "write"} /\ w \in Seq(Dos)
      <3>1. PICK d \in {"read", "update", "write"} : w = <<d>>
        BY <1>2
      <3>2. d \in Dos
        BY <3>1 DEF Dos
      <3> QED  BY <3>1, <3>2
    <2>2. \A n \in 1 .. Len(w) : n = 1
      BY <2>1
    <2> QED  BY <2>1, <2>2 DEF Shaped, Stage, After
  <1>3. CASE \E d \in {"read", "update", "compare"} : w = <<d>> \o SendSteps
    <2>1. PICK d \in {"read", "update", "compare"} : w = <<d>> \o SendSteps
      BY <1>3
    <2>2. /\ Len(w) = 5 /\ w \in Seq(Dos) /\ w[1] = d /\ w[2] = "call"
          /\ w[3] = "open" /\ w[4] = "send" /\ w[5] = "close"
      BY <2>1, Sending DEF Dos
    <2> HIDE <2>1
    <2>3. \A n \in 1 .. Len(w) : n \in {1, 2, 3, 4, 5}
      BY <2>2
    <2> QED  BY <2>2, <2>3 DEF Shaped, Stage, After
  <1>4. CASE w = <<"call", "open", "update", "send", "close">>
    <2>2. /\ Len(w) = 5 /\ w \in Seq(Dos) /\ w[1] = "call" /\ w[2] = "open"
          /\ w[3] = "update" /\ w[4] = "send" /\ w[5] = "close"
      BY <1>4 DEF Dos
    <2>3. \A n \in 1 .. Len(w) : n \in {1, 2, 3, 4, 5}
      BY <2>2
    <2> QED  BY <2>2, <2>3 DEF Shaped, Stage, After
  <1>5. CASE w = <<"call", "open", "receive", "close">>
    <2>2. /\ Len(w) = 4 /\ w \in Seq(Dos) /\ w[1] = "call" /\ w[2] = "open"
          /\ w[3] = "receive" /\ w[4] = "close"
      BY <1>5 DEF Dos
    <2>3. \A n \in 1 .. Len(w) : n \in {1, 2, 3, 4}
      BY <2>2
    <2> QED  BY <2>2, <2>3 DEF Shaped, Stage, After
  <1> QED  BY <1>1, <1>2, <1>3, <1>4, <1>5 DEF Shapes

(* The step in which the supply slice computes the result of an            *)
(* instruction.                                                            *)
Access(op) == IF op = "load" THEN "read" ELSE IF op = "rmw" THEN "update" ELSE "compare"

(* The forms the steps of the supply slice have. *)
LEMMA SupplyForms ==
  ASSUME NEW k, Len(k) \in Nat, NEW i \in 1 .. Len(k), k[i].op \in Ops
  PROVE  LET w == supply_steps(k, i)
         IN  /\ w \in Shapes
             /\ supply_keeps(k)[i] => k[i].op \in {"load", "rmw", "cmp"}
             /\ \/ Len(w) = 0 /\ ~ produces(k, i) /\ ~ supply_keeps(k)[i]
                \/ /\ Len(w) = 1 /\ ~ produces(k, i) /\ supply_keeps(k)[i]
                   /\ w[1] = Access(k[i].op) /\ k[i].op \in {"load", "rmw"}
                \/ /\ Len(w) = 5 /\ produces(k, i) /\ supply_keeps(k)[i]
                   /\ w[1] = Access(k[i].op)
                   /\ w[2] = "call" /\ w[3] = "open" /\ w[4] = "send" /\ w[5] = "close"
                \/ /\ Len(w) = 5 /\ produces(k, i) /\ supply_keeps(k)[i] /\ k[i].op = "rmw"
                   /\ w[1] = "call" /\ w[2] = "open" /\ w[3] = "update"
                   /\ w[4] = "send" /\ w[5] = "close"
  <1> DEFINE w == supply_steps(k, i)
  <1>1. supply_keeps(k)[i] => k[i].op \in {"load", "rmw", "cmp"}
    BY SupplyKeeps DEF supply_instruments
  <1>2. produces(k, i) => supply_keeps(k)[i]
    BY SupplyKeeps
  <1>3. k[i].op = "cmp" /\ supply_keeps(k)[i] => produces(k, i)
    BY DEF produces, supply_instruments
  <1>4. can_be_promoted(k, i) => produces(k, i)
    BY DEF can_be_promoted
  <1>5. \/ w = <<>> /\ ~ supply_keeps(k)[i]
        \/ w = <<"read">> /\ k[i].op = "load" /\ ~ produces(k, i) /\ supply_keeps(k)[i]
        \/ w = <<"read">> \o SendSteps /\ k[i].op = "load" /\ produces(k, i)
        \/ w = <<"call", "open", "update", "send", "close">> /\ k[i].op = "rmw" /\ produces(k, i)
        \/ w = <<"update">> \o SendSteps /\ k[i].op = "rmw" /\ produces(k, i)
        \/ w = <<"update">> /\ k[i].op = "rmw" /\ ~ produces(k, i) /\ supply_keeps(k)[i]
        \/ w = <<"compare">> \o SendSteps /\ k[i].op = "cmp" /\ produces(k, i)
    <2>1. CASE ~ supply_keeps(k)[i]
      <3>1. w = <<>>
        BY <2>1, Zenon DEF supply_steps
      <3> QED  BY <2>1, <3>1
    <2>2. CASE supply_keeps(k)[i] /\ k[i].op = "load"
      <3>1. w = IF produces(k, i) THEN <<"read">> \o SendSteps ELSE <<"read">>
        BY <2>2, Zenon DEF supply_steps
      <3> QED  BY <2>2, <3>1
    <2>3. CASE supply_keeps(k)[i] /\ k[i].op = "rmw"
      <3>1. w = IF can_be_promoted(k, i) THEN <<"call", "open", "update", "send", "close">>
                ELSE IF produces(k, i) THEN <<"update">> \o SendSteps ELSE <<"update">>
        BY <2>3, Zenon DEF supply_steps
      <3> QED  BY <1>4, <2>3, <3>1
    <2>4. CASE supply_keeps(k)[i] /\ k[i].op = "cmp"
      <3>1. w = <<"compare">> \o SendSteps
        BY <2>4, Zenon DEF supply_steps
      <3> QED  BY <1>3, <2>4, <3>1
    <2> QED  BY <1>1, <2>1, <2>2, <2>3, <2>4
  <1> HIDE DEF w
  <1>6. w \in Shapes
    BY <1>5 DEF Shapes, SendSteps
  <1>7. \/ Len(w) = 0 /\ ~ produces(k, i) /\ ~ supply_keeps(k)[i]
        \/ /\ Len(w) = 1 /\ ~ produces(k, i) /\ supply_keeps(k)[i]
           /\ w[1] = Access(k[i].op) /\ k[i].op \in {"load", "rmw"}
        \/ /\ Len(w) = 5 /\ produces(k, i) /\ supply_keeps(k)[i]
           /\ w[1] = Access(k[i].op)
           /\ w[2] = "call" /\ w[3] = "open" /\ w[4] = "send" /\ w[5] = "close"
        \/ /\ Len(w) = 5 /\ produces(k, i) /\ supply_keeps(k)[i] /\ k[i].op = "rmw"
           /\ w[1] = "call" /\ w[2] = "open" /\ w[3] = "update"
           /\ w[4] = "send" /\ w[5] = "close"
    <2>1. CASE w = <<>> /\ ~ supply_keeps(k)[i]
      BY <1>2, <2>1
    <2>2. CASE w = <<"read">> /\ k[i].op = "load" /\ ~ produces(k, i) /\ supply_keeps(k)[i]
      BY <2>2 DEF Access
    <2>3. CASE w = <<"update">> /\ k[i].op = "rmw" /\ ~ produces(k, i) /\ supply_keeps(k)[i]
      BY <2>3 DEF Access
    <2>4. CASE w = <<"read">> \o SendSteps /\ k[i].op = "load" /\ produces(k, i)
      <3>1. "read" \in Dos
        BY DEF Dos
      <3> QED  BY <1>2, <2>4, <3>1, Sending DEF Access
    <2>5. CASE w = <<"update">> \o SendSteps /\ k[i].op = "rmw" /\ produces(k, i)
      <3>1. "update" \in Dos
        BY DEF Dos
      <3> QED  BY <1>2, <2>5, <3>1, Sending DEF Access
    <2>6. CASE w = <<"compare">> \o SendSteps /\ k[i].op = "cmp" /\ produces(k, i)
      <3>1. "compare" \in Dos
        BY DEF Dos
      <3> QED  BY <1>2, <2>6, <3>1, Sending DEF Access
    <2>7. CASE w = <<"call", "open", "update", "send", "close">> /\ k[i].op = "rmw" /\ produces(k, i)
      BY <1>2, <2>7
    <2> QED  BY <1>5, <2>1, <2>2, <2>3, <2>4, <2>5, <2>6, <2>7
  <1> QED  BY <1>1, <1>6, <1>7 DEF w

(* What follows from them. *)
LEMMA SupplySteps ==
  ASSUME NEW k, Len(k) \in Nat, NEW i \in 1 .. Len(k), k[i].op \in Ops
  PROVE  LET w == supply_steps(k, i)
         IN  /\ w \in Shapes
             /\ \A n \in 1 .. Len(w) :
                  /\ supply_keeps(k)[i]
                  /\ w[n] \in {Access(k[i].op), "call", "open", "send", "close"}
                  /\ w[n] = "send" =>
                       produces(k, i) /\ \E m \in 1 .. Len(w) : m < n /\ w[m] = Access(k[i].op)
             /\ supply_keeps(k)[i] =>
                  /\ k[i].op \in {"load", "rmw", "cmp"}
                  /\ \E n \in 1 .. Len(w) : w[n] = Access(k[i].op)
             /\ produces(k, i) => \E n \in 1 .. Len(w) : w[n] = "send"
  <1> DEFINE w == supply_steps(k, i)
             A == Access(k[i].op)
  <1>1. w \in Shapes /\ (supply_keeps(k)[i] => k[i].op \in {"load", "rmw", "cmp"})
    BY SupplyForms
  <1>2. \/ Len(w) = 0 /\ ~ produces(k, i) /\ ~ supply_keeps(k)[i]
        \/ /\ Len(w) = 1 /\ ~ produces(k, i) /\ supply_keeps(k)[i]
           /\ w[1] = A
        \/ /\ Len(w) = 5 /\ produces(k, i) /\ supply_keeps(k)[i]
           /\ w[1] = A
           /\ w[2] = "call" /\ w[3] = "open" /\ w[4] = "send" /\ w[5] = "close"
        \/ /\ Len(w) = 5 /\ produces(k, i) /\ supply_keeps(k)[i]
           /\ w[1] = "call" /\ w[2] = "open" /\ w[3] = A
           /\ w[4] = "send" /\ w[5] = "close"
    BY SupplyForms DEF Access
  <1>3. A \in {"read", "update", "compare"}
    BY DEF Access
  <1> HIDE DEF w, A
  <1>4. CASE Len(w) = 0 /\ ~ produces(k, i) /\ ~ supply_keeps(k)[i]
    BY <1>1, <1>4 DEF w, A
  <1>5. CASE Len(w) = 1 /\ ~ produces(k, i) /\ supply_keeps(k)[i] /\ w[1] = A
    <2>1. \A n \in 1 .. Len(w) : n = 1
      BY <1>5
    <2>2. 1 \in 1 .. Len(w)
      BY <1>5
    <2>3. \A n \in 1 .. Len(w) : w[n] = A /\ w[n] # "send"
      BY <1>3, <1>5, <2>1
    <2> QED  BY <1>1, <1>5, <2>2, <2>3 DEF w, A
  <1>6. CASE Len(w) = 5 /\ produces(k, i) /\ supply_keeps(k)[i]
    <2>1. \E m \in {1, 3} :
            /\ w[m] = A
            /\ \A n \in {1, 2, 3} \ {m} : w[n] \in {"call", "open"}
            /\ w[4] = "send" /\ w[5] = "close"
      BY <1>2, <1>6
    <2>2. PICK m \in {1, 3} :
            /\ w[m] = A
            /\ \A n \in {1, 2, 3} \ {m} : w[n] \in {"call", "open"}
            /\ w[4] = "send" /\ w[5] = "close"
      BY <2>1
    <2>3. \A n \in 1 .. Len(w) : n \in {1, 2, 3, 4, 5}
      BY <1>6
    <2>4. m \in 1 .. Len(w) /\ 4 \in 1 .. Len(w) /\ m < 4
      BY <1>6
    <2>5. \A n \in 1 .. Len(w) :
            w[n] \in {A, "call", "open", "send", "close"} /\ (w[n] = "send" => n = 4)
      BY <1>3, <2>2, <2>3
    <2> QED  BY <1>1, <1>6, <2>2, <2>4, <2>5 DEF w, A
  <1> QED  BY <1>2, <1>4, <1>5, <1>6

(* The steps of the compute slice. *)
LEMMA ComputeSteps ==
  ASSUME NEW k, Len(k) \in Nat, NEW i \in 1 .. Len(k), k[i].op \in Ops
  PROVE  LET w == compute_steps(k, i)
             received == compute_instruments(k[i]) /\ ~ consume_removed(k, i)
         IN  /\ w \in Shapes
             /\ \A n \in 1 .. Len(w) :
                  /\ w[n] \in {"write", "read", "call", "open", "receive", "close"}
                  /\ w[n] = "write" => k[i].op = "store"
                  /\ w[n] = "read" => k[i].op = "xload"
                  /\ w[n] = "receive" => received
             /\ received => \E n \in 1 .. Len(w) : w[n] = "receive"
             /\ k[i].op = "store" => \E n \in 1 .. Len(w) : w[n] = "write"
             /\ k[i].op = "xload" => \E n \in 1 .. Len(w) : w[n] = "read"
  <1> DEFINE w == compute_steps(k, i)
             received == compute_instruments(k[i]) /\ ~ consume_removed(k, i)
  <1>1. \/ w = <<"write">> /\ k[i].op = "store" /\ ~ received
        \/ w = <<"read">> /\ k[i].op = "xload" /\ ~ received
        \/ w = <<>> /\ ~ received /\ k[i].op \notin {"store", "xload"}
        \/ /\ w = <<"call", "open", "receive", "close">> /\ received
           /\ k[i].op \notin {"store", "xload"}
    <2>1. CASE k[i].op = "store"
      BY <2>1, Zenon DEF compute_steps, compute_instruments
    <2>2. CASE k[i].op = "xload"
      BY <2>2, Zenon DEF compute_steps, compute_instruments
    <2>3. CASE k[i].op \in {"load", "rmw", "cmp"}
      <3>1. compute_instruments(k[i]) /\ k[i].op # "store" /\ k[i].op # "xload"
        BY <2>3 DEF compute_instruments
      <3>2. w = IF consume_removed(k, i) THEN <<>> ELSE ReceiveSteps
        BY <3>1, Zenon DEF compute_steps
      <3> QED  BY <3>1, <3>2 DEF ReceiveSteps
    <2> QED  BY <2>1, <2>2, <2>3 DEF Ops
  <1> HIDE DEF w, received
  <1>2. w \in Shapes
    BY <1>1 DEF Shapes
  <1>3. \A n \in 1 .. Len(w) :
           /\ w[n] \in {"write", "read", "call", "open", "receive", "close"}
           /\ w[n] = "write" => k[i].op = "store"
           /\ w[n] = "read" => k[i].op = "xload"
           /\ w[n] = "receive" => received
    BY <1>1
  <1>4. received => \E n \in 1 .. Len(w) : w[n] = "receive"
    <2> SUFFICES ASSUME received PROVE \E n \in 1 .. Len(w) : w[n] = "receive"
      OBVIOUS
    <2>1. Len(w) = 4 /\ w[3] = "receive"
      BY <1>1
    <2> QED  BY <2>1
  <1>5. k[i].op = "store" => \E n \in 1 .. Len(w) : w[n] = "write"
    <2> SUFFICES ASSUME k[i].op = "store" PROVE \E n \in 1 .. Len(w) : w[n] = "write"
      OBVIOUS
    <2>1. ~ received
      BY DEF received, compute_instruments
    <2>2. w = <<"write">>
      BY <1>1, <2>1
    <2> QED  BY <2>2
  <1>6. k[i].op = "xload" => \E n \in 1 .. Len(w) : w[n] = "read"
    <2> SUFFICES ASSUME k[i].op = "xload" PROVE \E n \in 1 .. Len(w) : w[n] = "read"
      OBVIOUS
    <2>1. w = <<"read">>
      BY <1>1
    <2> QED  BY <2>1
  <1> QED  BY <1>2, <1>3, <1>4, <1>5, <1>6 DEF w, received

-----------------------------------------------------------------------------
(* What a slice looks like to the thread that runs it. *)

Inner(S, a) == a > 1 /\ S[a - 1].of = S[a].of
StageAt(S, a) == Stage(S[a].do, Inner(S, a))
NextStage(S, a) == After(S[a].do, Inner(S, a))

(* Its steps follow the order of the kernel; the stage a step leaves its   *)
(* call in is the one the next step of the same instruction needs, and no  *)
(* instruction begins or ends inside a call; nothing but the close comes   *)
(* after the transfer.                                                     *)
IsSlice(S, N) ==
  /\ S \in Seq([do : Dos, of : 1 .. N])
  /\ \A a, b \in 1 .. Len(S) : a < b => S[a].of <= S[b].of
  /\ \A a \in 1 .. Len(S) :
       /\ NextStage(S, a) # "none" => a + 1 \in 1 .. Len(S) /\ S[a + 1].of = S[a].of
       /\ a + 1 \in 1 .. Len(S) => StageAt(S, a + 1) = NextStage(S, a)
       /\ ~ Inner(S, a) => StageAt(S, a) = "none"
  /\ \A a, b \in 1 .. Len(S) :
       a < b /\ S[a].of = S[b].of =>
         /\ S[a].do \in {"send", "receive"} => S[b].do = "close"
         /\ S[a].do # S[b].do

LEMMA StepOf ==
  ASSUME NEW S, NEW off, NEW N, NEW what, LayOut(S, off, N, what), NEW a \in 1 .. Len(S)
  PROVE  S[a].of \in 1 .. N
  <1> DEFINE T == [do : Dos, of : 1 .. N]
  <1>1. S \in Seq(T)
    BY DEF LayOut
  <1>2. \A r \in T : r.of \in 1 .. N
    OBVIOUS
  <1> HIDE DEF T
  <1>3. S[a] \in T
    BY <1>1
  <1> QED  BY <1>2, <1>3

LEMMA ShapedIsSlice ==
  ASSUME NEW N \in Nat, NEW what, \A i \in 1 .. N : Shaped(what[i]),
         NEW S, NEW off, LayOut(S, off, N, what)
  PROVE  IsSlice(S, N)
  <1> DEFINE I(a) == S[a].of
             P(a) == a - off[S[a].of]
             L(i) == Len(what[i])
  <1>1. /\ S \in Seq([do : Dos, of : 1 .. N]) /\ Len(S) \in Nat
        /\ \A i \in 1 .. N : off[i] \in Nat
    BY DEF LayOut
  <1>2. \A i \in 1 .. N : L(i) \in Nat
    BY DEF Shaped
  <1>3. \A a \in 1 .. Len(S) : I(a) \in 1 .. N
    BY StepOf
  <1>4. \A a \in 1 .. Len(S) : P(a) \in 1 .. L(I(a)) /\ S[a].do = what[I(a)][P(a)]
    BY DEF LayOut
  <1>5. \A i \in 1 .. N : \A n \in 1 .. L(i) :
          /\ off[i] + n \in 1 .. Len(S)
          /\ I(off[i] + n) = i /\ S[off[i] + n].do = what[i][n]
    <2>1. \A i \in 1 .. N : \A n \in 1 .. L(i) :
            off[i] + n \in 1 .. Len(S) /\ S[off[i] + n] = [do |-> what[i][n], of |-> i]
      BY Zenon DEF LayOut
    <2>2. ASSUME NEW i \in 1 .. N, NEW n \in 1 .. L(i)
          PROVE  /\ off[i] + n \in 1 .. Len(S)
                 /\ I(off[i] + n) = i /\ S[off[i] + n].do = what[i][n]
      <3> DEFINE a == off[i] + n
      <3>1. a \in 1 .. Len(S) /\ S[a] = [do |-> what[i][n], of |-> i]
        BY <2>1
      <3> HIDE DEF a
      <3>2. S[a].of = i /\ S[a].do = what[i][n]
        BY <3>1
      <3> QED  BY <3>1, <3>2 DEF a
    <2> QED  BY <2>2
  <1>6. \A i, j \in 1 .. N : i < j => off[i] + L(i) <= off[j]
    BY Zenon DEF LayOut
  <1>7. \A a \in 1 .. Len(S) : off[I(a)] \in Nat /\ L(I(a)) \in Nat /\ a = off[I(a)] + P(a)
    BY <1>1, <1>2, <1>3
  <1> HIDE DEF I, P, L
  <1>8. ASSUME NEW a \in 1 .. Len(S) PROVE Inner(S, a) = (P(a) > 1)
    <2>0. P(a) \in Nat /\ P(a) >= 1 /\ P(a) <= L(I(a)) /\ I(a) \in 1 .. N
      BY <1>3, <1>4, <1>7
    <2>1. ASSUME P(a) > 1 PROVE a > 1 /\ I(a - 1) = I(a)
      <3> DEFINE n == P(a) - 1
      <3>1. n \in 1 .. L(I(a)) /\ off[I(a)] + n = a - 1 /\ a > 1
        <4> DEFINE x == off[I(a)]
                   y == L(I(a))
                   p == P(a)
        <4>1. /\ x \in Nat /\ y \in Nat /\ p \in Nat /\ a = x + p
              /\ p >= 1 /\ p <= y /\ p > 1
          BY <1>7, <2>0, <2>1
        <4> HIDE DEF x, y, p
        <4>2. p - 1 \in 1 .. y /\ x + (p - 1) = a - 1 /\ a > 1
          BY <4>1
        <4> QED  BY <4>2 DEF x, y, p
      <3> HIDE DEF n
      <3> QED  BY <1>5, <2>0, <3>1
    <2>2. ASSUME a > 1, I(a - 1) = I(a) PROVE P(a) > 1
      <3>1. a - 1 \in 1 .. Len(S)
        BY <1>1, <2>2
      <3>2. P(a - 1) >= 1 /\ P(a - 1) \in Nat
        BY <1>4, <1>7, <2>2, <3>1
      <3>3. a - 1 = off[I(a)] + P(a - 1) /\ a = off[I(a)] + P(a) /\ off[I(a)] \in Nat
        BY <1>7, <2>2, <3>1
      <3> QED  BY <2>0, <3>2, <3>3
    <2> QED  BY <2>1, <2>2 DEF Inner, I
  <1>9. ASSUME NEW a \in 1 .. Len(S), NEW b \in 1 .. Len(S), a < b
        PROVE  I(a) <= I(b)
    <2>1. I(a) \in 1 .. N /\ I(b) \in 1 .. N
      BY <1>3
    <2> SUFFICES ASSUME I(b) < I(a) PROVE FALSE
      BY <2>1
    <2>2. off[I(b)] + L(I(b)) <= off[I(a)]
      BY <1>6, <2>1
    <2>3. P(a) >= 1 /\ P(b) <= L(I(b)) /\ P(a) \in Nat /\ P(b) \in Nat
      BY <1>4, <1>7
    <2>4. a = off[I(a)] + P(a) /\ b = off[I(b)] + P(b) /\ off[I(a)] \in Nat /\ off[I(b)] \in Nat
          /\ L(I(b)) \in Nat
      BY <1>7
    <2> QED  BY <1>9, <2>2, <2>3, <2>4
  <1>10. ASSUME NEW a \in 1 .. Len(S)
         PROVE  /\ P(a) < L(I(a)) => /\ a + 1 \in 1 .. Len(S) /\ I(a + 1) = I(a)
                                     /\ P(a + 1) = P(a) + 1
                /\ P(a) = L(I(a)) /\ a + 1 \in 1 .. Len(S) => I(a + 1) # I(a)
    <2>0. P(a) \in Nat /\ P(a) >= 1 /\ P(a) <= L(I(a)) /\ I(a) \in 1 .. N
      BY <1>3, <1>4, <1>7
    <2>1. ASSUME P(a) < L(I(a))
          PROVE  a + 1 \in 1 .. Len(S) /\ I(a + 1) = I(a) /\ P(a + 1) = P(a) + 1
      <3> DEFINE n == P(a) + 1
      <3>1. n \in 1 .. L(I(a)) /\ off[I(a)] + n = a + 1
        <4> DEFINE x == off[I(a)]
                   y == L(I(a))
                   p == P(a)
        <4>1. /\ x \in Nat /\ y \in Nat /\ p \in Nat /\ a = x + p
              /\ p >= 1 /\ p <= y /\ p < y
          BY <1>7, <2>0, <2>1
        <4> HIDE DEF x, y, p
        <4>2. p + 1 \in 1 .. y /\ x + (p + 1) = a + 1
          BY <4>1
        <4> QED  BY <4>2 DEF x, y, p
      <3> HIDE DEF n
      <3>2. a + 1 \in 1 .. Len(S) /\ I(a + 1) = I(a)
        BY <1>5, <2>0, <3>1
      <3>3. a + 1 = off[I(a)] + P(a + 1) /\ a = off[I(a)] + P(a) /\ off[I(a)] \in Nat
        BY <1>7, <3>2
      <3>4. P(a + 1) \in Nat
        BY <1>4, <3>2
      <3> QED  BY <2>0, <3>2, <3>3, <3>4
    <2>2. ASSUME P(a) = L(I(a)), a + 1 \in 1 .. Len(S), I(a + 1) = I(a) PROVE FALSE
      <3>1. P(a + 1) <= L(I(a)) /\ P(a + 1) \in Nat
        BY <1>4, <1>7, <2>2
      <3>2. a + 1 = off[I(a)] + P(a + 1) /\ a = off[I(a)] + P(a) /\ off[I(a)] \in Nat
        BY <1>7, <2>2
      <3> QED  BY <2>0, <2>2, <3>1, <3>2
    <2> QED  BY <2>1, <2>2
  <1>11. \A i \in 1 .. N : \A n \in 1 .. L(i) :
           /\ After(what[i][n], n > 1) = IF n < L(i) THEN Stage(what[i][n + 1], TRUE) ELSE "none"
           /\ n = 1 => Stage(what[i][n], FALSE) = "none"
           /\ what[i][n] \in {"send", "receive"} =>
                \A m \in 1 .. L(i) : n < m => what[i][m] = "close"
           /\ \A m \in 1 .. L(i) : n < m => what[i][m] # what[i][n]
    BY Zenon DEF Shaped, L
  <1>12. ASSUME NEW a \in 1 .. Len(S), ~ Inner(S, a) PROVE StageAt(S, a) = "none"
    <2>0. P(a) \in 1 .. L(I(a)) /\ L(I(a)) \in Nat /\ ~ (P(a) > 1)
      BY <1>4, <1>7, <1>8, <1>12
    <2>1. P(a) = 1
      BY <2>0
    <2>2. Stage(what[I(a)][P(a)], FALSE) = "none"
      BY <1>3, <1>4, <1>11, <2>1
    <2>3. Inner(S, a) = FALSE
      BY <1>12 DEF Inner
    <2> QED  BY <1>4, <2>2, <2>3 DEF StageAt
  <1>13. ASSUME NEW a \in 1 .. Len(S)
         PROVE  /\ NextStage(S, a) # "none" => a + 1 \in 1 .. Len(S) /\ S[a + 1].of = S[a].of
                /\ a + 1 \in 1 .. Len(S) => StageAt(S, a + 1) = NextStage(S, a)
    <2>0. I(a) \in 1 .. N /\ P(a) \in 1 .. L(I(a)) /\ L(I(a)) \in Nat
      BY <1>3, <1>4, <1>7
    <2>1. NextStage(S, a) = IF P(a) < L(I(a)) THEN Stage(what[I(a)][P(a) + 1], TRUE) ELSE "none"
      <3>1. NextStage(S, a) = After(what[I(a)][P(a)], P(a) > 1)
        BY <1>4, <1>8, Zenon DEF NextStage
      <3> QED  BY <1>11, <2>0, <3>1, Zenon
    <2>2. CASE P(a) < L(I(a))
      <3>1. a + 1 \in 1 .. Len(S) /\ I(a + 1) = I(a) /\ P(a + 1) = P(a) + 1
        BY <1>10, <2>2
      <3>2. Inner(S, a + 1) = TRUE
        BY <3>1 DEF Inner, I
      <3>3. S[a + 1].do = what[I(a)][P(a) + 1]
        BY <1>4, <3>1
      <3>4. StageAt(S, a + 1) = Stage(what[I(a)][P(a) + 1], TRUE)
        BY <3>2, <3>3, Zenon DEF StageAt
      <3> QED  BY <2>1, <2>2, <3>1, <3>4 DEF I
    <2>3. CASE ~ (P(a) < L(I(a)))
      <3>1. NextStage(S, a) = "none"
        BY <2>1, <2>3
      <3>2. P(a) = L(I(a))
        BY <2>0, <2>3
      <3>3. ASSUME a + 1 \in 1 .. Len(S) PROVE StageAt(S, a + 1) = "none"
        <4>1. I(a + 1) # I(a)
          BY <1>10, <3>2, <3>3
        <4>2. ~ Inner(S, a + 1)
          BY <4>1 DEF Inner, I
        <4> QED  BY <1>12, <3>3, <4>2
      <3> QED  BY <3>1, <3>3
    <2> QED  BY <2>2, <2>3
  <1>14. ASSUME NEW a \in 1 .. Len(S), NEW b \in 1 .. Len(S), a < b, S[a].of = S[b].of
         PROVE  /\ S[a].do \in {"send", "receive"} => S[b].do = "close"
                /\ S[a].do # S[b].do
    <2>1. I(a) = I(b)
      BY <1>14 DEF I
    <2>2. I(a) \in 1 .. N /\ P(a) \in 1 .. L(I(a)) /\ P(b) \in 1 .. L(I(a)) /\ P(a) < P(b)
      <3>1. a = off[I(a)] + P(a) /\ b = off[I(a)] + P(b) /\ off[I(a)] \in Nat
        BY <1>7, <2>1
      <3>2. P(a) \in 1 .. L(I(a)) /\ P(b) \in 1 .. L(I(a)) /\ I(a) \in 1 .. N
        BY <1>3, <1>4, <2>1
      <3> QED  BY <1>14, <3>1, <3>2
    <2>3. S[a].do = what[I(a)][P(a)] /\ S[b].do = what[I(a)][P(b)]
      BY <1>4, <2>1
    <2>4. /\ what[I(a)][P(a)] \in {"send", "receive"} => what[I(a)][P(b)] = "close"
          /\ what[I(a)][P(b)] # what[I(a)][P(a)]
      BY <1>11, <2>2
    <2> QED  BY <2>3, <2>4
  <1> QED  BY <1>1, <1>9, <1>12, <1>13, <1>14, Zenon DEF IsSlice, I

LEMMA SupplySlice ==
  ASSUME NEW k, Len(k) \in Nat, \A i \in 1 .. Len(k) : k[i].op \in Ops
  PROVE  LET S == supply_slice(k)
         IN  /\ IsSlice(S, Len(k))
             /\ \A a \in 1 .. Len(S) :
                  /\ supply_keeps(k)[S[a].of]
                  /\ k[S[a].of].op \in {"load", "rmw", "cmp"}
                  /\ S[a].do \in {Access(k[S[a].of].op), "call", "open", "send", "close"}
                  /\ S[a].do = "send" =>
                       /\ produces(k, S[a].of)
                       /\ \E b \in 1 .. Len(S) :
                            b < a /\ S[b].of = S[a].of /\ S[b].do = Access(k[S[a].of].op)
             /\ \A i \in 1 .. Len(k) :
                  /\ supply_keeps(k)[i] =>
                       \E a \in 1 .. Len(S) : S[a].do = Access(k[i].op) /\ S[a].of = i
                  /\ produces(k, i) => \E a \in 1 .. Len(S) : S[a].do = "send" /\ S[a].of = i
  <1> DEFINE S == supply_slice(k)
             N == Len(k)
             what == [i \in 1 .. N |-> supply_steps(k, i)]
  <1>1. \A i \in 1 .. N : what[i] = supply_steps(k, i)
    OBVIOUS
  <1>2. \A i \in 1 .. N : supply_steps(k, i) \in Shapes
    BY SupplySteps
  <1>3. \A i \in 1 .. N : Shaped(what[i])
    BY <1>1, <1>2, ShapesShaped
  <1>4. what \in [1 .. N -> Seq(Dos)]
    <2>1. \A i \in 1 .. N : supply_steps(k, i) \in Seq(Dos)
      BY <1>2, ShapesShaped DEF Shaped
    <2> QED  BY <2>1
  <1>5. S = FlattenSeq([i \in 1 .. N |-> Does(i, what[i])])
    BY <1>1 DEF supply_slice
  <1> HIDE DEF what
  <1>6. PICK off : LayOut(S, off, N, what)
    BY <1>4, <1>5, SliceLayout
  <1> HIDE DEF S
  <1>7. IsSlice(S, N)
    BY <1>3, <1>6, ShapedIsSlice
  <1>8. ASSUME NEW i \in 1 .. N, NEW n \in 1 .. Len(supply_steps(k, i))
        PROVE  /\ off[i] + n \in 1 .. Len(S) /\ off[i] \in Nat
               /\ S[off[i] + n].do = supply_steps(k, i)[n] /\ S[off[i] + n].of = i
    <2>1. n \in 1 .. Len(what[i]) /\ what[i][n] = supply_steps(k, i)[n]
      BY <1>1
    <2>2. off[i] + n \in 1 .. Len(S) /\ S[off[i] + n] = [do |-> what[i][n], of |-> i]
      BY <1>6, <2>1, Zenon DEF LayOut
    <2>3. off \in [1 .. N + 1 -> Nat]
      BY <1>6, Zenon DEF LayOut
    <2>4. i \in 1 .. N + 1
      OBVIOUS
    <2>5. off[i] \in Nat
      BY <2>3, <2>4
    <2> QED  BY <2>1, <2>2, <2>5
  <1>9. ASSUME NEW a \in 1 .. Len(S)
        PROVE  /\ supply_keeps(k)[S[a].of]
               /\ k[S[a].of].op \in {"load", "rmw", "cmp"}
               /\ S[a].do \in {Access(k[S[a].of].op), "call", "open", "send", "close"}
               /\ S[a].do = "send" =>
                    /\ produces(k, S[a].of)
                    /\ \E b \in 1 .. Len(S) :
                         b < a /\ S[b].of = S[a].of /\ S[b].do = Access(k[S[a].of].op)
    <2> DEFINE i == S[a].of
               n == a - off[i]
    <2>1. i \in 1 .. N
      BY <1>6, StepOf
    <2>2. n \in 1 .. Len(what[i]) /\ S[a].do = what[i][n]
      BY <1>6 DEF LayOut
    <2>3. what[i] = supply_steps(k, i)
      BY <1>1, <2>1
    <2>4. off[i] \in Nat /\ a \in Nat
      BY <1>6, <2>1 DEF LayOut
    <2>5. a = off[i] + n
      BY <2>4
    <2> HIDE DEF n, i
    <2>6. n \in 1 .. Len(supply_steps(k, i)) /\ S[a].do = supply_steps(k, i)[n]
      BY <2>2, <2>3
    <2>7. /\ supply_keeps(k)[i]
          /\ S[a].do \in {Access(k[i].op), "call", "open", "send", "close"}
          /\ S[a].do = "send" => produces(k, i)
      BY <2>1, <2>6, SupplySteps
    <2>8. k[i].op \in {"load", "rmw", "cmp"}
      BY <2>1, <2>7, SupplySteps
    <2>9. ASSUME S[a].do = "send"
          PROVE  \E b \in 1 .. Len(S) : b < a /\ S[b].of = i /\ S[b].do = Access(k[i].op)
      <3>0. \A l \in 1 .. Len(supply_steps(k, i)) :
              supply_steps(k, i)[l] = "send" =>
                \E m \in 1 .. Len(supply_steps(k, i)) :
                  m < l /\ supply_steps(k, i)[m] = Access(k[i].op)
        BY <2>1, SupplySteps
      <3>1. PICK m \in 1 .. Len(supply_steps(k, i)) :
              m < n /\ supply_steps(k, i)[m] = Access(k[i].op)
        BY <2>6, <2>9, <3>0, Zenon
      <3>2. /\ off[i] + m \in 1 .. Len(S)
            /\ S[off[i] + m].do = Access(k[i].op) /\ S[off[i] + m].of = i
        BY <1>8, <2>1, <3>1
      <3>3. off[i] + m < a
        BY <2>4, <2>5, <2>6, <3>1
      <3> QED  BY <3>2, <3>3
    <2> QED  BY <2>7, <2>8, <2>9 DEF i
  <1>10. ASSUME NEW i \in 1 .. N
         PROVE  /\ supply_keeps(k)[i] =>
                     \E a \in 1 .. Len(S) : S[a].do = Access(k[i].op) /\ S[a].of = i
                /\ produces(k, i) => \E a \in 1 .. Len(S) : S[a].do = "send" /\ S[a].of = i
    <2>1. ASSUME supply_keeps(k)[i]
          PROVE  \E a \in 1 .. Len(S) : S[a].do = Access(k[i].op) /\ S[a].of = i
      <3>1. PICK n \in 1 .. Len(supply_steps(k, i)) : supply_steps(k, i)[n] = Access(k[i].op)
        BY <2>1, SupplySteps
      <3>2. off[i] + n \in 1 .. Len(S) /\ S[off[i] + n].do = Access(k[i].op) /\ S[off[i] + n].of = i
        BY <1>8, <3>1
      <3> QED  BY <3>2
    <2>2. ASSUME produces(k, i)
          PROVE  \E a \in 1 .. Len(S) : S[a].do = "send" /\ S[a].of = i
      <3>1. PICK n \in 1 .. Len(supply_steps(k, i)) : supply_steps(k, i)[n] = "send"
        BY <2>2, SupplySteps
      <3>2. off[i] + n \in 1 .. Len(S) /\ S[off[i] + n].do = "send" /\ S[off[i] + n].of = i
        BY <1>8, <3>1
      <3> QED  BY <3>2
    <2> QED  BY <2>1, <2>2
  <1> QED  BY <1>7, <1>9, <1>10 DEF S

LEMMA ComputeSlice ==
  ASSUME NEW k, Len(k) \in Nat, \A i \in 1 .. Len(k) : k[i].op \in Ops
  PROVE  LET S == compute_slice(k)
             received(i) == compute_instruments(k[i]) /\ ~ consume_removed(k, i)
         IN  /\ IsSlice(S, Len(k))
             /\ \A a \in 1 .. Len(S) :
                  /\ S[a].do \in {"write", "read", "call", "open", "receive", "close"}
                  /\ S[a].do = "write" => k[S[a].of].op = "store"
                  /\ S[a].do = "read" => k[S[a].of].op = "xload"
                  /\ S[a].do = "receive" => received(S[a].of)
             /\ \A i \in 1 .. Len(k) :
                  /\ received(i) => \E a \in 1 .. Len(S) : S[a].do = "receive" /\ S[a].of = i
                  /\ k[i].op = "store" => \E a \in 1 .. Len(S) : S[a].do = "write" /\ S[a].of = i
                  /\ k[i].op = "xload" => \E a \in 1 .. Len(S) : S[a].do = "read" /\ S[a].of = i
  <1> DEFINE S == compute_slice(k)
             received(i) == compute_instruments(k[i]) /\ ~ consume_removed(k, i)
             N == Len(k)
             what == [i \in 1 .. N |-> compute_steps(k, i)]
  <1>1. \A i \in 1 .. N : what[i] = compute_steps(k, i)
    OBVIOUS
  <1>2. \A i \in 1 .. N : compute_steps(k, i) \in Shapes
    BY ComputeSteps
  <1>3. \A i \in 1 .. N : Shaped(what[i])
    BY <1>1, <1>2, ShapesShaped
  <1>4. what \in [1 .. N -> Seq(Dos)]
    <2>1. \A i \in 1 .. N : compute_steps(k, i) \in Seq(Dos)
      BY <1>2, ShapesShaped DEF Shaped
    <2> QED  BY <2>1
  <1>5. S = FlattenSeq([i \in 1 .. N |-> Does(i, what[i])])
    BY <1>1 DEF compute_slice
  <1> HIDE DEF what
  <1>6. PICK off : LayOut(S, off, N, what)
    BY <1>4, <1>5, SliceLayout
  <1> HIDE DEF S
  <1>7. IsSlice(S, N)
    BY <1>3, <1>6, ShapedIsSlice
  <1>8. ASSUME NEW a \in 1 .. Len(S)
        PROVE  /\ S[a].do \in {"write", "read", "call", "open", "receive", "close"}
               /\ S[a].do = "write" => k[S[a].of].op = "store"
               /\ S[a].do = "read" => k[S[a].of].op = "xload"
               /\ S[a].do = "receive" => received(S[a].of)
    <2> DEFINE i == S[a].of
               n == a - off[i]
    <2>1. i \in 1 .. N
      BY <1>6, StepOf
    <2>2. n \in 1 .. Len(what[i]) /\ S[a].do = what[i][n]
      BY <1>6 DEF LayOut
    <2>3. what[i] = compute_steps(k, i)
      BY <1>1, <2>1
    <2> HIDE DEF n, i
    <2>4. n \in 1 .. Len(compute_steps(k, i)) /\ S[a].do = compute_steps(k, i)[n]
      BY <2>2, <2>3
    <2>5. /\ S[a].do \in {"write", "read", "call", "open", "receive", "close"}
          /\ S[a].do = "write" => k[i].op = "store"
          /\ S[a].do = "read" => k[i].op = "xload"
          /\ S[a].do = "receive" => received(i)
      BY <2>1, <2>4, ComputeSteps
    <2> QED  BY <2>5 DEF i
  <1>9. ASSUME NEW i \in 1 .. N, NEW n \in 1 .. Len(compute_steps(k, i))
        PROVE  \E a \in 1 .. Len(S) : S[a].do = compute_steps(k, i)[n] /\ S[a].of = i
    <2>1. n \in 1 .. Len(what[i]) /\ what[i][n] = compute_steps(k, i)[n]
      BY <1>1
    <2>2. off[i] + n \in 1 .. Len(S) /\ S[off[i] + n] = [do |-> what[i][n], of |-> i]
      BY <1>6, <2>1, Zenon DEF LayOut
    <2>3. S[off[i] + n].do = compute_steps(k, i)[n] /\ S[off[i] + n].of = i
      BY <2>1, <2>2
    <2> QED  BY <2>2, <2>3
  <1>10. ASSUME NEW i \in 1 .. N
         PROVE  /\ received(i) => \E n \in 1 .. Len(compute_steps(k, i)) : compute_steps(k, i)[n] = "receive"
                /\ k[i].op = "store" => \E n \in 1 .. Len(compute_steps(k, i)) : compute_steps(k, i)[n] = "write"
                /\ k[i].op = "xload" => \E n \in 1 .. Len(compute_steps(k, i)) : compute_steps(k, i)[n] = "read"
    BY ComputeSteps
  <1>11. ASSUME NEW i \in 1 .. N
         PROVE  /\ received(i) => \E a \in 1 .. Len(S) : S[a].do = "receive" /\ S[a].of = i
                /\ k[i].op = "store" => \E a \in 1 .. Len(S) : S[a].do = "write" /\ S[a].of = i
                /\ k[i].op = "xload" => \E a \in 1 .. Len(S) : S[a].do = "read" /\ S[a].of = i
    <2> HIDE DEF received, S
    <2>1. ASSUME NEW what1, \E n \in 1 .. Len(compute_steps(k, i)) : compute_steps(k, i)[n] = what1
          PROVE  \E a \in 1 .. Len(S) : S[a].do = what1 /\ S[a].of = i
      <3>1. PICK n \in 1 .. Len(compute_steps(k, i)) : compute_steps(k, i)[n] = what1
        BY <2>1
      <3>2. PICK a \in 1 .. Len(S) : S[a].do = compute_steps(k, i)[n] /\ S[a].of = i
        BY <1>9 DEF S
      <3> QED  BY <3>1, <3>2
    <2> QED  BY <1>10, <2>1
  <1> QED  BY <1>7, <1>8, <1>11 DEF S

-----------------------------------------------------------------------------
(* The numbers the two passes give, and what they drop. *)

LEMMA SameLabels == \A k, i : supply_label(k, i) = compute_label(k, i)
  BY Zenon DEF supply_label, compute_label, supply_instruments, compute_instruments

LEMMA LabelBound ==
  ASSUME NEW k, Len(k) \in Nat, NEW i \in 1 .. Len(k)
  PROVE  supply_label(k, i) \in 0 .. Len(k) - 1
  <1> DEFINE B == {j \in 1 .. i - 1 : supply_instruments(k[j])}
  <1>1. IsFiniteSet(1 .. i - 1) /\ Cardinality(1 .. i - 1) = i - 1
    <2> DEFINE m == i - 1
    <2>1. m \in Int /\ m >= 0 /\ 1 \in Int
      OBVIOUS
    <2> HIDE DEF m
    <2>2. /\ IsFiniteSet(1 .. m)
          /\ Cardinality(1 .. m) = IF 1 > m THEN 0 ELSE m - 1 + 1
      BY <2>1, FS_Interval
    <2>3. Cardinality(1 .. m) = m
      BY <2>1, <2>2
    <2> QED  BY <2>2, <2>3 DEF m
  <1>2. B \subseteq 1 .. i - 1
    OBVIOUS
  <1> HIDE DEF B
  <1>3. IsFiniteSet(B) /\ Cardinality(B) <= i - 1
    BY <1>1, <1>2, FS_Subset
  <1>4. Cardinality(B) \in Nat
    BY <1>3, FS_CardinalityType
  <1>5. Cardinality(B) \in 0 .. Len(k) - 1
    BY <1>3, <1>4
  <1> QED  BY <1>5 DEF supply_label, B

LEMMA LabelsGrow ==
  ASSUME NEW k, Len(k) \in Nat, NEW i \in 1 .. Len(k), NEW j \in 1 .. Len(k),
         i < j, supply_instruments(k[i])
  PROVE  supply_label(k, i) < supply_label(k, j)
  <1> DEFINE A == {n \in 1 .. i - 1 : supply_instruments(k[n])}
             B == {n \in 1 .. j - 1 : supply_instruments(k[n])}
  <1>1. A \cup {i} \subseteq B /\ i \notin A
    OBVIOUS
  <1>2. IsFiniteSet(B)
    <2>1. IsFiniteSet(1 .. j - 1)
      BY FS_Interval
    <2>2. B \subseteq 1 .. j - 1
      OBVIOUS
    <2> HIDE DEF B
    <2> QED  BY <2>1, <2>2, FS_Subset
  <1> HIDE DEF A, B
  <1>3. IsFiniteSet(A \cup {i}) /\ Cardinality(A \cup {i}) <= Cardinality(B)
    BY <1>1, <1>2, FS_Subset
  <1>4. IsFiniteSet(A)
    BY <1>3, FS_Subset
  <1>5. Cardinality(A \cup {i}) = Cardinality(A) + 1
    BY <1>1, <1>4, FS_AddElement
  <1>6. Cardinality(A) \in Nat /\ Cardinality(B) \in Nat
    BY <1>2, <1>4, FS_CardinalityType
  <1>7. Cardinality(A) < Cardinality(B)
    BY <1>3, <1>5, <1>6
  <1> QED  BY <1>7 DEF supply_label, A, B

(* What one slice sends the other receives. *)
LEMMA WhatIsSent ==
  ASSUME NEW k, Len(k) \in Nat, CmpsUsed(k), NEW i \in 1 .. Len(k)
  PROVE  produces(k, i) <=> compute_instruments(k[i]) /\ ~ consume_removed(k, i)
  <1>1. supply_instruments(k[i]) <=> compute_instruments(k[i])
    BY DEF supply_instruments, compute_instruments
  <1>2. CASE k[i].op = "cmp"
    BY <1>1, <1>2 DEF produces, CmpsUsed, supply_instruments
  <1>3. CASE k[i].op # "cmp" /\ supply_instruments(k[i])
    <2>1. ASSUME consume_removed(k, i) PROVE supply_label(k, i) \in labels_to_erase(k)
      BY <2>1, SameLabels, Zenon DEF labels_to_erase
    <2>2. ASSUME ~ consume_removed(k, i), supply_label(k, i) \in labels_to_erase(k) PROVE FALSE
      <3>1. PICK j \in 1 .. Len(k) : consume_removed(k, j) /\ supply_label(k, i) = compute_label(k, j)
        BY <2>2, Zenon DEF labels_to_erase
      <3>2. supply_instruments(k[j]) /\ supply_label(k, j) = supply_label(k, i)
        BY <3>1, SameLabels DEF consume_removed, supply_instruments, compute_instruments
      <3>3. i # j
        BY <2>2, <3>1
      <3>4. supply_label(k, i) \in Int
        BY LabelBound
      <3>5. ~ (i < j) /\ ~ (j < i)
        BY <1>3, <3>2, <3>4, LabelsGrow
      <3> QED  BY <3>3, <3>5
    <2> QED  BY <1>1, <1>3, <2>1, <2>2 DEF produces
  <1>4. CASE ~ supply_instruments(k[i])
    BY <1>1, <1>4 DEF produces
  <1> QED  BY <1>2, <1>3, <1>4
=============================================================================
