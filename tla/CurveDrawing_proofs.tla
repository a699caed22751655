------------------------- MODULE CurveDrawing_proofs --------------------------
(***************************************************************************)
(* Proofs about a draw of the curves, from both of its sides.               *)
(*                                                                         *)
(* BezierPatternRenderer: whatever setters ran since the last upload, a draw *)
(* shows every segment of every curve, no upload leaves its buffer, and the *)
(* CPU's bound is never below what the GPU counts.  The invariant (Rests)   *)
(* ties each buffer to the slots or to a dirty bit; what the recursive sums *)
(* and the joined sequences come to is shown by induction over the numbers, *)
(* with the set of those for which it holds in place of a predicate         *)
(* (FromZeroOn).                                                            *)
(*                                                                         *)
(* CurveBindings: every kernel of a frame finds in its registers the        *)
(* buffers that it declares, however many levels the scans need.  What a    *)
(* command does is stated once (Does); that a sequence of them runs from    *)
(* one state of the slots to another (Runs) is shown for a group of views,  *)
(* a pass, a level of a scan and a draw call, and the invariant says that   *)
(* what is left of a draw runs to where nothing is bound.                   *)
(***************************************************************************)
EXTENDS BezierPatternRenderer, CurveBindings, WellFoundedInduction, FiniteSetTheorems,
        SequenceTheorems, TLAPS

-------------------------------------------------------------------------------
(* Recursive functions *)

\* A set of numbers that is not empty has a least one.
LEMMA LeastElement ==
  ASSUME NEW S \in SUBSET Nat, S # {}
  PROVE  \E x \in S : \A y \in S : x <= y
<1>1. PICK x \in S : \A y \in S : <<y, x>> \notin OpToRel(<, Nat)
  BY NatLessThanWellFounded, WFMin
<1>2. \A y \in S : ~(y < x)
  BY <1>1 DEF OpToRel
<1> QED
  BY <1>2

\* Induction over a set of numbers in place of a predicate.
LEMMA FromZeroOn ==
  ASSUME NEW T, T \subseteq Nat, 0 \in T, \A n \in T : n + 1 \in T
  PROVE  T = Nat
<1> DEFINE S == Nat \ T
<1> SUFFICES ASSUME S # {} PROVE FALSE
  OBVIOUS
<1>1. PICK x \in S : \A y \in S : x <= y
  <2>1. S \in SUBSET Nat
    OBVIOUS
  <2> HIDE DEF S
  <2> QED
    BY <2>1, LeastElement
<1>2. x - 1 \in T /\ x = (x - 1) + 1
  BY <1>1
<1> QED
  BY <1>2

\* Each value is made from the one before.
Recurs(h, m, n, base, step) ==
  \A k \in m .. n : h[k] = IF k = m THEN base ELSE step[<<k, h[k - 1]>>]

\* A function whose every value is made from the one before exists.
LEMMA RecursionExists ==
  ASSUME NEW m \in Nat, NEW n \in Nat, m <= n, NEW S, NEW base \in S,
         NEW step \in [(m .. n) \X S -> S]
  PROVE  \E h \in [m .. n -> S] : Recurs(h, m, n, base, step)
<1> DEFINE Builds(j, h) == /\ h \in [m .. m + j -> S]
                           /\ \A k \in m .. m + j : h[k] = IF k = m THEN base ELSE step[<<k, h[k - 1]>>]
           T == {j \in Nat : m + j <= n => \E h : Builds(j, h)}
<1>1. 0 \in T
  <2>1. Builds(0, [k \in m .. m |-> base])
    OBVIOUS
  <2> QED
    BY <2>1
<1>2. ASSUME NEW j \in T PROVE j + 1 \in T
  <2> SUFFICES ASSUME m + (j + 1) <= n PROVE \E h : Builds(j + 1, h)
    OBVIOUS
  <2>1. PICK h : Builds(j, h)
    OBVIOUS
  <2> DEFINE last == m + j + 1
             g == [k \in m .. last |-> IF k = last THEN step[<<k, h[k - 1]>>] ELSE h[k]]
  <2>2. last \in m .. n /\ last - 1 \in m .. m + j /\ last # m /\ m .. m + (j + 1) = m .. last
    OBVIOUS
  <2>3. step[<<last, h[last - 1]>>] \in S
    BY <2>1, <2>2
  <2>4. g \in [m .. last -> S]
    BY <2>1, <2>2, <2>3
  <2>5. ASSUME NEW k \in m .. last
        PROVE  g[k] = IF k = m THEN base ELSE step[<<k, g[k - 1]>>]
    <3>1. CASE k = last
      BY <2>2, <3>1
    <3>2. CASE k # last
      <4>1. k \in m .. m + j /\ g[k] = h[k] /\ (k # m => g[k - 1] = h[k - 1])
        BY <3>2
      <4> QED
        BY <2>1, <4>1
    <3> QED
      BY <3>1, <3>2
  <2> QED
    BY <2>2, <2>4, <2>5
<1>3. T = Nat
  <2> HIDE DEF Builds
  <2>1. T \subseteq Nat /\ \A j \in T : j + 1 \in T
    BY <1>2
  <2> HIDE DEF T
  <2> QED
    BY <1>1, <2>1, FromZeroOn
<1>4. n - m \in T
  <2>1. n - m \in Nat
    OBVIOUS
  <2> HIDE DEF T
  <2> QED
    BY <1>3, <2>1
<1>5. PICK h : Builds(n - m, h)
  BY <1>4
<1>6. h \in [m .. n -> S] /\ \A k \in m .. n : h[k] = IF k = m THEN base ELSE step[<<k, h[k - 1]>>]
  BY <1>5
<1> QED
  BY <1>6 DEF Recurs

\* The sums of the values before k.
IsSum(h, v, n) ==
  /\ h \in [1 .. n + 1 -> Nat]
  /\ h[1] = 0
  /\ \A k \in 1 .. n : h[k + 1] = h[k] + v[k]

\* The same as a recursive function up to i.
SumsTo(h, v, i) == h = [k \in 1 .. i |-> IF k = 1 THEN 0 ELSE h[k - 1] + v[k - 1]]

\* The running sums of finitely many numbers exist, as the models define them.
LEMMA SumExists ==
  ASSUME NEW n \in Nat, NEW v \in [1 .. n -> Nat]
  PROVE  \E h \in [1 .. n + 1 -> Nat] : SumsTo(h, v, n + 1)
<1> DEFINE step == [x \in (1 .. n + 1) \X Nat |-> IF x[1] = 1 THEN 0 ELSE x[2] + v[x[1] - 1]]
<1>1. step \in [(1 .. n + 1) \X Nat -> Nat]
  OBVIOUS
<1>2. \A k \in 1 .. n + 1, x \in Nat : k # 1 => step[<<k, x>>] = x + v[k - 1]
  OBVIOUS
<1> HIDE DEF step
<1>3. PICK h \in [1 .. n + 1 -> Nat] :
        \A k \in 1 .. n + 1 : h[k] = IF k = 1 THEN 0 ELSE step[<<k, h[k - 1]>>]
  <2> DEFINE first == 1 last == n + 1 base == 0
  <2>1. first \in Nat /\ last \in Nat /\ first <= last /\ base \in Nat
    OBVIOUS
  <2>2. step \in [(first .. last) \X Nat -> Nat]
    BY <1>1
  <2> HIDE DEF first, last, base
  <2>3. PICK h \in [first .. last -> Nat] : Recurs(h, first, last, base, step)
    BY <2>1, <2>2, RecursionExists
  <2> QED
    BY <2>3 DEF first, last, base, Recurs
<1>4. ASSUME NEW k \in 1 .. n + 1
      PROVE  h[k] = IF k = 1 THEN 0 ELSE h[k - 1] + v[k - 1]
  <2>1. k # 1 => h[k - 1] \in Nat
    OBVIOUS
  <2>2. h[k] = IF k = 1 THEN 0 ELSE step[<<k, h[k - 1]>>]
    BY <1>3
  <2> QED
    BY <1>2, <2>1, <2>2
<1> QED
  BY <1>4 DEF SumsTo

\* The sums so defined start at 0 and grow by one number at a time.
LEMMA SumIs ==
  ASSUME NEW n \in Nat, NEW v \in [1 .. n -> Nat], NEW h, SumsTo(h, v, n + 1)
  PROVE  IsSum(h, v, n)
<1>0. h = [k \in 1 .. n + 1 |-> IF k = 1 THEN 0 ELSE h[k - 1] + v[k - 1]]
  BY DEF SumsTo
<1> DEFINE T == {k \in Nat : k <= n => h[k + 1] \in Nat}
<1>1. h[1] = 0
  BY <1>0
<1>2. ASSUME NEW k \in 1 .. n PROVE h[k + 1] = h[k] + v[k]
  BY <1>0
<1>3. T = Nat
  <2>1. T \subseteq Nat /\ 0 \in T
    BY <1>1
  <2>2. ASSUME NEW k \in T PROVE k + 1 \in T
    <3>1. CASE k + 1 <= n
      <4>1. k + 1 \in 1 .. n /\ h[k + 1] \in Nat
        BY <3>1
      <4>2. h[(k + 1) + 1] \in Nat
        BY <4>1, <1>2
      <4> QED
        BY <4>2
    <3> QED
      BY <3>1
  <2> HIDE DEF T
  <2> QED
    BY <2>1, <2>2, FromZeroOn
<1>4. \A k \in 1 .. n + 1 : h[k] \in Nat
  <2>1. ASSUME NEW k \in 1 .. n + 1 PROVE h[k] \in Nat
    <3> DEFINE j == k - 1
    <3>0. j \in Nat
      OBVIOUS
    <3>1. j \in T
      <4> HIDE DEF T, j
      <4> QED
        BY <1>3, <3>0
    <3> QED
      BY <3>1
  <2> QED
    BY <2>1
<1>5. h \in [1 .. n + 1 -> Nat]
  BY <1>0, <1>4
<1> QED
  BY <1>1, <1>2, <1>5 DEF IsSum

\* Sums of the same numbers are the same.
LEMMA SumUnique ==
  ASSUME NEW n \in Nat, NEW m \in 0 .. n, NEW v, NEW w, NEW g, NEW h,
         IsSum(g, v, m), IsSum(h, w, n), \A k \in 1 .. m : v[k] = w[k]
  PROVE  \A k \in 1 .. m + 1 : g[k] = h[k]
<1> DEFINE T == {k \in Nat : k <= m => g[k + 1] = h[k + 1]}
<1>1. T \subseteq Nat /\ 0 \in T
  BY DEF IsSum
<1>2. ASSUME NEW k \in T PROVE k + 1 \in T
  <2>1. CASE k + 1 <= m
    <3>1. k + 1 \in 1 .. m /\ k + 1 \in 1 .. n /\ g[k + 1] = h[k + 1]
      BY <2>1
    <3>2. g[(k + 1) + 1] = h[(k + 1) + 1]
      BY <3>1 DEF IsSum
    <3> QED
      BY <3>2
  <2> QED
    BY <2>1
<1>3. T = Nat
  <2> HIDE DEF T
  <2> QED
    BY <1>1, <1>2, FromZeroOn
<1>4. ASSUME NEW k \in 1 .. m + 1 PROVE g[k] = h[k]
  <2> DEFINE j == k - 1
  <2>1. j \in Nat
    OBVIOUS
  <2>2. j \in T
    BY <1>3, <2>1
  <2> QED
    BY <2>2
<1> QED
  BY <1>4

\* No sum is below an earlier one, and each number fits under the total.
LEMMA SumGrows ==
  ASSUME NEW n \in Nat, NEW v \in [1 .. n -> Nat], NEW h, IsSum(h, v, n)
  PROVE  /\ \A i, k \in 1 .. n + 1 : i <= k => h[i] <= h[k]
         /\ \A i \in 1 .. n : h[i] + v[i] <= h[n + 1]
<1>1. ASSUME NEW i \in 1 .. n + 1, NEW k \in i .. n + 1 PROVE h[i] <= h[k]
  <2> DEFINE T == {d \in Nat : i + d <= n + 1 => h[i] <= h[i + d]}
  <2>1. T \subseteq Nat /\ 0 \in T
    BY DEF IsSum
  <2>2. ASSUME NEW d \in T PROVE d + 1 \in T
    <3>1. CASE i + (d + 1) <= n + 1
      <4>1. i + d \in 1 .. n /\ h[i] <= h[i + d]
        BY <3>1
      <4>2. h[(i + d) + 1] = h[i + d] + v[i + d] /\ v[i + d] \in Nat
        BY <4>1 DEF IsSum
      <4>3. h[i] \in Nat /\ h[i + d] \in Nat
        BY <4>1 DEF IsSum
      <4> QED
        BY <4>1, <4>2, <4>3
    <3> QED
      BY <3>1
  <2>3. T = Nat
    <3> HIDE DEF T
    <3> QED
      BY <2>1, <2>2, FromZeroOn
  <2>4. k - i \in T
    <3> DEFINE d == k - i
    <3>1. d \in Nat
      OBVIOUS
    <3> QED
      BY <2>3, <3>1
  <2> QED
    BY <2>4
<1>2. ASSUME NEW i \in 1 .. n PROVE h[i] + v[i] <= h[n + 1]
  <2>1. i + 1 \in 1 .. n + 1 /\ n + 1 \in i + 1 .. n + 1 /\ h[i + 1] = h[i] + v[i]
    BY DEF IsSum
  <2> QED
    BY <1>1, <2>1
<1> QED
  BY <1>1, <1>2

\* Every number below the sum lies within one of the summands.
LEMMA SumLocates ==
  ASSUME NEW n \in Nat, NEW v \in [1 .. n -> Nat], NEW h, IsSum(h, v, n),
         NEW p \in Nat, p < h[n + 1]
  PROVE  \E i \in 1 .. n : \E j \in 1 .. v[i] : p + 1 = h[i] + j
<1> DEFINE S == {k \in 1 .. n + 1 : p < h[k]}
<1>1. S \in SUBSET Nat /\ n + 1 \in S
  OBVIOUS
<1>2. PICK k \in S : \A y \in S : k <= y
  <2> HIDE DEF S
  <2> QED
    BY <1>1, LeastElement
<1>3. k # 1
  BY DEF IsSum
<1>4. k - 1 \in 1 .. n /\ k - 1 \notin S
  BY <1>2, <1>3
<1>5. h[k - 1] \in Nat /\ h[k - 1] <= p /\ h[(k - 1) + 1] = h[k - 1] + v[k - 1]
  BY <1>4 DEF IsSum
<1>6. v[k - 1] \in Nat /\ p < h[k - 1] + v[k - 1]
  BY <1>4, <1>5
<1> DEFINE j == p + 1 - h[k - 1]
<1>7. j \in 1 .. v[k - 1] /\ p + 1 = h[k - 1] + j
  BY <1>5, <1>6
<1> QED
  BY <1>4, <1>7

-------------------------------------------------------------------------------
(* Sequences of sequences *)

\* A joined sequence holds the one, then the other.
LEMMA Joined ==
  ASSUME NEW S, NEW c \in Seq(S), NEW d \in Seq(S)
  PROVE  /\ c \o d \in Seq(S) /\ Len(c \o d) = Len(c) + Len(d)
         /\ \A i \in 1 .. Len(c) : (c \o d)[i] = c[i]
         /\ \A i \in 1 .. Len(d) : (c \o d)[Len(c) + i] = d[i]
OBVIOUS

\* f lists what is in the n sequences of q, whose lengths are v, one after the other.
Lists(f, q, v, h, n, S) ==
  /\ f \in Seq(S) /\ Len(f) = h[n + 1]
  /\ \A i \in 1 .. n : \A j \in 1 .. v[i] : f[h[i] + j] = q[i][j]

\* What FlattenSeq joins lies, sequence by sequence, where the sums of the lengths say.
LEMMA Flattened ==
  ASSUME NEW n \in Nat \ {0}, NEW S, NEW q \in [1 .. n -> Seq(S)], NEW v, NEW h,
         IsSum(h, v, n), \A k \in 1 .. n : v[k] = Len(q[k])
  PROVE  Lists(Seqs!FlattenSeq(q), q, v, h, n, S)
<1> DEFINE flatten == CHOOSE f : f = [i \in 1 .. n |-> IF i = 1 THEN q[i] ELSE f[i - 1] \o q[i]]
<1>1. q \in Seq(Seq(S)) /\ Len(q) = n
  OBVIOUS
<1>2. Seqs!FlattenSeq(q) = flatten[n]
  BY <1>1 DEF Seqs!FlattenSeq
<1>3. flatten = [i \in 1 .. n |-> IF i = 1 THEN q[i] ELSE flatten[i - 1] \o q[i]]
  <2> DEFINE step == [x \in (1 .. n) \X Seq(S) |-> x[2] \o q[x[1]]]
  <2>1. step \in [(1 .. n) \X Seq(S) -> Seq(S)]
    OBVIOUS
  <2>2. \A k \in 1 .. n, x \in Seq(S) : step[<<k, x>>] = x \o q[k]
    OBVIOUS
  <2> HIDE DEF step
  <2>3. PICK g \in [1 .. n -> Seq(S)] : Recurs(g, 1, n, q[1], step)
    <3> DEFINE first == 1 U == Seq(S) base == q[1]
    <3>1. first \in Nat /\ n \in Nat /\ first <= n /\ base \in U /\ step \in [(first .. n) \X U -> U]
      BY <2>1
    <3> HIDE DEF first, U, base
    <3>2. PICK g \in [first .. n -> U] : Recurs(g, first, n, base, step)
      BY <3>1, RecursionExists
    <3> QED
      BY <3>2 DEF first, U, base
  <2>4. ASSUME NEW i \in 1 .. n PROVE g[i] = IF i = 1 THEN q[i] ELSE g[i - 1] \o q[i]
    <3>1. i # 1 => g[i - 1] \in Seq(S)
      OBVIOUS
    <3>2. g[i] = IF i = 1 THEN q[1] ELSE step[<<i, g[i - 1]>>]
      BY <2>3 DEF Recurs
    <3> QED
      BY <2>2, <3>1, <3>2
  <2>5. g = [i \in 1 .. n |-> IF i = 1 THEN q[i] ELSE g[i - 1] \o q[i]]
    BY <2>4
  <2> HIDE DEF step
  <2> QED
    BY <2>5, Zenon
<1> HIDE DEF flatten
<1> DEFINE Holds(k) ==
             /\ flatten[k] \in Seq(S) /\ Len(flatten[k]) = h[k + 1]
             /\ \A i \in 1 .. k : \A j \in 1 .. v[i] : flatten[k][h[i] + j] = q[i][j]
           T == {k \in Nat : k + 1 <= n => Holds(k + 1)}
<1>4. Holds(1)
  <2>1. flatten[1] = q[1] /\ 1 \in 1 .. n
    BY <1>3
  <2>2. h[1 + 1] = h[1] + v[1] /\ h[1] = 0
    BY DEF IsSum
  <2>3. q[1] \in Seq(S) /\ v[1] = Len(q[1])
    OBVIOUS
  <2> QED
    BY <2>1, <2>2, <2>3
<1>5. ASSUME NEW k \in 1 .. n - 1, Holds(k) PROVE Holds(k + 1)
  <2>0. k + 1 \in 1 .. n /\ k + 1 # 1 /\ (k + 1) - 1 = k
    OBVIOUS
  <2>1. /\ flatten[k + 1] = flatten[k] \o q[k + 1]
        /\ h[(k + 1) + 1] = h[k + 1] + v[k + 1] /\ v[k + 1] = Len(q[k + 1]) /\ q[k + 1] \in Seq(S)
    <3>1. flatten[k + 1] = flatten[k] \o q[k + 1]
      BY <1>3, <2>0
    <3>2. h[(k + 1) + 1] = h[k + 1] + v[k + 1] /\ v[k + 1] = Len(q[k + 1]) /\ q[k + 1] \in Seq(S)
      BY <2>0 DEF IsSum
    <3> QED
      BY <3>1, <3>2
  <2> DEFINE begin == flatten[k] end == q[k + 1]
  <2>a. /\ begin \o end \in Seq(S) /\ Len(begin \o end) = Len(begin) + Len(end)
        /\ \A i \in 1 .. Len(begin) : (begin \o end)[i] = begin[i]
        /\ \A i \in 1 .. Len(end) : (begin \o end)[Len(begin) + i] = end[i]
    <3>1. begin \in Seq(S) /\ end \in Seq(S)
      BY <1>5, <2>1
    <3> HIDE DEF begin, end
    <3> QED
      BY <3>1, Joined
  <2>2. flatten[k + 1] \in Seq(S) /\ Len(flatten[k + 1]) = h[(k + 1) + 1]
    <3>1. flatten[k] \in Seq(S) /\ Len(flatten[k]) = h[k + 1]
      BY <1>5
    <3>2. /\ flatten[k] \o q[k + 1] \in Seq(S)
          /\ Len(flatten[k] \o q[k + 1]) = h[k + 1] + v[k + 1]
      BY <2>1, <3>1, <2>a
    <3> QED
      BY <2>1, <3>2
  <2>3. ASSUME NEW i \in 1 .. k + 1, NEW j \in 1 .. v[i]
        PROVE  flatten[k + 1][h[i] + j] = q[i][j]
    <3>1. i \in 1 .. n /\ v[i] \in Nat /\ h[i] \in Nat /\ h[i + 1] = h[i] + v[i]
      BY DEF IsSum
    <3>2. CASE i = k + 1
      <4>1. flatten[k] \in Seq(S) /\ Len(flatten[k]) = h[i] /\ j \in 1 .. Len(q[k + 1])
        BY <1>5, <2>1, <3>2
      <4>2. (flatten[k] \o q[k + 1])[Len(flatten[k]) + j] = q[k + 1][j]
        BY <2>1, <4>1, <2>a
      <4> QED
        BY <2>1, <3>2, <4>1, <4>2
    <3>3. CASE i <= k
      <4>1. h[i + 1] <= h[k + 1]
        <5>1. \A l \in 1 .. n : v[l] \in Nat
          OBVIOUS
        <5> DEFINE w == [l \in 1 .. n |-> v[l]]
        <5>2. w \in [1 .. n -> Nat] /\ IsSum(h, w, n)
          BY <5>1 DEF IsSum
        <5> HIDE DEF w
        <5>3. i + 1 \in 1 .. n + 1 /\ k + 1 \in 1 .. n + 1 /\ i + 1 <= k + 1 /\ n \in Nat
          BY <3>3
        <5> QED
          BY <5>2, <5>3, SumGrows
      <4>0. flatten[k] \in Seq(S) /\ Len(flatten[k]) = h[k + 1] /\ h[k + 1] \in Nat
        BY <1>5, <2>0 DEF IsSum
      <4>2. h[i] + j \in 1 .. Len(flatten[k])
        <5>1. \A a, b, c, l, m \in Nat : b = a + l /\ b <= c /\ 1 <= m /\ m <= l => a + m \in 1 .. c
          OBVIOUS
        <5>2. h[i + 1] \in Nat /\ j \in Nat /\ 1 <= j /\ j <= v[i]
          BY <3>1
        <5> QED
          BY <3>1, <4>0, <4>1, <5>1, <5>2
      <4>3. (flatten[k] \o q[k + 1])[h[i] + j] = flatten[k][h[i] + j]
        BY <2>1, <4>0, <4>2, <2>a
      <4>4. flatten[k + 1][h[i] + j] = flatten[k][h[i] + j]
        BY <2>1, <4>3
      <4>5. flatten[k][h[i] + j] = q[i][j]
        BY <1>5, <3>3
      <4> QED
        BY <4>4, <4>5
    <3> QED
      BY <3>2, <3>3
  <2> QED
    BY <2>2, <2>3
<1>6. T = Nat
  <2>1. T \subseteq Nat /\ 0 \in T
    BY <1>4
  <2>2. ASSUME NEW k \in T PROVE k + 1 \in T
    <3>1. CASE (k + 1) + 1 <= n
      <4>1. k + 1 \in 1 .. n - 1 /\ Holds(k + 1)
        BY <3>1
      <4> HIDE DEF Holds
      <4>2. Holds((k + 1) + 1)
        BY <4>1, <1>5
      <4> QED
        BY <4>2
    <3> QED
      BY <3>1
  <2> HIDE DEF T
  <2> QED
    BY <2>1, <2>2, FromZeroOn
<1>7. Holds(n)
  <2>1. n - 1 \in T /\ (n - 1) + 1 = n
    BY <1>6
  <2> HIDE DEF Holds
  <2> QED
    BY <2>1
<1> QED
  BY <1>2, <1>7 DEF Lists

-------------------------------------------------------------------------------
(* Samples *)

\* Slots after a compaction.
Full == [owner : Handles, merged : BOOLEAN, length : Nat, spacing : Nat,
         resolution : Nat \ {0, 1}, color : Nat]

Resolutions(s) == [k \in 1 .. Len(s) |-> s[k].resolution]

\* The first sample of every slot, and the number of all samples.
First(s) == [k \in 1 .. Len(s) + 1 |-> SumBefore(s, k, ResolutionOf)]

\* A sum taken only so far has the value that the whole sum has there.
LEMMA SumTo ==
  ASSUME NEW n \in Nat, NEW v \in [1 .. n -> Nat], NEW i \in 1 .. n + 1
  PROVE  /\ \E g : SumsTo(g, v, i)
         /\ \A g, h : SumsTo(g, v, i) /\ IsSum(h, v, n) => g[i] = h[i]
<1> DEFINE m == i - 1 w == [k \in 1 .. m |-> v[k]]
<1>1. m \in Nat /\ m \in 0 .. n /\ m + 1 = i
  OBVIOUS
<1>2. w \in [1 .. m -> Nat] /\ \A k \in 1 .. m : w[k] = v[k]
  OBVIOUS
<1> HIDE DEF w, m
<1>3. \A k \in 1 .. m + 1 : k # 1 => k - 1 \in 1 .. m
  BY <1>1
<1>4. \E g : SumsTo(g, v, i)
  <2>0. PICK g \in [1 .. m + 1 -> Nat] : SumsTo(g, w, m + 1)
    BY <1>1, <1>2, SumExists
  <2>1. g = [k \in 1 .. m + 1 |-> IF k = 1 THEN 0 ELSE g[k - 1] + w[k - 1]]
    BY <2>0 DEF SumsTo
  <2>2. \A k \in 1 .. i : g[k] = IF k = 1 THEN 0 ELSE g[k - 1] + v[k - 1]
    BY <1>1, <1>2, <1>3, <2>1
  <2>3. g \in [1 .. i -> Nat]
    BY <1>1, <2>1
  <2>4. g = [k \in 1 .. i |-> IF k = 1 THEN 0 ELSE g[k - 1] + v[k - 1]]
    BY <2>2, <2>3
  <2> QED
    BY <2>4 DEF SumsTo
<1>5. ASSUME NEW g, NEW h, SumsTo(g, v, i), IsSum(h, v, n)
      PROVE  g[i] = h[i]
  <2>0. g = [k \in 1 .. i |-> IF k = 1 THEN 0 ELSE g[k - 1] + v[k - 1]]
    BY <1>5 DEF SumsTo
  <2>1. \A k \in 1 .. m + 1 : g[k] = IF k = 1 THEN 0 ELSE g[k - 1] + w[k - 1]
    BY <1>1, <1>2, <1>3, <2>0
  <2>2. g = [k \in 1 .. m + 1 |-> g[k]]
    BY <1>1, <2>0
  <2>3. g = [k \in 1 .. m + 1 |-> IF k = 1 THEN 0 ELSE g[k - 1] + w[k - 1]]
    BY <2>1, <2>2
  <2>4. IsSum(g, w, m)
    BY <1>1, <1>2, <2>3, SumIs DEF SumsTo
  <2>5. \A k \in 1 .. m + 1 : g[k] = h[k]
    BY <1>1, <1>2, <1>5, <2>4, SumUnique
  <2> QED
    BY <1>1, <2>5
<1> QED
  BY <1>4, <1>5

LEMMA SumOfAll ==
  ASSUME NEW n \in Nat, NEW v \in [1 .. n -> Nat]
  PROVE  \E h : IsSum(h, v, n)
BY SumExists, SumIs

\* The first sample of each slot is the sum of the resolutions before it.
LEMMA FirstIs ==
  ASSUME NEW s, Len(s) \in Nat, \A k \in 1 .. Len(s) : s[k].resolution \in Nat
  PROVE  IsSum(First(s), Resolutions(s), Len(s))
<1> DEFINE n == Len(s) v == Resolutions(s)
<1>1. v \in [1 .. n -> Nat] /\ \A k \in 1 .. n : v[k] = s[k].resolution
  BY DEF Resolutions
<1>2. PICK h : IsSum(h, v, n)
  BY <1>1, SumOfAll
<1>3. ASSUME NEW i \in 1 .. n + 1 PROVE SumBefore(s, i, ResolutionOf) = h[i]
  <2> DEFINE sum == CHOOSE g : g = [k \in 1 .. i |-> IF k = 1 THEN 0
                                                    ELSE g[k - 1] + s[k - 1].resolution]
  <2>1. SumBefore(s, i, ResolutionOf) = sum[i]
    BY DEF SumBefore, ResolutionOf
  <2>2. PICK g : SumsTo(g, v, i)
    BY <1>1, SumTo
  <2>3. g = [k \in 1 .. i |-> IF k = 1 THEN 0 ELSE g[k - 1] + s[k - 1].resolution]
    <3>1. \A k \in 1 .. i : k # 1 => v[k - 1] = s[k - 1].resolution
      BY <1>1
    <3>2. g = [k \in 1 .. i |-> IF k = 1 THEN 0 ELSE g[k - 1] + v[k - 1]]
      BY <2>2 DEF SumsTo
    <3> HIDE DEF v
    <3>3. \A k \in 1 .. i : g[k] = IF k = 1 THEN 0 ELSE g[k - 1] + s[k - 1].resolution
      BY <3>1, <3>2
    <3>4. g = [k \in 1 .. i |-> g[k]]
      BY <3>2
    <3> QED
      BY <3>3, <3>4
  <2>4. sum = [k \in 1 .. i |-> IF k = 1 THEN 0 ELSE sum[k - 1] + s[k - 1].resolution]
    BY <2>3, Zenon
  <2> HIDE DEF sum
  <2>5. SumsTo(sum, v, i)
    <3>1. \A k \in 1 .. i : k # 1 => v[k - 1] = s[k - 1].resolution
      BY <1>1
    <3> HIDE DEF v
    <3>2. \A k \in 1 .. i : sum[k] = IF k = 1 THEN 0 ELSE sum[k - 1] + v[k - 1]
      BY <3>1, <2>4
    <3>3. sum = [k \in 1 .. i |-> sum[k]]
      BY <2>4
    <3> QED
      BY <3>2, <3>3 DEF SumsTo
  <2>6. sum[i] = h[i]
    <3>1. n \in Nat /\ v \in [1 .. n -> Nat] /\ i \in 1 .. n + 1
      BY <1>1
    <3> HIDE DEF n, v
    <3> QED
      BY <1>2, <2>5, <3>1, SumTo
  <2> QED
    BY <2>1, <2>6
<1>4. First(s) = [k \in 1 .. n + 1 |-> h[k]]
  BY <1>3 DEF First
<1> QED
  BY <1>2, <1>4 DEF IsSum

\* What the slots of a renderer without gaps come to: samples, ranges, total.
LEMMA SlotsAre ==
  ASSUME NEW s \in Seq(Full)
  PROVE  /\ Len(s) \in Nat /\ DOMAIN s = 1 .. Len(s)
         /\ \A k \in 1 .. Len(s) : s[k] \in Full
         /\ IsSum(First(s), Resolutions(s), Len(s))
         /\ Resolutions(s) \in [1 .. Len(s) -> Nat]
         /\ \A k \in 1 .. Len(s) : Resolutions(s)[k] = s[k].resolution
         /\ TotalPoints(s) = First(s)[Len(s) + 1]
         /\ \A k \in 1 .. Len(s) :
              SampleRange(s, k) = [first |-> First(s)[k], last |-> First(s)[k] + s[k].resolution - 1]
<1>1. Len(s) \in Nat /\ DOMAIN s = 1 .. Len(s) /\ \A k \in 1 .. Len(s) : s[k] \in Full
  OBVIOUS
<1>2. \A k \in 1 .. Len(s) : s[k].resolution \in Nat
  BY <1>1 DEF Full
<1>3. IsSum(First(s), Resolutions(s), Len(s))
  BY <1>1, <1>2, FirstIs
<1>4. /\ Resolutions(s) \in [1 .. Len(s) -> Nat]
      /\ \A k \in 1 .. Len(s) : Resolutions(s)[k] = s[k].resolution
  BY <1>2 DEF Resolutions
<1>5. TotalPoints(s) = First(s)[Len(s) + 1]
  BY <1>1 DEF First, TotalPoints
<1>6. \A k \in 1 .. Len(s) :
        SampleRange(s, k) = [first |-> First(s)[k], last |-> First(s)[k] + s[k].resolution - 1]
  BY <1>1 DEF First, SampleRange
<1> QED
  BY <1>1, <1>3, <1>4, <1>5, <1>6

MapEntry == [curve : Nat, prev : BOOLEAN, next : BOOLEAN]

\* The sample map holds for every sample of a slot its curve and its neighbours.
LEMMA MapIs ==
  ASSUME NEW s \in Seq(Full), s # <<>>
  PROVE  /\ SampleMap(s) \in Seq(MapEntry) /\ Len(SampleMap(s)) = TotalPoints(s)
         /\ \A i \in 1 .. Len(s) : \A j \in 1 .. s[i].resolution :
              SampleMap(s)[First(s)[i] + j] =
                [curve |-> i,
                 prev  |-> j < s[i].resolution /\ (j > 1 \/ ~IsChainStart(s, i)),
                 next  |-> \/ j + 1 < s[i].resolution
                           \/ /\ j + 1 = s[i].resolution
                              /\ i < Len(s)
                              /\ ~IsChainStart(s, i + 1)]
<1> DEFINE n == Len(s)
           samples(i) ==
             [j \in 1 .. s[i].resolution |->
                [curve |-> i,
                 prev  |-> j < s[i].resolution /\ (j > 1 \/ ~IsChainStart(s, i)),
                 next  |-> \/ j + 1 < s[i].resolution
                           \/ /\ j + 1 = s[i].resolution
                              /\ i < Len(s)
                              /\ ~IsChainStart(s, i + 1)]]
           q == [i \in 1 .. n |-> samples(i)]
<1>1. /\ n \in Nat /\ DOMAIN s = 1 .. n /\ IsSum(First(s), Resolutions(s), n)
      /\ TotalPoints(s) = First(s)[n + 1]
      /\ \A k \in 1 .. n : Resolutions(s)[k] = s[k].resolution /\ s[k] \in Full
  BY SlotsAre
<1>2. n \in Nat \ {0}
  BY <1>1
<1>3. ASSUME NEW i \in 1 .. n
      PROVE  samples(i) \in Seq(MapEntry) /\ Len(samples(i)) = s[i].resolution
  <2>1. s[i].resolution \in Nat /\ i \in Nat
    BY <1>1 DEF Full
  <2>2. samples(i) \in [1 .. s[i].resolution -> MapEntry]
    BY <2>1 DEF MapEntry
  <2> HIDE DEF samples
  <2> QED
    BY <2>1, <2>2
<1>4. SampleMap(s) = Seqs!FlattenSeq(q)
  BY <1>1 DEF SampleMap
<1> HIDE DEF samples
<1>5. q \in [1 .. n -> Seq(MapEntry)] /\ \A k \in 1 .. n : Resolutions(s)[k] = Len(q[k]) /\ q[k] = samples(k)
  BY <1>1, <1>3
<1> HIDE DEF q, n
<1>6. /\ SampleMap(s) \in Seq(MapEntry) /\ Len(SampleMap(s)) = First(s)[n + 1]
      /\ \A i \in 1 .. n : \A j \in 1 .. Resolutions(s)[i] : SampleMap(s)[First(s)[i] + j] = q[i][j]
  <2>1. Lists(Seqs!FlattenSeq(q), q, Resolutions(s), First(s), n, MapEntry)
    <3> DEFINE v == Resolutions(s) h == First(s) S == MapEntry
    <3>1. n \in Nat \ {0} /\ q \in [1 .. n -> Seq(S)] /\ IsSum(h, v, n) /\ \A k \in 1 .. n : v[k] = Len(q[k])
      BY <1>1, <1>2, <1>5
    <3> HIDE DEF v, h, S
    <3>2. Lists(Seqs!FlattenSeq(q), q, v, h, n, S)
      BY <3>1, Flattened
    <3> QED
      BY <3>2 DEF v, h, S
  <2> QED
    BY <1>4, <2>1 DEF Lists
<1>7. ASSUME NEW i \in 1 .. n, NEW j \in 1 .. s[i].resolution
      PROVE  SampleMap(s)[First(s)[i] + j] = samples(i)[j]
  BY <1>1, <1>5, <1>6
<1> QED
  BY <1>1, <1>6, <1>7 DEF samples, n

-------------------------------------------------------------------------------
(* Capacities and bounds *)

\* A power of two is reached that the request does not exceed.
LEMMA PowerReaches ==
  ASSUME NEW required \in Nat
  PROVE  /\ NextPowerOfTwo(required) \in Nat \ {0}
         /\ NextPowerOfTwo(required) >= required
<1> DEFINE doubled == CHOOSE d : d = [k \in 0 .. required |->
                        IF k = 0 THEN 1
                        ELSE IF d[k - 1] < required THEN 2 * d[k - 1] ELSE d[k - 1]]
<1>1. NextPowerOfTwo(required) = doubled[required]
  BY DEF NextPowerOfTwo
<1>2. doubled = [k \in 0 .. required |->
                   IF k = 0 THEN 1
                   ELSE IF doubled[k - 1] < required THEN 2 * doubled[k - 1] ELSE doubled[k - 1]]
  <2> DEFINE step == [x \in (0 .. required) \X Nat |-> IF x[2] < required THEN 2 * x[2] ELSE x[2]]
  <2>1. step \in [(0 .. required) \X Nat -> Nat]
    OBVIOUS
  <2>2. \A k \in 0 .. required, x \in Nat : step[<<k, x>>] = IF x < required THEN 2 * x ELSE x
    OBVIOUS
  <2> HIDE DEF step
  <2>3. PICK g \in [0 .. required -> Nat] : Recurs(g, 0, required, 1, step)
    <3> DEFINE first == 0 base == 1
    <3>1. first \in Nat /\ first <= required /\ base \in Nat /\ step \in [(first .. required) \X Nat -> Nat]
      BY <2>1
    <3> HIDE DEF first, base
    <3>2. PICK g \in [first .. required -> Nat] : Recurs(g, first, required, base, step)
      BY <3>1, RecursionExists
    <3> QED
      BY <3>2 DEF first, base
  <2>4. ASSUME NEW k \in 0 .. required
        PROVE  g[k] = IF k = 0 THEN 1 ELSE IF g[k - 1] < required THEN 2 * g[k - 1] ELSE g[k - 1]
    <3>1. k # 0 => g[k - 1] \in Nat
      OBVIOUS
    <3>2. g[k] = IF k = 0 THEN 1 ELSE step[<<k, g[k - 1]>>]
      BY <2>3 DEF Recurs
    <3> QED
      BY <2>2, <3>1, <3>2
  <2>5. g = [k \in 0 .. required |->
               IF k = 0 THEN 1 ELSE IF g[k - 1] < required THEN 2 * g[k - 1] ELSE g[k - 1]]
    BY <2>4
  <2> QED
    BY <2>5, Zenon
<1> HIDE DEF doubled
<1> DEFINE Holds(k) == /\ doubled[k] \in Nat \ {0}
                       /\ doubled[k] >= k + 1 \/ doubled[k] >= required
           T == {k \in Nat : k <= required => Holds(k)}
<1>3. T \subseteq Nat /\ 0 \in T
  <2>1. doubled[0] = 1
    BY <1>2
  <2> QED
    BY <2>1
<1>4. ASSUME NEW k \in T PROVE k + 1 \in T
  <2>1. CASE k + 1 <= required
    <3>1. doubled[k + 1] = IF doubled[k] < required THEN 2 * doubled[k] ELSE doubled[k]
      BY <1>2, <2>1
    <3>2. Holds(k)
      BY <2>1
    <3> QED
      BY <3>1, <3>2
  <2> QED
    BY <2>1
<1>5. \A k \in Nat : k \in T
  <2> HIDE DEF T
  <2> QED
    BY <1>3, <1>4, FromZeroOn
<1> QED
  BY <1>1, <1>5

\* A buffer is reallocated no smaller than what was asked for.
LEMMA CapacityFits ==
  ASSUME NEW allocated \in Nat, NEW required \in Nat
  PROVE  /\ FitCapacity(allocated, required) \in Nat \ {0}
         /\ FitCapacity(allocated, required) >= required
BY PowerReaches DEF FitCapacity

\* The bound on the centres of a curve.
Capped(c) ==
  LET centers == IF c.spacing > 0 THEN c.length \div c.spacing + 1 ELSE 0
  IN  IF centers < MaxPatternCount THEN centers ELSE MaxPatternCount

CappedOf(s) == [k \in 1 .. Len(s) |-> Capped(s[k])]

\* The CPU's bound is the sum of what the slots own at most, cut by the cap.
LEMMA PatternBoundIs ==
  ASSUME NEW s \in Seq(Full)
  PROVE  \E h : /\ IsSum(h, CappedOf(s), Len(s))
                /\ PatternBound(s) = IF h[Len(s) + 1] < MaxPatternCount THEN h[Len(s) + 1]
                                     ELSE MaxPatternCount
<1> DEFINE n == Len(s) v == CappedOf(s) i == n + 1
           sum == CHOOSE g : g = [k \in 1 .. i |-> IF k = 1 THEN 0 ELSE g[k - 1] + Capped(s[k - 1])]
<1>1. n \in Nat /\ \A k \in 1 .. n : s[k] \in Full
  BY SlotsAre
<1>2. v \in [1 .. n -> Nat] /\ \A k \in 1 .. n : v[k] = Capped(s[k])
  <2>1. ASSUME NEW c \in Full PROVE Capped(c) \in Nat
    <3>1. c.spacing \in Nat /\ c.length \in Nat /\ MaxPatternCount \in Nat
      BY BoundsAssumption DEF Full
    <3>2. c.spacing > 0 => c.length \div c.spacing + 1 \in Nat
      BY <3>1
    <3> QED
      BY <3>1, <3>2 DEF Capped
  <2> QED
    BY <1>1, <2>1 DEF CappedOf
<1>3. PatternBound(s) = IF sum[i] < MaxPatternCount THEN sum[i] ELSE MaxPatternCount
  BY DEF PatternBound, SumBefore, Capped
<1>4. PICK g : SumsTo(g, v, i)
  BY <1>1, <1>2, SumTo
<1>5. sum = [k \in 1 .. i |-> IF k = 1 THEN 0 ELSE sum[k - 1] + Capped(s[k - 1])]
  <2>1. \A k \in 1 .. i : k # 1 => v[k - 1] = Capped(s[k - 1])
    BY <1>1, <1>2
  <2>2. g = [k \in 1 .. i |-> IF k = 1 THEN 0 ELSE g[k - 1] + v[k - 1]]
    BY <1>4 DEF SumsTo
  <2> HIDE DEF v, i
  <2>3. \A k \in 1 .. i : g[k] = IF k = 1 THEN 0 ELSE g[k - 1] + Capped(s[k - 1])
    BY <2>1, <2>2
  <2>4. g = [k \in 1 .. i |-> g[k]]
    BY <2>2
  <2>5. g = [k \in 1 .. i |-> IF k = 1 THEN 0 ELSE g[k - 1] + Capped(s[k - 1])]
    BY <2>3, <2>4
  <2> QED
    BY <2>5, Zenon
<1> HIDE DEF sum
<1>6. SumsTo(sum, v, n + 1)
  <2>1. \A k \in 1 .. i : k # 1 => v[k - 1] = Capped(s[k - 1])
    BY <1>1, <1>2
  <2> HIDE DEF v
  <2>2. \A k \in 1 .. i : sum[k] = IF k = 1 THEN 0 ELSE sum[k - 1] + v[k - 1]
    BY <1>5, <2>1
  <2>3. sum = [k \in 1 .. i |-> sum[k]]
    BY <1>5
  <2> QED
    BY <2>2, <2>3 DEF SumsTo
<1>7. IsSum(sum, v, n)
  <2> HIDE DEF v, n
  <2> QED
    BY <1>1, <1>2, <1>6, SumIs
<1> QED
  BY <1>3, <1>7

\* Slots that a setter of anything but resolution and merged leaves behind lie on
\* the same samples.
SameLayout(s, t) ==
  /\ Len(s) = Len(t)
  /\ \A k \in 1 .. Len(s) : s[k].resolution = t[k].resolution /\ s[k].merged = t[k].merged

\* A slot's length, colour and spacing do not move its samples.
LEMMA SamplesAreThoseOf ==
  ASSUME NEW s \in Seq(Full), NEW t \in Seq(Full), SameLayout(s, t)
  PROVE  /\ First(s) = First(t)
         /\ TotalPoints(s) = TotalPoints(t)
         /\ \A k \in 1 .. Len(s) : SampleRange(s, k) = SampleRange(t, k)
         /\ SampleMap(s) = SampleMap(t)
         /\ ChainBegins(s) = ChainBegins(t)
<1> DEFINE n == Len(s)
<1>1. /\ n \in Nat /\ Len(t) = n /\ DOMAIN s = 1 .. n /\ DOMAIN t = 1 .. n
      /\ \A k \in 1 .. n : s[k].resolution = t[k].resolution /\ s[k].merged = t[k].merged
  BY DEF SameLayout
<1>2. /\ IsSum(First(s), Resolutions(s), n) /\ IsSum(First(t), Resolutions(t), n)
      /\ \A k \in 1 .. n : Resolutions(s)[k] = Resolutions(t)[k]
      /\ TotalPoints(s) = First(s)[n + 1] /\ TotalPoints(t) = First(t)[n + 1]
      /\ \A k \in 1 .. n :
           /\ SampleRange(s, k) = [first |-> First(s)[k], last |-> First(s)[k] + s[k].resolution - 1]
           /\ SampleRange(t, k) = [first |-> First(t)[k], last |-> First(t)[k] + t[k].resolution - 1]
  BY <1>1, SlotsAre
<1>3. First(s) = First(t)
  <2> DEFINE g == First(s) h == First(t) v == Resolutions(s) w == Resolutions(t)
  <2>1. IsSum(g, v, n) /\ IsSum(h, w, n) /\ (\A k \in 1 .. n : v[k] = w[k]) /\ n \in Nat /\ n \in 0 .. n
    BY <1>1, <1>2
  <2> HIDE DEF g, h, v, w, n
  <2>2. \A k \in 1 .. n + 1 : g[k] = h[k]
    BY <2>1, SumUnique
  <2> QED
    BY <2>1, <2>2 DEF IsSum, g, h
<1>4. \A k \in 1 .. n : SampleRange(s, k) = SampleRange(t, k)
  BY <1>1, <1>2, <1>3
<1>5. \A k \in 1 .. n : IsChainStart(s, k) = IsChainStart(t, k)
  BY <1>1 DEF IsChainStart
<1>6. ChainBegins(s) = ChainBegins(t)
  <2>1. {k \in DOMAIN s : IsChainStart(s, k)} = {k \in DOMAIN t : IsChainStart(t, k)}
    BY <1>1, <1>5
  <2> QED
    BY <1>1, <1>4, <2>1 DEF ChainBegins
<1>7. SampleMap(s) = SampleMap(t)
  <2> DEFINE samples(u, i) ==
             [j \in 1 .. u[i].resolution |->
                [curve |-> i,
                 prev  |-> j < u[i].resolution /\ (j > 1 \/ ~IsChainStart(u, i)),
                 next  |-> \/ j + 1 < u[i].resolution
                           \/ /\ j + 1 = u[i].resolution
                              /\ i < Len(u)
                              /\ ~IsChainStart(u, i + 1)]]
             q(u) == [i \in DOMAIN u |-> samples(u, i)]
  <2>1. SampleMap(s) = Seqs!FlattenSeq(q(s)) /\ SampleMap(t) = Seqs!FlattenSeq(q(t))
    BY DEF SampleMap
  <2>2. ASSUME NEW i \in 1 .. n PROVE samples(s, i) = samples(t, i)
    <3>1. s[i].resolution = t[i].resolution /\ IsChainStart(s, i) = IsChainStart(t, i)
          /\ (i < n => IsChainStart(s, i + 1) = IsChainStart(t, i + 1))
      BY <1>1, <1>5
    <3> QED
      BY <1>1, <3>1
  <2> HIDE DEF samples
  <2>3. q(s) = q(t)
    BY <1>1, <2>2
  <2> HIDE DEF q
  <2> QED
    BY <2>1, <2>3
<1> QED
  BY <1>2, <1>3, <1>4, <1>6, <1>7

\* Where a chain goes on, as the map and as the picture put it.
LEMMA ChainsGoOn ==
  ASSUME NEW s \in Seq(Full), NEW i \in 1 .. Len(s)
  PROVE  ContinuesChain(s, i) <=> ~IsChainStart(s, i)
<1>1. /\ Len(s) \in Nat /\ \A k \in 1 .. Len(s) : s[k] \in Full
  BY SlotsAre
<1>2. \A k \in 1 .. Len(s) : s[k].owner # Nobody
  BY <1>1, HandlesAssumption DEF Full
<1> QED
  BY <1>1, <1>2 DEF ContinuesChain, IsChainStart

\* Buffers of a sequence of slots: the curves', the samples'.
CurvesAreOf(gpu, s) ==
  /\ gpu.points = [i \in DOMAIN s |-> s[i].length]
  /\ gpu.colors = [i \in DOMAIN s |-> s[i].color]
  /\ gpu.styles = [i \in DOMAIN s |-> s[i].spacing]

SamplesAreOf(gpu, s) ==
  /\ gpu.ranges = [i \in DOMAIN s |-> SampleRange(s, i)]
  /\ gpu.map = SampleMap(s)
  /\ gpu.begins = ChainBegins(s)

\* What the map says of the j-th sample of curve i.
EntryOf(s, i, j) ==
  [curve |-> i,
   prev  |-> j < s[i].resolution /\ (j > 1 \/ ~IsChainStart(s, i)),
   next  |-> \/ j + 1 < s[i].resolution
             \/ /\ j + 1 = s[i].resolution
                /\ i < Len(s)
                /\ ~IsChainStart(s, i + 1)]

\* Sample First(s)[i] + j - 1 is the j-th of curve i; there are no others.
LEMMA SamplesOfCurves ==
  ASSUME NEW s \in Seq(Full), s # <<>>, NEW gpu, SamplesAreOf(gpu, s)
  PROVE  /\ \A i \in 1 .. Len(s), j \in Nat :
              j \in 1 .. s[i].resolution =>
                /\ First(s)[i] + j - 1 \in 0 .. TotalPoints(s) - 1
                /\ gpu.map[(First(s)[i] + j - 1) + 1] = EntryOf(s, i, j)
         /\ \A p \in 0 .. TotalPoints(s) - 1 :
              \E i \in 1 .. Len(s) : \E j \in 1 .. s[i].resolution : p = First(s)[i] + j - 1
         /\ \A i \in 1 .. Len(s) :
              /\ gpu.ranges[i] = [first |-> First(s)[i], last |-> First(s)[i] + s[i].resolution - 1]
              /\ First(s)[i] \in Nat /\ First(s)[i + 1] = First(s)[i] + s[i].resolution
              /\ s[i] \in Full /\ s[i].resolution \in Nat \ {0, 1}
<1> DEFINE n == Len(s) h == First(s) v == Resolutions(s)
<1>1. /\ n \in Nat /\ DOMAIN s = 1 .. n /\ \A k \in 1 .. n : s[k] \in Full
      /\ IsSum(h, v, n) /\ v \in [1 .. n -> Nat] /\ \A k \in 1 .. n : v[k] = s[k].resolution
      /\ TotalPoints(s) = h[n + 1]
      /\ \A k \in 1 .. n : SampleRange(s, k) = [first |-> h[k], last |-> h[k] + s[k].resolution - 1]
  BY SlotsAre
<1>2. ASSUME NEW i \in 1 .. n
      PROVE  /\ gpu.ranges[i] = [first |-> h[i], last |-> h[i] + s[i].resolution - 1]
             /\ h[i] \in Nat /\ h[i + 1] = h[i] + s[i].resolution
             /\ s[i] \in Full /\ s[i].resolution \in Nat \ {0, 1}
  <2>1. gpu.ranges[i] = SampleRange(s, i)
    BY <1>1 DEF SamplesAreOf
  <2>2. h[i] \in Nat /\ h[i + 1] = h[i] + v[i]
    BY <1>1 DEF IsSum
  <2>3. s[i] \in Full /\ s[i].resolution \in Nat \ {0, 1}
    BY <1>1 DEF Full
  <2> QED
    BY <1>1, <2>1, <2>2, <2>3
<1>3. h[n + 1] \in Nat /\ \A i \in 1 .. n : h[i] + v[i] <= h[n + 1]
  <2>1. h[n + 1] \in Nat
    BY <1>1 DEF IsSum
  <2> HIDE DEF n, h, v
  <2> QED
    BY <1>1, <2>1, SumGrows
<1>4. ASSUME NEW i \in 1 .. n, NEW j \in 1 .. s[i].resolution
      PROVE  h[i] + j - 1 \in 0 .. TotalPoints(s) - 1 /\ (h[i] + j - 1) + 1 = h[i] + j
  <2>1. /\ h[i] \in Nat /\ s[i].resolution \in Nat \ {0, 1}
        /\ h[n + 1] \in Nat /\ h[i] + s[i].resolution <= h[n + 1] /\ TotalPoints(s) = h[n + 1]
    BY <1>1, <1>2, <1>3
  <2> HIDE DEF n, h, v
  <2> QED
    BY <2>1
<1>5. ASSUME NEW p \in 0 .. TotalPoints(s) - 1
      PROVE  \E i \in 1 .. n : \E j \in 1 .. s[i].resolution : p = h[i] + j - 1
  <2>1. p \in Nat /\ p < h[n + 1]
    BY <1>1, <1>3
  <2>2. PICK i \in 1 .. n : \E j \in 1 .. v[i] : p + 1 = h[i] + j
    <3>1. n \in Nat /\ v \in [1 .. n -> Nat] /\ IsSum(h, v, n)
      BY <1>1
    <3> HIDE DEF n, h, v
    <3> QED
      BY <2>1, <3>1, SumLocates
  <2>3. PICK j \in 1 .. v[i] : p + 1 = h[i] + j
    BY <2>2
  <2>4. v[i] = s[i].resolution /\ h[i] \in Nat /\ v[i] \in Nat
    BY <1>1, <1>2
  <2>5. j \in 1 .. s[i].resolution /\ p = h[i] + j - 1
    BY <2>1, <2>3, <2>4
  <2> QED
    BY <2>5
<1>6. \A i \in 1 .. n : \A j \in 1 .. s[i].resolution :
        gpu.map[h[i] + j] = EntryOf(s, i, j)
  BY MapIs DEF SamplesAreOf, EntryOf
<1> HIDE DEF h, v
<1>7. \A i \in 1 .. n, j \in Nat : j \in 1 .. s[i].resolution =>
                    /\ h[i] + j - 1 \in 0 .. TotalPoints(s) - 1
                    /\ gpu.map[(h[i] + j - 1) + 1] = EntryOf(s, i, j)
  BY <1>4, <1>6
<1> QED
  BY <1>2, <1>5, <1>7 DEF h

\* The range of a curve, as the GPU reads it.
LEMMA CurveRange ==
  ASSUME NEW s \in Seq(Full), s # <<>>, NEW gpu, SamplesAreOf(gpu, s), NEW i \in 1 .. Len(s)
  PROVE  /\ gpu.ranges[i].first = First(s)[i]
         /\ gpu.ranges[i].last = First(s)[i] + s[i].resolution - 1
         /\ First(s)[i] \in Nat /\ First(s)[i + 1] = First(s)[i] + s[i].resolution
         /\ s[i].resolution \in Nat \ {0, 1}
<1>1. gpu.ranges[i] = [first |-> First(s)[i], last |-> First(s)[i] + s[i].resolution - 1]
  BY SamplesOfCurves
<1> QED
  BY <1>1, SamplesOfCurves

\* The entry of a curve's j-th sample, as the GPU reads it.
LEMMA SampleEntry ==
  ASSUME NEW s \in Seq(Full), s # <<>>, NEW gpu, SamplesAreOf(gpu, s), NEW i \in 1 .. Len(s),
         NEW j \in 1 .. s[i].resolution, NEW p, p = First(s)[i] + j - 1
  PROVE  p \in 0 .. TotalPoints(s) - 1 /\ gpu.map[p + 1] = EntryOf(s, i, j)
<1>1. j \in Nat
  BY CurveRange
<1> QED
  BY <1>1, SamplesOfCurves

\* Every sample is one of some curve.
LEMMA SampleOfSome ==
  ASSUME NEW s \in Seq(Full), s # <<>>, NEW gpu, SamplesAreOf(gpu, s), NEW p \in 0 .. TotalPoints(s) - 1
  PROVE  \E i \in 1 .. Len(s) : \E j \in 1 .. s[i].resolution : p = First(s)[i] + j - 1
BY SamplesOfCurves

-------------------------------------------------------------------------------
(* Segments *)

\* The segment that starts at a sample, as Segments has it.
SegmentOf(gpu, p, curve) ==
  [start   |-> Sample(gpu, curve, p),
   length  |-> gpu.points[curve],
   color   |-> gpu.colors[curve],
   spacing |-> gpu.styles[curve],
   before  |-> Before(gpu, p),
   after   |-> After(gpu, p)]

\* The segments j of curve i of the picture.
PictureBefore(s, i, j) ==
  IF j > 0 THEN [curve |-> i, at |-> j - 1]
  ELSE IF ContinuesChain(s, i) THEN [curve |-> i - 1, at |-> s[i - 1].resolution - 2]
  ELSE [curve |-> i, at |-> j + 1]

PictureAfter(s, i, j) ==
  IF j + 2 < s[i].resolution THEN [curve |-> i, at |-> j + 2]
  ELSE IF i < Len(s) /\ ContinuesChain(s, i + 1) THEN [curve |-> i + 1, at |-> 1]
  ELSE [curve |-> i, at |-> j]

PictureSegment(s, i, j) ==
  [start |-> [curve |-> i, at |-> j], length |-> s[i].length,
   color |-> s[i].color, spacing |-> s[i].spacing,
   before |-> PictureBefore(s, i, j), after |-> PictureAfter(s, i, j)]

\* The curves that draw anything.
Patterned(s) == {i \in DOMAIN s : s[i].spacing > 0}

\* The segments of the picture, curve by curve.
LEMMA PictureIs ==
  ASSUME NEW s
  PROVE  PictureSegments(s) =
           UNION {{PictureSegment(s, i, j) : j \in 0 .. s[i].resolution - 2} : i \in Patterned(s)}
BY DEF PictureSegments, PictureSegment, PictureBefore, PictureAfter, Patterned

\* What the vertex shader makes of a sample is the picture's segment of that place.
LEMMA SegmentIs ==
  ASSUME NEW s \in Seq(Full), s # <<>>, NEW gpu, CurvesAreOf(gpu, s), SamplesAreOf(gpu, s),
         NEW i \in 1 .. Len(s), NEW j \in 1 .. s[i].resolution - 1
  PROVE  SegmentOf(gpu, First(s)[i] + j - 1, i) = PictureSegment(s, i, j - 1)
<1> DEFINE p == First(s)[i] + j - 1 n == Len(s)
<1>1. /\ s[i].resolution \in Nat \ {0, 1}
      /\ gpu.ranges[i].first = First(s)[i] /\ gpu.ranges[i].last = First(s)[i] + s[i].resolution - 1
      /\ First(s)[i] \in Nat /\ i \in 1 .. n /\ n \in Nat
  BY CurveRange
<1>2. j \in 1 .. s[i].resolution /\ j \in Nat /\ j < s[i].resolution
  BY <1>1
<1>3. gpu.map[p + 1] = EntryOf(s, i, j)
  BY <1>2, SampleEntry
<1>4. /\ gpu.map[p + 1].curve = i
      /\ gpu.map[p + 1].prev = (j > 1 \/ ~IsChainStart(s, i))
      /\ gpu.map[p + 1].next = (\/ j + 1 < s[i].resolution
                                \/ /\ j + 1 = s[i].resolution
                                   /\ i < n
                                   /\ ~IsChainStart(s, i + 1))
  BY <1>2, <1>3 DEF EntryOf
<1>5. /\ gpu.points[i] = s[i].length /\ gpu.colors[i] = s[i].color /\ gpu.styles[i] = s[i].spacing
  <2>1. i \in DOMAIN s
    BY <1>1, SlotsAre
  <2> QED
    BY <2>1 DEF CurvesAreOf
<1>6. Sample(gpu, i, p) = [curve |-> i, at |-> j - 1]
  BY <1>1, <1>2 DEF Sample
<1>7. Before(gpu, p) = PictureBefore(s, i, j - 1)
  <2>1. CASE j > 1
    <3>1. p # gpu.ranges[i].first
      BY <1>1, <1>2, <2>1
    <3>2. Sample(gpu, i, p - 1) = [curve |-> i, at |-> (j - 1) - 1]
      BY <1>1, <1>2 DEF Sample
    <3>3. Before(gpu, p) = Sample(gpu, i, p - 1)
      BY <1>4, <2>1, <3>1 DEF Before
    <3>4. j - 1 > 0
      BY <1>2, <2>1
    <3> QED
      BY <3>2, <3>3, <3>4 DEF PictureBefore
  <2>2. CASE j = 1 /\ IsChainStart(s, i)
    <3>0. ~gpu.map[p + 1].prev
      <4>1. ~(j > 1 \/ ~IsChainStart(s, i))
        BY <2>2
      <4> QED
        BY <1>4, <4>1, Zenon
    <3>1. Before(gpu, p) = Sample(gpu, i, p + 1)
      BY <1>4, <3>0 DEF Before
    <3>2. Sample(gpu, i, p + 1) = [curve |-> i, at |-> (j - 1) + 1]
      BY <1>1, <1>2 DEF Sample
    <3>3. ~(j - 1 > 0) /\ ~ContinuesChain(s, i)
      BY <2>2, ChainsGoOn
    <3> QED
      BY <3>1, <3>2, <3>3 DEF PictureBefore
  <2>3. CASE j = 1 /\ ~IsChainStart(s, i)
    <3>1. i # 1 /\ p = gpu.ranges[i].first
      BY <1>1, <2>3 DEF IsChainStart
    <3>2. Before(gpu, p) = Sample(gpu, i - 1, p - 2)
      BY <1>4, <2>3, <3>1 DEF Before
    <3>3. /\ gpu.ranges[i - 1].first = First(s)[i - 1] /\ First(s)[i - 1] \in Nat
          /\ First(s)[i] = First(s)[i - 1] + s[i - 1].resolution
          /\ s[i - 1].resolution \in Nat
      <4>1. i - 1 \in 1 .. n /\ (i - 1) + 1 = i
        BY <1>1, <3>1
      <4> QED
        BY <4>1, CurveRange
    <3>4. p - 2 - gpu.ranges[i - 1].first = s[i - 1].resolution - 2
      <4>1. p = First(s)[i]
        BY <1>1, <2>3
      <4> HIDE DEF p
      <4>2. \A a, b, c \in Nat : a = b + c => a - 2 - b = c - 2
        OBVIOUS
      <4> QED
        BY <1>1, <3>3, <4>1, <4>2
    <3>5. Sample(gpu, i - 1, p - 2) = [curve |-> i - 1, at |-> s[i - 1].resolution - 2]
      BY <3>4 DEF Sample
    <3>6. ~(j - 1 > 0) /\ ContinuesChain(s, i)
      BY <2>3, ChainsGoOn
    <3> QED
      BY <3>2, <3>5, <3>6 DEF PictureBefore
  <2> QED
    BY <1>2, <2>1, <2>2, <2>3
<1>8. After(gpu, p) = PictureAfter(s, i, j - 1)
  <2>1. CASE j + 1 < s[i].resolution
    <3>1. p + 1 # gpu.ranges[i].last
      BY <1>1, <1>2, <2>1
    <3>2. Sample(gpu, i, p + 2) = [curve |-> i, at |-> (j - 1) + 2]
      BY <1>1, <1>2 DEF Sample
    <3>3. After(gpu, p) = Sample(gpu, i, p + 2)
      BY <1>4, <2>1, <3>1 DEF After
    <3>4. (j - 1) + 2 < s[i].resolution
      BY <1>1, <1>2, <2>1
    <3> QED
      BY <3>2, <3>3, <3>4 DEF PictureAfter
  <2>2. CASE j + 1 = s[i].resolution /\ (i < n => IsChainStart(s, i + 1))
    <3>1. After(gpu, p) = Sample(gpu, i, p)
      BY <1>4, <2>2 DEF After
    <3>2. ~((j - 1) + 2 < s[i].resolution) /\ ~(i < n /\ ContinuesChain(s, i + 1))
      <4>1. i < n => i + 1 \in 1 .. n
        BY <1>1
      <4> QED
        BY <1>1, <1>2, <2>2, <4>1, ChainsGoOn
    <3> QED
      BY <1>6, <3>1, <3>2 DEF PictureAfter
  <2>3. CASE j + 1 = s[i].resolution /\ i < n /\ ~IsChainStart(s, i + 1)
    <3>1. p + 1 = gpu.ranges[i].last
      BY <1>1, <1>2, <2>3
    <3>2. After(gpu, p) = Sample(gpu, i + 1, p + 3)
      BY <1>4, <2>3, <3>1 DEF After
    <3>0. i + 1 \in 1 .. n
      BY <1>1, <2>3
    <3>3. gpu.ranges[i + 1].first = First(s)[i] + s[i].resolution
      BY <3>0, CurveRange
    <3>4. Sample(gpu, i + 1, p + 3) = [curve |-> i + 1, at |-> (p + 3) - gpu.ranges[i + 1].first]
      BY DEF Sample
    <3>5. Sample(gpu, i + 1, p + 3) = [curve |-> i + 1, at |-> 1]
      BY <1>1, <1>2, <2>3, <3>3, <3>4
    <3>6. ~((j - 1) + 2 < s[i].resolution) /\ i < Len(s) /\ ContinuesChain(s, i + 1)
      BY <1>1, <1>2, <2>3, <3>0, ChainsGoOn
    <3> QED
      BY <3>2, <3>5, <3>6 DEF PictureAfter
  <2> QED
    BY <1>1, <1>2, <2>1, <2>2, <2>3
<1> QED
  BY <1>5, <1>6, <1>7, <1>8 DEF SegmentOf, PictureSegment

\* Buffers of these slots draw the segments of the picture, no more and no less.
LEMMA SegmentsAre ==
  ASSUME NEW r, NEW s, s = r.slots, s \in Seq(Full), s # <<>>, CurvesAreOf(r.gpu, s), SamplesAreOf(r.gpu, s),
         r.totalPoints = TotalPoints(s)
  PROVE  Segments(r) = PictureSegments(s)
<1> DEFINE gpu == r.gpu n == Len(s)
           drawn == {p \in 0 .. TotalPoints(s) - 1 :
                       /\ p # gpu.ranges[gpu.map[p + 1].curve].last
                       /\ gpu.styles[gpu.map[p + 1].curve] > 0}
           ours == {SegmentOf(gpu, p, gpu.map[p + 1].curve) : p \in drawn}
           theirs == UNION {{PictureSegment(s, i, j) : j \in 0 .. s[i].resolution - 2} : i \in Patterned(s)}
<1>1. Segments(r) = ours
  BY DEF Segments, SegmentOf, IsCulled
<1>2. PictureSegments(s) = theirs
  BY PictureIs
<1>3. /\ DOMAIN s = 1 .. n /\ n \in Nat
      /\ \A i \in 1 .. n :
           /\ gpu.ranges[i].last = First(s)[i] + s[i].resolution - 1
           /\ First(s)[i] \in Nat /\ s[i].resolution \in Nat \ {0, 1}
           /\ gpu.styles[i] = s[i].spacing
  BY CurveRange, SlotsAre DEF CurvesAreOf
<1>4. ASSUME NEW i \in 1 .. n, NEW j \in 1 .. s[i].resolution
      PROVE  /\ First(s)[i] + j - 1 \in 0 .. TotalPoints(s) - 1
             /\ gpu.map[(First(s)[i] + j - 1) + 1].curve = i
             /\ First(s)[i] + j - 1 \in drawn <=> j # s[i].resolution /\ s[i].spacing > 0
  <2>1. s[i].resolution \in Nat /\ First(s)[i] \in Nat /\ j \in Nat
    BY <1>3
  <2>2. /\ First(s)[i] + j - 1 \in 0 .. TotalPoints(s) - 1
        /\ gpu.map[(First(s)[i] + j - 1) + 1] = EntryOf(s, i, j)
    BY <2>1, SampleEntry
  <2>3. gpu.map[(First(s)[i] + j - 1) + 1].curve = i
    BY <2>2 DEF EntryOf
  <2>4. gpu.ranges[i].last = First(s)[i] + s[i].resolution - 1
    BY <1>3
  <2> DEFINE p == First(s)[i] + j - 1
  <2>5. p # gpu.ranges[i].last <=> j # s[i].resolution
    BY <2>1, <2>4
  <2>6. p \in 0 .. TotalPoints(s) - 1 /\ gpu.map[p + 1].curve = i
    BY <2>2, <2>3
  <2>9. gpu.styles[i] = s[i].spacing
    BY <1>3
  <2> HIDE DEF p
  <2>7. p \in drawn <=> j # s[i].resolution /\ s[i].spacing > 0
    BY <2>5, <2>6, <2>9
  <2> QED
    BY <2>6, <2>7 DEF p
<1>5. ASSUME NEW x \in ours PROVE x \in theirs
  <2>1. PICK p \in drawn : x = SegmentOf(gpu, p, gpu.map[p + 1].curve)
    OBVIOUS
  <2>2. p \in 0 .. TotalPoints(s) - 1
    OBVIOUS
  <2>3. PICK i \in 1 .. n : \E j \in 1 .. s[i].resolution : p = First(s)[i] + j - 1
    BY <2>2, SampleOfSome
  <2>4. PICK j \in 1 .. s[i].resolution : p = First(s)[i] + j - 1
    BY <2>3
  <2>0. /\ gpu.map[(First(s)[i] + j - 1) + 1].curve = i
        /\ First(s)[i] + j - 1 \in drawn <=> j # s[i].resolution /\ s[i].spacing > 0
    BY <1>4
  <2> HIDE DEF drawn
  <2>5. gpu.map[p + 1].curve = i /\ j # s[i].resolution /\ s[i].spacing > 0
    BY <2>0, <2>4
  <2>9. i \in Patterned(s)
    BY <1>3, <2>5 DEF Patterned
  <2>6. s[i].resolution \in Nat \ {0, 1}
    BY <1>3
  <2>7. j \in 1 .. s[i].resolution - 1 /\ j - 1 \in 0 .. s[i].resolution - 2
    BY <2>5, <2>6
  <2>8. x = PictureSegment(s, i, j - 1)
    BY <2>1, <2>4, <2>5, <2>7, SegmentIs
  <2> QED
    BY <2>7, <2>8, <2>9
<1>6. ASSUME NEW x \in theirs PROVE x \in ours
  <2> DEFINE SegmentsOfCurve(i) == {PictureSegment(s, i, j) : j \in 0 .. s[i].resolution - 2}
  <2>8. x \in UNION {SegmentsOfCurve(i) : i \in Patterned(s)}
    OBVIOUS
  <2> HIDE DEF SegmentsOfCurve
  <2>9. PICK i \in Patterned(s) : x \in SegmentsOfCurve(i)
    BY <2>8
  <2>0. x \in {PictureSegment(s, i, j) : j \in 0 .. s[i].resolution - 2}
    BY <2>9 DEF SegmentsOfCurve
  <2>7. i \in 1 .. n /\ s[i].spacing > 0
    BY <1>3 DEF Patterned
  <2>1. PICK j \in 0 .. s[i].resolution - 2 : x = PictureSegment(s, i, j)
    BY <2>0
  <2>2. s[i].resolution \in Nat \ {0, 1}
    BY <1>3, <2>7
  <2> DEFINE k == j + 1 p == First(s)[i] + k - 1
  <2>3. k \in 1 .. s[i].resolution /\ k # s[i].resolution /\ k \in 1 .. s[i].resolution - 1 /\ k - 1 = j
    BY <2>2
  <2> HIDE DEF k
  <2>4. p \in drawn /\ gpu.map[p + 1].curve = i
    BY <1>4, <2>3, <2>7
  <2>5. SegmentOf(gpu, p, i) = PictureSegment(s, i, j)
    BY <2>3, <2>7, SegmentIs
  <2> QED
    BY <2>1, <2>4, <2>5
<1> QED
  BY <1>1, <1>2, <1>5, <1>6

-------------------------------------------------------------------------------
(* Arc lengths and what the GPU counts *)

\* Arc lengths up to sample n.
ArcsTo(h, gpu, n) ==
  h = [q \in 0 .. n |-> IF q = 0 \/ q \in gpu.begins THEN 0 ELSE h[q - 1] + Chord(gpu, q - 1)]

\* The arc lengths of a chain exist as the segmented scan defines them.
LEMMA ArcsExist ==
  ASSUME NEW gpu, NEW n \in Nat, \A p \in 0 .. n : Chord(gpu, p) \in Nat
  PROVE  \E h \in [0 .. n -> Nat] : ArcsTo(h, gpu, n)
<1> DEFINE step == [x \in (0 .. n) \X Nat |-> IF x[1] = 0 \/ x[1] \in gpu.begins THEN 0
                                              ELSE x[2] + Chord(gpu, x[1] - 1)]
           first == 0 base == 0
<1>1. step \in [(0 .. n) \X Nat -> Nat]
  <2>1. \A x \in (0 .. n) \X Nat : x[1] # 0 => x[1] - 1 \in 0 .. n
    OBVIOUS
  <2> QED
    BY <2>1
<1>2. \A k \in 0 .. n, x \in Nat : step[<<k, x>>] = IF k = 0 \/ k \in gpu.begins THEN 0
                                                    ELSE x + Chord(gpu, k - 1)
  OBVIOUS
<1> HIDE DEF step
<1>3. first \in Nat /\ first <= n /\ base \in Nat /\ step \in [(first .. n) \X Nat -> Nat]
  BY <1>1
<1> HIDE DEF first, base
<1>4. PICK h \in [first .. n -> Nat] : Recurs(h, first, n, base, step)
  BY <1>3, RecursionExists
<1>5. h \in [0 .. n -> Nat] /\ \A k \in 0 .. n : h[k] = IF k = 0 THEN 0 ELSE step[<<k, h[k - 1]>>]
  BY <1>4 DEF Recurs, first, base
<1>6. ASSUME NEW k \in 0 .. n
      PROVE  h[k] = IF k = 0 \/ k \in gpu.begins THEN 0 ELSE h[k - 1] + Chord(gpu, k - 1)
  <2>1. CASE k = 0
    BY <1>5, <2>1
  <2>2. CASE k # 0
    <3>0. k - 1 \in 0 .. n
      BY <2>2
    <3>1. h[k - 1] \in Nat
      BY <1>5, <3>0
    <3> QED
      BY <1>2, <1>5, <2>2, <3>1
  <2> QED
    BY <2>1, <2>2
<1>7. h = [k \in 0 .. n |-> IF k = 0 \/ k \in gpu.begins THEN 0 ELSE h[k - 1] + Chord(gpu, k - 1)]
  BY <1>5, <1>6
<1> QED
  BY <1>5, <1>7, Zenon DEF ArcsTo

\* A scan of fewer samples agrees with one of more.
LEMMA ArcsAgree ==
  ASSUME NEW gpu, NEW n \in Nat, NEW p \in 0 .. n, NEW g, NEW h, ArcsTo(g, gpu, p), ArcsTo(h, gpu, n)
  PROVE  g[p] = h[p]
<1> DEFINE T == {q \in Nat : q <= p => g[q] = h[q]}
<1>0. /\ \A q \in 0 .. p : g[q] = IF q = 0 \/ q \in gpu.begins THEN 0 ELSE g[q - 1] + Chord(gpu, q - 1)
      /\ \A q \in 0 .. n : h[q] = IF q = 0 \/ q \in gpu.begins THEN 0 ELSE h[q - 1] + Chord(gpu, q - 1)
  BY DEF ArcsTo
<1>1. T \subseteq Nat /\ 0 \in T
  BY <1>0
<1>2. ASSUME NEW q \in T PROVE q + 1 \in T
  <2>1. CASE q + 1 <= p
    <3> DEFINE k == q + 1
    <3>1. k \in 0 .. p /\ k \in 0 .. n /\ k # 0 /\ g[k - 1] = h[k - 1]
      BY <2>1
    <3> HIDE DEF k
    <3>2. g[k] = h[k]
      BY <1>0, <3>1
    <3> QED
      BY <3>2 DEF k
  <2> QED
    BY <2>1
<1>3. T = Nat
  <2> HIDE DEF T
  <2> QED
    BY <1>1, <1>2, FromZeroOn
<1> QED
  BY <1>3

\* An arc length is the one of any scan that reaches its sample.
LEMMA ArcIs ==
  ASSUME NEW gpu, NEW n \in Nat, \A p \in 0 .. n : Chord(gpu, p) \in Nat,
         NEW h, ArcsTo(h, gpu, n), NEW p \in 0 .. n
  PROVE  Arc(gpu, p) = h[p]
<1> DEFINE arc == CHOOSE g : g = [q \in 0 .. p |-> IF q = 0 \/ q \in gpu.begins THEN 0
                                                   ELSE g[q - 1] + Chord(gpu, q - 1)]
<1>1. Arc(gpu, p) = arc[p]
  BY DEF Arc
<1>2. p \in Nat /\ \A q \in 0 .. p : Chord(gpu, q) \in Nat
  OBVIOUS
<1>3. PICK g \in [0 .. p -> Nat] : ArcsTo(g, gpu, p)
  BY <1>2, ArcsExist
<1>4. arc = [q \in 0 .. p |-> IF q = 0 \/ q \in gpu.begins THEN 0 ELSE arc[q - 1] + Chord(gpu, q - 1)]
  <2>1. g = [q \in 0 .. p |-> IF q = 0 \/ q \in gpu.begins THEN 0 ELSE g[q - 1] + Chord(gpu, q - 1)]
    BY <1>3 DEF ArcsTo
  <2> QED
    BY <2>1, Zenon
<1> HIDE DEF arc
<1>5. ArcsTo(arc, gpu, p)
  BY <1>4 DEF ArcsTo
<1> QED
  BY <1>1, <1>5, ArcsAgree

\* From its first sample to its last a curve's arc grows by its length.
LEMMA ArcsOfCurve ==
  ASSUME NEW s \in Seq(Full), s # <<>>, NEW gpu, CurvesAreOf(gpu, s), SamplesAreOf(gpu, s),
         NEW i \in 1 .. Len(s)
  PROVE  /\ ArcBegin(gpu, i) \in Nat
         /\ ArcEnd(gpu, i) = ArcBegin(gpu, i) + s[i].length
<1> DEFINE n == TotalPoints(s) - 1 F == First(s)[i] L == First(s)[i] + s[i].resolution - 1
<1>0. /\ Len(s) \in Nat /\ DOMAIN s = 1 .. Len(s) /\ \A k \in 1 .. Len(s) : s[k] \in Full
  BY SlotsAre
<1>1. /\ gpu.ranges[i].first = F /\ gpu.ranges[i].last = L
      /\ F \in Nat /\ L \in Nat /\ F < L /\ s[i].resolution \in Nat \ {0, 1}
      /\ First(s)[i + 1] = F + s[i].resolution
  BY CurveRange
<1>2. n \in Nat /\ F \in 0 .. n /\ L \in 0 .. n
  <2>1. 1 \in 1 .. s[i].resolution /\ s[i].resolution \in 1 .. s[i].resolution
    BY <1>1
  <2>2. F = F + 1 - 1
    BY <1>1
  <2>3. F \in 0 .. n
    BY <2>1, <2>2, SampleEntry
  <2>4. L \in 0 .. n
    BY <2>1, SampleEntry
  <2>5. TotalPoints(s) \in Nat
    BY SlotsAre, MapIs
  <2> QED
    BY <1>1, <2>3, <2>4, <2>5
<1> HIDE DEF n
<1>3. ASSUME NEW k \in 1 .. Len(s), NEW j \in 1 .. s[k].resolution, NEW p, p = First(s)[k] + j - 1
      PROVE  p \in 0 .. n /\ Chord(gpu, p) = IF j = 1 THEN s[k].length ELSE 0
  <2>1. p \in 0 .. n /\ gpu.map[p + 1] = EntryOf(s, k, j)
    BY <1>3, SampleEntry DEF n
  <2>2. gpu.map[p + 1].curve = k
    BY <2>1 DEF EntryOf
  <2>3. gpu.points[k] = s[k].length
    BY <1>0 DEF CurvesAreOf
  <2>4. gpu.ranges[k].first = First(s)[k] /\ First(s)[k] \in Nat /\ s[k].resolution \in Nat
    BY CurveRange
  <2>5. p = gpu.ranges[k].first <=> j = 1
    BY <1>3, <2>4
  <2> QED
    BY <2>1, <2>2, <2>3, <2>5 DEF Chord
<1>4. \A p \in 0 .. n : Chord(gpu, p) \in Nat
  <2> SUFFICES ASSUME NEW p \in 0 .. n PROVE Chord(gpu, p) \in Nat
    OBVIOUS
  <2>1. PICK k \in 1 .. Len(s) : \E j \in 1 .. s[k].resolution : p = First(s)[k] + j - 1
    BY SampleOfSome DEF n
  <2>2. PICK j \in 1 .. s[k].resolution : p = First(s)[k] + j - 1
    BY <2>1
  <2>3. s[k].length \in Nat
    BY <1>0 DEF Full
  <2> QED
    BY <1>3, <2>2, <2>3
<1>5. PICK h \in [0 .. n -> Nat] : ArcsTo(h, gpu, n)
  BY <1>2, <1>4, ArcsExist
<1>6. \A p \in 0 .. n : Arc(gpu, p) = h[p]
  BY <1>2, <1>4, <1>5, ArcIs
<1>7. \A p \in 0 .. n : h[p] = IF p = 0 \/ p \in gpu.begins THEN 0 ELSE h[p - 1] + Chord(gpu, p - 1)
  BY <1>5 DEF ArcsTo
<1>8. ASSUME NEW p \in F + 1 .. L PROVE p \notin gpu.begins
  <2> SUFFICES ASSUME p \in gpu.begins PROVE FALSE
    OBVIOUS
  <2>1. PICK k \in 1 .. Len(s) : p = First(s)[k]
    <3>1. gpu.begins = {SampleRange(s, k).first : k \in {l \in DOMAIN s : IsChainStart(s, l)}}
      BY DEF SamplesAreOf, ChainBegins
    <3>2. \A k \in 1 .. Len(s) : SampleRange(s, k).first = First(s)[k]
      BY SlotsAre
    <3> QED
      BY <1>0, <3>1, <3>2
  <2>2. /\ k <= i => First(s)[k] <= F
        /\ i + 1 <= k => F + s[i].resolution <= First(s)[k]
    <3> DEFINE m == Len(s) v == Resolutions(s) f == First(s)
    <3>1. m \in Nat /\ v \in [1 .. m -> Nat] /\ IsSum(f, v, m)
      BY SlotsAre
    <3>2. i \in 1 .. m + 1 /\ k \in 1 .. m + 1 /\ i + 1 \in 1 .. m + 1
      BY <1>0
    <3>3. f[i + 1] = f[i] + s[i].resolution
      BY <1>1
    <3> HIDE DEF m, v, f
    <3>4. /\ k <= i => f[k] <= f[i]
          /\ i + 1 <= k => f[i + 1] <= f[k]
      BY <3>1, <3>2, SumGrows
    <3>5. /\ k <= i => f[k] <= f[i]
          /\ i + 1 <= k => f[i] + s[i].resolution <= f[k]
      BY <3>3, <3>4
    <3> QED
      BY <3>5 DEF f
  <2>3. k <= i \/ i + 1 <= k
    BY <1>0
  <2>4. First(s)[k] \in Nat
    BY CurveRange
  <2> QED
    BY <1>1, <2>1, <2>2, <2>3, <2>4
<1> DEFINE T == {d \in Nat : F + (d + 1) <= L => h[F + (d + 1)] = h[F] + s[i].length}
<1>9. s[i].length \in Nat /\ h[F] \in Nat
  BY <1>0, <1>2, <1>5 DEF Full
<1>10. ASSUME NEW d \in Nat, F + (d + 1) <= L
       PROVE  h[F + (d + 1)] = h[F + d] + (IF d = 0 THEN s[i].length ELSE 0)
  <2> DEFINE p == F + (d + 1) q == F + d j == d + 1
  <2>1. p \in F + 1 .. L /\ p \in 0 .. n /\ p # 0 /\ p - 1 = q
    <3>1. F \in Nat /\ L \in Nat /\ F \in 0 .. n /\ L \in 0 .. n /\ n \in Nat
      BY <1>1, <1>2
    <3> HIDE DEF F, L
    <3> QED
      BY <1>10, <3>1
  <2>2. j \in 1 .. s[i].resolution /\ q = First(s)[i] + j - 1
    BY <1>1, <1>10
  <2>3. h[p] = h[p - 1] + Chord(gpu, p - 1)
    <3> HIDE DEF p, q, j, F, L
    <3>1. p \notin gpu.begins
      BY <1>8, <2>1
    <3> QED
      BY <1>7, <2>1, <3>1
  <2>4. Chord(gpu, q) = IF j = 1 THEN s[i].length ELSE 0
    <3> HIDE DEF p, q, j
    <3> QED
      BY <1>3, <2>2
  <2> QED
    BY <2>1, <2>3, <2>4
<1>11. T \subseteq Nat /\ 0 \in T
  <2>1. F + (0 + 1) <= L => h[F + (0 + 1)] = h[F + 0] + s[i].length
    BY <1>10
  <2> QED
    BY <1>1, <2>1
<1>12. ASSUME NEW d \in T PROVE d + 1 \in T
  <2>1. CASE F + ((d + 1) + 1) <= L
    <3>1. h[F + (d + 1)] = h[F] + s[i].length
      BY <1>1, <2>1
    <3>2. d + 1 \in Nat /\ d + 1 # 0
      OBVIOUS
    <3>3. h[F + ((d + 1) + 1)] = h[F + (d + 1)] + 0
      BY <1>10, <2>1, <3>2
    <3>4. h[F + ((d + 1) + 1)] = h[F] + s[i].length
      BY <1>9, <3>1, <3>3
    <3> QED
      BY <3>4
  <2> QED
    BY <2>1
<1>13. T = Nat
  <2> HIDE DEF T
  <2> QED
    BY <1>11, <1>12, FromZeroOn
<1>14. h[L] = h[F] + s[i].length
  <2> DEFINE d == s[i].resolution - 2
  <2>1. d \in Nat /\ F + (d + 1) = L /\ F + (d + 1) <= L
    BY <1>1
  <2>2. d \in T
    <3> HIDE DEF T, d
    <3> QED
      BY <1>13, <2>1
  <2>3. h[F + (d + 1)] = h[F] + s[i].length
    <3> HIDE DEF d, F, L
    <3> QED
      BY <2>1, <2>2
  <2> HIDE DEF d, F, L
  <2> QED
    BY <2>1, <2>3
<1> QED
  BY <1>1, <1>2, <1>6, <1>9, <1>14 DEF ArcBegin, ArcEnd

\* What integer division leaves.
LEMMA Quotient ==
  ASSUME NEW a \in Nat, NEW d \in Nat \ {0}
  PROVE  /\ a \div d \in Nat /\ d * (a \div d) <= a
         /\ a < d * (a \div d) + d
  OBVIOUS

\* Between two arc lengths lie no more multiples than their distance allows.
LEMMA QuotientOfSum ==
  ASSUME NEW a \in Nat, NEW b \in Nat, NEW d \in Nat \ {0}
  PROVE  /\ (a + b) \div d \in Nat /\ a \div d \in Nat /\ b \div d \in Nat
         /\ (a + b) \div d <= a \div d + b \div d + 1
<1> DEFINE x == a \div d y == b \div d z == (a + b) \div d
<1>1. /\ x \in Nat /\ d * x <= a /\ a < d * x + d
  BY Quotient
<1>2. /\ y \in Nat /\ d * y <= b /\ b < d * y + d
  BY Quotient
<1>3. /\ z \in Nat /\ d * z <= a + b
  <2>1. a + b \in Nat
    OBVIOUS
  <2> QED
    BY <2>1, Quotient
<1> HIDE DEF x, y, z
<1>4. d * z < d * (x + y + 2)
  BY <1>1, <1>2, <1>3
<1>5. z < x + y + 2
  BY <1>1, <1>2, <1>3, <1>4
<1> QED
  BY <1>1, <1>2, <1>3, <1>5 DEF x, y, z

\* The centres of a curve as the CPU bounds them.
CentersAtMost(c) == IF c.spacing > 0 THEN c.length \div c.spacing + 1 ELSE 0

LEMMA OwnedIsBounded ==
  ASSUME NEW s \in Seq(Full), s # <<>>, NEW gpu, CurvesAreOf(gpu, s), SamplesAreOf(gpu, s),
         NEW i \in 1 .. Len(s)
  PROVE  /\ Owned(gpu, i) \in Int /\ CentersAtMost(s[i]) \in Nat
         /\ Owned(gpu, i) <= CentersAtMost(s[i])
<1> DEFINE b == ArcBegin(gpu, i) e == ArcEnd(gpu, i) l == s[i].length d == s[i].spacing
<1>1. b \in Nat /\ e = b + l
  BY ArcsOfCurve
<1>2. l \in Nat /\ d \in Nat /\ gpu.styles[i] = d
  <2>1. i \in DOMAIN s /\ s[i] \in Full
    BY SlotsAre
  <2> QED
    BY <2>1 DEF Full, CurvesAreOf
<1>3. Owned(gpu, i) = PatternCount(e, d) - PatternCount(b, d)
  BY <1>2 DEF Owned
<1>4. CentersAtMost(s[i]) = IF d > 0 THEN l \div d + 1 ELSE 0
  BY DEF CentersAtMost
<1> HIDE DEF b, e, l, d
<1>5. CASE d = 0
  <2>1. PatternCount(e, d) = 0 /\ PatternCount(b, d) = 0
    BY <1>5 DEF PatternCount
  <2> QED
    BY <1>3, <1>4, <1>5, <2>1
<1>6. CASE d # 0
  <2>0. d \in Nat \ {0} /\ d > 0
    BY <1>2, <1>6
  <2> DEFINE x == b \div d y == l \div d z == (b + l) \div d
  <2>1. x \in Nat /\ y \in Nat /\ z \in Nat /\ z <= x + y + 1
    BY <1>1, <1>2, <2>0, QuotientOfSum
  <2>2. PatternCount(b, d) = IF b > 0 THEN x + 1 ELSE 0
    BY <2>0 DEF PatternCount
  <2>3. PatternCount(e, d) = IF b + l > 0 THEN z + 1 ELSE 0
    BY <1>1, <2>0 DEF PatternCount
  <2>4. CentersAtMost(s[i]) = y + 1
    BY <1>4, <2>0
  <2>5. b = 0 => z = y
    BY <1>2
  <2> HIDE DEF x, y, z
  <2> QED
    BY <1>1, <1>2, <1>3, <2>1, <2>2, <2>3, <2>4, <2>5
<1> QED
  BY <1>5, <1>6

\* The scan of the centres that the curves own.
OffsetsTo(h, gpu, n) ==
  h = [k \in 1 .. n + 1 |-> IF k = 1 THEN 0 ELSE h[k - 1] + Owned(gpu, k - 1)]

\* The offsets are the sums of what the curves own.
LEMMA OffsetsAre ==
  ASSUME NEW gpu, NEW n \in Nat, Len(gpu.ranges) = n, \A k \in 1 .. n : Owned(gpu, k) \in Int
  PROVE  /\ OffsetsTo(Offsets(gpu), gpu, n)
         /\ Offsets(gpu) \in [1 .. n + 1 -> Int]
<1> DEFINE step == [x \in (1 .. n + 1) \X Int |-> IF x[1] = 1 THEN 0 ELSE x[2] + Owned(gpu, x[1] - 1)]
           first == 1 last == n + 1 base == 0
<1>1. step \in [(1 .. n + 1) \X Int -> Int]
  <2>1. \A x \in (1 .. n + 1) \X Int : x[1] # 1 => x[1] - 1 \in 1 .. n
    OBVIOUS
  <2> QED
    BY <2>1
<1>2. \A k \in 1 .. n + 1, x \in Int : k # 1 => step[<<k, x>>] = x + Owned(gpu, k - 1)
  OBVIOUS
<1> HIDE DEF step
<1>3. /\ first \in Nat /\ last \in Nat /\ first <= last /\ base \in Int
      /\ step \in [(first .. last) \X Int -> Int]
  BY <1>1
<1> HIDE DEF first, last, base
<1>4. PICK h \in [first .. last -> Int] : Recurs(h, first, last, base, step)
  BY <1>3, RecursionExists
<1>5. h \in [1 .. n + 1 -> Int] /\ \A k \in 1 .. n + 1 : h[k] = IF k = 1 THEN 0 ELSE step[<<k, h[k - 1]>>]
  BY <1>4 DEF Recurs, first, last, base
<1>6. ASSUME NEW k \in 1 .. n + 1
      PROVE  h[k] = IF k = 1 THEN 0 ELSE h[k - 1] + Owned(gpu, k - 1)
  <2>1. CASE k = 1
    BY <1>5, <2>1
  <2>2. CASE k # 1
    <3>0. k - 1 \in 1 .. n + 1
      BY <2>2
    <3>1. h[k - 1] \in Int
      BY <1>5, <3>0
    <3> QED
      BY <1>2, <1>5, <2>2, <3>1
  <2> QED
    BY <2>1, <2>2
<1>7. h = [k \in 1 .. n + 1 |-> IF k = 1 THEN 0 ELSE h[k - 1] + Owned(gpu, k - 1)]
  BY <1>5, <1>6
<1> DEFINE before == CHOOSE g : g = [k \in 1 .. n + 1 |-> IF k = 1 THEN 0 ELSE g[k - 1] + Owned(gpu, k - 1)]
<1>8. Offsets(gpu) = [k \in 1 .. n + 1 |-> before[k]]
  BY DEF Offsets
<1>9. before = [k \in 1 .. n + 1 |-> IF k = 1 THEN 0 ELSE before[k - 1] + Owned(gpu, k - 1)]
  BY <1>7, Zenon
<1> HIDE DEF before
<1>10. Offsets(gpu) = before
  BY <1>8, <1>9
<1>11. \A k \in 1 .. n + 1 : before[k] \in Int
  <2> DEFINE T == {k \in Nat : k <= n => before[k + 1] \in Int}
  <2>1. T \subseteq Nat /\ 0 \in T
    BY <1>9
  <2>2. ASSUME NEW k \in T PROVE k + 1 \in T
    <3>1. CASE k + 1 <= n
      <4> DEFINE m == (k + 1) + 1
      <4>1. m \in 1 .. n + 1 /\ m # 1 /\ m - 1 = k + 1 /\ k + 1 \in 1 .. n /\ before[k + 1] \in Int
        BY <3>1
      <4> HIDE DEF m
      <4>2. before[m] = before[m - 1] + Owned(gpu, m - 1)
        BY <1>9, <4>1
      <4>3. before[m] \in Int
        BY <4>1, <4>2
      <4> QED
        BY <4>3 DEF m
    <3> QED
      BY <3>1
  <2>3. T = Nat
    <3> HIDE DEF T
    <3> QED
      BY <2>1, <2>2, FromZeroOn
  <2> SUFFICES ASSUME NEW k \in 1 .. n + 1 PROVE before[k] \in Int
    OBVIOUS
  <2> DEFINE j == k - 1
  <2>4. j \in Nat /\ j <= n /\ j + 1 = k
    OBVIOUS
  <2>5. j \in T
    <3> HIDE DEF T, j
    <3> QED
      BY <2>3, <2>4
  <2> QED
    BY <2>4, <2>5
<1>12. before = [k \in 1 .. n + 1 |-> before[k]]
  BY <1>9
<1>13. before \in [1 .. n + 1 -> Int]
  BY <1>11, <1>12
<1> QED
  BY <1>9, <1>10, <1>13, Zenon DEF OffsetsTo

\* What the GPU counts is never above the CPU's bound, unless the cap cut it.
LEMMA CountIsBounded ==
  ASSUME NEW s \in Seq(Full), s # <<>>, NEW gpu, CurvesAreOf(gpu, s), SamplesAreOf(gpu, s)
  PROVE  /\ Offsets(gpu) \in Seq(Int) /\ Len(Offsets(gpu)) = Len(s) + 1
         /\ Seqs!Last(Offsets(gpu)) \in Int
         /\ \/ Seqs!Last(Offsets(gpu)) <= PatternBound(s)
            \/ PatternBound(s) = MaxPatternCount
<1> DEFINE n == Len(s) o == Offsets(gpu) v == CappedOf(s)
<1>1. n \in Nat /\ DOMAIN s = 1 .. n /\ Len(gpu.ranges) = n
  BY SlotsAre DEF SamplesAreOf
<1>2. \A k \in 1 .. n : /\ Owned(gpu, k) \in Int /\ CentersAtMost(s[k]) \in Nat
                        /\ Owned(gpu, k) <= CentersAtMost(s[k])
  BY OwnedIsBounded
<1>3. OffsetsTo(o, gpu, n) /\ o \in [1 .. n + 1 -> Int]
  BY <1>1, <1>2, OffsetsAre
<1>4. o \in Seq(Int) /\ Len(o) = n + 1
  <2> HIDE DEF o, n
  <2>1. n + 1 \in Nat
    BY <1>1
  <2> QED
    BY <1>1, <1>3, <2>1
<1>5. PICK h : /\ IsSum(h, v, n)
               /\ PatternBound(s) = IF h[n + 1] < MaxPatternCount THEN h[n + 1] ELSE MaxPatternCount
  BY PatternBoundIs
<1>6. \A k \in 1 .. n : v[k] = IF CentersAtMost(s[k]) < MaxPatternCount THEN CentersAtMost(s[k]) ELSE MaxPatternCount
  BY DEF CappedOf, Capped, CentersAtMost
<1>7. MaxPatternCount \in Nat \ {0}
  BY BoundsAssumption
<1>8. v \in [1 .. n -> Nat]
  <2>1. \A k \in 1 .. n : v[k] \in Nat
    BY <1>2, <1>6, <1>7
  <2> QED
    BY <2>1 DEF CappedOf
<1>9. ASSUME h[n + 1] < MaxPatternCount PROVE o[n + 1] <= h[n + 1]
  <2> HIDE DEF o, v, n
  <2>1. ASSUME NEW k \in 1 .. n PROVE Owned(gpu, k) <= v[k]
    <3>1. h[k] + v[k] <= h[n + 1]
      BY <1>1, <1>5, <1>8, SumGrows
    <3>2. h[k] \in Nat /\ v[k] \in Nat /\ h[n + 1] \in Nat
      BY <1>1, <1>5, <1>8 DEF IsSum
    <3>3. v[k] < MaxPatternCount
      BY <1>7, <1>9, <3>1, <3>2
    <3>4. v[k] = CentersAtMost(s[k])
      BY <1>6, <1>7, <3>3
    <3> QED
      BY <1>2, <3>4
  <2> DEFINE T == {k \in Nat : k <= n => o[k + 1] <= h[k + 1]}
  <2>2. T \subseteq Nat /\ 0 \in T
    <3>1. o[1] = 0 /\ h[1] = 0
      BY <1>1, <1>3, <1>5 DEF OffsetsTo, IsSum
    <3> QED
      BY <3>1
  <2>3. ASSUME NEW k \in T PROVE k + 1 \in T
    <3>1. CASE k + 1 <= n
      <4> DEFINE m == k + 1
      <4>1. m \in 1 .. n /\ m + 1 \in 1 .. n + 1 /\ m \in 1 .. n + 1 /\ m + 1 # 1 /\ (m + 1) - 1 = m
        BY <1>1, <3>1
      <4>2. o[m] <= h[m]
        BY <3>1, <1>1
      <4> HIDE DEF m
      <4>3. o[m + 1] = o[m] + Owned(gpu, m)
        BY <1>3, <4>1 DEF OffsetsTo
      <4>4. h[m + 1] = h[m] + v[m]
        BY <1>5, <4>1 DEF IsSum
      <4>5. o[m] \in Int /\ h[m] \in Int /\ v[m] \in Int /\ Owned(gpu, m) \in Int /\ Owned(gpu, m) <= v[m]
        BY <1>2, <1>3, <1>5, <1>8, <2>1, <4>1 DEF IsSum
      <4>6. o[m + 1] <= h[m + 1]
        BY <4>2, <4>3, <4>4, <4>5
      <4> QED
        BY <4>6 DEF m
    <3> QED
      BY <1>1, <3>1
  <2>4. T = Nat
    <3> HIDE DEF T
    <3> QED
      BY <2>2, <2>3, FromZeroOn
  <2>5. n \in T
    <3> HIDE DEF T
    <3> QED
      BY <1>1, <2>4
  <2> QED
    BY <1>1, <2>5
<1>10. Seqs!Last(o) = o[n + 1]
  BY <1>4 DEF Seqs!Last
<1>11. h[n + 1] \in Nat /\ o[n + 1] \in Int
  <2> HIDE DEF o, n
  <2> QED
    BY <1>1, <1>3, <1>5 DEF IsSum
<1> HIDE DEF o
<1>12. \/ Seqs!Last(o) <= PatternBound(s)
       \/ PatternBound(s) = MaxPatternCount
  BY <1>5, <1>7, <1>9, <1>10, <1>11
<1> QED
  BY <1>4, <1>10, <1>11, <1>12 DEF o

-------------------------------------------------------------------------------
(* Compaction *)

\* The compaction loop finds a slot for every number that `write` takes.
LEMMA SlotForEveryRank ==
  ASSUME NEW n \in Nat, NEW S \in SUBSET (1 .. n)
  PROVE  /\ Cardinality(S) \in Nat
         /\ \A k \in 1 .. Cardinality(S) : \E i \in S : Rank(S, i) = k
<1> DEFINE upTo(i) == {j \in S : j <= i}
<1>1. IsFiniteSet(S) /\ Cardinality(S) \in Nat
  <2>1. IsFiniteSet(1 .. n)
    BY FS_Interval
  <2> QED
    BY <2>1, FS_Subset, FS_CardinalityType
<1>2. ASSUME NEW i \in S
      PROVE  /\ IsFiniteSet(upTo(i))
             /\ Cardinality(upTo(i)) \in 1 .. Cardinality(S)
  <2>1. IsFiniteSet(upTo(i)) /\ Cardinality(upTo(i)) <= Cardinality(S)
    BY <1>1, FS_Subset
  <2>2. Cardinality(upTo(i)) \in Nat
    BY <2>1, FS_CardinalityType
  <2>3. i \in upTo(i)
    OBVIOUS
  <2>4. Cardinality(upTo(i)) # 0
    BY <2>1, <2>3, FS_EmptySet
  <2> QED
    BY <1>1, <2>1, <2>2, <2>4
<1>3. ASSUME NEW i \in S, NEW j \in S, i < j
      PROVE  Cardinality(upTo(i)) < Cardinality(upTo(j))
  <2>0. j \in upTo(j) /\ j \notin upTo(i)
    BY <1>3
  <2>1. upTo(i) \in SUBSET upTo(j)
    <3> SUFFICES ASSUME NEW x \in S, x <= i
                 PROVE  x <= j
      OBVIOUS
    <3>1. x \in Int /\ i \in Int /\ j \in Int
      OBVIOUS
    <3> QED
      BY <1>3, <3>1
  <2>2. /\ Cardinality(upTo(i)) <= Cardinality(upTo(j))
        /\ Cardinality(upTo(j)) = Cardinality(upTo(i)) => upTo(j) = upTo(i)
    BY <1>2, <2>1, FS_Subset
  <2>3. upTo(i) # upTo(j)
    BY <2>0
  <2> QED
    BY <1>2, <2>2, <2>3
<1>4. \A i, j \in S : Rank(S, i) = Rank(S, j) => i = j
  BY <1>2, <1>3 DEF Rank
<1> DEFINE rank == [i \in S |-> Rank(S, i)]
<1>5. rank \in Injection(S, 1 .. Cardinality(S))
  BY <1>2, <1>4 DEF Rank, Injection, IsInjective
<1>6. rank \in Surjection(S, 1 .. Cardinality(S))
  <2>1. /\ IsFiniteSet(1 .. Cardinality(S))
        /\ Cardinality(1 .. Cardinality(S)) = Cardinality(S)
    BY <1>1, FS_Interval
  <2> QED
    BY <1>1, <1>5, <2>1, FS_Injection
<1> QED
  BY <1>1, <1>6 DEF Surjection

\* A removed slot has no owner; every other one is a curve.
LiveAreFull(s) == \A i \in DOMAIN s : s[i].owner # Nobody => s[i] \in Full

\* Compaction leaves the live slots and no gap.
LEMMA CompactedIsFull ==
  ASSUME NEW s \in Seq(Slot), LiveAreFull(s)
  PROVE  CompactRemoved(s) \in Seq(Full)
<1> DEFINE live == Ascending(Live(s)) m == Cardinality(Live(s)) c == CompactRemoved(s)
<1>1. Len(s) \in Nat /\ DOMAIN s = 1 .. Len(s) /\ Live(s) \in SUBSET (1 .. Len(s))
  BY DEF Live
<1>2. m \in Nat /\ \A k \in 1 .. m : \E i \in Live(s) : Rank(Live(s), i) = k
  BY <1>1, SlotForEveryRank
<1>3. DOMAIN live = 1 .. m /\ \A k \in 1 .. m : live[k] \in Live(s)
  BY <1>2 DEF Ascending
<1>4. c = [k \in 1 .. m |->
             [s[live[k]] EXCEPT !.merged = @ /\ (live[k] = 1 \/ s[live[k] - 1].owner # Nobody)]]
  BY <1>3 DEF CompactRemoved
<1> HIDE DEF live, m, c
<1>5. ASSUME NEW k \in 1 .. m PROVE c[k] \in Full
  <2> DEFINE i == live[k] b == s[i].merged /\ (i = 1 \/ s[i - 1].owner # Nobody)
  <2>1. i \in Live(s) /\ s[i] \in Full
    BY <1>1, <1>3 DEF LiveAreFull, Live
  <2>2. c[k] = [s[i] EXCEPT !.merged = b]
    BY <1>4
  <2>3. b \in BOOLEAN
    OBVIOUS
  <2> HIDE DEF i, b
  <2> QED
    BY <2>1, <2>2, <2>3 DEF Full
<1>6. c \in [1 .. m -> Full]
  BY <1>4, <1>5
<1> QED
  BY <1>2, <1>6 DEF c

-------------------------------------------------------------------------------
(* Uploads *)

GpuType ==
  [points : Seq(Nat), colors : Seq(Nat), styles : Seq(Nat),
   ranges : Seq([first : Int, last : Int]), map : Seq(MapEntry), begins : SUBSET Int,
   offsets : Seq(Int)]

RendererType ==
  [slots : Seq(Slot), removed : Nat,
   needResize : BOOLEAN, needUpload : BOOLEAN, uploadParts : SUBSET DirtyAll,
   totalPoints : Nat, bound : Nat, needRecount : BOOLEAN,
   pointsAllocated : Nat, curvesAllocated : Nat, patternsAllocated : Nat,
   gpu : GpuType]

\* What the slots give the GPU buffers has their types.
LEMMA RangesAre ==
  ASSUME NEW s \in Seq(Full)
  PROVE  /\ [i \in DOMAIN s |-> s[i].length] \in Seq(Nat)
         /\ [i \in DOMAIN s |-> s[i].color] \in Seq(Nat)
         /\ [i \in DOMAIN s |-> s[i].spacing] \in Seq(Nat)
         /\ [i \in DOMAIN s |-> SampleRange(s, i)] \in Seq([first : Int, last : Int])
         /\ ChainBegins(s) \in SUBSET Int
         /\ TotalPoints(s) \in Nat
         /\ PatternBound(s) \in Nat
<1>1. /\ Len(s) \in Nat /\ DOMAIN s = 1 .. Len(s) /\ \A k \in 1 .. Len(s) : s[k] \in Full
      /\ IsSum(First(s), Resolutions(s), Len(s))
      /\ TotalPoints(s) = First(s)[Len(s) + 1]
      /\ \A k \in 1 .. Len(s) :
              SampleRange(s, k) = [first |-> First(s)[k], last |-> First(s)[k] + s[k].resolution - 1]
  BY SlotsAre
<1>2. \A k \in 1 .. Len(s) : SampleRange(s, k) \in [first : Int, last : Int]
  <2> SUFFICES ASSUME NEW k \in 1 .. Len(s) PROVE SampleRange(s, k) \in [first : Int, last : Int]
    OBVIOUS
  <2>0. First(s)[k] \in Nat
    BY <1>1 DEF IsSum
  <2>1. First(s)[k] \in Int /\ s[k].resolution \in Int
    <3>1. s[k] \in Full
      BY <1>1
    <3> QED
      BY <2>0, <3>1 DEF Full
  <2>2. First(s)[k] + s[k].resolution - 1 \in Int
    BY <2>1
  <2> QED
    BY <1>1, <2>1, <2>2
<1>3. \A k \in 1 .. Len(s) : s[k].length \in Nat /\ s[k].color \in Nat /\ s[k].spacing \in Nat
  BY <1>1 DEF Full
<1>4. [i \in DOMAIN s |-> SampleRange(s, i)] \in Seq([first : Int, last : Int])
  <2> DEFINE f == [i \in DOMAIN s |-> SampleRange(s, i)] R == [first : Int, last : Int] n == Len(s)
  <2>1. f \in [1 .. n -> R] /\ n \in Nat
    BY <1>1, <1>2
  <2> HIDE DEF f, R, n
  <2>2. f \in Seq(R)
    BY <2>1
  <2> QED
    BY <2>2 DEF f, R
<1>5. ChainBegins(s) \in SUBSET Int
  <2>1. \A k \in DOMAIN s : SampleRange(s, k).first \in Int
    BY <1>1, <1>2
  <2> QED
    BY <2>1 DEF ChainBegins
<1>6. TotalPoints(s) \in Nat
  BY <1>1 DEF IsSum
<1>7. PatternBound(s) \in Nat
  <2>1. PICK h : /\ IsSum(h, CappedOf(s), Len(s))
                /\ PatternBound(s) = IF h[Len(s) + 1] < MaxPatternCount THEN h[Len(s) + 1]
                                     ELSE MaxPatternCount
    BY PatternBoundIs
  <2>2. h[Len(s) + 1] \in Nat
    BY <1>1, <2>1 DEF IsSum
  <2> QED
    BY <2>1, <2>2, BoundsAssumption
<1>8. /\ [i \in DOMAIN s |-> s[i].length] \in Seq(Nat)
      /\ [i \in DOMAIN s |-> s[i].color] \in Seq(Nat)
      /\ [i \in DOMAIN s |-> s[i].spacing] \in Seq(Nat)
  BY <1>1, <1>3
<1> QED
  BY <1>4, <1>5, <1>6, <1>7, <1>8

\* A buffer after an upload.
Fresh(r, parts, part, buffer, new) ==
  IF r.slots # <<>> /\ r.curvesAllocated > 0 /\ part \in parts THEN new ELSE buffer

UploadsTo(r, parts, u) ==
  /\ u \in RendererType
  /\ u.slots = r.slots /\ u.removed = r.removed
  /\ u.needResize = r.needResize /\ u.needUpload = r.needUpload
  /\ u.uploadParts = r.uploadParts /\ u.totalPoints = r.totalPoints
  /\ u.pointsAllocated = r.pointsAllocated /\ u.curvesAllocated = r.curvesAllocated
  /\ u.patternsAllocated = r.patternsAllocated
  /\ u.bound = IF parts \cap {Positions, Styles} # {} THEN PatternBound(r.slots) ELSE r.bound
  /\ u.needRecount = (r.needRecount \/ parts \cap {Positions, Styles, Layout} # {})
  /\ u.gpu.points = Fresh(r, parts, Positions, r.gpu.points, [i \in DOMAIN r.slots |-> r.slots[i].length])
  /\ u.gpu.colors = Fresh(r, parts, Colors, r.gpu.colors, [i \in DOMAIN r.slots |-> r.slots[i].color])
  /\ u.gpu.styles = Fresh(r, parts, Styles, r.gpu.styles, [i \in DOMAIN r.slots |-> r.slots[i].spacing])
  /\ u.gpu.ranges = Fresh(r, parts, Layout, r.gpu.ranges, [i \in DOMAIN r.slots |-> SampleRange(r.slots, i)])
  /\ u.gpu.map = r.gpu.map /\ u.gpu.begins = r.gpu.begins /\ u.gpu.offsets = r.gpu.offsets

\* What an upload of some of the parts writes, and what it leaves.
LEMMA UploadIs ==
  ASSUME NEW r \in RendererType, r.slots \in Seq(Full), NEW parts \in SUBSET DirtyAll,
         NEW u, u = UploadCurves(r, parts)
  PROVE  UploadsTo(r, parts, u)
<1> DEFINE points == Fresh(r, parts, Positions, r.gpu.points, [i \in DOMAIN r.slots |-> r.slots[i].length])
           colors == Fresh(r, parts, Colors, r.gpu.colors, [i \in DOMAIN r.slots |-> r.slots[i].color])
           styles == Fresh(r, parts, Styles, r.gpu.styles, [i \in DOMAIN r.slots |-> r.slots[i].spacing])
           ranges == Fresh(r, parts, Layout, r.gpu.ranges, [i \in DOMAIN r.slots |-> SampleRange(r.slots, i)])
           cap == IF parts \cap {Positions, Styles} # {} THEN PatternBound(r.slots) ELSE r.bound
           recount == r.needRecount \/ parts \cap {Positions, Styles, Layout} # {}
<1>1. u = [r EXCEPT !.gpu.points = points, !.gpu.colors = colors, !.gpu.ranges = ranges,
                    !.gpu.styles = styles, !.bound = cap, !.needRecount = recount]
  BY DEF UploadCurves, Fresh, RendererType, GpuType
<1>2. points \in Seq(Nat) /\ colors \in Seq(Nat) /\ styles \in Seq(Nat) /\ ranges \in Seq([first : Int, last : Int])
  BY RangesAre DEF Fresh, RendererType, GpuType
<1>3. cap \in Nat /\ recount \in BOOLEAN
  BY RangesAre DEF RendererType
<1> HIDE DEF points, colors, styles, ranges, cap, recount
<1>4. u.gpu = [r.gpu EXCEPT !.points = points, !.colors = colors, !.ranges = ranges, !.styles = styles]
  BY <1>1 DEF RendererType
<1>5. u = [r EXCEPT !.gpu = u.gpu, !.bound = cap, !.needRecount = recount]
  BY <1>1 DEF RendererType
<1>6. /\ u.gpu \in GpuType
      /\ u.gpu.points = points /\ u.gpu.colors = colors /\ u.gpu.ranges = ranges /\ u.gpu.styles = styles
      /\ u.gpu.map = r.gpu.map /\ u.gpu.begins = r.gpu.begins /\ u.gpu.offsets = r.gpu.offsets
  BY <1>2, <1>4 DEF GpuType, RendererType
<1> QED
  BY <1>3, <1>5, <1>6 DEF UploadsTo, RendererType, points, colors, styles, ranges, cap, recount

-------------------------------------------------------------------------------
(* The renderer between two draws *)

\* Uploads fit what was allocated for them.
SizesFit(r) ==
  /\ Len(r.gpu.map) <= r.pointsAllocated
  /\ Len(r.gpu.points) <= r.curvesAllocated
  /\ Len(r.gpu.ranges) <= r.curvesAllocated
  /\ Len(r.gpu.offsets) <= r.curvesAllocated + 1

FollowsRanges(r) == Len(r.gpu.offsets) \in {0, Len(r.gpu.ranges) + 1}

CountWithin(r) ==
  /\ InstanceCount(r) \in Int
  /\ InstanceCount(r) <= r.bound \/ r.bound = MaxPatternCount

\* When no resize is due, each buffer is that of the slots or has its dirty bit.
Uploaded(r) ==
  /\ r.removed = 0 /\ r.slots \in Seq(Full)
  /\ r.totalPoints = TotalPoints(r.slots)
  /\ r.slots # <<>> =>
       /\ Len(r.slots) <= r.curvesAllocated
       /\ SamplesAreOf(r.gpu, r.slots)
       /\ Positions \notin r.uploadParts => r.gpu.points = [i \in DOMAIN r.slots |-> r.slots[i].length]
       /\ Colors \notin r.uploadParts => r.gpu.colors = [i \in DOMAIN r.slots |-> r.slots[i].color]
       /\ Styles \notin r.uploadParts => r.gpu.styles = [i \in DOMAIN r.slots |-> r.slots[i].spacing]
       /\ r.uploadParts \cap {Positions, Styles} = {} => r.bound = PatternBound(r.slots)
       /\ r.uploadParts \cap {Positions, Styles, Layout} = {} /\ ~r.needRecount => CountWithin(r)

Sound(r) ==
  /\ r \in RendererType
  /\ LiveAreFull(r.slots)
  /\ r.removed = 0 => \A i \in DOMAIN r.slots : r.slots[i].owner # Nobody
  /\ SizesFit(r)
  /\ r.uploadParts # {} => r.needUpload
  /\ ~r.needResize => Uploaded(r)

\* What UpdateBuffers leaves for the passes.
UpToDate(u) ==
  /\ Sound(u) /\ ~u.needResize /\ u.uploadParts = {}
  /\ u.needRecount \/ FollowsRanges(u)

\* Any curve at all has two samples.
LEMMA FullHaveSamples ==
  ASSUME NEW s \in Seq(Full), s # <<>>
  PROVE  TotalPoints(s) >= 2 /\ Len(s) >= 1
<1>1. /\ Len(s) \in Nat /\ s[1] \in Full /\ Len(s) >= 1
      /\ IsSum(First(s), Resolutions(s), Len(s)) /\ Resolutions(s) \in [1 .. Len(s) -> Nat]
      /\ TotalPoints(s) = First(s)[Len(s) + 1]
      /\ Resolutions(s)[1] = s[1].resolution
  BY SlotsAre
<1>2. First(s)[1] + Resolutions(s)[1] <= First(s)[Len(s) + 1]
  <2> DEFINE n == Len(s) h == First(s) v == Resolutions(s)
  <2>1. n \in Nat /\ 1 \in 1 .. n /\ IsSum(h, v, n) /\ v \in [1 .. n -> Nat]
    BY <1>1
  <2> HIDE DEF n, h, v
  <2>2. h[1] + v[1] <= h[n + 1]
    BY <2>1, SumGrows
  <2> QED
    BY <2>2 DEF n, h, v
<1>3. First(s)[1] = 0 /\ First(s)[Len(s) + 1] \in Nat /\ s[1].resolution \in Nat \ {0, 1}
  BY <1>1 DEF IsSum, Full
<1> QED
  BY <1>1, <1>2, <1>3

\* No curve, no samples.
LEMMA EmptyHasNone == TotalPoints(<<>>) = 0
<1> DEFINE s == <<>>
<1>1. s \in Seq(Full) /\ Len(s) = 0
  OBVIOUS
<1>2. TotalPoints(s) = First(s)[Len(s) + 1] /\ First(s)[1] = 0
  BY <1>1, SlotsAre DEF IsSum
<1> QED
  BY <1>1, <1>2

\* What the resize makes of the slots.
LEMMA CompactedIs ==
  ASSUME NEW r, Sound(r), NEW c, c = Compacted(r)
  PROVE  /\ c.slots \in Seq(Full)
         /\ c = [r EXCEPT !.slots = c.slots, !.removed = 0, !.totalPoints = TotalPoints(c.slots)]
         /\ TotalPoints(c.slots) \in Nat
<1> DEFINE s == IF r.removed = 0 THEN r.slots ELSE CompactRemoved(r.slots)
<1>0. r \in RendererType /\ r.slots \in Seq(Slot) /\ LiveAreFull(r.slots)
  BY DEF Sound, RendererType
<1>1. s \in Seq(Full)
  <2>1. CASE r.removed = 0
    <3>1. \A i \in 1 .. Len(r.slots) : r.slots[i] \in Full
      BY <1>0, <2>1 DEF Sound, LiveAreFull
    <3>2. r.slots \in Seq(Full)
      BY <1>0, <3>1
    <3> QED
      BY <2>1, <3>2
  <2>2. CASE r.removed # 0
    BY <1>0, <2>2, CompactedIsFull
  <2> QED
    BY <2>1, <2>2
<1>2. c = [r EXCEPT !.slots = s, !.removed = 0, !.totalPoints = TotalPoints(s)]
  BY DEF Compacted
<1> HIDE DEF s
<1>3. c.slots = s
  BY <1>0, <1>2 DEF RendererType
<1> QED
  BY <1>1, <1>2, <1>3, RangesAre

\* Slots without gaps are slots all of which are live.
LEMMA FullAreSlots ==
  ASSUME NEW s \in Seq(Full)
  PROVE  /\ s \in Seq(Slot) /\ LiveAreFull(s)
         /\ \A i \in DOMAIN s : s[i].owner # Nobody
<1>1. Full \subseteq Slot
  BY DEF Full, Slot
<1>2. Len(s) \in Nat /\ DOMAIN s = 1 .. Len(s) /\ \A k \in 1 .. Len(s) : s[k] \in Full
  BY SlotsAre
<1>3. s \in [1 .. Len(s) -> Slot]
  BY <1>1, <1>2
<1>4. s \in Seq(Slot)
  BY <1>2, <1>3
<1>5. \A i \in DOMAIN s : s[i].owner # Nobody
  BY <1>2, HandlesAssumption DEF Full
<1> QED
  BY <1>2, <1>4, <1>5 DEF LiveAreFull

\* The parts to upload are all that is behind the slots.
Behind(r, parts) ==
  /\ Layout \notin parts => r.gpu.ranges = [i \in DOMAIN r.slots |-> SampleRange(r.slots, i)]
  /\ Positions \notin parts => r.gpu.points = [i \in DOMAIN r.slots |-> r.slots[i].length]
  /\ Colors \notin parts => r.gpu.colors = [i \in DOMAIN r.slots |-> r.slots[i].color]
  /\ Styles \notin parts => r.gpu.styles = [i \in DOMAIN r.slots |-> r.slots[i].spacing]
  /\ parts \cap {Positions, Styles} = {} => r.bound = PatternBound(r.slots)
  /\ parts \cap {Positions, Styles, Layout} = {} /\ ~r.needRecount => CountWithin(r)

\* After an upload of all that is dirty, no buffer is behind another.
LEMMA UploadedIsUpToDate ==
  ASSUME NEW r \in RendererType, r.slots \in Seq(Full), r.removed = 0,
         r.totalPoints = TotalPoints(r.slots), SizesFit(r),
         r.slots # <<>>, Len(r.slots) <= r.curvesAllocated,
         NEW parts \in SUBSET DirtyAll, NEW u, u = UploadCurves(r, parts),
         r.gpu.map = SampleMap(r.slots), r.gpu.begins = ChainBegins(r.slots),
         Behind(r, parts),
         r.needRecount \/ FollowsRanges(r)
  PROVE  /\ u \in RendererType /\ u.slots = r.slots /\ u.needResize = r.needResize
         /\ SizesFit(u) /\ u.totalPoints = r.totalPoints
         /\ Uploaded([u EXCEPT !.needUpload = FALSE, !.uploadParts = {}])
         /\ u.needRecount \/ FollowsRanges(u)
<1> DEFINE s == r.slots n == Len(s)
           v == [u EXCEPT !.needUpload = FALSE, !.uploadParts = {}]
<1>0. UploadsTo(r, parts, u)
  BY UploadIs
<1>1. /\ u \in RendererType
      /\ u.slots = r.slots /\ u.removed = r.removed
      /\ u.needResize = r.needResize /\ u.totalPoints = r.totalPoints
      /\ u.pointsAllocated = r.pointsAllocated /\ u.curvesAllocated = r.curvesAllocated
      /\ u.bound = IF parts \cap {Positions, Styles} # {} THEN PatternBound(s) ELSE r.bound
      /\ u.needRecount = (r.needRecount \/ parts \cap {Positions, Styles, Layout} # {})
      /\ u.gpu.map = r.gpu.map /\ u.gpu.begins = r.gpu.begins /\ u.gpu.offsets = r.gpu.offsets
  BY <1>0 DEF UploadsTo
<1>2. s # <<>> /\ r.curvesAllocated > 0 /\ n \in Nat /\ n >= 1 /\ DOMAIN s = 1 .. n
  <2>1. r.curvesAllocated \in Nat
    BY DEF RendererType
  <2> QED
    BY <2>1, FullHaveSamples, SlotsAre
<1>3. /\ u.gpu.points = [i \in DOMAIN s |-> s[i].length]
      /\ u.gpu.colors = [i \in DOMAIN s |-> s[i].color]
      /\ u.gpu.styles = [i \in DOMAIN s |-> s[i].spacing]
      /\ u.gpu.ranges = [i \in DOMAIN s |-> SampleRange(s, i)]
  <2>1. u.gpu.points = Fresh(r, parts, Positions, r.gpu.points, [i \in DOMAIN s |-> s[i].length])
    BY <1>0 DEF UploadsTo
  <2>6. u.gpu.colors = Fresh(r, parts, Colors, r.gpu.colors, [i \in DOMAIN s |-> s[i].color])
    BY <1>0 DEF UploadsTo
  <2>7. u.gpu.styles = Fresh(r, parts, Styles, r.gpu.styles, [i \in DOMAIN s |-> s[i].spacing])
    BY <1>0 DEF UploadsTo
  <2>8. u.gpu.ranges = Fresh(r, parts, Layout, r.gpu.ranges, [i \in DOMAIN s |-> SampleRange(s, i)])
    BY <1>0 DEF UploadsTo
  <2>2. u.gpu.points = [i \in DOMAIN s |-> s[i].length]
    BY <1>2, <2>1 DEF Fresh, Behind
  <2>3. u.gpu.colors = [i \in DOMAIN s |-> s[i].color]
    BY <1>2, <2>6 DEF Fresh, Behind
  <2>4. u.gpu.styles = [i \in DOMAIN s |-> s[i].spacing]
    BY <1>2, <2>7 DEF Fresh, Behind
  <2>5. u.gpu.ranges = [i \in DOMAIN s |-> SampleRange(s, i)]
    BY <1>2, <2>8 DEF Fresh, Behind
  <2> QED
    BY <2>2, <2>3, <2>4, <2>5
<1>4. SizesFit(u)
  <2>1. Len(u.gpu.points) = n /\ Len(u.gpu.ranges) = n
    BY <1>2, <1>3
  <2> QED
    BY <1>1, <2>1 DEF SizesFit
<1>5. u.bound = PatternBound(s)
  BY <1>1 DEF Behind
<1>6. ~u.needRecount => r.gpu.ranges = u.gpu.ranges /\ r.bound = u.bound /\ r.gpu.offsets = u.gpu.offsets /\ ~r.needRecount
  <2>1. ~u.needRecount => Layout \notin parts /\ parts \cap {Positions, Styles} = {} /\ ~r.needRecount
    BY <1>1
  <2> QED
    BY <1>1, <1>3, <2>1 DEF Behind
<1>7. u.needRecount \/ FollowsRanges(u)
  BY <1>6 DEF FollowsRanges
<1>8. ~u.needRecount => CountWithin(u)
  <2>1. ~u.needRecount => parts \cap {Positions, Styles, Layout} = {} /\ ~r.needRecount
    BY <1>1
  <2> QED
    BY <1>6, <2>1 DEF Behind, CountWithin, InstanceCount
<1>9. /\ v.slots = s /\ v.removed = 0 /\ v.totalPoints = TotalPoints(s)
      /\ v.curvesAllocated = r.curvesAllocated /\ v.gpu = u.gpu /\ v.uploadParts = {}
      /\ v.bound = u.bound /\ v.needRecount = u.needRecount
  BY <1>1 DEF RendererType
<1>10. SamplesAreOf(v.gpu, s)
  BY <1>1, <1>3, <1>9 DEF SamplesAreOf
<1>11. ~v.needRecount => CountWithin(v)
  BY <1>8, <1>9 DEF CountWithin, InstanceCount
<1> HIDE DEF v
<1>12. Uploaded(v)
  BY <1>3, <1>5, <1>9, <1>10, <1>11 DEF Uploaded
<1> QED
  BY <1>1, <1>4, <1>7, <1>12 DEF v

\* The buffers that AllocateBuffers leaves to UploadCurves.
MappedFrom(c) ==
  LET points == FitCapacity(c.pointsAllocated, c.totalPoints)
      curves == FitCapacity(c.curvesAllocated, Len(c.slots))
      grown == [c EXCEPT
        !.pointsAllocated = points,
        !.curvesAllocated = curves,
        !.gpu = IF curves = c.curvesAllocated THEN @
                ELSE [@ EXCEPT !.points = Blank, !.colors = Blank, !.styles = Blank,
                               !.ranges = Blank, !.offsets = Blank]]
  IN  [grown EXCEPT !.gpu.map = SampleMap(c.slots),
                    !.gpu.begins = ChainBegins(c.slots)]

\* After the resize the sample map and the ranges are those of the slots.
LEMMA MappedIs ==
  ASSUME NEW r, Sound(r), FollowsRanges(r), NEW c, c = Compacted(r), c.slots # <<>>,
         NEW m, m = MappedFrom(c)
  PROVE  /\ m \in RendererType /\ m.slots = c.slots /\ m.removed = 0
         /\ m.totalPoints = TotalPoints(c.slots) /\ SizesFit(m) /\ FollowsRanges(m)
         /\ Len(c.slots) <= m.curvesAllocated
         /\ m.gpu.map = SampleMap(c.slots) /\ m.gpu.begins = ChainBegins(c.slots)
<1> DEFINE s == c.slots
           points == FitCapacity(r.pointsAllocated, TotalPoints(s))
           curves == FitCapacity(r.curvesAllocated, Len(s))
           gpu == IF curves = r.curvesAllocated THEN r.gpu
                  ELSE [r.gpu EXCEPT !.points = Blank, !.colors = Blank, !.styles = Blank,
                                     !.ranges = Blank, !.offsets = Blank]
           map == SampleMap(s) begins == ChainBegins(s)
<1>0. r \in RendererType /\ r.gpu \in GpuType /\ SizesFit(r)
  BY DEF Sound, RendererType
<1>1. /\ s \in Seq(Full) /\ s # <<>> /\ TotalPoints(s) \in Nat /\ Len(s) \in Nat
      /\ c = [r EXCEPT !.slots = s, !.removed = 0, !.totalPoints = TotalPoints(s)]
  BY CompactedIs, SlotsAre
<1>2. /\ c.pointsAllocated = r.pointsAllocated /\ c.curvesAllocated = r.curvesAllocated
      /\ c.totalPoints = TotalPoints(s) /\ c.gpu = r.gpu
  <2> HIDE DEF s
  <2> QED
    BY <1>0, <1>1 DEF RendererType
<1>3. m = [[c EXCEPT !.pointsAllocated = points, !.curvesAllocated = curves, !.gpu = gpu]
             EXCEPT !.gpu.map = map, !.gpu.begins = begins]
  <2>1. [c EXCEPT !.gpu = gpu] = [c EXCEPT !.gpu = IF curves = c.curvesAllocated THEN c.gpu
                ELSE [c.gpu EXCEPT !.points = Blank, !.colors = Blank, !.styles = Blank,
                               !.ranges = Blank, !.offsets = Blank]]
    BY <1>2
  <2> QED
    BY <1>2, <2>1 DEF MappedFrom
<1>4. points \in Nat /\ curves \in Nat /\ points >= TotalPoints(s) /\ curves >= Len(s)
  <2>1. r.pointsAllocated \in Nat /\ r.curvesAllocated \in Nat
    BY <1>0 DEF RendererType
  <2> QED
    BY <1>1, <2>1, CapacityFits
<1>5. map \in Seq(MapEntry) /\ Len(map) = TotalPoints(s) /\ begins \in SUBSET Int
  BY <1>1, MapIs, RangesAre
<1>6. s \in Seq(Slot)
  BY <1>1, FullAreSlots
<1>7. /\ gpu \in GpuType
      /\ Len(gpu.points) <= curves /\ Len(gpu.ranges) <= curves /\ Len(gpu.offsets) <= curves + 1
      /\ Len(gpu.offsets) \in {0, Len(gpu.ranges) + 1}
  <2>1. CASE curves = r.curvesAllocated
    <3>1. gpu = r.gpu
      BY <2>1
    <3> HIDE DEF curves, gpu
    <3> QED
      BY <1>0, <2>1, <3>1 DEF SizesFit, FollowsRanges
  <2>2. CASE curves # r.curvesAllocated
    <3>1. gpu = [r.gpu EXCEPT !.points = Blank, !.colors = Blank, !.styles = Blank,
                                     !.ranges = Blank, !.offsets = Blank]
      BY <2>2
    <3>2. Blank \in Seq(Nat) /\ Blank \in Seq([first : Int, last : Int]) /\ Blank \in Seq(Int) /\ Len(Blank) = 0
      BY DEF Blank
    <3> HIDE DEF curves, gpu
    <3>3. /\ gpu \in GpuType /\ gpu.points = Blank /\ gpu.ranges = Blank /\ gpu.offsets = Blank
      BY <1>0, <3>1, <3>2 DEF GpuType
    <3> QED
      BY <1>4, <3>2, <3>3
  <2> QED
    BY <2>1, <2>2
<1>12. c \in RendererType /\ c.slots = s /\ c.removed = 0
  <2> DEFINE total == TotalPoints(s)
  <2>1. total \in Nat /\ c = [r EXCEPT !.slots = s, !.removed = 0, !.totalPoints = total]
    BY <1>1
  <2>2. r \in RendererType /\ s \in Seq(Slot) /\ 0 \in Nat
    BY <1>0, <1>6
  <2> HIDE DEF s, total
  <2>3. c \in RendererType
    BY <2>1, <2>2 DEF RendererType
  <2>4. c.slots = s /\ c.removed = 0
    BY <2>1, <2>2 DEF RendererType
  <2> QED
    BY <2>3, <2>4
<1>8. m.gpu = [gpu EXCEPT !.map = map, !.begins = begins]
      /\ m = [c EXCEPT !.pointsAllocated = points, !.curvesAllocated = curves, !.gpu = m.gpu]
  <2> HIDE DEF s, points, curves, gpu, map, begins
  <2> QED
    BY <1>3, <1>12 DEF RendererType
<1> HIDE DEF s, points, curves, gpu, map, begins
<1>9. /\ m.gpu \in GpuType /\ m.gpu.map = map /\ m.gpu.begins = begins
      /\ m.gpu.points = gpu.points /\ m.gpu.ranges = gpu.ranges /\ m.gpu.offsets = gpu.offsets
  BY <1>5, <1>7, <1>8 DEF GpuType
<1>10. /\ m \in RendererType /\ m.slots = s /\ m.removed = 0 /\ m.totalPoints = TotalPoints(s)
       /\ m.pointsAllocated = points /\ m.curvesAllocated = curves
  BY <1>2, <1>4, <1>8, <1>9, <1>12 DEF RendererType
<1>11. SizesFit(m) /\ FollowsRanges(m)
  BY <1>4, <1>5, <1>7, <1>9, <1>10 DEF SizesFit, FollowsRanges
<1> QED
  BY <1>4, <1>9, <1>10, <1>11 DEF s, map, begins

\* The dirty bits are different bits.
LEMMA PartsDiffer ==
  /\ Positions # Colors /\ Positions # Styles /\ Positions # Layout
  /\ Colors # Styles /\ Colors # Layout /\ Styles # Layout
  /\ Positions \in DirtyAll /\ Colors \in DirtyAll /\ Styles \in DirtyAll /\ Layout \in DirtyAll
BY DEF Positions, Colors, Styles, Layout, DirtyAll

\* UpdateBuffers leaves every buffer that of the slots, whatever was dirty.
LEMMA UpdatedIs ==
  ASSUME NEW r, Sound(r), FollowsRanges(r), Count(r) # 0, NEW u, u = UpdateBuffers(r)
  PROVE  UpToDate(u) /\ (u.totalPoints < 2 => FollowsRanges(u)) /\ (u.slots # <<>> => u.totalPoints >= 2)
<1>0. r \in RendererType /\ SizesFit(r)
  BY DEF Sound
<1>1. CASE r.needResize
  <2> DEFINE c == Compacted(r) s == c.slots a == AllocateBuffers(r)
  <2>1. /\ s \in Seq(Full) /\ TotalPoints(s) \in Nat
        /\ c = [r EXCEPT !.slots = s, !.removed = 0, !.totalPoints = TotalPoints(s)]
    BY CompactedIs
  <2>2. s \in Seq(Slot) /\ LiveAreFull(s) /\ \A i \in DOMAIN s : s[i].owner # Nobody
    BY <2>1, FullAreSlots
  <2>3. u = [[a EXCEPT !.needUpload = FALSE, !.uploadParts = {}] EXCEPT !.needResize = FALSE]
    BY <1>1 DEF UpdateBuffers
  <2> HIDE DEF c, s, a
  <2>4. c.totalPoints = TotalPoints(s) /\ c \in RendererType
    BY <1>0, <2>1, <2>2 DEF RendererType
  <2>5. CASE s = <<>>
    <3>1. c.totalPoints < 2 /\ TotalPoints(s) = 0
      BY <2>4, <2>5, EmptyHasNone
    <3>2. a = [c EXCEPT !.totalPoints = 0, !.bound = 0]
      BY <3>1 DEF AllocateBuffers, a, c
    <3>3. /\ u \in RendererType /\ u.slots = s /\ u.removed = 0 /\ u.totalPoints = 0
          /\ u.pointsAllocated = r.pointsAllocated /\ u.curvesAllocated = r.curvesAllocated
          /\ u.gpu = r.gpu /\ ~u.needResize /\ u.uploadParts = {}
      <4>1. c.slots = s /\ c.removed = 0 /\ c.gpu = r.gpu
            /\ c.pointsAllocated = r.pointsAllocated /\ c.curvesAllocated = r.curvesAllocated
        BY <1>0, <2>1 DEF RendererType
      <4>2. /\ a \in RendererType /\ a.slots = c.slots /\ a.removed = c.removed /\ a.totalPoints = 0
            /\ a.pointsAllocated = c.pointsAllocated /\ a.curvesAllocated = c.curvesAllocated
            /\ a.gpu = c.gpu
        BY <2>4, <3>2 DEF RendererType
      <4>3. /\ u \in RendererType /\ u.slots = a.slots /\ u.removed = a.removed /\ u.totalPoints = a.totalPoints
            /\ u.pointsAllocated = a.pointsAllocated /\ u.curvesAllocated = a.curvesAllocated
            /\ u.gpu = a.gpu /\ ~u.needResize /\ u.uploadParts = {}
        BY <2>3, <4>2 DEF RendererType
      <4> QED
        BY <4>1, <4>2, <4>3
    <3>4. SizesFit(u) /\ FollowsRanges(u)
      BY <1>0, <3>3 DEF SizesFit, FollowsRanges
    <3>5. Uploaded(u)
      BY <2>1, <2>5, <3>1, <3>3 DEF Uploaded
    <3> QED
      BY <2>2, <2>5, <3>3, <3>4, <3>5 DEF Sound, UpToDate
  <2>6. CASE s # <<>>
    <3> DEFINE m == MappedFrom(c) w == UploadCurves(m, DirtyAll)
               v == [w EXCEPT !.needUpload = FALSE, !.uploadParts = {}]
    <3>1. TotalPoints(s) >= 2 /\ ~(c.totalPoints < 2)
      BY <2>1, <2>4, <2>6, FullHaveSamples
    <3>2. a = w
      BY <3>1 DEF AllocateBuffers, MappedFrom, a, c
    <3>3. /\ m \in RendererType /\ m.slots = s /\ m.removed = 0
          /\ m.totalPoints = TotalPoints(s) /\ SizesFit(m) /\ FollowsRanges(m)
          /\ Len(s) <= m.curvesAllocated
          /\ m.gpu.map = SampleMap(s) /\ m.gpu.begins = ChainBegins(s)
      <4> HIDE DEF m
      <4>1. m = MappedFrom(c) /\ c = Compacted(r) /\ c.slots = s
        BY DEF m, c, s
      <4> QED
        BY <2>6, <4>1, MappedIs
    <3> HIDE DEF m
    <3>4. DirtyAll \in SUBSET DirtyAll /\ DirtyAll \cap {Positions, Styles} # {} /\ DirtyAll \cap {Positions, Styles, Layout} # {}
      BY PartsDiffer
    <3>5. /\ w \in RendererType /\ w.slots = s /\ w.needResize = m.needResize
          /\ SizesFit(w) /\ w.totalPoints = TotalPoints(s)
          /\ Uploaded(v) /\ (w.needRecount \/ FollowsRanges(w))
      <4> HIDE DEF w
      <4>1. w = UploadCurves(m, DirtyAll)
        BY DEF w
      <4>2. Behind(m, DirtyAll)
        BY <3>4, PartsDiffer DEF Behind
      <4> QED
        BY <2>1, <2>6, <3>3, <3>4, <4>1, <4>2, UploadedIsUpToDate
    <3>6. /\ u = [v EXCEPT !.needResize = FALSE]
          /\ v \in RendererType
      BY <2>3, <3>2, <3>5 DEF RendererType
    <3>7. /\ v.slots = s /\ v.totalPoints = TotalPoints(s) /\ v.gpu = w.gpu /\ v.uploadParts = {}
          /\ v.pointsAllocated = w.pointsAllocated /\ v.curvesAllocated = w.curvesAllocated
          /\ v.needRecount = w.needRecount
      BY <3>5 DEF RendererType
    <3> HIDE DEF v, w
    <3>8. /\ u \in RendererType /\ u.slots = v.slots /\ u.removed = v.removed /\ ~u.needResize
          /\ u.totalPoints = v.totalPoints /\ u.uploadParts = v.uploadParts /\ u.bound = v.bound
          /\ u.pointsAllocated = v.pointsAllocated /\ u.curvesAllocated = v.curvesAllocated
          /\ u.gpu = v.gpu /\ u.needRecount = v.needRecount
      BY <3>6 DEF RendererType
    <3>9. Uploaded(u)
      <4>1. CountWithin(v) => CountWithin(u)
        BY <3>8 DEF CountWithin, InstanceCount
      <4> QED
        BY <3>5, <3>8, <4>1 DEF Uploaded
    <3>10. SizesFit(u) /\ (u.needRecount \/ FollowsRanges(u))
      BY <3>5, <3>7, <3>8 DEF SizesFit, FollowsRanges
    <3>11. LiveAreFull(u.slots) /\ \A i \in DOMAIN u.slots : u.slots[i].owner # Nobody
      BY <2>2, <3>7, <3>8
    <3>12. u.uploadParts = {} /\ u.totalPoints >= 2 /\ ~(u.totalPoints < 2)
      BY <2>1, <3>1, <3>7, <3>8
    <3> QED
      BY <3>8, <3>9, <3>10, <3>11, <3>12 DEF Sound, UpToDate
  <2> QED
    BY <2>5, <2>6
<1>2. CASE ~r.needResize
  <2> DEFINE s == r.slots
  <2>1. Uploaded(r)
    BY <1>2 DEF Sound
  <2>2. s \in Seq(Full) /\ r.removed = 0 /\ s # <<>> /\ r.totalPoints = TotalPoints(s) /\ TotalPoints(s) >= 2
    <3>1. s \in Seq(Full) /\ r.removed = 0 /\ r.totalPoints = TotalPoints(s)
      BY <2>1 DEF Uploaded
    <3>2. s # <<>>
      BY <3>1 DEF Count
    <3> QED
      BY <3>1, <3>2, FullHaveSamples
  <2>3. CASE ~r.needUpload
    <3>1. u = r
      BY <1>2, <2>3 DEF UpdateBuffers
    <3>2. r.uploadParts = {}
      BY <2>3 DEF Sound
    <3> QED
      BY <1>2, <2>2, <3>1, <3>2, RangesAre DEF UpToDate
  <2>4. CASE r.needUpload
    <3> DEFINE parts == IF r.uploadParts = {} THEN DirtyAll ELSE r.uploadParts
               w == UploadCurves(r, parts)
               v == [w EXCEPT !.needUpload = FALSE, !.uploadParts = {}]
    <3>1. u = v
      BY <1>2, <2>4 DEF UpdateBuffers
    <3>2. parts \in SUBSET DirtyAll /\ r.uploadParts \subseteq parts
      BY <1>0 DEF RendererType
    <3> HIDE DEF s
    <3>3. /\ Len(s) <= r.curvesAllocated
          /\ SamplesAreOf(r.gpu, s)
          /\ Positions \notin parts => r.gpu.points = [i \in DOMAIN s |-> s[i].length]
          /\ Colors \notin parts => r.gpu.colors = [i \in DOMAIN s |-> s[i].color]
          /\ Styles \notin parts => r.gpu.styles = [i \in DOMAIN s |-> s[i].spacing]
          /\ parts \cap {Positions, Styles} = {} => r.bound = PatternBound(s)
          /\ parts \cap {Positions, Styles, Layout} = {} /\ ~r.needRecount => CountWithin(r)
      <4>1. parts \cap {Positions, Styles} = {} => r.uploadParts \cap {Positions, Styles} = {}
        BY <3>2
      <4>2. parts \cap {Positions, Styles, Layout} = {} => r.uploadParts \cap {Positions, Styles, Layout} = {}
        BY <3>2
      <4> HIDE DEF parts
      <4>3. s = r.slots
        BY DEF s
      <4> QED
        BY <2>1, <2>2, <3>2, <4>1, <4>2, <4>3 DEF Uploaded
    <3>4. /\ r.gpu.map = SampleMap(s) /\ r.gpu.begins = ChainBegins(s)
          /\ r.gpu.ranges = [i \in DOMAIN s |-> SampleRange(s, i)]
      BY <3>3 DEF SamplesAreOf
    <3> HIDE DEF parts
    <3>5. /\ w \in RendererType /\ w.slots = s /\ w.needResize = r.needResize
          /\ SizesFit(w) /\ w.totalPoints = r.totalPoints
          /\ Uploaded(v) /\ (w.needRecount \/ FollowsRanges(w))
      <4> HIDE DEF w
      <4>1. w = UploadCurves(r, parts)
        BY DEF w
      <4>2. r \in RendererType /\ r.slots \in Seq(Full) /\ r.removed = 0
        BY <1>0, <2>2 DEF s
      <4>3. r.totalPoints = TotalPoints(r.slots) /\ SizesFit(r) /\ r.slots # <<>>
        BY <1>0, <2>2 DEF s
      <4>4. Len(r.slots) <= r.curvesAllocated /\ r.gpu.map = SampleMap(r.slots) /\ r.gpu.begins = ChainBegins(r.slots)
        BY <3>3, <3>4 DEF s
      <4>5. Behind(r, parts)
        BY <3>3, <3>4 DEF Behind, s
      <4>7. parts \in SUBSET DirtyAll /\ (r.needRecount \/ FollowsRanges(r))
        BY <3>2
      <4>8. /\ w \in RendererType /\ w.slots = r.slots /\ w.needResize = r.needResize
            /\ SizesFit(w) /\ w.totalPoints = r.totalPoints
            /\ Uploaded([w EXCEPT !.needUpload = FALSE, !.uploadParts = {}])
            /\ (w.needRecount \/ FollowsRanges(w))
        BY <4>1, <4>2, <4>3, <4>4, <4>5, <4>7, UploadedIsUpToDate
      <4> QED
        BY <4>8 DEF s, v
    <3> HIDE DEF w
    <3>6. /\ v \in RendererType /\ v.slots = s /\ v.totalPoints = r.totalPoints /\ v.gpu = w.gpu /\ v.uploadParts = {}
          /\ v.pointsAllocated = w.pointsAllocated /\ v.curvesAllocated = w.curvesAllocated
          /\ v.needRecount = w.needRecount /\ v.needResize = r.needResize
      BY <3>5 DEF RendererType
    <3> HIDE DEF v
    <3>7. SizesFit(v) /\ (v.needRecount \/ FollowsRanges(v))
      BY <3>5, <3>6 DEF SizesFit, FollowsRanges
    <3>8. LiveAreFull(s) /\ \A i \in DOMAIN s : s[i].owner # Nobody
      BY <2>2, FullAreSlots
    <3>9. v.totalPoints >= 2 /\ ~(v.totalPoints < 2)
      <4>1. TotalPoints(s) \in Nat
        BY <2>2, RangesAre
      <4> QED
        BY <2>2, <3>6, <4>1 DEF s
    <3> QED
      BY <1>2, <3>1, <3>5, <3>6, <3>7, <3>8, <3>9 DEF Sound, UpToDate
  <2> QED
    BY <2>3, <2>4
<1> QED
  BY <1>1, <1>2

-------------------------------------------------------------------------------
(* A draw *)

Rests(r) == Sound(r) /\ FollowsRanges(r)

\* What a draw leaves: if anything is to be seen, all of it is up to date.
DrawnWell(d) ==
  /\ Rests(d)
  /\ Visible(d) =>
       /\ ~d.needResize /\ d.uploadParts = {} /\ d.slots # <<>>
       /\ ~d.needRecount /\ d.bound <= d.patternsAllocated

\* Recounting leaves offsets of these ranges, under the CPU's bound or at the cap.
LEMMA RecountedIs ==
  ASSUME NEW u \in RendererType, SizesFit(u), u.needRecount \/ FollowsRanges(u),
         Uploaded(u), u.uploadParts = {}, u.slots # <<>>, NEW d, d = Recount(u)
  PROVE  /\ d \in RendererType /\ SizesFit(d) /\ FollowsRanges(d) /\ Uploaded(d) /\ ~d.needRecount
         /\ d.slots = u.slots /\ d.removed = u.removed /\ d.needResize = u.needResize
         /\ d.needUpload = u.needUpload /\ d.uploadParts = {}
         /\ d.bound = u.bound /\ d.patternsAllocated = u.patternsAllocated
<1>1. CASE ~u.needRecount
  <2>1. d = u
    BY <1>1 DEF Recount
  <2> QED
    BY <1>1, <2>1
<1>2. CASE u.needRecount
  <2> DEFINE s == u.slots o == Offsets(u.gpu)
  <2>1. d = [[u EXCEPT !.gpu.offsets = o] EXCEPT !.needRecount = FALSE]
    BY <1>2 DEF Recount, RendererType
  <2>2. /\ s \in Seq(Full) /\ u.totalPoints = TotalPoints(s) /\ u.removed = 0
        /\ SamplesAreOf(u.gpu, s) /\ CurvesAreOf(u.gpu, s)
        /\ Len(s) <= u.curvesAllocated /\ u.bound = PatternBound(s)
    BY DEF Uploaded, CurvesAreOf
  <2>3. /\ o \in Seq(Int) /\ Len(o) = Len(s) + 1
        /\ Seqs!Last(o) \in Int
        /\ Seqs!Last(o) <= PatternBound(s) \/ PatternBound(s) = MaxPatternCount
    BY <2>2, CountIsBounded
  <2>4. Len(u.gpu.ranges) = Len(s) /\ Len(s) \in Nat /\ u.gpu \in GpuType
    BY <2>2, SlotsAre DEF SamplesAreOf, RendererType
  <2> HIDE DEF o, s
  <2>5. /\ d.gpu = [u.gpu EXCEPT !.offsets = o]
        /\ d = [u EXCEPT !.gpu = d.gpu, !.needRecount = FALSE]
    BY <2>1 DEF RendererType
  <2>6. /\ d.gpu \in GpuType /\ d.gpu.offsets = o /\ d.gpu.points = u.gpu.points /\ d.gpu.colors = u.gpu.colors
        /\ d.gpu.styles = u.gpu.styles /\ d.gpu.ranges = u.gpu.ranges /\ d.gpu.map = u.gpu.map
        /\ d.gpu.begins = u.gpu.begins
    BY <2>3, <2>4, <2>5 DEF GpuType
  <2>7. /\ d \in RendererType /\ ~d.needRecount /\ d.slots = s /\ d.removed = u.removed
        /\ d.needResize = u.needResize /\ d.needUpload = u.needUpload /\ d.uploadParts = {}
        /\ d.bound = u.bound /\ d.patternsAllocated = u.patternsAllocated
        /\ d.pointsAllocated = u.pointsAllocated /\ d.curvesAllocated = u.curvesAllocated
        /\ d.totalPoints = u.totalPoints
    BY <2>5, <2>6 DEF RendererType, s
  <2>8. SizesFit(d) /\ FollowsRanges(d)
    <3>1. u.curvesAllocated \in Nat
      BY DEF RendererType
    <3>2. Len(d.gpu.offsets) <= d.curvesAllocated + 1
      BY <2>2, <2>3, <2>4, <2>6, <2>7, <3>1
    <3> QED
      BY <2>3, <2>4, <2>6, <2>7, <3>2 DEF SizesFit, FollowsRanges
  <2>9. CountWithin(d)
    BY <2>2, <2>3, <2>6, <2>7 DEF CountWithin, InstanceCount
  <2>10. SamplesAreOf(d.gpu, s) /\ CurvesAreOf(d.gpu, s)
    BY <2>2, <2>6 DEF SamplesAreOf, CurvesAreOf
  <2>11. Uploaded(d)
    BY <2>2, <2>7, <2>9, <2>10 DEF Uploaded, CurvesAreOf
  <2> QED
    BY <2>7, <2>8, <2>11 DEF s
<1> QED
  BY <1>1, <1>2

\* The passes of a draw run on what UpdateBuffers left.
LEMMA PassesLeave ==
  ASSUME NEW u, UpToDate(u), u.totalPoints < 2 => FollowsRanges(u), u.slots # <<>> => u.totalPoints >= 2,
         NEW d, d = PassesRun(u)
  PROVE  DrawnWell(d)
<1>0. u \in RendererType /\ Sound(u) /\ ~u.needResize /\ u.uploadParts = {} /\ Uploaded(u) /\ u.totalPoints \in Nat
  BY DEF UpToDate, Sound, RendererType
<1>1. CASE u.totalPoints < 2
  <2>1. d = u /\ ~(u.totalPoints >= 2)
    BY <1>0, <1>1 DEF PassesRun
  <2> QED
    BY <1>0, <1>1, <2>1 DEF DrawnWell, Rests, Visible
<1>2. CASE ~(u.totalPoints < 2)
  <2> DEFINE n == FitCapacity(u.patternsAllocated, u.bound) a == [u EXCEPT !.patternsAllocated = n]
  <2>1. d = Recount(a)
    BY <1>2 DEF PassesRun, AllocatePatternBuffer
  <2>2. n \in Nat /\ n >= u.bound
    <3>1. u.patternsAllocated \in Nat /\ u.bound \in Nat
      BY <1>0 DEF RendererType
    <3> QED
      BY <3>1, CapacityFits
  <2>3. u.slots # <<>>
    <3>1. u.totalPoints = TotalPoints(u.slots)
      BY <1>0 DEF Uploaded
    <3> QED
      BY <1>2, <3>1, EmptyHasNone
  <2> HIDE DEF n
  <2>4. /\ a \in RendererType /\ a.slots = u.slots /\ a.removed = u.removed /\ a.needResize = u.needResize
        /\ a.needUpload = u.needUpload /\ a.uploadParts = u.uploadParts /\ a.bound = u.bound
        /\ a.patternsAllocated = n /\ a.gpu = u.gpu /\ a.totalPoints = u.totalPoints
        /\ a.pointsAllocated = u.pointsAllocated /\ a.curvesAllocated = u.curvesAllocated
        /\ a.needRecount = u.needRecount
    BY <1>0, <2>2 DEF RendererType
  <2> HIDE DEF a
  <2>5. SizesFit(a) /\ (a.needRecount \/ FollowsRanges(a))
    BY <1>0, <2>4 DEF SizesFit, FollowsRanges, UpToDate, Sound
  <2>6. Uploaded(a)
    <3>1. CountWithin(u) => CountWithin(a)
      BY <2>4 DEF CountWithin, InstanceCount
    <3> QED
      BY <1>0, <2>4, <3>1 DEF Uploaded
  <2>7. /\ d \in RendererType /\ SizesFit(d) /\ FollowsRanges(d) /\ Uploaded(d) /\ ~d.needRecount
        /\ d.slots = u.slots /\ d.removed = u.removed /\ d.needResize = u.needResize
        /\ d.uploadParts = {} /\ d.bound = u.bound /\ d.patternsAllocated = n
    BY <1>0, <2>1, <2>3, <2>4, <2>5, <2>6, RecountedIs
  <2>8. Sound(d)
    BY <1>0, <2>7 DEF Sound
  <2>9. u.bound \in Nat
    BY <1>0 DEF RendererType
  <2> QED
    BY <1>0, <2>2, <2>3, <2>7, <2>8, <2>9 DEF DrawnWell, Rests
<1> QED
  BY <1>1, <1>2

\* Removing the curves that now belong to the other renderer keeps the invariant.
LEMMA RoutedAway ==
  ASSUME NEW r, Rests(r), NEW a, a = RouteAway(r)
  PROVE  Rests(a)
<1> DEFINE s == r.slots gone == Elsewhere(s)
           t == [i \in DOMAIN s |-> IF i \in gone THEN Emptied ELSE s[i]]
<1>0. r \in RendererType /\ s \in Seq(Slot) /\ Len(s) \in Nat /\ DOMAIN s = 1 .. Len(s) /\ r.removed \in Nat
      /\ LiveAreFull(s) /\ SizesFit(r) /\ FollowsRanges(r)
  BY DEF Rests, Sound, RendererType
<1>1. gone \subseteq 1 .. Len(s) /\ IsFiniteSet(gone) /\ Cardinality(gone) \in Nat /\ (Cardinality(gone) = 0 <=> gone = {})
  <2>1. gone \subseteq 1 .. Len(s)
    BY <1>0 DEF Elsewhere, Live
  <2> HIDE DEF gone
  <2>2. IsFiniteSet(1 .. Len(s))
    BY <1>0, FS_Interval
  <2> QED
    BY <2>1, <2>2, FS_Subset, FS_CardinalityType, FS_EmptySet
<1>2. a = [r EXCEPT !.slots = t, !.removed = @ + Cardinality(gone), !.needResize = @ \/ gone # {}]
  BY DEF RouteAway
<1> HIDE DEF gone
<1>3. CASE gone = {}
  <2>1. t = s
    BY <1>0, <1>3
  <2>2. r.removed + Cardinality(gone) = r.removed /\ (r.needResize \/ gone # {}) = r.needResize
    BY <1>0, <1>1, <1>3 DEF RendererType
  <2> HIDE DEF t
  <2>3. a = [r EXCEPT !.slots = r.slots, !.removed = r.removed, !.needResize = r.needResize]
    BY <1>2, <2>1, <2>2
  <2>4. a = r
    BY <1>0, <2>3 DEF RendererType
  <2> QED
    BY <2>4
<1>4. CASE gone # {}
  <2> DEFINE m == r.removed + Cardinality(gone)
  <2>1. m \in Nat /\ m # 0
    <3>1. Cardinality(gone) \in Nat /\ Cardinality(gone) # 0 /\ r.removed \in Nat
      BY <1>0, <1>1, <1>4
    <3> QED
      BY <3>1
  <2>2. Emptied \in Slot /\ Emptied.owner = Nobody
    BY DEF Emptied, Slot
  <2>3. /\ DOMAIN t = 1 .. Len(s) /\ t \in Seq(Slot)
        /\ \A i \in 1 .. Len(s) : t[i] = IF i \in gone THEN Emptied ELSE s[i]
    BY <1>0, <2>2
  <2>4. LiveAreFull(t)
    BY <1>0, <2>2, <2>3 DEF LiveAreFull
  <2>5. a = [r EXCEPT !.slots = t, !.removed = m, !.needResize = TRUE]
    BY <1>2, <1>4
  <2> HIDE DEF t, m
  <2>6. /\ a \in RendererType /\ a.slots = t /\ a.removed = m /\ a.needResize
        /\ a.gpu = r.gpu /\ a.uploadParts = r.uploadParts /\ a.needUpload = r.needUpload
        /\ a.pointsAllocated = r.pointsAllocated /\ a.curvesAllocated = r.curvesAllocated
    BY <1>0, <2>1, <2>3, <2>5 DEF RendererType
  <2> QED
    BY <1>0, <2>1, <2>4, <2>6 DEF Rests, Sound, SizesFit, FollowsRanges
<1> QED
  BY <1>3, <1>4

\* A draw from a renderer at rest ends with all that is visible up to date.
LEMMA DrawLeaves ==
  ASSUME NEW r, Rests(r)
  PROVE  DrawnWell(Drawn(r))
<1> DEFINE a == RouteAway(r) d == Drawn(r) u == UpdateBuffers(a)
<1>1. Rests(a)
  BY RoutedAway
<1>2. CASE Count(a) = 0
  <2>1. d = a
    BY <1>2 DEF Drawn, DrawnHere
  <2> QED
    BY <1>1, <1>2, <2>1 DEF DrawnWell, Visible
<1>3. CASE Count(a) # 0
  <2>1. d = PassesRun(u)
    BY <1>3 DEF Drawn, DrawnHere
  <2> HIDE DEF a, d
  <2>2. UpToDate(u) /\ (u.totalPoints < 2 => FollowsRanges(u)) /\ (u.slots # <<>> => u.totalPoints >= 2)
    <3> HIDE DEF u
    <3>1. u = UpdateBuffers(a)
      BY DEF u
    <3> QED
      BY <1>1, <1>3, <3>1, UpdatedIs DEF Rests
  <2> HIDE DEF u
  <2>3. DrawnWell(d)
    BY <2>1, <2>2, PassesLeave
  <2> QED
    BY <2>3 DEF d
<1> QED
  BY <1>2, <1>3

\* From buffers up to date every segment is drawn and the count is under the bound.
LEMMA DrawnShows ==
  ASSUME NEW d, DrawnWell(d)
  PROVE  SegmentsShown(d) /\ CountFits(d)
<1> SUFFICES ASSUME Visible(d)
             PROVE  /\ Segments(d) = PictureSegments(d.slots)
                    /\ InstanceCount(d) <= d.patternsAllocated \/ d.bound = MaxPatternCount
  BY DEF SegmentsShown, CountFits
<1>1. /\ Uploaded(d) /\ d.uploadParts = {} /\ d.slots # <<>> /\ ~d.needRecount
      /\ d.bound <= d.patternsAllocated /\ d \in RendererType
  BY DEF DrawnWell, Rests, Sound
<1>2. /\ d.slots \in Seq(Full) /\ d.totalPoints = TotalPoints(d.slots)
      /\ SamplesAreOf(d.gpu, d.slots) /\ CurvesAreOf(d.gpu, d.slots) /\ CountWithin(d)
  BY <1>1 DEF Uploaded, CurvesAreOf
<1>3. Segments(d) = PictureSegments(d.slots)
  BY <1>1, <1>2, SegmentsAre
<1>4. InstanceCount(d) <= d.patternsAllocated \/ d.bound = MaxPatternCount
  <2>1. d.bound \in Nat /\ d.patternsAllocated \in Nat
    BY <1>1 DEF RendererType
  <2>3. InstanceCount(d) \in Int
    BY <1>2 DEF CountWithin
  <2> QED
    BY <1>1, <1>2, <2>1, <2>3 DEF CountWithin
<1> QED
  BY <1>3, <1>4

-------------------------------------------------------------------------------
(* The operations *)

\* Lengths and spacings alone decide the CPU's bound.
LEMMA SameBound ==
  ASSUME NEW s \in Seq(Full), NEW t \in Seq(Full), Len(s) = Len(t),
         \A k \in 1 .. Len(s) : s[k].length = t[k].length /\ s[k].spacing = t[k].spacing
  PROVE  PatternBound(s) = PatternBound(t)
<1> DEFINE n == Len(s) v == CappedOf(s) w == CappedOf(t)
<1>1. n \in Nat /\ n \in 0 .. n /\ n + 1 \in 1 .. n + 1
  BY SlotsAre
<1>2. \A k \in 1 .. n : v[k] = w[k]
  BY DEF CappedOf, Capped
<1>3. PICK g : /\ IsSum(g, v, n)
               /\ PatternBound(s) = IF g[n + 1] < MaxPatternCount THEN g[n + 1] ELSE MaxPatternCount
  BY PatternBoundIs
<1>4. PICK h : /\ IsSum(h, w, n)
               /\ PatternBound(t) = IF h[n + 1] < MaxPatternCount THEN h[n + 1] ELSE MaxPatternCount
  BY PatternBoundIs
<1> HIDE DEF n, v, w
<1>5. g[n + 1] = h[n + 1]
  BY <1>1, <1>2, <1>3, <1>4, SumUnique
<1> QED
  BY <1>3, <1>4, <1>5

\* A resize takes whatever the slots have become.
LEMMA ResizedRests ==
  ASSUME NEW r, Rests(r), NEW t \in Seq(Slot), LiveAreFull(t), NEW m \in Nat,
         m = 0 => \A i \in DOMAIN t : t[i].owner # Nobody,
         NEW q, q = [r EXCEPT !.slots = t, !.removed = m, !.needResize = TRUE]
  PROVE  Rests(q)
<1>0. r \in RendererType /\ SizesFit(r) /\ FollowsRanges(r)
  BY DEF Rests, Sound
<1>1. /\ q \in RendererType /\ q.slots = t /\ q.removed = m /\ q.needResize
      /\ q.gpu = r.gpu /\ q.uploadParts = r.uploadParts /\ q.needUpload = r.needUpload
      /\ q.pointsAllocated = r.pointsAllocated /\ q.curvesAllocated = r.curvesAllocated
  BY <1>0 DEF RendererType
<1>2. SizesFit(q) /\ FollowsRanges(q)
  BY <1>0, <1>1 DEF SizesFit, FollowsRanges
<1> QED
  BY <1>0, <1>1, <1>2 DEF Rests, Sound

\* A slot may change where a dirty bit says so.
LEMMA TouchedRests ==
  ASSUME NEW r, Rests(r), NEW i \in Live(r.slots), NEW slot \in Full,
         slot.merged = r.slots[i].merged, slot.resolution = r.slots[i].resolution,
         NEW parts \in SUBSET DirtyAll, parts # {},
         Positions \notin parts => slot.length = r.slots[i].length,
         Colors \notin parts => slot.color = r.slots[i].color,
         Styles \notin parts => slot.spacing = r.slots[i].spacing,
         NEW q, q = [r EXCEPT !.needUpload = TRUE, !.uploadParts = @ \cup parts,
                              !.slots = [@ EXCEPT ![i] = slot]]
  PROVE  Rests(q)
<1> DEFINE s == r.slots t == [s EXCEPT ![i] = slot] all == r.uploadParts \cup parts
<1>0. /\ r \in RendererType /\ SizesFit(r) /\ FollowsRanges(r) /\ LiveAreFull(s)
      /\ s \in Seq(Slot) /\ Len(s) \in Nat /\ DOMAIN s = 1 .. Len(s) /\ i \in 1 .. Len(s)
  BY DEF Rests, Sound, Live, RendererType
<1>1. /\ slot \in Slot /\ slot.owner # Nobody /\ all \in SUBSET DirtyAll /\ all # {}
  BY <1>0, HandlesAssumption DEF Full, Slot, RendererType
<1>2. /\ t \in Seq(Slot) /\ DOMAIN t = 1 .. Len(s) /\ Len(t) = Len(s)
      /\ \A k \in 1 .. Len(s) : t[k] = IF k = i THEN slot ELSE s[k]
  BY <1>0, <1>1
<1>3. q = [r EXCEPT !.needUpload = TRUE, !.uploadParts = all, !.slots = t]
  OBVIOUS
<1>4. LiveAreFull(t) /\ (r.removed = 0 => \A k \in DOMAIN t : t[k].owner # Nobody)
  BY <1>0, <1>1, <1>2 DEF LiveAreFull, Rests, Sound
<1> HIDE DEF t, all
<1>5. /\ q \in RendererType /\ q.slots = t /\ q.removed = r.removed /\ q.needResize = r.needResize
      /\ q.uploadParts = all /\ q.needUpload
      /\ q.gpu = r.gpu /\ q.totalPoints = r.totalPoints /\ q.bound = r.bound
      /\ q.needRecount = r.needRecount
      /\ q.pointsAllocated = r.pointsAllocated /\ q.curvesAllocated = r.curvesAllocated
  BY <1>0, <1>1, <1>2, <1>3 DEF RendererType
<1>6. SizesFit(q) /\ FollowsRanges(q)
  BY <1>0, <1>5 DEF SizesFit, FollowsRanges
<1>7. ASSUME ~r.needResize PROVE Uploaded(q)
  <2>1. Uploaded(r)
    BY <1>7 DEF Rests, Sound
  <2>2. s \in Seq(Full) /\ r.removed = 0 /\ r.totalPoints = TotalPoints(s)
    BY <2>1 DEF Uploaded
  <2>3. t \in Seq(Full)
    <3>1. \A k \in 1 .. Len(s) : t[k] \in Full
      BY <1>2, <2>2
    <3> QED
      BY <1>0, <1>2, <3>1
  <2>4. SameLayout(s, t)
    BY <1>0, <1>2 DEF SameLayout
  <2>5. /\ TotalPoints(s) = TotalPoints(t)
        /\ \A k \in 1 .. Len(s) : SampleRange(s, k) = SampleRange(t, k)
        /\ SampleMap(s) = SampleMap(t)
        /\ ChainBegins(s) = ChainBegins(t)
    BY <2>2, <2>3, <2>4, SamplesAreThoseOf
  <2>6. s # <<>> /\ t # <<>>
    BY <1>0, <1>2
  <2> HIDE DEF s
  <2>7. /\ Len(s) <= r.curvesAllocated /\ SamplesAreOf(r.gpu, s)
        /\ Positions \notin r.uploadParts => r.gpu.points = [k \in DOMAIN s |-> s[k].length]
        /\ Colors \notin r.uploadParts => r.gpu.colors = [k \in DOMAIN s |-> s[k].color]
        /\ Styles \notin r.uploadParts => r.gpu.styles = [k \in DOMAIN s |-> s[k].spacing]
        /\ r.uploadParts \cap {Positions, Styles} = {} => r.bound = PatternBound(s)
        /\ r.uploadParts \cap {Positions, Styles, Layout} = {} /\ ~r.needRecount => CountWithin(r)
    BY <2>1, <2>6 DEF Uploaded, s
  <2>8. SamplesAreOf(q.gpu, t)
    <3>1. [k \in DOMAIN s |-> SampleRange(s, k)] = [k \in DOMAIN t |-> SampleRange(t, k)]
      BY <1>0, <1>2, <2>5 DEF s
    <3> QED
      BY <1>5, <2>5, <2>7, <3>1 DEF SamplesAreOf
  <2>9. /\ Positions \notin all => Positions \notin r.uploadParts /\ Positions \notin parts
        /\ Colors \notin all => Colors \notin r.uploadParts /\ Colors \notin parts
        /\ Styles \notin all => Styles \notin r.uploadParts /\ Styles \notin parts
        /\ all \cap {Positions, Styles} = {} =>
             r.uploadParts \cap {Positions, Styles} = {} /\ Positions \notin parts /\ Styles \notin parts
        /\ all \cap {Positions, Styles, Layout} = {} => r.uploadParts \cap {Positions, Styles, Layout} = {}
    BY DEF all
  <2>10. Positions \notin all => q.gpu.points = [k \in DOMAIN t |-> t[k].length]
    <3> SUFFICES ASSUME Positions \notin all PROVE q.gpu.points = [k \in DOMAIN t |-> t[k].length]
      OBVIOUS
    <3>1. slot.length = s[i].length
      BY <2>9 DEF s
    <3>2. \A k \in 1 .. Len(s) : t[k].length = s[k].length
      BY <1>2, <3>1 DEF s
    <3>3. [k \in DOMAIN t |-> t[k].length] = [k \in DOMAIN s |-> s[k].length]
      BY <1>0, <1>2, <3>2 DEF s
    <3> QED
      BY <1>5, <2>7, <2>9, <3>3
  <2>11. Colors \notin all => q.gpu.colors = [k \in DOMAIN t |-> t[k].color]
    <3> SUFFICES ASSUME Colors \notin all PROVE q.gpu.colors = [k \in DOMAIN t |-> t[k].color]
      OBVIOUS
    <3>1. slot.color = s[i].color
      BY <2>9 DEF s
    <3>2. \A k \in 1 .. Len(s) : t[k].color = s[k].color
      BY <1>2, <3>1 DEF s
    <3>3. [k \in DOMAIN t |-> t[k].color] = [k \in DOMAIN s |-> s[k].color]
      BY <1>0, <1>2, <3>2 DEF s
    <3> QED
      BY <1>5, <2>7, <2>9, <3>3
  <2>12. Styles \notin all => q.gpu.styles = [k \in DOMAIN t |-> t[k].spacing]
    <3> SUFFICES ASSUME Styles \notin all PROVE q.gpu.styles = [k \in DOMAIN t |-> t[k].spacing]
      OBVIOUS
    <3>1. slot.spacing = s[i].spacing
      BY <2>9 DEF s
    <3>2. \A k \in 1 .. Len(s) : t[k].spacing = s[k].spacing
      BY <1>2, <3>1 DEF s
    <3>3. [k \in DOMAIN t |-> t[k].spacing] = [k \in DOMAIN s |-> s[k].spacing]
      BY <1>0, <1>2, <3>2 DEF s
    <3> QED
      BY <1>5, <2>7, <2>9, <3>3
  <2>13. all \cap {Positions, Styles} = {} => q.bound = PatternBound(t)
    <3> SUFFICES ASSUME all \cap {Positions, Styles} = {} PROVE q.bound = PatternBound(t)
      OBVIOUS
    <3>1. slot.length = s[i].length /\ slot.spacing = s[i].spacing
      BY <2>9 DEF s
    <3>2. \A k \in 1 .. Len(s) : s[k].length = t[k].length /\ s[k].spacing = t[k].spacing
      BY <1>2, <3>1 DEF s
    <3>3. PatternBound(s) = PatternBound(t)
      BY <1>2, <2>2, <2>3, <3>2, SameBound DEF s
    <3> QED
      BY <1>5, <2>7, <2>9, <3>3
  <2>14. all \cap {Positions, Styles, Layout} = {} /\ ~q.needRecount => CountWithin(q)
    BY <1>5, <2>7, <2>9 DEF CountWithin, InstanceCount
  <2>15. q.removed = 0 /\ q.totalPoints = TotalPoints(t) /\ Len(t) <= q.curvesAllocated
    BY <1>2, <1>5, <2>2, <2>5, <2>7 DEF s
  <2>16. q.slots = t
    BY <1>5
  <2>17. /\ Positions \notin all => q.gpu.points = [k \in DOMAIN q.slots |-> q.slots[k].length]
         /\ Colors \notin all => q.gpu.colors = [k \in DOMAIN q.slots |-> q.slots[k].color]
         /\ Styles \notin all => q.gpu.styles = [k \in DOMAIN q.slots |-> q.slots[k].spacing]
    BY <2>10, <2>11, <2>12, <2>16
  <2>18. /\ all \cap {Positions, Styles} = {} => q.bound = PatternBound(q.slots)
         /\ q.removed = 0 /\ q.totalPoints = TotalPoints(q.slots) /\ Len(q.slots) <= q.curvesAllocated
         /\ SamplesAreOf(q.gpu, q.slots) /\ q.slots \in Seq(Full) /\ q.uploadParts = all
    BY <1>5, <2>3, <2>8, <2>13, <2>15, <2>16
  <2> QED
    BY <2>14, <2>17, <2>18 DEF Uploaded
<1> QED
  BY <1>1, <1>4, <1>5, <1>6, <1>7 DEF Rests, Sound

(* The invariant. *)
Inv == Rests(renderer)

\* A renderer without curves is at rest.
LEMMA StartsAtRest == Init => Inv
<1> SUFFICES ASSUME Init PROVE Inv
  OBVIOUS
<1> DEFINE r == EmptyRenderer
<1>1. Blank \in Seq(Nat) /\ Blank \in Seq([first : Int, last : Int]) /\ Blank \in Seq(Int)
      /\ Blank \in Seq(MapEntry) /\ Len(Blank) = 0 /\ <<>> \in Seq(Slot) /\ Len(<<>>) = 0
  BY DEF Blank
<1>2. EmptyGpu \in GpuType
  BY <1>1 DEF EmptyGpu, GpuType
<1>3. r \in RendererType
  BY <1>1, <1>2 DEF EmptyRenderer, RendererType
<1>4. SizesFit(r) /\ FollowsRanges(r)
  BY <1>1 DEF SizesFit, FollowsRanges, EmptyRenderer, EmptyGpu
<1>5. LiveAreFull(r.slots) /\ \A i \in DOMAIN r.slots : r.slots[i].owner # Nobody
  <2>1. r.slots = <<>>
    BY DEF EmptyRenderer
  <2> QED
    BY <2>1 DEF LiveAreFull
<1>6. r.needResize /\ r.uploadParts = {}
  BY DEF EmptyRenderer
<1> QED
  BY <1>3, <1>4, <1>5, <1>6 DEF Init, Inv, Rests, Sound

\* What the invariant says of the slots.
LEMMA RestIs ==
  ASSUME Inv
  PROVE  /\ renderer \in RendererType /\ renderer.slots \in Seq(Slot)
         /\ Len(renderer.slots) \in Nat /\ DOMAIN renderer.slots = 1 .. Len(renderer.slots)
         /\ LiveAreFull(renderer.slots) /\ renderer.removed \in Nat
         /\ renderer.removed = 0 => \A i \in DOMAIN renderer.slots : renderer.slots[i].owner # Nobody
         /\ \A i \in Live(renderer.slots) : i \in 1 .. Len(renderer.slots) /\ renderer.slots[i] \in Full
<1>1. /\ renderer \in RendererType /\ renderer.slots \in Seq(Slot) /\ LiveAreFull(renderer.slots)
      /\ renderer.removed \in Nat
      /\ renderer.removed = 0 => \A i \in DOMAIN renderer.slots : renderer.slots[i].owner # Nobody
  BY DEF Inv, Rests, Sound, RendererType
<1> QED
  BY <1>1 DEF Live, LiveAreFull

\* The inputs are curves.
LEMMA CurvesAre == \A c \in Curves : c \in Curve
BY CurvesAssumption

\* Adding a curve asks for a resize, so nothing is promised of the buffers.
LEMMA AddRests ==
  ASSUME Inv, NEW c \in Curves, NEW merge \in BOOLEAN, Add(c, merge)
  PROVE  Inv'
<1> DEFINE r == renderer s == renderer.slots
           slot == [owner |-> Owner, merged |-> merge, length |-> c.length,
                    spacing |-> c.spacing, resolution |-> c.resolution, color |-> c.color]
           t == Append(s, slot)
<1>0. /\ r \in RendererType /\ s \in Seq(Slot) /\ Len(s) \in Nat /\ DOMAIN s = 1 .. Len(s) /\ LiveAreFull(s)
      /\ r.removed \in Nat /\ (r.removed = 0 => \A i \in DOMAIN s : s[i].owner # Nobody)
  BY RestIs
<1>1. Owner \in Handles
  BY OwnerAssumption DEF Owner
<1>2. slot \in Full /\ slot \in Slot /\ slot.owner # Nobody
  <2>1. c.length \in Nat /\ c.spacing \in Nat /\ c.resolution \in Nat \ {0, 1} /\ c.color \in Nat
    BY CurvesAre DEF Curve
  <2> QED
    BY <1>1, <2>1, HandlesAssumption DEF Full, Slot
<1>3. renderer' = [r EXCEPT !.slots = t, !.needResize = TRUE]
  BY DEF Add
<1> HIDE DEF slot
<1>4. /\ t \in Seq(Slot) /\ DOMAIN t = 1 .. Len(s) + 1
      /\ \A i \in 1 .. Len(s) : t[i] = s[i]
      /\ t[Len(s) + 1] = slot
  BY <1>0, <1>2
<1>5. LiveAreFull(t) /\ (r.removed = 0 => \A i \in DOMAIN t : t[i].owner # Nobody)
  <2>1. \A i \in DOMAIN t : i \in 1 .. Len(s) \/ i = Len(s) + 1
    BY <1>0, <1>4
  <2> QED
    BY <1>0, <1>2, <1>4, <2>1 DEF LiveAreFull
<1> HIDE DEF t, r
<1>6. renderer' = [r EXCEPT !.slots = t, !.removed = r.removed, !.needResize = TRUE]
  <2>1. r \in RendererType
    BY <1>0 DEF r
  <2> QED
    BY <1>3, <2>1 DEF RendererType
<1>7. Rests(r)
  BY DEF Inv, r
<1>8. Rests(renderer')
  BY <1>0, <1>4, <1>5, <1>6, <1>7, ResizedRests DEF r
<1> QED
  BY <1>8 DEF Inv

\* A removed slot is a gap: it is counted, and a resize is due.
LEMMA RemoveRests ==
  ASSUME Inv, NEW i \in Live(renderer.slots), Remove(i)
  PROVE  Inv'
<1> DEFINE r == renderer s == renderer.slots t == [s EXCEPT ![i] = Emptied] m == r.removed + 1
<1>0. /\ r \in RendererType /\ s \in Seq(Slot) /\ Len(s) \in Nat /\ DOMAIN s = 1 .. Len(s) /\ LiveAreFull(s)
      /\ r.removed \in Nat /\ i \in 1 .. Len(s)
  BY RestIs
<1>1. Emptied \in Slot /\ Emptied.owner = Nobody
  BY DEF Emptied, Slot
<1>2. /\ t \in Seq(Slot) /\ DOMAIN t = 1 .. Len(s)
      /\ \A k \in 1 .. Len(s) : t[k] = IF k = i THEN Emptied ELSE s[k]
  BY <1>0, <1>1
<1>3. LiveAreFull(t)
  BY <1>0, <1>1, <1>2 DEF LiveAreFull
<1>4. m \in Nat /\ m # 0
  BY <1>0
<1>5. renderer' = [r EXCEPT !.slots = t, !.removed = m, !.needResize = TRUE]
  BY <1>0 DEF Remove, RendererType
<1>6. Rests(r)
  BY DEF Inv
<1> HIDE DEF r, t, m
<1>7. Rests(renderer')
  BY <1>2, <1>3, <1>4, <1>5, <1>6, ResizedRests
<1> QED
  BY <1>7 DEF Inv

\* The setters that ask for a resize.
LEMMA ResetRests ==
  ASSUME Inv, NEW i \in Live(renderer.slots), NEW slot \in Full,
         renderer' = [TouchLayout EXCEPT !.slots[i] = slot]
  PROVE  Inv'
<1> DEFINE r == renderer s == renderer.slots t == [s EXCEPT ![i] = slot] m == r.removed q == renderer'
<1>0. /\ r \in RendererType /\ s \in Seq(Slot) /\ Len(s) \in Nat /\ DOMAIN s = 1 .. Len(s) /\ LiveAreFull(s)
      /\ r.removed \in Nat /\ i \in 1 .. Len(s)
      /\ (r.removed = 0 => \A k \in DOMAIN s : s[k].owner # Nobody)
  BY RestIs
<1>1. slot \in Slot /\ slot.owner # Nobody
  BY HandlesAssumption DEF Full, Slot
<1>2. /\ t \in Seq(Slot) /\ DOMAIN t = 1 .. Len(s)
      /\ \A k \in 1 .. Len(s) : t[k] = IF k = i THEN slot ELSE s[k]
  BY <1>0, <1>1
<1>3. LiveAreFull(t) /\ (m = 0 => \A k \in DOMAIN t : t[k].owner # Nobody)
  BY <1>0, <1>1, <1>2 DEF LiveAreFull
<1>4. q = [r EXCEPT !.slots = t, !.removed = m, !.needResize = TRUE]
  BY <1>0 DEF TouchLayout, RendererType
<1>5. Rests(r)
  BY DEF Inv
<1>6. m \in Nat
  BY <1>0
<1> HIDE DEF r, t, m, q
<1>7. Rests(q)
  BY <1>2, <1>3, <1>4, <1>5, <1>6, ResizedRests
<1> QED
  BY <1>7 DEF Inv, q

\* A new resolution moves the samples of later slots: a resize is due.
LEMMA SetResolutionRests ==
  ASSUME Inv, NEW i \in Live(renderer.slots), NEW v \in {c.resolution : c \in Curves}, SetResolution(i, v)
  PROVE  Inv'
<1> DEFINE slot == [renderer.slots[i] EXCEPT !.resolution = v]
<1>1. v \in Nat \ {0, 1}
  BY CurvesAre DEF Curve
<1>2. renderer.slots[i] \in Full
  BY RestIs
<1>3. slot \in Full
  BY <1>1, <1>2 DEF Full
<1>4. renderer' = [TouchLayout EXCEPT !.slots[i] = slot]
  BY DEF SetResolution, Set
<1> HIDE DEF slot
<1> QED
  BY <1>3, <1>4, ResetRests

\* Joining or leaving a chain changes neighbours and chain begins: a resize is due.
LEMMA SetMergedRests ==
  ASSUME Inv, NEW i \in Live(renderer.slots), SetMerged(i)
  PROVE  Inv'
<1> DEFINE slot == [renderer.slots[i] EXCEPT !.merged = ~renderer.slots[i].merged]
<1>2. /\ renderer.slots[i] \in Full /\ renderer \in RendererType
      /\ i \in 1 .. Len(renderer.slots) /\ renderer.slots \in Seq(Slot)
  BY RestIs
<1>3. slot \in Full
  BY <1>2 DEF Full
<1>4. TouchLayout.slots = renderer.slots
  BY <1>2 DEF TouchLayout, RendererType
<1>5. renderer' = [TouchLayout EXCEPT !.slots[i].merged = ~renderer.slots[i].merged]
  BY <1>4 DEF SetMerged
<1>6. renderer' = [TouchLayout EXCEPT !.slots[i] = slot]
  <2>1. TouchLayout \in RendererType
    BY <1>2 DEF TouchLayout, RendererType
  <2> QED
    BY <1>4, <1>5, <2>1 DEF RendererType
<1> HIDE DEF slot
<1> QED
  BY <1>3, <1>6, ResetRests

\* The setters that ask for an upload.
LEMMA SetterRests ==
  ASSUME Inv, NEW i \in Live(renderer.slots), NEW slot \in Full,
         slot.merged = renderer.slots[i].merged, slot.resolution = renderer.slots[i].resolution,
         NEW parts \in SUBSET DirtyAll, parts # {},
         Positions \notin parts => slot.length = renderer.slots[i].length,
         Colors \notin parts => slot.color = renderer.slots[i].color,
         Styles \notin parts => slot.spacing = renderer.slots[i].spacing,
         renderer' = [Touch(parts) EXCEPT !.slots[i] = slot]
  PROVE  Inv'
<1> DEFINE r == renderer q == renderer'
<1>1. r \in RendererType /\ Rests(r)
  BY RestIs DEF Inv
<1>2. q = [r EXCEPT !.needUpload = TRUE, !.uploadParts = @ \cup parts,
                    !.slots = [@ EXCEPT ![i] = slot]]
  BY <1>1 DEF Touch, RendererType
<1>3. Rests(q)
  <2>1. /\ i \in Live(r.slots)
        /\ slot.merged = r.slots[i].merged /\ slot.resolution = r.slots[i].resolution
        /\ Positions \notin parts => slot.length = r.slots[i].length
        /\ Colors \notin parts => slot.color = r.slots[i].color
        /\ Styles \notin parts => slot.spacing = r.slots[i].spacing
    OBVIOUS
  <2> HIDE DEF r, q
  <2> QED
    BY <1>1, <1>2, <2>1, TouchedRests
<1> QED
  BY <1>3 DEF Inv

\* A new length leaves every buffer but the points.
LEMMA SetLengthRests ==
  ASSUME Inv, NEW i \in Live(renderer.slots), NEW v \in {c.length : c \in Curves}, SetLength(i, v)
  PROVE  Inv'
<1> DEFINE old == renderer.slots[i] slot == [old EXCEPT !.length = v] parts == {Positions}
<1>1. v \in Nat /\ old \in Full
  BY RestIs, CurvesAre DEF Curve
<1>2. /\ slot \in Full /\ slot.merged = old.merged /\ slot.resolution = old.resolution
      /\ slot.color = old.color /\ slot.spacing = old.spacing
  BY <1>1 DEF Full
<1>3. renderer' = [Touch(parts) EXCEPT !.slots[i] = slot]
  BY DEF SetLength, Set
<1>4. parts \in SUBSET DirtyAll /\ parts # {} /\ Positions \in parts
  BY PartsDiffer
<1> HIDE DEF slot, parts
<1> QED
  BY <1>2, <1>3, <1>4, SetterRests

\* A new colour leaves every buffer but the colours.
LEMMA SetColorRests ==
  ASSUME Inv, NEW i \in Live(renderer.slots), NEW v \in {c.color : c \in Curves}, SetColor(i, v)
  PROVE  Inv'
<1> DEFINE old == renderer.slots[i] slot == [old EXCEPT !.color = v] parts == {Colors}
<1>1. v \in Nat /\ old \in Full
  BY RestIs, CurvesAre DEF Curve
<1>2. /\ slot \in Full /\ slot.merged = old.merged /\ slot.resolution = old.resolution
      /\ slot.length = old.length /\ slot.spacing = old.spacing
  BY <1>1 DEF Full
<1>3. renderer' = [Touch(parts) EXCEPT !.slots[i] = slot]
  BY DEF SetColor, Set
<1>4. parts \in SUBSET DirtyAll /\ parts # {} /\ Colors \in parts
  BY PartsDiffer
<1> HIDE DEF slot, parts
<1> QED
  BY <1>2, <1>3, <1>4, SetterRests

\* A new spacing leaves every buffer but the styles.
LEMMA SetSpacingRests ==
  ASSUME Inv, NEW i \in Live(renderer.slots), NEW v \in {c.spacing : c \in Curves}, SetSpacing(i, v)
  PROVE  Inv'
<1> DEFINE old == renderer.slots[i] slot == [old EXCEPT !.spacing = v] parts == {Styles}
<1>1. v \in Nat /\ old \in Full
  BY RestIs, CurvesAre DEF Curve
<1>2. /\ slot \in Full /\ slot.merged = old.merged /\ slot.resolution = old.resolution
      /\ slot.length = old.length /\ slot.color = old.color
  BY <1>1 DEF Full
<1>3. renderer' = [Touch(parts) EXCEPT !.slots[i] = slot]
  BY DEF SetSpacing, Set
<1>4. parts \in SUBSET DirtyAll /\ parts # {} /\ Styles \in parts
  BY PartsDiffer
<1> HIDE DEF slot, parts
<1> QED
  BY <1>2, <1>3, <1>4, SetterRests

\* Every operation of the renderer keeps the invariant.
LEMMA StepRests == Inv /\ [Next]_renderer => Inv'
<1> SUFFICES ASSUME Inv, [Next]_renderer PROVE Inv'
  OBVIOUS
<1>1. ASSUME NEW c \in Curves, NEW merge \in BOOLEAN, Add(c, merge) PROVE Inv'
  BY <1>1, AddRests
<1>2. ASSUME NEW i \in Live(renderer.slots), Remove(i) PROVE Inv'
  BY <1>2, RemoveRests
<1>3. ASSUME NEW i \in Live(renderer.slots), NEW v \in {c.length : c \in Curves}, SetLength(i, v) PROVE Inv'
  BY <1>3, SetLengthRests
<1>4. ASSUME NEW i \in Live(renderer.slots), NEW v \in {c.color : c \in Curves}, SetColor(i, v) PROVE Inv'
  BY <1>4, SetColorRests
<1>5. ASSUME NEW i \in Live(renderer.slots), NEW v \in {c.spacing : c \in Curves}, SetSpacing(i, v) PROVE Inv'
  BY <1>5, SetSpacingRests
<1>6. ASSUME NEW i \in Live(renderer.slots), NEW v \in {c.resolution : c \in Curves}, SetResolution(i, v) PROVE Inv'
  BY <1>6, SetResolutionRests
<1>7. ASSUME NEW i \in Live(renderer.slots), SetMerged(i) PROVE Inv'
  BY <1>7, SetMergedRests
<1>8. CASE Draw
  <2>1. Rests(Drawn(renderer))
    BY DrawLeaves DEF Inv, DrawnWell
  <2> QED
    BY <1>8, <2>1 DEF Draw, Inv
<1>9. CASE UNCHANGED renderer
  BY <1>9 DEF Inv
<1> QED
  BY <1>1, <1>2, <1>3, <1>4, <1>5, <1>6, <1>7, <1>8, <1>9 DEF Next

\* The invariant holds in every state.
LEMMA AlwaysAtRest == Spec => []Inv
BY StartsAtRest, StepRests, PTL DEF Spec

\* Whatever setters, additions, removals and draws came before, in any order, a draw shows
\* every segment of every curve that has a spacing, with the colour and place that its slot
\* holds now, and nothing of a removed curve or of one without a spacing: a dirty bit that a setter forgets, a part that the
\* upload drops and a compaction that misplaces a sample would all break it.
THEOREM SegmentsAreDrawn == Spec => []DrawsEverySegment
<1>1. Inv => DrawsEverySegment
  BY DrawLeaves, DrawnShows DEF Inv, DrawsEverySegment
<1> QED
  BY <1>1, AlwaysAtRest, PTL

\* No upload of samples, curves or offsets exceeds what its buffer was allocated for, and
\* the patterns that the GPU counts are no more than the CPU reserved (or than the cap):
\* the bound is kept through setters that do not touch it and recomputed by those that do.
THEOREM BuffersAreLargeEnough == Spec => []BuffersSuffice
<1>1. Inv => BuffersSuffice
  BY DrawLeaves, DrawnShows DEF Inv, BuffersSuffice, Rests, Sound, SizesFit
<1> QED
  BY <1>1, AlwaysAtRest, PTL

\* The slots, the counters, the dirty bits and the GPU buffers of BezierPatternRenderer
\* stay of their types.
THEOREM RendererTypes == Spec => []TypeOK
<1>1. Inv => TypeOK
  <2> SUFFICES ASSUME Inv PROVE TypeOK
    OBVIOUS
  <2>1. renderer \in RendererType /\ FollowsRanges(renderer)
    BY DEF Inv, Rests, Sound
  <2> QED
    BY <2>1 DEF TypeOK, RendererType, FollowsRanges
<1> QED
  BY <1>1, AlwaysAtRest, PTL

-------------------------------------------------------------------------------
(* The slots of the draws *)

IsSeq(c) == \E S : c \in Seq(S)

Renderers == {"solid", "patterned", "dots", "lines"}

\* The calls that the draws make of the scans.
Calls ==
  [do : {"scan"}, scan : {"segmented", "parallel"}, of : Renderers, values : {"distances", "offsets"},
   level : Nat \ {0}, levels : Nat]

\* Of the first view, to be bound, and the second, which is.
Clash(at, view, p, other) ==
  /\ at.kind \in Tracked /\ p.kind \in Tracked
  /\ ~(at.kind = "srv" /\ p.kind = "srv")
  /\ Overlap(other, view)

\* What is bound after a scan has returned: its constants of the level that was entered.
AfterScan(s, c) ==
  [p \in Places |->
     IF p = CsB(0) THEN Level(c.of, c.scan, c.level)
     ELSE IF p \in {CsT(0), CsU(0), CsU(1), CsU(2), CsU(3), CsU(4)} THEN None ELSE s[p]]

InFrame(s) ==
  /\ s = [p \in Places |-> s[p]]
  /\ s[RenderTarget] = Back /\ s[DepthStencil] = Depth

\* What may be left of the level above when a level is entered.
ReadyToScan(s, c) ==
  /\ InFrame(s)
  /\ \A p \in Places :
       p.kind \in {"srv", "uav"} =>
         \/ s[p] = None
         \/ p = CsU(0)
         \/ c.scan = "parallel" /\ p = CsU(1)
         \/ c.scan = "segmented" /\ p = CsT(0)
         \/ c.scan = "segmented" /\ p = CsU(2) /\ s[p] = Level(c.of, "blockSums", c.level - 1)
         \/ c.scan = "segmented" /\ p = CsU(4) /\ s[p] = Level(c.of, "firstBegin", c.level - 1)

\* What a command does; a kernel must find its registers.
Does(s, c, e) ==
  CASE c.do = "bind" -> e = Bound(s, c.at, c.view)
    [] c.do = "run"  -> e = s /\ \A register \in c.declared : s[register[1]] = register[2]
    [] c.do = "scan" -> e = AfterScan(s, c) /\ c \in Calls /\ ReadyToScan(s, c)

Runs(s, c, e) ==
  \E trace :
    /\ trace[0] = s /\ trace[Len(c)] = e
    /\ \A i \in 1 .. Len(c) : Does(trace[i - 1], c[i], trace[i])

LEMMA SeqFromRange ==
  ASSUME NEW n \in Nat, NEW c, c = [i \in 1 .. n |-> c[i]]
  PROVE  IsSeq(c) /\ Len(c) = n
<1> DEFINE S == {c[i] : i \in 1 .. n}
<1>1. c \in [1 .. n -> S]
  OBVIOUS
<1> HIDE DEF S
<1>2. c \in Seq(S) /\ Len(c) = n
  BY <1>1
<1> QED
  BY <1>2 DEF IsSeq

LEMMA CommonRange ==
  ASSUME NEW c, NEW d, IsSeq(c), IsSeq(d)
  PROVE  \E S : c \in Seq(S) /\ d \in Seq(S)
<1>1. PICK S : c \in Seq(S)
  BY DEF IsSeq
<1>2. PICK T : d \in Seq(T)
  BY DEF IsSeq
<1>3. S \subseteq S \cup T /\ T \subseteq S \cup T
  OBVIOUS
<1>4. c \in Seq(S \cup T) /\ d \in Seq(S \cup T)
  BY <1>1, <1>2, <1>3, SeqMonotonic
<1> QED
  BY <1>4

LEMMA ConcatIsSeq ==
  ASSUME NEW c, NEW d, IsSeq(c), IsSeq(d)
  PROVE  IsSeq(c \o d)
BY CommonRange, ConcatProperties DEF IsSeq

LEMMA SingleIsSeq == ASSUME NEW c PROVE IsSeq(<<c>>)
<1>1. <<c>> \in Seq({c})
  OBVIOUS
<1> QED
  BY <1>1 DEF IsSeq

LEMMA RunsNothing == ASSUME NEW s PROVE Runs(s, <<>>, s)
<1> DEFINE trace == [i \in {0} |-> s]
<1>1. trace[0] = s /\ trace[Len(<<>>)] = s /\ \A i \in 1 .. Len(<<>>) : FALSE
  OBVIOUS
<1> QED
  BY <1>1 DEF Runs

LEMMA RunsOne ==
  ASSUME NEW s, NEW c, NEW e, Does(s, c, e)
  PROVE  Runs(s, <<c>>, e)
<1> DEFINE trace == [i \in {0, 1} |-> IF i = 0 THEN s ELSE e]
<1>1. Len(<<c>>) = 1 /\ <<c>>[1] = c
  OBVIOUS
<1>2. trace[0] = s /\ trace[1] = e
  OBVIOUS
<1> HIDE DEF trace
<1>3. \A i \in 1 .. 1 : Does(trace[i - 1], <<c>>[i], trace[i])
  BY <1>1, <1>2
<1> QED
  BY <1>1, <1>2, <1>3 DEF Runs

LEMMA RunsThen ==
  ASSUME NEW c, NEW d, IsSeq(c), IsSeq(d), NEW s, NEW m, NEW e, Runs(s, c, m), Runs(m, d, e)
  PROVE  Runs(s, c \o d, e)
<1>0. PICK S : c \in Seq(S) /\ d \in Seq(S)
  BY CommonRange
<1>1. PICK f : /\ f[0] = s /\ f[Len(c)] = m
               /\ \A i \in 1 .. Len(c) : Does(f[i - 1], c[i], f[i])
  BY DEF Runs
<1>2. PICK g : /\ g[0] = m /\ g[Len(d)] = e
               /\ \A i \in 1 .. Len(d) : Does(g[i - 1], d[i], g[i])
  BY DEF Runs
<1> DEFINE k == Len(c) n == Len(d)
           trace == [i \in 0 .. k + n |-> IF i <= k THEN f[i] ELSE g[i - k]]
<1>3. k \in Nat /\ n \in Nat /\ Len(c \o d) = k + n
  BY <1>0, LenProperties, ConcatProperties
<1>4. \A i \in 1 .. k + n : (c \o d)[i] = IF i <= k THEN c[i] ELSE d[i - k]
  BY <1>0, ConcatProperties
<1> HIDE DEF k, n
<1>5. trace[0] = s
  BY <1>1, <1>3
<1>6. trace[k + n] = e
  BY <1>1, <1>2, <1>3 DEF k, n
<1>7. ASSUME NEW i \in 1 .. k + n
      PROVE  Does(trace[i - 1], (c \o d)[i], trace[i])
  <2>1. CASE i <= k
    <3>1. trace[i - 1] = f[i - 1] /\ trace[i] = f[i] /\ (c \o d)[i] = c[i] /\ i \in 1 .. k
      BY <1>3, <1>4, <2>1
    <3> QED
      BY <1>1, <3>1 DEF k
  <2>2. CASE i = k + 1
    <3>1. trace[i - 1] = g[0] /\ trace[i] = g[1] /\ (c \o d)[i] = d[1] /\ 1 \in 1 .. n
      BY <1>1, <1>2, <1>3, <1>4, <2>2 DEF k, n
    <3>2. Does(g[1 - 1], d[1], g[1])
      BY <1>2, <3>1 DEF n
    <3> QED
      BY <3>1, <3>2
  <2>3. CASE i > k + 1
    <3> DEFINE j == i - k
    <3>1. trace[i - 1] = g[j - 1] /\ trace[i] = g[j] /\ (c \o d)[i] = d[j] /\ j \in 1 .. n
      BY <1>3, <1>4, <2>3
    <3> HIDE DEF j, trace
    <3>2. Does(g[j - 1], d[j], g[j])
      BY <1>2, <3>1 DEF n
    <3> QED
      BY <3>1, <3>2
  <2> QED
    BY <1>3, <2>1, <2>2, <2>3
<1> HIDE DEF trace
<1> QED
  BY <1>3, <1>5, <1>6, <1>7 DEF Runs

\* The first command, and then the others.
LEMMA RunsFirst ==
  ASSUME NEW c, IsSeq(c), c # <<>>, NEW s, NEW e, Runs(s, c, e)
  PROVE  IsSeq(Tail(c)) /\ \E m : Does(s, Head(c), m) /\ Runs(m, Tail(c), e)
<1>0. PICK S : c \in Seq(S)
  BY DEF IsSeq
<1>1. PICK f : /\ f[0] = s /\ f[Len(c)] = e
               /\ \A i \in 1 .. Len(c) : Does(f[i - 1], c[i], f[i])
  BY DEF Runs
<1> DEFINE n == Len(c)
           trace == [i \in 0 .. n - 1 |-> f[i + 1]]
<1>2. n \in Nat \ {0} /\ Len(Tail(c)) = n - 1 /\ \A i \in 1 .. n - 1 : Tail(c)[i] = c[i + 1]
  BY <1>0, HeadTailProperties, EmptySeq
<1>3. Head(c) = c[1]
  BY DEF Head
<1>4. Does(s, Head(c), f[1])
  BY <1>1, <1>2, <1>3
<1>5. trace[0] = f[1] /\ trace[n - 1] = e
  BY <1>1, <1>2
<1>6. ASSUME NEW i \in 1 .. n - 1
      PROVE  Does(trace[i - 1], Tail(c)[i], trace[i])
  <2>1. trace[i - 1] = f[i] /\ trace[i] = f[i + 1] /\ Tail(c)[i] = c[i + 1] /\ i + 1 \in 1 .. n
    BY <1>2
  <2> HIDE DEF trace
  <2>2. Does(f[i + 1 - 1], c[i + 1], f[i + 1])
    BY <1>1, <2>1
  <2> QED
    BY <2>1, <2>2
<1> HIDE DEF trace, n
<1>7. Runs(f[1], Tail(c), e)
  BY <1>2, <1>5, <1>6 DEF Runs
<1>8. IsSeq(Tail(c))
  BY <1>0, HeadTailProperties DEF IsSeq
<1> QED
  BY <1>4, <1>7, <1>8

-------------------------------------------------------------------------------
(* Groups of views, bound one after the other *)

Puts(s, pairs, e) ==
  /\ e = [p \in Places |-> e[p]]
  /\ \A i \in DOMAIN pairs : e[pairs[i][1]] = pairs[i][2]
  /\ \A p \in Places : (\A i \in DOMAIN pairs : p # pairs[i][1]) => e[p] = s[p]

LEMMA BoundIs ==
  ASSUME NEW s, s = [p \in Places |-> s[p]], NEW at \in Places, NEW view,
         \A p \in Places \ {at} : at.kind = "srv" => ~Clash(at, view, p, s[p])
  PROVE  LET e == Bound(s, at, view) IN
         /\ e = [p \in Places |-> e[p]]
         /\ e[at] = view
         /\ \A p \in Places \ {at} : e[p] = s[p] \/ (e[p] = None /\ Clash(at, view, p, s[p]))
<1>1. DOMAIN s = Places
  OBVIOUS
<1>2. CASE at.kind \notin Tracked
  <2>1. Bound(s, at, view) = [s EXCEPT ![at] = view]
    BY <1>2 DEF Bound
  <2> QED
    BY <2>1, <1>1
<1>3. CASE at.kind \in Tracked
  <2> DEFINE conflicts(p) == /\ p # at /\ p.kind \in Tracked
                             /\ "srv" \notin {p.kind} \cap {at.kind}
                             /\ Overlap(s[p], view)
  <2>1. \A p \in Places \ {at} : conflicts(p) => Clash(at, view, p, s[p])
    BY <1>3 DEF Clash
  <2>2. ~(at.kind = "srv" /\ \E p \in DOMAIN s : conflicts(p))
    BY <1>1, <2>1
  <2>3. Bound(s, at, view) =
          [p \in DOMAIN s |-> IF p = at THEN view
                              ELSE IF at.kind \in Writers /\ conflicts(p) THEN None ELSE s[p]]
    BY <1>3, <2>2 DEF Bound
  <2> HIDE DEF conflicts
  <2> QED
    BY <1>1, <2>1, <2>3
<1> QED
  BY <1>2, <1>3

IsPairs(pairs) == IsSeq(pairs) /\ \A i \in 1 .. Len(pairs) : pairs[i][1] \in Places

LEMMA BindsIs ==
  ASSUME NEW pairs, IsPairs(pairs)
  PROVE  /\ IsSeq(Binds(pairs)) /\ Len(Binds(pairs)) = Len(pairs)
         /\ Len(pairs) \in Nat /\ DOMAIN pairs = 1 .. Len(pairs)
         /\ \A i \in 1 .. Len(pairs) :
              Binds(pairs)[i] = [do |-> "bind", at |-> pairs[i][1], view |-> pairs[i][2]]
<1> DEFINE n == Len(pairs)
<1>1. n \in Nat /\ DOMAIN pairs = 1 .. n
  BY LenProperties DEF IsPairs, IsSeq
<1> HIDE DEF n
<1>2. Binds(pairs) = [i \in 1 .. n |-> [do |-> "bind", at |-> pairs[i][1], view |-> pairs[i][2]]]
  BY <1>1 DEF Binds
<1>3. IsSeq(Binds(pairs)) /\ Len(Binds(pairs)) = n
  BY <1>1, <1>2, SeqFromRange
<1> QED
  BY <1>1, <1>2, <1>3 DEF n

\* Nothing that is bound or is to be bound outside of its turn stands in the way.
Fits(s, pairs) ==
  LET range == 1 .. Len(pairs)
      Stands(i, p, other) == ~Clash(pairs[i][1], pairs[i][2], p, other)
  IN  /\ \A i, j \in range : i # j => pairs[i][1] # pairs[j][1] /\ Stands(i, pairs[j][1], pairs[j][2])
      /\ \A i \in range, p \in Places : (\A j \in range : p # pairs[j][1]) => Stands(i, p, s[p])
      /\ \A i, j \in range : i < j /\ pairs[i][1].kind = "srv" => Stands(i, pairs[j][1], s[pairs[j][1]])

\* The first n are bound, and of what others will take the place nothing but what was there is.
PutSome(s, pairs, n, e) ==
  /\ e = [p \in Places |-> e[p]]
  /\ \A i \in 1 .. n : e[pairs[i][1]] = pairs[i][2]
  /\ \A p \in Places : (\A i \in 1 .. Len(pairs) : p # pairs[i][1]) => e[p] = s[p]
  /\ \A i \in n + 1 .. Len(pairs) : e[pairs[i][1]] \in {s[pairs[i][1]], None}

LEMMA OneMore ==
  ASSUME NEW pairs, IsPairs(pairs), NEW s, Fits(s, pairs),
         NEW n \in 0 .. Len(pairs) - 1, NEW e, PutSome(s, pairs, n, e)
  PROVE  PutSome(s, pairs, n + 1, Bound(e, pairs[n + 1][1], pairs[n + 1][2]))
<1> DEFINE m == n + 1 at == pairs[m][1] view == pairs[m][2] d == Bound(e, at, view)
           size == Len(pairs)
<1>1. size \in Nat /\ m \in 1 .. size /\ n \in Nat
  BY BindsIs
<1>2. \A i \in 1 .. size : pairs[i][1] \in Places
  BY DEF IsPairs
<1>3. \A other : Overlap(None, other) = FALSE
  BY DEF Overlap
<1>4. ASSUME NEW p \in Places \ {at}
      PROVE  /\ at.kind = "srv" => ~Clash(at, view, p, e[p])
             /\ Clash(at, view, p, e[p]) => \E i \in m + 1 .. size : p = pairs[i][1]
  <2>1. CASE \A i \in 1 .. size : p # pairs[i][1]
    <3>1. e[p] = s[p] /\ ~Clash(at, view, p, s[p])
      BY <1>1, <2>1 DEF PutSome, Fits
    <3> QED
      BY <3>1
  <2>2. ASSUME NEW i \in 1 .. n, p = pairs[i][1]
        PROVE  ~Clash(at, view, p, e[p])
    <3>1. e[p] = pairs[i][2]
      BY <2>2 DEF PutSome
    <3>2. ~Clash(pairs[m][1], pairs[m][2], pairs[i][1], pairs[i][2])
      BY <1>1 DEF Fits
    <3> QED
      BY <2>2, <3>1, <3>2
  <2>3. ASSUME NEW i \in m + 1 .. size, p = pairs[i][1]
        PROVE  at.kind = "srv" => ~Clash(at, view, p, e[p])
    <3>1. e[p] \in {s[p], None}
      BY <1>1, <2>3 DEF PutSome
    <3>2. at.kind = "srv" => ~Clash(at, view, p, s[p])
      BY <1>1, <2>3 DEF Fits
    <3> QED
      BY <1>3, <3>1, <3>2 DEF Clash
  <2>4. \A i \in 1 .. size : i \in 1 .. n \/ i = m \/ i \in m + 1 .. size
    BY <1>1
  <2> HIDE DEF at, view, m
  <2>5. p # pairs[m][1]
    BY DEF at
  <2> QED
    BY <2>1, <2>2, <2>3, <2>4, <2>5
<1>5. at \in Places /\ e = [p \in Places |-> e[p]]
  BY <1>1, <1>2 DEF PutSome
<1> HIDE DEF at, view
<1>6. /\ d = [p \in Places |-> d[p]]
      /\ d[at] = view
      /\ \A p \in Places \ {at} : d[p] = e[p] \/ (d[p] = None /\ Clash(at, view, p, e[p]))
  BY <1>4, <1>5, BoundIs
<1> HIDE DEF d
<1>7. \A i \in 1 .. size : i # m => pairs[i][1] \in Places \ {at}
  BY <1>1, <1>2 DEF Fits, at
<1>8. ASSUME NEW i \in 1 .. m
      PROVE  d[pairs[i][1]] = pairs[i][2]
  <2>1. CASE i = m
    BY <1>6, <2>1 DEF at, view
  <2>2. CASE i # m
    <3>1. i \in 1 .. n /\ i \in 1 .. size
      BY <1>1, <2>2
    <3>2. ~\E j \in m + 1 .. size : pairs[i][1] = pairs[j][1]
      BY <1>1, <3>1 DEF Fits
    <3>3. d[pairs[i][1]] = e[pairs[i][1]]
      BY <1>4, <1>6, <1>7, <2>2, <3>1, <3>2
    <3> QED
      BY <3>1, <3>3 DEF PutSome
  <2> QED
    BY <2>1, <2>2
<1>9. ASSUME NEW p \in Places, \A i \in 1 .. size : p # pairs[i][1]
      PROVE  d[p] = s[p]
  <2>1. p \in Places \ {at} /\ ~\E j \in m + 1 .. size : p = pairs[j][1]
    BY <1>1, <1>9 DEF at
  <2>2. d[p] = e[p]
    BY <1>4, <1>6, <2>1
  <2> QED
    BY <1>9, <2>2 DEF PutSome
<1>10. ASSUME NEW i \in m + 1 .. size
       PROVE  d[pairs[i][1]] \in {s[pairs[i][1]], None}
  <2>1. i \in n + 1 .. size /\ i \in 1 .. size /\ i # m
    BY <1>1
  <2>2. d[pairs[i][1]] \in {e[pairs[i][1]], None}
    BY <1>6, <1>7, <2>1
  <2> QED
    BY <2>1, <2>2 DEF PutSome
<1> QED
  BY <1>6, <1>8, <1>9, <1>10 DEF PutSome, d, at, view

LEMMA BindsRun ==
  ASSUME NEW pairs, IsPairs(pairs), NEW s, s = [p \in Places |-> s[p]], Fits(s, pairs)
  PROVE  \E e : Runs(s, Binds(pairs), e) /\ Puts(s, pairs, e)
<1> DEFINE c == Binds(pairs) size == Len(pairs)
           P(n) == \E e : Runs(s, SubSeq(c, 1, n), e) /\ PutSome(s, pairs, n, e)
           Bad == {n \in 0 .. size : ~P(n)}
<1>0. IsSeq(c)
  BY BindsIs
<1>1. /\ Len(c) = size /\ size \in Nat
      /\ \A i \in 1 .. size : c[i] = [do |-> "bind", at |-> pairs[i][1], view |-> pairs[i][2]]
  BY BindsIs
<1>s. PICK S : c \in Seq(S)
  BY <1>0 DEF IsSeq
<1> HIDE DEF c
<1>2. P(0)
  <2>1. SubSeq(c, 1, 0) = <<>>
    BY SubSeqEmpty
  <2>2. PutSome(s, pairs, 0, s)
    BY <1>1 DEF PutSome
  <2> QED
    BY <2>1, <2>2, RunsNothing
<1>3. ASSUME NEW n \in 0 .. size - 1, P(n)
      PROVE  P(n + 1)
  <2>1. PICK e : Runs(s, SubSeq(c, 1, n), e) /\ PutSome(s, pairs, n, e)
    BY <1>3
  <2> DEFINE d == Bound(e, pairs[n + 1][1], pairs[n + 1][2]) k == c[n + 1]
  <2>2. n + 1 \in 1 .. size /\ n \in Nat
    BY <1>1
  <2>3. Does(e, k, d)
    <3>1. k.do = "bind" /\ k.at = pairs[n + 1][1] /\ k.view = pairs[n + 1][2]
      <4>1. k = [do |-> "bind", at |-> pairs[n + 1][1], view |-> pairs[n + 1][2]]
        BY <1>1, <2>2
      <4> HIDE DEF k
      <4> QED
        BY <4>1
    <3>2. d = Bound(e, k.at, k.view)
      BY <3>1
    <3> HIDE DEF d, k
    <3> QED
      BY <3>1, <3>2 DEF Does
  <2>4. SubSeq(c, 1, n + 1) = SubSeq(c, 1, n) \o <<k>>
    <3> DEFINE m == n + 1
    <3>1. 1 \in 1 .. Len(c) /\ m \in 1 .. Len(c) /\ m - 1 = n
      BY <1>1, <2>2
    <3> HIDE DEF m
    <3>2. SubSeq(c, 1, m) = SubSeq(c, 1, m - 1) \o <<c[m]>>
      BY <1>s, <3>1, SubSeqRecursiveSecond
    <3> QED
      BY <3>1, <3>2 DEF m
  <2>5. IsSeq(SubSeq(c, 1, n)) /\ IsSeq(<<k>>)
    <3>1. \A i \in 1 .. n : c[i] \in S
      BY <1>1, <1>s, <2>2, ElementOfSeq
    <3>2. SubSeq(c, 1, n) \in Seq(S)
      BY <2>2, <3>1, SubSeqProperties
    <3> HIDE DEF k
    <3> QED
      BY <3>2, SingleIsSeq DEF IsSeq
  <2>6. PutSome(s, pairs, n + 1, d)
    BY <2>1, OneMore
  <2> HIDE DEF d, k
  <2>7. Runs(s, SubSeq(c, 1, n) \o <<k>>, d)
    BY <2>1, <2>3, <2>5, RunsOne, RunsThen
  <2> QED
    BY <2>4, <2>6, <2>7
<1> HIDE DEF P
<1>4. Bad = {}
  <2> SUFFICES ASSUME Bad # {} PROVE FALSE
    OBVIOUS
  <2>0. Bad \in SUBSET Nat
    BY <1>1
  <2>1. PICK n \in Bad : \A m \in Bad : n <= m
    <3> HIDE DEF Bad
    <3> QED
      BY <2>0, LeastElement
  <2>2. n \in 0 .. size /\ ~P(n)
    OBVIOUS
  <2>3. n # 0
    BY <1>2, <2>2
  <2>4. n - 1 \in 0 .. size - 1 /\ n - 1 + 1 = n /\ n - 1 \in 0 .. size /\ ~(n <= n - 1)
    BY <1>1, <2>2, <2>3
  <2>5. P(n - 1)
    BY <2>1, <2>4
  <2>6. P(n - 1 + 1)
    BY <1>3, <2>4, <2>5
  <2> QED
    BY <2>2, <2>4, <2>6
<1>5. P(size)
  BY <1>1, <1>4
<1>6. SubSeq(c, 1, size) = c
  BY <1>1, <1>s, SubSeqFull
<1>7. PICK e : Runs(s, c, e) /\ PutSome(s, pairs, size, e)
  BY <1>5, <1>6 DEF P
<1>8. DOMAIN pairs = 1 .. size
  BY BindsIs
<1>9. Puts(s, pairs, e)
  BY <1>7, <1>8 DEF Puts, PutSome
<1> QED
  BY <1>7, <1>9 DEF c

-------------------------------------------------------------------------------
(* Places and buffers *)

LEMMA Kinds ==
  /\ \A stage, slot : /\ ShaderResource(stage, slot).kind = "srv"
                      /\ Constants(stage, slot).kind = "constants"
                      /\ Unordered(slot).kind = "uav"
  /\ \A name : State(name).kind = "state"
  /\ RenderTarget.kind = "rtv" /\ DepthStencil.kind = "dsv"
  /\ \A stage, slot, other, n :
       (ShaderResource(stage, slot) = ShaderResource(other, n)) <=> (stage = other /\ slot = n)
  /\ \A stage, slot, other, n :
       (Constants(stage, slot) = Constants(other, n)) <=> (stage = other /\ slot = n)
  /\ \A slot, n : (Unordered(slot) = Unordered(n)) <=> (slot = n)
  /\ \A name, other : (State(name) = State(other)) <=> (name = other)
BY DEF ShaderResource, Constants, Unordered, State, RenderTarget, DepthStencil

LEMMA PlacesAre ==
  /\ \A stage \in {"Vertex", "Pixel", "Compute"} : \A slot \in 0 .. 8 :
       ShaderResource(stage, slot) \in Places
  /\ \A stage \in {"Vertex", "Pixel", "Compute"} : \A slot \in 0 .. 1 : Constants(stage, slot) \in Places
  /\ \A slot \in 0 .. 4 : Unordered(slot) \in Places
  /\ State("Shaders") \in Places /\ State("Topology") \in Places
  /\ RenderTarget \in Places /\ DepthStencil \in Places
  /\ \A p \in Places : /\ p.kind = "rtv" => p = RenderTarget
                       /\ p.kind = "dsv" => p = DepthStencil
<1> DEFINE Stages == {"Vertex", "Pixel", "Compute"}
           Read == {ShaderResource(stage, slot) : stage \in Stages, slot \in 0 .. 8}
           Written == {Unordered(slot) : slot \in 0 .. 4}
           Fixed == {Constants(stage, slot) : stage \in Stages, slot \in 0 .. 1}
           Single == {State("Shaders"), State("Topology"), RenderTarget, DepthStencil}
<1>0. /\ \A p : p \in Read <=> \E stage \in Stages, slot \in 0 .. 8 : p = ShaderResource(stage, slot)
      /\ \A p : p \in Written <=> \E slot \in 0 .. 4 : p = Unordered(slot)
      /\ \A p : p \in Fixed <=> \E stage \in Stages, slot \in 0 .. 1 : p = Constants(stage, slot)
      /\ \A p : p \in Single <=> p \in {State("Shaders"), State("Topology"), RenderTarget, DepthStencil}
  OBVIOUS
<1>p. Places = Read \cup Written \cup Fixed \cup Single
  BY DEF Places
<1> HIDE DEF Stages, Read, Written, Fixed, Single
<1>q. \A p : p \in Places <=> p \in Read \/ p \in Written \/ p \in Fixed \/ p \in Single
  BY <1>p
<1>1. /\ \A stage \in Stages : \A slot \in 0 .. 8 : ShaderResource(stage, slot) \in Places
      /\ \A stage \in Stages : \A slot \in 0 .. 1 : Constants(stage, slot) \in Places
      /\ \A slot \in 0 .. 4 : Unordered(slot) \in Places
      /\ State("Shaders") \in Places /\ State("Topology") \in Places
      /\ RenderTarget \in Places /\ DepthStencil \in Places
  BY Zenon, <1>0, <1>q
<1>3. \A p \in Places : /\ p.kind = "rtv" => p = RenderTarget
                        /\ p.kind = "dsv" => p = DepthStencil
  <2>1. \A p \in Read \cup Written \cup Fixed : p.kind \in {"srv", "uav", "constants"}
    BY <1>0, Kinds
  <2>2. \A p \in Single : p.kind = "state" \/ p = RenderTarget \/ p = DepthStencil
    BY <1>0, Kinds
  <2> QED
    BY <1>q, <2>1, <2>2, Kinds
<1> QED
  BY <1>1, <1>3 DEF Stages

\* Views of two buffers of a renderer, or of a buffer and an output, cover nothing together.
LEMMA ViewsApart ==
  ASSUME NEW r \in Renderers
  PROVE  /\ \A n, m : n # m => ~Overlap(Buffer(r, n), Buffer(r, m))
         /\ \A n, m, k : n # m => ~Overlap(Buffer(r, n), Level(r, m, k))
         /\ \A n, m, k : n # m => ~Overlap(Level(r, m, k), Buffer(r, n))
         /\ \A n, m, k, l : n # m \/ k # l => ~Overlap(Level(r, n, k), Level(r, m, l))
         /\ \A n : ~Overlap(Back, Buffer(r, n)) /\ ~Overlap(Depth, Buffer(r, n))
         /\ \A n, k : ~Overlap(Back, Level(r, n, k)) /\ ~Overlap(Depth, Level(r, n, k))
         /\ \A v : ~Overlap(None, v) /\ ~Overlap(v, None)
<1>1. r # "app"
  BY DEF Renderers
<1>2. \A n : \E g : Buffer(r, n).of = <<r, n, g>>
  BY DEF Buffer, View
<1>3. \A n, k : Level(r, n, k).of = <<r, n, k>>
  BY DEF Level, View
<1>4. Back.of = <<"swapchain", "BackBuffer">> /\ Depth.of = <<"app", "depth", generation.depth>>
  BY DEF Back, Depth, View
<1>5. \A n, m, k, l : <<r, n, k>> = <<r, m, l>> => n = m /\ k = l
  OBVIOUS
<1>6. \A n, k : /\ <<r, n, k>> # <<"swapchain", "BackBuffer">>
                /\ <<r, n, k>> # <<"app", "depth", generation.depth>>
  BY <1>1
<1> QED
  BY <1>2, <1>3, <1>4, <1>5, <1>6 DEF Overlap

-------------------------------------------------------------------------------
(* Passes *)

Clean(s) == InFrame(s) /\ \A p \in Places : p.kind \in {"srv", "uav"} => s[p] = None

Passes(c) == IsSeq(c) /\ \A s : Clean(s) => \E e : Runs(s, c, e) /\ Clean(e)

LEMMA PassesThen ==
  ASSUME NEW c, NEW d, Passes(c), Passes(d)
  PROVE  Passes(c \o d)
<1>1. IsSeq(c) /\ IsSeq(d)
  BY DEF Passes
<1>2. ASSUME NEW s, Clean(s)
      PROVE  \E e : Runs(s, c \o d, e) /\ Clean(e)
  <2>1. PICK m : Runs(s, c, m) /\ Clean(m)
    BY <1>2 DEF Passes
  <2>2. PICK e : Runs(m, d, e) /\ Clean(e)
    BY <2>1 DEF Passes
  <2> QED
    BY <1>1, <2>1, <2>2, RunsThen
<1> QED
  BY <1>1, <1>2, ConcatIsSeq DEF Passes

LEMMA PassesNothing == Passes(<<>>)
<1>1. IsSeq(<<>>)
  BY SeqFromRange, EmptySeq DEF IsSeq
<1> QED
  BY <1>1, RunsNothing DEF Passes

\* Places and names of buffers, none twice.
IsNamed(pairs) ==
  /\ IsPairs(pairs)
  /\ \A i, j \in 1 .. Len(pairs) : i # j => pairs[i][1] # pairs[j][1] /\ pairs[i][2] # pairs[j][2]
  /\ \A i \in 1 .. Len(pairs) : pairs[i][1].kind \notin {"rtv", "dsv"}

LEMMA OfIs ==
  ASSUME NEW r, NEW pairs, IsSeq(pairs)
  PROVE  /\ IsSeq(Of(r, pairs)) /\ Len(Of(r, pairs)) = Len(pairs) /\ Len(pairs) \in Nat
         /\ DOMAIN pairs = 1 .. Len(pairs) /\ DOMAIN Of(r, pairs) = 1 .. Len(pairs)
         /\ \A i \in 1 .. Len(pairs) : Of(r, pairs)[i] = <<pairs[i][1], Buffer(r, pairs[i][2])>>
<1> DEFINE n == Len(pairs)
<1>1. n \in Nat /\ DOMAIN pairs = 1 .. n
  BY LenProperties DEF IsSeq
<1> HIDE DEF n
<1>2. Of(r, pairs) = [i \in 1 .. n |-> <<pairs[i][1], Buffer(r, pairs[i][2])>>]
  BY <1>1 DEF Of
<1>3. IsSeq(Of(r, pairs)) /\ Len(Of(r, pairs)) = n
  BY <1>1, <1>2, SeqFromRange
<1> QED
  BY <1>1, <1>2, <1>3 DEF n

LEMMA NamedFits ==
  ASSUME NEW r \in Renderers, NEW pairs, IsNamed(pairs), NEW s, Clean(s)
  PROVE  IsPairs(Of(r, pairs)) /\ Fits(s, Of(r, pairs))
<1> DEFINE q == Of(r, pairs) n == Len(pairs)
<1>1. /\ IsSeq(q) /\ Len(q) = n /\ n \in Nat
      /\ \A i \in 1 .. n : q[i] = <<pairs[i][1], Buffer(r, pairs[i][2])>>
  BY OfIs DEF IsNamed, IsPairs
<1> HIDE DEF q
<1>2. \A i \in 1 .. n : q[i][1] = pairs[i][1] /\ q[i][2] = Buffer(r, pairs[i][2])
  BY <1>1
<1>3. \A i \in 1 .. n : q[i][1] \in Places
  BY <1>2 DEF IsNamed, IsPairs
<1>4. ASSUME NEW i \in 1 .. n, NEW p \in Places
      PROVE  ~Clash(q[i][1], q[i][2], p, s[p])
  <2>1. CASE p.kind \in {"srv", "uav"}
    BY <1>2, <2>1, ViewsApart DEF Clash, Clean
  <2>2. CASE p.kind \in {"rtv", "dsv"}
    <3>1. s[p] \in {Back, Depth}
      BY <2>2, PlacesAre DEF Clean, InFrame
    <3> QED
      BY <1>2, <3>1, ViewsApart DEF Clash
  <2>3. CASE p.kind \notin {"srv", "uav", "rtv", "dsv"}
    BY <2>3 DEF Clash, Tracked, Writers
  <2> QED
    BY <2>1, <2>2, <2>3
<1>5. ASSUME NEW i \in 1 .. n, NEW j \in 1 .. n, i # j
      PROVE  q[i][1] # q[j][1] /\ ~Clash(q[i][1], q[i][2], q[j][1], q[j][2])
  <2>1. pairs[i][1] # pairs[j][1] /\ pairs[i][2] # pairs[j][2]
    BY <1>5 DEF IsNamed
  <2> QED
    BY <1>2, <2>1, ViewsApart DEF Clash
<1>6. IsPairs(q)
  BY <1>1, <1>3 DEF IsPairs
<1>7. Fits(s, q)
  BY <1>1, <1>3, <1>4, <1>5 DEF Fits
<1> QED
  BY <1>6, <1>7 DEF q

\* Kernels find what was bound for them.
LEMMA KernelRuns ==
  ASSUME NEW r \in Renderers, NEW pairs, IsNamed(pairs), NEW declared, IsSeq(declared),
         \A i \in 1 .. Len(declared) : \E j \in 1 .. Len(pairs) : declared[i] = pairs[j],
         NEW s, Clean(s)
  PROVE  /\ IsSeq(Binds(Of(r, pairs)) \o Run(Of(r, declared)))
         /\ \E e : /\ Runs(s, Binds(Of(r, pairs)) \o Run(Of(r, declared)), e)
                   /\ Puts(s, Of(r, pairs), e)
<1> DEFINE q == Of(r, pairs) d == Of(r, declared) c == [do |-> "run", declared |-> {d[i] : i \in DOMAIN d}]
<1>1. IsPairs(q) /\ Fits(s, q)
  BY NamedFits
<1>2. PICK e : Runs(s, Binds(q), e) /\ Puts(s, q, e)
  BY <1>1, BindsRun DEF Clean, InFrame
<1>3. /\ DOMAIN q = 1 .. Len(pairs)
      /\ \A j \in 1 .. Len(pairs) : q[j] = <<pairs[j][1], Buffer(r, pairs[j][2])>>
  BY OfIs DEF IsNamed, IsPairs
<1>4. /\ DOMAIN d = 1 .. Len(declared)
      /\ \A i \in 1 .. Len(declared) : d[i] = <<declared[i][1], Buffer(r, declared[i][2])>>
  BY OfIs
<1>5. Run(d) = <<c>>
  BY DEF Run
<1> HIDE DEF q, d
<1>6. ASSUME NEW register \in c.declared
      PROVE  \E j \in DOMAIN q : register = q[j]
  <2>1. PICK i \in 1 .. Len(declared) : register = d[i]
    BY <1>4
  <2>2. PICK j \in 1 .. Len(pairs) : declared[i] = pairs[j]
    OBVIOUS
  <2>3. d[i] = q[j]
    BY <1>3, <1>4, <2>2
  <2> QED
    BY <1>3, <2>1, <2>3
<1>7. \A register \in c.declared : e[register[1]] = register[2]
  BY <1>2, <1>6 DEF Puts
<1>8. Does(e, c, e)
  <2>1. c.do = "run"
    OBVIOUS
  <2> HIDE DEF c
  <2> QED
    BY <1>7, <2>1 DEF Does
<1> HIDE DEF c
<1>9. Runs(e, Run(d), e) /\ IsSeq(Run(d)) /\ IsSeq(Binds(q))
  BY <1>1, <1>5, <1>8, RunsOne, SingleIsSeq, BindsIs
<1>10. Runs(s, Binds(q) \o Run(d), e) /\ IsSeq(Binds(q) \o Run(d))
  BY <1>2, <1>9, RunsThen, ConcatIsSeq
<1> QED
  BY <1>2, <1>10 DEF q, d

-------------------------------------------------------------------------------
(* Unbinding *)

Cleared(s, places, e) ==
  /\ e = [p \in Places |-> e[p]]
  /\ \A p \in Places : e[p] = IF p \in places THEN None ELSE s[p]

LEMMA UnbindRuns ==
  ASSUME NEW n \in Nat, NEW pairs, pairs = [i \in 1 .. n |-> pairs[i]],
         NEW at, \A i \in 1 .. n : pairs[i] = <<at[i], None>>,
         \A i \in 1 .. n : at[i] \in Places,
         \A i, j \in 1 .. n : i # j => at[i] # at[j],
         NEW places, \A p : p \in places <=> \E i \in 1 .. n : p = at[i],
         NEW s, s = [p \in Places |-> s[p]]
  PROVE  /\ IsSeq(Binds(pairs))
         /\ \E e : Runs(s, Binds(pairs), e) /\ Cleared(s, places, e)
<1>1. IsSeq(pairs) /\ Len(pairs) = n
  BY SeqFromRange
<1>2. \A i \in 1 .. n : pairs[i][1] = at[i] /\ pairs[i][2] = None
  OBVIOUS
<1>3. IsPairs(pairs)
  BY <1>1, <1>2 DEF IsPairs
<1>4. \A q, p, other : ~Clash(q, None, p, other)
  BY DEF Clash, Overlap
<1>5. Fits(s, pairs)
  BY <1>1, <1>2, <1>4 DEF Fits
<1>6. PICK e : Runs(s, Binds(pairs), e) /\ Puts(s, pairs, e)
  BY <1>3, <1>5, BindsRun
<1>7. DOMAIN pairs = 1 .. n
  OBVIOUS
<1>8. Cleared(s, places, e)
  BY <1>2, <1>6, <1>7 DEF Cleared, Puts
<1> QED
  BY <1>3, <1>6, <1>8, BindsIs

\* Slots, none twice.
IsSlots(slots, range) ==
  /\ IsSeq(slots)
  /\ \A i \in 1 .. Len(slots) : slots[i] \in range
  /\ \A i, j \in 1 .. Len(slots) : i # j => slots[i] # slots[j]

ReadSlots(stage, slots) == {ShaderResource(stage, slots[i]) : i \in 1 .. Len(slots)}

WriteSlots(slots) == {Unordered(slots[i]) : i \in 1 .. Len(slots)}

LEMMA UnbindReadRuns ==
  ASSUME NEW stage \in {"Vertex", "Pixel", "Compute"}, NEW slots, IsSlots(slots, 0 .. 8),
         NEW s, s = [p \in Places |-> s[p]]
  PROVE  /\ IsSeq(UnbindShaderResources(stage, slots))
         /\ \E e : Runs(s, UnbindShaderResources(stage, slots), e) /\ Cleared(s, ReadSlots(stage, slots), e)
<1> DEFINE n == Len(slots) at == [i \in 1 .. n |-> ShaderResource(stage, slots[i])]
           pairs == [i \in 1 .. n |-> <<at[i], None>>]
<1>1. n \in Nat /\ DOMAIN slots = 1 .. n
  BY LenProperties DEF IsSlots, IsSeq
<1>2. UnbindShaderResources(stage, slots) = Binds(pairs)
  BY <1>1 DEF UnbindShaderResources
<1>3. \A i \in 1 .. n : at[i] \in Places
  BY PlacesAre DEF IsSlots
<1>4. \A i, j \in 1 .. n : i # j => at[i] # at[j]
  BY Kinds DEF IsSlots
<1> DEFINE places == ReadSlots(stage, slots)
<1>5. \A p : p \in places <=> \E i \in 1 .. n : p = at[i]
  BY DEF ReadSlots
<1>6. pairs = [i \in 1 .. n |-> pairs[i]] /\ \A i \in 1 .. n : pairs[i] = <<at[i], None>>
  OBVIOUS
<1> HIDE DEF at, n, pairs, places
<1>7. /\ IsSeq(Binds(pairs))
      /\ \E e : Runs(s, Binds(pairs), e) /\ Cleared(s, places, e)
  BY <1>1, <1>3, <1>4, <1>5, <1>6, UnbindRuns
<1> QED
  BY <1>2, <1>7 DEF places

LEMMA UnbindWrittenRuns ==
  ASSUME NEW slots, IsSlots(slots, 0 .. 4), NEW s, s = [p \in Places |-> s[p]]
  PROVE  /\ IsSeq(UnbindUnorderedAccessViews(slots))
         /\ \E e : Runs(s, UnbindUnorderedAccessViews(slots), e) /\ Cleared(s, WriteSlots(slots), e)
<1> DEFINE n == Len(slots) at == [i \in 1 .. n |-> Unordered(slots[i])]
           pairs == [i \in 1 .. n |-> <<at[i], None>>]
<1>1. n \in Nat /\ DOMAIN slots = 1 .. n
  BY LenProperties DEF IsSlots, IsSeq
<1>2. UnbindUnorderedAccessViews(slots) = Binds(pairs)
  BY <1>1 DEF UnbindUnorderedAccessViews
<1>3. \A i \in 1 .. n : at[i] \in Places
  BY PlacesAre DEF IsSlots
<1>4. \A i, j \in 1 .. n : i # j => at[i] # at[j]
  BY Kinds DEF IsSlots
<1> DEFINE places == WriteSlots(slots)
<1>5. \A p : p \in places <=> \E i \in 1 .. n : p = at[i]
  BY DEF WriteSlots
<1>6. pairs = [i \in 1 .. n |-> pairs[i]] /\ \A i \in 1 .. n : pairs[i] = <<at[i], None>>
  OBVIOUS
<1> HIDE DEF at, n, pairs, places
<1>7. /\ IsSeq(Binds(pairs))
      /\ \E e : Runs(s, Binds(pairs), e) /\ Cleared(s, places, e)
  BY <1>1, <1>3, <1>4, <1>5, <1>6, UnbindRuns
<1> QED
  BY <1>2, <1>7 DEF places

\* What a pass has bound for reading or writing, it has unbound.
LEMMA ClearedIsClean ==
  ASSUME NEW r \in Renderers, NEW pairs, IsNamed(pairs), NEW s, Clean(s), NEW m, Puts(s, Of(r, pairs), m),
         NEW places, NEW e, Cleared(m, places, e),
         \A i \in 1 .. Len(pairs) : pairs[i][1].kind \in {"srv", "uav"} => pairs[i][1] \in places,
         \A p \in places : p.kind \in {"srv", "uav"}
  PROVE  Clean(e)
<1>1. /\ DOMAIN Of(r, pairs) = 1 .. Len(pairs)
      /\ \A i \in 1 .. Len(pairs) : Of(r, pairs)[i][1] = pairs[i][1]
  BY OfIs DEF IsNamed, IsPairs
<1>2. ASSUME NEW p \in Places, p.kind \in {"srv", "uav"}
      PROVE  e[p] = None
  <2>1. CASE p \in places
    BY <2>1 DEF Cleared
  <2>2. CASE p \notin places
    <3>1. \A i \in 1 .. Len(pairs) : p # pairs[i][1]
      BY <1>2, <2>2
    <3>2. m[p] = s[p]
      BY <1>1, <3>1 DEF Puts
    <3> QED
      BY <1>2, <2>2, <3>2 DEF Clean, Cleared
  <2> QED
    BY <2>1, <2>2
<1>3. ASSUME NEW p \in {RenderTarget, DepthStencil}
      PROVE  e[p] = s[p]
  <2>1. p \in Places /\ p.kind \in {"rtv", "dsv"}
    BY PlacesAre, Kinds
  <2>2. \A i \in 1 .. Len(pairs) : p # pairs[i][1]
    BY <2>1 DEF IsNamed
  <2>3. m[p] = s[p] /\ p \notin places
    BY <1>1, <2>1, <2>2 DEF Puts
  <2> QED
    BY <2>1, <2>3 DEF Cleared
<1> QED
  BY <1>2, <1>3 DEF Clean, InFrame, Cleared

LEMMA ClearedTwice ==
  ASSUME NEW s, NEW m, NEW e, NEW P, NEW Q, Cleared(s, P, m), Cleared(m, Q, e)
  PROVE  Cleared(s, P \cup Q, e)
BY DEF Cleared

LEMMA SomeIsClean == \E s : Clean(s)
<1> DEFINE s == [p \in Places |-> IF p = RenderTarget THEN Back ELSE IF p = DepthStencil THEN Depth ELSE None]
<1>1. s = [p \in Places |-> s[p]]
  OBVIOUS
<1>2. RenderTarget \in Places /\ DepthStencil \in Places /\ RenderTarget # DepthStencil
  BY PlacesAre, Kinds
<1>3. s[RenderTarget] = Back /\ s[DepthStencil] = Depth
  BY <1>2
<1>4. \A p \in Places : p.kind \in {"srv", "uav"} => p \notin {RenderTarget, DepthStencil}
  BY Kinds
<1>5. \A p \in Places : p.kind \in {"srv", "uav"} => s[p] = None
  BY <1>4
<1> HIDE DEF s
<1>6. Clean(s)
  BY <1>1, <1>3, <1>5 DEF Clean, InFrame
<1> QED
  BY <1>6

\* A pass of a compute shader.
LEMMA ComputePasses ==
  ASSUME NEW r \in Renderers, NEW pairs, IsNamed(pairs), NEW declared, IsSeq(declared),
         \A i \in 1 .. Len(declared) : \E j \in 1 .. Len(pairs) : declared[i] = pairs[j],
         NEW read, IsSlots(read, 0 .. 8), NEW written, IsSlots(written, 0 .. 4),
         \A i \in 1 .. Len(pairs) :
           pairs[i][1].kind \in {"srv", "uav"} => pairs[i][1] \in ReadSlots("Compute", read) \cup WriteSlots(written)
  PROVE  Passes(Binds(Of(r, pairs)) \o Run(Of(r, declared))
                  \o UnbindShaderResources("Compute", read) \o UnbindUnorderedAccessViews(written))
<1> DEFINE a == Binds(Of(r, pairs)) \o Run(Of(r, declared))
           c == UnbindShaderResources("Compute", read)
           d == UnbindUnorderedAccessViews(written)
           P == ReadSlots("Compute", read) Q == WriteSlots(written)
<1>1. \A p \in P \cup Q : p.kind \in {"srv", "uav"}
  BY Kinds DEF ReadSlots, WriteSlots
<1> HIDE DEF P, Q, a, c, d
<1>2. ASSUME NEW s, Clean(s)
      PROVE  IsSeq(a \o c \o d) /\ \E e : Runs(s, a \o c \o d, e) /\ Clean(e)
  <2>1. PICK m : IsSeq(a) /\ Runs(s, a, m) /\ Puts(s, Of(r, pairs), m)
    BY <1>2, KernelRuns DEF a
  <2>2. PICK k : IsSeq(c) /\ Runs(m, c, k) /\ Cleared(m, P, k)
    BY <2>1, UnbindReadRuns DEF c, P, Puts
  <2>3. PICK e : IsSeq(d) /\ Runs(k, d, e) /\ Cleared(k, Q, e)
    BY <2>2, UnbindWrittenRuns DEF d, Q, Cleared
  <2>4. Cleared(m, P \cup Q, e)
    BY <2>2, <2>3, ClearedTwice
  <2>5. Clean(e)
    BY <1>1, <1>2, <2>1, <2>4, ClearedIsClean DEF P, Q
  <2>6. IsSeq(a \o c) /\ Runs(s, a \o c, k)
    BY <2>1, <2>2, ConcatIsSeq, RunsThen
  <2>7. IsSeq(a \o c \o d) /\ Runs(s, a \o c \o d, e)
    BY <2>3, <2>6, ConcatIsSeq, RunsThen
  <2> QED
    BY <2>5, <2>7
<1> QED
  BY <1>2, SomeIsClean DEF Passes, a, c, d

\* Concatenation associates.
LEMMA ThreeConcat ==
  ASSUME NEW a, NEW b, NEW c, IsSeq(a), IsSeq(b), IsSeq(c)
  PROVE  a \o (b \o c) = a \o b \o c
<1>2. PICK A, B, C : a \in Seq(A) /\ b \in Seq(B) /\ c \in Seq(C)
  BY DEF IsSeq
<1> DEFINE T == A \cup B \cup C
<1>3. A \subseteq T /\ B \subseteq T /\ C \subseteq T
  OBVIOUS
<1> HIDE DEF T
<1>4. a \in Seq(T) /\ b \in Seq(T) /\ c \in Seq(T)
  BY <1>2, <1>3, SeqMonotonic
<1> QED
  BY <1>4, ConcatAssociative

\* A kernel runs where its registers are found.
LEMMA RunRuns ==
  ASSUME NEW e, NEW d, \A i \in DOMAIN d : e[d[i][1]] = d[i][2]
  PROVE  IsSeq(Run(d)) /\ Runs(e, Run(d), e)
<1> DEFINE c == [do |-> "run", declared |-> {d[i] : i \in DOMAIN d}]
<1>1. Run(d) = <<c>>
  BY DEF Run
<1>2. c.do = "run" /\ \A register \in c.declared : e[register[1]] = register[2]
  OBVIOUS
<1> HIDE DEF c
<1>3. Does(e, c, e)
  BY <1>2 DEF Does
<1> QED
  BY <1>1, <1>3, RunsOne, SingleIsSeq

-------------------------------------------------------------------------------
(* Scans *)

\* A group of views is bound and the kernel run that declares them.
LEMMA GroupRuns ==
  ASSUME NEW pairs, IsPairs(pairs), NEW s, s = [p \in Places |-> s[p]], Fits(s, pairs)
  PROVE  /\ IsSeq(Binds(pairs)) /\ IsSeq(Run(pairs))
         /\ \E e : Runs(s, Binds(pairs), e) /\ Runs(e, Run(pairs), e) /\ Puts(s, pairs, e)
<1>1. PICK e : Runs(s, Binds(pairs), e) /\ Puts(s, pairs, e)
  BY BindsRun
<1>2. IsSeq(Run(pairs)) /\ Runs(e, Run(pairs), e)
  BY <1>1, RunRuns DEF Puts
<1> QED
  BY <1>1, <1>2, BindsIs

\* A group whose views cover nothing together, nor with what else is bound.
LEMMA GroupFits ==
  ASSUME NEW pairs, IsPairs(pairs), NEW s,
         \A i, j \in 1 .. Len(pairs) :
           i < j => pairs[i][1] # pairs[j][1] /\ ~Overlap(pairs[i][2], pairs[j][2]),
         \A i \in 1 .. Len(pairs), p \in Places :
           p.kind \in Tracked /\ (\A j \in 1 .. Len(pairs) : p # pairs[j][1]) => ~Overlap(s[p], pairs[i][2]),
         \A i, j \in 1 .. Len(pairs) :
           i < j /\ pairs[i][1].kind = "srv" => ~Overlap(s[pairs[j][1]], pairs[i][2])
  PROVE  Fits(s, pairs)
<1>1. \A v, w : Overlap(v, w) <=> Overlap(w, v)
  BY DEF Overlap
<1>2. Len(pairs) \in Nat
  BY BindsIs
<1>3. \A i, j \in 1 .. Len(pairs) : i # j => i < j \/ j < i
  BY <1>2
<1> QED
  BY <1>1, <1>3 DEF Fits, Clash

\* What a level scans and the flags it reads, against the levels' own buffers.
LEMMA ScanViewsApart ==
  ASSUME NEW r \in Renderers, NEW values \in {"distances", "offsets"}, NEW level \in Nat \ {0}
  PROVE  LET scanned == ScannedAt(r, values, level)
             flags   == FlagsAt(r, level)
         IN  /\ ~Overlap(scanned, flags) /\ ~Overlap(flags, scanned)
             /\ \A name \in {"segmented", "parallel", "blockFlags", "firstBegin"} : \A l :
                  ~Overlap(scanned, Level(r, name, l)) /\ ~Overlap(Level(r, name, l), scanned)
             /\ ~Overlap(scanned, Level(r, "blockSums", level))
             /\ \A name \in {"segmented", "blockSums", "firstBegin"} : \A l :
                  ~Overlap(flags, Level(r, name, l)) /\ ~Overlap(Level(r, name, l), flags)
             /\ ~Overlap(flags, Level(r, "blockFlags", level))
             /\ \A view \in {None, Back, Depth} : ~Overlap(view, scanned) /\ ~Overlap(view, flags)
<1>1. CASE level = 1
  <2>1. ScannedAt(r, values, level) = Buffer(r, values) /\ FlagsAt(r, level) = Buffer(r, "curve_begins")
    BY <1>1 DEF ScannedAt, FlagsAt
  <2>2. values # "curve_begins" /\ values \notin {"segmented", "parallel", "blockSums", "blockFlags", "firstBegin"}
    OBVIOUS
  <2> QED
    BY <2>1, <2>2, ViewsApart
<1>2. CASE level # 1
  <2>1. /\ ScannedAt(r, values, level) = Level(r, "blockSums", level - 1)
        /\ FlagsAt(r, level) = Level(r, "blockFlags", level - 1)
    BY <1>2 DEF ScannedAt, FlagsAt
  <2>2. level - 1 # level
    OBVIOUS
  <2> QED
    BY <2>1, <2>2, ViewsApart
<1> QED
  BY <1>1, <1>2

Entered(c) ==
  IF c.scan = "segmented" THEN SegmentedLevel(c.of, c.values, c.level, c.levels)
  ELSE ParallelLevel(c.of, c.values, c.level, c.levels)

LEMMA ScanSlots ==
  /\ IsSlots(<<0>>, 0 .. 8) /\ IsSlots(<<3>>, 0 .. 4)
  /\ IsSlots(<<0, 1>>, 0 .. 4) /\ IsSlots(<<0, 2, 3, 4>>, 0 .. 4)
  /\ ReadSlots("Compute", <<0>>) = {CsT(0)} /\ WriteSlots(<<3>>) = {CsU(3)}
  /\ WriteSlots(<<0, 1>>) = {CsU(0), CsU(1)}
  /\ WriteSlots(<<0, 2, 3, 4>>) = {CsU(0), CsU(2), CsU(3), CsU(4)}
<1>1. /\ IsSeq(<<0>>) /\ Len(<<0>>) = 1 /\ IsSeq(<<3>>) /\ Len(<<3>>) = 1
      /\ IsSeq(<<0, 1>>) /\ Len(<<0, 1>>) = 2
      /\ IsSeq(<<0, 2, 3, 4>>) /\ Len(<<0, 2, 3, 4>>) = 4
  <2>1. /\ <<0>> \in Seq(Nat) /\ <<3>> \in Seq(Nat) /\ <<0, 1>> \in Seq(Nat) /\ <<0, 2, 3, 4>> \in Seq(Nat)
    OBVIOUS
  <2> QED
    BY <2>1 DEF IsSeq
<1>2. /\ IsSlots(<<0>>, 0 .. 8) /\ IsSlots(<<3>>, 0 .. 4)
      /\ IsSlots(<<0, 1>>, 0 .. 4) /\ IsSlots(<<0, 2, 3, 4>>, 0 .. 4)
  BY <1>1 DEF IsSlots
<1>3. ReadSlots("Compute", <<0>>) = {CsT(0)} /\ WriteSlots(<<3>>) = {CsU(3)}
  BY <1>1 DEF ReadSlots, WriteSlots, CsT, CsU
<1>4. WriteSlots(<<0, 1>>) = {CsU(0), CsU(1)}
  BY <1>1 DEF WriteSlots, CsU
<1>5. WriteSlots(<<0, 2, 3, 4>>) = {CsU(0), CsU(2), CsU(3), CsU(4)}
  BY <1>1 DEF WriteSlots, CsU
<1> QED
  BY <1>2, <1>3, <1>4, <1>5

LEMMA SegmentedRuns ==
  ASSUME NEW r \in Renderers, NEW values \in {"distances", "offsets"},
         NEW level \in Nat \ {0}, NEW levels \in Nat,
         NEW c, c = [do |-> "scan", scan |-> "segmented", of |-> r, values |-> values,
                     level |-> level, levels |-> levels],
         NEW s, ReadyToScan(s, c)
  PROVE  /\ IsSeq(SegmentedLevel(r, values, level, levels))
         /\ Runs(s, SegmentedLevel(r, values, level, levels), AfterScan(s, c))
<1> DEFINE constants == <<CsB(0), Level(r, "segmented", level)>>
           scanned   == <<CsU(0), ScannedAt(r, values, level)>>
           flags     == <<CsT(0), FlagsAt(r, level)>>
           sums      == <<CsU(2), Level(r, "blockSums", level)>>
           ends      == <<CsU(3), Level(r, "blockFlags", level)>>
           begin     == <<CsU(4), Level(r, "firstBegin", level)>>
           local     == <<constants, scanned, flags, sums, ends, begin>>
           offsets   == <<constants, scanned, sums, begin>>
           Own       == {CsT(0), CsU(0), CsU(2), CsU(3), CsU(4)}
<1>1. /\ c.scan = "segmented" /\ c.of = r /\ c.level = level
  OBVIOUS
<1>2. s = [p \in Places |-> s[p]] /\ s[RenderTarget] = Back /\ s[DepthStencil] = Depth
  BY DEF ReadyToScan, InFrame
<1>3. \A p \in Places :
        /\ p.kind \in {"srv", "uav"} /\ p \notin {CsT(0), CsU(0), CsU(2), CsU(4)} => s[p] = None
        /\ p.kind \in {"rtv", "dsv"} => s[p] \in {Back, Depth}
  BY <1>1, <1>2, PlacesAre DEF ReadyToScan
<1>4. /\ s[CsU(3)] = None
      /\ s[CsU(2)] \in {None, Level(r, "blockSums", level - 1)}
      /\ s[CsU(4)] \in {None, Level(r, "firstBegin", level - 1)}
  BY <1>1, PlacesAre, Kinds DEF ReadyToScan, CsU, CsT
<1>5. /\ IsPairs(local) /\ Len(local) = 6
      /\ IsPairs(offsets) /\ Len(offsets) = 4
  <2>1. local = [i \in 1 .. 6 |-> local[i]] /\ offsets = [i \in 1 .. 4 |-> offsets[i]]
    OBVIOUS
  <2>2. IsSeq(local) /\ Len(local) = 6 /\ IsSeq(offsets) /\ Len(offsets) = 4
    BY <2>1, SeqFromRange
  <2>3. /\ \A i \in 1 .. 6 : local[i][1] \in Places
        /\ \A i \in 1 .. 4 : offsets[i][1] \in Places
    BY PlacesAre DEF CsB, CsU, CsT
  <2> QED
    BY <2>2, <2>3 DEF IsPairs
<1>6. /\ local[1] = constants /\ local[2] = scanned /\ local[3] = flags
      /\ local[4] = sums /\ local[5] = ends /\ local[6] = begin
      /\ offsets[1] = constants /\ offsets[2] = scanned /\ offsets[3] = sums /\ offsets[4] = begin
  OBVIOUS
<1>7. /\ \A i, j \in 1 .. 6 : i < j => local[i][1] # local[j][1]
      /\ \A i, j \in 1 .. 4 : i < j => offsets[i][1] # offsets[j][1]
  BY Kinds DEF CsB, CsU, CsT
<1>8. /\ \A i, j \in 1 .. 6 : i < j => ~Overlap(local[i][2], local[j][2])
      /\ \A i, j \in 1 .. 4 : i < j => ~Overlap(offsets[i][2], offsets[j][2])
  <2> HIDE DEF local, offsets
  <2>1. /\ local[1][2] = Level(r, "segmented", level) /\ local[2][2] = ScannedAt(r, values, level)
        /\ local[3][2] = FlagsAt(r, level) /\ local[4][2] = Level(r, "blockSums", level)
        /\ local[5][2] = Level(r, "blockFlags", level) /\ local[6][2] = Level(r, "firstBegin", level)
        /\ offsets[1][2] = Level(r, "segmented", level) /\ offsets[2][2] = ScannedAt(r, values, level)
        /\ offsets[3][2] = Level(r, "blockSums", level) /\ offsets[4][2] = Level(r, "firstBegin", level)
    BY <1>6
  <2> QED
    BY <2>1, ScanViewsApart, ViewsApart
<1>9. /\ \A i \in 1 .. 6 : \A view \in {None, Back, Depth} : ~Overlap(view, local[i][2])
      /\ \A i \in 1 .. 4 : \A view \in {None, Back, Depth} : ~Overlap(view, offsets[i][2])
  <2> HIDE DEF local, offsets
  <2> QED
    BY <1>6, ScanViewsApart, ViewsApart
<1>10. Fits(s, local)
  <2>1. ASSUME NEW i \in 1 .. 6, NEW p \in Places, p.kind \in Tracked, \A j \in 1 .. 6 : p # local[j][1]
        PROVE  ~Overlap(s[p], local[i][2])
    <3>1. p \notin {CsT(0), CsU(0), CsU(2), CsU(4)}
      BY <1>6, <2>1
    <3>2. s[p] \in {None, Back, Depth}
      BY <1>3, <2>1, <3>1 DEF Tracked, Writers
    <3> QED
      BY <1>9, <3>2
  <2>2. ASSUME NEW i \in 1 .. 6, NEW j \in 1 .. 6, i < j, local[i][1].kind = "srv"
        PROVE  ~Overlap(s[local[j][1]], local[i][2])
    <3>1. i = 3
      BY <1>6, <2>2, Kinds DEF CsB, CsU, CsT
    <3>2. local[i][2] = FlagsAt(r, level)
      BY <1>6, <3>1
    <3>3. /\ s[CsU(2)] \in {None, Level(r, "blockSums", level - 1)} => ~Overlap(s[CsU(2)], FlagsAt(r, level))
          /\ ~Overlap(s[CsU(3)], FlagsAt(r, level))
          /\ s[CsU(4)] \in {None, Level(r, "firstBegin", level - 1)} => ~Overlap(s[CsU(4)], FlagsAt(r, level))
      BY <1>4, ScanViewsApart
    <3>4. local[j][1] \in {CsU(2), CsU(3), CsU(4)}
      BY <1>6, <2>2, <3>1
    <3> QED
      BY <1>4, <3>2, <3>3, <3>4
  <2> HIDE DEF local
  <2> QED
    BY <1>5, <1>7, <1>8, <2>1, <2>2, GroupFits
<1>11. PICK m : /\ IsSeq(Binds(local)) /\ IsSeq(Run(local))
                /\ Runs(s, Binds(local), m) /\ Runs(m, Run(local), m) /\ Puts(s, local, m)
  <2> HIDE DEF local
  <2> QED
    BY <1>2, <1>5, <1>10, GroupRuns
<1> DEFINE unread == UnbindShaderResources("Compute", <<0>>)
           unwrite == UnbindUnorderedAccessViews(<<0, 2, 3, 4>>)
<1>12. ASSUME NEW k, k = [p \in Places |-> k[p]], k[CsB(0)] = Level(r, "segmented", level),
              \A p \in Places \ (Own \cup {CsB(0)}) : k[p] = s[p]
       PROVE  \E a : /\ IsSeq(unread) /\ IsSeq(unwrite)
                     /\ Runs(k, unread, a) /\ Runs(a, unwrite, AfterScan(s, c))
  <2>1. PICK a : IsSeq(unread) /\ Runs(k, unread, a) /\ Cleared(k, {CsT(0)}, a)
    <3>1. IsSlots(<<0>>, 0 .. 8) /\ ReadSlots("Compute", <<0>>) = {CsT(0)}
      BY ScanSlots
    <3>2. IsSeq(unread) /\ \E e : Runs(k, unread, e) /\ Cleared(k, ReadSlots("Compute", <<0>>), e)
      BY <1>12, <3>1, UnbindReadRuns
    <3> QED
      BY <3>1, <3>2
  <2>2. PICK e : /\ IsSeq(unwrite) /\ Runs(a, unwrite, e)
                 /\ Cleared(a, {CsU(0), CsU(2), CsU(3), CsU(4)}, e)
    <3>1. a = [p \in Places |-> a[p]]
      BY <2>1 DEF Cleared
    <3> QED
      BY <3>1, ScanSlots, UnbindWrittenRuns
  <2>3. \A p \in Places : e[p] = IF p \in Own THEN None ELSE k[p]
    BY <2>1, <2>2 DEF Cleared
  <2>4. CsB(0) \notin Own /\ s[CsU(1)] = None /\ CsU(1) \notin Own \cup {CsB(0)}
    BY <1>3, Kinds, PlacesAre DEF CsB, CsU, CsT
  <2>5. \A p \in Places : e[p] = AfterScan(s, c)[p]
    BY <1>1, <1>12, <2>3, <2>4 DEF AfterScan
  <2>6. e = AfterScan(s, c)
    BY <2>2, <2>5 DEF Cleared, AfterScan
  <2> QED
    BY <2>1, <2>2, <2>6
<1>13. /\ m = [p \in Places |-> m[p]] /\ m[CsB(0)] = Level(r, "segmented", level)
       /\ m[CsU(2)] = Level(r, "blockSums", level) /\ m[CsU(4)] = Level(r, "firstBegin", level)
       /\ \A p \in Places \ (Own \cup {CsB(0)}) : m[p] = s[p]
  <2>1. DOMAIN local = 1 .. 6
    OBVIOUS
  <2> HIDE DEF local
  <2> QED
    BY <1>6, <1>11, <2>1 DEF Puts
<1> DEFINE next == [do |-> "scan", scan |-> "segmented", of |-> r, values |-> values,
                    level |-> level + 1, levels |-> levels]
           unended == UnbindUnorderedAccessViews(<<3>>)
           call == ScanLevel("segmented", r, values, level + 1, levels)
           deeper == IF level = levels THEN <<>>
                   ELSE unended \o call \o Binds(offsets) \o Run(offsets)
<1>14. \E k : /\ IsSeq(deeper) /\ Runs(m, deeper, k) /\ k = [p \in Places |-> k[p]]
              /\ k[CsB(0)] = Level(r, "segmented", level)
              /\ \A p \in Places \ (Own \cup {CsB(0)}) : k[p] = s[p]
  <2>1. CASE level = levels
    <3>1. deeper = <<>>
      BY <2>1
    <3>2. IsSeq(<<>>) /\ Runs(m, <<>>, m)
      BY RunsNothing, PassesNothing DEF Passes
    <3> QED
      BY <1>13, <3>1, <3>2
  <2>2. CASE level # levels
    <3>1. PICK n : IsSeq(unended) /\ Runs(m, unended, n) /\ Cleared(m, {CsU(3)}, n)
      <4> DEFINE slots == <<3>>
      <4>1. IsSlots(slots, 0 .. 4) /\ WriteSlots(slots) = {CsU(3)} /\ unended = UnbindUnorderedAccessViews(slots)
        BY ScanSlots
      <4> HIDE DEF slots, unended
      <4> QED
        BY <1>13, <4>1, UnbindWrittenRuns
    <3>2. next \in Calls /\ next.do = "scan" /\ next.scan = "segmented" /\ next.of = r /\ next.level - 1 = level
      BY DEF Calls
    <3>3. \A p \in Places : n[p] = IF p = CsU(3) THEN None ELSE m[p]
      BY <3>1 DEF Cleared
    <3>4. InFrame(n)
      <4>1. /\ RenderTarget \in Places \ (Own \cup {CsB(0)}) /\ RenderTarget # CsU(3)
            /\ DepthStencil \in Places \ (Own \cup {CsB(0)}) /\ DepthStencil # CsU(3)
        BY PlacesAre, Kinds DEF CsB, CsU, CsT
      <4> QED
        BY <1>2, <1>13, <3>1, <3>3, <4>1 DEF InFrame, Cleared
    <3>5. ASSUME NEW p \in Places, p.kind \in {"srv", "uav"}
          PROVE  \/ n[p] = None \/ p = CsU(0) \/ p = CsT(0)
                 \/ p = CsU(2) /\ n[p] = Level(r, "blockSums", level)
                 \/ p = CsU(4) /\ n[p] = Level(r, "firstBegin", level)
      <4>1. p # CsB(0)
        BY <3>5, Kinds DEF CsB
      <4>2. CASE p \notin Own
        BY <1>3, <1>13, <3>3, <3>5, <4>1, <4>2
      <4>3. CASE p \in Own
        <5>1. CsU(3) # CsU(2) /\ CsU(3) # CsU(4)
          BY Kinds DEF CsU
        <5> QED
          BY <1>13, <3>3, <4>3, <5>1
      <4> QED
        BY <4>2, <4>3
    <3> HIDE DEF next
    <3>6. ReadyToScan(n, next)
      BY <3>2, <3>4, <3>5 DEF ReadyToScan
    <3> DEFINE o == AfterScan(n, next)
    <3>7. Does(n, next, o)
      BY <3>2, <3>6 DEF Does
    <3>8. call = <<next>>
      BY DEF ScanLevel, next
    <3>9. IsSeq(call) /\ Runs(n, call, o)
      BY <3>7, <3>8, RunsOne, SingleIsSeq
    <3>10. /\ o = [p \in Places |-> o[p]]
           /\ \A p \in Places : o[p] = IF p = CsB(0) THEN Level(r, "segmented", next.level)
                                       ELSE IF p \in Own \cup {CsU(1)} THEN None ELSE n[p]
      BY <3>2 DEF AfterScan
    <3> HIDE DEF o
    <3>11. ASSUME NEW p \in Places, p.kind \in Tracked
           PROVE  o[p] \in {None, Back, Depth}
      <4>1. p # CsB(0)
        BY <3>11, Kinds DEF CsB, Tracked, Writers
      <4>2. CASE p \in Own \cup {CsU(1)}
        BY <3>10, <4>1, <4>2
      <4>3. CASE p \notin Own \cup {CsU(1)}
        <5>1. o[p] = s[p]
          BY <1>13, <3>3, <3>10, <4>1, <4>3
        <5> QED
          BY <1>3, <3>11, <4>3, <5>1 DEF Tracked, Writers
      <4> QED
        BY <4>2, <4>3
    <3>12. Fits(o, offsets)
      <4> HIDE DEF offsets
      <4>1. \A i \in 1 .. 4 : offsets[i][1].kind # "srv"
        BY <1>6, Kinds DEF CsB, CsU
      <4>2. \A i \in 1 .. 4, p \in Places : p.kind \in Tracked => ~Overlap(o[p], offsets[i][2])
        BY <1>9, <3>11
      <4> QED
        BY <1>5, <1>7, <1>8, <4>1, <4>2, GroupFits
    <3>13. PICK k : /\ IsSeq(Binds(offsets)) /\ IsSeq(Run(offsets))
                    /\ Runs(o, Binds(offsets), k) /\ Runs(k, Run(offsets), k) /\ Puts(o, offsets, k)
      <4> HIDE DEF offsets
      <4> QED
        BY <1>5, <3>10, <3>12, GroupRuns
    <3>14. DOMAIN offsets = 1 .. 4
      OBVIOUS
    <3> HIDE DEF offsets
    <3>15. /\ k = [p \in Places |-> k[p]] /\ k[CsB(0)] = Level(r, "segmented", level)
           /\ \A p \in Places \ (Own \cup {CsB(0)}) : k[p] = o[p]
      BY <1>6, <3>13, <3>14 DEF Puts
    <3>16. s[CsU(1)] = None
      BY <1>3, Kinds, PlacesAre DEF CsU, CsT
    <3>17. \A p \in Places \ (Own \cup {CsB(0)}) : k[p] = s[p]
      BY <1>13, <3>3, <3>10, <3>15, <3>16
    <3> HIDE DEF unended, call
    <3>18. IsSeq(unended \o call) /\ Runs(m, unended \o call, o)
      BY <3>1, <3>9, ConcatIsSeq, RunsThen
    <3>19. IsSeq(unended \o call \o Binds(offsets)) /\ Runs(m, unended \o call \o Binds(offsets), k)
      BY <3>13, <3>18, ConcatIsSeq, RunsThen
    <3>20. /\ IsSeq(unended \o call \o Binds(offsets) \o Run(offsets))
           /\ Runs(m, unended \o call \o Binds(offsets) \o Run(offsets), k)
      BY <3>13, <3>19, ConcatIsSeq, RunsThen
    <3> QED
      BY <2>2, <3>15, <3>17, <3>20
  <2> QED
    BY <2>1, <2>2
<1>15. PICK k : /\ IsSeq(deeper) /\ Runs(m, deeper, k) /\ k = [p \in Places |-> k[p]]
                /\ k[CsB(0)] = Level(r, "segmented", level)
                /\ \A p \in Places \ (Own \cup {CsB(0)}) : k[p] = s[p]
  BY <1>14
<1>16. SegmentedLevel(r, values, level, levels)
         = Binds(local) \o Run(local) \o deeper \o unread \o unwrite
  BY DEF SegmentedLevel
<1> HIDE DEF local, deeper, unread, unwrite, Own
<1>17. PICK a : /\ IsSeq(unread) /\ IsSeq(unwrite)
                /\ Runs(k, unread, a) /\ Runs(a, unwrite, AfterScan(s, c))
  BY <1>12, <1>15
<1>18. IsSeq(Binds(local) \o Run(local)) /\ Runs(s, Binds(local) \o Run(local), m)
  BY <1>11, ConcatIsSeq, RunsThen
<1>19. IsSeq(Binds(local) \o Run(local) \o deeper) /\ Runs(s, Binds(local) \o Run(local) \o deeper, k)
  BY <1>15, <1>18, ConcatIsSeq, RunsThen
<1>20. /\ IsSeq(Binds(local) \o Run(local) \o deeper \o unread)
       /\ Runs(s, Binds(local) \o Run(local) \o deeper \o unread, a)
  BY <1>17, <1>19, ConcatIsSeq, RunsThen
<1> QED
  BY <1>16, <1>17, <1>20, ConcatIsSeq, RunsThen

LEMMA ParallelRuns ==
  ASSUME NEW r \in Renderers, NEW values \in {"distances", "offsets"},
         NEW level \in Nat \ {0}, NEW levels \in Nat,
         NEW c, c = [do |-> "scan", scan |-> "parallel", of |-> r, values |-> values,
                     level |-> level, levels |-> levels],
         NEW s, ReadyToScan(s, c)
  PROVE  /\ IsSeq(ParallelLevel(r, values, level, levels))
         /\ Runs(s, ParallelLevel(r, values, level, levels), AfterScan(s, c))
<1> DEFINE constants == <<CsB(0), Level(r, "parallel", level)>>
           scanned   == <<CsU(0), ScannedAt(r, values, level)>>
           sums      == <<CsU(1), Level(r, "blockSums", level)>>
           pass      == <<constants, scanned, sums>>
           Own       == {CsU(0), CsU(1)}
<1>1. /\ c.scan = "parallel" /\ c.of = r /\ c.level = level
  OBVIOUS
<1>2. s = [p \in Places |-> s[p]] /\ s[RenderTarget] = Back /\ s[DepthStencil] = Depth
  BY DEF ReadyToScan, InFrame
<1>3. \A p \in Places :
        /\ p.kind \in {"srv", "uav"} /\ p \notin Own => s[p] = None
        /\ p.kind \in {"rtv", "dsv"} => s[p] \in {Back, Depth}
  BY <1>1, <1>2, PlacesAre DEF ReadyToScan
<1>4. IsPairs(pass) /\ Len(pass) = 3
  <2>1. pass = [i \in 1 .. 3 |-> pass[i]]
    OBVIOUS
  <2>2. IsSeq(pass) /\ Len(pass) = 3
    BY <2>1, SeqFromRange
  <2>3. \A i \in 1 .. 3 : pass[i][1] \in Places
    BY PlacesAre DEF CsB, CsU
  <2> QED
    BY <2>2, <2>3 DEF IsPairs
<1>5. pass[1] = constants /\ pass[2] = scanned /\ pass[3] = sums /\ DOMAIN pass = 1 .. 3
  OBVIOUS
<1>6. /\ \A i, j \in 1 .. 3 : i < j => pass[i][1] # pass[j][1]
      /\ \A i \in 1 .. 3 : pass[i][1].kind # "srv"
  BY Kinds DEF CsB, CsU
<1> HIDE DEF pass
<1>7. /\ \A i, j \in 1 .. 3 : i < j => ~Overlap(pass[i][2], pass[j][2])
      /\ \A i \in 1 .. 3 : \A view \in {None, Back, Depth} : ~Overlap(view, pass[i][2])
  <2>1. /\ pass[1][2] = Level(r, "parallel", level) /\ pass[2][2] = ScannedAt(r, values, level)
        /\ pass[3][2] = Level(r, "blockSums", level)
    BY <1>5
  <2> QED
    BY <2>1, ScanViewsApart, ViewsApart
<1> DEFINE Like(k) == k = [p \in Places |-> k[p]] /\ \A p \in Places \ (Own \cup {CsB(0)}) : k[p] = s[p]
\* The group is bound once or, around the next level, twice.
<1>8. ASSUME NEW o, Like(o)
      PROVE  \E m : /\ IsSeq(Binds(pass) \o Run(pass)) /\ Runs(o, Binds(pass) \o Run(pass), m)
                    /\ Like(m) /\ m[CsB(0)] = Level(r, "parallel", level)
  <2>1. ASSUME NEW i \in 1 .. 3, NEW p \in Places, p.kind \in Tracked, \A j \in 1 .. 3 : p # pass[j][1]
        PROVE  ~Overlap(o[p], pass[i][2])
    <3>1. p \notin Own \cup {CsB(0)}
      BY <1>5, <2>1
    <3>2. s[p] \in {None, Back, Depth}
      BY <1>3, <2>1, <3>1 DEF Tracked, Writers
    <3>3. o[p] = s[p]
      BY <1>8, <3>1
    <3> QED
      BY <1>7, <3>2, <3>3
  <2>2. Fits(o, pass)
    <3>1. \A i, j \in 1 .. 3 :
            i < j => pass[i][1] # pass[j][1] /\ ~Overlap(pass[i][2], pass[j][2])
      BY <1>6, <1>7
    <3>2. \A i, j \in 1 .. 3 : i < j /\ pass[i][1].kind = "srv" => ~Overlap(o[pass[j][1]], pass[i][2])
      BY <1>6
    <3> QED
      BY <1>4, <2>1, <3>1, <3>2, GroupFits
  <2>3. PICK m : /\ IsSeq(Binds(pass)) /\ IsSeq(Run(pass))
                 /\ Runs(o, Binds(pass), m) /\ Runs(m, Run(pass), m) /\ Puts(o, pass, m)
    BY <1>4, <1>8, <2>2, GroupRuns
  <2>4. Like(m) /\ m[CsB(0)] = Level(r, "parallel", level)
    BY <1>5, <1>8, <2>3 DEF Puts
  <2> QED
    BY <2>3, <2>4, ConcatIsSeq, RunsThen
<1>9. PICK m : /\ IsSeq(Binds(pass) \o Run(pass)) /\ Runs(s, Binds(pass) \o Run(pass), m)
               /\ Like(m) /\ m[CsB(0)] = Level(r, "parallel", level)
  BY <1>2, <1>8
<1> DEFINE next == [do |-> "scan", scan |-> "parallel", of |-> r, values |-> values,
                    level |-> level + 1, levels |-> levels]
           call == ScanLevel("parallel", r, values, level + 1, levels)
           deeper == IF level = levels THEN <<>> ELSE call \o Binds(pass) \o Run(pass)
           unwrite == UnbindUnorderedAccessViews(<<0, 1>>)
<1>10. \E k : IsSeq(deeper) /\ Runs(m, deeper, k) /\ Like(k) /\ k[CsB(0)] = Level(r, "parallel", level)
  <2>1. CASE level = levels
    <3>1. deeper = <<>>
      BY <2>1
    <3>2. IsSeq(<<>>) /\ Runs(m, <<>>, m)
      BY RunsNothing, PassesNothing DEF Passes
    <3> QED
      BY <1>9, <3>1, <3>2
  <2>2. CASE level # levels
    <3>1. next \in Calls /\ next.do = "scan" /\ next.scan = "parallel"
      BY DEF Calls
    <3>2. InFrame(m)
      <4>1. RenderTarget \in Places \ (Own \cup {CsB(0)}) /\ DepthStencil \in Places \ (Own \cup {CsB(0)})
        BY PlacesAre, Kinds DEF CsB, CsU
      <4> QED
        BY <1>2, <1>9, <4>1 DEF InFrame
    <3>3. \A p \in Places : p.kind \in {"srv", "uav"} /\ p \notin Own => m[p] = None
      <4>1. CsB(0).kind = "constants"
        BY Kinds DEF CsB
      <4> QED
        BY <1>3, <1>9, <4>1
    <3> HIDE DEF next
    <3>4. ReadyToScan(m, next)
      BY <3>1, <3>2, <3>3 DEF ReadyToScan
    <3> DEFINE o == AfterScan(m, next)
    <3>5. Does(m, next, o)
      BY <3>1, <3>4 DEF Does
    <3>6. call = <<next>>
      BY DEF ScanLevel, next
    <3>7. IsSeq(call) /\ Runs(m, call, o)
      BY <3>5, <3>6, RunsOne, SingleIsSeq
    <3>8. Like(o)
      <4>1. /\ o = [p \in Places |-> o[p]]
            /\ \A p \in Places \ (Own \cup {CsB(0)}) :
                 o[p] = IF p \in {CsT(0), CsU(2), CsU(3), CsU(4)} THEN None ELSE m[p]
        BY DEF AfterScan
      <4>2. \A p \in {CsT(0), CsU(2), CsU(3), CsU(4)} : p \in Places /\ p \notin Own => m[p] = None
        BY <3>3, Kinds DEF CsT, CsU
      <4> QED
        BY <1>9, <4>1, <4>2
    <3> HIDE DEF o, call, Like
    <3>9. PICK k : /\ IsSeq(Binds(pass) \o Run(pass)) /\ Runs(o, Binds(pass) \o Run(pass), k)
                   /\ Like(k) /\ k[CsB(0)] = Level(r, "parallel", level)
      BY <1>8, <3>8
    <3>10. IsSeq(call \o (Binds(pass) \o Run(pass))) /\ Runs(m, call \o (Binds(pass) \o Run(pass)), k)
      BY <3>7, <3>9, ConcatIsSeq, RunsThen
    <3>11. IsSeq(Binds(pass)) /\ IsSeq(Run(pass))
      BY <1>4, BindsIs, SingleIsSeq DEF Run
    <3>12. call \o (Binds(pass) \o Run(pass)) = call \o Binds(pass) \o Run(pass)
      BY <3>7, <3>11, ThreeConcat
    <3> QED
      BY <2>2, <3>9, <3>10, <3>12
  <2> QED
    BY <2>1, <2>2
<1>11. PICK k : IsSeq(deeper) /\ Runs(m, deeper, k) /\ Like(k) /\ k[CsB(0)] = Level(r, "parallel", level)
  BY <1>10
<1>12. ParallelLevel(r, values, level, levels) = Binds(pass) \o Run(pass) \o deeper \o unwrite
  BY DEF ParallelLevel, pass
<1> HIDE DEF deeper
<1>13. PICK e : /\ IsSeq(unwrite) /\ Runs(k, unwrite, e) /\ Cleared(k, {CsU(0), CsU(1)}, e)
  BY <1>11, ScanSlots, UnbindWrittenRuns
<1> HIDE DEF unwrite
<1>14. e = AfterScan(s, c)
  <2>1. \A p \in Places : e[p] = IF p \in Own THEN None ELSE k[p]
    BY <1>13 DEF Cleared
  <2>2. CsB(0) \notin Own
    BY Kinds DEF CsB, CsU
  <2>3. \A p \in {CsT(0), CsU(2), CsU(3), CsU(4)} : p \in Places /\ p \notin Own /\ p # CsB(0) /\ s[p] = None
    BY <1>3, Kinds, PlacesAre DEF CsT, CsU, CsB
  <2>4. \A p \in Places : e[p] = AfterScan(s, c)[p]
    BY <1>1, <1>11, <2>1, <2>2, <2>3 DEF AfterScan
  <2> QED
    BY <1>13, <2>4 DEF Cleared, AfterScan
<1>15. IsSeq(Binds(pass) \o Run(pass) \o deeper) /\ Runs(s, Binds(pass) \o Run(pass) \o deeper, k)
  BY <1>9, <1>11, ConcatIsSeq, RunsThen
<1> QED
  BY <1>12, <1>13, <1>14, <1>15, ConcatIsSeq, RunsThen

\* Entering a level leads to where its call does.
LEMMA LevelRuns ==
  ASSUME NEW c \in Calls, NEW s, ReadyToScan(s, c)
  PROVE  IsSeq(Entered(c)) /\ Runs(s, Entered(c), AfterScan(s, c))
<1>1. /\ c.of \in Renderers /\ c.values \in {"distances", "offsets"}
      /\ c.level \in Nat \ {0} /\ c.levels \in Nat /\ c.scan \in {"segmented", "parallel"}
      /\ c = [do |-> "scan", scan |-> c.scan, of |-> c.of, values |-> c.values,
              level |-> c.level, levels |-> c.levels]
  BY DEF Calls
<1>2. CASE c.scan = "segmented"
  <2>1. c = [do |-> "scan", scan |-> "segmented", of |-> c.of, values |-> c.values,
             level |-> c.level, levels |-> c.levels]
    BY <1>1, <1>2
  <2> QED
    BY <1>1, <1>2, <2>1, SegmentedRuns DEF Entered
<1>3. CASE c.scan = "parallel"
  <2>1. c = [do |-> "scan", scan |-> "parallel", of |-> c.of, values |-> c.values,
             level |-> c.level, levels |-> c.levels]
    BY <1>1, <1>3
  <2> QED
    BY <1>1, <1>3, <2>1, ParallelRuns DEF Entered
<1> QED
  BY <1>1, <1>2, <1>3

LEMMA ScanPasses ==
  ASSUME NEW r \in Renderers, NEW scan \in {"segmented", "parallel"},
         NEW values \in {"distances", "offsets"}, NEW levels \in Nat
  PROVE  Passes(ScanLevel(scan, r, values, 1, levels))
<1> DEFINE c == [do |-> "scan", scan |-> scan, of |-> r, values |-> values, level |-> 1, levels |-> levels]
<1>1. c \in Calls /\ c.do = "scan" /\ ScanLevel(scan, r, values, 1, levels) = <<c>>
  BY DEF Calls, ScanLevel
<1> HIDE DEF c
<1>2. ASSUME NEW s, Clean(s)
      PROVE  Runs(s, <<c>>, AfterScan(s, c)) /\ Clean(AfterScan(s, c))
  <2>1. ReadyToScan(s, c)
    BY <1>2 DEF Clean, ReadyToScan
  <2>2. Does(s, c, AfterScan(s, c))
    BY <1>1, <2>1 DEF Does
  <2>3. /\ RenderTarget \in Places /\ DepthStencil \in Places
        /\ \A p \in {RenderTarget, DepthStencil} :
             p \notin {CsB(0), CsT(0), CsU(0), CsU(1), CsU(2), CsU(3), CsU(4)}
    BY PlacesAre, Kinds DEF CsB, CsT, CsU
  <2>4. InFrame(AfterScan(s, c))
    BY <1>2, <2>3 DEF AfterScan, Clean, InFrame
  <2>5. CsB(0).kind = "constants"
    BY Kinds DEF CsB
  <2>6. \A p \in Places : p.kind \in {"srv", "uav"} => AfterScan(s, c)[p] = None
    BY <1>2, <2>5 DEF AfterScan, Clean
  <2> QED
    BY <2>2, <2>4, <2>6, RunsOne DEF Clean
<1> QED
  BY <1>1, <1>2, SingleIsSeq DEF Passes

LEMMA NothingRead == IsSlots(<<>>, 0 .. 8) /\ UnbindShaderResources("Compute", <<>>) = <<>>
<1>1. IsSeq(<<>>) /\ Len(<<>>) = 0
  BY PassesNothing DEF Passes
<1>2. DOMAIN <<>> = {}
  OBVIOUS
<1> QED
  BY <1>1, <1>2 DEF IsSlots, UnbindShaderResources, Binds

\* A pass that binds nothing for reading.
LEMMA WritingPasses ==
  ASSUME NEW r \in Renderers, NEW pairs, IsNamed(pairs), NEW written, IsSlots(written, 0 .. 4),
         \A i \in 1 .. Len(pairs) :
           pairs[i][1].kind \in {"srv", "uav"} => pairs[i][1] \in WriteSlots(written)
  PROVE  Passes(Binds(Of(r, pairs)) \o Run(Of(r, pairs)) \o UnbindUnorderedAccessViews(written))
<1> DEFINE a == Binds(Of(r, pairs)) \o Run(Of(r, pairs)) d == UnbindUnorderedAccessViews(written)
<1>1. IsSeq(pairs)
  BY DEF IsNamed, IsPairs
<1>2. Passes(a \o UnbindShaderResources("Compute", <<>>) \o d)
  BY <1>1, NothingRead, ComputePasses
<1>3. IsSeq(a)
  <2>1. IsSeq(Binds(Of(r, pairs)))
    <3>1. IsPairs(Of(r, pairs))
      BY OfIs DEF IsNamed, IsPairs
    <3> QED
      BY <3>1, BindsIs
  <2>2. IsSeq(Run(Of(r, pairs)))
    BY SingleIsSeq DEF Run
  <2> QED
    BY <2>1, <2>2, ConcatIsSeq
<1>4. a \o <<>> = a
  <2>1. PICK S : a \in Seq(S)
    BY <1>3 DEF IsSeq
  <2> QED
    BY <2>1, ConcatEmptySeq
<1> QED
  BY <1>2, <1>4, NothingRead

-------------------------------------------------------------------------------
(* The compute shaders *)

LEMMA PassSlots ==
  /\ IsSlots(<<0>>, 0 .. 4) /\ WriteSlots(<<0>>) = {CsU(0)}
  /\ IsSlots(<<0, 1, 2>>, 0 .. 8) /\ ReadSlots("Compute", <<0, 1, 2>>) = {CsT(0), CsT(1), CsT(2)}
  /\ IsSlots(<<0, 1, 3, 4>>, 0 .. 8)
  /\ ReadSlots("Compute", <<0, 1, 3, 4>>) = {CsT(0), CsT(1), CsT(3), CsT(4)}
  /\ IsSlots(<<0, 1, 2, 3, 4>>, 0 .. 8)
  /\ ReadSlots("Compute", <<0, 1, 2, 3, 4>>) = {CsT(0), CsT(1), CsT(2), CsT(3), CsT(4)}
<1>1. /\ IsSeq(<<0>>) /\ Len(<<0>>) = 1 /\ IsSeq(<<0, 1, 2>>) /\ Len(<<0, 1, 2>>) = 3
      /\ IsSeq(<<0, 1, 3, 4>>) /\ Len(<<0, 1, 3, 4>>) = 4
      /\ IsSeq(<<0, 1, 2, 3, 4>>) /\ Len(<<0, 1, 2, 3, 4>>) = 5
  <2>1. /\ <<0>> \in Seq(Nat) /\ <<0, 1, 2>> \in Seq(Nat) /\ <<0, 1, 3, 4>> \in Seq(Nat)
        /\ <<0, 1, 2, 3, 4>> \in Seq(Nat)
    OBVIOUS
  <2> QED
    BY <2>1 DEF IsSeq
<1>2. /\ IsSlots(<<0>>, 0 .. 4) /\ IsSlots(<<0, 1, 2>>, 0 .. 8)
      /\ IsSlots(<<0, 1, 3, 4>>, 0 .. 8) /\ IsSlots(<<0, 1, 2, 3, 4>>, 0 .. 8)
  BY <1>1 DEF IsSlots
<1>3. WriteSlots(<<0>>) = {CsU(0)}
  BY <1>1 DEF WriteSlots, CsU
<1>4. ReadSlots("Compute", <<0, 1, 2>>) = {CsT(0), CsT(1), CsT(2)}
  BY <1>1 DEF ReadSlots, CsT
<1>5. ReadSlots("Compute", <<0, 1, 3, 4>>) = {CsT(0), CsT(1), CsT(3), CsT(4)}
  BY <1>1 DEF ReadSlots, CsT
<1>6. ReadSlots("Compute", <<0, 1, 2, 3, 4>>) = {CsT(0), CsT(1), CsT(2), CsT(3), CsT(4)}
  BY <1>1 DEF ReadSlots, CsT
<1> QED
  BY <1>2, <1>3, <1>4, <1>5, <1>6

\* The groups of the compute shaders.
LEMMA KernelsAreNamed ==
  /\ IsNamed(CalcPoints) /\ Len(CalcPoints) = 5 /\ IsNamed(Ini) /\ Len(Ini) = 5
  /\ IsNamed(DotArgs) /\ Len(DotArgs) = 3
  /\ IsNamed(CurvePatternCalc) /\ Len(CurvePatternCalc) = 7
  /\ IsNamed(DotCalc) /\ Len(DotCalc) = 6
<1>1. /\ IsSeq(CalcPoints) /\ Len(CalcPoints) = 5 /\ IsSeq(Ini) /\ Len(Ini) = 5
      /\ IsSeq(DotArgs) /\ Len(DotArgs) = 3
      /\ IsSeq(CurvePatternCalc) /\ Len(CurvePatternCalc) = 7
      /\ IsSeq(DotCalc) /\ Len(DotCalc) = 6
  <2>1. /\ CalcPoints = [i \in 1 .. 5 |-> CalcPoints[i]] /\ Ini = [i \in 1 .. 5 |-> Ini[i]]
        /\ DotArgs = [i \in 1 .. 3 |-> DotArgs[i]]
        /\ CurvePatternCalc = [i \in 1 .. 7 |-> CurvePatternCalc[i]]
        /\ DotCalc = [i \in 1 .. 6 |-> DotCalc[i]]
    BY DEF CalcPoints, Ini, DotArgs, CurvePatternCalc, DotCalc
  <2> QED
    BY <2>1, SeqFromRange
<1>2. IsNamed(CalcPoints)
  <2>1. \A i \in 1 .. 5 : CalcPoints[i][1] \in Places /\ CalcPoints[i][1].kind \notin {"rtv", "dsv"}
    BY PlacesAre, Kinds DEF CalcPoints, CsB, CsT, CsU
  <2>2. \A i, j \in 1 .. 5 :
          i # j => CalcPoints[i][1] # CalcPoints[j][1] /\ CalcPoints[i][2] # CalcPoints[j][2]
    BY Kinds DEF CalcPoints, CsB, CsT, CsU
  <2> QED
    BY <1>1, <2>1, <2>2 DEF IsNamed, IsPairs
<1>3. IsNamed(Ini)
  <2>1. \A i \in 1 .. 5 : Ini[i][1] \in Places /\ Ini[i][1].kind \notin {"rtv", "dsv"}
    BY PlacesAre, Kinds DEF Ini, CsB, CsT, CsU
  <2>2. \A i, j \in 1 .. 5 : i # j => Ini[i][1] # Ini[j][1] /\ Ini[i][2] # Ini[j][2]
    BY Kinds DEF Ini, CsB, CsT, CsU
  <2> QED
    BY <1>1, <2>1, <2>2 DEF IsNamed, IsPairs
<1>4. IsNamed(DotArgs)
  <2>1. \A i \in 1 .. 3 : DotArgs[i][1] \in Places /\ DotArgs[i][1].kind \notin {"rtv", "dsv"}
    BY PlacesAre, Kinds DEF DotArgs, CsB, CsU
  <2>2. \A i, j \in 1 .. 3 : i # j => DotArgs[i][1] # DotArgs[j][1] /\ DotArgs[i][2] # DotArgs[j][2]
    BY Kinds DEF DotArgs, CsB, CsU
  <2> QED
    BY <1>1, <2>1, <2>2 DEF IsNamed, IsPairs
<1>5. IsNamed(CurvePatternCalc)
  <2>1. \A i \in 1 .. 7 : /\ CurvePatternCalc[i][1] \in Places
                          /\ CurvePatternCalc[i][1].kind \notin {"rtv", "dsv"}
    BY PlacesAre, Kinds DEF CurvePatternCalc, CsB, CsT, CsU
  <2>2. \A i, j \in 1 .. 7 : i # j => /\ CurvePatternCalc[i][1] # CurvePatternCalc[j][1]
                                      /\ CurvePatternCalc[i][2] # CurvePatternCalc[j][2]
    BY Kinds DEF CurvePatternCalc, CsB, CsT, CsU
  <2> QED
    BY <1>1, <2>1, <2>2 DEF IsNamed, IsPairs
<1>6. IsNamed(DotCalc)
  <2>1. \A i \in 1 .. 6 : DotCalc[i][1] \in Places /\ DotCalc[i][1].kind \notin {"rtv", "dsv"}
    BY PlacesAre, Kinds DEF DotCalc, CsB, CsT, CsU
  <2>2. \A i, j \in 1 .. 6 : i # j => DotCalc[i][1] # DotCalc[j][1] /\ DotCalc[i][2] # DotCalc[j][2]
    BY Kinds DEF DotCalc, CsB, CsT, CsU
  <2> QED
    BY <1>1, <2>1, <2>2 DEF IsNamed, IsPairs
<1> QED
  BY <1>1, <1>2, <1>3, <1>4, <1>5, <1>6

\* A compute shader reads what was bound for it, under the same names.
LEMMA SamePasses ==
  ASSUME NEW r \in Renderers, NEW pairs, IsNamed(pairs),
         NEW read, IsSlots(read, 0 .. 8), NEW written, IsSlots(written, 0 .. 4),
         \A i \in 1 .. Len(pairs) :
           pairs[i][1].kind \in {"srv", "uav"} => pairs[i][1] \in ReadSlots("Compute", read) \cup WriteSlots(written)
  PROVE  Passes(Binds(Of(r, pairs)) \o Run(Of(r, pairs))
                  \o UnbindShaderResources("Compute", read) \o UnbindUnorderedAccessViews(written))
BY ComputePasses DEF IsNamed, IsPairs

LEMMA PointPasses ==
  ASSUME NEW r \in Renderers, NEW depth \in Nat
  PROVE  Passes(RunPointPass(r, depth))
<1>1. \A i \in 1 .. 5 : CalcPoints[i][1].kind \in {"srv", "uav"} =>
                          CalcPoints[i][1] \in {CsT(0), CsT(1), CsT(2)} \cup {CsU(0)}
  BY Kinds DEF CalcPoints, CsB
<1>2. Passes(Binds(Of(r, CalcPoints)) \o Run(Of(r, CalcPoints))
               \o UnbindShaderResources("Compute", <<0, 1, 2>>) \o UnbindUnorderedAccessViews(<<0>>))
  BY <1>1, KernelsAreNamed, PassSlots, SamePasses
<1>3. RunPointPass(r, depth)
        = Binds(Of(r, CalcPoints)) \o Run(Of(r, CalcPoints))
            \o UnbindShaderResources("Compute", <<0, 1, 2>>) \o UnbindUnorderedAccessViews(<<0>>)
            \o ScanLevel("segmented", r, "distances", 1, depth)
  BY DEF RunPointPass, CalcPoints
<1>4. Passes(ScanLevel("segmented", r, "distances", 1, depth))
  BY ScanPasses
<1> QED
  BY <1>2, <1>3, <1>4, PassesThen

LEMMA CountPasses ==
  ASSUME NEW r \in Renderers, NEW depth \in Nat
  PROVE  Passes(CountPatternCenters(r, depth))
<1>1. \A i \in 1 .. 5 : Ini[i][1].kind \in {"srv", "uav"} =>
                          Ini[i][1] \in {CsT(0), CsT(1), CsT(2)} \cup {CsU(0)}
  BY Kinds DEF Ini, CsB
<1>2. Passes(Binds(Of(r, Ini)) \o Run(Of(r, Ini))
               \o UnbindShaderResources("Compute", <<0, 1, 2>>) \o UnbindUnorderedAccessViews(<<0>>))
  BY <1>1, KernelsAreNamed, PassSlots, SamePasses
<1>3. CountPatternCenters(r, depth)
        = Binds(Of(r, Ini)) \o Run(Of(r, Ini))
            \o UnbindShaderResources("Compute", <<0, 1, 2>>) \o UnbindUnorderedAccessViews(<<0>>)
            \o ScanLevel("parallel", r, "offsets", 1, depth)
  BY DEF CountPatternCenters, Ini
<1>4. Passes(ScanLevel("parallel", r, "offsets", 1, depth))
  BY ScanPasses
<1> QED
  BY <1>2, <1>3, <1>4, PassesThen

LEMMA DotCountPasses ==
  ASSUME NEW r \in Renderers, NEW depth \in Nat
  PROVE  Passes(CountDots(r, depth))
<1> DEFINE count == CountPatternCenters(r, depth)
           a == Binds(Of(r, DotArgs)) b == Run(Of(r, DotArgs))
           u == UnbindUnorderedAccessViews(<<0, 1>>)
<1>1. \A i \in 1 .. 3 : DotArgs[i][1].kind \in {"srv", "uav"} => DotArgs[i][1] \in {CsU(0), CsU(1)}
  BY Kinds DEF DotArgs, CsB
<1>2. Passes(a \o b \o u)
  BY <1>1, KernelsAreNamed, ScanSlots, WritingPasses
<1>3. IsSeq(count) /\ Passes(count)
  BY CountPasses DEF Passes
<1>4. IsSeq(a) /\ IsSeq(b)
  <2>1. IsPairs(Of(r, DotArgs))
    BY KernelsAreNamed, OfIs DEF IsNamed, IsPairs
  <2> QED
    BY <2>1, BindsIs, SingleIsSeq DEF Run
<1>5. IsSeq(u)
  <2>1. [p \in Places |-> None] = [p \in Places |-> [q \in Places |-> None][p]]
    OBVIOUS
  <2> QED
    BY <2>1, ScanSlots, UnbindWrittenRuns
<1>6. CountDots(r, depth) = count \o a \o b \o u
  BY DEF CountDots, DotArgs
<1> HIDE DEF count, a, b, u
<1>7. count \o (a \o b \o u) = count \o (a \o b) \o u
  BY <1>3, <1>4, <1>5, ConcatIsSeq, ThreeConcat
<1>8. count \o (a \o b) = count \o a \o b
  BY <1>3, <1>4, ThreeConcat
<1> QED
  BY <1>2, <1>3, <1>6, <1>7, <1>8, PassesThen

LEMMA PatternPasses ==
  ASSUME NEW r \in Renderers
  PROVE  Passes(RunPatternPass(r))
<1>1. \A i \in 1 .. 7 : CurvePatternCalc[i][1].kind \in {"srv", "uav"} =>
        CurvePatternCalc[i][1] \in {CsT(0), CsT(1), CsT(2), CsT(3), CsT(4)} \cup {CsU(0)}
  BY Kinds DEF CurvePatternCalc, CsB
<1>2. RunPatternPass(r)
        = Binds(Of(r, CurvePatternCalc)) \o Run(Of(r, CurvePatternCalc))
            \o UnbindShaderResources("Compute", <<0, 1, 2, 3, 4>>) \o UnbindUnorderedAccessViews(<<0>>)
  BY DEF RunPatternPass, CurvePatternCalc
<1> QED
  BY <1>1, <1>2, KernelsAreNamed, PassSlots, SamePasses

LEMMA PlacementPasses ==
  ASSUME NEW r \in Renderers
  PROVE  Passes(RunDotPlacementPass(r))
<1>1. \A i \in 1 .. 6 : DotCalc[i][1].kind \in {"srv", "uav"} =>
        DotCalc[i][1] \in {CsT(0), CsT(1), CsT(3), CsT(4)} \cup {CsU(0)}
  BY Kinds DEF DotCalc, CsB
<1>2. RunDotPlacementPass(r)
        = Binds(Of(r, DotCalc)) \o Run(Of(r, DotCalc))
            \o UnbindShaderResources("Compute", <<0, 1, 3, 4>>) \o UnbindUnorderedAccessViews(<<0>>)
  BY DEF RunDotPlacementPass, DotCalc
<1> QED
  BY <1>1, <1>2, KernelsAreNamed, PassSlots, SamePasses

-------------------------------------------------------------------------------
(* Draw calls *)

\* A setting or a constant buffer stands in nobody's way.
LEMMA SettingRuns ==
  ASSUME NEW at \in Places, at.kind \in {"state", "constants"}, NEW view,
         NEW s, s = [p \in Places |-> s[p]]
  PROVE  /\ IsSeq(Binds(<<<<at, view>>>>))
         /\ \E e : /\ Runs(s, Binds(<<<<at, view>>>>), e)
                   /\ e = [p \in Places |-> e[p]] /\ e[at] = view
                   /\ \A p \in Places \ {at} : e[p] = s[p]
<1> DEFINE pairs == <<<<at, view>>>>
<1>1. pairs = [i \in 1 .. 1 |-> pairs[i]] /\ pairs[1] = <<at, view>> /\ DOMAIN pairs = 1 .. 1
  OBVIOUS
<1> HIDE DEF pairs
<1>2. IsSeq(pairs) /\ Len(pairs) = 1
  BY <1>1, SeqFromRange
<1>3. IsPairs(pairs)
  BY <1>1, <1>2 DEF IsPairs
<1>4. Fits(s, pairs)
  BY <1>1, <1>2 DEF Fits, Clash, Tracked, Writers
<1>5. PICK e : Runs(s, Binds(pairs), e) /\ Puts(s, pairs, e)
  BY <1>3, <1>4, BindsRun
<1>6. e = [p \in Places |-> e[p]] /\ e[at] = view /\ \A p \in Places \ {at} : e[p] = s[p]
  BY <1>1, <1>5 DEF Puts
<1> QED
  BY <1>3, <1>5, <1>6, BindsIs DEF pairs

LEMMA StaysClean ==
  ASSUME NEW s, Clean(s), NEW at, at.kind \in {"state", "constants"},
         NEW e, e = [p \in Places |-> e[p]], \A p \in Places \ {at} : e[p] = s[p]
  PROVE  Clean(e)
<1>1. RenderTarget \in Places \ {at} /\ DepthStencil \in Places \ {at}
  BY PlacesAre, Kinds
<1> QED
  BY <1>1 DEF Clean, InFrame

Camera == <<Constants("Vertex", 1), "viewport_data">>

LEMMA OutputIs ==
  ASSUME NEW r, NEW topology
  PROVE  /\ IsSeq(Output(r, topology)) /\ Len(Output(r, topology)) = 4
         /\ Output(r, topology)[1] = <<RenderTarget, Back>>
         /\ Output(r, topology)[2] = <<DepthStencil, Depth>>
         /\ Output(r, topology)[3] = <<State("Shaders"), Setting(r)>>
         /\ Output(r, topology)[4] = <<State("Topology"), Setting(topology)>>
<1> DEFINE o == Output(r, topology)
<1>1. /\ o = [i \in 1 .. 4 |-> o[i]]
      /\ o[1] = <<RenderTarget, Back>> /\ o[2] = <<DepthStencil, Depth>>
      /\ o[3] = <<State("Shaders"), Setting(r)>> /\ o[4] = <<State("Topology"), Setting(topology)>>
  BY DEF Output
<1> HIDE DEF o
<1>2. IsSeq(o) /\ Len(o) = 4
  BY <1>1, SeqFromRange
<1> QED
  BY <1>1, <1>2 DEF o

LEMMA ConcatIs ==
  ASSUME NEW c, NEW d, IsSeq(c), IsSeq(d)
  PROVE  /\ Len(c) \in Nat /\ Len(d) \in Nat
         /\ Len(c \o d) = Len(c) + Len(d) /\ DOMAIN (c \o d) = 1 .. Len(c) + Len(d)
         /\ \A i \in 1 .. Len(c) + Len(d) : (c \o d)[i] = IF i <= Len(c) THEN c[i] ELSE d[i - Len(c)]
<1>1. PICK S : c \in Seq(S) /\ d \in Seq(S)
  BY CommonRange
<1>2. c \o d \in Seq(S) /\ Len(c) \in Nat /\ Len(d) \in Nat
  BY <1>1, ConcatProperties, LenProperties
<1> QED
  BY <1>1, <1>2, ConcatProperties, LenProperties

\* Clean but for what is left to be unbound.
CleanBut(e, left) ==
  InFrame(e) /\ \A p \in Places : p.kind \in {"srv", "uav"} /\ p \notin left => e[p] = None

\* The settings, the buffers and the camera are bound, and the vertex shader reads them.
LEMMA DrawCallRuns ==
  ASSUME NEW r \in Renderers, NEW topology,
         NEW buffers, IsNamed(buffers), \A i \in 1 .. Len(buffers) : buffers[i][1].kind = "srv",
         NEW kernel, IsSeq(kernel),
         \A i \in 1 .. Len(kernel) :
           kernel[i] = Camera \/ \E j \in 1 .. Len(buffers) : kernel[i] = buffers[j],
         NEW unbound, IsSlots(unbound, 0 .. 8), NEW Left,
         \A i \in 1 .. Len(buffers) : buffers[i][1] \in ReadSlots("Vertex", unbound) \cup Left,
         NEW s, Clean(s)
  PROVE  /\ IsSeq(DrawCall(r, buffers, topology, kernel, unbound))
         /\ \E e : Runs(s, DrawCall(r, buffers, topology, kernel, unbound), e) /\ CleanBut(e, Left)
<1> DEFINE a == Binds(<<<<State("Shaders"), Setting(r)>>>>)
           q == Of(r, buffers)
           b == Binds(q)
           c == Binds(Of(r, <<<<Constants("Vertex", 1), "viewport_data">>>>))
           d == Binds(<<<<State("Topology"), Setting(topology)>>>>)
           registers == Of(r, kernel) \o Output(r, topology)
           u == UnbindShaderResources("Vertex", unbound)
<1>1. /\ State("Shaders") \in Places /\ State("Topology") \in Places /\ Constants("Vertex", 1) \in Places
      /\ State("Shaders").kind = "state" /\ State("Topology").kind = "state"
      /\ Constants("Vertex", 1).kind = "constants"
      /\ State("Shaders") # State("Topology")
      /\ State("Shaders") # Constants("Vertex", 1) /\ State("Topology") # Constants("Vertex", 1)
  BY PlacesAre, Kinds
<1>2. PICK t : /\ IsSeq(a) /\ Runs(s, a, t) /\ t = [p \in Places |-> t[p]]
               /\ t[State("Shaders")] = Setting(r)
               /\ \A p \in Places \ {State("Shaders")} : t[p] = s[p]
  BY <1>1, SettingRuns DEF Clean, InFrame
<1>3. Clean(t)
  BY <1>1, <1>2, StaysClean
<1>4. IsPairs(q) /\ Fits(t, q)
  BY <1>3, NamedFits
<1>5. PICK v : IsSeq(b) /\ Runs(t, b, v) /\ Puts(t, q, v)
  <2> HIDE DEF q
  <2> QED
    BY <1>2, <1>4, BindsRun, BindsIs
<1>6. Of(r, <<<<Constants("Vertex", 1), "viewport_data">>>>)
        = <<<<Constants("Vertex", 1), Buffer(r, "viewport_data")>>>>
  BY DEF Of
<1>7. PICK w : /\ IsSeq(c) /\ Runs(v, c, w) /\ w = [p \in Places |-> w[p]]
               /\ w[Constants("Vertex", 1)] = Buffer(r, "viewport_data")
               /\ \A p \in Places \ {Constants("Vertex", 1)} : w[p] = v[p]
  <2> DEFINE at == Constants("Vertex", 1) view == Buffer(r, "viewport_data")
  <2>1. at \in Places /\ at.kind \in {"state", "constants"} /\ v = [p \in Places |-> v[p]]
    BY <1>1, <1>5 DEF Puts
  <2>2. c = Binds(<<<<at, view>>>>)
    BY <1>6
  <2> HIDE DEF at, view, c
  <2>3. /\ IsSeq(Binds(<<<<at, view>>>>))
        /\ \E w : /\ Runs(v, Binds(<<<<at, view>>>>), w)
                  /\ w = [p \in Places |-> w[p]] /\ w[at] = view
                  /\ \A p \in Places \ {at} : w[p] = v[p]
    BY <2>1, SettingRuns
  <2> QED
    BY <2>2, <2>3 DEF at, view
<1>8. PICK m : /\ IsSeq(d) /\ Runs(w, d, m) /\ m = [p \in Places |-> m[p]]
               /\ m[State("Topology")] = Setting(topology)
               /\ \A p \in Places \ {State("Topology")} : m[p] = w[p]
  <2> DEFINE at == State("Topology") view == Setting(topology)
  <2>1. at \in Places /\ at.kind \in {"state", "constants"} /\ w = [p \in Places |-> w[p]]
    BY <1>1, <1>7
  <2> HIDE DEF at, view
  <2>2. /\ IsSeq(Binds(<<<<at, view>>>>))
        /\ \E m : /\ Runs(w, Binds(<<<<at, view>>>>), m)
                  /\ m = [p \in Places |-> m[p]] /\ m[at] = view
                  /\ \A p \in Places \ {at} : m[p] = w[p]
    BY <2>1, SettingRuns
  <2> QED
    BY <2>2 DEF at, view
<1> HIDE DEF a, b, c, d
\* What each of them has put where it did.
<1>9. /\ DOMAIN q = 1 .. Len(buffers)
      /\ \A i \in 1 .. Len(buffers) : q[i][1] = buffers[i][1] /\ q[i][2] = Buffer(r, buffers[i][2])
  BY OfIs DEF IsNamed, IsPairs
<1> HIDE DEF q
<1>10. /\ \A i \in 1 .. Len(buffers) : v[buffers[i][1]] = Buffer(r, buffers[i][2])
       /\ \A p \in Places : (\A i \in 1 .. Len(buffers) : p # buffers[i][1]) => v[p] = t[p]
  BY <1>5, <1>9 DEF Puts
<1>11. \A i \in 1 .. Len(buffers) :
         buffers[i][1] \in Places \ {Constants("Vertex", 1), State("Topology"), State("Shaders")}
  BY <1>1 DEF IsNamed, IsPairs
<1>12. \A i \in 1 .. Len(buffers) : m[buffers[i][1]] = Buffer(r, buffers[i][2])
  BY <1>7, <1>8, <1>10, <1>11
<1>13. \A p \in Places : p.kind # "srv" => v[p] = t[p]
  BY <1>10
<1>14. /\ m[Constants("Vertex", 1)] = Buffer(r, "viewport_data")
       /\ m[State("Shaders")] = Setting(r) /\ m[State("Topology")] = Setting(topology)
  BY <1>1, <1>2, <1>7, <1>8, <1>13
<1>15. InFrame(m)
  <2>1. \A p \in {RenderTarget, DepthStencil} : p \in Places /\ p.kind \notin {"srv", "state", "constants"}
    BY PlacesAre, Kinds
  <2>2. \A p \in {RenderTarget, DepthStencil} : m[p] = s[p]
    BY <1>1, <1>2, <1>7, <1>8, <1>13, <2>1
  <2> QED
    BY <1>8, <2>2 DEF Clean, InFrame
<1>16. \A p \in Places : p.kind \in {"srv", "uav"} /\ (\A i \in 1 .. Len(buffers) : p # buffers[i][1])
                           => m[p] = None
  BY <1>1, <1>2, <1>7, <1>8, <1>10 DEF Clean
<1>17. \A i \in DOMAIN registers : m[registers[i][1]] = registers[i][2]
  <2>1. /\ IsSeq(Of(r, kernel)) /\ Len(Of(r, kernel)) = Len(kernel) /\ Len(kernel) \in Nat
        /\ \A i \in 1 .. Len(kernel) : Of(r, kernel)[i] = <<kernel[i][1], Buffer(r, kernel[i][2])>>
    BY OfIs
  <2>2. \A i \in 1 .. Len(kernel) : m[kernel[i][1]] = Buffer(r, kernel[i][2])
    BY <1>12, <1>14 DEF Camera
  <2>3. \A i \in 1 .. 4 : m[Output(r, topology)[i][1]] = Output(r, topology)[i][2]
    BY <1>14, <1>15, OutputIs DEF InFrame
  <2>4. /\ DOMAIN registers = 1 .. Len(kernel) + 4
        /\ \A i \in 1 .. Len(kernel) + 4 :
             registers[i] = IF i <= Len(kernel) THEN Of(r, kernel)[i] ELSE Output(r, topology)[i - Len(kernel)]
    <3> DEFINE k == Of(r, kernel) o == Output(r, topology)
    <3>1. IsSeq(k) /\ IsSeq(o) /\ Len(k) = Len(kernel) /\ Len(o) = 4
      BY <2>1, OutputIs
    <3>2. registers = k \o o
      OBVIOUS
    <3> HIDE DEF k, o, registers
    <3>3. /\ DOMAIN (k \o o) = 1 .. Len(k) + Len(o)
          /\ \A i \in 1 .. Len(k) + Len(o) : (k \o o)[i] = IF i <= Len(k) THEN k[i] ELSE o[i - Len(k)]
      BY <3>1, ConcatIs
    <3>4. /\ DOMAIN registers = 1 .. Len(kernel) + 4
          /\ \A i \in 1 .. Len(kernel) + 4 :
               registers[i] = IF i <= Len(kernel) THEN k[i] ELSE o[i - Len(kernel)]
      BY <3>1, <3>2, <3>3
    <3> QED
      BY <3>4 DEF k, o
  <2> HIDE DEF registers
  <2>5. ASSUME NEW i \in 1 .. Len(kernel) + 4
        PROVE  m[registers[i][1]] = registers[i][2]
    <3>1. CASE i <= Len(kernel)
      BY <2>1, <2>2, <2>4, <3>1
    <3>2. CASE i > Len(kernel)
      <4>1. i - Len(kernel) \in 1 .. 4 /\ registers[i] = Output(r, topology)[i - Len(kernel)]
        BY <2>1, <2>4, <3>2
      <4> QED
        BY <2>3, <4>1
    <3> QED
      BY <2>1, <3>1, <3>2
  <2> QED
    BY <2>4, <2>5
<1>18. IsSeq(Run(registers)) /\ Runs(m, Run(registers), m)
  <2> HIDE DEF registers
  <2> QED
    BY <1>17, RunRuns
<1>19. PICK e : IsSeq(u) /\ Runs(m, u, e) /\ Cleared(m, ReadSlots("Vertex", unbound), e)
  BY <1>8, UnbindReadRuns
<1>20. DrawCall(r, buffers, topology, kernel, unbound) = a \o b \o c \o d \o Run(registers) \o u
  BY DEF DrawCall, a, b, c, d, q
<1> HIDE DEF registers, u
<1>21. IsSeq(a \o b) /\ Runs(s, a \o b, v)
  BY <1>2, <1>5, ConcatIsSeq, RunsThen
<1>22. IsSeq(a \o b \o c) /\ Runs(s, a \o b \o c, w)
  BY <1>7, <1>21, ConcatIsSeq, RunsThen
<1>23. IsSeq(a \o b \o c \o d) /\ Runs(s, a \o b \o c \o d, m)
  BY <1>8, <1>22, ConcatIsSeq, RunsThen
<1>24. IsSeq(a \o b \o c \o d \o Run(registers)) /\ Runs(s, a \o b \o c \o d \o Run(registers), m)
  BY <1>18, <1>23, ConcatIsSeq, RunsThen
<1>25. /\ IsSeq(a \o b \o c \o d \o Run(registers) \o u)
       /\ Runs(s, a \o b \o c \o d \o Run(registers) \o u, e)
  BY <1>19, <1>24, ConcatIsSeq, RunsThen
<1>26. InFrame(e)
  <2>1. RenderTarget \notin ReadSlots("Vertex", unbound) /\ DepthStencil \notin ReadSlots("Vertex", unbound)
    BY Kinds DEF ReadSlots
  <2> QED
    BY <1>15, <1>19, <2>1, PlacesAre DEF Cleared, InFrame
<1>27. \A p \in Places : p.kind \in {"srv", "uav"} /\ p \notin Left => e[p] = None
  BY <1>16, <1>19 DEF Cleared
<1> QED
  BY <1>20, <1>25, <1>26, <1>27 DEF CleanBut

LEMMA ShortSequences ==
  /\ \A a, b : IsSeq(<<a, b>>) /\ Len(<<a, b>>) = 2
  /\ \A a, b, c : IsSeq(<<a, b, c>>) /\ Len(<<a, b, c>>) = 3
  /\ \A a, b, c, d : IsSeq(<<a, b, c, d>>) /\ Len(<<a, b, c, d>>) = 4
  /\ \A a, b, c, d, e : IsSeq(<<a, b, c, d, e>>) /\ Len(<<a, b, c, d, e>>) = 5
  /\ \A a, b, c, d, e, f : IsSeq(<<a, b, c, d, e, f>>) /\ Len(<<a, b, c, d, e, f>>) = 6
  /\ \A a, b, c, d, e, f, g : IsSeq(<<a, b, c, d, e, f, g>>) /\ Len(<<a, b, c, d, e, f, g>>) = 7
<1>1. \A a, b : <<a, b>> \in Seq({a, b})
  OBVIOUS
<1>2. \A a, b, c : <<a, b, c>> \in Seq({a, b, c})
  OBVIOUS
<1>3. \A a, b, c, d : <<a, b, c, d>> \in Seq({a, b, c, d})
  OBVIOUS
<1>4. \A a, b, c, d, e : <<a, b, c, d, e>> \in Seq({a, b, c, d, e})
  OBVIOUS
<1>5. \A a, b, c, d, e, f : <<a, b, c, d, e, f>> \in Seq({a, b, c, d, e, f})
  OBVIOUS
<1>6. \A a, b, c, d, e, f, g : <<a, b, c, d, e, f, g>> \in Seq({a, b, c, d, e, f, g})
  OBVIOUS
<1> QED
  BY <1>1, <1>2, <1>3, <1>4, <1>5, <1>6 DEF IsSeq

LEMMA VertexSlots ==
  /\ IsSlots(<<3, 4, 5, 6, 7>>, 0 .. 8) /\ IsSlots(<<3, 4, 5, 6>>, 0 .. 8)
  /\ IsSlots(<<0, 3, 4, 5, 6, 7, 8>>, 0 .. 8) /\ IsSlots(<<1>>, 0 .. 8)
  /\ ReadSlots("Vertex", <<3, 4, 5, 6, 7>>) = {VsT(3), VsT(4), VsT(5), VsT(6), VsT(7)}
  /\ ReadSlots("Vertex", <<3, 4, 5, 6>>) = {VsT(3), VsT(4), VsT(5), VsT(6)}
  /\ ReadSlots("Vertex", <<0, 3, 4, 5, 6, 7, 8>>)
       = {VsT(0), VsT(3), VsT(4), VsT(5), VsT(6), VsT(7), VsT(8)}
  /\ ReadSlots("Pixel", <<1>>) = {ShaderResource("Pixel", 1)}
<1>1. /\ IsSeq(<<3, 4, 5, 6, 7>>) /\ Len(<<3, 4, 5, 6, 7>>) = 5
      /\ IsSeq(<<3, 4, 5, 6>>) /\ Len(<<3, 4, 5, 6>>) = 4
      /\ IsSeq(<<0, 3, 4, 5, 6, 7, 8>>) /\ Len(<<0, 3, 4, 5, 6, 7, 8>>) = 7
      /\ IsSeq(<<1>>) /\ Len(<<1>>) = 1
  BY ShortSequences, SingleIsSeq
<1>2. /\ IsSlots(<<3, 4, 5, 6, 7>>, 0 .. 8) /\ IsSlots(<<3, 4, 5, 6>>, 0 .. 8)
      /\ IsSlots(<<0, 3, 4, 5, 6, 7, 8>>, 0 .. 8) /\ IsSlots(<<1>>, 0 .. 8)
  BY <1>1 DEF IsSlots
<1>3. ReadSlots("Vertex", <<3, 4, 5, 6, 7>>) = {VsT(3), VsT(4), VsT(5), VsT(6), VsT(7)}
  BY <1>1 DEF ReadSlots, VsT
<1>4. ReadSlots("Vertex", <<3, 4, 5, 6>>) = {VsT(3), VsT(4), VsT(5), VsT(6)}
  BY <1>1 DEF ReadSlots, VsT
<1>5. ReadSlots("Vertex", <<0, 3, 4, 5, 6, 7, 8>>)
        = {VsT(0), VsT(3), VsT(4), VsT(5), VsT(6), VsT(7), VsT(8)}
  BY <1>1 DEF ReadSlots, VsT
<1>6. ReadSlots("Pixel", <<1>>) = {ShaderResource("Pixel", 1)}
  BY <1>1 DEF ReadSlots
<1> QED
  BY <1>2, <1>3, <1>4, <1>5, <1>6

\* A draw call that unbinds all that its vertex shader read.
LEMMA DrawCallPasses ==
  ASSUME NEW r \in Renderers, NEW topology,
         NEW buffers, IsNamed(buffers), \A i \in 1 .. Len(buffers) : buffers[i][1].kind = "srv",
         NEW kernel, IsSeq(kernel),
         \A i \in 1 .. Len(kernel) :
           kernel[i] = Camera \/ \E j \in 1 .. Len(buffers) : kernel[i] = buffers[j],
         NEW unbound, IsSlots(unbound, 0 .. 8),
         \A i \in 1 .. Len(buffers) : buffers[i][1] \in ReadSlots("Vertex", unbound)
  PROVE  Passes(DrawCall(r, buffers, topology, kernel, unbound))
<1> DEFINE c == DrawCall(r, buffers, topology, kernel, unbound)
<1>1. ASSUME NEW s, Clean(s)
      PROVE  IsSeq(c) /\ \E e : Runs(s, c, e) /\ Clean(e)
  <2>1. IsSeq(c) /\ \E e : Runs(s, c, e) /\ CleanBut(e, {})
    BY <1>1, DrawCallRuns
  <2> QED
    BY <2>1 DEF Clean, CleanBut
<1> HIDE DEF c
<1>2. IsSeq(c)
  BY <1>1, SomeIsClean
<1> QED
  BY <1>1, <1>2 DEF Passes, c

LEMMA SolidPasses ==
  ASSUME NEW r \in Renderers
  PROVE  Passes(DrawSolid(r))
<1> DEFINE head == BindCurveData(3, 5, 7)
           tail == <<<<VsT(4), "bezier_data_map">>, <<VsT(6), "curve_styles">>>>
           buffers == head \o tail
           unbound == <<3, 4, 5, 6, 7>>
<1>1. /\ IsSeq(head) /\ Len(head) = 3 /\ IsSeq(tail) /\ Len(tail) = 2
      /\ head[1] = <<VsT(3), "curve_control_points">> /\ head[2] = <<VsT(5), "curve_colors">>
      /\ head[3] = <<VsT(7), "curve_indices">>
      /\ tail[1] = <<VsT(4), "bezier_data_map">> /\ tail[2] = <<VsT(6), "curve_styles">>
  BY ShortSequences DEF BindCurveData
<1> HIDE DEF head, tail
<1>2. /\ IsSeq(buffers) /\ Len(buffers) = 5
      /\ buffers[1] = <<VsT(3), "curve_control_points">> /\ buffers[2] = <<VsT(5), "curve_colors">>
      /\ buffers[3] = <<VsT(7), "curve_indices">>
      /\ buffers[4] = <<VsT(4), "bezier_data_map">> /\ buffers[5] = <<VsT(6), "curve_styles">>
  <2>1. /\ IsSeq(head \o tail) /\ Len(head \o tail) = Len(head) + Len(tail)
        /\ \A i \in 1 .. Len(head) + Len(tail) :
             (head \o tail)[i] = IF i <= Len(head) THEN head[i] ELSE tail[i - Len(head)]
    BY <1>1, ConcatIs, ConcatIsSeq
  <2> QED
    BY <1>1, <2>1
<1> HIDE DEF buffers
<1>3. IsNamed(buffers) /\ \A i \in 1 .. 5 : buffers[i][1].kind = "srv"
  <2>1. \A i \in 1 .. 5 : buffers[i][1] \in Places /\ buffers[i][1].kind = "srv"
    BY <1>2, PlacesAre, Kinds DEF VsT
  <2>2. \A i, j \in 1 .. 5 : i # j => buffers[i][1] # buffers[j][1] /\ buffers[i][2] # buffers[j][2]
    BY <1>2, Kinds DEF VsT
  <2> QED
    BY <1>2, <2>1, <2>2 DEF IsNamed, IsPairs
<1>4. /\ IsSeq(SolidVert) /\ Len(SolidVert) = 6
      /\ \A i \in 1 .. 6 : SolidVert[i] = Camera \/ \E j \in 1 .. 5 : SolidVert[i] = buffers[j]
  BY <1>2, ShortSequences DEF SolidVert, Camera
<1>5. IsSlots(unbound, 0 .. 8) /\ \A i \in 1 .. Len(buffers) : buffers[i][1] \in ReadSlots("Vertex", unbound)
  BY <1>2, VertexSlots
<1>6. DrawSolid(r) = DrawCall(r, buffers, "TRIANGLESTRIP", SolidVert, unbound)
  BY DEF DrawSolid, buffers, head, tail
<1> HIDE DEF unbound
<1> QED
  BY <1>2, <1>3, <1>4, <1>5, <1>6, DrawCallPasses

LEMMA LinesPass ==
  ASSUME NEW r \in Renderers
  PROVE  Passes(DrawLines(r))
<1> DEFINE head == BindCurveData(3, 5, 6)
           tail == <<<<VsT(4), "bezier_data_map">>>>
           buffers == head \o tail
           unbound == <<3, 4, 5, 6>>
<1>1. /\ IsSeq(head) /\ Len(head) = 3 /\ IsSeq(tail) /\ Len(tail) = 1
      /\ head[1] = <<VsT(3), "curve_control_points">> /\ head[2] = <<VsT(5), "curve_colors">>
      /\ head[3] = <<VsT(6), "curve_indices">> /\ tail[1] = <<VsT(4), "bezier_data_map">>
  BY ShortSequences, SingleIsSeq DEF BindCurveData
<1> HIDE DEF head, tail
<1>2. /\ IsSeq(buffers) /\ Len(buffers) = 4
      /\ buffers[1] = <<VsT(3), "curve_control_points">> /\ buffers[2] = <<VsT(5), "curve_colors">>
      /\ buffers[3] = <<VsT(6), "curve_indices">> /\ buffers[4] = <<VsT(4), "bezier_data_map">>
  <2>1. /\ IsSeq(head \o tail) /\ Len(head \o tail) = Len(head) + Len(tail)
        /\ \A i \in 1 .. Len(head) + Len(tail) :
             (head \o tail)[i] = IF i <= Len(head) THEN head[i] ELSE tail[i - Len(head)]
    BY <1>1, ConcatIs, ConcatIsSeq
  <2> QED
    BY <1>1, <2>1
<1> HIDE DEF buffers
<1>3. IsNamed(buffers) /\ \A i \in 1 .. 4 : buffers[i][1].kind = "srv"
  <2>1. \A i \in 1 .. 4 : buffers[i][1] \in Places /\ buffers[i][1].kind = "srv"
    BY <1>2, PlacesAre, Kinds DEF VsT
  <2>2. \A i, j \in 1 .. 4 : i # j => buffers[i][1] # buffers[j][1] /\ buffers[i][2] # buffers[j][2]
    BY <1>2, Kinds DEF VsT
  <2> QED
    BY <1>2, <2>1, <2>2 DEF IsNamed, IsPairs
<1>4. /\ IsSeq(LineVert) /\ Len(LineVert) = 5
      /\ \A i \in 1 .. 5 : LineVert[i] = Camera \/ \E j \in 1 .. 4 : LineVert[i] = buffers[j]
  BY <1>2, ShortSequences DEF LineVert, Camera
<1>5. IsSlots(unbound, 0 .. 8) /\ \A i \in 1 .. Len(buffers) : buffers[i][1] \in ReadSlots("Vertex", unbound)
  BY <1>2, VertexSlots
<1>6. DrawLines(r) = DrawCall(r, buffers, "LINELIST", LineVert, unbound)
  BY DEF DrawLines, buffers, head, tail
<1> HIDE DEF unbound
<1> QED
  BY <1>2, <1>3, <1>4, <1>5, <1>6, DrawCallPasses

LEMMA DotsPass ==
  ASSUME NEW r \in Renderers
  PROVE  Passes(DrawDots(r))
<1> DEFINE buffers == <<<<VsT(3), "curve_control_points">>, <<VsT(4), "patterns">>,
                        <<VsT(5), "curve_colors">>, <<VsT(6), "curve_styles">>>>
           unbound == <<3, 4, 5, 6>>
<1>1. /\ IsSeq(buffers) /\ Len(buffers) = 4
      /\ buffers[1] = <<VsT(3), "curve_control_points">> /\ buffers[2] = <<VsT(4), "patterns">>
      /\ buffers[3] = <<VsT(5), "curve_colors">> /\ buffers[4] = <<VsT(6), "curve_styles">>
  BY ShortSequences
<1>2. DrawDots(r) = DrawCall(r, buffers, "TRIANGLESTRIP", DotVert, unbound)
  BY DEF DrawDots
<1> HIDE DEF buffers
<1>3. IsNamed(buffers) /\ \A i \in 1 .. 4 : buffers[i][1].kind = "srv"
  <2>1. \A i \in 1 .. 4 : buffers[i][1] \in Places /\ buffers[i][1].kind = "srv"
    BY <1>1, PlacesAre, Kinds DEF VsT
  <2>2. \A i, j \in 1 .. 4 : i # j => buffers[i][1] # buffers[j][1] /\ buffers[i][2] # buffers[j][2]
    BY <1>1, Kinds DEF VsT
  <2> QED
    BY <1>1, <2>1, <2>2 DEF IsNamed, IsPairs
<1>4. /\ IsSeq(DotVert) /\ Len(DotVert) = 5
      /\ \A i \in 1 .. 5 : DotVert[i] = Camera \/ \E j \in 1 .. 4 : DotVert[i] = buffers[j]
  BY <1>1, ShortSequences DEF DotVert, Camera
<1>5. IsSlots(unbound, 0 .. 8) /\ \A i \in 1 .. Len(buffers) : buffers[i][1] \in ReadSlots("Vertex", unbound)
  BY <1>1, VertexSlots
<1> HIDE DEF unbound
<1> QED
  BY <1>1, <1>2, <1>3, <1>4, <1>5, DrawCallPasses

LEMMA PatternedPasses ==
  ASSUME NEW r \in Renderers
  PROVE  Passes(DrawPatterned(r))
<1> DEFINE first == <<<<VsT(0), "distances">>>>
           curves == BindCurveData(3, 5, 7)
           last == <<<<VsT(4), "bezier_data_map">>, <<VsT(6), "curve_styles">>,
                     <<VsT(8), "offsets">>, <<ShaderResource("Pixel", 1), "patterns">>>>
           head == first \o curves
           buffers == head \o last
           unbound == <<0, 3, 4, 5, 6, 7, 8>>
           Left == {ShaderResource("Pixel", 1)}
           u == UnbindShaderResources("Pixel", <<1>>)
<1>1. /\ IsSeq(first) /\ Len(first) = 1 /\ IsSeq(curves) /\ Len(curves) = 3 /\ IsSeq(last) /\ Len(last) = 4
      /\ first[1] = <<VsT(0), "distances">>
      /\ curves[1] = <<VsT(3), "curve_control_points">> /\ curves[2] = <<VsT(5), "curve_colors">>
      /\ curves[3] = <<VsT(7), "curve_indices">>
      /\ last[1] = <<VsT(4), "bezier_data_map">> /\ last[2] = <<VsT(6), "curve_styles">>
      /\ last[3] = <<VsT(8), "offsets">> /\ last[4] = <<ShaderResource("Pixel", 1), "patterns">>
  BY ShortSequences, SingleIsSeq DEF BindCurveData
<1> HIDE DEF first, curves, last
<1>2. /\ IsSeq(head) /\ Len(head) = 4 /\ head[1] = <<VsT(0), "distances">>
      /\ head[2] = <<VsT(3), "curve_control_points">> /\ head[3] = <<VsT(5), "curve_colors">>
      /\ head[4] = <<VsT(7), "curve_indices">>
  <2>1. /\ IsSeq(first \o curves) /\ Len(first \o curves) = Len(first) + Len(curves)
        /\ \A i \in 1 .. Len(first) + Len(curves) :
             (first \o curves)[i] = IF i <= Len(first) THEN first[i] ELSE curves[i - Len(first)]
    BY <1>1, ConcatIs, ConcatIsSeq
  <2> QED
    BY <1>1, <2>1
<1> HIDE DEF head
<1>3. /\ IsSeq(buffers) /\ Len(buffers) = 8 /\ buffers[1] = <<VsT(0), "distances">>
      /\ buffers[2] = <<VsT(3), "curve_control_points">> /\ buffers[3] = <<VsT(5), "curve_colors">>
      /\ buffers[4] = <<VsT(7), "curve_indices">> /\ buffers[5] = <<VsT(4), "bezier_data_map">>
      /\ buffers[6] = <<VsT(6), "curve_styles">> /\ buffers[7] = <<VsT(8), "offsets">>
      /\ buffers[8] = <<ShaderResource("Pixel", 1), "patterns">>
  <2>1. /\ IsSeq(head \o last) /\ Len(head \o last) = Len(head) + Len(last)
        /\ \A i \in 1 .. Len(head) + Len(last) :
             (head \o last)[i] = IF i <= Len(head) THEN head[i] ELSE last[i - Len(head)]
    BY <1>1, <1>2, ConcatIs, ConcatIsSeq
  <2> QED
    BY <1>1, <1>2, <2>1
<1> HIDE DEF buffers
<1>4. IsNamed(buffers) /\ \A i \in 1 .. 8 : buffers[i][1].kind = "srv"
  <2>1. \A i \in 1 .. 8 : buffers[i][1] \in Places /\ buffers[i][1].kind = "srv"
    BY <1>3, PlacesAre, Kinds DEF VsT
  <2>2. \A i, j \in 1 .. 8 : i # j => buffers[i][1] # buffers[j][1] /\ buffers[i][2] # buffers[j][2]
    BY <1>3, Kinds DEF VsT
  <2> QED
    BY <1>3, <2>1, <2>2 DEF IsNamed, IsPairs
<1>5. /\ IsSeq(CurveVsAndPs) /\ Len(CurveVsAndPs) = 9
      /\ \A i \in 1 .. 9 : CurveVsAndPs[i] = Camera \/ \E j \in 1 .. 8 : CurveVsAndPs[i] = buffers[j]
  <2> DEFINE more == <<<<VsT(0), "distances">>, <<VsT(8), "offsets">>,
                       <<ShaderResource("Pixel", 1), "patterns">>>>
  <2>1. IsSeq(SolidVert) /\ Len(SolidVert) = 6 /\ IsSeq(more) /\ Len(more) = 3
    BY ShortSequences DEF SolidVert
  <2>2. /\ \A i \in 1 .. 6 : SolidVert[i] = Camera \/ \E j \in 1 .. 8 : SolidVert[i] = buffers[j]
        /\ \A i \in 1 .. 3 : \E j \in 1 .. 8 : more[i] = buffers[j]
    BY <1>3 DEF SolidVert, Camera
  <2>3. CurveVsAndPs = SolidVert \o more
    BY DEF CurveVsAndPs
  <2> HIDE DEF more
  <2>4. /\ IsSeq(SolidVert \o more) /\ Len(SolidVert \o more) = 9
        /\ \A i \in 1 .. 9 : (SolidVert \o more)[i] = IF i <= 6 THEN SolidVert[i] ELSE more[i - 6]
    <3>1. /\ IsSeq(SolidVert \o more) /\ Len(SolidVert \o more) = Len(SolidVert) + Len(more)
          /\ \A i \in 1 .. Len(SolidVert) + Len(more) :
               (SolidVert \o more)[i]
                 = IF i <= Len(SolidVert) THEN SolidVert[i] ELSE more[i - Len(SolidVert)]
      BY <2>1, ConcatIs, ConcatIsSeq
    <3> QED
      BY <2>1, <3>1
  <2>5. ASSUME NEW i \in 1 .. 9
        PROVE  (SolidVert \o more)[i] = Camera \/ \E j \in 1 .. 8 : (SolidVert \o more)[i] = buffers[j]
    <3>1. i \in 1 .. 6 \/ (i - 6 \in 1 .. 3 /\ ~(i <= 6))
      OBVIOUS
    <3>2. (SolidVert \o more)[i] = IF i <= 6 THEN SolidVert[i] ELSE more[i - 6]
      BY <2>4
    <3>3. CASE i \in 1 .. 6
      BY <2>2, <3>2, <3>3
    <3>4. CASE i - 6 \in 1 .. 3 /\ ~(i <= 6)
      BY <2>2, <3>2, <3>4
    <3> QED
      BY <3>1, <3>3, <3>4
  <2> QED
    BY <2>3, <2>4, <2>5
<1>6. /\ IsSlots(unbound, 0 .. 8)
      /\ \A i \in 1 .. Len(buffers) : buffers[i][1] \in ReadSlots("Vertex", unbound) \cup Left
  BY <1>3, VertexSlots
<1>7. DrawPatterned(r) = DrawCall(r, buffers, "TRIANGLESTRIP", CurveVsAndPs, unbound) \o u
  BY DEF DrawPatterned, buffers, head, first, curves, last
<1> DEFINE c == DrawCall(r, buffers, "TRIANGLESTRIP", CurveVsAndPs, unbound)
<1> HIDE DEF unbound
<1>8. ASSUME NEW s, Clean(s)
      PROVE  IsSeq(c \o u) /\ \E e : Runs(s, c \o u, e) /\ Clean(e)
  <2> HIDE DEF Left
  <2>1. IsSeq(c) /\ \E m : Runs(s, c, m) /\ CleanBut(m, Left)
    <3> DEFINE topology == "TRIANGLESTRIP" kernel == CurveVsAndPs
    <3>1. /\ \A i \in 1 .. Len(buffers) : buffers[i][1].kind = "srv"
          /\ IsSeq(kernel)
          /\ \A i \in 1 .. Len(kernel) :
               kernel[i] = Camera \/ \E j \in 1 .. Len(buffers) : kernel[i] = buffers[j]
      BY <1>3, <1>4, <1>5
    <3>2. c = DrawCall(r, buffers, topology, kernel, unbound)
      OBVIOUS
    <3> HIDE DEF topology, kernel, c
    <3> QED
      BY <1>4, <1>6, <1>8, <3>1, <3>2, DrawCallRuns
  <2> HIDE DEF c
  <2>2. PICK m : Runs(s, c, m) /\ CleanBut(m, Left)
    BY <2>1
  <2>3. PICK e : IsSeq(u) /\ Runs(m, u, e) /\ Cleared(m, {ShaderResource("Pixel", 1)}, e)
    <3>1. m = [p \in Places |-> m[p]]
      BY <2>2 DEF CleanBut, InFrame
    <3> QED
      BY <3>1, VertexSlots, UnbindReadRuns
  <2>4. Clean(e)
    <3>1. RenderTarget # ShaderResource("Pixel", 1) /\ DepthStencil # ShaderResource("Pixel", 1)
      BY Kinds
    <3> QED
      BY <2>2, <2>3, <3>1, PlacesAre DEF CleanBut, Cleared, Clean, InFrame, Left
  <2> HIDE DEF u
  <2> QED
    BY <2>1, <2>2, <2>3, <2>4, ConcatIsSeq, RunsThen
<1> HIDE DEF c, u
<1>9. IsSeq(c \o u)
  BY <1>8, SomeIsClean
<1> QED
  BY <1>7, <1>8, <1>9 DEF Passes, c

\* Whatever a frame draws, it starts and ends with nothing bound.
LEMMA DrawsPass ==
  ASSUME NEW r \in Renderers, NEW recounts \in BOOLEAN, NEW centers \in BOOLEAN,
         NEW distances \in Nat, NEW counts \in Nat
  PROVE  Passes(DrawCommands(r, recounts, centers, distances, counts))
<1>1. CASE r = "solid"
  BY <1>1, SolidPasses DEF DrawCommands
<1>2. CASE r = "lines"
  BY <1>2, LinesPass DEF DrawCommands
<1>3. CASE r = "patterned"
  <2> DEFINE a == RunPointPass(r, distances)
             b == IF recounts THEN CountPatternCenters(r, counts) ELSE <<>>
             c == IF centers THEN RunPatternPass(r) ELSE <<>>
  <2>1. Passes(a)
    BY PointPasses
  <2>2. Passes(b)
    BY CountPasses, PassesNothing
  <2>3. Passes(c)
    BY PatternPasses, PassesNothing
  <2>4. DrawCommands(r, recounts, centers, distances, counts) = a \o b \o c \o DrawPatterned(r)
    BY <1>3 DEF DrawCommands
  <2> HIDE DEF a, b, c
  <2>5. Passes(a \o b \o c)
    BY <2>1, <2>2, <2>3, PassesThen
  <2> QED
    BY <2>4, <2>5, PatternedPasses, PassesThen
<1>4. CASE r = "dots"
  <2> DEFINE a == RunPointPass(r, distances)
             b == IF recounts THEN CountDots(r, counts) ELSE <<>>
             c == IF centers THEN RunDotPlacementPass(r) \o DrawDots(r) ELSE <<>>
  <2>1. Passes(a)
    BY PointPasses
  <2>2. Passes(b)
    BY DotCountPasses, PassesNothing
  <2>3. Passes(c)
    BY PlacementPasses, DotsPass, PassesThen, PassesNothing
  <2>4. DrawCommands(r, recounts, centers, distances, counts) = a \o b \o c
    BY <1>4 DEF DrawCommands
  <2> HIDE DEF a, b, c
  <2> QED
    BY <2>1, <2>2, <2>3, <2>4, PassesThen
<1> QED
  BY <1>1, <1>2, <1>3, <1>4 DEF Renderers

-------------------------------------------------------------------------------
(* What holds throughout *)

Finishes(s, c) == \E e : Runs(s, c, e) /\ Clean(e)

\* What is left of the draw in flight.
Continues == \E s, c : s = bound /\ c = todo /\ Finishes(s, c)

BindingsInv ==
  /\ generation \in [buffers : {0, 1}, depth : {0, 1}]
  /\ bound = [p \in Places |-> bound[p]]
  /\ rest \subseteq Renderers
  /\ BindsWhatItReads
  /\ IsSeq(todo)
  /\ \/ Continues
     \/ /\ todo = <<>> /\ rest = {}
        /\ \A p \in Places : p.kind \in {"srv", "uav"} => bound[p] = None

LEMMA SameFrame ==
  ASSUME generation'.depth = generation.depth, NEW s, NEW c, Finishes(s, c)
  PROVE  Finishes(s, c)'
<1>1. Depth' = Depth
  BY DEF Depth
<1>2. PICK e : Runs(s, c, e) /\ Clean(e)
  BY DEF Finishes
<1>3. Clean(e)'
  BY <1>1, <1>2 DEF Clean, InFrame
<1>4. Runs(s, c, e)'
  <2>1. PICK trace : /\ trace[0] = s /\ trace[Len(c)] = e
                     /\ \A i \in 1 .. Len(c) : Does(trace[i - 1], c[i], trace[i])
    BY <1>2 DEF Runs
  <2>2. ASSUME NEW a, NEW k, NEW d, Does(a, k, d)
        PROVE  Does(a, k, d)'
    BY <1>1, <2>2 DEF Does, ReadyToScan, InFrame
  <2>3. ASSUME NEW i \in 1 .. Len(c) PROVE Does(trace[i - 1], c[i], trace[i])'
    BY <2>1, <2>2
  <2> QED
    BY <2>1, <2>3 DEF Runs
<1> QED
  BY <1>3, <1>4 DEF Finishes

LEMMA StillContinues ==
  ASSUME generation'.depth = generation.depth, Finishes(bound', todo')
  PROVE  Continues'
<1>1. PICK s, c : s = bound' /\ c = todo'
  OBVIOUS
<1>2. Finishes(s, c)
  BY <1>1
<1>3. Finishes(s, c)'
  BY <1>2, SameFrame
<1> QED
  BY <1>1, <1>3 DEF Continues

LEMMA NothingLeft ==
  ASSUME BindingsInv, todo = <<>>
  PROVE  /\ \A p \in Places : p.kind \in {"srv", "uav"} => bound[p] = None
         /\ rest # {} => Clean(bound)
<1>1. ASSUME NEW s, NEW c, s = bound, c = todo, Finishes(s, c)
      PROVE  Clean(bound)
  <2>1. PICK e, trace : trace[0] = s /\ trace[Len(c)] = e /\ Clean(e)
    BY <1>1 DEF Finishes, Runs
  <2>2. Len(c) = 0
    BY <1>1
  <2> QED
    BY <1>1, <2>1, <2>2
<1> QED
  BY <1>1 DEF BindingsInv, Continues, Clean

\* Outside of a frame the output changes, and with it nothing that a shader reads.
LEMMA OutputBinds ==
  ASSUME NEW s, s = [p \in Places |-> s[p]], NEW at \in {RenderTarget, DepthStencil}, NEW view,
         \A p \in Places : p.kind \in {"srv", "uav"} => s[p] = None
  PROVE  LET e == Bound(s, at, view) IN
         /\ e = [p \in Places |-> e[p]] /\ e[at] = view
         /\ \A p \in Places : p.kind \in {"srv", "uav"} => e[p] = None
         /\ \A p \in Places \ {at} : ~Overlap(s[p], view) => e[p] = s[p]
<1> DEFINE e == Bound(s, at, view)
<1>1. at \in Places /\ at.kind \notin {"srv", "uav"}
  BY PlacesAre, Kinds
<1>2. /\ e = [p \in Places |-> e[p]]
      /\ e[at] = view
      /\ \A p \in Places \ {at} : e[p] = s[p] \/ (e[p] = None /\ Clash(at, view, p, s[p]))
  BY <1>1, BoundIs
<1> HIDE DEF e
<1>3. \A p \in Places \ {at} : ~Overlap(s[p], view) => e[p] = s[p]
  BY <1>2 DEF Clash
<1>4. \A p \in Places : p.kind \in {"srv", "uav"} => e[p] = None
  BY <1>1, <1>2
<1> QED
  BY <1>2, <1>3, <1>4 DEF e

LEMMA BoundIsFunction ==
  ASSUME NEW s, s = [p \in Places |-> s[p]], NEW at, NEW view
  PROVE  Bound(s, at, view) = [p \in Places |-> Bound(s, at, view)[p]]
<1>1. DOMAIN s = Places
  OBVIOUS
<1> QED
  BY <1>1 DEF Bound

LEMMA IterateHolds ==
  ASSUME BindingsInv, NEW visible \in SUBSET Renderers, Iterate(visible)
  PROVE  BindingsInv'
<1> DEFINE s == Bound(bound, RenderTarget, Back) e == Bound(s, DepthStencil, Depth)
<1>1. todo = <<>> /\ running = {} /\ bound' = e /\ rest' = visible
      /\ todo' = todo /\ running' = running /\ generation' = generation
  BY DEF Iterate, BetweenFrames, BetweenDraws
<1>2. bound = [p \in Places |-> bound[p]] /\ \A p \in Places : p.kind \in {"srv", "uav"} => bound[p] = None
  BY <1>1, NothingLeft DEF BindingsInv
<1>3. /\ s = [p \in Places |-> s[p]] /\ s[RenderTarget] = Back
      /\ \A p \in Places : p.kind \in {"srv", "uav"} => s[p] = None
  BY <1>2, OutputBinds
<1> HIDE DEF s
<1>4. /\ e = [p \in Places |-> e[p]] /\ e[DepthStencil] = Depth
      /\ \A p \in Places : p.kind \in {"srv", "uav"} => e[p] = None
      /\ \A p \in Places \ {DepthStencil} : ~Overlap(s[p], Depth) => e[p] = s[p]
  BY <1>3, OutputBinds
<1>5. ~Overlap(Back, Depth)
  <2>1. Back.of = <<"swapchain", "BackBuffer">> /\ Depth.of = <<"app", "depth", generation.depth>>
    BY DEF Back, Depth, View
  <2>2. <<"swapchain", "BackBuffer">> # <<"app", "depth", generation.depth>>
    OBVIOUS
  <2> QED
    BY <2>1, <2>2 DEF Overlap
<1>6. RenderTarget \in Places \ {DepthStencil}
  BY PlacesAre, Kinds
<1> HIDE DEF e
<1>7. Clean(e)
  BY <1>3, <1>4, <1>5, <1>6 DEF Clean, InFrame
<1>8. Finishes(e, <<>>)
  BY <1>7, RunsNothing DEF Finishes
<1>9. Continues'
  BY <1>1, <1>8, StillContinues
<1>10. generation' \in [buffers : {0, 1}, depth : {0, 1}] /\ IsSeq(todo')
  BY <1>1 DEF BindingsInv
<1>11. running' = {}
  BY <1>1
<1> QED
  BY <1>1, <1>4, <1>9, <1>10, <1>11 DEF BindingsInv, BindsWhatItReads, IsSeq

LEMMA BetweenDrawsHolds ==
  ASSUME BindingsInv, Reallocate \/ Present \/ Resize
  PROVE  BindingsInv'
<1>1. BetweenDraws /\ todo' = <<>> /\ running' = {} /\ todo = <<>> /\ rest' = rest
  BY DEF Reallocate, Present, Resize, BetweenFrames, BetweenDraws
<1>2. generation' \in [buffers : {0, 1}, depth : {0, 1}]
  BY DEF BindingsInv, Reallocate, Present, Resize
<1>3. /\ bound = [p \in Places |-> bound[p]]
      /\ \A p \in Places : p.kind \in {"srv", "uav"} => bound[p] = None
  BY <1>1, NothingLeft DEF BindingsInv
<1>4. CASE Reallocate
  <2>1. bound' = bound /\ generation'.depth = generation.depth /\ rest # {}
    BY <1>4 DEF Reallocate, BindingsInv
  <2>2. Finishes(bound', todo')
    BY <1>1, <2>1, NothingLeft, RunsNothing DEF Finishes
  <2>3. Continues'
    BY <2>1, <2>2, StillContinues
  <2> QED
    BY <1>1, <1>2, <1>3, <2>1, <2>3 DEF BindingsInv, BindsWhatItReads, IsSeq
<1>5. CASE Present
  <2>1. rest = {} /\ bound' = Bound(bound, RenderTarget, None)
    BY <1>5 DEF Present
  <2>2. bound' = [p \in Places |-> bound'[p]] /\ \A p \in Places : p.kind \in {"srv", "uav"} => bound'[p] = None
    BY <1>3, <2>1, OutputBinds
  <2> QED
    BY <1>1, <1>2, <2>1, <2>2 DEF BindingsInv, BindsWhatItReads, IsSeq
<1>6. CASE Resize
  <2>1. rest = {} /\ bound' = bound
    BY <1>6 DEF Resize, BetweenFrames
  <2> QED
    BY <1>1, <1>2, <1>3, <2>1 DEF BindingsInv, BindsWhatItReads, IsSeq
<1> QED
  BY <1>4, <1>5, <1>6

LEMMA BeginDrawHolds ==
  ASSUME BindingsAssumption, BindingsInv, NEW recounts \in BOOLEAN, NEW centers \in BOOLEAN,
         NEW distances \in Depths, NEW counts \in Depths,
         BeginDraw(recounts, centers, distances, counts)
  PROVE  BindingsInv'
<1>1. PICK i \in DOMAIN Order :
        /\ Order[i] \in rest /\ todo' = DrawCommands(Order[i], recounts, centers, distances, counts)
        /\ rest' = rest \ {Order[i]}
  BY DEF BeginDraw
<1>2. todo = <<>> /\ running = {} /\ running' = running /\ bound' = bound /\ generation' = generation
  BY DEF BeginDraw, BetweenDraws
<1> DEFINE r == Order[i] c == DrawCommands(r, recounts, centers, distances, counts)
<1>3. r \in Renderers /\ distances \in Nat /\ counts \in Nat
  BY <1>1 DEF BindingsInv, BindingsAssumption
<1>4. Clean(bound)
  BY <1>1, <1>2, NothingLeft
<1> HIDE DEF r
<1>5. Passes(c)
  BY <1>3, DrawsPass
<1>6. todo' = c
  BY <1>1 DEF r
<1> HIDE DEF c
<1>7. Finishes(bound', todo') /\ IsSeq(todo')
  BY <1>2, <1>4, <1>5, <1>6 DEF Passes, Finishes
<1>8. Continues'
  BY <1>2, <1>7, StillContinues
<1>9. rest' \subseteq Renderers /\ bound' = [p \in Places |-> bound'[p]]
      /\ generation' \in [buffers : {0, 1}, depth : {0, 1}]
  BY <1>1, <1>2 DEF BindingsInv
<1>10. running' = {}
  BY <1>2
<1> QED
  BY <1>7, <1>8, <1>9, <1>10 DEF BindingsInv, BindsWhatItReads, IsSeq

LEMMA CommandHolds ==
  ASSUME BindingsInv, BindNext \/ RunKernel \/ EnterLevel
  PROVE  BindingsInv'
<1> DEFINE c == Head(todo)
<1>1. todo # <<>> /\ rest' = rest /\ generation' = generation
  BY DEF BindNext, RunKernel, EnterLevel, Issue
<1>2. IsSeq(todo) /\ bound = [p \in Places |-> bound[p]] /\ Finishes(bound, todo)
  BY <1>1 DEF BindingsInv, Continues
<1>3. PICK e : Runs(bound, todo, e) /\ Clean(e)
  BY <1>2 DEF Finishes
<1>4. PICK m : IsSeq(Tail(todo)) /\ Does(bound, c, m) /\ Runs(m, Tail(todo), e)
  BY <1>1, <1>2, <1>3, RunsFirst
<1> HIDE DEF c
<1> SUFFICES /\ IsSeq(todo') /\ Runs(bound', todo', e)
             /\ bound' = [p \in Places |-> bound'[p]] /\ BindsWhatItReads'
  <2>1. Finishes(bound', todo')
    BY <1>3 DEF Finishes
  <2>2. Continues'
    BY <1>1, <2>1, StillContinues
  <2>3. generation' \in [buffers : {0, 1}, depth : {0, 1}] /\ rest' \subseteq Renderers
    BY <1>1 DEF BindingsInv
  <2> QED
    BY <2>2, <2>3 DEF BindingsInv, IsSeq
<1>5. CASE BindNext
  <2>1. c.do = "bind" /\ bound' = Bound(bound, c.at, c.view) /\ todo' = Tail(todo) /\ running' = {}
    BY <1>5 DEF BindNext, Issue, c
  <2>2. m = bound'
    BY <1>4, <2>1 DEF Does
  <2> QED
    BY <1>2, <1>4, <2>1, <2>2, BoundIsFunction DEF BindsWhatItReads
<1>6. CASE RunKernel
  <2>1. c.do = "run" /\ bound' = bound /\ todo' = Tail(todo) /\ running' = c.declared
    BY <1>6 DEF RunKernel, Issue, c
  <2>2. m = bound /\ \A register \in c.declared : bound[register[1]] = register[2]
    BY <1>4, <2>1 DEF Does
  <2> QED
    BY <1>2, <1>4, <2>1, <2>2 DEF BindsWhatItReads
<1>7. CASE EnterLevel
  <2>1. c.do = "scan" /\ bound' = bound /\ todo' = Entered(c) \o Tail(todo) /\ running' = {}
    BY <1>7 DEF EnterLevel, Issue, c, Entered
  <2>2. m = AfterScan(bound, c) /\ c \in Calls /\ ReadyToScan(bound, c)
    BY <1>4, <2>1 DEF Does
  <2>3. IsSeq(Entered(c)) /\ Runs(bound, Entered(c), m)
    BY <2>2, LevelRuns
  <2>4. IsSeq(todo') /\ Runs(bound', todo', e)
    BY <1>4, <2>1, <2>3, ConcatIsSeq, RunsThen
  <2> QED
    BY <1>2, <2>1, <2>4 DEF BindsWhatItReads
<1> QED
  BY <1>5, <1>6, <1>7

\* A draw binds what its kernels read and unbinds it, however many levels its scans have.
THEOREM DrawsBindWhatTheyRead ==
  ASSUME BindingsAssumption
  PROVE  BindingsSpec => []BindingsHold
<1>1. BindingsInit => BindingsInv
  <2>1. IsSeq(<<>>)
    BY PassesNothing DEF Passes
  <2> QED
    BY <2>1 DEF BindingsInit, BindingsInv, BindsWhatItReads
<1>2. BindingsInv /\ [BindingsNext]_bindingVars => BindingsInv'
  <2> SUFFICES ASSUME BindingsInv, [BindingsNext]_bindingVars PROVE BindingsInv'
    OBVIOUS
  <2>1. CASE BindingsNext
    BY <2>1, IterateHolds, BetweenDrawsHolds, BeginDrawHolds, CommandHolds DEF BindingsNext, Renderers
  <2>2. CASE UNCHANGED bindingVars
    <3>1. /\ bound' = bound /\ todo' = todo /\ running' = running /\ rest' = rest
          /\ generation' = generation
      BY <2>2 DEF bindingVars
    <3>2. Continues => Continues'
      <4>1. Continues => Finishes(bound', todo')
        BY <3>1 DEF Continues
      <4> QED
        BY <3>1, <4>1, StillContinues
    <3> QED
      BY <3>1, <3>2 DEF BindingsInv, BindsWhatItReads, IsSeq
  <2> QED
    BY <2>1, <2>2
<1>3. BindingsInv => BindingsHold
  BY NothingLeft DEF BindingsInv, BindingsHold, LeavesNothingBound, BetweenDraws
<1> QED
  BY <1>1, <1>2, <1>3, PTL DEF BindingsSpec

===============================================================================
