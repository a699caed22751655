------------------------- MODULE BezierRenderer_proofs -------------------------
(***************************************************************************)
(* Facts about the operators of CurveSlots, for sequences of any length;    *)
(* then type correctness and the back-pointer invariants of BezierRenderer, *)
(* and that a merged Add() continues the curve added last or nothing.       *)
(***************************************************************************)
EXTENDS BezierRenderer, FiniteSetTheorems, SequenceTheorems, TLAPS

\* Every subset of the indices of a finite sequence is finite, its elements have
\* ranks 1 .. Cardinality(S), and different elements have different ranks: what
\* lets the compaction loop number the curves it keeps with `write`.
LEMMA RankBijection ==
  ASSUME NEW n \in Nat, NEW S \in SUBSET (1 .. n)
  PROVE  /\ IsFiniteSet(S)
         /\ Cardinality(S) \in Nat
         /\ \A i \in S : Rank(S, i) \in 1 .. Cardinality(S)
         /\ \A i, j \in S : Rank(S, i) = Rank(S, j) => i = j
         /\ \A i, j \in S : i < j => Rank(S, i) < Rank(S, j)
         /\ \A k \in 1 .. Cardinality(S) : \E i \in S : Rank(S, i) = k
<1> DEFINE upTo(i) == {j \in S : j <= i}
<1>1. IsFiniteSet(S) /\ Cardinality(S) \in Nat
  <2>1. IsFiniteSet(1 .. n)
    BY FS_Interval
  <2> QED
    BY <2>1, FS_Subset, FS_CardinalityType
<1>2. ASSUME NEW i \in S
      PROVE  /\ IsFiniteSet(upTo(i))
             /\ Cardinality(upTo(i)) \in 1 .. Cardinality(S)
  <2>1. IsFiniteSet(upTo(i)) /\ Cardinality(upTo(i)) <= Cardinality(S)
    BY <1>1, FS_Subset
  <2>2. Cardinality(upTo(i)) \in Nat
    BY <2>1, FS_CardinalityType
  <2>3. i \in upTo(i)
    OBVIOUS
  <2>4. Cardinality(upTo(i)) # 0
    BY <2>1, <2>3, FS_EmptySet
  <2> QED
    BY <1>1, <2>1, <2>2, <2>4
<1>3. ASSUME NEW i \in S, NEW j \in S, i < j
      PROVE  Cardinality(upTo(i)) < Cardinality(upTo(j))
  <2>1. upTo(i) \in SUBSET upTo(j)
    <3> SUFFICES ASSUME NEW x \in S, x <= i
                 PROVE  x <= j
      OBVIOUS
    <3>1. x \in Int /\ i \in Int /\ j \in Int
      OBVIOUS
    <3> QED
      BY <1>3, <3>1
  <2>2. j \in upTo(j) /\ j \notin upTo(i)
    BY <1>3
  <2>3. /\ Cardinality(upTo(i)) <= Cardinality(upTo(j))
        /\ Cardinality(upTo(j)) = Cardinality(upTo(i)) => upTo(j) = upTo(i)
    BY <1>2, <2>1, FS_Subset
  <2>4. upTo(i) # upTo(j)
    BY <2>2
  <2> QED
    BY <1>2, <2>3, <2>4
<1>4. \A i, j \in S : Rank(S, i) = Rank(S, j) => i = j
  BY <1>2, <1>3 DEF Rank
<1> DEFINE rank == [i \in S |-> Rank(S, i)]
<1>5. rank \in Injection(S, 1 .. Cardinality(S))
  BY <1>2, <1>4 DEF Rank, Injection, IsInjective
<1>6. rank \in Surjection(S, 1 .. Cardinality(S))
  <2>1. /\ IsFiniteSet(1 .. Cardinality(S))
        /\ Cardinality(1 .. Cardinality(S)) = Cardinality(S)
    BY <1>1, FS_Interval
  <2> QED
    BY <1>1, <1>5, <2>1, FS_Injection
<1>7. \A k \in 1 .. Cardinality(S) : \E i \in S : Rank(S, i) = k
  BY <1>6 DEF Surjection
<1> QED
  BY <1>1, <1>2, <1>3, <1>4, <1>7 DEF Rank

\* Ascending(S) lists S: position Rank(S, i) holds i, and no other element.
LEMMA AscendingLists ==
  ASSUME NEW n \in Nat, NEW S \in SUBSET (1 .. n)
  PROVE  /\ Cardinality(S) \in Nat
         /\ Ascending(S) \in [1 .. Cardinality(S) -> S]
         /\ \A i \in S : /\ Rank(S, i) \in 1 .. Cardinality(S)
                         /\ Ascending(S)[Rank(S, i)] = i
         /\ \A k \in 1 .. Cardinality(S) : Rank(S, Ascending(S)[k]) = k
<1>1. \A k \in 1 .. Cardinality(S) :
        /\ Ascending(S)[k] \in S
        /\ Rank(S, Ascending(S)[k]) = k
  <2> SUFFICES ASSUME NEW k \in 1 .. Cardinality(S)
               PROVE  /\ Ascending(S)[k] \in S
                      /\ Rank(S, Ascending(S)[k]) = k
    OBVIOUS
  <2>1. \E i \in S : Rank(S, i) = k
    BY RankBijection
  <2>2. Ascending(S)[k] = CHOOSE i \in S : Rank(S, i) = k
    BY DEF Ascending
  <2> QED
    BY <2>1, <2>2
<1>2. ASSUME NEW i \in S
      PROVE  Ascending(S)[Rank(S, i)] = i
  <2>1. Rank(S, i) \in 1 .. Cardinality(S)
    BY RankBijection
  <2>2. /\ Ascending(S)[Rank(S, i)] \in S
        /\ Rank(S, Ascending(S)[Rank(S, i)]) = Rank(S, i)
    BY <1>1, <2>1
  <2> QED
    BY <2>2, RankBijection
<1>3. Ascending(S) \in [1 .. Cardinality(S) -> S]
  BY <1>1 DEF Ascending
<1> QED
  BY <1>1, <1>2, <1>3, RankBijection

-------------------------------------------------------------------------------
(* Chains. *)

\* A nonempty set of indices has a largest one: the last in the ascending order.
LEMMA LargestIndex ==
  ASSUME NEW n \in Nat, NEW S \in SUBSET (1 .. n), S # {}
  PROVE  \E f \in S : \A j \in S : j <= f
<1> DEFINE c == Cardinality(S)
<1>1. /\ IsFiniteSet(S) /\ c \in Nat
      /\ \A i \in S : Rank(S, i) \in 1 .. c
      /\ \A i, j \in S : i < j => Rank(S, i) < Rank(S, j)
      /\ \A k \in 1 .. c : \E i \in S : Rank(S, i) = k
  BY RankBijection
<1>2. c # 0
  BY <1>1, FS_EmptySet
<1> HIDE DEF c
<1>3. c \in 1 .. c
  BY <1>1, <1>2
<1>4. PICK f \in S : Rank(S, f) = c
  BY <1>1, <1>3
<1>5. ASSUME NEW j \in S
      PROVE  ~(f < j)
  <2>1. Rank(S, j) \in 1 .. c
    BY <1>1
  <2>2. f < j => c < Rank(S, j)
    BY <1>1, <1>4
  <2> HIDE DEF Rank
  <2> QED
    BY <1>1, <2>1, <2>2
<1>6. S \subseteq Int
  OBVIOUS
<1> QED
  BY <1>5, <1>6

\* The walk back ends at the one start of the chain.
LEMMA ChainFirstExists ==
  ASSUME NEW s, NEW i \in Nat \ {0}
  PROVE  LET f == ChainFirst(s, i)
         IN  /\ f \in 1 .. i
             /\ ~ContinuesChain(s, f)
             /\ \A k \in f + 1 .. i : ContinuesChain(s, k)
<1> DEFINE starts == {k \in 1 .. i : ~ContinuesChain(s, k)}
<1>1. 1 \in starts
  BY DEF ContinuesChain
<1>2. starts \in SUBSET (1 .. i)
  OBVIOUS
<1>3. PICK f \in starts : \A j \in starts : j <= f
  BY <1>1, <1>2, LargestIndex
<1>4. \A k \in f + 1 .. i : ContinuesChain(s, k)
  BY <1>3
<1> QED
  BY <1>3, <1>4 DEF ChainFirst

LEMMA ChainFirstUnique ==
  ASSUME NEW s, NEW i \in Nat \ {0}, NEW f \in 1 .. i, ~ContinuesChain(s, f),
         \A k \in f + 1 .. i : ContinuesChain(s, k)
  PROVE  ChainFirst(s, i) = f
<1> DEFINE g == ChainFirst(s, i)
<1>1. g \in 1 .. i /\ ~ContinuesChain(s, g) /\ \A k \in g + 1 .. i : ContinuesChain(s, k)
  BY ChainFirstExists
<1> HIDE DEF g
<1>2. ~(g < f)
  BY <1>1
<1>3. ~(f < g)
  BY <1>1
<1> QED
  BY <1>1, <1>2, <1>3 DEF g

\* A slot that starts a chain is its own first one; any other shares the first slot
\* of the one before.
LEMMA ChainSteps ==
  ASSUME NEW s, NEW i \in Nat \ {0}
  PROVE  /\ ChainFirst(s, i) = i <=> ~ContinuesChain(s, i)
         /\ ContinuesChain(s, i) => i - 1 \in Nat \ {0}
                                    /\ ChainFirst(s, i) = ChainFirst(s, i - 1)
<1>1. ASSUME ~ContinuesChain(s, i)
      PROVE  ChainFirst(s, i) = i
  <2>1. i \in 1 .. i /\ \A k \in i + 1 .. i : ContinuesChain(s, k)
    OBVIOUS
  <2> QED
    BY <1>1, <2>1, ChainFirstUnique
<1>2. ChainFirst(s, i) = i => ~ContinuesChain(s, i)
  BY ChainFirstExists
<1>3. ASSUME ContinuesChain(s, i)
      PROVE  i - 1 \in Nat \ {0} /\ ChainFirst(s, i) = ChainFirst(s, i - 1)
  <2>1. i > 1
    BY <1>3 DEF ContinuesChain
  <2>2. i - 1 \in Nat \ {0}
    BY <2>1
  <2> DEFINE f == ChainFirst(s, i - 1)
  <2>3. f \in 1 .. i - 1 /\ ~ContinuesChain(s, f) /\ \A k \in f + 1 .. i - 1 : ContinuesChain(s, k)
    BY <2>2, ChainFirstExists
  <2> HIDE DEF f
  <2>4. f \in 1 .. i /\ \A k \in f + 1 .. i : ContinuesChain(s, k)
    BY <1>3, <2>2, <2>3
  <2>5. ChainFirst(s, i) = f
    BY <2>3, <2>4, ChainFirstUnique
  <2> QED
    BY <2>2, <2>5 DEF f
<1> QED
  BY <1>1, <1>2, <1>3

\* Neighbours in the set have neighbouring ranks.
LEMMA RankOfNext ==
  ASSUME NEW n \in Nat, NEW S \in SUBSET (1 .. n), NEW i \in S, i - 1 \in S
  PROVE  Rank(S, i) = Rank(S, i - 1) + 1
<1> DEFINE below == {j \in S : j <= i - 1}
<1>1. IsFiniteSet(below)
  <2>1. IsFiniteSet(S)
    BY RankBijection
  <2> QED
    BY <2>1, FS_Subset
<1>2. {j \in S : j <= i} = below \cup {i} /\ i \notin below
  <2>1. i \in Int /\ \A j \in S : j \in Int /\ (j <= i <=> j <= i - 1 \/ j = i)
    OBVIOUS
  <2>2. ~(i <= i - 1)
    BY <2>1
  <2>3. \A j \in S : j <= i <=> j <= i - 1 \/ j = i
    BY <2>1
  <2> QED
    BY <2>2, <2>3, Zenon
<1> HIDE DEF below
<1>3. Cardinality(below \cup {i}) = Cardinality(below) + 1
  BY <1>1, <1>2, FS_AddElement
<1> QED
  BY <1>2, <1>3 DEF Rank, below

-------------------------------------------------------------------------------
(* BezierRenderer *)

StoreOK(st) == st \in Store /\ OwnsSlots(st) /\ CountsRemoved(st)

Inv == TypeOK /\ HandlesOwnTheirSlots /\ RemovedSlotsAreCounted

-------------------------------------------------------------------------------
(***************************************************************************)
(* Slots.                                                                   *)
(***************************************************************************)

LEMMA KindIsBackend == \A c : KindOf(c) \in Backends
BY DEF KindOf, Backends

LEMMA EmptiedIsSlot == Emptied \in Slot /\ Emptied.owner = Nobody
BY DEF Emptied, Slot

LEMMA LiveIndices ==
  ASSUME NEW s \in Seq(Slot)
  PROVE  /\ Live(s) \in SUBSET (1 .. Len(s))
         /\ Len(s) \in Nat
         /\ DOMAIN s = 1 .. Len(s)
         /\ \A i \in Live(s) : s[i] \in Slot /\ s[i].owner \in Handles
<1>1. DOMAIN s = 1 .. Len(s) /\ Len(s) \in Nat
  OBVIOUS
<1>2. \A i \in DOMAIN s : s[i] \in Slot
  OBVIOUS
<1> QED
  BY <1>1, <1>2 DEF Live, Slot

\* A compaction keeps exactly the live slots; the one at i goes to its rank.
LEMMA CompactionFacts ==
  ASSUME NEW s \in Seq(Slot)
  PROVE  LET c == CompactRemoved(s)
             n == Cardinality(Live(s))
         IN  /\ n \in Nat
             /\ c \in Seq(Slot)
             /\ Len(c) = n
             /\ Live(c) = 1 .. n
             /\ \A i \in Live(s) : /\ Rank(Live(s), i) \in 1 .. n
                                   /\ c[Rank(Live(s), i)].owner = s[i].owner
             /\ \A k \in 1 .. n : \E i \in Live(s) :
                  k = Rank(Live(s), i) /\ c[k].owner = s[i].owner
<1> DEFINE c == CompactRemoved(s)
           n == Cardinality(Live(s))
           a == Ascending(Live(s))
<1>1. /\ n \in Nat
      /\ a \in [1 .. n -> Live(s)]
      /\ \A i \in Live(s) : Rank(Live(s), i) \in 1 .. n /\ a[Rank(Live(s), i)] = i
      /\ \A k \in 1 .. n : Rank(Live(s), a[k]) = k
  BY LiveIndices, AscendingLists
<1>2. c = [k \in 1 .. n |->
             [s[a[k]] EXCEPT !.merged = @ /\ (a[k] = 1 \/ s[a[k] - 1].owner # Nobody)]]
  BY <1>1 DEF CompactRemoved
<1>3. ASSUME NEW k \in 1 .. n
      PROVE  c[k] \in Slot /\ c[k].owner = s[a[k]].owner /\ c[k].owner # Nobody
  <2>1. a[k] \in Live(s) /\ s[a[k]] \in Slot
    BY <1>1, LiveIndices
  <2> QED
    BY <1>2, <2>1 DEF Slot, Live
<1>4. c \in Seq(Slot) /\ Len(c) = n
  <2>1. c \in [1 .. n -> Slot]
    BY <1>2, <1>3
  <2> HIDE DEF c, n
  <2> QED
    BY <1>1, <2>1, SeqDef
<1>5. Live(c) = 1 .. n
  <2>1. DOMAIN c = 1 .. n
    BY <1>2
  <2> QED
    BY <1>3, <2>1 DEF Live
<1>6. \A i \in Live(s) : c[Rank(Live(s), i)].owner = s[i].owner
  BY <1>1, <1>3
<1>7. \A k \in 1 .. n : \E i \in Live(s) : k = Rank(Live(s), i) /\ c[k].owner = s[i].owner
  BY <1>1, <1>3
<1> QED
  BY <1>1, <1>4, <1>5, <1>6, <1>7

-------------------------------------------------------------------------------
(***************************************************************************)
(* Operations on the store.                                                 *)
(***************************************************************************)

LEMMA StoreFields ==
  ASSUME NEW st \in Store
  PROVE  /\ st.slots \in [Backends -> Seq(Slot)]
         /\ st.removed \in [Backends -> Nat]
         /\ st.needResize \in [Backends -> BOOLEAN]
         /\ st.marks \in [Backends -> Seq(Nat)]
         /\ st.routeAll \in [Backends -> BOOLEAN]
         /\ st.lastAdded \in LastAdd \cup {Nobody}
         /\ st.at \in [Handles -> Place \cup {Nobody}]
BY DEF Store

\* Marking touches the marks only.
LEMMA MarkingKeeps ==
  ASSUME NEW st \in Store, NEW b \in Backends, NEW i \in Nat
  PROVE  LET m == MarkForRouting(st, b, i)
         IN  /\ m \in Store
             /\ m.slots = st.slots
             /\ m.at = st.at
             /\ m.removed = st.removed
             /\ m.needResize = st.needResize
<1> DEFINE m == MarkForRouting(st, b, i)
<1>1. CASE m = st
  BY <1>1
<1>2. CASE m = [st EXCEPT !.routeAll[b] = TRUE, !.marks[b] = <<>>]
  <2>1. /\ [st.routeAll EXCEPT ![b] = TRUE] \in [Backends -> BOOLEAN]
        /\ [st.marks EXCEPT ![b] = <<>>] \in [Backends -> Seq(Nat)]
    BY StoreFields
  <2>2. m = [st EXCEPT !.routeAll = [st.routeAll EXCEPT ![b] = TRUE],
                       !.marks = [st.marks EXCEPT ![b] = <<>>]]
    BY <1>2
  <2> QED
    BY <2>1, <2>2 DEF Store
<1>3. CASE m = [st EXCEPT !.marks[b] = Append(@, i)]
  <2>1. [st.marks EXCEPT ![b] = Append(@, i)] \in [Backends -> Seq(Nat)]
    BY StoreFields
  <2>2. m = [st EXCEPT !.marks = [st.marks EXCEPT ![b] = Append(st.marks[b], i)]]
    BY <1>3
  <2> QED
    BY <2>1, <2>2 DEF Store
<1> QED
  BY <1>1, <1>2, <1>3 DEF MarkForRouting

\* A store that agrees with another one on slots, handles and counters is as good.
LEMMA SameSlots ==
  ASSUME NEW st, StoreOK(st), NEW m \in Store,
         m.slots = st.slots, m.at = st.at, m.removed = st.removed,
         \A b \in Backends : st.needResize[b] => m.needResize[b]
  PROVE  StoreOK(m)
<1>1. OwnsSlots(m)
  BY DEF StoreOK, OwnsSlots, Valid
<1>2. CountsRemoved(m)
  BY DEF StoreOK, CountsRemoved
<1> QED
  BY <1>1, <1>2 DEF StoreOK

\* What a valid handle's place and slot look like.
LEMMA PlaceOfHandle ==
  ASSUME NEW st, StoreOK(st), NEW h \in Handles, Valid(st, h)
  PROVE  /\ st.at[h] \in Place
         /\ st.at[h].renderer \in Backends
         /\ st.slots[st.at[h].renderer] \in Seq(Slot)
         /\ st.at[h].index \in Live(st.slots[st.at[h].renderer])
         /\ st.at[h].index \in 1 .. Len(st.slots[st.at[h].renderer])
         /\ st.slots[st.at[h].renderer][st.at[h].index].owner = h
         /\ st.slots[st.at[h].renderer][st.at[h].index] \in Slot
<1>1. st.at[h] \in Place /\ st.at[h].renderer \in Backends
  BY DEF StoreOK, Store, Valid, Place
<1>2. st.slots[st.at[h].renderer] \in Seq(Slot)
  BY <1>1 DEF StoreOK, Store
<1>3. /\ st.at[h].index \in DOMAIN st.slots[st.at[h].renderer]
      /\ st.slots[st.at[h].renderer][st.at[h].index].owner = h
  BY DEF StoreOK, OwnsSlots
<1>4. h # Nobody
  BY HandlesAssumption
<1> QED
  BY <1>1, <1>2, <1>3, <1>4 DEF Live

\* Two handles are never at one place.
LEMMA PlacesDiffer ==
  ASSUME NEW st, StoreOK(st), NEW h \in Handles, NEW g \in Handles,
         Valid(st, h), st.at[h] = st.at[g]
  PROVE  h = g
BY DEF StoreOK, OwnsSlots, Valid

LEMMA EmptyStoreOK == StoreOK(EmptyRenderer)
<1>1. EmptyRenderer \in Store
  BY DEF EmptyRenderer, Store, Backends
<1>2. OwnsSlots(EmptyRenderer)
  BY DEF EmptyRenderer, OwnsSlots, Valid, Live
<1>3. CountsRemoved(EmptyRenderer)
  <2>1. ASSUME NEW b \in Backends
        PROVE  DOMAIN EmptyRenderer.slots[b] \ Live(EmptyRenderer.slots[b]) = {}
    BY DEF EmptyRenderer, Live
  <2>2. \A b \in Backends : EmptyRenderer.removed[b] = 0
    BY DEF EmptyRenderer
  <2> QED
    BY <2>1, <2>2, FS_EmptySet DEF CountsRemoved
<1> QED
  BY <1>1, <1>2, <1>3 DEF StoreOK

\* Emptying the slot of one handle's curve, as Remove() does.
LEMMA EmptyingKeeps ==
  ASSUME NEW st, StoreOK(st), NEW h \in Handles,
         NEW b \in Backends, NEW i \in Live(st.slots[b]),
         st.slots[b][i].owner = h
  PROVE  LET e == EmptySlot(st, h, b, i)
         IN  StoreOK(e) /\ e.at = [st.at EXCEPT ![h] = Nobody]
<1> DEFINE e == EmptySlot(st, h, b, i)
<1>1. /\ st \in Store
      /\ st.slots[b] \in Seq(Slot)
      /\ i \in 1 .. Len(st.slots[b])
      /\ Len(st.slots[b]) \in Nat
      /\ DOMAIN st.slots[b] = 1 .. Len(st.slots[b])
      /\ st.at[h] = [renderer |-> b, index |-> i]
  BY StoreFields, LiveIndices DEF StoreOK, OwnsSlots
<1>2. /\ e.slots = [st.slots EXCEPT ![b] = [st.slots[b] EXCEPT ![i] = Emptied]]
      /\ e.removed = [st.removed EXCEPT ![b] = st.removed[b] + 1]
      /\ e.needResize = [st.needResize EXCEPT ![b] = TRUE]
      /\ e.at = [st.at EXCEPT ![h] = Nobody]
  BY <1>1 DEF Store, EmptySlot
<1>3. e \in Store
  <2>1. /\ e.slots \in [Backends -> Seq(Slot)]
        /\ e.removed \in [Backends -> Nat]
        /\ e.needResize \in [Backends -> BOOLEAN]
        /\ e.at \in [Handles -> Place \cup {Nobody}]
    BY <1>1, <1>2, StoreFields, EmptiedIsSlot
  <2>2. e = [st EXCEPT !.slots = e.slots, !.removed = e.removed,
                       !.needResize = e.needResize, !.at = e.at]
    BY <1>1 DEF Store, EmptySlot
  <2> QED
    BY <1>1, <2>1, <2>2 DEF Store
<1> HIDE DEF e
<1>4. /\ DOMAIN e.slots[b] = DOMAIN st.slots[b]
      /\ e.slots[b][i] = Emptied
      /\ \A j \in DOMAIN st.slots[b] \ {i} : e.slots[b][j] = st.slots[b][j]
      /\ \A c \in Backends \ {b} : e.slots[c] = st.slots[c]
  BY <1>1, <1>2, StoreFields
<1>5. Live(e.slots[b]) = Live(st.slots[b]) \ {i}
  BY <1>1, <1>4, EmptiedIsSlot DEF Live
<1>6. OwnsSlots(e)
  <2>1. ASSUME NEW g \in Handles, Valid(e, g)
        PROVE  /\ e.at[g].index \in DOMAIN e.slots[e.at[g].renderer]
               /\ e.slots[e.at[g].renderer][e.at[g].index].owner = g
    <3>1. g # h /\ e.at[g] = st.at[g] /\ Valid(st, g)
      BY <1>1, <1>2, <2>1, StoreFields DEF Valid
    <3>2. /\ st.at[g].renderer \in Backends
          /\ st.at[g].index \in DOMAIN st.slots[st.at[g].renderer]
          /\ st.slots[st.at[g].renderer][st.at[g].index].owner = g
      BY <1>1, <3>1, PlaceOfHandle, LiveIndices
    <3>3. CASE st.at[g].renderer = b
      <4>1. st.at[g].index # i
        BY <3>1, <3>2, <3>3
      <4> QED
        BY <1>4, <3>1, <3>2, <3>3, <4>1
    <3>4. CASE st.at[g].renderer # b
      BY <1>4, <3>1, <3>2, <3>4
    <3> QED
      BY <3>3, <3>4
  <2>2. ASSUME NEW c \in Backends, NEW j \in Live(e.slots[c])
        PROVE  e.at[e.slots[c][j].owner] = [renderer |-> c, index |-> j]
    <3>1. /\ j \in Live(st.slots[c])
          /\ e.slots[c][j] = st.slots[c][j]
          /\ c = b => j # i
      BY <1>4, <1>5 DEF Live
    <3>2. st.at[st.slots[c][j].owner] = [renderer |-> c, index |-> j]
      BY <3>1 DEF StoreOK, OwnsSlots
    <3>3. st.slots[c][j].owner # h
      BY <1>1, <3>1, <3>2
    <3> QED
      BY <1>1, <1>2, <3>1, <3>2, <3>3, StoreFields
  <2> QED
    BY <2>1, <2>2 DEF OwnsSlots
<1>7. CountsRemoved(e)
  <2> DEFINE before == DOMAIN st.slots[b] \ Live(st.slots[b])
  <2>1. DOMAIN e.slots[b] \ Live(e.slots[b]) = before \cup {i}
    BY <1>1, <1>4, <1>5
  <2>2. IsFiniteSet(before)
    <3>1. before \in SUBSET (1 .. Len(st.slots[b]))
      BY <1>1
    <3> QED
      BY <1>1, <3>1, RankBijection
  <2>3. i \notin before
    OBVIOUS
  <2>4. Cardinality(before \cup {i}) = Cardinality(before) + 1
    BY <2>2, <2>3, FS_AddElement
  <2>5. st.removed[b] = Cardinality(before)
    BY DEF StoreOK, CountsRemoved
  <2>6. /\ e.removed[b] = Cardinality(DOMAIN e.slots[b] \ Live(e.slots[b]))
        /\ e.needResize[b]
    <3>1. e.removed[b] = st.removed[b] + 1 /\ e.needResize[b]
      BY <1>1, <1>2, StoreFields
    <3> QED
      BY <2>1, <2>4, <2>5, <3>1
  <2>7. ASSUME NEW c \in Backends \ {b}
        PROVE  /\ e.removed[c] = Cardinality(DOMAIN e.slots[c] \ Live(e.slots[c]))
               /\ e.removed[c] > 0 => e.needResize[c]
    <3>1. /\ st.removed[c] = Cardinality(DOMAIN st.slots[c] \ Live(st.slots[c]))
          /\ st.removed[c] > 0 => st.needResize[c]
      BY DEF StoreOK, CountsRemoved
    <3>2. /\ e.removed[c] = st.removed[c]
          /\ e.needResize[c] = st.needResize[c]
          /\ e.slots[c] = st.slots[c]
      BY <1>1, <1>2, <1>4, StoreFields
    <3> QED
      BY <3>1, <3>2
  <2> QED
    BY <2>6, <2>7 DEF CountsRemoved
<1> QED
  BY <1>2, <1>3, <1>6, <1>7 DEF StoreOK, e

\* BezierCurve::Remove keeps the store sound and invalidates its handle only.
LEMMA RemovingKeeps ==
  ASSUME NEW st, StoreOK(st), NEW h \in Handles
  PROVE  /\ StoreOK(RemoveCurve(st, h))
         /\ ~Valid(RemoveCurve(st, h), h)
         /\ \A g \in Handles \ {h} : RemoveCurve(st, h).at[g] = st.at[g]
<1>1. CASE ~Valid(st, h)
  BY <1>1 DEF RemoveCurve
<1>2. CASE Valid(st, h)
  <2>1. PICK b \in Backends, i \in Nat : st.at[h] = [renderer |-> b, index |-> i]
    BY <1>2, PlaceOfHandle DEF Place
  <2>2. i \in Live(st.slots[b]) /\ st.slots[b][i].owner = h
    BY <1>2, <2>1, PlaceOfHandle
  <2> DEFINE e == EmptySlot(st, h, b, i)
  <2>3. StoreOK(e) /\ e.at = [st.at EXCEPT ![h] = Nobody]
    BY <2>2, EmptyingKeeps
  <2>4. \/ RemoveCurve(st, h) = MarkForRouting(e, b, i + 1)
        \/ RemoveCurve(st, h) = e
    BY <1>2, <2>1 DEF RemoveCurve
  <2> HIDE DEF e
  <2>5. /\ ~Valid(e, h)
        /\ \A g \in Handles \ {h} : e.at[g] = st.at[g]
    BY <2>3, StoreFields DEF Valid, StoreOK
  <2>6. LET m == MarkForRouting(e, b, i + 1)
        IN  StoreOK(m) /\ m.at = e.at
    <3>1. e \in Store /\ i + 1 \in Nat
      BY <2>3 DEF StoreOK
    <3>2. LET m == MarkForRouting(e, b, i + 1)
          IN  /\ m \in Store /\ m.slots = e.slots /\ m.at = e.at
              /\ m.removed = e.removed /\ m.needResize = e.needResize
      BY <3>1, MarkingKeeps
    <3> QED
      BY <2>3, <3>2, SameSlots
  <2> QED
    BY <2>3, <2>4, <2>5, <2>6 DEF Valid
<1> QED
  BY <1>1, <1>2

\* A move re-points the slot's owner and both handles.
LEMMA TakingOverKeeps ==
  ASSUME NEW st, StoreOK(st), NEW h \in Handles, NEW g \in Handles,
         h # g, ~Valid(st, h)
  PROVE  StoreOK(TakeOver(st, h, g))
<1>1. CASE ~Valid(st, g)
  BY <1>1 DEF TakeOver
<1>2. CASE Valid(st, g)
  <2>1. PICK b \in Backends, i \in Nat : st.at[g] = [renderer |-> b, index |-> i]
    BY <1>2, PlaceOfHandle DEF Place
  <2>2. /\ st \in Store
        /\ st.slots[b] \in Seq(Slot)
        /\ i \in 1 .. Len(st.slots[b])
        /\ i \in Live(st.slots[b])
        /\ st.slots[b][i] \in Slot
        /\ st.slots[b][i].owner = g
        /\ DOMAIN st.slots[b] = 1 .. Len(st.slots[b])
    BY <1>2, <2>1, PlaceOfHandle, LiveIndices DEF StoreOK
  <2> DEFINE t == TakeOver(st, h, g)
             slot == [st.slots[b][i] EXCEPT !.owner = h]
  <2>3. t = [st EXCEPT !.slots[b][i].owner = h,
                       !.at[h] = [renderer |-> b, index |-> i],
                       !.at[g] = Nobody]
    BY <1>2, <2>1 DEF TakeOver
  <2>4. /\ t.slots = [st.slots EXCEPT ![b] = [st.slots[b] EXCEPT ![i] = slot]]
        /\ t.at = [st.at EXCEPT ![h] = [renderer |-> b, index |-> i], ![g] = Nobody]
        /\ t.removed = st.removed
        /\ t.needResize = st.needResize
        /\ t = [st EXCEPT !.slots = t.slots, !.at = t.at]
    BY <2>2, <2>3 DEF Store
  <2>5. slot \in Slot /\ slot.owner = h
    BY <2>2 DEF Slot
  <2> HIDE DEF t, slot
  <2>6. t \in Store
    <3>1. [renderer |-> b, index |-> i] \in Place
      BY DEF Place
    <3>2. [st.slots[b] EXCEPT ![i] = slot] \in Seq(Slot)
      BY <2>2, <2>5
    <3>3. t.slots \in [Backends -> Seq(Slot)]
      BY <2>2, <2>4, <3>2, StoreFields
    <3>4. t.at \in [Handles -> Place \cup {Nobody}]
      <4> DEFINE w == [st.at EXCEPT ![h] = [renderer |-> b, index |-> i]]
      <4>1. w \in [Handles -> Place \cup {Nobody}]
        BY <2>2, <3>1, StoreFields
      <4>2. t.at = [w EXCEPT ![g] = Nobody]
        BY <2>4
      <4> HIDE DEF w
      <4> QED
        BY <4>1, <4>2
    <3> QED
      BY <2>2, <2>4, <3>3, <3>4 DEF Store
  <2>7. /\ DOMAIN t.slots[b] = DOMAIN st.slots[b]
        /\ t.slots[b][i] = slot
        /\ \A j \in DOMAIN st.slots[b] \ {i} : t.slots[b][j] = st.slots[b][j]
        /\ \A c \in Backends \ {b} : t.slots[c] = st.slots[c]
    BY <2>2, <2>4, StoreFields
  <2>8. /\ t.at[h] = [renderer |-> b, index |-> i]
        /\ t.at[g] = Nobody
        /\ \A x \in Handles \ {h, g} : t.at[x] = st.at[x]
    BY <2>2, <2>4, StoreFields
  <2>9. \A c \in Backends : /\ DOMAIN t.slots[c] = DOMAIN st.slots[c]
                            /\ Live(t.slots[c]) = Live(st.slots[c])
    BY <2>2, <2>5, <2>7, HandlesAssumption DEF Live
  <2>10. OwnsSlots(t)
    <3>1. ASSUME NEW x \in Handles, Valid(t, x)
          PROVE  /\ t.at[x].index \in DOMAIN t.slots[t.at[x].renderer]
                 /\ t.slots[t.at[x].renderer][t.at[x].index].owner = x
      <4>1. CASE x = h
        BY <2>2, <2>5, <2>7, <2>8, <4>1
      <4>2. CASE x # h
        <5>1. x # g /\ t.at[x] = st.at[x] /\ Valid(st, x)
          BY <2>8, <3>1, <4>2 DEF Valid
        <5>2. /\ st.at[x].renderer \in Backends
              /\ st.at[x].index \in DOMAIN st.slots[st.at[x].renderer]
              /\ st.slots[st.at[x].renderer][st.at[x].index].owner = x
          BY <5>1, PlaceOfHandle, LiveIndices
        <5>3. st.at[x].renderer = b => st.at[x].index # i
          BY <2>2, <5>1, <5>2
        <5> QED
          BY <2>7, <5>1, <5>2, <5>3
      <4> QED
        BY <4>1, <4>2
    <3>2. ASSUME NEW c \in Backends, NEW j \in Live(t.slots[c])
          PROVE  t.at[t.slots[c][j].owner] = [renderer |-> c, index |-> j]
      <4>1. CASE c = b /\ j = i
        BY <2>5, <2>7, <2>8, <4>1
      <4>2. CASE ~(c = b /\ j = i)
        <5>1. j \in Live(st.slots[c]) /\ t.slots[c][j] = st.slots[c][j]
          BY <2>7, <2>9, <4>2 DEF Live
        <5>2. /\ st.slots[c][j].owner \in Handles
              /\ st.at[st.slots[c][j].owner] = [renderer |-> c, index |-> j]
          BY <2>2, <5>1, StoreFields, LiveIndices DEF StoreOK, OwnsSlots
        <5>3. st.slots[c][j].owner # g
          BY <2>1, <4>2, <5>2
        <5>4. st.slots[c][j].owner # h
          <6>1. [renderer |-> c, index |-> j] \in Place
            BY <2>2, <5>1, StoreFields, LiveIndices DEF Place
          <6> QED
            BY <5>2, <6>1, NobodyAssumption DEF Valid
        <5> QED
          BY <2>8, <5>1, <5>2, <5>3, <5>4
      <4> QED
        BY <4>1, <4>2
    <3> QED
      BY <3>1, <3>2 DEF OwnsSlots
  <2>11. CountsRemoved(t)
    BY <2>4, <2>9 DEF StoreOK, CountsRemoved
  <2> QED
    BY <2>6, <2>10, <2>11 DEF StoreOK, t
<1> QED
  BY <1>1, <1>2

\* In m the live slot i of b is `slot`, of the same owner.
Rewritten(st, m, b, i, slot) ==
  /\ i \in Live(st.slots[b])
  /\ slot \in Slot /\ slot.owner = st.slots[b][i].owner
  /\ m.slots = [st.slots EXCEPT ![b] = [st.slots[b] EXCEPT ![i] = slot]]
  /\ m.at = st.at
  /\ m.removed = st.removed
  /\ \A c \in Backends : st.needResize[c] => m.needResize[c]

\* A setter rewrites one live slot and leaves its owner alone.
LEMMA RewritingKeeps ==
  ASSUME NEW st, StoreOK(st), NEW b \in Backends, NEW i, NEW slot,
         NEW m \in Store, Rewritten(st, m, b, i, slot)
  PROVE  StoreOK(m)
<1> USE DEF Rewritten
<1>1. /\ st.slots \in [Backends -> Seq(Slot)]
      /\ st.slots[b] \in Seq(Slot)
      /\ i \in DOMAIN st.slots[b]
  BY StoreFields, LiveIndices DEF StoreOK
<1>2. /\ DOMAIN m.slots[b] = DOMAIN st.slots[b]
      /\ m.slots[b][i] = slot
      /\ \A j \in DOMAIN st.slots[b] \ {i} : m.slots[b][j] = st.slots[b][j]
      /\ \A c \in Backends \ {b} : m.slots[c] = st.slots[c]
  BY <1>1
<1>3. \A c \in Backends : /\ DOMAIN m.slots[c] = DOMAIN st.slots[c]
                          /\ \A j \in DOMAIN st.slots[c] :
                               m.slots[c][j].owner = st.slots[c][j].owner
  BY <1>2
<1>4. \A c \in Backends : Live(m.slots[c]) = Live(st.slots[c])
  BY <1>3 DEF Live
<1>5. OwnsSlots(m)
  <2>1. ASSUME NEW x \in Handles, Valid(m, x)
        PROVE  /\ m.at[x].index \in DOMAIN m.slots[m.at[x].renderer]
               /\ m.slots[m.at[x].renderer][m.at[x].index].owner = x
    <3>1. /\ Valid(st, x)
          /\ st.at[x].renderer \in Backends
          /\ st.at[x].index \in DOMAIN st.slots[st.at[x].renderer]
          /\ st.slots[st.at[x].renderer][st.at[x].index].owner = x
      BY <2>1, PlaceOfHandle, LiveIndices DEF Valid
    <3> QED
      BY <1>3, <3>1
  <2>2. ASSUME NEW c \in Backends, NEW j \in Live(m.slots[c])
        PROVE  m.at[m.slots[c][j].owner] = [renderer |-> c, index |-> j]
    <3>1. j \in Live(st.slots[c]) /\ m.slots[c][j].owner = st.slots[c][j].owner
      BY <1>3, <1>4 DEF Live
    <3> QED
      BY <3>1 DEF StoreOK, OwnsSlots
  <2> QED
    BY <2>1, <2>2 DEF OwnsSlots
<1>6. CountsRemoved(m)
  BY <1>3, <1>4 DEF StoreOK, CountsRemoved
<1> QED
  BY <1>5, <1>6 DEF StoreOK

\* Add() appends one live slot and points the new handle at it.
LEMMA AddingKeeps ==
  ASSUME NEW st, StoreOK(st), NEW h \in Handles, ~Valid(st, h),
         NEW c \in Styles, NEW merge \in BOOLEAN
  PROVE  StoreOK(AddCurve(st, h, c, merge))
<1> DEFINE m == AddCurve(st, h, c, merge)
           joins == Continues(st, merge)
           slot == [owner |-> h, spaced |-> c.spaced, dashed |-> c.dashed,
                    merged |-> joins]
<1>1. st \in Store
  BY DEF StoreOK
<1>2. PICK b \in Backends : b = IF joins THEN st.lastAdded.backend ELSE KindOf(c)
  <2>1. joins => st.lastAdded \in LastAdd
    BY <1>1, StoreFields DEF Continues
  <2> QED
    BY <2>1, KindIsBackend DEF LastAdd
<1>3. slot \in Slot /\ slot.owner = h
  <2>1. c.spaced \in BOOLEAN /\ c.dashed \in BOOLEAN
    BY StylesAssumption
  <2>2. joins \in BOOLEAN
    BY DEF Continues
  <2> QED
    BY <2>1, <2>2 DEF Slot
<1> DEFINE n == Len(st.slots[b])
           place == [renderer |-> b, index |-> n + 1]
<1>4. st.slots[b] \in Seq(Slot) /\ n \in Nat /\ DOMAIN st.slots[b] = 1 .. n
  BY <1>1, StoreFields
<1>5. m = [st EXCEPT !.slots = [st.slots EXCEPT ![b] = Append(st.slots[b], slot)],
                     !.needResize = [st.needResize EXCEPT ![b] = TRUE],
                     !.at = [st.at EXCEPT ![h] = place],
                     !.lastAdded = [backend |-> b, slots |-> n + 1]]
  BY <1>1, <1>2 DEF AddCurve, Store
<1>6. place \in Place /\ [backend |-> b, slots |-> n + 1] \in LastAdd
  BY <1>4 DEF Place, LastAdd
<1> HIDE DEF m, slot, n, place, joins
<1>7. /\ m.slots = [st.slots EXCEPT ![b] = Append(st.slots[b], slot)]
      /\ m.needResize = [st.needResize EXCEPT ![b] = TRUE]
      /\ m.at = [st.at EXCEPT ![h] = place]
      /\ m.removed = st.removed
  BY <1>1, <1>5 DEF Store
<1>8. m \in Store
  <2>1. Append(st.slots[b], slot) \in Seq(Slot)
    BY <1>3, <1>4
  <2>2. m.slots \in [Backends -> Seq(Slot)]
    BY <1>1, <1>7, <2>1, StoreFields
  <2>3. m.at \in [Handles -> Place \cup {Nobody}]
    BY <1>1, <1>6, <1>7, StoreFields
  <2>4. m.needResize \in [Backends -> BOOLEAN]
    BY <1>1, <1>7, StoreFields
  <2> QED
    BY <1>1, <1>5, <1>6, <1>7, <2>2, <2>3, <2>4 DEF Store
<1>9. /\ DOMAIN m.slots[b] = 1 .. n + 1
      /\ m.slots[b][n + 1] = slot
      /\ \A j \in 1 .. n : m.slots[b][j] = st.slots[b][j]
      /\ \A d \in Backends \ {b} : m.slots[d] = st.slots[d]
  BY <1>1, <1>3, <1>4, <1>7, StoreFields DEF n
<1>10. /\ m.at[h] = place
       /\ \A g \in Handles \ {h} : m.at[g] = st.at[g]
  BY <1>1, <1>7, StoreFields
<1>11. place.renderer = b /\ place.index = n + 1 /\ n + 1 \in 1 .. n + 1
  BY <1>4 DEF place
<1>12. Live(m.slots[b]) = Live(st.slots[b]) \cup {n + 1}
  BY <1>3, <1>4, <1>9, HandlesAssumption DEF Live
<1>13. OwnsSlots(m)
  <2>1. ASSUME NEW x \in Handles, Valid(m, x)
        PROVE  /\ m.at[x].index \in DOMAIN m.slots[m.at[x].renderer]
               /\ m.slots[m.at[x].renderer][m.at[x].index].owner = x
    <3>1. CASE x = h
      BY <1>3, <1>9, <1>10, <1>11, <3>1
    <3>2. CASE x # h
      <4>1. m.at[x] = st.at[x] /\ Valid(st, x)
        BY <1>10, <2>1, <3>2 DEF Valid
      <4>2. /\ st.at[x].renderer \in Backends
            /\ st.at[x].index \in 1 .. Len(st.slots[st.at[x].renderer])
            /\ st.slots[st.at[x].renderer][st.at[x].index].owner = x
            /\ DOMAIN st.slots[st.at[x].renderer] = 1 .. Len(st.slots[st.at[x].renderer])
        BY <4>1, PlaceOfHandle, LiveIndices
      <4>3. CASE st.at[x].renderer = b
        BY <1>4, <1>9, <4>1, <4>2, <4>3 DEF n
      <4>4. CASE st.at[x].renderer # b
        BY <1>9, <4>1, <4>2, <4>4
      <4> QED
        BY <4>3, <4>4
    <3> QED
      BY <3>1, <3>2
  <2>2. ASSUME NEW d \in Backends, NEW j \in Live(m.slots[d])
        PROVE  m.at[m.slots[d][j].owner] = [renderer |-> d, index |-> j]
    <3>1. CASE d = b /\ j = n + 1
      BY <1>3, <1>9, <1>10, <3>1 DEF place
    <3>2. CASE ~(d = b /\ j = n + 1)
      <4>1. j \in Live(st.slots[d]) /\ m.slots[d][j] = st.slots[d][j]
        BY <1>4, <1>9, <1>12, <3>2 DEF Live
      <4>2. /\ st.at[st.slots[d][j].owner] = [renderer |-> d, index |-> j]
            /\ st.slots[d][j].owner \in Handles
            /\ [renderer |-> d, index |-> j] \in Place
        BY <1>1, <4>1, StoreFields, LiveIndices DEF StoreOK, OwnsSlots, Place
      <4>3. st.slots[d][j].owner # h
        BY <4>2, NobodyAssumption DEF Valid
      <4> QED
        BY <1>10, <4>1, <4>2, <4>3
    <3> QED
      BY <3>1, <3>2
  <2> QED
    BY <2>1, <2>2 DEF OwnsSlots
<1>14. CountsRemoved(m)
  <2>1. DOMAIN m.slots[b] \ Live(m.slots[b]) = DOMAIN st.slots[b] \ Live(st.slots[b])
    BY <1>4, <1>9, <1>12
  <2>2. \A d \in Backends : st.needResize[d] => m.needResize[d]
    BY <1>1, <1>7, StoreFields
  <2>3. \A d \in Backends : DOMAIN m.slots[d] \ Live(m.slots[d])
                              = DOMAIN st.slots[d] \ Live(st.slots[d])
    BY <1>9, <2>1
  <2> QED
    BY <1>7, <2>2, <2>3 DEF StoreOK, CountsRemoved
<1> QED
  BY <1>8, <1>13, <1>14 DEF StoreOK, m

\* A draw compacts the backends that have curves and re-numbers their handles.
LEMMA UpdatingKeeps ==
  ASSUME NEW st, StoreOK(st)
  PROVE  StoreOK(UpdateBuffers(st))
<1> DEFINE m == UpdateBuffers(st)
           drawn(b) == Count(st, b) > 0
           compacts(b) == drawn(b) /\ st.needResize[b] /\ st.removed[b] > 0
<1>1. st \in Store
  BY DEF StoreOK
<1>2. \A b \in Backends : st.slots[b] \in Seq(Slot)
  BY <1>1, StoreFields
<1>3. m = [st EXCEPT !.slots = m.slots, !.at = m.at, !.removed = m.removed,
                     !.needResize = m.needResize, !.marks = m.marks,
                     !.routeAll = m.routeAll]
  BY <1>1 DEF UpdateBuffers, Store
<1>4. m.slots = [b \in Backends |->
                   IF compacts(b) THEN CompactRemoved(st.slots[b]) ELSE st.slots[b]]
  BY <1>1 DEF UpdateBuffers, Store
<1>5. m.at = [h \in Handles |->
                IF Valid(st, h) /\ compacts(st.at[h].renderer)
                  THEN [renderer |-> st.at[h].renderer,
                        index |-> Rank(Live(st.slots[st.at[h].renderer]),
                                       st.at[h].index)]
                  ELSE st.at[h]]
  BY <1>1 DEF UpdateBuffers, Store
<1>6. m.removed = [b \in Backends |-> IF compacts(b) THEN 0 ELSE st.removed[b]]
  BY <1>1 DEF UpdateBuffers, Store
<1>7. m.needResize = [b \in Backends |-> st.needResize[b] /\ ~drawn(b)]
  BY <1>1 DEF UpdateBuffers, Store
<1>8. m.marks = [b \in Backends |-> IF drawn(b) THEN <<>> ELSE st.marks[b]]
  BY <1>1 DEF UpdateBuffers, Store
<1>9. m.routeAll = [b \in Backends |-> st.routeAll[b] /\ ~drawn(b)]
  BY <1>1 DEF UpdateBuffers, Store
<1>10. \A b \in Backends :
         ~compacts(b) /\ st.removed[b] > 0 /\ st.needResize[b] => m.needResize[b]
  BY <1>7
<1> HIDE DEF m, compacts, drawn
<1>11. ASSUME NEW h \in Handles, Valid(st, h), compacts(st.at[h].renderer)
       PROVE  /\ m.at[h].renderer = st.at[h].renderer
              /\ m.at[h].index = Rank(Live(st.slots[st.at[h].renderer]), st.at[h].index)
              /\ m.at[h] = [renderer |-> m.at[h].renderer, index |-> m.at[h].index]
  BY <1>5, <1>11
<1>12. ASSUME NEW h \in Handles, ~(Valid(st, h) /\ compacts(st.at[h].renderer))
       PROVE  m.at[h] = st.at[h]
  BY <1>5, <1>12
<1>13. m \in Store
  <2>1. m.slots \in [Backends -> Seq(Slot)]
    BY <1>2, <1>4, CompactionFacts
  <2>2. m.at \in [Handles -> Place \cup {Nobody}]
    <3>1. ASSUME NEW h \in Handles, Valid(st, h), compacts(st.at[h].renderer)
          PROVE  m.at[h] \in Place
      <4> DEFINE b == st.at[h].renderer
                 r == Rank(Live(st.slots[b]), st.at[h].index)
      <4>1. b \in Backends /\ st.at[h].index \in Live(st.slots[b])
        BY <3>1, PlaceOfHandle
      <4>2. /\ Cardinality(Live(st.slots[b])) \in Nat
            /\ r \in 1 .. Cardinality(Live(st.slots[b]))
        BY <1>2, <4>1, CompactionFacts
      <4>3. m.at[h] = [renderer |-> b, index |-> r]
        BY <1>11, <3>1
      <4> HIDE DEF b, r
      <4> QED
        BY <4>1, <4>2, <4>3 DEF Place
    <3>2. \A h \in Handles : m.at[h] \in Place \cup {Nobody}
      BY <1>1, <1>12, <3>1, StoreFields
    <3>3. m.at = [h \in Handles |-> m.at[h]]
      BY <1>5
    <3> QED
      BY <3>2, <3>3
  <2>3. m.removed \in [Backends -> Nat]
    BY <1>1, <1>6, StoreFields
  <2>4. m.needResize \in [Backends -> BOOLEAN]
    BY <1>1, <1>7, StoreFields
  <2>5. m.marks \in [Backends -> Seq(Nat)]
    BY <1>1, <1>8, StoreFields
  <2>6. m.routeAll \in [Backends -> BOOLEAN]
    BY <1>1, <1>9, StoreFields
  <2> QED
    BY <1>1, <1>3, <2>1, <2>2, <2>3, <2>4, <2>5, <2>6 DEF Store
<1>14. OwnsSlots(m)
  <2>1. ASSUME NEW h \in Handles, Valid(m, h)
        PROVE  /\ m.at[h].index \in DOMAIN m.slots[m.at[h].renderer]
               /\ m.slots[m.at[h].renderer][m.at[h].index].owner = h
    <3>1. Valid(st, h)
      BY <1>12, <2>1 DEF Valid
    <3> DEFINE b == st.at[h].renderer
               i == st.at[h].index
               s == st.slots[b]
               r == Rank(Live(s), i)
    <3>2. /\ b \in Backends /\ s \in Seq(Slot) /\ i \in Live(s)
          /\ i \in DOMAIN s /\ s[i].owner = h
      BY <3>1, PlaceOfHandle, LiveIndices
    <3>3. CASE compacts(b)
      <4>1. m.at[h].renderer = b /\ m.at[h].index = r
        BY <1>11, <3>1, <3>3
      <4>2. m.slots[b] = CompactRemoved(s)
        BY <1>4, <3>2, <3>3
      <4>3. LET c == CompactRemoved(s)
                n == Cardinality(Live(s))
            IN  /\ n \in Nat /\ c \in Seq(Slot) /\ Len(c) = n
                /\ r \in 1 .. n
                /\ c[r].owner = h
        BY <3>2, CompactionFacts
      <4>4. DOMAIN CompactRemoved(s) = 1 .. Cardinality(Live(s))
        BY <4>3
      <4> HIDE DEF b, i, s, r
      <4> QED
        BY <4>1, <4>2, <4>3, <4>4
    <3>4. CASE ~compacts(b)
      <4>1. m.at[h] = st.at[h]
        BY <1>12, <3>4
      <4>2. m.slots[b] = s
        BY <1>4, <3>2, <3>4
      <4> QED
        BY <3>2, <4>1, <4>2
    <3> QED
      BY <3>3, <3>4
  <2>2. ASSUME NEW b \in Backends, NEW j \in Live(m.slots[b])
        PROVE  m.at[m.slots[b][j].owner] = [renderer |-> b, index |-> j]
    <3> DEFINE s == st.slots[b]
    <3>1. s \in Seq(Slot)
      BY <1>2
    <3>2. CASE compacts(b)
      <4>1. m.slots[b] = CompactRemoved(s)
        BY <1>4, <3>2
      <4>2. j \in 1 .. Cardinality(Live(s))
        BY <3>1, <4>1, CompactionFacts
      <4>0. \A k \in 1 .. Cardinality(Live(s)) : \E i \in Live(s) :
              k = Rank(Live(s), i) /\ CompactRemoved(s)[k].owner = s[i].owner
        BY <3>1, CompactionFacts
      <4>3. PICK i \in Live(s) : /\ j = Rank(Live(s), i)
                                 /\ m.slots[b][j].owner = s[i].owner
        BY <4>0, <4>1, <4>2
      <4> DEFINE h == s[i].owner
      <4>4. h \in Handles
        BY <3>1, LiveIndices
      <4>5. st.at[h] = [renderer |-> b, index |-> i]
        BY DEF StoreOK, OwnsSlots
      <4>6. [renderer |-> b, index |-> i] \in Place
        BY <3>1, LiveIndices DEF Place
      <4>7. Valid(st, h)
        BY <4>5, <4>6, NobodyAssumption DEF Valid
      <4>8. st.at[h].renderer = b /\ st.at[h].index = i
        BY <4>5
      <4> HIDE DEF h
      <4>9. m.at[h] = [renderer |-> b, index |-> Rank(Live(s), i)]
        BY <1>11, <3>2, <4>4, <4>7, <4>8
      <4> QED
        BY <4>3, <4>9 DEF h
    <3>3. CASE ~compacts(b)
      <4>1. m.slots[b] = s /\ j \in Live(s)
        BY <1>4, <3>3
      <4> DEFINE h == s[j].owner
      <4>2. h \in Handles
        BY <3>1, <4>1, LiveIndices
      <4>3. st.at[h] = [renderer |-> b, index |-> j]
        BY <4>1 DEF StoreOK, OwnsSlots
      <4>4. st.at[h].renderer = b
        BY <4>3
      <4> HIDE DEF h
      <4>5. m.at[h] = st.at[h]
        BY <1>12, <3>3, <4>2, <4>4
      <4> QED
        BY <4>1, <4>3, <4>5 DEF h
    <3> QED
      BY <3>2, <3>3
  <2> QED
    BY <2>1, <2>2 DEF OwnsSlots
<1>15. CountsRemoved(m)
  <2> SUFFICES ASSUME NEW b \in Backends
               PROVE  /\ m.removed[b] = Cardinality(DOMAIN m.slots[b] \ Live(m.slots[b]))
                      /\ m.removed[b] > 0 => m.needResize[b]
    BY DEF CountsRemoved
  <2>1. CASE compacts(b)
    <3>1. m.slots[b] = CompactRemoved(st.slots[b]) /\ m.removed[b] = 0
      BY <1>4, <1>6, <2>1
    <3>2. DOMAIN m.slots[b] \ Live(m.slots[b]) = {}
      BY <1>2, <3>1, CompactionFacts
    <3> QED
      BY <3>1, <3>2, FS_EmptySet
  <2>2. CASE ~compacts(b)
    <3>1. m.slots[b] = st.slots[b] /\ m.removed[b] = st.removed[b]
      BY <1>4, <1>6, <2>2
    <3>2. /\ st.removed[b] = Cardinality(DOMAIN st.slots[b] \ Live(st.slots[b]))
          /\ st.removed[b] > 0 => st.needResize[b]
      BY DEF StoreOK, CountsRemoved
    <3>3. m.removed[b] > 0 => m.needResize[b]
      BY <1>10, <2>2, <3>1, <3>2
    <3> QED
      BY <3>1, <3>2, <3>3
  <2> QED
    BY <2>1, <2>2
<1> QED
  BY <1>13, <1>14, <1>15 DEF StoreOK, m


-------------------------------------------------------------------------------
(***************************************************************************)
(* Routing moves the slots `gone` of backend `home`, slot i to backend       *)
(* dest[i], whose tail then lists the ones it was given in ascending order.   *)
(***************************************************************************)

\* In m the slots `gone` are gaps, and copies of them are at the tails.
SlotsMoved(st, m, home, gone, arrivals) ==
  /\ gone \in SUBSET Live(st.slots[home])
  /\ arrivals \in [Backends -> Seq(Slot)]
  /\ \A b \in Backends : Live(arrivals[b]) = DOMAIN arrivals[b]
  /\ \A b \in Backends \ {home} : m.slots[b] = st.slots[b] \o arrivals[b]
  /\ DOMAIN m.slots[home] = DOMAIN st.slots[home]
  /\ \A i \in DOMAIN st.slots[home] :
       m.slots[home][i] = IF i \in gone THEN Emptied ELSE st.slots[home][i]

\* sent[b], the slots whose dest is b, are in their order in arrivals[b].
Shared(st, home, gone, dest, sent, arrivals) ==
  /\ dest \in [gone -> Backends \ {home}]
  /\ sent \in [Backends -> SUBSET gone]
  /\ \A b \in Backends : \A i \in gone : i \in sent[b] <=> dest[i] = b
  /\ \A b \in Backends :
       /\ Len(arrivals[b]) = Cardinality(sent[b])
       /\ \A i \in sent[b] :
            arrivals[b][Rank(sent[b], i)].owner = st.slots[home][i].owner

\* The handles of the slots `gone` follow them.
PlacesMoved(st, m, home, gone, dest, sent) ==
  \A h \in Handles :
    m.at[h] = IF Valid(st, h) /\ st.at[h].renderer = home /\ st.at[h].index \in gone
                THEN [renderer |-> dest[st.at[h].index],
                      index |-> Len(st.slots[dest[st.at[h].index]])
                                  + Rank(sent[dest[st.at[h].index]], st.at[h].index)]
                ELSE st.at[h]

CountersMoved(st, m, home, gone) ==
  /\ m.removed[home] = st.removed[home] + Cardinality(gone)
  /\ m.needResize[home]
  /\ \A b \in Backends \ {home} : /\ m.removed[b] = st.removed[b]
                                  /\ st.needResize[b] => m.needResize[b]

\* Where the code leaves the handles is where the slots went.
LEMMA MovingOwns ==
  ASSUME NEW st, StoreOK(st), NEW home \in Backends, NEW m \in Store,
         NEW gone, NEW dest, NEW sent, NEW arrivals,
         SlotsMoved(st, m, home, gone, arrivals),
         Shared(st, home, gone, dest, sent, arrivals),
         PlacesMoved(st, m, home, gone, dest, sent)
  PROVE  OwnsSlots(m)
<1> USE DEF SlotsMoved, Shared, PlacesMoved
<1> DEFINE s == st.slots[home]
           len(b) == Len(st.slots[b])
<1>1. /\ st \in Store
      /\ \A b \in Backends : /\ st.slots[b] \in Seq(Slot)
                             /\ len(b) \in Nat
                             /\ DOMAIN st.slots[b] = 1 .. len(b)
  BY StoreFields DEF StoreOK
<1>2. ASSUME NEW b \in Backends
      PROVE  /\ sent[b] \in SUBSET (1 .. len(home))
             /\ Cardinality(sent[b]) \in Nat
             /\ \A i \in sent[b] : Rank(sent[b], i) \in 1 .. Cardinality(sent[b])
             /\ \A k \in 1 .. Cardinality(sent[b]) :
                  \E i \in sent[b] : Rank(sent[b], i) = k
  <2>1. sent[b] \in SUBSET (1 .. len(home)) /\ len(home) \in Nat
    BY <1>1, LiveIndices
  <2> HIDE DEF len, SlotsMoved, Shared, PlacesMoved
  <2> QED
    BY <2>1, RankBijection
<1>3. ASSUME NEW b \in Backends \ {home}
      PROVE  /\ DOMAIN m.slots[b] = 1 .. len(b) + Cardinality(sent[b])
             /\ \A j \in 1 .. len(b) : m.slots[b][j] = st.slots[b][j]
             /\ \A k \in 1 .. Cardinality(sent[b]) :
                  m.slots[b][len(b) + k] = arrivals[b][k]
  <2>1. /\ st.slots[b] \in Seq(Slot) /\ arrivals[b] \in Seq(Slot)
        /\ len(b) \in Nat /\ Cardinality(sent[b]) \in Nat
        /\ Len(arrivals[b]) = Cardinality(sent[b])
        /\ m.slots[b] = st.slots[b] \o arrivals[b]
    BY <1>1, <1>2
  <2> QED
    BY <2>1
<1>4. \A h \in Handles : Valid(st, h) =>
        /\ st.at[h].renderer \in Backends
        /\ st.at[h].index \in DOMAIN st.slots[st.at[h].renderer]
        /\ st.at[h].index \in Live(st.slots[st.at[h].renderer])
        /\ st.slots[st.at[h].renderer][st.at[h].index].owner = h
  BY PlaceOfHandle, LiveIndices
<1>5. ASSUME NEW h \in Handles, Valid(st, h), st.at[h].renderer = home,
             st.at[h].index \in gone
      PROVE  LET i == st.at[h].index
                 b == dest[i]
             IN  /\ b \in Backends \ {home} /\ i \in sent[b]
                 /\ m.at[h] = [renderer |-> b, index |-> len(b) + Rank(sent[b], i)]
  <2>1. dest[st.at[h].index] \in Backends \ {home}
    BY <1>5
  <2> QED
    BY <1>5, <2>1
<1>6. ASSUME NEW h \in Handles,
             ~(/\ Valid(st, h) /\ st.at[h].renderer = home /\ st.at[h].index \in gone)
      PROVE  m.at[h] = st.at[h]
  BY <1>6
<1> HIDE DEF len
<1>7. ASSUME NEW h \in Handles, Valid(m, h)
      PROVE  /\ m.at[h].index \in DOMAIN m.slots[m.at[h].renderer]
             /\ m.slots[m.at[h].renderer][m.at[h].index].owner = h
  <2>1. Valid(st, h)
    BY <1>6, <1>7 DEF Valid
  <2>2. CASE st.at[h].renderer = home /\ st.at[h].index \in gone
    <3> DEFINE i == st.at[h].index
               b == dest[i]
               r == Rank(sent[b], i)
    <3>1. /\ b \in Backends \ {home} /\ i \in sent[b]
          /\ m.at[h] = [renderer |-> b, index |-> len(b) + r]
      BY <1>5, <2>1, <2>2
    <3>2. r \in 1 .. Cardinality(sent[b]) /\ Cardinality(sent[b]) \in Nat
      BY <1>2, <3>1
    <3>3. arrivals[b][r].owner = h
      <4>1. s[i].owner = h
        BY <1>4, <2>1, <2>2
      <4> QED
        BY <3>1, <4>1
    <3>4. m.at[h].renderer = b /\ m.at[h].index = len(b) + r
      BY <3>1
    <3>5. len(b) \in Nat
      BY <1>1, <3>1
    <3>6. m.slots[b][len(b) + r] = arrivals[b][r]
      <4>1. \A k \in 1 .. Cardinality(sent[b]) : m.slots[b][len(b) + k] = arrivals[b][k]
        BY <1>3, <3>1
      <4> HIDE DEF i, b, r
      <4> QED
        BY <3>2, <4>1
    <3>7. DOMAIN m.slots[b] = 1 .. len(b) + Cardinality(sent[b])
      BY <1>3, <3>1
    <3> HIDE DEF i, b, r
    <3>8. len(b) + r \in 1 .. len(b) + Cardinality(sent[b])
      BY <3>2, <3>5
    <3> QED
      BY <3>3, <3>4, <3>6, <3>7, <3>8
  <2>3. CASE ~(st.at[h].renderer = home /\ st.at[h].index \in gone)
    <3>1. m.at[h] = st.at[h]
      BY <1>6, <2>3
    <3> DEFINE i == st.at[h].index
               b == st.at[h].renderer
    <3>2. b \in Backends /\ i \in 1 .. len(b) /\ st.slots[b][i].owner = h
      BY <1>1, <1>4, <2>1
    <3>3. CASE b = home
      <4>1. i \notin gone /\ i \in DOMAIN st.slots[home]
        BY <1>4, <2>1, <2>3, <3>3
      <4>2. m.slots[home][i] = st.slots[home][i]
        BY <4>1
      <4> QED
        BY <3>1, <3>2, <3>3, <4>1, <4>2
    <3>4. CASE b # home
      <4> HIDE DEF i, b
      <4>1. /\ DOMAIN m.slots[b] = 1 .. len(b) + Cardinality(sent[b])
            /\ m.slots[b][i] = st.slots[b][i]
            /\ len(b) \in Nat /\ Cardinality(sent[b]) \in Nat
        BY <1>1, <1>2, <1>3, <3>2, <3>4
      <4>2. i \in 1 .. len(b) + Cardinality(sent[b])
        BY <3>2, <4>1
      <4> QED
        BY <3>1, <3>2, <4>1, <4>2 DEF i, b
    <3> QED
      BY <3>3, <3>4
  <2> QED
    BY <2>2, <2>3
<1>8. ASSUME NEW b \in Backends, NEW j \in Live(m.slots[b])
      PROVE  m.at[m.slots[b][j].owner] = [renderer |-> b, index |-> j]
  <2>1. CASE b = home
    <3>1. j \in DOMAIN s /\ j \notin gone /\ m.slots[home][j] = s[j] /\ j \in Live(s)
      BY <2>1, EmptiedIsSlot DEF Live
    <3>2. /\ s[j].owner \in Handles
          /\ st.at[s[j].owner] = [renderer |-> home, index |-> j]
      BY <1>1, <3>1, LiveIndices DEF StoreOK, OwnsSlots
    <3>3. st.at[s[j].owner].index \notin gone
      BY <3>1, <3>2
    <3>4. m.at[s[j].owner] = st.at[s[j].owner]
      BY <1>6, <3>2, <3>3
    <3> QED
      BY <2>1, <3>1, <3>2, <3>4
  <2>2. CASE b # home /\ j \in 1 .. len(b)
    <3>1. m.slots[b][j] = st.slots[b][j] /\ j \in Live(st.slots[b])
      BY <1>1, <1>3, <2>2 DEF Live
    <3>2. /\ st.slots[b][j].owner \in Handles
          /\ st.at[st.slots[b][j].owner] = [renderer |-> b, index |-> j]
      BY <1>1, <3>1, LiveIndices DEF StoreOK, OwnsSlots
    <3>3. st.at[st.slots[b][j].owner].renderer # home
      BY <2>2, <3>2
    <3>4. m.at[st.slots[b][j].owner] = st.at[st.slots[b][j].owner]
      BY <1>6, <3>2, <3>3
    <3> QED
      BY <3>1, <3>2, <3>4
  <2>3. CASE b # home /\ j \notin 1 .. len(b)
    <3>1. j \in 1 .. len(b) + Cardinality(sent[b])
      BY <1>3, <2>3 DEF Live
    <3>2. len(b) \in Nat /\ Cardinality(sent[b]) \in Nat
      BY <1>1, <1>2
    <3>3. PICK k \in 1 .. Cardinality(sent[b]) : j = len(b) + k
      <4>1. j - len(b) \in 1 .. Cardinality(sent[b]) /\ j = len(b) + (j - len(b))
        BY <2>3, <3>1, <3>2
      <4> QED
        BY <4>1
    <3>4. PICK i \in sent[b] : Rank(sent[b], i) = k
      BY <1>2
    <3> DEFINE h == s[i].owner
    <3>5. m.slots[b][j].owner = h
      <4>1. m.slots[b][len(b) + k] = arrivals[b][k]
        BY <1>3, <2>3
      <4>2. arrivals[b][k].owner = s[i].owner
        BY <3>4
      <4> QED
        BY <3>3, <4>1, <4>2
    <3>6. i \in gone /\ dest[i] = b /\ i \in Live(s)
      OBVIOUS
    <3>7. h \in Handles /\ st.at[h] = [renderer |-> home, index |-> i]
      BY <1>1, <3>6, LiveIndices DEF StoreOK, OwnsSlots
    <3>8. Valid(st, h)
      <4>1. [renderer |-> home, index |-> i] \in Place
        BY <1>1, <3>6, LiveIndices DEF Place
      <4> QED
        BY <3>7, <4>1, NobodyAssumption DEF Valid
    <3>9. st.at[h].renderer = home /\ st.at[h].index = i
      BY <3>7
    <3> HIDE DEF h
    <3>10. m.at[h] = [renderer |-> dest[i], index |-> len(dest[i]) + Rank(sent[dest[i]], i)]
      BY <1>5, <3>6, <3>7, <3>8, <3>9
    <3> QED
      BY <3>3, <3>4, <3>5, <3>6, <3>10
  <2> QED
    BY <2>1, <2>2, <2>3
<1> QED
  BY <1>7, <1>8 DEF OwnsSlots


\* The moved slots are the ones counted as removed where they came from, and
\* nothing that arrives is a gap.
LEMMA MovingCounts ==
  ASSUME NEW st, StoreOK(st), NEW home \in Backends, NEW m \in Store,
         NEW gone, NEW arrivals,
         SlotsMoved(st, m, home, gone, arrivals),
         CountersMoved(st, m, home, gone)
  PROVE  CountsRemoved(m)
<1> USE DEF SlotsMoved, CountersMoved
<1> DEFINE s == st.slots[home]
           gaps == DOMAIN s \ Live(s)
<1>1. \A b \in Backends : st.removed[b] = Cardinality(DOMAIN st.slots[b] \ Live(st.slots[b]))
                          /\ (st.removed[b] > 0 => st.needResize[b])
  BY DEF StoreOK, CountsRemoved
<1>2. /\ st \in Store
      /\ \A b \in Backends : /\ st.slots[b] \in Seq(Slot)
                             /\ Len(st.slots[b]) \in Nat
                             /\ DOMAIN st.slots[b] = 1 .. Len(st.slots[b])
  BY StoreFields DEF StoreOK
<1>3. m.removed[home] = Cardinality(DOMAIN m.slots[home] \ Live(m.slots[home]))
  <2>1. DOMAIN m.slots[home] \ Live(m.slots[home]) = gaps \cup gone
    BY EmptiedIsSlot DEF Live
  <2>2. gaps \in SUBSET (1 .. Len(s)) /\ gone \in SUBSET (1 .. Len(s)) /\ Len(s) \in Nat
    BY <1>2, LiveIndices
  <2>4. gaps \cap gone = {}
    OBVIOUS
  <2> HIDE DEF gaps, s
  <2>3. /\ IsFiniteSet(gaps) /\ Cardinality(gaps) \in Nat
        /\ IsFiniteSet(gone) /\ Cardinality(gone) \in Nat
    <3>1. IsFiniteSet(gaps) /\ Cardinality(gaps) \in Nat
      BY <2>2, RankBijection
    <3>2. IsFiniteSet(gone) /\ Cardinality(gone) \in Nat
      BY <2>2, RankBijection
    <3> QED
      BY <3>1, <3>2
  <2>5. Cardinality(gaps \cap gone) = 0
    BY <2>4, FS_EmptySet
  <2>6. Cardinality(gaps \cup gone)
          = Cardinality(gaps) + Cardinality(gone) - Cardinality(gaps \cap gone)
    BY <2>3, FS_Union
  <2>7. m.removed[home] = Cardinality(gaps) + Cardinality(gone)
    BY <1>1 DEF gaps, s
  <2>8. Cardinality(gaps \cup gone) = Cardinality(gaps) + Cardinality(gone)
    BY <2>3, <2>5, <2>6
  <2> QED
    BY <2>1, <2>7, <2>8
<1>4. ASSUME NEW b \in Backends \ {home}
      PROVE  DOMAIN m.slots[b] \ Live(m.slots[b]) = DOMAIN st.slots[b] \ Live(st.slots[b])
  <2> DEFINE t == st.slots[b]
             a == arrivals[b]
  <2>1. t \in Seq(Slot) /\ a \in Seq(Slot) /\ m.slots[b] = t \o a
    BY <1>2
  <2>2. /\ \A k \in 1 .. Len(a) : a[k].owner # Nobody
        /\ Len(a) \in Nat /\ Len(t) \in Nat
    BY <2>1 DEF Live
  <2> HIDE DEF t, a
  <2>3. /\ DOMAIN (t \o a) = 1 .. Len(t) + Len(a)
        /\ \A j \in 1 .. Len(t) : (t \o a)[j] = t[j]
        /\ \A j \in 1 .. Len(t) + Len(a) :
             j \notin 1 .. Len(t) => (t \o a)[j] = a[j - Len(t)] /\ j - Len(t) \in 1 .. Len(a)
    BY <2>1, <2>2
  <2>4. DOMAIN t = 1 .. Len(t)
    BY <2>1
  <2>5. 1 .. Len(t) \subseteq 1 .. Len(t) + Len(a)
    BY <2>2
  <2>6. DOMAIN (t \o a) \ Live(t \o a) = DOMAIN t \ Live(t)
    <3>1. ASSUME NEW j \in 1 .. Len(t) + Len(a), j \notin 1 .. Len(t)
          PROVE  (t \o a)[j].owner # Nobody
      BY <2>2, <2>3, <3>1
    <3> QED
      BY <2>3, <2>4, <2>5, <3>1 DEF Live
  <2> QED
    BY <2>1, <2>6 DEF t
<1> QED
  BY <1>1, <1>3, <1>4 DEF CountsRemoved


\* Routing one backend: the sets Leaving() share out the slots that go, and
\* Arrivals() lists each of them.
LEMMA LeavingFacts ==
  ASSUME NEW st \in Store, NEW home \in Backends
  PROVE  /\ Gone(st, home) \in SUBSET Live(st.slots[home])
         /\ [i \in Gone(st, home) |-> Home(st.slots[home], i)]
              \in [Gone(st, home) -> Backends \ {home}]
         /\ [b \in Backends |-> Leaving(st, home, b)]
              \in [Backends -> SUBSET Gone(st, home)]
         /\ Cardinality(Gone(st, home)) \in Nat
<1>1. Gone(st, home) \in SUBSET Live(st.slots[home])
  BY DEF Gone, Visited
<1>2. \A i \in Gone(st, home) : Home(st.slots[home], i) \in Backends \ {home}
  BY KindIsBackend DEF Gone, Home
<1>3. \A b \in Backends : Leaving(st, home, b) \in SUBSET Gone(st, home)
  BY DEF Leaving
<1>4. Cardinality(Gone(st, home)) \in Nat
  <2>1. /\ Gone(st, home) \in SUBSET (1 .. Len(st.slots[home]))
        /\ Len(st.slots[home]) \in Nat
    BY <1>1, StoreFields, LiveIndices
  <2> QED
    BY <2>1, RankBijection
<1> QED
  BY <1>1, <1>2, <1>3, <1>4

LEMMA ArrivalsFacts ==
  ASSUME NEW st \in Store, NEW home \in Backends, NEW b \in Backends
  PROVE  LET a == Arrivals(st, home, b)
             L == Leaving(st, home, b)
         IN  /\ a \in Seq(Slot)
             /\ Len(a) = Cardinality(L)
             /\ Live(a) = DOMAIN a
             /\ \A i \in L : a[Rank(L, i)].owner = st.slots[home][i].owner
             /\ \A i \in L : Rank(L, i) \in Nat
<1> DEFINE s == st.slots[home]
           L == Leaving(st, home, b)
           a == Arrivals(st, home, b)
           moved == Ascending(L)
           n == Cardinality(L)
<1>1. /\ L \in SUBSET (1 .. Len(s)) /\ Len(s) \in Nat
      /\ L \in SUBSET Live(s)
      /\ s \in Seq(Slot)
  BY StoreFields, LeavingFacts, LiveIndices DEF Leaving
<1>2. /\ n \in Nat
      /\ moved \in [1 .. n -> L]
      /\ \A i \in L : Rank(L, i) \in 1 .. n /\ moved[Rank(L, i)] = i
  BY <1>1, AscendingLists
<1>3. a = [k \in 1 .. n |->
             [s[moved[k]] EXCEPT !.merged = @ /\ moved[k] # ChainFirst(s, moved[k])]]
  BY <1>2 DEF Arrivals
<1>4. ASSUME NEW k \in 1 .. n
      PROVE  /\ a[k] \in Slot
             /\ a[k].owner = s[moved[k]].owner
             /\ a[k].owner # Nobody
  <2>1. moved[k] \in Live(s)
    BY <1>1, <1>2
  <2>2. s[moved[k]] \in Slot
    BY <1>1, <2>1, LiveIndices
  <2> QED
    BY <1>3, <2>1, <2>2 DEF Slot, Live
<1>5. DOMAIN a = 1 .. n /\ a = [k \in 1 .. n |-> a[k]]
  BY <1>3
<1> HIDE DEF a, n, moved, L
<1>6. a \in Seq(Slot) /\ Len(a) = n
  <2>1. a \in [1 .. n -> Slot]
    BY <1>4, <1>5
  <2> QED
    BY <1>2, <2>1, SeqDef
<1>7. Live(a) = DOMAIN a
  BY <1>4, <1>5 DEF Live
<1>8. \A i \in L : a[Rank(L, i)].owner = s[i].owner /\ Rank(L, i) \in Nat
  BY <1>2, <1>4
<1> QED
  BY <1>6, <1>7, <1>8 DEF a, n, L

LEMMA RoutingHomeKeeps ==
  ASSUME NEW st, StoreOK(st), NEW home \in Backends
  PROVE  StoreOK(RouteHome(st, home))
<1> DEFINE s == st.slots[home]
           gone == Gone(st, home)
           dest == [i \in gone |-> Home(s, i)]
           leaving == [b \in Backends |-> Leaving(st, home, b)]
           arrivals == [b \in Backends |-> Arrivals(st, home, b)]
           unmarked == [st EXCEPT !.marks[home] = <<>>, !.routeAll[home] = FALSE]
           m == RouteHome(st, home)
<1>1. st \in Store /\ s \in Seq(Slot)
  BY StoreFields DEF StoreOK
<1>2. /\ unmarked.slots = st.slots /\ unmarked.at = st.at
      /\ unmarked.removed = st.removed /\ unmarked.needResize = st.needResize
      /\ unmarked.lastAdded = st.lastAdded
      /\ unmarked.marks = [st.marks EXCEPT ![home] = <<>>]
      /\ unmarked.routeAll = [st.routeAll EXCEPT ![home] = FALSE]
      /\ unmarked = [st EXCEPT !.marks = unmarked.marks, !.routeAll = unmarked.routeAll]
  BY <1>1 DEF Store
<1>3. unmarked \in Store
  <2>1. unmarked.marks \in [Backends -> Seq(Nat)]
    BY <1>1, <1>2, StoreFields
  <2>2. unmarked.routeAll \in [Backends -> BOOLEAN]
    BY <1>1, <1>2, StoreFields
  <2> HIDE DEF unmarked
  <2> QED
    BY <1>1, <1>2, <2>1, <2>2 DEF Store
<1>4. CASE gone = {}
  <2>1. m = unmarked
    BY <1>4 DEF RouteHome
  <2> QED
    BY <1>2, <1>3, <2>1, SameSlots
<1>5. CASE gone # {}
  <2> DEFINE needs == [b \in Backends |->
               st.needResize[b] \/ Leaving(st, home, b) # {} \/ b = home]
             last == IF unmarked.lastAdded # Nobody
                        /\ Leaving(st, home, unmarked.lastAdded.backend) # {}
                       THEN Nobody ELSE unmarked.lastAdded
  <2>1. m = [unmarked EXCEPT !.slots = RoutedSlots(st, home),
                             !.removed[home] = @ + Cardinality(gone),
                             !.needResize = needs,
                             !.at = RoutedPlaces(st, home),
                             !.lastAdded = last]
    BY <1>5 DEF RouteHome
  <2>2. /\ last \in LastAdd \cup {Nobody}
        /\ needs \in [Backends -> BOOLEAN]
    BY <1>1, <1>2, StoreFields
  <2>3. needs[home] /\ \A b \in Backends : st.needResize[b] => needs[b]
    OBVIOUS
  <2> HIDE DEF m, unmarked, needs, last, gone
  <2>4. /\ m.slots = RoutedSlots(st, home)
        /\ m.removed = [st.removed EXCEPT ![home] = st.removed[home] + Cardinality(gone)]
        /\ m.needResize = needs
        /\ m.at = RoutedPlaces(st, home)
        /\ m.lastAdded = last
        /\ m = [unmarked EXCEPT !.slots = m.slots, !.removed = m.removed,
                                !.needResize = m.needResize, !.at = m.at,
                                !.lastAdded = m.lastAdded]
    BY <1>2, <1>3, <2>1 DEF Store
  <2>5. \A b \in Backends :
          m.slots[b] = IF b = home
                         THEN [i \in DOMAIN s |-> IF i \in gone THEN Emptied ELSE s[i]]
                         ELSE st.slots[b] \o arrivals[b]
    BY <2>4 DEF RoutedSlots, gone
  <2>6. \A h \in Handles :
          m.at[h] = IF Valid(st, h) /\ st.at[h].renderer = home /\ st.at[h].index \in gone
                      THEN [renderer |-> dest[st.at[h].index],
                            index |-> Len(st.slots[dest[st.at[h].index]])
                                        + Rank(Leaving(st, home, dest[st.at[h].index]),
                                               st.at[h].index)]
                      ELSE st.at[h]
    BY <2>4 DEF RoutedPlaces, gone
  <2>7. /\ gone \in SUBSET Live(s)
        /\ dest \in [gone -> Backends \ {home}]
        /\ leaving \in [Backends -> SUBSET gone]
        /\ Cardinality(gone) \in Nat
        /\ \A b \in Backends : \A i \in gone : i \in leaving[b] <=> dest[i] = b
    BY <1>1, LeavingFacts DEF gone, Leaving
  <2>8. \A b \in Backends :
          /\ arrivals[b] \in Seq(Slot)
          /\ Len(arrivals[b]) = Cardinality(leaving[b])
          /\ Live(arrivals[b]) = DOMAIN arrivals[b]
          /\ \A i \in leaving[b] : arrivals[b][Rank(leaving[b], i)].owner = s[i].owner
          /\ \A i \in leaving[b] : Rank(leaving[b], i) \in Nat
    BY <1>1, ArrivalsFacts
  <2>9. \A b \in Backends : leaving[b] = Leaving(st, home, b)
    OBVIOUS
  <2>10. arrivals = [b \in Backends |-> arrivals[b]]
    OBVIOUS
  <2> HIDE DEF leaving, arrivals, dest
  <2>11. m \in Store
    <3>1. m.slots \in [Backends -> Seq(Slot)]
      <4> DEFINE f == [i \in DOMAIN s |-> IF i \in gone THEN Emptied ELSE s[i]]
      <4>1. f \in Seq(Slot)
        <5>1. s \in [1 .. Len(s) -> Slot] /\ Len(s) \in Nat /\ DOMAIN s = 1 .. Len(s)
          BY <1>1
        <5>2. f \in [1 .. Len(s) -> Slot]
          BY <5>1, EmptiedIsSlot
        <5> HIDE DEF f
        <5> QED
          BY <5>1, <5>2, SeqDef
      <4>2. \A b \in Backends : st.slots[b] \o arrivals[b] \in Seq(Slot)
        BY <1>1, <2>8, StoreFields
      <4>3. \A b \in Backends : m.slots[b] = IF b = home THEN f ELSE st.slots[b] \o arrivals[b]
        BY <2>5
      <4>4. m.slots = [b \in Backends |-> m.slots[b]]
        BY <2>4 DEF RoutedSlots
      <4> HIDE DEF f
      <4> QED
        BY <4>1, <4>2, <4>3, <4>4
    <3>2. m.removed \in [Backends -> Nat]
      BY <1>1, <2>4, <2>7, StoreFields
    <3>3. m.at \in [Handles -> Place \cup {Nobody}]
      <4>1. ASSUME NEW h \in Handles, Valid(st, h), st.at[h].renderer = home,
                   st.at[h].index \in gone
            PROVE  m.at[h] \in Place
        <5> DEFINE i == st.at[h].index
                   b == dest[i]
                   r == Rank(leaving[b], i)
        <5>1. b \in Backends /\ i \in leaving[b]
          BY <2>7, <4>1
        <5>2. r \in Nat
          BY <2>8, <5>1
        <5>3. Len(st.slots[b]) \in Nat
          BY <1>1, <5>1, StoreFields
        <5>4. m.at[h] = [renderer |-> b, index |-> Len(st.slots[b]) + r]
          BY <2>6, <2>9, <4>1, <5>1
        <5> HIDE DEF b, i, r
        <5> QED
          BY <5>1, <5>2, <5>3, <5>4 DEF Place
      <4>2. \A h \in Handles : m.at[h] \in Place \cup {Nobody}
        BY <1>1, <2>6, <4>1, StoreFields
      <4>3. m.at = [h \in Handles |-> m.at[h]]
        BY <2>4 DEF RoutedPlaces
      <4> QED
        BY <4>2, <4>3
    <3> QED
      BY <1>3, <2>2, <2>4, <3>1, <3>2, <3>3 DEF Store
  <2>12. /\ \A b \in Backends \ {home} : m.slots[b] = st.slots[b] \o arrivals[b]
         /\ DOMAIN m.slots[home] = DOMAIN st.slots[home]
         /\ \A i \in DOMAIN st.slots[home] :
              m.slots[home][i] = IF i \in gone THEN Emptied ELSE st.slots[home][i]
    BY <2>5
  <2>13. arrivals \in [Backends -> Seq(Slot)]
    BY <2>8, <2>10
  <2>14. SlotsMoved(st, m, home, gone, arrivals)
    BY <2>7, <2>8, <2>12, <2>13 DEF SlotsMoved
  <2>15. Shared(st, home, gone, dest, leaving, arrivals)
    BY <2>7, <2>8 DEF Shared
  <2>16. PlacesMoved(st, m, home, gone, dest, leaving)
    <3> SUFFICES ASSUME NEW h \in Handles
                 PROVE  m.at[h] =
                   IF Valid(st, h) /\ st.at[h].renderer = home /\ st.at[h].index \in gone
                     THEN [renderer |-> dest[st.at[h].index],
                           index |-> Len(st.slots[dest[st.at[h].index]])
                                       + Rank(leaving[dest[st.at[h].index]], st.at[h].index)]
                     ELSE st.at[h]
      BY DEF PlacesMoved
    <3>1. st.at[h].index \in gone =>
            leaving[dest[st.at[h].index]] = Leaving(st, home, dest[st.at[h].index])
      BY <2>7, <2>9
    <3> QED
      BY <2>6, <3>1
  <2>17. CountersMoved(st, m, home, gone)
    BY <1>1, <2>3, <2>4, StoreFields DEF CountersMoved
  <2>18. OwnsSlots(m)
    BY <2>11, <2>14, <2>15, <2>16, MovingOwns
  <2>19. CountsRemoved(m)
    BY <2>11, <2>14, <2>17, MovingCounts
  <2> QED
    BY <2>11, <2>18, <2>19 DEF StoreOK, m
<1> QED
  BY <1>4, <1>5


LEMMA RoutingKeeps ==
  ASSUME NEW st, StoreOK(st)
  PROVE  StoreOK(Route(st))
<1>1. Solid \in Backends /\ Patterned \in Backends /\ Dotted \in Backends
  BY DEF Backends
<1> QED
  BY <1>1, RoutingHomeKeeps DEF Route

\* A setter writes one slot and may mark it.
LEMMA SettingKeeps ==
  ASSUME NEW st, StoreOK(st), NEW h \in Handles, Valid(st, h), NEW slot \in Slot,
         slot.owner = h,
         NEW m, m \in {[st EXCEPT !.slots[st.at[h].renderer][st.at[h].index] = slot],
                       [st EXCEPT !.slots[st.at[h].renderer][st.at[h].index] = slot,
                                  !.needResize[st.at[h].renderer] = TRUE]}
  PROVE  StoreOK(m) /\ StoreOK(MarkForRouting(m, st.at[h].renderer, st.at[h].index))
<1>1. PICK b \in Backends, i \in Nat : b = st.at[h].renderer /\ i = st.at[h].index
  BY PlaceOfHandle DEF Place
<1>2. /\ st \in Store
      /\ i \in Live(st.slots[b])
      /\ st.slots[b][i].owner = h
      /\ st.slots[b] \in Seq(Slot)
      /\ i \in 1 .. Len(st.slots[b])
  BY <1>1, PlaceOfHandle DEF StoreOK
<1> DEFINE slots == [st.slots EXCEPT ![b] = [st.slots[b] EXCEPT ![i] = slot]]
           needs == [st.needResize EXCEPT ![b] = TRUE]
<1>3. slots \in [Backends -> Seq(Slot)] /\ needs \in [Backends -> BOOLEAN]
  <2>1. [st.slots[b] EXCEPT ![i] = slot] \in Seq(Slot)
    BY <1>2
  <2> QED
    BY <1>2, <2>1, StoreFields
<1>4. \A c \in Backends : st.needResize[c] => needs[c]
  BY <1>2, StoreFields
<1>5. \/ m = [st EXCEPT !.slots = slots]
      \/ m = [st EXCEPT !.slots = slots, !.needResize = needs]
  BY <1>1, <1>2 DEF Store
<1> HIDE DEF slots, needs
<1>6. /\ m \in Store /\ m.slots = slots /\ m.at = st.at /\ m.removed = st.removed
      /\ \A c \in Backends : st.needResize[c] => m.needResize[c]
  BY <1>2, <1>3, <1>4, <1>5 DEF Store
<1>7. StoreOK(m)
  <2>1. m.slots = [st.slots EXCEPT ![b] = [st.slots[b] EXCEPT ![i] = slot]]
    BY <1>6 DEF slots
  <2>2. slot.owner = st.slots[b][i].owner
    BY <1>2
  <2>3. Rewritten(st, m, b, i, slot)
    BY <1>2, <1>6, <2>1, <2>2 DEF Rewritten
  <2> QED
    BY <1>6, <2>3, RewritingKeeps
<1>8. StoreOK(MarkForRouting(m, b, i))
  BY <1>6, <1>7, MarkingKeeps, SameSlots
<1> QED
  BY <1>1, <1>7, <1>8

LEMMA SetKindKeeps ==
  ASSUME NEW h \in Handles, NEW field \in {"spaced", "dashed"}, NEW v \in BOOLEAN,
         StoreOK(store), Valid(store, h), SetKind(h, field, v)
  PROVE  StoreOK(store')
<1> DEFINE p == store.at[h]
           before == store.slots[p.renderer][p.index]
           after == [before EXCEPT ![field] = v]
           written == [store EXCEPT !.slots[p.renderer][p.index] = after]
<1>1. before \in Slot /\ before.owner = h
  BY PlaceOfHandle
<1>2. after \in Slot /\ after.owner = h
  <2>1. CASE field = "spaced"
    <3>1. after = [before EXCEPT !.spaced = v]
      BY <2>1
    <3> HIDE DEF before, after
    <3> QED
      BY <1>1, <3>1 DEF Slot
  <2>2. CASE field = "dashed"
    <3>1. after = [before EXCEPT !.dashed = v]
      BY <2>2
    <3> HIDE DEF before, after
    <3> QED
      BY <1>1, <3>1 DEF Slot
  <2> QED
    BY <2>1, <2>2
<1>3. \/ store' = MarkForRouting(written, p.renderer, p.index)
      \/ store' = written
  BY DEF SetKind
<1> HIDE DEF after
<1>4. StoreOK(written) /\ StoreOK(MarkForRouting(written, p.renderer, p.index))
  BY <1>2, SettingKeeps
<1> HIDE DEF written
<1> QED
  BY <1>3, <1>4

LEMMA MergedKeeps ==
  ASSUME NEW h \in Handles, NEW v \in BOOLEAN, StoreOK(store), Merged(h, v)
  PROVE  StoreOK(store')
<1> DEFINE p == store.at[h]
           before == store.slots[p.renderer][p.index]
           after == [before EXCEPT !.merged = v]
           written == [store EXCEPT !.slots[p.renderer][p.index] = after,
                                    !.needResize[p.renderer] = TRUE]
<1>1. Valid(store, h)
  BY DEF Merged
<1>2. before \in Slot /\ before.owner = h
  BY <1>1, PlaceOfHandle
<1>3. after \in Slot /\ after.owner = h
  <2> HIDE DEF before
  <2> QED
    BY <1>2 DEF Slot
<1>4. store' = MarkForRouting([store EXCEPT !.slots[p.renderer][p.index].merged = v,
                                            !.needResize[p.renderer] = TRUE],
                              p.renderer, p.index)
  BY DEF Merged
<1>5. [store EXCEPT !.slots[p.renderer][p.index].merged = v,
                    !.needResize[p.renderer] = TRUE] = written
  BY <1>1, PlaceOfHandle DEF StoreOK, Store
<1> HIDE DEF after
<1>6. StoreOK(MarkForRouting(written, p.renderer, p.index))
  BY <1>1, <1>3, SettingKeeps
<1> QED
  BY <1>4, <1>5, <1>6

-------------------------------------------------------------------------------
(***************************************************************************)
(* The specification.                                                       *)
(***************************************************************************)

\* Every operation keeps the inductive invariant.
LEMMA NextKeeps == Inv /\ [Next]_vars => Inv'
<1> SUFFICES ASSUME Inv, [Next]_vars
             PROVE  Inv'
  OBVIOUS
<1>1. StoreOK(store) /\ newest \in Handles \cup {Nobody}
  BY DEF Inv, TypeOK, StoreOK, HandlesOwnTheirSlots, RemovedSlotsAreCounted
<1>2. SUFFICES StoreOK(store') /\ newest' \in Handles \cup {Nobody}
  BY DEF Inv, TypeOK, StoreOK, HandlesOwnTheirSlots, RemovedSlotsAreCounted,
         OwnsSlots, CountsRemoved, Valid
<1>3. ASSUME NEW h \in Handles, NEW c \in Styles, NEW merge \in BOOLEAN, Add(h, c, merge)
      PROVE  StoreOK(store') /\ newest' \in Handles \cup {Nobody}
  BY <1>1, <1>3, AddingKeeps DEF Add
<1>4. ASSUME NEW h \in Handles, Remove(h)
      PROVE  StoreOK(store') /\ newest' \in Handles \cup {Nobody}
  BY <1>1, <1>4, RemovingKeeps DEF Remove
<1>5. ASSUME NEW h \in Handles, NEW g \in Handles, Move(h, g)
      PROVE  StoreOK(store') /\ newest' \in Handles \cup {Nobody}
  <2>1. StoreOK(RemoveCurve(store, h)) /\ ~Valid(RemoveCurve(store, h), h)
    BY <1>1, RemovingKeeps
  <2> QED
    BY <1>1, <1>5, <2>1, TakingOverKeeps DEF Move
<1>6. ASSUME NEW h \in Handles, NEW v \in BOOLEAN, Spacing(h, v) \/ DashLength(h, v)
      PROVE  StoreOK(store') /\ newest' \in Handles \cup {Nobody}
  <2>1. StoreOK(store')
    BY <1>1, <1>6, SetKindKeeps DEF Spacing, DashLength
  <2>2. newest' = newest
    BY <1>6 DEF Spacing, DashLength, SetKind
  <2> QED
    BY <1>1, <2>1, <2>2
<1>7. ASSUME NEW h \in Handles, NEW v \in BOOLEAN, Merged(h, v)
      PROVE  StoreOK(store') /\ newest' \in Handles \cup {Nobody}
  <2>1. StoreOK(store')
    BY <1>1, <1>7, MergedKeeps
  <2>2. newest' = newest
    BY <1>7 DEF Merged
  <2> QED
    BY <1>1, <2>1, <2>2
<1>8. CASE RouteOnly
  BY <1>1, <1>8, RoutingKeeps DEF RouteOnly
<1>9. CASE Draw
  BY <1>1, <1>9, RoutingKeeps, UpdatingKeeps DEF Draw
<1>10. CASE Destroy
  BY <1>10, EmptyStoreOK DEF Destroy
<1>11. CASE UNCHANGED vars
  BY <1>1, <1>11 DEF vars
<1> QED
  BY <1>3, <1>4, <1>5, <1>6, <1>7, <1>8, <1>9, <1>10, <1>11 DEF Next

\* In every reachable state the store has the shape of the slot vectors, the
\* back-pointers agree in both directions, and removed_count counts the gaps.
THEOREM Correctness == Spec => []Inv
<1>1. Init => Inv
  BY EmptyStoreOK DEF Init, Inv, TypeOK, HandlesOwnTheirSlots, RemovedSlotsAreCounted,
                      StoreOK
<1> QED
  BY <1>1, NextKeeps, PTL DEF Spec

\* The store keeps its type: handles, slots and counters stay what the code
\* declares them to be, whatever is called.
THEOREM TypeCorrect == Spec => []TypeOK
<1>1. Inv => TypeOK
  BY DEF Inv
<1> QED
  BY <1>1, Correctness, PTL

\* A valid handle's slot points at that handle, and the owner of a live slot is at
\* that slot: Remove(), handle moves, Route() and compactions keep both.
THEOREM HandlesAlwaysOwn == Spec => []HandlesOwnTheirSlots
<1>1. Inv => HandlesOwnTheirSlots
  BY DEF Inv
<1> QED
  BY <1>1, Correctness, PTL

\* removed_count is the number of emptied slots, and a backend with one is resized
\* at its next draw.
THEOREM RemovedAlwaysCounted == Spec => []RemovedSlotsAreCounted
<1>1. Inv => RemovedSlotsAreCounted
  BY DEF Inv
<1> QED
  BY <1>1, Correctness, PTL

-------------------------------------------------------------------------------
(* A merged Add().  The last slot of a backend is changed by moves, routes,  *)
(* removals and compactions; the two numbers that Add() compares tell        *)
(* whether it still is the one added last.                                   *)

\* As long as last_added is set its backend has not grown since, and if it has not
\* shrunk either, its last slot is the newest curve's or empty.
LastAddSound(st, n) ==
  st.lastAdded # Nobody =>
    LET s == st.slots[st.lastAdded.backend]
        count == st.lastAdded.slots
    IN  /\ count # 0
        /\ Len(s) <= count
        /\ Len(s) = count => s[count].owner \in {Nobody, n}

\* The store m still tells the newest curve when st does.
Ages(st, m) ==
  m.lastAdded # Nobody =>
    /\ m.lastAdded = st.lastAdded
    /\ LET s == st.slots[st.lastAdded.backend]
           t == m.slots[st.lastAdded.backend]
       IN  \/ Len(t) < Len(s)
           \/ /\ Len(t) = Len(s)
              /\ \A i \in DOMAIN s : t[i].owner \in {Nobody, s[i].owner}

InvAdd == Inv /\ LastAddSound(store, newest)

-------------------------------------------------------------------------------

LEMMA LastAddFields ==
  ASSUME NEW st \in Store, st.lastAdded # Nobody
  PROVE  /\ st.lastAdded.backend \in Backends
         /\ st.lastAdded.slots \in Nat
         /\ st.slots[st.lastAdded.backend] \in Seq(Slot)
  BY StoreFields DEF LastAdd

LEMMA AgingKeeps ==
  ASSUME NEW st \in Store, NEW m \in Store, NEW n, LastAddSound(st, n), Ages(st, m)
  PROVE  LastAddSound(m, n)
<1> SUFFICES ASSUME m.lastAdded # Nobody
             PROVE  LastAddSound(m, n)
  BY DEF LastAddSound
<1> DEFINE b == st.lastAdded.backend
           count == st.lastAdded.slots
           s == st.slots[b]
           t == m.slots[b]
<1>1. /\ m.lastAdded = st.lastAdded /\ st.lastAdded # Nobody
      /\ \/ Len(t) < Len(s)
         \/ /\ Len(t) = Len(s)
            /\ \A i \in DOMAIN s : t[i].owner \in {Nobody, s[i].owner}
  BY DEF Ages
<1>2. /\ count # 0 /\ Len(s) <= count
      /\ Len(s) = count => s[count].owner \in {Nobody, n}
  BY <1>1 DEF LastAddSound
<1>3. /\ count \in Nat /\ Len(s) \in Nat /\ DOMAIN s = 1 .. Len(s) /\ Len(t) \in Nat
  <2>1. s \in Seq(Slot) /\ count \in Nat /\ b \in Backends
    BY <1>1, LastAddFields
  <2>2. t \in Seq(Slot)
    BY <2>1, StoreFields
  <2> HIDE DEF s, t, count
  <2> QED BY <2>1, <2>2
<1> HIDE DEF s, t, b, count
<1>4. Len(t) <= count
  BY <1>1, <1>2, <1>3
<1>5. Len(t) = count => t[count].owner \in {Nobody, n}
  <2> SUFFICES ASSUME Len(t) = count PROVE t[count].owner \in {Nobody, n}
    OBVIOUS
  <2>1. Len(s) = count /\ count \in DOMAIN s
    BY <1>1, <1>2, <1>3
  <2> QED BY <1>1, <1>2, <1>3, <2>1
<1> QED
  BY <1>1, <1>2, <1>4, <1>5 DEF LastAddSound, b, s, t, count

\* Slots and last_added as they were, but for the owners of slots that became gaps.
LEMMA SameLength ==
  ASSUME NEW st \in Store, NEW m, m.lastAdded = st.lastAdded,
         \A b \in Backends :
           /\ Len(m.slots[b]) = Len(st.slots[b])
           /\ \A i \in DOMAIN st.slots[b] : m.slots[b][i].owner \in {Nobody, st.slots[b][i].owner}
  PROVE  Ages(st, m)
  BY LastAddFields DEF Ages

LEMMA MarkingAges ==
  ASSUME NEW st \in Store, NEW b \in Backends, NEW i \in Nat
  PROVE  MarkForRouting(st, b, i).lastAdded = st.lastAdded
<1> DEFINE m == MarkForRouting(st, b, i)
<1>1. \/ m = st
      \/ m = [st EXCEPT !.routeAll[b] = TRUE, !.marks[b] = <<>>]
      \/ m = [st EXCEPT !.marks[b] = Append(@, i)]
  BY DEF MarkForRouting
<1> HIDE DEF m
<1>2. m.lastAdded = st.lastAdded
  BY <1>1 DEF Store
<1> QED BY <1>2 DEF m

\* What a removal does to slots and handles.
LEMMA RemovedSlots ==
  ASSUME NEW st, StoreOK(st), NEW h \in Handles, Valid(st, h)
  PROVE  LET m == RemoveCurve(st, h)
             b == st.at[h].renderer
             i == st.at[h].index
         IN  /\ m.slots = [st.slots EXCEPT ![b] = [st.slots[b] EXCEPT ![i] = Emptied]]
             /\ m.lastAdded = st.lastAdded
<1> DEFINE b == st.at[h].renderer
           i == st.at[h].index
           e == EmptySlot(st, h, b, i)
           m == RemoveCurve(st, h)
<1>1. st \in Store /\ b \in Backends /\ i \in Nat /\ i \in Live(st.slots[b])
      /\ st.slots[b][i].owner = h
  BY PlaceOfHandle DEF StoreOK, Place
<1>2. /\ e.slots = [st.slots EXCEPT ![b] = [st.slots[b] EXCEPT ![i] = Emptied]]
      /\ e.lastAdded = st.lastAdded
  <2> HIDE DEF b, i
  <2> QED BY <1>1 DEF Store, EmptySlot
<1>3. m = MarkForRouting(e, b, i + 1) \/ m = e
  BY DEF RemoveCurve
<1> HIDE DEF b, i, e, m
<1>4. e \in Store
  BY <1>1, EmptyingKeeps DEF StoreOK, e
<1>5. m.slots = e.slots /\ m.lastAdded = e.lastAdded
  BY <1>1, <1>3, <1>4, MarkingKeeps, MarkingAges
<1> QED
  BY <1>2, <1>5 DEF m, b, i

\* The handle that owns the slot added last is valid and at that slot.
LEMMA LastOwner ==
  ASSUME NEW st, StoreOK(st), NEW h \in Handles, st.lastAdded # Nobody,
         st.lastAdded.slots # 0,
         Len(st.slots[st.lastAdded.backend]) = st.lastAdded.slots,
         st.slots[st.lastAdded.backend][st.lastAdded.slots].owner = h
  PROVE  /\ Valid(st, h)
         /\ st.at[h] = [renderer |-> st.lastAdded.backend, index |-> st.lastAdded.slots]
<1> DEFINE b == st.lastAdded.backend
           count == st.lastAdded.slots
           s == st.slots[b]
<1>1. s \in Seq(Slot) /\ count \in Nat /\ b \in Backends
  BY LastAddFields DEF StoreOK
<1>2. count \in Live(s)
  BY <1>1, HandlesAssumption DEF Live
<1>3. st.at[h] = [renderer |-> b, index |-> count]
  BY <1>1, <1>2 DEF StoreOK, OwnsSlots
<1>4. st.at[h] \in Place
  BY <1>1, <1>3 DEF Place
<1> QED
  BY <1>3, <1>4, NobodyAssumption DEF Valid

-------------------------------------------------------------------------------
(* Every operation. *)

LEMMA RemovingAges ==
  ASSUME NEW st, StoreOK(st), NEW h \in Handles, NEW n, LastAddSound(st, n)
  PROVE  LastAddSound(RemoveCurve(st, h), IF n = h THEN Nobody ELSE n)
<1> DEFINE m == RemoveCurve(st, h)
           left == IF n = h THEN Nobody ELSE n
<1>1. CASE ~Valid(st, h)
  <2>1. m = st
    BY <1>1 DEF RemoveCurve
  <2> SUFFICES ASSUME st.lastAdded # Nobody PROVE LastAddSound(st, left)
    BY <2>1 DEF LastAddSound
  <2> DEFINE s == st.slots[st.lastAdded.backend]
             count == st.lastAdded.slots
  <2>2. Len(s) = count /\ count # 0 => s[count].owner # h
    BY <1>1, LastOwner
  <2> QED BY <2>2 DEF LastAddSound
<1>2. CASE Valid(st, h)
  <2> DEFINE b == st.at[h].renderer
             i == st.at[h].index
  <2>1. /\ m.slots = [st.slots EXCEPT ![b] = [st.slots[b] EXCEPT ![i] = Emptied]]
        /\ m.lastAdded = st.lastAdded
    BY <1>2, RemovedSlots
  <2>2. /\ st \in Store /\ b \in Backends /\ i \in 1 .. Len(st.slots[b])
        /\ st.slots[b] \in Seq(Slot) /\ st.slots \in [Backends -> Seq(Slot)]
        /\ st.at[h] = [renderer |-> b, index |-> i]
    BY <1>2, PlaceOfHandle, StoreFields DEF StoreOK, Place
  <2> HIDE DEF m, b, i
  <2> SUFFICES ASSUME st.lastAdded # Nobody PROVE LastAddSound(m, left)
    BY <2>1 DEF LastAddSound, m
  <2> DEFINE c == st.lastAdded.backend
             count == st.lastAdded.slots
             s == st.slots[c]
             t == m.slots[c]
  <2>3. c \in Backends /\ count \in Nat /\ s \in Seq(Slot)
    BY <2>2, LastAddFields
  <2>4. t = IF c = b THEN [s EXCEPT ![i] = Emptied] ELSE s
    BY <2>1, <2>2, <2>3
  <2>5. /\ count # 0 /\ Len(s) <= count
        /\ Len(s) = count => s[count].owner \in {Nobody, n}
    BY DEF LastAddSound
  <2> HIDE DEF c, count, s, t
  <2>6. Len(t) = Len(s)
    BY <2>3, <2>4
  <2>7. ASSUME Len(s) = count
        PROVE  t[count].owner \in {Nobody, left}
    <3>1. count \in 1 .. Len(s)
      BY <2>3, <2>5, <2>7
    <3>2. CASE c = b /\ count = i
      BY <2>3, <2>4, <3>1, <3>2, EmptiedIsSlot
    <3>3. CASE ~(c = b /\ count = i)
      <4>1. t[count] = s[count]
        BY <2>3, <2>4, <3>1, <3>3
      <4>2. s[count].owner # h
        <5>1. s[count].owner = h => st.at[h] = [renderer |-> c, index |-> count]
          BY <2>5, <2>7, LastOwner DEF c, count, s
        <5> QED BY <2>2, <3>3, <5>1
      <4> QED BY <2>5, <2>7, <4>1, <4>2
    <3> QED BY <3>2, <3>3
  <2> HIDE DEF left
  <2> QED BY <2>1, <2>5, <2>6, <2>7 DEF LastAddSound, c, count, s, t
<1> QED
  BY <1>1, <1>2

\* A move gives the slots of one handle to another.
LEMMA TakingOverAges ==
  ASSUME NEW st, StoreOK(st), NEW h \in Handles, NEW g \in Handles, h # g, NEW n, n # h,
         ~Valid(st, h), LastAddSound(st, n)
  PROVE  LastAddSound(TakeOver(st, h, g), IF n = g THEN h ELSE n)
<1> DEFINE m == TakeOver(st, h, g)
           b == st.at[g].renderer
           i == st.at[g].index
           after == IF n = g THEN h ELSE n
<1>1. CASE ~Valid(st, g)
  <2>1. m = st
    BY <1>1 DEF TakeOver
  <2> SUFFICES ASSUME st.lastAdded # Nobody PROVE LastAddSound(st, after)
    BY <2>1 DEF LastAddSound
  <2> DEFINE s == st.slots[st.lastAdded.backend]
             count == st.lastAdded.slots
  <2>2. Len(s) = count /\ count # 0 => s[count].owner # g
    BY <1>1, LastOwner
  <2> QED BY <2>2 DEF LastAddSound
<1>2. CASE Valid(st, g)
  <2>1. /\ st \in Store /\ b \in Backends /\ i \in 1 .. Len(st.slots[b])
        /\ st.slots[b] \in Seq(Slot) /\ st.slots \in [Backends -> Seq(Slot)]
        /\ st.slots[b][i] \in Slot
        /\ st.at[g] = [renderer |-> b, index |-> i]
    BY <1>2, PlaceOfHandle, StoreFields DEF StoreOK, Place
  <2> DEFINE slot == [st.slots[b][i] EXCEPT !.owner = h]
  <2>2. /\ m.slots = [st.slots EXCEPT ![b] = [st.slots[b] EXCEPT ![i] = slot]]
        /\ m.lastAdded = st.lastAdded
    <3> HIDE DEF b, i
    <3> QED BY <1>2, <2>1 DEF TakeOver, Store, b, i
  <2>3. slot.owner = h
    <3> HIDE DEF b, i
    <3> QED BY <2>1 DEF Slot
  <2> HIDE DEF m, b, i, slot
  <2> SUFFICES ASSUME st.lastAdded # Nobody PROVE LastAddSound(m, after)
    BY <2>2 DEF LastAddSound, m
  <2> DEFINE c == st.lastAdded.backend
             count == st.lastAdded.slots
             s == st.slots[c]
             t == m.slots[c]
  <2>4. c \in Backends /\ count \in Nat /\ s \in Seq(Slot)
    BY <2>1, LastAddFields
  <2>5. t = IF c = b THEN [s EXCEPT ![i] = slot] ELSE s
    BY <2>1, <2>2, <2>4
  <2>6. /\ count # 0 /\ Len(s) <= count
        /\ Len(s) = count => s[count].owner \in {Nobody, n}
    BY DEF LastAddSound
  <2> HIDE DEF c, count, s, t
  <2>7. Len(t) = Len(s)
    BY <2>4, <2>5
  <2>8. ASSUME Len(s) = count
        PROVE  t[count].owner \in {Nobody, after}
    <3>1. count \in 1 .. Len(s)
      BY <2>4, <2>6, <2>8
    <3>2. CASE c = b /\ count = i
      <4>1. s[count].owner = g
        BY <1>2, <3>2, PlaceOfHandle DEF b, i, s
      <4>2. t[count].owner = h
        BY <2>3, <2>4, <2>5, <3>1, <3>2
      <4>3. n = g
        BY <2>6, <2>8, <4>1, HandlesAssumption
      <4> QED BY <4>2, <4>3
    <3>3. CASE ~(c = b /\ count = i)
      <4>1. t[count] = s[count]
        BY <2>4, <2>5, <3>1, <3>3
      <4>2. s[count].owner # g
        <5>1. s[count].owner = g => st.at[g] = [renderer |-> c, index |-> count]
          BY <2>6, <2>8, LastOwner DEF c, count, s
        <5> QED BY <2>1, <3>3, <5>1
      <4> QED BY <2>6, <2>8, <4>1, <4>2
    <3> QED BY <3>2, <3>3
  <2> HIDE DEF after
  <2> QED BY <2>2, <2>6, <2>7, <2>8 DEF LastAddSound, c, count, s, t
<1> QED
  BY <1>1, <1>2

\* A setter leaves all owners alone.
LEMMA RewritingAges ==
  ASSUME NEW st, StoreOK(st), NEW b \in Backends, NEW i \in Nat, NEW slot,
         NEW m \in Store, Rewritten(st, m, b, i, slot), m.lastAdded = st.lastAdded
  PROVE  /\ Ages(st, m) /\ m.at = st.at
         /\ Ages(st, MarkForRouting(m, b, i)) /\ MarkForRouting(m, b, i).at = st.at
<1> DEFINE k == MarkForRouting(m, b, i)
<1>1. /\ st \in Store /\ st.slots \in [Backends -> Seq(Slot)]
      /\ st.slots[b] \in Seq(Slot) /\ i \in DOMAIN st.slots[b]
  BY StoreFields, LiveIndices DEF StoreOK, Rewritten
<1>2. /\ m.slots = [st.slots EXCEPT ![b] = [st.slots[b] EXCEPT ![i] = slot]]
      /\ slot.owner = st.slots[b][i].owner /\ m.at = st.at
  BY DEF Rewritten
<1>3. k.slots = m.slots /\ k.lastAdded = m.lastAdded /\ k.at = m.at
  BY MarkingKeeps, MarkingAges
<1> HIDE DEF k
<1>4. \A c \in Backends :
        /\ Len(m.slots[c]) = Len(st.slots[c])
        /\ \A j \in DOMAIN st.slots[c] : m.slots[c][j].owner = st.slots[c][j].owner
  BY <1>1, <1>2
<1>5. Ages(st, m)
  BY <1>1, <1>4, SameLength
<1>6. Ages(st, k)
  BY <1>1, <1>3, <1>4, SameLength
<1> QED
  BY <1>2, <1>3, <1>5, <1>6 DEF k

LEMMA SettingAges ==
  ASSUME NEW st, StoreOK(st), NEW h \in Handles, Valid(st, h), NEW slot \in Slot,
         slot.owner = h,
         NEW m \in Store,
         m \in {[st EXCEPT !.slots[st.at[h].renderer][st.at[h].index] = slot],
                [st EXCEPT !.slots[st.at[h].renderer][st.at[h].index] = slot,
                           !.needResize[st.at[h].renderer] = TRUE]}
  PROVE  /\ Ages(st, m) /\ m.at = st.at
         /\ Ages(st, MarkForRouting(m, st.at[h].renderer, st.at[h].index))
         /\ MarkForRouting(m, st.at[h].renderer, st.at[h].index).at = st.at
<1>1. PICK b \in Backends, i \in Nat : b = st.at[h].renderer /\ i = st.at[h].index
  BY PlaceOfHandle DEF Place
<1>2. /\ st \in Store
      /\ i \in Live(st.slots[b])
      /\ st.slots[b][i].owner = h
  BY <1>1, PlaceOfHandle DEF StoreOK
<1> DEFINE slots == [st.slots EXCEPT ![b] = [st.slots[b] EXCEPT ![i] = slot]]
           needs == [st.needResize EXCEPT ![b] = TRUE]
<1>3. \A c \in Backends : st.needResize[c] => needs[c]
  BY <1>2, StoreFields
<1>4. \/ m = [st EXCEPT !.slots = slots]
      \/ m = [st EXCEPT !.slots = slots, !.needResize = needs]
  BY <1>1, <1>2 DEF Store
<1> HIDE DEF slots, needs
<1>5. /\ m.slots = slots /\ m.at = st.at /\ m.removed = st.removed
      /\ m.lastAdded = st.lastAdded
      /\ \A c \in Backends : st.needResize[c] => m.needResize[c]
  BY <1>2, <1>3, <1>4 DEF Store
<1>6. Rewritten(st, m, b, i, slot)
  <2>1. m.slots = [st.slots EXCEPT ![b] = [st.slots[b] EXCEPT ![i] = slot]]
    BY <1>5 DEF slots
  <2>2. slot.owner = st.slots[b][i].owner
    BY <1>2
  <2> QED BY <1>2, <1>5, <2>1, <2>2 DEF Rewritten
<1>7. /\ Ages(st, m) /\ Ages(st, MarkForRouting(m, b, i))
      /\ MarkForRouting(m, b, i).at = st.at
  BY <1>5, <1>6, RewritingAges
<1> QED
  BY <1>1, <1>5, <1>7

LEMMA SetKindAges ==
  ASSUME NEW h \in Handles, NEW field \in {"spaced", "dashed"}, NEW v \in BOOLEAN,
         StoreOK(store), Valid(store, h), SetKind(h, field, v)
  PROVE  Ages(store, store') /\ store'.at = store.at
<1> DEFINE p == store.at[h]
           before == store.slots[p.renderer][p.index]
           after == [before EXCEPT ![field] = v]
           written == [store EXCEPT !.slots[p.renderer][p.index] = after]
<1>1. before \in Slot /\ before.owner = h
  BY PlaceOfHandle
<1>2. after \in Slot /\ after.owner = h
  <2>1. CASE field = "spaced"
    <3>1. after = [before EXCEPT !.spaced = v]
      BY <2>1
    <3> HIDE DEF before, after
    <3> QED
      BY <1>1, <3>1 DEF Slot
  <2>2. CASE field = "dashed"
    <3>1. after = [before EXCEPT !.dashed = v]
      BY <2>2
    <3> HIDE DEF before, after
    <3> QED
      BY <1>1, <3>1 DEF Slot
  <2> QED
    BY <2>1, <2>2
<1>3. \/ store' = MarkForRouting(written, p.renderer, p.index)
      \/ store' = written
  BY DEF SetKind
<1> HIDE DEF after
<1>4. /\ Ages(store, written) /\ written.at = store.at
      /\ Ages(store, MarkForRouting(written, p.renderer, p.index))
      /\ MarkForRouting(written, p.renderer, p.index).at = store.at
  <2>1. StoreOK(written)
    BY <1>2, SettingKeeps
  <2>2. written \in Store /\ store \in Store
    BY <2>1 DEF StoreOK
  <2>3. Ages(store, written) /\ Ages(store, MarkForRouting(written, p.renderer, p.index))
    BY <1>2, <2>2, SettingAges
  <2>4. written.at = store.at
    BY <2>2 DEF Store
  <2> HIDE DEF written
  <2>5. p.renderer \in Backends /\ p.index \in Nat
    BY PlaceOfHandle DEF Place
  <2>6. MarkForRouting(written, p.renderer, p.index).at = written.at
    BY <2>2, <2>5, MarkingKeeps
  <2> QED BY <2>3, <2>4, <2>6
<1> HIDE DEF written
<1> QED
  BY <1>3, <1>4

LEMMA MergedAges ==
  ASSUME NEW h \in Handles, NEW v \in BOOLEAN, StoreOK(store), Merged(h, v)
  PROVE  Ages(store, store') /\ store'.at = store.at
<1> DEFINE p == store.at[h]
           before == store.slots[p.renderer][p.index]
           after == [before EXCEPT !.merged = v]
           written == [store EXCEPT !.slots[p.renderer][p.index] = after,
                                    !.needResize[p.renderer] = TRUE]
<1>1. Valid(store, h)
  BY DEF Merged
<1>2. before \in Slot /\ before.owner = h
  BY <1>1, PlaceOfHandle
<1>3. after \in Slot /\ after.owner = h
  <2> HIDE DEF before
  <2> QED
    BY <1>2 DEF Slot
<1>4. store' = MarkForRouting([store EXCEPT !.slots[p.renderer][p.index].merged = v,
                                            !.needResize[p.renderer] = TRUE],
                              p.renderer, p.index)
  BY DEF Merged
<1>5. [store EXCEPT !.slots[p.renderer][p.index].merged = v,
                    !.needResize[p.renderer] = TRUE] = written
  BY <1>1, PlaceOfHandle DEF StoreOK, Store
<1> HIDE DEF after
<1>6. /\ Ages(store, MarkForRouting(written, p.renderer, p.index))
      /\ MarkForRouting(written, p.renderer, p.index).at = store.at
  <2>1. StoreOK(written)
    BY <1>1, <1>3, SettingKeeps
  <2>2. written \in Store
    BY <2>1 DEF StoreOK
  <2>3. written.at = store.at
    <3>1. store \in Store
      BY DEF StoreOK
    <3> QED BY <3>1 DEF Store
  <2>4. Ages(store, MarkForRouting(written, p.renderer, p.index))
    BY <1>1, <1>3, <2>2, SettingAges
  <2> HIDE DEF written
  <2>5. p.renderer \in Backends /\ p.index \in Nat
    BY <1>1, PlaceOfHandle DEF Place
  <2>6. MarkForRouting(written, p.renderer, p.index).at = written.at
    BY <2>2, <2>5, MarkingKeeps
  <2> QED BY <2>3, <2>4, <2>6
<1> QED
  BY <1>4, <1>5, <1>6

\* Route() forgets last_added when a chain arrives behind it.
LEMMA RoutingHomeAges ==
  ASSUME NEW st, StoreOK(st), NEW home \in Backends
  PROVE  LET m == RouteHome(st, home)
         IN  Ages(st, m) /\ \A h \in Handles : Valid(m, h) => Valid(st, h)
<1> DEFINE s == st.slots[home]
           gone == Gone(st, home)
           unmarked == [st EXCEPT !.marks[home] = <<>>, !.routeAll[home] = FALSE]
           m == RouteHome(st, home)
<1>1. st \in Store /\ s \in Seq(Slot) /\ st.slots \in [Backends -> Seq(Slot)]
  BY StoreFields DEF StoreOK
<1>2. /\ unmarked.slots = st.slots /\ unmarked.at = st.at
      /\ unmarked.lastAdded = st.lastAdded
  BY <1>1 DEF Store
<1>3. CASE gone = {}
  <2>1. m = unmarked
    BY <1>3 DEF RouteHome
  <2> HIDE DEF unmarked, m
  <2>2. Ages(st, m)
    BY <1>1, <1>2, <2>1, SameLength
  <2> QED
    BY <1>2, <2>1, <2>2 DEF Valid, m
<1>4. CASE gone # {}
  <2> DEFINE needs == [b \in Backends |->
               st.needResize[b] \/ Leaving(st, home, b) # {} \/ b = home]
             last == IF unmarked.lastAdded # Nobody
                        /\ Leaving(st, home, unmarked.lastAdded.backend) # {}
                       THEN Nobody ELSE unmarked.lastAdded
  <2>1. m = [unmarked EXCEPT !.slots = RoutedSlots(st, home),
                             !.removed[home] = @ + Cardinality(gone),
                             !.needResize = needs,
                             !.at = RoutedPlaces(st, home),
                             !.lastAdded = last]
    BY <1>4 DEF RouteHome
  <2>2. DOMAIN unmarked = DOMAIN st
    OBVIOUS
  <2> HIDE DEF m, unmarked, needs, gone
  <2>3. /\ m.slots = RoutedSlots(st, home)
        /\ m.at = RoutedPlaces(st, home)
        /\ m.lastAdded = last
    BY <1>1, <2>1, <2>2 DEF Store
  <2>4. /\ m.slots[home] = [i \in DOMAIN s |-> IF i \in gone THEN Emptied ELSE s[i]]
        /\ \A b \in Backends \ {home} : m.slots[b] = st.slots[b] \o Arrivals(st, home, b)
    BY <2>3 DEF RoutedSlots, gone
  <2>5. Ages(st, m)
    <3> SUFFICES ASSUME m.lastAdded # Nobody PROVE Ages(st, m)
      BY DEF Ages
    <3> DEFINE b == st.lastAdded.backend
    <3>1. m.lastAdded = st.lastAdded /\ st.lastAdded # Nobody /\ Leaving(st, home, b) = {}
      BY <1>2, <2>3
    <3>2. b \in Backends
      BY <1>1, <3>1, LastAddFields
    <3>3. CASE b = home
      <4>1. /\ Len(m.slots[b]) = Len(st.slots[b])
            /\ \A i \in DOMAIN st.slots[b] :
                 m.slots[b][i].owner \in {Nobody, st.slots[b][i].owner}
        BY <1>1, <2>4, <3>3, EmptiedIsSlot
      <4> QED BY <3>1, <4>1 DEF Ages
    <3>4. CASE b # home
      <4> HIDE DEF b, last, s
      <4>1. /\ Arrivals(st, home, b) \in Seq(Slot)
            /\ Len(Arrivals(st, home, b)) = Cardinality(Leaving(st, home, b))
        BY <1>1, <3>2, ArrivalsFacts
      <4>2. Arrivals(st, home, b) = <<>>
        BY <3>1, <4>1, FS_EmptySet DEF b
      <4>3. st.slots[b] \in Seq(Slot) /\ m.slots[b] = st.slots[b] \o <<>>
        BY <1>1, <2>4, <3>2, <3>4, <4>2
      <4>4. m.slots[b] = st.slots[b]
        BY <4>3
      <4> QED BY <3>1, <4>4 DEF Ages, b
    <3> QED BY <3>3, <3>4
  <2>6. ASSUME NEW h \in Handles, Valid(m, h)
        PROVE  Valid(st, h)
    BY <2>3, <2>6 DEF RoutedPlaces, Valid
  <2> QED
    BY <2>5, <2>6 DEF m
<1> QED
  BY <1>3, <1>4

LEMMA RoutingAges ==
  ASSUME NEW st, StoreOK(st), NEW n, LastAddSound(st, n)
  PROVE  /\ LastAddSound(Route(st), n)
         /\ \A h \in Handles : Valid(Route(st), h) => Valid(st, h)
<1>1. Solid \in Backends /\ Patterned \in Backends /\ Dotted \in Backends
  BY DEF Backends
<1>2. ASSUME NEW m, StoreOK(m), LastAddSound(m, n), NEW home \in Backends
      PROVE  /\ StoreOK(RouteHome(m, home)) /\ LastAddSound(RouteHome(m, home), n)
             /\ \A h \in Handles : Valid(RouteHome(m, home), h) => Valid(m, h)
  <2>1. StoreOK(RouteHome(m, home))
    BY <1>2, RoutingHomeKeeps
  <2>2. Ages(m, RouteHome(m, home))
    BY <1>2, RoutingHomeAges
  <2>3. LastAddSound(RouteHome(m, home), n)
    BY <1>2, <2>1, <2>2, AgingKeeps DEF StoreOK
  <2>4. \A h \in Handles : Valid(RouteHome(m, home), h) => Valid(m, h)
    BY <1>2, RoutingHomeAges
  <2> QED BY <2>1, <2>3, <2>4
<1> QED
  BY <1>1, <1>2 DEF Route

\* A compaction shortens a backend, by one slot at least.
LEMMA UpdatingAges ==
  ASSUME NEW st, StoreOK(st)
  PROVE  /\ Ages(st, UpdateBuffers(st))
         /\ \A h \in Handles : Valid(UpdateBuffers(st), h) => Valid(st, h)
<1> DEFINE m == UpdateBuffers(st)
           drawn(b) == Count(st, b) > 0
           compacts(b) == drawn(b) /\ st.needResize[b] /\ st.removed[b] > 0
<1>1. st \in Store /\ \A b \in Backends : st.slots[b] \in Seq(Slot)
  BY StoreFields DEF StoreOK
<1>2. /\ m.slots = [b \in Backends |->
                     IF compacts(b) THEN CompactRemoved(st.slots[b]) ELSE st.slots[b]]
      /\ m.lastAdded = st.lastAdded
  BY <1>1 DEF UpdateBuffers, Store
<1>3. m.at = [h \in Handles |->
                IF Valid(st, h) /\ compacts(st.at[h].renderer)
                  THEN [renderer |-> st.at[h].renderer,
                        index |-> Rank(Live(st.slots[st.at[h].renderer]),
                                       st.at[h].index)]
                  ELSE st.at[h]]
  BY <1>1 DEF UpdateBuffers, Store
<1> HIDE DEF m, compacts
<1>4. ASSUME NEW h \in Handles, Valid(m, h)
      PROVE  Valid(st, h)
  BY <1>3, <1>4 DEF Valid
<1>5. ASSUME NEW b \in Backends, compacts(b)
      PROVE  Len(CompactRemoved(st.slots[b])) < Len(st.slots[b])
  <2> DEFINE s == st.slots[b]
             all == 1 .. Len(s)
  <2>1. s \in Seq(Slot) /\ Len(s) \in Nat /\ Live(s) \in SUBSET all /\ DOMAIN s = all
    BY <1>1, LiveIndices
  <2>2. IsFiniteSet(all) /\ Cardinality(all) = Len(s)
    BY <2>1, FS_Interval
  <2>3. Live(s) # all
    <3>1. st.removed[b] = Cardinality(DOMAIN s \ Live(s)) /\ st.removed[b] > 0
      BY <1>5 DEF StoreOK, CountsRemoved, compacts
    <3>2. Live(s) = all => DOMAIN s \ Live(s) = {}
      BY <2>1
    <3> HIDE DEF s, all
    <3> QED BY <3>1, <3>2, FS_EmptySet
  <2>4. Cardinality(Live(s)) # Cardinality(all) /\ Cardinality(Live(s)) <= Cardinality(all)
    BY <2>1, <2>2, <2>3, FS_Subset
  <2>5. Len(CompactRemoved(s)) = Cardinality(Live(s)) /\ Cardinality(Live(s)) \in Nat
    BY <2>1, CompactionFacts
  <2> QED BY <2>1, <2>2, <2>4, <2>5
<1>6. Ages(st, m)
  <2> SUFFICES ASSUME st.lastAdded # Nobody PROVE Ages(st, m)
    BY <1>2 DEF Ages
  <2> DEFINE b == st.lastAdded.backend
  <2>1. b \in Backends
    BY <1>1, LastAddFields
  <2>2. CASE compacts(b)
    <3>1. Len(m.slots[b]) < Len(st.slots[b])
      BY <1>2, <1>5, <2>1, <2>2
    <3> QED BY <1>2, <3>1 DEF Ages
  <2>3. CASE ~compacts(b)
    <3>1. m.slots[b] = st.slots[b]
      BY <1>2, <2>1, <2>3
    <3> QED BY <1>2, <3>1 DEF Ages
  <2> QED BY <2>2, <2>3
<1> QED
  BY <1>4, <1>6 DEF m

\* Add() remembers what it added, and a curve that continues has the newest before it.
LEMMA AddingContinues ==
  ASSUME NEW st, StoreOK(st), NEW h \in Handles, NEW c \in Styles, NEW merge \in BOOLEAN,
         NEW n, LastAddSound(st, n)
  PROVE  LET m == AddCurve(st, h, c, merge)
             p == m.at[h]
             s == m.slots[p.renderer]
         IN  /\ LastAddSound(m, h) /\ Valid(m, h)
             /\ ContinuesChain(s, p.index) => s[p.index - 1].owner = n
<1> DEFINE m == AddCurve(st, h, c, merge)
           joins == Continues(st, merge)
           slot == [owner |-> h, spaced |-> c.spaced, dashed |-> c.dashed,
                    merged |-> joins]
<1>1. st \in Store
  BY DEF StoreOK
<1>2. PICK b \in Backends : b = IF joins THEN st.lastAdded.backend ELSE KindOf(c)
  <2>1. joins => st.lastAdded \in LastAdd
    BY <1>1, StoreFields DEF Continues
  <2> QED
    BY <2>1, KindIsBackend DEF LastAdd
<1> DEFINE old == st.slots[b]
           len == Len(old)
<1>3. old \in Seq(Slot) /\ len \in Nat /\ DOMAIN old = 1 .. len
  BY <1>1, StoreFields
<1>4. /\ m.slots[b] = Append(old, slot)
      /\ m.at[h] = [renderer |-> b, index |-> len + 1]
      /\ m.lastAdded = [backend |-> b, slots |-> len + 1]
  BY <1>1, <1>2, StoreFields DEF AddCurve, Store
<1>5. slot.owner = h /\ slot.merged = joins
  OBVIOUS
<1> HIDE DEF m, slot, old, len
<1> DEFINE s == m.slots[b]
<1>6. Len(s) = len + 1 /\ s[len + 1] = slot /\ \A i \in 1 .. len : s[i] = old[i]
  BY <1>3, <1>4 DEF len
<1>7. LastAddSound(m, h)
  BY <1>3, <1>4, <1>5, <1>6 DEF LastAddSound
<1>8. ASSUME ContinuesChain(s, len + 1)
      PROVE  s[len].owner = n
  <2>1. joins /\ len # 0 /\ s[len].owner # Nobody
    BY <1>3, <1>5, <1>6, <1>8 DEF ContinuesChain
  <2>2. /\ b = st.lastAdded.backend /\ st.lastAdded # Nobody
        /\ len = st.lastAdded.slots
    BY <1>2, <2>1 DEF Continues, len, old
  <2>3. old[len].owner \in {Nobody, n}
    BY <2>2 DEF LastAddSound, len, old
  <2> QED BY <1>3, <1>6, <2>1, <2>3
<1>9. m.at[h].renderer = b /\ m.at[h].index = len + 1 /\ m.at[h].index - 1 = len
  BY <1>3, <1>4
<1>10. Valid(m, h)
  <2>1. m.at[h] \in Place
    BY <1>3, <1>4 DEF Place
  <2> QED BY <2>1, NobodyAssumption DEF Valid
<1> QED
  BY <1>7, <1>8, <1>9, <1>10 DEF m

-------------------------------------------------------------------------------

\* Whether a step makes the handle h valid and changes no other handle's validity.
MakesValid(h) == Added(h) /\ Valid(store', h)

LEMMA OnlyAddMakesValid ==
  ASSUME NEW h \in Handles, MakesValid(h)
  PROVE  Valid(store', h) /\ ~Valid(store, h)
         /\ \A g \in Handles \ {h} : Valid(store', g) = Valid(store, g)
<1>1. Valid(store', h) /\ ~Valid(store, h)
  BY DEF MakesValid, Added
<1>2. ASSUME NEW g \in Handles \ {h}
      PROVE  Valid(store', g) = Valid(store, g)
  BY DEF MakesValid, Added, Valid
<1> QED
  BY <1>1, <1>2

LEMMA NextAdds ==
  InvAdd /\ [Next]_vars => /\ InvAdd'
                          /\ [\A h \in Handles : Added(h) /\ Valid(store', h) =>
                                LET p == store'.at[h]
                                    s == store'.slots[p.renderer]
                                IN  ContinuesChain(s, p.index) =>
                                      s[p.index - 1].owner = newest]_vars
<1> DEFINE Continued(h) ==
             LET p == store'.at[h]
                 s == store'.slots[p.renderer]
             IN  ContinuesChain(s, p.index) => s[p.index - 1].owner = newest
           Joined == \A h \in Handles : Added(h) /\ Valid(store', h) => Continued(h)
<1> SUFFICES ASSUME InvAdd, [Next]_vars
             PROVE  InvAdd' /\ [Joined]_vars
  OBVIOUS
<1>1. StoreOK(store) /\ newest \in Handles \cup {Nobody} /\ LastAddSound(store, newest)
  BY DEF InvAdd, Inv, TypeOK, StoreOK, HandlesOwnTheirSlots, RemovedSlotsAreCounted
<1>2. Inv'
  BY NextKeeps DEF InvAdd
<1>3. StoreOK(store') /\ store' \in Store /\ store \in Store
  BY <1>1, <1>2 DEF Inv, TypeOK, StoreOK, HandlesOwnTheirSlots, RemovedSlotsAreCounted,
         OwnsSlots, CountsRemoved, Valid
<1>4. SUFFICES LastAddSound(store', newest') /\ (Joined \/ UNCHANGED vars)
  BY <1>2 DEF InvAdd, LastAddSound
<1>5. ASSUME \A h \in Handles : Valid(store', h) => Valid(store, h)
      PROVE  Joined
  BY <1>5, OnlyAddMakesValid DEF MakesValid
<1> HIDE DEF Joined
<1>6. ASSUME Ages(store, store'), newest' = newest, store'.at = store.at
      PROVE  LastAddSound(store', newest') /\ Joined
  <2>1. LastAddSound(store', newest')
    BY <1>1, <1>3, <1>6, AgingKeeps
  <2> QED BY <1>5, <1>6, <2>1 DEF Valid
<1>7. ASSUME NEW h \in Handles, NEW c \in Styles, NEW merge \in BOOLEAN, Add(h, c, merge)
      PROVE  LastAddSound(store', newest') /\ Joined
  <2>1. store' = AddCurve(store, h, c, merge) /\ newest' = h
    BY <1>7 DEF Add
  <2>2. LastAddSound(store', newest') /\ Continued(h) /\ Valid(store', h)
    BY <1>1, <2>1, AddingContinues
  <2> HIDE DEF Continued
  <2>3. ASSUME NEW g \in Handles, Added(g), Valid(store', g)
        PROVE  Continued(g)
    <3>1. ~Valid(store, h) /\ Valid(store', h)
      BY <1>7, <2>2 DEF Add
    <3>2. g = h
      BY <2>3, <3>1 DEF Added
    <3> QED BY <2>2, <3>2
  <2> QED BY <2>2, <2>3 DEF Joined
<1>8. ASSUME NEW h \in Handles, Remove(h)
      PROVE  LastAddSound(store', newest') /\ Joined
  <2>1. store' = RemoveCurve(store, h) /\ newest' = IF newest = h THEN Nobody ELSE newest
    BY <1>8 DEF Remove
  <2>2. LastAddSound(store', newest')
    BY <1>1, <2>1, RemovingAges
  <2>3. \A g \in Handles : Valid(store', g) => Valid(store, g)
    BY <1>1, <2>1, RemovingKeeps DEF Valid
  <2> QED BY <1>5, <2>2, <2>3
<1>9. ASSUME NEW h \in Handles, NEW g \in Handles, Move(h, g)
      PROVE  LastAddSound(store', newest') /\ Joined
  <2> DEFINE m == RemoveCurve(store, h)
             left == IF newest = h THEN Nobody ELSE newest
  <2>1. /\ h # g /\ store' = TakeOver(m, h, g)
        /\ newest' = IF newest = g THEN h ELSE IF newest = h THEN Nobody ELSE newest
    BY <1>9 DEF Move
  <2>2. StoreOK(m) /\ ~Valid(m, h) /\ \A x \in Handles \ {h} : m.at[x] = store.at[x]
    BY <1>1, RemovingKeeps
  <2>3. LastAddSound(m, left)
    BY <1>1, RemovingAges
  <2>4. left # h /\ newest' = IF left = g THEN h ELSE left
    BY <2>1, HandlesAssumption
  <2> HIDE DEF m, left
  <2>5. LastAddSound(store', newest')
    BY <2>1, <2>2, <2>3, <2>4, TakingOverAges
  <2>6. Joined
    <3>1. CASE ~Valid(m, g)
      <4>1. store' = m
        BY <2>1, <3>1 DEF TakeOver
      <4>2. \A x \in Handles : Valid(store', x) => Valid(store, x)
        BY <2>2, <4>1 DEF Valid
      <4> QED BY <1>5, <4>2
    <3>2. CASE Valid(m, g)
      <4>1. /\ store'.at = [m.at EXCEPT ![h] = m.at[g], ![g] = Nobody]
            /\ m.at \in [Handles -> Place \cup {Nobody}]
        BY <2>1, <2>2, <3>2, StoreFields DEF TakeOver, Store, StoreOK
      <4>2. Valid(store, g) /\ ~Valid(store', g)
        BY <2>1, <2>2, <3>2, <4>1 DEF Valid
      <4>3. \A x \in Handles : Added(x) => ~Valid(store', x)
        BY <4>2, OnlyAddMakesValid DEF MakesValid
      <4> QED BY <4>3 DEF Joined
    <3> QED BY <3>1, <3>2
  <2> QED BY <2>5, <2>6
<1>10. ASSUME NEW h \in Handles, NEW v \in BOOLEAN, Spacing(h, v) \/ DashLength(h, v)
       PROVE  LastAddSound(store', newest') /\ Joined
  <2>1. Ages(store, store') /\ store'.at = store.at
    BY <1>1, <1>10, SetKindAges DEF Spacing, DashLength
  <2>2. newest' = newest
    BY <1>10 DEF Spacing, DashLength, SetKind
  <2> QED BY <1>6, <2>1, <2>2
<1>11. ASSUME NEW h \in Handles, NEW v \in BOOLEAN, Merged(h, v)
       PROVE  LastAddSound(store', newest') /\ Joined
  <2>1. Ages(store, store') /\ store'.at = store.at
    BY <1>1, <1>11, MergedAges
  <2>2. newest' = newest
    BY <1>11 DEF Merged
  <2> QED BY <1>6, <2>1, <2>2
<1>12. CASE RouteOnly
  <2>1. store' = Route(store) /\ newest' = newest
    BY <1>12 DEF RouteOnly
  <2>2. LastAddSound(store', newest') /\ \A h \in Handles : Valid(store', h) => Valid(store, h)
    BY <1>1, <2>1, RoutingAges
  <2> QED BY <1>5, <2>2
<1>13. CASE Draw
  <2> DEFINE m == Route(store)
  <2>1. store' = UpdateBuffers(m) /\ newest' = newest
    BY <1>13 DEF Draw
  <2>2. StoreOK(m)
    BY <1>1, RoutingKeeps
  <2>3. LastAddSound(m, newest) /\ \A h \in Handles : Valid(m, h) => Valid(store, h)
    BY <1>1, RoutingAges
  <2> HIDE DEF m
  <2>4. Ages(m, store') /\ \A h \in Handles : Valid(store', h) => Valid(m, h)
    BY <2>1, <2>2, UpdatingAges
  <2>5. LastAddSound(store', newest')
    BY <1>3, <2>1, <2>2, <2>3, <2>4, AgingKeeps DEF StoreOK
  <2> QED BY <1>5, <2>3, <2>4, <2>5
<1>14. CASE Destroy
  <2>1. store' = EmptyRenderer
    BY <1>14 DEF Destroy
  <2>2. LastAddSound(store', newest')
    BY <2>1 DEF EmptyRenderer, LastAddSound
  <2>3. \A h \in Handles : ~Valid(store', h)
    BY <2>1 DEF EmptyRenderer, Valid
  <2> QED BY <1>5, <2>2, <2>3
<1>15. CASE UNCHANGED vars
  BY <1>1, <1>15 DEF vars
<1> QED
  BY <1>7, <1>8, <1>9, <1>10, <1>11, <1>12, <1>13, <1>14, <1>15 DEF Next

\* A merged Add() continues the curve added last or nothing, whatever was moved, routed,
\* removed and compacted since.
THEOREM AddJoinsOnlyTheNewest == Spec => JoinsOnlyTheNewest
<1>1. Init => InvAdd
  <2>1. Init => Inv
    BY EmptyStoreOK DEF Init, Inv, TypeOK, HandlesOwnTheirSlots, RemovedSlotsAreCounted,
                        StoreOK
  <2>2. Init => LastAddSound(store, newest)
    BY DEF Init, EmptyRenderer, LastAddSound
  <2> QED BY <2>1, <2>2 DEF InvAdd
<1> QED
  BY <1>1, NextAdds, PTL DEF Spec, JoinsOnlyTheNewest

===============================================================================
