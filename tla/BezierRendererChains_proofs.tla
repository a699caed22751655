---------------------- MODULE BezierRendererChains_proofs ----------------------
(***************************************************************************)
(* Proofs about the chains of curves: which curve a handle's curve continues, *)
(* and which backend draws it.  Slots move between backends and within them,  *)
(* so everything is said of handles: Before(st, h) is the handle of the curve *)
(* that the curve of h continues.  Every operation is described by what it    *)
(* does to Before, to the styles and to the places of the handles.            *)
(***************************************************************************)
EXTENDS BezierRenderer_proofs

CurveAt(st, h) == st.slots[st.at[h].renderer][st.at[h].index]

Before(st, h) ==
  IF Valid(st, h) /\ ContinuesChain(st.slots[st.at[h].renderer], st.at[h].index)
    THEN st.slots[st.at[h].renderer][st.at[h].index - 1].owner
    ELSE Nobody

SameStyle(c, d) == c.spaced = d.spaced /\ c.dashed = d.dashed

\* The handle h has the same curve in both stores, wherever its slot is.
Kept(st, m, h) ==
  /\ Valid(m, h) <=> Valid(st, h)
  /\ Valid(st, h) => SameStyle(CurveAt(m, h), CurveAt(st, h))
  /\ Before(m, h) = Before(st, h)

\* The curve of h starts a chain that another backend should draw.
Misrouted(st, h) ==
  Valid(st, h) /\ Before(st, h) = Nobody /\ KindOf(CurveAt(st, h)) # st.at[h].renderer

IsMarked(st, b, i) == st.routeAll[b] \/ \E k \in DOMAIN st.marks[b] : st.marks[b][k] = i

\* Every chain in the wrong backend is marked at its first slot: MisroutedIsMarked
\* is not inductive, since the marks of the other slots of a chain go when these do.
ChainsMarked(st) ==
  \A h \in Handles : Misrouted(st, h) => IsMarked(st, st.at[h].renderer, st.at[h].index)

-------------------------------------------------------------------------------
(***************************************************************************)
(* Chains, seen from the handles.                                           *)
(***************************************************************************)

\* The owner of a live slot is valid and there.
LEMMA OwnerOfSlot ==
  ASSUME NEW st, StoreOK(st), NEW b \in Backends, NEW i \in Live(st.slots[b])
  PROVE  LET h == st.slots[b][i].owner
         IN  /\ h \in Handles /\ Valid(st, h)
             /\ st.at[h] = [renderer |-> b, index |-> i]
             /\ CurveAt(st, h) = st.slots[b][i]
             /\ i \in 1 .. Len(st.slots[b]) /\ st.slots[b][i] \in Slot
<1> DEFINE h == st.slots[b][i].owner
<1>1. st.slots[b] \in Seq(Slot)
  BY StoreFields DEF StoreOK
<1>2. h \in Handles /\ i \in 1 .. Len(st.slots[b]) /\ st.slots[b][i] \in Slot
  BY <1>1, LiveIndices
<1>3. st.at[h] = [renderer |-> b, index |-> i]
  BY DEF StoreOK, OwnsSlots
<1> HIDE DEF h
<1>4. st.at[h] \in Place
  BY <1>1, <1>2, <1>3 DEF Place
<1>5. Valid(st, h)
  BY <1>4, NobodyAssumption DEF Valid
<1>6. CurveAt(st, h) = st.slots[b][i]
  BY <1>3 DEF CurveAt
<1> QED
  BY <1>2, <1>3, <1>5, <1>6 DEF h

LEMMA BeforeAtPlace ==
  ASSUME NEW st, NEW h \in Handles, Valid(st, h),
         NEW b, NEW i, st.at[h].renderer = b, st.at[h].index = i
  PROVE  /\ ContinuesChain(st.slots[b], i) => Before(st, h) = st.slots[b][i - 1].owner
         /\ ~ContinuesChain(st.slots[b], i) => Before(st, h) = Nobody
         /\ ContinuesChain(st.slots[b], i) <=> Before(st, h) # Nobody
  BY DEF Before, ContinuesChain

\* The curve before is a valid handle's, at the slot before.
LEMMA BeforeFacts ==
  ASSUME NEW st, StoreOK(st), NEW h \in Handles, Before(st, h) # Nobody
  PROVE  LET g == Before(st, h)
         IN  /\ g \in Handles /\ Valid(st, g) /\ Valid(st, h)
             /\ st.at[h].index > 1
             /\ st.at[g] = [renderer |-> st.at[h].renderer, index |-> st.at[h].index - 1]
             /\ g # h
             /\ CurveAt(st, h).merged
<1>1. Valid(st, h)
  BY DEF Before
<1>2. PICK b \in Backends, i \in Nat : st.at[h] = [renderer |-> b, index |-> i]
  BY <1>1, PlaceOfHandle DEF Place
<1>3. /\ ContinuesChain(st.slots[b], i) /\ Before(st, h) = st.slots[b][i - 1].owner
      /\ CurveAt(st, h) = st.slots[b][i]
  BY <1>1, <1>2 DEF Before, CurveAt
<1>4. st.slots[b] \in Seq(Slot) /\ i \in 1 .. Len(st.slots[b])
  BY <1>1, <1>2, PlaceOfHandle
<1>5. i > 1 /\ st.slots[b][i].merged /\ st.slots[b][i - 1].owner # Nobody
  BY <1>3 DEF ContinuesChain
<1>6. i - 1 \in Live(st.slots[b])
  BY <1>4, <1>5 DEF Live
<1>7. LET g == Before(st, h)
      IN  g \in Handles /\ Valid(st, g) /\ st.at[g] = [renderer |-> b, index |-> i - 1]
  BY <1>3, <1>6, OwnerOfSlot
<1>8. Before(st, h) # h
  BY <1>2, <1>7
<1> QED
  BY <1>1, <1>2, <1>3, <1>5, <1>7, <1>8

\* Neighbouring places and a merged curve make a continuation.
LEMMA BeforeByPlace ==
  ASSUME NEW st, StoreOK(st), NEW h \in Handles, NEW g \in Handles,
         Valid(st, h), Valid(st, g), st.at[g].renderer = st.at[h].renderer,
         st.at[g].index + 1 = st.at[h].index, CurveAt(st, h).merged
  PROVE  Before(st, h) = g
<1>1. PICK b \in Backends, i \in Nat : st.at[h] = [renderer |-> b, index |-> i]
  BY PlaceOfHandle DEF Place
<1>2. st.at[g].renderer = b /\ st.at[g].index \in 1 .. Len(st.slots[b])
      /\ st.slots[b][st.at[g].index].owner = g /\ st.slots[b] \in Seq(Slot)
  BY <1>1, PlaceOfHandle
<1>3. st.slots[b][i].owner = h /\ st.slots[b][i].merged
  BY <1>1, PlaceOfHandle DEF CurveAt
<1>4. i > 1 /\ st.at[g].index = i - 1
  BY <1>1, <1>2
<1>5. ContinuesChain(st.slots[b], i)
  BY <1>2, <1>3, <1>4, HandlesAssumption DEF ContinuesChain
<1> QED
  BY <1>1, <1>2, <1>4, <1>5 DEF Before

\* A curve is continued by one other at most.
LEMMA BeforeInjective ==
  ASSUME NEW st, StoreOK(st), NEW h \in Handles, NEW x \in Handles,
         Before(st, h) # Nobody, Before(st, h) = Before(st, x)
  PROVE  h = x
<1>1. PICK g : g = Before(st, h)
  OBVIOUS
<1>2. /\ Valid(st, h)
      /\ st.at[g] = [renderer |-> st.at[h].renderer, index |-> st.at[h].index - 1]
  BY <1>1, BeforeFacts
<1>3. /\ Valid(st, x)
      /\ st.at[g] = [renderer |-> st.at[x].renderer, index |-> st.at[x].index - 1]
  BY <1>1, BeforeFacts
<1>4. st.at[h].renderer = st.at[x].renderer /\ st.at[h].index - 1 = st.at[x].index - 1
  BY <1>2, <1>3
<1>5. st.at[h] \in Place /\ st.at[x] \in Place
  BY <1>2, <1>3, PlaceOfHandle
<1>6. st.at[h].index = st.at[x].index
  BY <1>4, <1>5 DEF Place
<1>7. st.at[h] = st.at[x]
  BY <1>4, <1>5, <1>6 DEF Place
<1> QED
  BY <1>2, <1>7, PlacesDiffer

\* The strokes, by handles.
LEMMA JoinsByHandle ==
  ASSUME NEW st, StoreOK(st)
  PROVE  Joins(st) = {p \in Handles \X Handles : Before(st, p[2]) = p[1]}
<1> DEFINE byHandle == {p \in Handles \X Handles : Before(st, p[2]) = p[1]}
<1>1. \A b \in Backends : st.slots[b] \in Seq(Slot)
  BY StoreFields DEF StoreOK
<1>2. ASSUME NEW b \in Backends, NEW i \in DOMAIN st.slots[b], ContinuesChain(st.slots[b], i)
      PROVE  <<st.slots[b][i - 1].owner, st.slots[b][i].owner>> \in byHandle
  <2>1. i \in Live(st.slots[b]) /\ i > 1 /\ st.slots[b][i - 1].owner # Nobody
    BY <1>2 DEF Live, ContinuesChain
  <2>2. i - 1 \in Live(st.slots[b])
    BY <1>1, <2>1 DEF Live
  <2> DEFINE h == st.slots[b][i].owner
             g == st.slots[b][i - 1].owner
  <2>3. h \in Handles /\ Valid(st, h) /\ st.at[h] = [renderer |-> b, index |-> i]
    BY <2>1, OwnerOfSlot
  <2>4. g \in Handles
    BY <2>2, OwnerOfSlot
  <2> HIDE DEF h, g
  <2>5. Before(st, h) = g
    BY <1>2, <2>3 DEF Before, g
  <2> QED
    BY <2>3, <2>4, <2>5 DEF h, g
<1>3. ASSUME NEW g \in Handles, NEW h \in Handles, Before(st, h) = g
      PROVE  \E b \in Backends : \E i \in DOMAIN st.slots[b] :
               /\ ContinuesChain(st.slots[b], i)
               /\ <<st.slots[b][i - 1].owner, st.slots[b][i].owner>> = <<g, h>>
  <2>1. Valid(st, h)
    BY <1>3, HandlesAssumption DEF Before
  <2>2. PICK b \in Backends, i \in Nat : st.at[h] = [renderer |-> b, index |-> i]
    BY <2>1, PlaceOfHandle DEF Place
  <2>3. ContinuesChain(st.slots[b], i) /\ st.slots[b][i - 1].owner = g
    BY <1>3, <2>1, <2>2, HandlesAssumption DEF Before
  <2>4. i \in DOMAIN st.slots[b] /\ st.slots[b][i].owner = h
    BY <2>1, <2>2, PlaceOfHandle
  <2> QED
    BY <2>3, <2>4
<1>4. Joins(st) \subseteq byHandle
  BY <1>2 DEF Joins
<1>5. byHandle \subseteq Joins(st)
  BY <1>3 DEF Joins
<1> QED
  BY <1>4, <1>5

-------------------------------------------------------------------------------
(***************************************************************************)
(* Route() takes whole chains.                                              *)
(***************************************************************************)

\* A slot and the one it continues are visited, leave and go to a backend together.
LEMMA WholeChains ==
  ASSUME NEW st \in Store, NEW home \in Backends,
         NEW i \in 1 .. Len(st.slots[home]), ContinuesChain(st.slots[home], i)
  PROVE  /\ i - 1 \in 1 .. Len(st.slots[home])
         /\ i \in Gone(st, home) <=> i - 1 \in Gone(st, home)
         /\ \A b \in Backends : i \in Leaving(st, home, b) <=> i - 1 \in Leaving(st, home, b)
<1> DEFINE s == st.slots[home]
<1>1. s \in Seq(Slot) /\ Len(s) \in Nat /\ DOMAIN s = 1 .. Len(s)
  BY StoreFields
<1>2. i \in Nat \ {0}
  OBVIOUS
<1>3. i - 1 \in Nat \ {0} /\ ChainFirst(s, i) = ChainFirst(s, i - 1)
  BY <1>2, ChainSteps
<1>4. i - 1 \in 1 .. Len(s)
  BY <1>1, <1>3
<1>5. s[i].owner # Nobody /\ s[i - 1].owner # Nobody
  BY DEF ContinuesChain
<1>6. i \in Live(s) /\ i - 1 \in Live(s)
  BY <1>1, <1>4, <1>5 DEF Live
<1>7. i \in Visited(st, home) <=> i - 1 \in Visited(st, home)
  BY <1>3, <1>6 DEF Visited
<1>8. Home(s, i) = Home(s, i - 1)
  BY <1>3 DEF Home
<1>9. i \in Gone(st, home) <=> i - 1 \in Gone(st, home)
  BY <1>7, <1>8 DEF Gone
<1> QED
  BY <1>4, <1>8, <1>9 DEF Leaving

\* The result of RouteHome when a chain leaves.
LEMMA RoutedFacts ==
  ASSUME NEW st \in Store, NEW home \in Backends, Gone(st, home) # {}
  PROVE  LET m == RouteHome(st, home)
         IN  /\ m.slots = RoutedSlots(st, home)
             /\ m.at = RoutedPlaces(st, home)
<1> DEFINE unmarked == [st EXCEPT !.marks[home] = <<>>, !.routeAll[home] = FALSE]
           m == RouteHome(st, home)
           counts == [unmarked.removed EXCEPT ![home] = @ + Cardinality(Gone(st, home))]
           needs == [b \in Backends |->
               st.needResize[b] \/ Leaving(st, home, b) # {} \/ b = home]
           last == IF unmarked.lastAdded # Nobody
                      /\ Leaving(st, home, unmarked.lastAdded.backend) # {}
                     THEN Nobody ELSE unmarked.lastAdded
<1>1. m = [unmarked EXCEPT !.slots = RoutedSlots(st, home),
                           !.removed = counts,
                           !.needResize = needs,
                           !.at = RoutedPlaces(st, home),
                           !.lastAdded = last]
  BY DEF RouteHome
<1>2. DOMAIN unmarked = DOMAIN st
  OBVIOUS
<1> HIDE DEF m, unmarked, needs, last, counts
<1> QED
  BY <1>1, <1>2 DEF Store, m

LEMMA RoutedMarks ==
  ASSUME NEW st \in Store, NEW home \in Backends
  PROVE  LET m == RouteHome(st, home)
         IN  /\ m.marks = [st.marks EXCEPT ![home] = <<>>]
             /\ m.routeAll = [st.routeAll EXCEPT ![home] = FALSE]
<1> DEFINE unmarked == [st EXCEPT !.marks[home] = <<>>, !.routeAll[home] = FALSE]
           m == RouteHome(st, home)
           counts == [unmarked.removed EXCEPT ![home] = @ + Cardinality(Gone(st, home))]
           needs == [b \in Backends |->
               st.needResize[b] \/ Leaving(st, home, b) # {} \/ b = home]
           last == IF unmarked.lastAdded # Nobody
                      /\ Leaving(st, home, unmarked.lastAdded.backend) # {}
                     THEN Nobody ELSE unmarked.lastAdded
<1>1. \/ m = unmarked
      \/ m = [unmarked EXCEPT !.slots = RoutedSlots(st, home),
                              !.removed = counts,
                              !.needResize = needs,
                              !.at = RoutedPlaces(st, home),
                              !.lastAdded = last]
  BY DEF RouteHome
<1>2. /\ unmarked.marks = [st.marks EXCEPT ![home] = <<>>]
      /\ unmarked.routeAll = [st.routeAll EXCEPT ![home] = FALSE]
      /\ DOMAIN unmarked = DOMAIN st
  BY DEF Store
<1> HIDE DEF m, unmarked, needs, last, counts
<1>3. m.marks = unmarked.marks /\ m.routeAll = unmarked.routeAll
  BY <1>1, <1>2 DEF Store
<1> QED
  BY <1>2, <1>3 DEF m

\* Whatever stays where it was continues what it did.
LEMMA StayingChains ==
  ASSUME NEW st, StoreOK(st), NEW home \in Backends, Gone(st, home) # {},
         NEW b \in Backends, NEW i \in 1 .. Len(st.slots[b]),
         b = home => i \notin Gone(st, home)
  PROVE  LET s == st.slots[b]
             t == RouteHome(st, home).slots[b]
         IN  /\ t[i] = s[i]
             /\ ContinuesChain(t, i) <=> ContinuesChain(s, i)
             /\ ContinuesChain(s, i) => t[i - 1] = s[i - 1]
<1> DEFINE s == st.slots[b]
           t == RouteHome(st, home).slots[b]
<1>1. st \in Store /\ s \in Seq(Slot) /\ Len(s) \in Nat /\ DOMAIN s = 1 .. Len(s)
  BY StoreFields DEF StoreOK
<1>2. RouteHome(st, home).slots = RoutedSlots(st, home)
  BY <1>1, RoutedFacts
<1>3. CASE b = home
  <2>1. t = [j \in DOMAIN s |-> IF j \in Gone(st, home) THEN Emptied ELSE s[j]]
    BY <1>2, <1>3 DEF RoutedSlots
  <2> HIDE DEF s, t
  <2>2. t[i] = s[i]
    BY <1>1, <1>3, <2>1 DEF s
  <2>3. ASSUME ContinuesChain(s, i)
        PROVE  t[i - 1] = s[i - 1]
    <3>1. i - 1 \in 1 .. Len(s) /\ i - 1 \notin Gone(st, home)
      BY <1>1, <1>3, <2>3, WholeChains DEF s
    <3> QED
      BY <1>1, <2>1, <3>1
  <2>4. ASSUME ContinuesChain(t, i)
        PROVE  ContinuesChain(s, i)
    <3>1. i > 1 /\ t[i].owner # Nobody /\ t[i].merged /\ t[i - 1].owner # Nobody
      BY <2>4 DEF ContinuesChain
    <3>2. i - 1 \in DOMAIN s
      BY <1>1, <3>1 DEF s
    <3>3. t[i - 1] = s[i - 1]
      BY <2>1, <3>1, <3>2, EmptiedIsSlot
    <3> QED
      BY <2>2, <3>1, <3>3 DEF ContinuesChain
  <2>5. ContinuesChain(s, i) => ContinuesChain(t, i)
    BY <2>2, <2>3 DEF ContinuesChain
  <2> QED
    BY <2>2, <2>3, <2>4, <2>5 DEF s, t
<1>4. CASE b # home
  <2>1. t = s \o Arrivals(st, home, b)
    BY <1>2, <1>4 DEF RoutedSlots
  <2>2. Arrivals(st, home, b) \in Seq(Slot)
    BY <1>1, ArrivalsFacts
  <2> HIDE DEF s, t
  <2>3. \A j \in 1 .. Len(s) : t[j] = s[j]
    BY <1>1, <2>1, <2>2
  <2>4. i > 1 => i - 1 \in 1 .. Len(s)
    BY <1>1 DEF s
  <2>5. i \in 1 .. Len(s)
    BY DEF s
  <2> QED
    BY <2>3, <2>4, <2>5 DEF ContinuesChain, s, t
<1> QED
  BY <1>3, <1>4

\* A chain that arrives is the chain that left.
LEMMA ArrivingChains ==
  ASSUME NEW st, StoreOK(st), NEW home \in Backends, Gone(st, home) # {},
         NEW b \in Backends \ {home}, NEW i \in Leaving(st, home, b)
  PROVE  LET s == st.slots[home]
             t == RouteHome(st, home).slots[b]
             k == Len(st.slots[b]) + Rank(Leaving(st, home, b), i)
         IN  /\ t[k].owner = s[i].owner /\ SameStyle(t[k], s[i])
             /\ ContinuesChain(t, k) <=> ContinuesChain(s, i)
             /\ ContinuesChain(s, i) => t[k - 1].owner = s[i - 1].owner
<1> DEFINE s == st.slots[home]
           L == Leaving(st, home, b)
           a == Arrivals(st, home, b)
           moved == Ascending(L)
           n == Len(st.slots[b])
           r == Rank(L, i)
           t == RouteHome(st, home).slots[b]
<1>1. /\ st \in Store /\ s \in Seq(Slot) /\ st.slots[b] \in Seq(Slot) /\ n \in Nat
      /\ L \in SUBSET (1 .. Len(s)) /\ Len(s) \in Nat /\ L \in SUBSET Live(s)
      /\ DOMAIN s = 1 .. Len(s)
  BY StoreFields, LeavingFacts, LiveIndices DEF StoreOK, Leaving
<1>2. /\ Cardinality(L) \in Nat
      /\ moved \in [1 .. Cardinality(L) -> L]
      /\ \A j \in L : Rank(L, j) \in 1 .. Cardinality(L) /\ moved[Rank(L, j)] = j
  BY <1>1, AscendingLists
<1>3. a = [k \in 1 .. Cardinality(L) |->
             [s[moved[k]] EXCEPT !.merged = @ /\ moved[k] # ChainFirst(s, moved[k])]]
  BY <1>2 DEF Arrivals
<1>4. a \in Seq(Slot) /\ Len(a) = Cardinality(L)
  BY <1>1, ArrivalsFacts
<1>5. RouteHome(st, home).slots[b] = st.slots[b] \o a
  <2>1. RouteHome(st, home).slots = RoutedSlots(st, home)
    BY <1>1, RoutedFacts
  <2> QED
    BY <2>1 DEF RoutedSlots
<1>6. ASSUME NEW j \in L
      PROVE  /\ a[Rank(L, j)].owner = s[j].owner
             /\ SameStyle(a[Rank(L, j)], s[j])
             /\ a[Rank(L, j)].merged = (s[j].merged /\ ContinuesChain(s, j))
             /\ a[Rank(L, j)].owner # Nobody
             /\ s[j].owner # Nobody
  <2>1. Rank(L, j) \in 1 .. Cardinality(L) /\ moved[Rank(L, j)] = j
    BY <1>2
  <2>2. s[j] \in Slot /\ j \in Live(s) /\ j \in Nat \ {0}
    BY <1>1, LiveIndices
  <2>3. a[Rank(L, j)] = [s[j] EXCEPT !.merged = @ /\ j # ChainFirst(s, j)]
    BY <1>3, <2>1
  <2>4. j # ChainFirst(s, j) <=> ContinuesChain(s, j)
    BY <2>2, ChainSteps
  <2> HIDE DEF a, s, L
  <2> QED
    BY <2>2, <2>3, <2>4 DEF Slot, SameStyle, Live
<1>7. r \in 1 .. Len(a) /\ i \in L /\ i \in Nat \ {0}
  BY <1>1, <1>2, <1>4
<1>8. ASSUME ContinuesChain(s, i)
      PROVE  i - 1 \in L /\ r = Rank(L, i - 1) + 1 /\ Rank(L, i - 1) \in 1 .. Len(a)
  <2>1. i - 1 \in L
    BY <1>1, <1>8, WholeChains
  <2>2. Rank(L, i) = Rank(L, i - 1) + 1
    BY <1>1, <2>1, RankOfNext
  <2> QED
    BY <1>2, <1>4, <2>1, <2>2
<1> HIDE DEF a, s, L, moved, n, r, t
<1>9. /\ \A k \in 1 .. Len(a) : t[n + k] = a[k]
      /\ n + r > 0
  BY <1>1, <1>4, <1>5, <1>7 DEF n, t
<1>10. t[n + r].owner = s[i].owner /\ SameStyle(t[n + r], s[i])
  BY <1>6, <1>7, <1>9 DEF r
<1>11. ASSUME ContinuesChain(s, i)
       PROVE  ContinuesChain(t, n + r) /\ t[(n + r) - 1].owner = s[i - 1].owner
  <2> DEFINE q == Rank(L, i - 1)
  <2>1. i - 1 \in L /\ r = q + 1 /\ q \in 1 .. Len(a)
    BY <1>8, <1>11
  <2>2. a[q].owner = s[i - 1].owner /\ a[q].owner # Nobody
    BY <1>6, <2>1
  <2> HIDE DEF q
  <2>3. t[n + q] = a[q] /\ (n + r) - 1 = n + q /\ n + r > 1
    BY <1>1, <1>4, <1>9, <2>1
  <2>4. t[n + r].merged /\ t[n + r].owner # Nobody
    <3>1. a[r].merged = (s[i].merged /\ ContinuesChain(s, i)) /\ a[r].owner # Nobody
      BY <1>6, <1>7 DEF r
    <3>2. s[i].merged
      BY <1>11 DEF ContinuesChain
    <3> QED
      BY <1>7, <1>9, <1>11, <3>1, <3>2
  <2>5. t[(n + r) - 1].owner = s[i - 1].owner /\ t[(n + r) - 1].owner # Nobody
    BY <2>2, <2>3
  <2> QED
    BY <2>3, <2>4, <2>5, Zenon DEF ContinuesChain
<1>12. ASSUME ContinuesChain(t, n + r)
       PROVE  ContinuesChain(s, i)
  <2>1. t[n + r].merged
    BY <1>12 DEF ContinuesChain
  <2>2. a[r].merged = (s[i].merged /\ ContinuesChain(s, i))
    BY <1>6, <1>7 DEF r
  <2> QED
    BY <1>7, <1>9, <2>1, <2>2
<1>13. ContinuesChain(t, n + r) <=> ContinuesChain(s, i)
  BY <1>11, <1>12
<1>14. ContinuesChain(s, i) => t[(n + r) - 1].owner = s[i - 1].owner
  BY <1>11
<1> QED
  BY <1>10, <1>13, <1>14, Zenon DEF s, t, n, r, L

\* A compaction keeps the chains.
LEMMA CompactedChains ==
  ASSUME NEW s \in Seq(Slot), NEW i \in Live(s)
  PROVE  LET c == CompactRemoved(s)
             k == Rank(Live(s), i)
         IN  /\ SameStyle(c[k], s[i])
             /\ ContinuesChain(c, k) <=> ContinuesChain(s, i)
             /\ ContinuesChain(s, i) => c[k - 1].owner = s[i - 1].owner
<1> DEFINE L == Live(s)
           c == CompactRemoved(s)
           n == Cardinality(L)
           a == Ascending(L)
           k == Rank(L, i)
<1>1. /\ L \in SUBSET (1 .. Len(s)) /\ Len(s) \in Nat /\ DOMAIN s = 1 .. Len(s)
      /\ \A j \in L : s[j] \in Slot /\ s[j].owner \in Handles
  BY LiveIndices
<1>2. /\ n \in Nat
      /\ a \in [1 .. n -> L]
      /\ \A j \in L : Rank(L, j) \in 1 .. n /\ a[Rank(L, j)] = j
  BY <1>1, AscendingLists
<1>3. c = [j \in 1 .. n |->
             [s[a[j]] EXCEPT !.merged = @ /\ (a[j] = 1 \/ s[a[j] - 1].owner # Nobody)]]
  BY <1>2 DEF CompactRemoved
<1>4. i \in L /\ L = Live(s)
  OBVIOUS
<1> HIDE DEF L, c, n, a, k
<1>5. ASSUME NEW j \in L
      PROVE  /\ SameStyle(c[Rank(L, j)], s[j])
             /\ c[Rank(L, j)].owner = s[j].owner
             /\ c[Rank(L, j)].owner # Nobody
             /\ c[Rank(L, j)].merged = (s[j].merged /\ (j = 1 \/ s[j - 1].owner # Nobody))
  <2>1. c[Rank(L, j)]
          = [s[j] EXCEPT !.merged = @ /\ (j = 1 \/ s[j - 1].owner # Nobody)]
    BY <1>2, <1>3
  <2>2. s[j] \in Slot /\ s[j].owner # Nobody
    BY <1>1, HandlesAssumption
  <2> QED
    BY <2>1, <2>2 DEF Slot, SameStyle
<1>6. k \in 1 .. n /\ i \in 1 .. Len(s)
  BY <1>1, <1>2, <1>4 DEF k
<1>7. ASSUME ContinuesChain(s, i)
      PROVE  ContinuesChain(c, k) /\ c[k - 1].owner = s[i - 1].owner
  <2>1. i > 1 /\ s[i].merged /\ s[i - 1].owner # Nobody
    BY <1>7 DEF ContinuesChain
  <2>2. i - 1 \in L
    BY <1>1, <1>4, <1>6, <2>1 DEF Live
  <2> DEFINE q == Rank(L, i - 1)
  <2>3. k = q + 1 /\ q \in 1 .. n
    BY <1>1, <1>2, <1>4, <2>2, RankOfNext DEF k
  <2>4. c[q].owner = s[i - 1].owner /\ c[q].owner # Nobody
    BY <1>5, <2>2
  <2>5. c[k].merged /\ c[k].owner # Nobody
    <3>1. c[k].merged = (s[i].merged /\ (i = 1 \/ s[i - 1].owner # Nobody)) /\ c[k].owner # Nobody
      BY <1>4, <1>5 DEF k
    <3> QED
      BY <2>1, <3>1
  <2> HIDE DEF q
  <2>6. k - 1 = q /\ k > 1
    BY <1>2, <2>3
  <2> QED
    BY <2>4, <2>5, <2>6, Zenon DEF ContinuesChain
<1>8. ASSUME ContinuesChain(c, k)
      PROVE  ContinuesChain(s, i)
  <2>1. k > 1 /\ c[k].merged
    BY <1>8 DEF ContinuesChain
  <2>2. /\ c[k].merged = (s[i].merged /\ (i = 1 \/ s[i - 1].owner # Nobody))
        /\ s[i].owner # Nobody
    BY <1>1, <1>4, <1>5, HandlesAssumption DEF k
  <2>3. s[i].merged /\ (i = 1 \/ s[i - 1].owner # Nobody)
    BY <2>1, <2>2, Zenon
  <2>4. i # 1
    <3> SUFFICES ASSUME i = 1
                 PROVE  FALSE
      OBVIOUS
    <3>1. {j \in L : j <= i} = {i}
      BY <1>1, <1>4
    <3>2. k = 1
      BY <3>1, FS_Singleton DEF k, Rank
    <3> QED
      BY <2>1, <3>2
  <2>5. i > 1
    BY <1>6, <2>4
  <2> QED
    BY <2>2, <2>3, <2>4, <2>5, Zenon DEF ContinuesChain
<1>9. SameStyle(c[k], s[i])
  BY <1>4, <1>5 DEF k
<1>10. ContinuesChain(c, k) <=> ContinuesChain(s, i)
  BY <1>7, <1>8
<1>11. ContinuesChain(s, i) => c[k - 1].owner = s[i - 1].owner
  BY <1>7
<1> QED
  BY <1>9, <1>10, <1>11, Zenon DEF c, k, L

-------------------------------------------------------------------------------
(***************************************************************************)
(* Route() and compaction, seen from the handles: every curve is kept.       *)
(***************************************************************************)

\* A handle whose place has the same slots around it.
LEMMA KeptAtPlace ==
  ASSUME NEW st, NEW m, NEW h \in Handles,
         NEW b, NEW i, NEW c, NEW k, Valid(st, h), Valid(m, h),
         st.at[h].renderer = b, st.at[h].index = i, m.at[h].renderer = c, m.at[h].index = k,
         SameStyle(m.slots[c][k], st.slots[b][i]),
         ContinuesChain(m.slots[c], k) <=> ContinuesChain(st.slots[b], i),
         ContinuesChain(st.slots[b], i) =>
           m.slots[c][k - 1].owner = st.slots[b][i - 1].owner
  PROVE  Kept(st, m, h)
  BY Zenon DEF Kept, Before, CurveAt

LEMMA KeptUnplaced ==
  ASSUME NEW st, NEW m, NEW h \in Handles, ~Valid(st, h), ~Valid(m, h)
  PROVE  Kept(st, m, h)
  BY DEF Kept, Before

LEMMA SamePlaces ==
  ASSUME NEW st, NEW m, m.slots = st.slots, m.at = st.at, NEW h \in Handles
  PROVE  /\ Kept(st, m, h)
         /\ Valid(m, h) <=> Valid(st, h)
         /\ CurveAt(m, h) = CurveAt(st, h)
         /\ Before(m, h) = Before(st, h)
  BY DEF Kept, SameStyle, CurveAt, Before, Valid

LEMMA NothingGone ==
  ASSUME NEW st \in Store, NEW home \in Backends, Gone(st, home) = {}
  PROVE  RouteHome(st, home).slots = st.slots /\ RouteHome(st, home).at = st.at
  BY DEF RouteHome, Store

\* Where routing one backend leaves a handle.
LEMMA RoutedPlace ==
  ASSUME NEW st, StoreOK(st), NEW home \in Backends, NEW h \in Handles, Valid(st, h)
  PROVE  LET m == RouteHome(st, home)
             b == st.at[h].renderer
             i == st.at[h].index
         IN  /\ ~(b = home /\ i \in Gone(st, home)) => m.at[h] = st.at[h]
             /\ b = home /\ i \in Gone(st, home) =>
                  LET d == Home(st.slots[home], i)
                  IN  /\ d \in Backends \ {home} /\ i \in Leaving(st, home, d)
                      /\ m.at[h] \in Place
                      /\ m.at[h].renderer = d
                      /\ m.at[h].index = Len(st.slots[d]) + Rank(Leaving(st, home, d), i)
<1> DEFINE m == RouteHome(st, home)
           b == st.at[h].renderer
           i == st.at[h].index
           d == Home(st.slots[home], i)
<1>1. st \in Store
  BY DEF StoreOK
<1>2. CASE Gone(st, home) = {}
  BY <1>1, <1>2, NothingGone
<1>3. CASE Gone(st, home) # {}
  <2>1. m.at = RoutedPlaces(st, home)
    BY <1>1, <1>3, RoutedFacts
  <2>2. ASSUME ~(b = home /\ i \in Gone(st, home))
        PROVE  m.at[h] = st.at[h]
    BY <2>1, <2>2 DEF RoutedPlaces
  <2>3. ASSUME b = home, i \in Gone(st, home)
        PROVE  /\ d \in Backends \ {home} /\ i \in Leaving(st, home, d)
               /\ m.at[h] = [renderer |-> d,
                             index |-> Len(st.slots[d]) + Rank(Leaving(st, home, d), i)]
    BY <2>1, <2>3, KindIsBackend DEF RoutedPlaces, Gone, Leaving, Home
  <2>4. ASSUME b = home, i \in Gone(st, home)
        PROVE  m.at[h] \in Place
    <3>1. d \in Backends /\ i \in Leaving(st, home, d)
      BY <2>3, <2>4
    <3>2. Len(st.slots[d]) \in Nat
      BY <1>1, <3>1, StoreFields
    <3>3. Rank(Leaving(st, home, d), i) \in Nat
      BY <1>1, <3>1, ArrivalsFacts
    <3>4. m.at[h] = [renderer |-> d,
                     index |-> Len(st.slots[d]) + Rank(Leaving(st, home, d), i)]
      BY <2>3, <2>4
    <3> HIDE DEF d, i, b, m
    <3> QED
      BY <3>1, <3>2, <3>3, <3>4 DEF Place
  <2> QED
    BY <2>2, <2>3, <2>4
<1> QED
  BY <1>2, <1>3

LEMMA RoutingHomeKept ==
  ASSUME NEW st, StoreOK(st), NEW home \in Backends, NEW h \in Handles
  PROVE  Kept(st, RouteHome(st, home), h)
<1> DEFINE m == RouteHome(st, home)
<1>1. st \in Store
  BY DEF StoreOK
<1>2. CASE Gone(st, home) = {}
  BY <1>1, <1>2, NothingGone, SamePlaces
<1>3. CASE Gone(st, home) # {} /\ ~Valid(st, h)
  <2>1. m.at = RoutedPlaces(st, home)
    BY <1>1, <1>3, RoutedFacts
  <2>2. ~Valid(m, h)
    BY <1>3, <2>1 DEF RoutedPlaces, Valid
  <2> QED
    BY <1>3, <2>2, KeptUnplaced
<1>4. CASE Gone(st, home) # {} /\ Valid(st, h)
  <2> DEFINE b == st.at[h].renderer
             i == st.at[h].index
             d == Home(st.slots[home], i)
             k == Len(st.slots[d]) + Rank(Leaving(st, home, d), i)
  <2>1. b \in Backends /\ i \in 1 .. Len(st.slots[b])
    BY <1>4, PlaceOfHandle
  <2>2. CASE b = home /\ i \in Gone(st, home)
    <3>1. /\ d \in Backends \ {home} /\ i \in Leaving(st, home, d)
          /\ m.at[h] \in Place /\ m.at[h].renderer = d /\ m.at[h].index = k
      BY <1>4, <2>2, RoutedPlace
    <3>2. Valid(m, h)
      BY <3>1, NobodyAssumption DEF Valid
    <3>3. /\ SameStyle(m.slots[d][k], st.slots[home][i])
          /\ ContinuesChain(m.slots[d], k) <=> ContinuesChain(st.slots[home], i)
          /\ ContinuesChain(st.slots[home], i) =>
               m.slots[d][k - 1].owner = st.slots[home][i - 1].owner
      BY <1>4, <3>1, ArrivingChains
    <3> HIDE DEF m, d, i, k, b
    <3> QED
      BY <1>4, <2>2, <3>1, <3>2, <3>3, KeptAtPlace DEF m, b, i
  <2>3. CASE ~(b = home /\ i \in Gone(st, home))
    <3>1. m.at[h] = st.at[h]
      BY <1>4, <2>3, RoutedPlace
    <3>2. Valid(m, h) /\ m.at[h].renderer = b /\ m.at[h].index = i
      BY <1>4, <3>1 DEF Valid
    <3> HIDE DEF i, b
    <3>3. /\ m.slots[b][i] = st.slots[b][i]
          /\ ContinuesChain(m.slots[b], i) <=> ContinuesChain(st.slots[b], i)
          /\ ContinuesChain(st.slots[b], i) => m.slots[b][i - 1] = st.slots[b][i - 1]
      BY <1>4, <2>1, <2>3, StayingChains
    <3> HIDE DEF m
    <3>4. SameStyle(m.slots[b][i], st.slots[b][i])
      BY <3>3 DEF SameStyle
    <3> QED
      BY <1>4, <3>2, <3>3, <3>4, KeptAtPlace DEF m, b, i
  <2> QED
    BY <2>2, <2>3
<1> QED
  BY <1>2, <1>3, <1>4

LEMMA KeptTransitive ==
  ASSUME NEW s, NEW t, NEW u, NEW h \in Handles, Kept(s, t, h), Kept(t, u, h)
  PROVE  Kept(s, u, h)
  BY DEF Kept, SameStyle

LEMMA RoutingKept ==
  ASSUME NEW st, StoreOK(st), NEW h \in Handles
  PROVE  Kept(st, Route(st), h)
<1> DEFINE one == RouteHome(st, Solid)
           two == RouteHome(one, Patterned)
           three == RouteHome(two, Dotted)
<1>1. Solid \in Backends /\ Patterned \in Backends /\ Dotted \in Backends
  BY DEF Backends
<1>2. StoreOK(one) /\ Kept(st, one, h)
  BY <1>1, RoutingHomeKeeps, RoutingHomeKept
<1> HIDE DEF one
<1>3. StoreOK(two) /\ Kept(one, two, h)
  BY <1>1, <1>2, RoutingHomeKeeps, RoutingHomeKept
<1> HIDE DEF two
<1>4. Kept(two, three, h)
  BY <1>1, <1>3, RoutingHomeKept
<1>5. Route(st) = three
  BY DEF Route, one, two
<1> HIDE DEF three
<1> QED
  BY <1>2, <1>3, <1>4, <1>5, KeptTransitive

LEMMA UpdatingKept ==
  ASSUME NEW st, StoreOK(st), NEW h \in Handles
  PROVE  /\ Kept(st, UpdateBuffers(st), h)
         /\ Valid(st, h) => UpdateBuffers(st).at[h].renderer = st.at[h].renderer
<1> DEFINE m == UpdateBuffers(st)
           drawn(b) == Count(st, b) > 0
           compacts(b) == drawn(b) /\ st.needResize[b] /\ st.removed[b] > 0
<1>1. st \in Store /\ \A b \in Backends : st.slots[b] \in Seq(Slot)
  BY StoreFields DEF StoreOK
<1>2. m.slots = [b \in Backends |->
                   IF compacts(b) THEN CompactRemoved(st.slots[b]) ELSE st.slots[b]]
  BY <1>1 DEF UpdateBuffers, Store
<1>3. m.at = [x \in Handles |->
                IF Valid(st, x) /\ compacts(st.at[x].renderer)
                  THEN [renderer |-> st.at[x].renderer,
                        index |-> Rank(Live(st.slots[st.at[x].renderer]), st.at[x].index)]
                  ELSE st.at[x]]
  BY <1>1 DEF UpdateBuffers, Store
<1> HIDE DEF m, compacts
<1>4. CASE ~Valid(st, h)
  <2>1. ~Valid(m, h)
    BY <1>3, <1>4 DEF Valid
  <2> QED
    BY <1>4, <2>1, KeptUnplaced DEF m
<1>5. CASE Valid(st, h)
  <2>1. PICK b, i : b = st.at[h].renderer /\ i = st.at[h].index
    OBVIOUS
  <2>2. b \in Backends /\ i \in Live(st.slots[b])
    BY <1>5, <2>1, PlaceOfHandle
  <2>3. CASE compacts(b)
    <3> DEFINE k == Rank(Live(st.slots[b]), i)
    <3>1. m.at[h] = [renderer |-> b, index |-> k]
      BY <1>3, <1>5, <2>1, <2>3
    <3>2. m.slots[b] = CompactRemoved(st.slots[b])
      BY <1>2, <2>2, <2>3
    <3>3. /\ SameStyle(m.slots[b][k], st.slots[b][i])
          /\ ContinuesChain(m.slots[b], k) <=> ContinuesChain(st.slots[b], i)
          /\ ContinuesChain(st.slots[b], i) =>
               m.slots[b][k - 1].owner = st.slots[b][i - 1].owner
      BY <1>1, <2>2, <3>2, CompactedChains
    <3>4. k \in Nat
      BY <1>1, <2>2, CompactionFacts
    <3> HIDE DEF k
    <3>5. m.at[h] \in Place /\ m.at[h].renderer = b /\ m.at[h].index = k
      BY <2>2, <3>1, <3>4 DEF Place
    <3>6. Valid(m, h)
      BY <3>5, NobodyAssumption DEF Valid
    <3>7. Kept(st, m, h)
      BY <1>5, <2>1, <3>3, <3>5, <3>6, KeptAtPlace
    <3> QED
      BY <2>1, <3>5, <3>7 DEF m
  <2>4. CASE ~compacts(b)
    <3>1. m.at[h] = st.at[h] /\ m.slots[b] = st.slots[b]
      BY <1>2, <1>3, <2>1, <2>2, <2>4
    <3>2. Valid(m, h) /\ m.at[h].renderer = b /\ m.at[h].index = i
      BY <1>5, <2>1, <3>1 DEF Valid
    <3>3. SameStyle(m.slots[b][i], st.slots[b][i])
      BY <3>1 DEF SameStyle
    <3>4. Kept(st, m, h)
      BY <1>5, <2>1, <3>1, <3>2, <3>3, KeptAtPlace
    <3> QED
      BY <2>1, <3>2, <3>4 DEF m
  <2> QED
    BY <2>3, <2>4
<1> QED
  BY <1>4, <1>5

-------------------------------------------------------------------------------
(***************************************************************************)
(* Chains in the wrong backend.                                             *)
(***************************************************************************)

LEMMA KindOfStyle ==
  ASSUME NEW c, NEW d, SameStyle(c, d)
  PROVE  KindOf(c) = KindOf(d)
  BY DEF SameStyle, KindOf

\* A kept curve in the backend it was in is misrouted only if it was.
LEMMA KeptRoute ==
  ASSUME NEW st, NEW m, NEW h \in Handles, Kept(st, m, h),
         Valid(st, h) => m.at[h].renderer = st.at[h].renderer, Misrouted(m, h)
  PROVE  Misrouted(st, h)
<1>1. /\ Valid(st, h) /\ SameStyle(CurveAt(m, h), CurveAt(st, h))
      /\ Before(st, h) = Nobody
      /\ m.at[h].renderer = st.at[h].renderer
      /\ KindOf(CurveAt(m, h)) # m.at[h].renderer
  BY DEF Kept, Misrouted
<1>2. KindOf(CurveAt(m, h)) = KindOf(CurveAt(st, h))
  BY <1>1, KindOfStyle
<1> QED
  BY <1>1, <1>2 DEF Misrouted

\* Routing a backend leaves no misrouted chain in it and brings none to the others.
LEMMA RoutingHomeRepairs ==
  ASSUME NEW st, StoreOK(st), ChainsMarked(st), NEW home \in Backends, NEW h \in Handles,
         Misrouted(RouteHome(st, home), h)
  PROVE  /\ Misrouted(st, h) /\ RouteHome(st, home).at[h] = st.at[h]
         /\ st.at[h].renderer # home
<1> DEFINE m == RouteHome(st, home)
           s == st.slots[home]
<1>1. Kept(st, m, h)
  BY RoutingHomeKept
<1>2. Valid(st, h) /\ Valid(m, h)
  BY <1>1 DEF Kept, Misrouted
<1>3. PICK b, i : b = st.at[h].renderer /\ i = st.at[h].index
  OBVIOUS
<1>4. /\ b \in Backends /\ i \in Live(st.slots[b]) /\ i \in Nat \ {0}
      /\ CurveAt(st, h) = st.slots[b][i]
  <2>1. b \in Backends /\ i \in Live(st.slots[b]) /\ i \in 1 .. Len(st.slots[b])
    BY <1>2, <1>3, PlaceOfHandle
  <2> QED
    BY <1>3, <2>1 DEF CurveAt
<1>5. Before(m, h) = Nobody /\ Before(st, h) = Nobody
  BY <1>1 DEF Kept, Misrouted
<1>6. ~ContinuesChain(st.slots[b], i) /\ ChainFirst(st.slots[b], i) = i
  <2>1. ~ContinuesChain(st.slots[b], i)
    BY <1>2, <1>3, <1>5, BeforeAtPlace
  <2> QED
    BY <1>4, <2>1, ChainSteps
<1>7. KindOf(CurveAt(m, h)) = KindOf(st.slots[b][i])
  <2>1. SameStyle(CurveAt(m, h), CurveAt(st, h))
    BY <1>1, <1>2 DEF Kept
  <2> QED
    BY <1>4, <2>1, KindOfStyle
<1>8. Home(st.slots[b], i) = KindOf(st.slots[b][i])
  BY <1>6 DEF Home
<1>9. ~(b = home /\ i \in Gone(st, home))
  <2> SUFFICES ASSUME b = home, i \in Gone(st, home)
               PROVE  FALSE
    OBVIOUS
  <2>1. m.at[h].renderer = Home(st.slots[home], i)
    BY <1>2, <1>3, RoutedPlace
  <2>2. KindOf(CurveAt(m, h)) # m.at[h].renderer
    BY DEF Misrouted
  <2> HIDE DEF m
  <2> QED
    BY <1>7, <1>8, <2>1, <2>2
<1>10. m.at[h] = st.at[h]
  BY <1>2, <1>3, <1>9, RoutedPlace
<1>11. Misrouted(st, h)
  BY <1>1, <1>10, KeptRoute
<1>12. b # home
  <2> SUFFICES ASSUME b = home
               PROVE  i \in Gone(st, home)
    BY <1>9
  <2>1. KindOf(st.slots[b][i]) # b
    BY <1>3, <1>4, <1>11 DEF Misrouted
  <2>2. IsMarked(st, b, i)
    BY <1>3, <1>11 DEF ChainsMarked
  <2>3. i \in Visited(st, home)
    BY <1>4, <2>2 DEF IsMarked, Visited
  <2> QED
    BY <1>8, <2>1, <2>3 DEF Gone
<1> QED
  BY <1>3, <1>10, <1>11, <1>12

LEMMA RoutingHomeMarks ==
  ASSUME NEW st, StoreOK(st), ChainsMarked(st), NEW home \in Backends
  PROVE  ChainsMarked(RouteHome(st, home))
<1> DEFINE m == RouteHome(st, home)
<1> SUFFICES ASSUME NEW h \in Handles, Misrouted(m, h)
             PROVE  IsMarked(m, m.at[h].renderer, m.at[h].index)
  BY DEF ChainsMarked
<1>1. Misrouted(st, h) /\ m.at[h] = st.at[h] /\ st.at[h].renderer # home
  BY RoutingHomeRepairs
<1>2. PICK b, i : b = st.at[h].renderer /\ i = st.at[h].index
  OBVIOUS
<1>3. b \in Backends /\ IsMarked(st, b, i)
  BY <1>1, <1>2, PlaceOfHandle DEF Misrouted, ChainsMarked
<1>4. /\ m.marks = [st.marks EXCEPT ![home] = <<>>]
      /\ m.routeAll = [st.routeAll EXCEPT ![home] = FALSE]
      /\ st.marks \in [Backends -> Seq(Nat)] /\ st.routeAll \in [Backends -> BOOLEAN]
  BY RoutedMarks, StoreFields DEF StoreOK
<1> HIDE DEF m
<1>5. m.marks[b] = st.marks[b] /\ m.routeAll[b] = st.routeAll[b]
  BY <1>1, <1>2, <1>3, <1>4
<1> QED
  BY <1>1, <1>2, <1>3, <1>5 DEF IsMarked

\* After Route() every chain is in the backend of its first curve's kind.
LEMMA RoutingRepairs ==
  ASSUME NEW st, StoreOK(st), ChainsMarked(st), NEW h \in Handles
  PROVE  ~Misrouted(Route(st), h)
<1> DEFINE one == RouteHome(st, Solid)
           two == RouteHome(one, Patterned)
           three == RouteHome(two, Dotted)
<1>1. /\ Solid \in Backends /\ Patterned \in Backends /\ Dotted \in Backends
      /\ Backends = {Solid, Patterned, Dotted}
  BY DEF Backends
<1>2. StoreOK(one) /\ ChainsMarked(one)
  BY <1>1, RoutingHomeKeeps, RoutingHomeMarks
<1>3. Misrouted(one, h) => one.at[h].renderer # Solid
  BY <1>1, RoutingHomeRepairs
<1> HIDE DEF one
<1>4. StoreOK(two) /\ ChainsMarked(two)
  BY <1>1, <1>2, RoutingHomeKeeps, RoutingHomeMarks
<1>5. Misrouted(two, h) => Misrouted(one, h) /\ two.at[h] = one.at[h]
                           /\ one.at[h].renderer # Patterned
  BY <1>1, <1>2, RoutingHomeRepairs
<1> HIDE DEF two
<1>6. Misrouted(three, h) => Misrouted(two, h) /\ two.at[h].renderer # Dotted
  BY <1>1, <1>4, RoutingHomeRepairs
<1>7. Route(st) = three
  BY DEF Route, one, two
<1> HIDE DEF three
<1>8. Misrouted(three, h) => Valid(two, h)
  BY <1>6 DEF Misrouted
<1>9. Misrouted(three, h) => two.at[h].renderer \in Backends
  BY <1>4, <1>8, PlaceOfHandle
<1> QED
  BY <1>1, <1>3, <1>5, <1>6, <1>7, <1>9

-------------------------------------------------------------------------------
(***************************************************************************)
(* The other operations, seen from the handles.                             *)
(***************************************************************************)

\* A mark, or routeAll instead of it, is there after marking, and no other is lost.
LEMMA MarkingMarks ==
  ASSUME NEW st \in Store, NEW b \in Backends, NEW i \in Nat
  PROVE  LET m == MarkForRouting(st, b, i)
         IN  /\ IsMarked(m, b, i)
             /\ \A c \in Backends : \A j : IsMarked(st, c, j) => IsMarked(m, c, j)
<1> DEFINE m == MarkForRouting(st, b, i)
           marks == st.marks[b]
<1>1. /\ st.marks \in [Backends -> Seq(Nat)] /\ st.routeAll \in [Backends -> BOOLEAN]
      /\ marks \in Seq(Nat) /\ Len(marks) \in Nat /\ DOMAIN marks = 1 .. Len(marks)
  BY StoreFields
<1>2. CASE st.routeAll[b] \/ (marks # <<>> /\ marks[Len(marks)] = i)
  <2>1. m = st
    BY <1>2 DEF MarkForRouting
  <2>2. IsMarked(st, b, i)
    <3>1. CASE st.routeAll[b]
      BY <3>1 DEF IsMarked
    <3>2. CASE marks # <<>> /\ marks[Len(marks)] = i
      <4>1. Len(marks) \in DOMAIN marks
        BY <1>1, <3>2
      <4> QED
        BY <3>2, <4>1 DEF IsMarked
    <3> QED
      BY <1>2, <3>1, <3>2
  <2> QED
    BY <2>1, <2>2
<1>3. CASE /\ ~(st.routeAll[b] \/ (marks # <<>> /\ marks[Len(marks)] = i))
           /\ Len(marks) >= Len(st.slots[b])
  <2>1. m = [st EXCEPT !.routeAll[b] = TRUE, !.marks[b] = <<>>]
    BY <1>3 DEF MarkForRouting
  <2>2. /\ m.routeAll = [st.routeAll EXCEPT ![b] = TRUE]
        /\ m.marks = [st.marks EXCEPT ![b] = <<>>]
    BY <2>1 DEF Store
  <2> HIDE DEF m
  <2>3. m.routeAll[b] /\ \A c \in Backends \ {b} :
          m.routeAll[c] = st.routeAll[c] /\ m.marks[c] = st.marks[c]
    BY <1>1, <2>2
  <2> QED
    BY <2>3 DEF IsMarked, m
<1>4. CASE /\ ~(st.routeAll[b] \/ (marks # <<>> /\ marks[Len(marks)] = i))
           /\ ~(Len(marks) >= Len(st.slots[b]))
  <2>1. m = [st EXCEPT !.marks[b] = Append(@, i)]
    BY <1>4 DEF MarkForRouting
  <2>2. m.routeAll = st.routeAll /\ m.marks = [st.marks EXCEPT ![b] = Append(marks, i)]
    BY <2>1 DEF Store
  <2> HIDE DEF m, marks
  <2>3. /\ m.marks[b] = Append(marks, i)
        /\ \A c \in Backends \ {b} : m.marks[c] = st.marks[c]
    BY <1>1, <2>2
  <2>4. /\ DOMAIN Append(marks, i) = 1 .. Len(marks) + 1
        /\ Append(marks, i)[Len(marks) + 1] = i
        /\ \A k \in 1 .. Len(marks) : Append(marks, i)[k] = marks[k]
    BY <1>1
  <2>5. IsMarked(m, b, i)
    <3>1. Len(marks) + 1 \in DOMAIN m.marks[b] /\ m.marks[b][Len(marks) + 1] = i
      BY <1>1, <2>3, <2>4
    <3> QED
      BY <3>1 DEF IsMarked
  <2>6. ASSUME NEW c \in Backends, NEW j, IsMarked(st, c, j)
        PROVE  IsMarked(m, c, j)
    <3>1. CASE c = b
      <4>1. st.routeAll[b] \/ \E k \in DOMAIN marks : marks[k] = j
        BY <2>6, <3>1 DEF IsMarked, marks
      <4>2. \A k \in DOMAIN marks : k \in DOMAIN m.marks[b] /\ m.marks[b][k] = marks[k]
        BY <1>1, <2>3, <2>4
      <4> QED
        BY <2>2, <3>1, <4>1, <4>2 DEF IsMarked
    <3>2. CASE c # b
      BY <2>2, <2>3, <2>6, <3>2 DEF IsMarked
    <3> QED
      BY <3>1, <3>2
  <2> QED
    BY <2>5, <2>6 DEF m
<1> QED
  BY <1>2, <1>3, <1>4

\* m differs from st in the slot i of b, whose owner was h.
SlotWritten(st, m, b, i, h, slot) ==
  /\ b \in Backends /\ i \in Live(st.slots[b]) /\ h = st.slots[b][i].owner
  /\ m.slots = [st.slots EXCEPT ![b] = [st.slots[b] EXCEPT ![i] = slot]]

\* What the other curves continue: the curve of the written slot goes by its new owner.
LEMMA OneSlot ==
  ASSUME NEW st, StoreOK(st), NEW m, NEW b, NEW i, NEW h, NEW slot,
         SlotWritten(st, m, b, i, h, slot),
         NEW x \in Handles \ {h}, Valid(st, x), m.at[x] = st.at[x]
  PROVE  /\ Valid(m, x) /\ CurveAt(m, x) = CurveAt(st, x)
         /\ Before(m, x) = IF Before(st, x) = h THEN slot.owner ELSE Before(st, x)
<1>1. /\ st.slots[b] \in Seq(Slot) /\ i \in 1 .. Len(st.slots[b])
      /\ h \in Handles /\ Valid(st, h) /\ st.at[h] = [renderer |-> b, index |-> i]
      /\ m.slots[b][i] = slot
      /\ \A c \in Backends : \A j \in 1 .. Len(st.slots[c]) :
           ~(c = b /\ j = i) => m.slots[c][j] = st.slots[c][j]
  <2>1. st.slots \in [Backends -> Seq(Slot)]
    BY StoreFields DEF StoreOK
  <2>2. /\ b \in Backends /\ i \in Live(st.slots[b]) /\ h = st.slots[b][i].owner
        /\ m.slots = [st.slots EXCEPT ![b] = [st.slots[b] EXCEPT ![i] = slot]]
    BY DEF SlotWritten
  <2>3. /\ i \in 1 .. Len(st.slots[b]) /\ h \in Handles /\ Valid(st, h)
        /\ st.at[h] = [renderer |-> b, index |-> i]
    BY <2>2, OwnerOfSlot
  <2> QED
    BY <2>1, <2>2, <2>3
<1>2. PICK c \in Backends, j \in Nat : st.at[x] = [renderer |-> c, index |-> j]
  BY PlaceOfHandle DEF Place
<1>3. /\ j \in 1 .. Len(st.slots[c]) /\ st.slots[c] \in Seq(Slot)
      /\ st.slots[c][j].owner = x
  BY <1>2, PlaceOfHandle
<1>4. ~(c = b /\ j = i)
  BY <1>1, <1>2, PlacesDiffer
<1>5. Valid(m, x) /\ m.slots[c][j] = st.slots[c][j] /\ CurveAt(m, x) = CurveAt(st, x)
  BY <1>1, <1>2, <1>3, <1>4 DEF Valid, CurveAt
<1>6. x # Nobody /\ h # Nobody /\ m.slots[c][j].owner # Nobody
  BY <1>1, <1>3, <1>5, HandlesAssumption
<1>7. CASE c = b /\ j - 1 = i
  <2>1. j > 1 /\ m.slots[c][j - 1] = slot /\ st.slots[c][j - 1].owner = h
    <3>1. j > 1
      BY <1>1, <1>2, <1>7
    <3> QED
      BY <1>1, <1>7, <3>1 DEF SlotWritten
  <2>2. CASE st.slots[c][j].merged
    <3>1. Before(st, x) = h
      BY <1>2, <1>3, <1>6, <2>1, <2>2 DEF Before, ContinuesChain
    <3>2. Before(m, x) = slot.owner
      BY <1>2, <1>5, <1>6, <2>1, <2>2 DEF Before, ContinuesChain
    <3> QED
      BY <1>5, <3>1, <3>2
  <2>3. CASE ~st.slots[c][j].merged
    <3>1. Before(st, x) = Nobody /\ Before(m, x) = Nobody
      BY <1>2, <1>5, <2>3 DEF Before, ContinuesChain
    <3> QED
      BY <1>5, <1>6, <3>1
  <2> QED
    BY <2>2, <2>3
<1>8. CASE ~(c = b /\ j - 1 = i)
  <2>1. j > 1 => m.slots[c][j - 1] = st.slots[c][j - 1]
    <3> SUFFICES ASSUME j > 1
                 PROVE  m.slots[c][j - 1] = st.slots[c][j - 1]
      OBVIOUS
    <3>1. j - 1 \in 1 .. Len(st.slots[c])
      BY <1>3
    <3> QED
      BY <1>1, <1>8, <3>1
  <2>2. ContinuesChain(m.slots[c], j) <=> ContinuesChain(st.slots[c], j)
    BY <1>5, <2>1, Zenon DEF ContinuesChain
  <2>3. ContinuesChain(st.slots[c], j) => j > 1
    BY DEF ContinuesChain
  <2>4. Before(m, x) = Before(st, x)
    BY <1>2, <1>5, <2>1, <2>2, <2>3 DEF Before
  <2>5. Before(st, x) # h
    <3> SUFFICES ASSUME Before(st, x) = h
                 PROVE  FALSE
      OBVIOUS
    <3>1. st.at[h] = [renderer |-> c, index |-> j - 1]
      BY <1>2, <1>6, BeforeFacts
    <3> QED
      BY <1>1, <1>8, <3>1
  <2> QED
    BY <1>5, <2>4, <2>5
<1> QED
  BY <1>7, <1>8

\* What the curve of the written slot continues.
LEMMA OwnSlot ==
  ASSUME NEW st, StoreOK(st), NEW m, NEW b, NEW i, NEW h, NEW slot,
         SlotWritten(st, m, b, i, h, slot), slot.owner # Nobody,
         NEW y \in Handles, m.at[y] = st.at[h]
  PROVE  /\ Valid(m, y) /\ CurveAt(m, y) = slot
         /\ slot.merged = CurveAt(st, h).merged => Before(m, y) = Before(st, h)
         /\ ~slot.merged => Before(m, y) = Nobody
         /\ Before(m, y) # Nobody => i - 1 \in Live(st.slots[b])
                                     /\ Before(m, y) = st.slots[b][i - 1].owner
<1>1. /\ st.slots[b] \in Seq(Slot) /\ i \in 1 .. Len(st.slots[b]) /\ b \in Backends
      /\ h \in Handles /\ Valid(st, h) /\ st.at[h] = [renderer |-> b, index |-> i]
      /\ m.slots[b][i] = slot
      /\ \A j \in 1 .. Len(st.slots[b]) : j # i => m.slots[b][j] = st.slots[b][j]
  <2>1. st.slots \in [Backends -> Seq(Slot)]
    BY StoreFields DEF StoreOK
  <2>2. /\ b \in Backends /\ i \in Live(st.slots[b]) /\ h = st.slots[b][i].owner
        /\ m.slots = [st.slots EXCEPT ![b] = [st.slots[b] EXCEPT ![i] = slot]]
    BY DEF SlotWritten
  <2>3. /\ i \in 1 .. Len(st.slots[b]) /\ h \in Handles /\ Valid(st, h)
        /\ st.at[h] = [renderer |-> b, index |-> i]
    BY <2>2, OwnerOfSlot
  <2> QED
    BY <2>1, <2>2, <2>3
<1>2. /\ Valid(m, y) /\ CurveAt(m, y) = slot /\ CurveAt(st, h) = st.slots[b][i]
      /\ st.slots[b][i].owner # Nobody
  <2>1. Valid(m, y) /\ CurveAt(m, y) = slot /\ CurveAt(st, h) = st.slots[b][i]
    BY <1>1 DEF Valid, CurveAt
  <2> QED
    BY <2>1 DEF SlotWritten, Live
<1>3. ASSUME i > 1
      PROVE  m.slots[b][i - 1] = st.slots[b][i - 1] /\ i - 1 \in DOMAIN st.slots[b]
  <2>1. i - 1 \in 1 .. Len(st.slots[b]) /\ i - 1 # i
    BY <1>1, <1>3
  <2> QED
    BY <1>1, <2>1
<1>4. ASSUME slot.merged = CurveAt(st, h).merged
      PROVE  Before(m, y) = Before(st, h)
  <2>1. ContinuesChain(m.slots[b], i) <=> ContinuesChain(st.slots[b], i)
    BY <1>1, <1>2, <1>3, <1>4, Zenon DEF ContinuesChain
  <2>2. ContinuesChain(st.slots[b], i) => i > 1
    BY DEF ContinuesChain
  <2> QED
    BY <1>1, <1>2, <1>3, <2>1, <2>2 DEF Before
<1>5. ASSUME ~slot.merged
      PROVE  Before(m, y) = Nobody
  BY <1>1, <1>5 DEF Before, ContinuesChain
<1>6. ASSUME Before(m, y) # Nobody
      PROVE  i - 1 \in Live(st.slots[b]) /\ Before(m, y) = st.slots[b][i - 1].owner
  <2>1. ContinuesChain(m.slots[b], i) /\ Before(m, y) = m.slots[b][i - 1].owner
    BY <1>1, <1>6 DEF Before
  <2>2. i > 1
    BY <2>1 DEF ContinuesChain
  <2> QED
    BY <1>3, <1>6, <2>1, <2>2 DEF Live
<1> QED
  BY <1>2, <1>4, <1>5, <1>6

\* A removal cuts the chain at h, and marks the curve that continued it.
LEMMA RemovedChains ==
  ASSUME NEW st, StoreOK(st), NEW h \in Handles, Valid(st, h)
  PROVE  /\ \A x \in Handles \ {h} :
              /\ RemoveCurve(st, h).at[x] = st.at[x]
              /\ Valid(RemoveCurve(st, h), x) <=> Valid(st, x)
              /\ Valid(st, x) => CurveAt(RemoveCurve(st, h), x) = CurveAt(st, x)
              /\ Before(RemoveCurve(st, h), x) =
                   IF Before(st, x) = h THEN Nobody ELSE Before(st, x)
              /\ Before(st, x) = h =>
                   IsMarked(RemoveCurve(st, h), st.at[x].renderer, st.at[x].index)
         /\ \A c \in Backends : \A j :
              IsMarked(st, c, j) => IsMarked(RemoveCurve(st, h), c, j)
<1> DEFINE b == st.at[h].renderer
           i == st.at[h].index
           e == EmptySlot(st, h, b, i)
           m == RemoveCurve(st, h)
<1>1. /\ st \in Store /\ b \in Backends /\ i \in Nat /\ i \in Live(st.slots[b])
      /\ st.slots[b][i].owner = h /\ i \in 1 .. Len(st.slots[b])
      /\ Len(st.slots[b]) \in Nat
  BY PlaceOfHandle DEF StoreOK, Place
<1>2. \A x \in Handles \ {h} : m.at[x] = st.at[x]
  BY RemovingKeeps
<1>3. SlotWritten(st, m, b, i, h, Emptied)
  BY <1>1, RemovedSlots DEF SlotWritten
<1>4. e \in Store /\ e.marks = st.marks /\ e.routeAll = st.routeAll /\ e.slots \in [Backends -> Seq(Slot)]
  <2>1. e.marks = st.marks /\ e.routeAll = st.routeAll
    <3> HIDE DEF b, i
    <3> QED
      BY <1>1 DEF Store, EmptySlot
  <2>2. e \in Store
    BY <1>1, EmptyingKeeps DEF StoreOK
  <2> QED
    BY <2>1, <2>2, StoreFields
<1>5. \A c \in Backends : \A j : IsMarked(e, c, j) <=> IsMarked(st, c, j)
  <2> HIDE DEF e
  <2> QED
    BY <1>4 DEF IsMarked
<1>6. m = IF i + 1 <= Len(st.slots[b]) THEN MarkForRouting(e, b, i + 1) ELSE e
  BY DEF RemoveCurve
<1> HIDE DEF m, e
<1>7. \A c \in Backends : \A j : IsMarked(st, c, j) => IsMarked(m, c, j)
  <2>1. CASE i + 1 <= Len(st.slots[b])
    <3>1. \A c \in Backends : \A j : IsMarked(e, c, j) => IsMarked(m, c, j)
      BY <1>1, <1>4, <1>6, <2>1, MarkingMarks
    <3> QED
      BY <1>5, <3>1
  <2>2. CASE ~(i + 1 <= Len(st.slots[b]))
    BY <1>5, <1>6, <2>2
  <2> QED
    BY <2>1, <2>2
<1>8. ASSUME NEW x \in Handles \ {h}
      PROVE  /\ Valid(m, x) <=> Valid(st, x)
             /\ Valid(st, x) => CurveAt(m, x) = CurveAt(st, x)
             /\ Before(m, x) = IF Before(st, x) = h THEN Nobody ELSE Before(st, x)
  <2>1. CASE Valid(st, x)
    <3>1. /\ Valid(m, x) /\ CurveAt(m, x) = CurveAt(st, x)
          /\ Before(m, x) = IF Before(st, x) = h THEN Emptied.owner ELSE Before(st, x)
      BY <1>2, <1>3, <2>1, OneSlot
    <3> QED
      BY <2>1, <3>1, EmptiedIsSlot
  <2>2. CASE ~Valid(st, x)
    <3>1. ~Valid(m, x)
      BY <1>2, <2>2 DEF Valid
    <3> QED
      BY <2>2, <3>1, HandlesAssumption DEF Before
  <2> QED
    BY <2>1, <2>2
<1>9. ASSUME NEW x \in Handles \ {h}, Before(st, x) = h
      PROVE  IsMarked(m, st.at[x].renderer, st.at[x].index)
  <2>1. PICK c \in Backends, j \in Nat :
          /\ st.at[x] = [renderer |-> c, index |-> j] /\ j \in 1 .. Len(st.slots[c])
    <3>1. Valid(st, x)
      BY <1>9, HandlesAssumption DEF Before
    <3> QED
      BY <3>1, PlaceOfHandle DEF Place
  <2>2. st.at[h] = [renderer |-> c, index |-> j - 1]
    BY <1>9, <2>1, HandlesAssumption, BeforeFacts
  <2>3. b = c /\ i + 1 = j /\ i + 1 <= Len(st.slots[b])
    BY <2>1, <2>2
  <2>4. IsMarked(m, b, i + 1)
    BY <1>1, <1>4, <1>6, <2>3, MarkingMarks
  <2> QED
    BY <2>1, <2>3, <2>4
<1> QED
  BY <1>2, <1>7, <1>8, <1>9 DEF m

LEMMA RemovingChains ==
  ASSUME NEW st, StoreOK(st), NEW h \in Handles, ChainsMarked(st)
  PROVE  ChainsMarked(RemoveCurve(st, h))
<1> DEFINE m == RemoveCurve(st, h)
<1>1. CASE ~Valid(st, h)
  BY <1>1 DEF RemoveCurve
<1>2. CASE Valid(st, h)
  <2> SUFFICES ASSUME NEW x \in Handles, Misrouted(m, x)
               PROVE  IsMarked(m, m.at[x].renderer, m.at[x].index)
    BY DEF ChainsMarked
  <2>1. x # h
    BY RemovingKeeps DEF Misrouted
  <2>2. /\ m.at[x] = st.at[x]
        /\ Valid(st, x) /\ CurveAt(m, x) = CurveAt(st, x)
        /\ Before(m, x) = IF Before(st, x) = h THEN Nobody ELSE Before(st, x)
        /\ Before(st, x) = h => IsMarked(m, st.at[x].renderer, st.at[x].index)
        /\ \A c \in Backends : \A j : IsMarked(st, c, j) => IsMarked(m, c, j)
    BY <1>2, <2>1, RemovedChains DEF Misrouted
  <2> HIDE DEF m
  <2>3. CASE Before(st, x) = h
    BY <2>2, <2>3
  <2>4. CASE Before(st, x) # h
    <3>1. Misrouted(st, x)
      BY <2>2, <2>4 DEF Misrouted
    <3>2. st.at[x].renderer \in Backends
      BY <2>2, PlaceOfHandle
    <3> QED
      BY <2>2, <3>1, <3>2 DEF ChainsMarked
  <2> QED
    BY <2>3, <2>4
<1> QED
  BY <1>1, <1>2

\* A move gives the place, the curve and the neighbours of g to h.
LEMMA TakenOverChains ==
  ASSUME NEW st, StoreOK(st), NEW h \in Handles, NEW g \in Handles, h # g,
         ~Valid(st, h), Valid(st, g)
  PROVE  LET m == TakeOver(st, h, g)
         IN  /\ m.at[h] = st.at[g] /\ Valid(m, h) /\ ~Valid(m, g)
             /\ SameStyle(CurveAt(m, h), CurveAt(st, g)) /\ Before(m, h) = Before(st, g)
             /\ \A x \in Handles \ {h, g} :
                  /\ m.at[x] = st.at[x]
                  /\ Valid(m, x) <=> Valid(st, x)
                  /\ Valid(st, x) => CurveAt(m, x) = CurveAt(st, x)
                  /\ Before(m, x) = IF Before(st, x) = g THEN h ELSE Before(st, x)
             /\ m.marks = st.marks /\ m.routeAll = st.routeAll
<1> DEFINE m == TakeOver(st, h, g)
<1>1. PICK b \in Backends, i \in Nat : st.at[g] = [renderer |-> b, index |-> i]
  BY PlaceOfHandle DEF Place
<1>2. /\ st \in Store /\ st.slots[b] \in Seq(Slot) /\ i \in Live(st.slots[b])
      /\ st.slots[b][i] \in Slot /\ st.slots[b][i].owner = g
  BY <1>1, PlaceOfHandle DEF StoreOK
<1> DEFINE slot == [st.slots[b][i] EXCEPT !.owner = h]
<1>3. m = [st EXCEPT !.slots[b][i].owner = h,
                     !.at[h] = [renderer |-> b, index |-> i],
                     !.at[g] = Nobody]
  BY <1>1 DEF TakeOver
<1>4. /\ m.slots = [st.slots EXCEPT ![b] = [st.slots[b] EXCEPT ![i] = slot]]
      /\ m.at = [st.at EXCEPT ![h] = [renderer |-> b, index |-> i], ![g] = Nobody]
      /\ m.marks = st.marks /\ m.routeAll = st.routeAll
  BY <1>2, <1>3 DEF Store
<1>5. /\ slot.owner = h /\ slot.spaced = st.slots[b][i].spaced
      /\ slot.dashed = st.slots[b][i].dashed /\ slot.merged = st.slots[b][i].merged
  BY <1>2 DEF Slot
<1> HIDE DEF m, slot
<1>6. /\ m.at[h] = st.at[g] /\ m.at[g] = Nobody
      /\ \A x \in Handles \ {h, g} : m.at[x] = st.at[x]
  BY <1>1, <1>2, <1>4, StoreFields
<1>7. SlotWritten(st, m, b, i, g, slot)
  BY <1>2, <1>4 DEF SlotWritten
<1>8. slot.owner # Nobody /\ CurveAt(st, g) = st.slots[b][i]
  BY <1>1, <1>5, HandlesAssumption DEF CurveAt
<1>9. /\ Valid(m, h) /\ CurveAt(m, h) = slot
      /\ slot.merged = CurveAt(st, g).merged => Before(m, h) = Before(st, g)
  BY <1>6, <1>7, <1>8, OwnSlot
<1>10. Before(m, h) = Before(st, g) /\ SameStyle(CurveAt(m, h), CurveAt(st, g))
  BY <1>5, <1>8, <1>9 DEF SameStyle
<1>11. ASSUME NEW x \in Handles \ {h, g}
       PROVE  /\ Valid(m, x) <=> Valid(st, x)
              /\ Valid(st, x) => CurveAt(m, x) = CurveAt(st, x)
              /\ Before(m, x) = IF Before(st, x) = g THEN h ELSE Before(st, x)
  <2>1. CASE Valid(st, x)
    BY <1>5, <1>6, <1>7, <2>1, OneSlot
  <2>2. CASE ~Valid(st, x)
    <3>1. ~Valid(m, x)
      BY <1>6, <2>2 DEF Valid
    <3> QED
      BY <2>2, <3>1, HandlesAssumption DEF Before
  <2> QED
    BY <2>1, <2>2
<1>12. ~Valid(m, g)
  BY <1>6 DEF Valid
<1> QED
  BY <1>4, <1>6, <1>9, <1>10, <1>11, <1>12 DEF m

LEMMA TakingOverChains ==
  ASSUME NEW st, StoreOK(st), NEW h \in Handles, NEW g \in Handles, h # g,
         ~Valid(st, h), ChainsMarked(st)
  PROVE  ChainsMarked(TakeOver(st, h, g))
<1> DEFINE m == TakeOver(st, h, g)
<1>1. CASE ~Valid(st, g)
  BY <1>1 DEF TakeOver
<1>2. CASE Valid(st, g)
  <2> SUFFICES ASSUME NEW x \in Handles, Misrouted(m, x)
               PROVE  IsMarked(m, m.at[x].renderer, m.at[x].index)
    BY DEF ChainsMarked
  <2>1. /\ m.at[h] = st.at[g] /\ ~Valid(m, g)
        /\ SameStyle(CurveAt(m, h), CurveAt(st, g)) /\ Before(m, h) = Before(st, g)
        /\ m.marks = st.marks /\ m.routeAll = st.routeAll
    BY <1>2, TakenOverChains
  <2>2. x \notin {h, g} =>
          /\ m.at[x] = st.at[x]
          /\ Valid(m, x) <=> Valid(st, x)
          /\ Valid(st, x) => CurveAt(m, x) = CurveAt(st, x)
          /\ Before(m, x) = IF Before(st, x) = g THEN h ELSE Before(st, x)
    BY <1>2, TakenOverChains
  <2> HIDE DEF m
  <2>3. \A c, j : IsMarked(st, c, j) => IsMarked(m, c, j)
    BY <2>1 DEF IsMarked
  <2>4. CASE x = h
    <3>1. KindOf(CurveAt(m, h)) = KindOf(CurveAt(st, g))
      BY <2>1, KindOfStyle
    <3>2. Misrouted(st, g)
      BY <1>2, <2>1, <2>4, <3>1 DEF Misrouted
    <3> QED
      BY <2>1, <2>3, <2>4, <3>2 DEF ChainsMarked
  <2>5. CASE x # h
    <3>1. x \notin {h, g}
      BY <2>1, <2>5 DEF Misrouted
    <3>2. Misrouted(st, x)
      BY <2>2, <3>1, HandlesAssumption DEF Misrouted
    <3> QED
      BY <2>2, <2>3, <3>1, <3>2 DEF ChainsMarked
  <2> QED
    BY <2>4, <2>5
<1> QED
  BY <1>1, <1>2

\* The slot of h is written, no handle moves and no mark is lost.
SlotSet(st, m, h, slot) ==
  /\ SlotWritten(st, m, st.at[h].renderer, st.at[h].index, h, slot)
  /\ m.at = st.at
  /\ \A c \in Backends : \A j : IsMarked(st, c, j) => IsMarked(m, c, j)

\* What a setter of h writes: its slot, perhaps a mark, and nothing else of a chain.
LEMMA SettingChains ==
  ASSUME NEW st, StoreOK(st), NEW h \in Handles, Valid(st, h), NEW slot \in Slot,
         slot.owner = h,
         NEW m, m \in {[st EXCEPT !.slots[st.at[h].renderer][st.at[h].index] = slot],
                       [st EXCEPT !.slots[st.at[h].renderer][st.at[h].index] = slot,
                                  !.needResize[st.at[h].renderer] = TRUE]}
  PROVE  /\ SlotSet(st, m, h, slot)
         /\ SlotSet(st, MarkForRouting(m, st.at[h].renderer, st.at[h].index), h, slot)
         /\ IsMarked(MarkForRouting(m, st.at[h].renderer, st.at[h].index),
                     st.at[h].renderer, st.at[h].index)
<1>1. PICK b \in Backends, i \in Nat : b = st.at[h].renderer /\ i = st.at[h].index
  BY PlaceOfHandle DEF Place
<1>2. /\ st \in Store
      /\ i \in Live(st.slots[b])
      /\ st.slots[b][i].owner = h
      /\ st.slots[b] \in Seq(Slot)
      /\ i \in 1 .. Len(st.slots[b])
  BY <1>1, PlaceOfHandle DEF StoreOK
<1> DEFINE slots == [st.slots EXCEPT ![b] = [st.slots[b] EXCEPT ![i] = slot]]
           needs == [st.needResize EXCEPT ![b] = TRUE]
           k == MarkForRouting(m, b, i)
<1>3. slots \in [Backends -> Seq(Slot)] /\ needs \in [Backends -> BOOLEAN]
  <2>1. [st.slots[b] EXCEPT ![i] = slot] \in Seq(Slot)
    BY <1>2
  <2> QED
    BY <1>2, <2>1, StoreFields
<1>4. \/ m = [st EXCEPT !.slots = slots]
      \/ m = [st EXCEPT !.slots = slots, !.needResize = needs]
  BY <1>1, <1>2 DEF Store
<1> HIDE DEF slots, needs, k
<1>5. /\ m \in Store /\ m.slots = slots /\ m.at = st.at
      /\ m.marks = st.marks /\ m.routeAll = st.routeAll
  BY <1>2, <1>3, <1>4 DEF Store
<1>6. k.slots = slots /\ k.at = st.at
  BY <1>5, MarkingKeeps DEF k
<1>7. /\ IsMarked(k, b, i)
      /\ \A c \in Backends : \A j : IsMarked(m, c, j) => IsMarked(k, c, j)
  BY <1>5, MarkingMarks DEF k
<1>8. \A c \in Backends : \A j : IsMarked(st, c, j) <=> IsMarked(m, c, j)
  BY <1>5 DEF IsMarked
<1>9. SlotSet(st, m, h, slot)
  BY <1>1, <1>2, <1>5, <1>8 DEF SlotSet, SlotWritten, slots
<1>10. SlotSet(st, k, h, slot)
  BY <1>1, <1>2, <1>6, <1>7, <1>8 DEF SlotSet, SlotWritten, slots
<1> QED
  BY <1>1, <1>7, <1>9, <1>10 DEF k

\* A setter of a style leaves the chains alone, and marks a curve that changes kind.
LEMMA SetKindChains ==
  ASSUME NEW h \in Handles, NEW field \in {"spaced", "dashed"}, NEW v \in BOOLEAN,
         StoreOK(store), Valid(store, h), SetKind(h, field, v)
  PROVE  /\ store'.at = store.at
         /\ [spaced |-> CurveAt(store', h).spaced, dashed |-> CurveAt(store', h).dashed] \in Styles
         /\ \A x \in Handles \ {h} : Valid(store, x) => CurveAt(store', x) = CurveAt(store, x)
         /\ \A x \in Handles : Before(store', x) = Before(store, x)
         /\ KindOf(CurveAt(store', h)) # KindOf(CurveAt(store, h))
              => IsMarked(store', store.at[h].renderer, store.at[h].index)
         /\ \A c \in Backends : \A j : IsMarked(store, c, j) => IsMarked(store', c, j)
<1> DEFINE p == store.at[h]
           before == store.slots[p.renderer][p.index]
           after == [before EXCEPT ![field] = v]
           written == [store EXCEPT !.slots[p.renderer][p.index] = after]
           marked == MarkForRouting(written, p.renderer, p.index)
<1>1. before \in Slot /\ before.owner = h /\ before = CurveAt(store, h)
  BY PlaceOfHandle DEF CurveAt
<1>2. after \in Slot /\ after.owner = h /\ after.merged = before.merged
  <2>1. CASE field = "spaced"
    <3>1. after = [before EXCEPT !.spaced = v]
      BY <2>1
    <3> HIDE DEF before, after
    <3> QED
      BY <1>1, <3>1 DEF Slot
  <2>2. CASE field = "dashed"
    <3>1. after = [before EXCEPT !.dashed = v]
      BY <2>2
    <3> HIDE DEF before, after
    <3> QED
      BY <1>1, <3>1 DEF Slot
  <2> QED
    BY <2>1, <2>2
<1>3. /\ [spaced |-> after.spaced, dashed |-> after.dashed] \in Styles
      /\ store' = IF KindOf(after) # KindOf(before) THEN marked ELSE written
  BY DEF SetKind
<1> HIDE DEF after
<1>4. /\ SlotWritten(store, store', p.renderer, p.index, h, after)
      /\ store'.at = store.at
      /\ store' = marked => IsMarked(store', p.renderer, p.index)
      /\ \A c \in Backends : \A j : IsMarked(store, c, j) => IsMarked(store', c, j)
  <2>1. SlotSet(store, written, h, after) /\ SlotSet(store, marked, h, after)
        /\ IsMarked(marked, p.renderer, p.index)
    BY <1>2, SettingChains
  <2> HIDE DEF marked, written
  <2> QED
    BY <1>3, <2>1 DEF SlotSet
<1> HIDE DEF marked, written, before, p
<1>5. /\ CurveAt(store', h) = after
      /\ after.merged = CurveAt(store, h).merged => Before(store', h) = Before(store, h)
  BY <1>2, <1>4, HandlesAssumption, OwnSlot
<1>6. ASSUME NEW x \in Handles \ {h}
      PROVE  /\ Valid(store, x) => CurveAt(store', x) = CurveAt(store, x)
             /\ Before(store', x) = Before(store, x)
  <2>1. CASE Valid(store, x)
    BY <1>2, <1>4, <2>1, OneSlot
  <2>2. CASE ~Valid(store, x)
    BY <1>4, <2>2 DEF Valid, Before
  <2> QED
    BY <2>1, <2>2
<1>7. KindOf(after) # KindOf(before) => IsMarked(store', p.renderer, p.index)
  BY <1>3, <1>4
<1>8. Before(store', h) = Before(store, h)
  BY <1>1, <1>2, <1>5
<1> QED
  BY <1>1, <1>3, <1>4, <1>5, <1>6, <1>7, <1>8 DEF p

LEMMA SettingKindChains ==
  ASSUME NEW h \in Handles, NEW field \in {"spaced", "dashed"}, NEW v \in BOOLEAN,
         StoreOK(store), Valid(store, h), SetKind(h, field, v), ChainsMarked(store)
  PROVE  ChainsMarked(store')
<1> SUFFICES ASSUME NEW x \in Handles, Misrouted(store', x)
             PROVE  IsMarked(store', store'.at[x].renderer, store'.at[x].index)
  BY DEF ChainsMarked
<1>1. /\ store'.at = store.at
      /\ x # h /\ Valid(store, x) => CurveAt(store', x) = CurveAt(store, x)
      /\ Before(store', x) = Before(store, x)
      /\ KindOf(CurveAt(store', h)) # KindOf(CurveAt(store, h))
           => IsMarked(store', store.at[h].renderer, store.at[h].index)
      /\ \A c \in Backends : \A j : IsMarked(store, c, j) => IsMarked(store', c, j)
  BY SetKindChains
<1>2. Valid(store, x) /\ Before(store, x) = Nobody
      /\ KindOf(CurveAt(store', x)) # store.at[x].renderer
  BY <1>1 DEF Misrouted, Valid
<1>3. CASE KindOf(CurveAt(store', x)) = KindOf(CurveAt(store, x))
  <2>1. Misrouted(store, x) /\ store.at[x].renderer \in Backends
    BY <1>2, <1>3, PlaceOfHandle DEF Misrouted
  <2> QED
    BY <1>1, <2>1 DEF ChainsMarked
<1>4. CASE KindOf(CurveAt(store', x)) # KindOf(CurveAt(store, x))
  BY <1>1, <1>2, <1>4
<1> QED
  BY <1>3, <1>4

\* Merged(TRUE) joins h to the curve before, which nothing continued; Merged(FALSE)
\* cuts the chain before h.
LEMMA MergedChains ==
  ASSUME NEW h \in Handles, NEW v \in BOOLEAN, StoreOK(store), Merged(h, v)
  PROVE  /\ store'.at = store.at /\ Valid(store, h)
         /\ SameStyle(CurveAt(store', h), CurveAt(store, h))
         /\ \A x \in Handles \ {h} :
              /\ Valid(store, x) => CurveAt(store', x) = CurveAt(store, x)
              /\ Before(store', x) = Before(store, x)
         /\ ~v => Before(store', h) = Nobody
         /\ v => Before(store, h) = Nobody
         /\ Before(store', h) # Nobody =>
              \A x \in Handles : Before(store, x) # Before(store', h)
         /\ IsMarked(store', store.at[h].renderer, store.at[h].index)
         /\ \A c \in Backends : \A j : IsMarked(store, c, j) => IsMarked(store', c, j)
<1> DEFINE p == store.at[h]
           before == store.slots[p.renderer][p.index]
           after == [before EXCEPT !.merged = v]
           written == [store EXCEPT !.slots[p.renderer][p.index] = after,
                                    !.needResize[p.renderer] = TRUE]
           marked == MarkForRouting(written, p.renderer, p.index)
<1>1. Valid(store, h) /\ before.merged # v
  BY DEF Merged
<1>2. before \in Slot /\ before.owner = h /\ before = CurveAt(store, h)
  BY <1>1, PlaceOfHandle DEF CurveAt
<1>3. after \in Slot /\ after.owner = h /\ SameStyle(after, before)
  <2> HIDE DEF before
  <2> QED
    BY <1>2 DEF Slot, SameStyle
<1>4. after.merged = v /\ before.merged = ~v
  <2> HIDE DEF before
  <2>1. before.merged \in BOOLEAN
    BY <1>2 DEF Slot
  <2>2. after.merged = v
    BY <1>2 DEF Slot
  <2> QED
    BY <1>1, <2>1, <2>2, Zenon
<1>5. store' = MarkForRouting([store EXCEPT !.slots[p.renderer][p.index].merged = v,
                                            !.needResize[p.renderer] = TRUE],
                              p.renderer, p.index)
  BY DEF Merged
<1>6. [store EXCEPT !.slots[p.renderer][p.index].merged = v,
                    !.needResize[p.renderer] = TRUE] = written
  BY <1>1, PlaceOfHandle DEF StoreOK, Store
<1>7. store' = marked
  BY <1>5, <1>6
<1> HIDE DEF after
<1>8. /\ SlotWritten(store, store', p.renderer, p.index, h, after)
      /\ store'.at = store.at
      /\ IsMarked(store', p.renderer, p.index)
      /\ \A c \in Backends : \A j : IsMarked(store, c, j) => IsMarked(store', c, j)
  <2>1. SlotSet(store, marked, h, after) /\ IsMarked(marked, p.renderer, p.index)
    BY <1>1, <1>3, SettingChains
  <2> HIDE DEF marked
  <2> QED
    BY <1>7, <2>1 DEF SlotSet
<1> HIDE DEF marked, written, before, p
<1>9. /\ CurveAt(store', h) = after
      /\ ~after.merged => Before(store', h) = Nobody
      /\ Before(store', h) # Nobody =>
           /\ p.index - 1 \in Live(store.slots[p.renderer])
           /\ Before(store', h) = store.slots[p.renderer][p.index - 1].owner
  BY <1>3, <1>8, HandlesAssumption, OwnSlot
<1>10. ASSUME NEW x \in Handles \ {h}
       PROVE  /\ Valid(store, x) => CurveAt(store', x) = CurveAt(store, x)
              /\ Before(store', x) = Before(store, x)
  <2>1. CASE Valid(store, x)
    BY <1>3, <1>8, <2>1, OneSlot
  <2>2. CASE ~Valid(store, x)
    BY <1>8, <2>2 DEF Valid, Before
  <2> QED
    BY <2>1, <2>2
<1>11. ~v => Before(store', h) = Nobody
  BY <1>4, <1>9, Zenon
<1>12. v => Before(store, h) = Nobody
  <2>1. v => ~CurveAt(store, h).merged
    BY <1>2, <1>4, Zenon
  <2>2. Before(store, h) # Nobody => CurveAt(store, h).merged
    BY BeforeFacts
  <2> QED
    BY <2>1, <2>2
<1>13. ASSUME Before(store', h) # Nobody, NEW x \in Handles, Before(store, x) = Before(store', h)
       PROVE  FALSE
  <2>1. PICK b \in Backends, i \in Nat : p = [renderer |-> b, index |-> i]
    BY <1>1, PlaceOfHandle DEF Place, p
  <2>2. i - 1 \in Live(store.slots[b]) /\ Before(store', h) = store.slots[b][i - 1].owner
    BY <1>9, <1>13, <2>1
  <2>3. store.at[Before(store', h)] = [renderer |-> b, index |-> i - 1]
    BY <2>2, OwnerOfSlot
  <2>4. /\ store.at[Before(store, x)] = [renderer |-> store.at[x].renderer,
                                         index |-> store.at[x].index - 1]
        /\ Valid(store, x)
    BY <1>13, BeforeFacts
  <2>5. PICK c \in Backends, j \in Nat : store.at[x] = [renderer |-> c, index |-> j]
    BY <2>4, PlaceOfHandle DEF Place
  <2>6. c = b /\ j - 1 = i - 1
    BY <1>13, <2>3, <2>4, <2>5
  <2>7. store.at[x] = store.at[h]
    BY <2>1, <2>5, <2>6 DEF p
  <2>8. x = h
    BY <2>4, <2>7, PlacesDiffer
  <2> QED
    BY <1>11, <1>12, <1>13, <2>8
<1> QED
  BY <1>1, <1>2, <1>3, <1>8, <1>9, <1>10, <1>11, <1>12, <1>13 DEF p

LEMMA MergingChains ==
  ASSUME NEW h \in Handles, NEW v \in BOOLEAN, StoreOK(store), Merged(h, v),
         ChainsMarked(store)
  PROVE  ChainsMarked(store')
<1> SUFFICES ASSUME NEW x \in Handles, Misrouted(store', x)
             PROVE  IsMarked(store', store'.at[x].renderer, store'.at[x].index)
  BY DEF ChainsMarked
<1>1. /\ store'.at = store.at
      /\ x # h => /\ Valid(store, x) => CurveAt(store', x) = CurveAt(store, x)
                  /\ Before(store', x) = Before(store, x)
      /\ IsMarked(store', store.at[h].renderer, store.at[h].index)
      /\ \A c \in Backends : \A j : IsMarked(store, c, j) => IsMarked(store', c, j)
  BY MergedChains
<1>2. CASE x # h
  <2>1. Valid(store, x)
    BY <1>1 DEF Misrouted, Valid
  <2>2. Misrouted(store, x) /\ store.at[x].renderer \in Backends
    BY <1>1, <1>2, <2>1, PlaceOfHandle DEF Misrouted
  <2> QED
    BY <1>1, <2>2 DEF ChainsMarked
<1>3. CASE x = h
  BY <1>1, <1>3
<1> QED
  BY <1>2, <1>3

\* Add() continues the newest curve, which nothing continued, or starts a chain in
\* the backend of its kind; the other curves stay as they were.
LEMMA AddedChains ==
  ASSUME NEW st, StoreOK(st), NEW h \in Handles, ~Valid(st, h), NEW c \in Styles,
         NEW merge \in BOOLEAN, NEW n, LastAddSound(st, n)
  PROVE  LET m == AddCurve(st, h, c, merge)
         IN  /\ Valid(m, h) /\ SameStyle(CurveAt(m, h), c)
             /\ Before(m, h) \in {Nobody, n}
             /\ Before(m, h) = Nobody => m.at[h].renderer = KindOf(c)
             /\ Before(m, h) # Nobody =>
                  /\ Before(m, h) # h
                  /\ \A x \in Handles : Before(st, x) # Before(m, h)
             /\ \A x \in Handles \ {h} :
                  /\ m.at[x] = st.at[x]
                  /\ Valid(m, x) <=> Valid(st, x)
                  /\ Valid(st, x) => CurveAt(m, x) = CurveAt(st, x)
                  /\ Before(m, x) = Before(st, x)
             /\ m.marks = st.marks /\ m.routeAll = st.routeAll
<1> DEFINE m == AddCurve(st, h, c, merge)
           joins == Continues(st, merge)
           slot == [owner |-> h, spaced |-> c.spaced, dashed |-> c.dashed,
                    merged |-> joins]
<1>1. st \in Store
  BY DEF StoreOK
<1>2. PICK b \in Backends : b = IF joins THEN st.lastAdded.backend ELSE KindOf(c)
  <2>1. joins => st.lastAdded \in LastAdd
    BY <1>1, StoreFields DEF Continues
  <2> QED
    BY <2>1, KindIsBackend DEF LastAdd
<1> DEFINE old == st.slots[b]
           len == Len(old)
           s == m.slots[b]
<1>3. old \in Seq(Slot) /\ len \in Nat /\ DOMAIN old = 1 .. len
  BY <1>1, StoreFields
<1>4. /\ m.slots = [st.slots EXCEPT ![b] = Append(old, slot)]
      /\ m.at = [st.at EXCEPT ![h] = [renderer |-> b, index |-> len + 1]]
      /\ m.marks = st.marks /\ m.routeAll = st.routeAll
  BY <1>1, <1>2 DEF AddCurve, Store
<1>5. /\ slot.owner = h /\ slot.merged = joins /\ SameStyle(slot, c)
  BY DEF SameStyle
<1> HIDE DEF m, slot
<1>6. /\ s = Append(old, slot)
      /\ m.at[h] = [renderer |-> b, index |-> len + 1]
      /\ \A d \in Backends \ {b} : m.slots[d] = st.slots[d]
      /\ \A x \in Handles \ {h} : m.at[x] = st.at[x]
  BY <1>1, <1>4, StoreFields
<1> HIDE DEF s, old, len
<1>7. Len(s) = len + 1 /\ s[len + 1] = slot /\ \A i \in 1 .. len : s[i] = old[i]
  BY <1>3, <1>6 DEF len
<1>8. Valid(m, h) /\ CurveAt(m, h) = slot
  <2>1. m.at[h] \in Place
    BY <1>3, <1>6 DEF Place
  <2> QED
    BY <1>6, <1>7, <2>1, NobodyAssumption DEF Valid, CurveAt, s
<1>9. Before(m, h) = IF ContinuesChain(s, len + 1) THEN s[(len + 1) - 1].owner ELSE Nobody
  <2>1. m.at[h].renderer = b /\ m.at[h].index = len + 1
    BY <1>6
  <2> QED
    BY <1>8, <2>1, Zenon DEF Before, s
<1>10. (len + 1) - 1 = len
  BY <1>3
<1>11. Before(m, h) = Nobody \/ (Before(m, h) = n /\ len \in 1 .. len /\ Before(m, h) = old[len].owner)
  <2> SUFFICES ASSUME ContinuesChain(s, len + 1)
               PROVE  s[len].owner = n /\ len \in 1 .. len /\ s[len].owner = old[len].owner
    BY <1>9, <1>10
  <2>1. joins /\ len # 0 /\ s[len].owner # Nobody
    BY <1>3, <1>5, <1>7 DEF ContinuesChain
  <2>2. /\ b = st.lastAdded.backend /\ st.lastAdded # Nobody
        /\ len = st.lastAdded.slots
    BY <1>2, <2>1 DEF Continues, len, old
  <2>3. old[len].owner \in {Nobody, n}
    BY <2>2 DEF LastAddSound, len, old
  <2>4. len \in 1 .. len
    BY <1>3, <2>1
  <2> QED
    BY <1>7, <2>1, <2>3, <2>4
<1>12. ASSUME Before(m, h) = Nobody
       PROVE  b = KindOf(c)
  <2> SUFFICES ASSUME joins
               PROVE  FALSE
    BY <1>2
  <2>1. /\ b = st.lastAdded.backend /\ st.lastAdded # Nobody /\ len = st.lastAdded.slots
        /\ old[len].owner # Nobody
    BY <1>2 DEF Continues, len, old
  <2>2. len # 0
    BY <2>1 DEF LastAddSound
  <2>3. len \in 1 .. len /\ len + 1 > 1
    BY <1>3, <2>2
  <2>4. s[len].owner # Nobody /\ s[len + 1].owner # Nobody
    BY <1>5, <1>7, <2>1, <2>3, HandlesAssumption
  <2>5. s[len + 1].merged
    BY <1>5, <1>7, Zenon
  <2>6. ContinuesChain(s, len + 1)
    BY <1>10, <2>3, <2>4, <2>5 DEF ContinuesChain
  <2> QED
    BY <1>9, <1>10, <1>12, <2>4, <2>6
<1>13. ASSUME NEW x \in Handles \ {h}, Valid(st, x)
       PROVE  /\ CurveAt(m, x) = CurveAt(st, x)
              /\ Before(m, x) = Before(st, x)
  <2>1. PICK d \in Backends, j \in Nat :
          st.at[x] = [renderer |-> d, index |-> j] /\ j \in 1 .. Len(st.slots[d])
    BY <1>13, PlaceOfHandle DEF Place
  <2>2. \A i \in 1 .. Len(st.slots[d]) : m.slots[d][i] = st.slots[d][i]
    BY <1>6, <1>7 DEF s, old, len
  <2>3. m.slots[d][j] = st.slots[d][j] /\ Valid(m, x) /\ m.at[x] = st.at[x]
    BY <1>6, <1>13, <2>1, <2>2 DEF Valid
  <2>4. j > 1 => m.slots[d][j - 1] = st.slots[d][j - 1]
    <3> SUFFICES ASSUME j > 1
                 PROVE  m.slots[d][j - 1] = st.slots[d][j - 1]
      OBVIOUS
    <3>1. Len(st.slots[d]) \in Nat
      BY <1>1, StoreFields
    <3>2. j - 1 \in 1 .. Len(st.slots[d])
      BY <2>1, <3>1
    <3> QED
      BY <2>2, <3>2
  <2>5. ContinuesChain(m.slots[d], j) <=> ContinuesChain(st.slots[d], j)
    BY <2>3, <2>4, Zenon DEF ContinuesChain
  <2>6. ContinuesChain(st.slots[d], j) => j > 1
    BY DEF ContinuesChain
  <2> QED
    BY <1>13, <2>1, <2>3, <2>4, <2>5, <2>6 DEF Before, CurveAt
<1>14. ASSUME NEW x \in Handles \ {h}
       PROVE  /\ Valid(m, x) <=> Valid(st, x)
              /\ Valid(st, x) => CurveAt(m, x) = CurveAt(st, x)
              /\ Before(m, x) = Before(st, x)
  <2>1. Valid(m, x) <=> Valid(st, x)
    BY <1>6 DEF Valid
  <2> QED
    BY <1>13, <2>1 DEF Before
<1>15. ASSUME Before(m, h) # Nobody
       PROVE  /\ Before(m, h) # h
              /\ \A x \in Handles : Before(st, x) # Before(m, h)
  <2>1. len \in Live(old) /\ Before(m, h) = old[len].owner
    BY <1>3, <1>11, <1>15 DEF Live
  <2>2. Valid(st, Before(m, h)) /\ st.at[Before(m, h)] = [renderer |-> b, index |-> len]
    BY <2>1, OwnerOfSlot DEF old
  <2>3. ASSUME NEW x \in Handles, Before(st, x) = Before(m, h)
        PROVE  FALSE
    <3>1. /\ Valid(st, x)
          /\ [renderer |-> b, index |-> len] =
               [renderer |-> st.at[x].renderer, index |-> st.at[x].index - 1]
      BY <1>15, <2>2, <2>3, BeforeFacts
    <3>2. PICK d \in Backends, j \in Nat :
            st.at[x] = [renderer |-> d, index |-> j] /\ j \in 1 .. Len(st.slots[d])
      BY <3>1, PlaceOfHandle DEF Place
    <3>3. d = b /\ len = j - 1
      BY <3>1, <3>2
    <3> QED
      BY <1>3, <3>2, <3>3 DEF len, old
  <2> QED
    BY <2>2, <2>3
<1>16. SameStyle(CurveAt(m, h), c) /\ m.at[h].renderer = b
  BY <1>5, <1>6, <1>8
<1> QED
  BY <1>4, <1>6, <1>8, <1>11, <1>12, <1>14, <1>15, <1>16 DEF m

LEMMA AddingChains ==
  ASSUME NEW st, StoreOK(st), NEW h \in Handles, ~Valid(st, h), NEW c \in Styles,
         NEW merge \in BOOLEAN, NEW n, LastAddSound(st, n), ChainsMarked(st)
  PROVE  ChainsMarked(AddCurve(st, h, c, merge))
<1> DEFINE m == AddCurve(st, h, c, merge)
<1> SUFFICES ASSUME NEW x \in Handles, Misrouted(m, x)
             PROVE  IsMarked(m, m.at[x].renderer, m.at[x].index)
  BY DEF ChainsMarked
<1>1. /\ SameStyle(CurveAt(m, h), c)
      /\ Before(m, h) = Nobody => m.at[h].renderer = KindOf(c)
      /\ x # h => /\ m.at[x] = st.at[x]
                  /\ Valid(m, x) <=> Valid(st, x)
                  /\ Valid(st, x) => CurveAt(m, x) = CurveAt(st, x)
                  /\ Before(m, x) = Before(st, x)
      /\ m.marks = st.marks /\ m.routeAll = st.routeAll
  BY AddedChains
<1> HIDE DEF m
<1>2. CASE x = h
  <2>1. KindOf(CurveAt(m, h)) = KindOf(c)
    BY <1>1, KindOfStyle
  <2> QED
    BY <1>1, <1>2, <2>1 DEF Misrouted
<1>3. CASE x # h
  <2>1. Misrouted(st, x)
    BY <1>1, <1>3 DEF Misrouted
  <2> QED
    BY <1>1, <1>3, <2>1 DEF ChainsMarked, IsMarked
<1> QED
  BY <1>2, <1>3

-------------------------------------------------------------------------------
(***************************************************************************)
(* The specification.                                                       *)
(***************************************************************************)

InvChains == InvAdd /\ ChainsMarked(store)

LEMMA InvAddFacts ==
  InvAdd => StoreOK(store) /\ newest \in Handles \cup {Nobody} /\ LastAddSound(store, newest)
  BY DEF InvAdd, Inv, TypeOK, StoreOK, HandlesOwnTheirSlots, RemovedSlotsAreCounted

\* Every operation leaves a mark on every chain it leaves in the wrong backend.
LEMMA NextChains == InvChains /\ [Next]_vars => InvChains'
<1> SUFFICES ASSUME InvChains, [Next]_vars
             PROVE  InvChains'
  OBVIOUS
<1>1. StoreOK(store) /\ LastAddSound(store, newest) /\ ChainsMarked(store)
  BY InvAddFacts DEF InvChains
<1>2. InvAdd'
  BY NextAdds DEF InvChains
<1>3. SUFFICES ChainsMarked(store')
  BY <1>2 DEF InvChains, ChainsMarked, Misrouted, IsMarked, Before, CurveAt, Valid
<1>4. ASSUME NEW h \in Handles, NEW c \in Styles, NEW merge \in BOOLEAN, Add(h, c, merge)
      PROVE  ChainsMarked(store')
  BY <1>1, <1>4, AddingChains DEF Add
<1>5. ASSUME NEW h \in Handles, Remove(h)
      PROVE  ChainsMarked(store')
  BY <1>1, <1>5, RemovingChains DEF Remove
<1>6. ASSUME NEW h \in Handles, NEW g \in Handles, Move(h, g)
      PROVE  ChainsMarked(store')
  <2>1. StoreOK(RemoveCurve(store, h)) /\ ~Valid(RemoveCurve(store, h), h)
    BY <1>1, RemovingKeeps
  <2>2. ChainsMarked(RemoveCurve(store, h))
    BY <1>1, RemovingChains
  <2> QED
    BY <1>6, <2>1, <2>2, TakingOverChains DEF Move
<1>7. ASSUME NEW h \in Handles, NEW v \in BOOLEAN, Spacing(h, v) \/ DashLength(h, v)
      PROVE  ChainsMarked(store')
  BY <1>1, <1>7, SettingKindChains DEF Spacing, DashLength
<1>8. ASSUME NEW h \in Handles, NEW v \in BOOLEAN, Merged(h, v)
      PROVE  ChainsMarked(store')
  BY <1>1, <1>8, MergingChains
<1>9. \A h \in Handles : ~Misrouted(Route(store), h)
  BY <1>1, RoutingRepairs
<1>10. CASE RouteOnly
  BY <1>9, <1>10 DEF RouteOnly, ChainsMarked
<1>11. CASE Draw
  <2>1. \A h \in Handles : ~Misrouted(UpdateBuffers(Route(store)), h)
    BY <1>1, <1>9, RoutingKeeps, UpdatingKept, KeptRoute
  <2> QED
    BY <1>11, <2>1 DEF Draw, ChainsMarked
<1>12. CASE Destroy
  BY <1>12 DEF Destroy, EmptyRenderer, ChainsMarked, Misrouted, Valid
<1>13. CASE UNCHANGED vars
  BY <1>1, <1>13 DEF vars
<1> QED
  BY <1>4, <1>5, <1>6, <1>7, <1>8, <1>10, <1>11, <1>12, <1>13 DEF Next

LEMMA ChainsInvariant == Spec => []InvChains
<1>1. Init => InvChains
  <2> SUFFICES ASSUME Init
               PROVE  InvChains
    OBVIOUS
  <2>1. store = EmptyRenderer /\ newest = Nobody
    BY DEF Init
  <2>2. Inv
    BY <2>1, EmptyStoreOK DEF Inv, TypeOK, HandlesOwnTheirSlots, RemovedSlotsAreCounted, StoreOK
  <2>3. LastAddSound(store, newest) /\ ChainsMarked(store)
    BY <2>1 DEF EmptyRenderer, LastAddSound, ChainsMarked, Misrouted, Valid
  <2> QED
    BY <2>2, <2>3 DEF InvChains, InvAdd
<1> QED
  BY <1>1, NextChains, PTL DEF Spec

\* A chain that another backend should draw is visited by the next Route(), whatever
\* setters, removals, merges and moves were called in whatever order since the last.
THEOREM MisroutedAlwaysMarked == Spec => []MisroutedIsMarked
<1>1. InvChains => MisroutedIsMarked
  <2> SUFFICES ASSUME InvChains, NEW b \in Backends, NEW i \in Heads(store, b),
                      KindOf(store.slots[b][i]) # b
               PROVE  i \in Visited(store, b)
    BY DEF MisroutedIsMarked
  <2>1. StoreOK(store) /\ ChainsMarked(store)
    BY InvAddFacts DEF InvChains
  <2>2. i \in Live(store.slots[b]) /\ ~ContinuesChain(store.slots[b], i)
    BY DEF Heads
  <2>3. PICK h \in Handles : /\ Valid(store, h) /\ store.at[h] = [renderer |-> b, index |-> i]
                             /\ CurveAt(store, h) = store.slots[b][i]
    BY <2>1, <2>2, OwnerOfSlot
  <2>4. Misrouted(store, h)
    BY <2>2, <2>3, BeforeAtPlace DEF Misrouted
  <2>5. IsMarked(store, b, i)
    BY <2>1, <2>3, <2>4 DEF ChainsMarked
  <2> QED
    BY <2>2, <2>5 DEF IsMarked, Visited
<1> QED
  BY <1>1, ChainsInvariant, PTL

\* After a Draw() every chain is in the backend of the kind of its first curve, and a
\* backend that was drawn has no emptied slot, whatever was called before.
THEOREM DrawnAtHome == Spec => []DrawsAtHome
<1>1. InvChains => DrawsAtHome
  <2> SUFFICES ASSUME InvChains
               PROVE  DrawsAtHome
    OBVIOUS
  <2> DEFINE routed == Route(store)
             drawn == UpdateBuffers(routed)
             compacts(b) == Count(routed, b) > 0 /\ routed.needResize[b] /\ routed.removed[b] > 0
  <2>1. StoreOK(routed) /\ StoreOK(drawn) /\ \A h \in Handles : ~Misrouted(drawn, h)
    BY InvAddFacts, RoutingKeeps, UpdatingKeeps, RoutingRepairs, UpdatingKept, KeptRoute
       DEF InvChains
  <2>2. routed \in Store
    BY <2>1 DEF StoreOK
  <2>3. \A b \in Backends :
          /\ drawn.slots[b] = IF compacts(b) THEN CompactRemoved(routed.slots[b])
                              ELSE routed.slots[b]
          /\ drawn.removed[b] = IF compacts(b) THEN 0 ELSE routed.removed[b]
    <3> HIDE DEF routed
    <3> QED
      BY <2>2 DEF UpdateBuffers, Store
  <2> HIDE DEF routed, drawn
  <2>4. ASSUME NEW b \in Backends, NEW i \in Heads(drawn, b)
        PROVE  KindOf(drawn.slots[b][i]) = b
    <3>1. i \in Live(drawn.slots[b]) /\ ~ContinuesChain(drawn.slots[b], i)
      BY <2>4 DEF Heads
    <3>2. PICK h \in Handles : /\ Valid(drawn, h) /\ drawn.at[h] = [renderer |-> b, index |-> i]
                               /\ CurveAt(drawn, h) = drawn.slots[b][i]
      BY <2>1, <3>1, OwnerOfSlot
    <3> QED
      BY <2>1, <3>1, <3>2, BeforeAtPlace DEF Misrouted
  <2>5. ASSUME NEW b \in Backends, Count(drawn, b) > 0
        PROVE  Live(drawn.slots[b]) = DOMAIN drawn.slots[b]
    <3>1. routed.slots[b] \in Seq(Slot) /\ routed.removed[b] \in Nat
      BY <2>2, StoreFields
    <3>2. CASE compacts(b)
      BY <2>3, <3>1, <3>2, CompactionFacts
    <3>3. CASE ~compacts(b)
      <4>1. drawn.slots[b] = routed.slots[b] /\ Count(routed, b) > 0
        BY <2>3, <2>5, <3>3 DEF Count
      <4>2. routed.removed[b] = 0
        <5>1. routed.removed[b] > 0 => routed.needResize[b]
          BY <2>1 DEF StoreOK, CountsRemoved
        <5>2. ~(routed.removed[b] > 0)
          BY <3>3, <4>1, <5>1, Zenon DEF compacts
        <5> QED
          BY <3>1, <5>2
      <4>3. /\ Cardinality(DOMAIN routed.slots[b] \ Live(routed.slots[b])) = 0
            /\ DOMAIN routed.slots[b] = 1 .. Len(routed.slots[b])
        BY <2>1, <3>1, <4>2 DEF StoreOK, CountsRemoved
      <4>4. IsFiniteSet(DOMAIN routed.slots[b] \ Live(routed.slots[b]))
        <5> DEFINE gaps == DOMAIN routed.slots[b] \ Live(routed.slots[b])
        <5>1. Len(routed.slots[b]) \in Nat
          BY <3>1
        <5>2. gaps \in SUBSET (1 .. Len(routed.slots[b]))
          BY <4>3
        <5> HIDE DEF gaps
        <5>3. IsFiniteSet(gaps)
          BY <5>1, <5>2, RankBijection
        <5> QED
          BY <5>3 DEF gaps
      <4>5. DOMAIN routed.slots[b] \ Live(routed.slots[b]) = {}
        BY <4>3, <4>4, FS_EmptySet
      <4> QED
        BY <4>1, <4>5 DEF Live
    <3> QED
      BY <3>2, <3>3
  <2> QED
    BY <2>4, <2>5 DEF DrawsAtHome, drawn, routed
<1> QED
  BY <1>1, ChainsInvariant, PTL

-------------------------------------------------------------------------------
(***************************************************************************)
(* The refinement of CurveStrokes.                                          *)
(***************************************************************************)

StyleMap(st) == [h \in Handles |-> StyleOf(st, h)]

\* Every handle has the same curve.
AllKept(st, m) == \A h \in Handles : Kept(st, m, h)

LEMMA StyleOfValid ==
  ASSUME NEW st, StoreOK(st), NEW h \in Handles
  PROVE  /\ Valid(st, h) => /\ StyleOf(st, h) = [spaced |-> CurveAt(st, h).spaced,
                                                 dashed |-> CurveAt(st, h).dashed]
                            /\ StyleOf(st, h) # Nobody
         /\ ~Valid(st, h) => StyleOf(st, h) = Nobody
<1>1. ~Valid(st, h) => StyleOf(st, h) = Nobody
  BY DEF StyleOf
<1>2. ASSUME Valid(st, h)
      PROVE  /\ StyleOf(st, h) = [spaced |-> CurveAt(st, h).spaced,
                                  dashed |-> CurveAt(st, h).dashed]
             /\ StyleOf(st, h) # Nobody
  <2>1. StyleOf(st, h) = [spaced |-> CurveAt(st, h).spaced, dashed |-> CurveAt(st, h).dashed]
    BY <1>2 DEF StyleOf, CurveAt
  <2>2. CurveAt(st, h) \in Slot
    BY <1>2, PlaceOfHandle DEF CurveAt
  <2>3. StyleOf(st, h) \in [spaced : BOOLEAN, dashed : BOOLEAN]
    BY <2>1, <2>2 DEF Slot
  <2> QED
    BY <2>1, <2>3, NobodyAssumption
<1> QED
  BY <1>1, <1>2

LEMMA SameStyleOf ==
  ASSUME NEW st, NEW m, StoreOK(st), StoreOK(m), NEW x \in Handles, NEW y \in Handles,
         Valid(m, x) <=> Valid(st, y),
         Valid(st, y) => SameStyle(CurveAt(m, x), CurveAt(st, y))
  PROVE  StyleOf(m, x) = StyleOf(st, y)
  BY StyleOfValid DEF SameStyle

LEMMA SamePairs ==
  ASSUME NEW S \in SUBSET (Handles \X Handles), NEW T \in SUBSET (Handles \X Handles),
         \A x \in Handles, y \in Handles : <<x, y>> \in S <=> <<x, y>> \in T
  PROVE  S = T
  OBVIOUS

LEMMA JoinsArePairs ==
  ASSUME NEW st, StoreOK(st)
  PROVE  Joins(st) \in SUBSET (Handles \X Handles)
  BY JoinsByHandle

LEMMA PairJoined ==
  ASSUME NEW st, StoreOK(st), NEW x \in Handles, NEW y \in Handles
  PROVE  <<x, y>> \in Joins(st) <=> Before(st, y) = x
<1>1. Joins(st) = {p \in Handles \X Handles : Before(st, p[2]) = p[1]}
  BY JoinsByHandle
<1> QED
  BY <1>1

LEMMA KeptStrokes ==
  ASSUME NEW st, NEW m, StoreOK(st), StoreOK(m), AllKept(st, m)
  PROVE  StyleMap(m) = StyleMap(st) /\ Joins(m) = Joins(st)
<1>1. \A h \in Handles : StyleOf(m, h) = StyleOf(st, h)
  BY SameStyleOf DEF AllKept, Kept
<1>2. StyleMap(m) = StyleMap(st)
  BY <1>1 DEF StyleMap
<1>3. ASSUME NEW x \in Handles, NEW y \in Handles
      PROVE  <<x, y>> \in Joins(m) <=> <<x, y>> \in Joins(st)
  <2>1. /\ <<x, y>> \in Joins(m) <=> Before(m, y) = x
        /\ <<x, y>> \in Joins(st) <=> Before(st, y) = x
    BY PairJoined
  <2> QED
    BY <2>1 DEF AllKept, Kept
<1>4. Joins(m) = Joins(st)
  BY <1>3, JoinsArePairs, SamePairs
<1> QED
  BY <1>2, <1>4

\* A removal takes h and what joined it out of the strokes.
LEMMA RemovedStrokes ==
  ASSUME NEW st, StoreOK(st), NEW h \in Handles
  PROVE  LET m == RemoveCurve(st, h)
         IN  /\ StyleMap(m) = [StyleMap(st) EXCEPT ![h] = Nobody]
             /\ Joins(m) = {j \in Joins(st) : h \notin {j[1], j[2]}}
<1> DEFINE m == RemoveCurve(st, h)
           left == {j \in Joins(st) : h \notin {j[1], j[2]}}
<1>1. StoreOK(m) /\ ~Valid(m, h)
  BY RemovingKeeps
<1>2. ASSUME NEW x \in Handles \ {h}
      PROVE  /\ Valid(m, x) <=> Valid(st, x)
             /\ Valid(st, x) => SameStyle(CurveAt(m, x), CurveAt(st, x))
             /\ Before(m, x) = IF Before(st, x) = h THEN Nobody ELSE Before(st, x)
  <2>1. CASE Valid(st, h)
    BY <2>1, RemovedChains DEF SameStyle
  <2>2. CASE ~Valid(st, h)
    <3>1. m = st
      BY <2>2 DEF RemoveCurve
    <3>2. Before(st, x) # h
      BY <2>2, HandlesAssumption, BeforeFacts
    <3> QED
      BY <3>1, <3>2 DEF SameStyle
  <2> QED
    BY <2>1, <2>2
<1> HIDE DEF m
<1>3. StyleMap(m) = [StyleMap(st) EXCEPT ![h] = Nobody]
  <2>1. StyleOf(m, h) = Nobody
    BY <1>1, StyleOfValid
  <2>2. \A x \in Handles \ {h} : StyleOf(m, x) = StyleOf(st, x)
    BY <1>1, <1>2, SameStyleOf
  <2> QED
    BY <2>1, <2>2 DEF StyleMap
<1>4. Before(m, h) = Nobody
  BY <1>1 DEF Before
<1>5. ASSUME NEW x \in Handles, NEW y \in Handles
      PROVE  <<x, y>> \in left <=> Before(st, y) = x /\ h # x /\ h # y
  <2>1. <<x, y>> \in Joins(st) <=> Before(st, y) = x
    BY PairJoined
  <2> QED
    BY <2>1
<1>6. ASSUME NEW x \in Handles, NEW y \in Handles
      PROVE  <<x, y>> \in Joins(m) <=> <<x, y>> \in left
  <2>1. /\ <<x, y>> \in Joins(m) <=> Before(m, y) = x
        /\ <<x, y>> \in left <=> Before(st, y) = x /\ h # x /\ h # y
    BY <1>1, <1>5, PairJoined
  <2> HIDE DEF left
  <2> QED
    BY <1>2, <1>4, <2>1, HandlesAssumption
<1>7. left \in SUBSET (Handles \X Handles)
  BY JoinsArePairs
<1>8. Joins(m) = left
  <2> HIDE DEF left
  <2> QED
    BY <1>1, <1>6, <1>7, JoinsArePairs, SamePairs
<1> QED
  BY <1>3, <1>8 DEF m

\* A move puts h in the place of g, in its style and in its joins.
LEMMA TakenOverStrokes ==
  ASSUME NEW st, StoreOK(st), NEW h \in Handles, NEW g \in Handles, h # g, ~Valid(st, h)
  PROVE  LET m == TakeOver(st, h, g)
             Renamed(x) == IF x = g THEN h ELSE x
         IN  /\ StyleMap(m) = [StyleMap(st) EXCEPT ![h] = StyleMap(st)[g], ![g] = Nobody]
             /\ Joins(m) = {<<Renamed(j[1]), Renamed(j[2])>> : j \in Joins(st)}
<1> DEFINE m == TakeOver(st, h, g)
           Renamed(x) == IF x = g THEN h ELSE x
           moved == {<<Renamed(j[1]), Renamed(j[2])>> : j \in Joins(st)}
<1>1. StoreOK(m) /\ ~Valid(m, g)
  <2>1. ~Valid(m, g)
    BY TakenOverChains DEF TakeOver
  <2> QED
    BY <2>1, TakingOverKeeps
<1>2. /\ Valid(m, h) <=> Valid(st, g)
      /\ Valid(st, g) => SameStyle(CurveAt(m, h), CurveAt(st, g))
      /\ Before(m, h) = Before(st, g)
  <2>1. CASE Valid(st, g)
    BY <2>1, TakenOverChains
  <2>2. CASE ~Valid(st, g)
    BY <2>2 DEF TakeOver, Before
  <2> QED
    BY <2>1, <2>2
<1>3. ASSUME NEW x \in Handles \ {h, g}
      PROVE  /\ Valid(m, x) <=> Valid(st, x)
             /\ Valid(st, x) => SameStyle(CurveAt(m, x), CurveAt(st, x))
             /\ Before(m, x) = IF Before(st, x) = g THEN h ELSE Before(st, x)
  <2>1. CASE Valid(st, g)
    BY <2>1, TakenOverChains DEF SameStyle
  <2>2. CASE ~Valid(st, g)
    <3>1. m = st
      BY <2>2 DEF TakeOver
    <3>2. Before(st, x) # g
      BY <2>2, HandlesAssumption, BeforeFacts
    <3> QED
      BY <3>1, <3>2 DEF SameStyle
  <2> QED
    BY <2>1, <2>2
<1> HIDE DEF m
<1>4. StyleMap(m) = [StyleMap(st) EXCEPT ![h] = StyleMap(st)[g], ![g] = Nobody]
  <2>1. StyleOf(m, g) = Nobody /\ StyleOf(m, h) = StyleOf(st, g)
    BY <1>1, <1>2, StyleOfValid, SameStyleOf
  <2>2. \A x \in Handles \ {h, g} : StyleOf(m, x) = StyleOf(st, x)
    BY <1>1, <1>3, SameStyleOf
  <2> QED
    BY <2>1, <2>2 DEF StyleMap
<1>5. Before(m, g) = Nobody /\ Before(st, h) = Nobody
  BY <1>1 DEF Before
<1>6. \A y \in Handles : Before(st, y) # h
  BY HandlesAssumption, BeforeFacts
<1>7. Before(st, g) # g
  BY HandlesAssumption, BeforeFacts
<1>8. ASSUME NEW x \in Handles, NEW y \in Handles
      PROVE  <<x, y>> \in moved <=>
               \E w \in Handles : /\ Before(st, w) \in Handles
                                  /\ x = Renamed(Before(st, w)) /\ y = Renamed(w)
  <2> HIDE DEF Renamed
  <2>1. <<x, y>> \in moved <=> \E j \in Joins(st) : x = Renamed(j[1]) /\ y = Renamed(j[2])
    OBVIOUS
  <2>2. ASSUME NEW j \in Joins(st), x = Renamed(j[1]), y = Renamed(j[2])
        PROVE  \E w \in Handles : /\ Before(st, w) \in Handles
                                  /\ x = Renamed(Before(st, w)) /\ y = Renamed(w)
    <3>1. j[1] \in Handles /\ j[2] \in Handles /\ j = <<j[1], j[2]>>
      BY JoinsArePairs
    <3>2. Before(st, j[2]) = j[1]
      BY <3>1, PairJoined
    <3> QED
      BY <2>2, <3>1, <3>2
  <2>3. ASSUME NEW w \in Handles, Before(st, w) \in Handles,
               x = Renamed(Before(st, w)), y = Renamed(w)
        PROVE  \E j \in Joins(st) : x = Renamed(j[1]) /\ y = Renamed(j[2])
    <3>1. <<Before(st, w), w>> \in Joins(st)
      BY <2>3, PairJoined
    <3> QED
      BY <2>3, <3>1
  <2> QED
    BY <2>1, <2>2, <2>3
<1>9. ASSUME NEW x \in Handles, NEW y \in Handles
      PROVE  <<x, y>> \in Joins(m) <=> <<x, y>> \in moved
  <2> HIDE DEF moved
  <2>1. Before(m, y) = x <=>
          \E w \in Handles : /\ Before(st, w) \in Handles
                             /\ x = Renamed(Before(st, w)) /\ y = Renamed(w)
    <3>1. CASE y = h
      BY <1>2, <1>5, <1>6, <1>7, <3>1, HandlesAssumption
    <3>2. CASE y = g
      BY <1>5, <3>2, HandlesAssumption
    <3>3. CASE y \notin {h, g}
      BY <1>3, <1>6, <3>3, HandlesAssumption
    <3> QED
      BY <3>1, <3>2, <3>3
  <2>2. <<x, y>> \in Joins(m) <=> Before(m, y) = x
    BY <1>1, PairJoined
  <2> HIDE DEF Renamed
  <2>3. <<x, y>> \in moved <=>
          \E w \in Handles : /\ Before(st, w) \in Handles
                             /\ x = Renamed(Before(st, w)) /\ y = Renamed(w)
    BY <1>8
  <2> QED
    BY <2>1, <2>2, <2>3
<1>10. moved \in SUBSET (Handles \X Handles)
  BY JoinsArePairs
<1>11. Joins(m) = moved
  <2> HIDE DEF moved
  <2> QED
    BY <1>1, <1>9, <1>10, JoinsArePairs, SamePairs
<1> QED
  BY <1>4, <1>11 DEF m

LEMMA AddedStrokes ==
  ASSUME NEW st, StoreOK(st), NEW h \in Handles, ~Valid(st, h), NEW c \in Styles,
         NEW merge \in BOOLEAN, NEW n, LastAddSound(st, n)
  PROVE  LET m == AddCurve(st, h, c, merge)
         IN  /\ StyleMap(m) = [StyleMap(st) EXCEPT ![h] = c]
             /\ \/ Joins(m) = Joins(st)
                \/ /\ n # Nobody
                   /\ ~ \E x \in Handles : <<n, x>> \in Joins(st)
                   /\ Joins(m) = Joins(st) \cup {<<n, h>>}
<1> DEFINE m == AddCurve(st, h, c, merge)
<1>1. StoreOK(m)
  BY AddingKeeps
<1>2. /\ Valid(m, h) /\ SameStyle(CurveAt(m, h), c)
      /\ Before(m, h) \in {Nobody, n}
      /\ Before(m, h) # Nobody =>
           /\ Before(m, h) # h
           /\ \A x \in Handles : Before(st, x) # Before(m, h)
      /\ \A x \in Handles \ {h} :
           /\ Valid(m, x) <=> Valid(st, x)
           /\ Valid(st, x) => CurveAt(m, x) = CurveAt(st, x)
           /\ Before(m, x) = Before(st, x)
  BY AddedChains
<1> HIDE DEF m
<1>3. StyleMap(m) = [StyleMap(st) EXCEPT ![h] = c]
  <2>1. StyleOf(m, h) = c
    <3>1. c \in [spaced : BOOLEAN, dashed : BOOLEAN]
      BY StylesAssumption
    <3>2. c = [spaced |-> c.spaced, dashed |-> c.dashed]
      BY <3>1
    <3> QED
      BY <1>1, <1>2, <3>2, StyleOfValid DEF SameStyle
  <2>2. ASSUME NEW x \in Handles \ {h}
        PROVE  StyleOf(m, x) = StyleOf(st, x)
    BY <1>1, <1>2, SameStyleOf DEF SameStyle
  <2> QED
    BY <2>1, <2>2 DEF StyleMap
<1>4. Before(st, h) = Nobody
  BY DEF Before
<1>5. CASE Before(m, h) = Nobody
  <2>1. ASSUME NEW x \in Handles, NEW y \in Handles
        PROVE  <<x, y>> \in Joins(m) <=> <<x, y>> \in Joins(st)
    <3>1. /\ <<x, y>> \in Joins(m) <=> Before(m, y) = x
          /\ <<x, y>> \in Joins(st) <=> Before(st, y) = x
      BY <1>1, PairJoined
    <3> QED
      BY <1>2, <1>4, <1>5, <3>1
  <2>2. Joins(m) = Joins(st)
    BY <1>1, <2>1, JoinsArePairs, SamePairs
  <2> QED
    BY <1>3, <2>2 DEF m
<1>6. CASE Before(m, h) # Nobody
  <2>1. n = Before(m, h) /\ n \in Handles /\ n # Nobody
    BY <1>1, <1>2, <1>6, BeforeFacts
  <2>2. ASSUME NEW x \in Handles
        PROVE  <<n, x>> \notin Joins(st)
    BY <1>2, <1>6, <2>1, PairJoined
  <2> DEFINE joined == Joins(st) \cup {<<n, h>>}
  <2>3. ASSUME NEW x \in Handles, NEW y \in Handles
        PROVE  <<x, y>> \in Joins(m) <=> <<x, y>> \in joined
    <3>1. /\ <<x, y>> \in Joins(m) <=> Before(m, y) = x
          /\ <<x, y>> \in Joins(st) <=> Before(st, y) = x
      BY <1>1, PairJoined
    <3>2. <<x, y>> \in joined <=> Before(st, y) = x \/ (x = n /\ y = h)
      BY <3>1
    <3> HIDE DEF joined
    <3> QED
      BY <1>2, <1>4, <2>1, <3>1, <3>2, HandlesAssumption
  <2>4. joined \in SUBSET (Handles \X Handles)
    BY <2>1, JoinsArePairs
  <2> HIDE DEF joined
  <2>5. Joins(m) = joined
    BY <1>1, <2>3, <2>4, JoinsArePairs, SamePairs
  <2> QED
    BY <1>3, <2>1, <2>2, <2>5 DEF m, joined
<1> QED
  BY <1>5, <1>6

LEMMA SetKindStrokes ==
  ASSUME NEW h \in Handles, NEW field \in {"spaced", "dashed"}, NEW v \in BOOLEAN,
         StoreOK(store), Valid(store, h), SetKind(h, field, v)
  PROVE  /\ \E c \in Styles : StyleMap(store') = [StyleMap(store) EXCEPT ![h] = c]
         /\ Joins(store') = Joins(store)
<1>1. StoreOK(store')
  BY SetKindKeeps
<1>2. /\ store'.at = store.at
      /\ [spaced |-> CurveAt(store', h).spaced, dashed |-> CurveAt(store', h).dashed] \in Styles
      /\ \A x \in Handles \ {h} : Valid(store, x) => CurveAt(store', x) = CurveAt(store, x)
      /\ \A x \in Handles : Before(store', x) = Before(store, x)
  BY SetKindChains
<1>3. \A x \in Handles : Valid(store', x) <=> Valid(store, x)
  BY <1>2 DEF Valid
<1>4. StyleOf(store', h) \in Styles
  BY <1>1, <1>2, <1>3, StyleOfValid
<1>5. ASSUME NEW x \in Handles \ {h}
      PROVE  StyleOf(store', x) = StyleOf(store, x)
  BY <1>1, <1>2, <1>3, SameStyleOf DEF SameStyle
<1>6. StyleMap(store') = [StyleMap(store) EXCEPT ![h] = StyleOf(store', h)]
  BY <1>5 DEF StyleMap
<1>7. ASSUME NEW x \in Handles, NEW y \in Handles
      PROVE  <<x, y>> \in Joins(store') <=> <<x, y>> \in Joins(store)
  <2>1. /\ <<x, y>> \in Joins(store') <=> Before(store', y) = x
        /\ <<x, y>> \in Joins(store) <=> Before(store, y) = x
    BY <1>1, PairJoined
  <2> QED
    BY <1>2, <2>1
<1>8. Joins(store') = Joins(store)
  BY <1>1, <1>7, JoinsArePairs, SamePairs
<1> QED
  BY <1>4, <1>6, <1>8

LEMMA MergedStrokes ==
  ASSUME NEW h \in Handles, NEW v \in BOOLEAN, StoreOK(store), Merged(h, v)
  PROVE  /\ StyleMap(store') = StyleMap(store)
         /\ \/ \E g \in Handles : /\ g # h /\ Valid(store, g)
                                  /\ ~ \E x \in Handles : <<g, x>> \in Joins(store)
                                  /\ ~ \E x \in Handles : <<x, h>> \in Joins(store)
                                  /\ Joins(store') = Joins(store) \cup {<<g, h>>}
            \/ Joins(store') = {j \in Joins(store) : j[2] # h}
<1>1. StoreOK(store')
  BY MergedKeeps
<1>2. /\ store'.at = store.at /\ Valid(store, h)
      /\ SameStyle(CurveAt(store', h), CurveAt(store, h))
      /\ \A x \in Handles \ {h} :
           /\ Valid(store, x) => CurveAt(store', x) = CurveAt(store, x)
           /\ Before(store', x) = Before(store, x)
      /\ ~v => Before(store', h) = Nobody
      /\ v => Before(store, h) = Nobody
      /\ Before(store', h) # Nobody =>
           \A x \in Handles : Before(store, x) # Before(store', h)
  BY MergedChains
<1>3. \A x \in Handles : Valid(store', x) <=> Valid(store, x)
  BY <1>2 DEF Valid
<1>4. ASSUME NEW x \in Handles
      PROVE  StyleOf(store', x) = StyleOf(store, x)
  BY <1>1, <1>2, <1>3, SameStyleOf DEF SameStyle
<1>5. StyleMap(store') = StyleMap(store)
  BY <1>4 DEF StyleMap
<1>6. CASE Before(store', h) = Nobody
  <2> DEFINE cut == {j \in Joins(store) : j[2] # h}
  <2>1. ASSUME NEW x \in Handles, NEW y \in Handles
        PROVE  <<x, y>> \in Joins(store') <=> <<x, y>> \in cut
    <3>1. /\ <<x, y>> \in Joins(store') <=> Before(store', y) = x
          /\ <<x, y>> \in Joins(store) <=> Before(store, y) = x
      BY <1>1, PairJoined
    <3>2. <<x, y>> \in cut <=> Before(store, y) = x /\ y # h
      BY <3>1
    <3> HIDE DEF cut
    <3> QED
      BY <1>2, <1>6, <3>1, <3>2, HandlesAssumption
  <2>2. cut \in SUBSET (Handles \X Handles)
    BY JoinsArePairs
  <2> HIDE DEF cut
  <2>3. Joins(store') = cut
    BY <1>1, <2>1, <2>2, JoinsArePairs, SamePairs
  <2> QED
    BY <1>5, <2>3 DEF cut
<1>7. CASE Before(store', h) # Nobody
  <2>1. PICK g : g = Before(store', h)
    OBVIOUS
  <2>2. g \in Handles /\ g # h /\ Valid(store, g) /\ Before(store, h) = Nobody
    BY <1>1, <1>2, <1>3, <1>7, <2>1, BeforeFacts
  <2>3. ASSUME NEW x \in Handles
        PROVE  <<g, x>> \notin Joins(store) /\ <<x, h>> \notin Joins(store)
    <3>1. /\ <<g, x>> \in Joins(store) <=> Before(store, x) = g
          /\ <<x, h>> \in Joins(store) <=> Before(store, h) = x
      BY <2>2, PairJoined
    <3> QED
      BY <1>2, <1>7, <2>1, <2>2, <3>1, HandlesAssumption
  <2> DEFINE joined == Joins(store) \cup {<<g, h>>}
  <2>4. ASSUME NEW x \in Handles, NEW y \in Handles
        PROVE  <<x, y>> \in Joins(store') <=> <<x, y>> \in joined
    <3>1. /\ <<x, y>> \in Joins(store') <=> Before(store', y) = x
          /\ <<x, y>> \in Joins(store) <=> Before(store, y) = x
      BY <1>1, PairJoined
    <3>2. <<x, y>> \in joined <=> Before(store, y) = x \/ (x = g /\ y = h)
      BY <3>1
    <3> HIDE DEF joined
    <3> QED
      BY <1>2, <2>1, <2>2, <3>1, <3>2, HandlesAssumption
  <2>5. joined \in SUBSET (Handles \X Handles)
    BY <2>2, JoinsArePairs
  <2> HIDE DEF joined
  <2>6. Joins(store') = joined
    BY <1>1, <2>4, <2>5, JoinsArePairs, SamePairs
  <2> QED
    BY <1>5, <2>2, <2>3, <2>6 DEF joined
<1> QED
  BY <1>6, <1>7

\* Every operation of the renderer is one of CurveStrokes or changes no stroke.
LEMMA NextStrokes == InvAdd /\ [Next]_vars => [Strokes!SNext]_(Strokes!svars)
<1> SUFFICES ASSUME InvAdd, [Next]_vars
             PROVE  [Strokes!SNext]_(Strokes!svars)
  OBVIOUS
<1>1. StoreOK(store) /\ LastAddSound(store, newest)
  BY InvAddFacts
<1>2. /\ [h \in Handles |-> StyleOf(store, h)] = StyleMap(store)
      /\ ([h \in Handles |-> StyleOf(store, h)])' = StyleMap(store')
      /\ Joins(store)' = Joins(store')
  BY DEF StyleMap, StyleOf, Valid, Joins, ContinuesChain
<1>3. \A h \in Handles : StyleMap(store)[h] = StyleOf(store, h)
  BY DEF StyleMap
<1>4. \A h \in Handles : Valid(store, h) <=> StyleMap(store)[h] # Nobody
  BY <1>1, <1>3, StyleOfValid
<1>5. ASSUME AllKept(store, store'), StoreOK(store'), newest' = newest
      PROVE  UNCHANGED Strokes!svars
  BY <1>1, <1>2, <1>5, KeptStrokes DEF Strokes!svars
<1>6. ASSUME NEW h \in Handles, NEW c \in Styles, NEW merge \in BOOLEAN, Add(h, c, merge)
      PROVE  Strokes!SAdd(h)
  <2>1. ~Valid(store, h) /\ store' = AddCurve(store, h, c, merge) /\ newest' = h
    BY <1>6 DEF Add
  <2>2. /\ StyleMap(store') = [StyleMap(store) EXCEPT ![h] = c]
        /\ \/ Joins(store') = Joins(store)
           \/ /\ newest # Nobody
              /\ ~ \E x \in Handles : <<newest, x>> \in Joins(store)
              /\ Joins(store') = Joins(store) \cup {<<newest, h>>}
    BY <1>1, <2>1, AddedStrokes
  <2> QED
    BY <1>2, <1>4, <2>1, <2>2 DEF Strokes!SAdd, Strokes!HasNext
<1>7. ASSUME NEW h \in Handles, Remove(h)
      PROVE  Strokes!SRemove(h)
  <2>1. Valid(store, h) /\ store' = RemoveCurve(store, h)
        /\ newest' = IF newest = h THEN Nobody ELSE newest
    BY <1>7 DEF Remove
  <2>2. /\ StyleMap(store') = [StyleMap(store) EXCEPT ![h] = Nobody]
        /\ Joins(store') = {j \in Joins(store) : h \notin {j[1], j[2]}}
    BY <1>1, <2>1, RemovedStrokes
  <2> QED
    BY <1>2, <1>4, <2>1, <2>2 DEF Strokes!SRemove, Strokes!Without
<1>8. ASSUME NEW h \in Handles, NEW g \in Handles, Move(h, g)
      PROVE  Strokes!SMove(h, g)
  <2> DEFINE m == RemoveCurve(store, h)
             Renamed(x) == IF x = g THEN h ELSE x
             left == {j \in Joins(store) : h \notin {j[1], j[2]}}
  <2>1. /\ h # g /\ store' = TakeOver(m, h, g)
        /\ newest' = IF newest = g THEN h ELSE IF newest = h THEN Nobody ELSE newest
    BY <1>8 DEF Move
  <2>2. StoreOK(m) /\ ~Valid(m, h)
    BY <1>1, RemovingKeeps
  <2>3. StyleMap(m) = [StyleMap(store) EXCEPT ![h] = Nobody] /\ Joins(m) = left
    BY <1>1, RemovedStrokes
  <2> HIDE DEF m
  <2>4. /\ StyleMap(store') = [StyleMap(m) EXCEPT ![h] = StyleMap(m)[g], ![g] = Nobody]
        /\ Joins(store') = {<<Renamed(j[1]), Renamed(j[2])>> : j \in Joins(m)}
    BY <2>1, <2>2, TakenOverStrokes
  <2>5. StyleMap(store') = [StyleMap(store) EXCEPT ![h] = StyleMap(store)[g], ![g] = Nobody]
    BY <2>1, <2>3, <2>4 DEF StyleMap
  <2>6. Joins(store') = {<<Renamed(j[1]), Renamed(j[2])>> : j \in left}
    BY <2>3, <2>4
  <2>7. newest' = IF newest = h THEN Nobody ELSE Renamed(newest)
    BY <2>1
  <2> QED
    BY <1>2, <2>1, <2>5, <2>6, <2>7 DEF Strokes!SMove, Strokes!Without
<1>9. ASSUME NEW h \in Handles, NEW v \in BOOLEAN, Spacing(h, v) \/ DashLength(h, v)
      PROVE  Strokes!SStyle(h)
  <2>1. Valid(store, h) /\ newest' = newest
    BY <1>9 DEF Spacing, DashLength, SetKind
  <2>2. /\ \E c \in Styles : StyleMap(store') = [StyleMap(store) EXCEPT ![h] = c]
        /\ Joins(store') = Joins(store)
    BY <1>1, <1>9, <2>1, SetKindStrokes DEF Spacing, DashLength
  <2> QED
    BY <1>2, <1>4, <2>1, <2>2 DEF Strokes!SStyle
<1>10. ASSUME NEW h \in Handles, NEW v \in BOOLEAN, Merged(h, v)
       PROVE  Strokes!SMerge(h)
  <2>1. Valid(store, h) /\ newest' = newest
    BY <1>10 DEF Merged
  <2>2. /\ StyleMap(store') = StyleMap(store)
        /\ \/ \E g \in Handles : /\ g # h /\ Valid(store, g)
                                 /\ ~ \E x \in Handles : <<g, x>> \in Joins(store)
                                 /\ ~ \E x \in Handles : <<x, h>> \in Joins(store)
                                 /\ Joins(store') = Joins(store) \cup {<<g, h>>}
           \/ Joins(store') = {j \in Joins(store) : j[2] # h}
    BY <1>1, <1>10, MergedStrokes
  <2> QED
    BY <1>2, <1>4, <2>1, <2>2 DEF Strokes!SMerge, Strokes!HasNext, Strokes!HasPrevious
<1>11. CASE RouteOnly
  <2>1. StoreOK(store') /\ AllKept(store, store') /\ newest' = newest
    BY <1>1, <1>11, RoutingKeeps, RoutingKept DEF RouteOnly, AllKept
  <2> QED
    BY <1>5, <2>1
<1>12. CASE Draw
  <2>1. StoreOK(Route(store)) /\ \A h \in Handles : Kept(store, Route(store), h)
    BY <1>1, RoutingKeeps, RoutingKept
  <2>2. \A h \in Handles : Kept(Route(store), UpdateBuffers(Route(store)), h)
    BY <2>1, UpdatingKept
  <2>3. AllKept(store, UpdateBuffers(Route(store)))
    BY <2>1, <2>2, KeptTransitive DEF AllKept
  <2>4. StoreOK(UpdateBuffers(Route(store)))
    BY <2>1, UpdatingKeeps
  <2> QED
    BY <1>5, <1>12, <2>3, <2>4 DEF Draw
<1>13. CASE Destroy
  <2>1. store' = EmptyRenderer /\ newest' = Nobody
    BY <1>13 DEF Destroy
  <2>2. StyleMap(EmptyRenderer) = [h \in Handles |-> Nobody] /\ Joins(EmptyRenderer) = {}
    BY DEF EmptyRenderer, StyleMap, StyleOf, Valid, Joins
  <2> QED
    BY <1>2, <2>1, <2>2 DEF Strokes!SDestroy, Strokes!SNext
<1>14. CASE UNCHANGED vars
  BY <1>2, <1>14 DEF vars, Strokes!svars
<1>15. CASE Next
  BY <1>6, <1>7, <1>8, <1>9, <1>10, <1>11, <1>12, <1>13, <1>15 DEF Next, Strokes!SNext
<1> QED
  BY <1>14, <1>15

\* The renderer implements CurveStrokes: routing and compaction break no stroke and join
\* no two, and a moved handle takes its curve, its style and its neighbours along.
THEOREM RendererImplementsStrokes == Spec => ImplementsStrokes
<1>1. Init => Strokes!SInit
  <2>1. StyleMap(EmptyRenderer) = [h \in Handles |-> Nobody] /\ Joins(EmptyRenderer) = {}
    BY DEF EmptyRenderer, StyleMap, StyleOf, Valid, Joins
  <2> QED
    BY <2>1 DEF Init, StyleMap, Strokes!SInit
<1>2. Spec => []InvAdd
  <2>1. InvChains => InvAdd
    BY DEF InvChains
  <2> QED
    BY <2>1, ChainsInvariant, PTL
<1> QED
  BY <1>1, <1>2, NextStrokes, PTL DEF Spec, ImplementsStrokes, Strokes!SSpec

===============================================================================
