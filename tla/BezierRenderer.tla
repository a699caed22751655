---------------------------- MODULE BezierRenderer ----------------------------
(***************************************************************************)
(* BezierRenderer (BezierRenderer.cpp): curves live in the slots of three   *)
(* backends, one per kind; BezierCurve handles own them.  A handle stores   *)
(* its backend and slot index, the slot stores a pointer to its handle, and *)
(* every operation that moves either side must repair the other.            *)
(*                                                                         *)
(* A chain (a curve and the merged curves that continue it) is drawn by the *)
(* backend of its first curve's kind.  Setters and removals only mark slot  *)
(* indices; Route(), at the start of Draw(), moves whole chains, and each   *)
(* drawn backend then compacts its slots.  The program is single-threaded:  *)
(* the actions are calls of its public interface, in any legal order.       *)
(***************************************************************************)
EXTENDS CurveSlots

CONSTANTS
  Styles,   \* bound: the styles the program gives its curves
  MaxSlots  \* bound: slots, removed ones included, that Add and a bare Route()
            \* may leave in the backends together

ASSUME StylesAssumption == Styles \subseteq [spaced : BOOLEAN, dashed : BOOLEAN]
ASSUME MaxSlotsAssumption == MaxSlots \in Nat

Solid     == "Solid"
Patterned == "Patterned"
Dotted    == "Dotted"
Backends  == {Solid, Patterned, Dotted}

\* spacing > 0 and dash_length > 0 are all that is ever asked of the two floats.
KindOf(c) ==
  IF ~c.spaced THEN Solid ELSE IF ~c.dashed THEN Dotted ELSE Patterned

Slot == [owner : Handles \cup {Nobody}, spaced : BOOLEAN, dashed : BOOLEAN,
         merged : BOOLEAN]

\* An emptied slot: nothing reads the rest of it again.
Emptied == [owner |-> Nobody, spaced |-> FALSE, dashed |-> FALSE, merged |-> FALSE]

\* Where a valid handle's curve is; an invalid handle is at Nobody.
Place == [renderer : Backends, index : Nat]

\* last_added and last_added_slots; the latter means nothing without the former.
LastAdd == [backend : Backends, slots : Nat]

ASSUME NobodyAssumption ==
  Nobody \notin Place \cup LastAdd \cup [spaced : BOOLEAN, dashed : BOOLEAN]

Store ==
  [slots      : [Backends -> Seq(Slot)],
   removed    : [Backends -> Nat],
   needResize : [Backends -> BOOLEAN],
   marks      : [Backends -> Seq(Nat)],
   routeAll   : [Backends -> BOOLEAN],
   lastAdded  : LastAdd \cup {Nobody},
   at         : [Handles -> Place \cup {Nobody}]]

VARIABLES
  store,   \* the renderer and the handles, see TypeOK
  newest   \* history: the handle of the curve added last, or Nobody

vars == <<store, newest>>

EmptyRenderer ==
  [slots      |-> [b \in Backends |-> <<>>],
   removed    |-> [b \in Backends |-> 0],
   needResize |-> [b \in Backends |-> TRUE],
   marks      |-> [b \in Backends |-> <<>>],
   routeAll   |-> [b \in Backends |-> FALSE],
   lastAdded  |-> Nobody,
   at         |-> [h \in Handles |-> Nobody]]

Init == store = EmptyRenderer /\ newest = Nobody

Valid(st, h) == st.at[h] # Nobody

TotalSlots(st) ==
  Len(st.slots[Solid]) + Len(st.slots[Patterned]) + Len(st.slots[Dotted])

Count(st, b) == Len(st.slots[b]) - st.removed[b]

-------------------------------------------------------------------------------
(***************************************************************************)
(* Pieces of the operations, as functions from one store to the next.       *)
(***************************************************************************)

\* Mutant: a full list of marks drops the mark.
MarkDropped(st, b, i) ==
  IF Len(st.marks[b]) >= Len(st.slots[b]) THEN [st EXCEPT !.marks[b] = <<>>]
  ELSE [st EXCEPT !.marks[b] = Append(@, i)]

\* MarkForRouting: more marks than slots and every chain is checked instead.
MarkForRouting(st, b, i) ==
  LET marks == st.marks[b]
  IN  IF st.routeAll[b] \/ (marks # <<>> /\ marks[Len(marks)] = i)
        THEN st
      ELSE IF Len(marks) >= Len(st.slots[b])
        THEN [st EXCEPT !.routeAll[b] = TRUE, !.marks[b] = <<>>]
      ELSE [st EXCEPT !.marks[b] = Append(@, i)]

\* The slot i of b, which h owns, becomes a gap.
EmptySlot(st, h, b, i) ==
  [st EXCEPT !.slots[b][i] = Emptied,
             !.removed[b] = @ + 1,
             !.needResize[b] = TRUE,
             !.at[h] = Nobody]

\* Mutant: the slot after the gap, which may now start a chain, is not marked.
RemoveUnmarked(st, h) ==
  IF Valid(st, h) THEN EmptySlot(st, h, st.at[h].renderer, st.at[h].index) ELSE st

\* BezierCurve::Remove.
RemoveCurve(st, h) ==
  IF ~Valid(st, h) THEN st
  ELSE LET b == st.at[h].renderer
           i == st.at[h].index
           emptied == EmptySlot(st, h, b, i)
       IN  IF i + 1 <= Len(st.slots[b])
             THEN MarkForRouting(emptied, b, i + 1)
             ELSE emptied

\* Mutant: the slot still points at the handle moved from.
TakeOverPlace(st, h, g) == [st EXCEPT !.at[h] = st.at[g], !.at[g] = Nobody]

\* The part of a move that follows the Remove of the overwritten handle.
TakeOver(st, h, g) ==
  IF ~Valid(st, g) THEN st
  ELSE LET p == st.at[g]
       IN  [st EXCEPT !.slots[p.renderer][p.index].owner = h,
                      !.at[h] = p,
                      !.at[g] = Nobody]

\* Mutant: whatever the backend holds last is continued.
ContinuesAnything(st, merge) ==
  /\ merge
  /\ st.lastAdded # Nobody
  /\ LET s == st.slots[st.lastAdded.backend]
     IN  s # <<>> /\ s[Len(s)].owner # Nobody

\* BezierRenderer::Add continues the curve added last only while that curve
\* still is the last slot of its backend.
Continues(st, merge) ==
  /\ merge
  /\ st.lastAdded # Nobody
  /\ LET s == st.slots[st.lastAdded.backend]
     IN  Len(s) = st.lastAdded.slots /\ s[Len(s)].owner # Nobody

AddCurve(st, h, c, merge) ==
  LET joins == Continues(st, merge)
      b     == IF joins THEN st.lastAdded.backend ELSE KindOf(c)
      slot  == [owner |-> h, spaced |-> c.spaced, dashed |-> c.dashed,
                merged |-> joins]
  IN  [st EXCEPT !.slots[b] = Append(@, slot),
                 !.needResize[b] = TRUE,
                 !.at[h] = [renderer |-> b, index |-> Len(st.slots[b]) + 1],
                 !.lastAdded = [backend |-> b, slots |-> Len(st.slots[b]) + 1]]

(***************************************************************************)
(* Route() for one home backend.  The chains it visits are those of its     *)
(* marks that still point at a curve, or all of them.                       *)
(***************************************************************************)
Visited(st, home) ==
  LET s == st.slots[home]
      marked == {st.marks[home][m] : m \in DOMAIN st.marks[home]} \cap Live(s)
  IN  IF st.routeAll[home] THEN Live(s)
      ELSE {i \in Live(s) : \E m \in marked : ChainFirst(s, m) = ChainFirst(s, i)}

\* The backend that draws the chain of slot i.
Home(s, i) == KindOf(s[ChainFirst(s, i)])

\* The slots RouteChain moves out of `home`, and those that go to backend b.
Gone(st, home) == {i \in Visited(st, home) : Home(st.slots[home], i) # home}

Leaving(st, home, b) == {i \in Gone(st, home) : Home(st.slots[home], i) = b}

\* MoveCurve of those slots, in ascending order, to the end of b.
Arrivals(st, home, b) ==
  LET s == st.slots[home]
      moved == Ascending(Leaving(st, home, b))
  IN  [k \in DOMAIN moved |->
         [s[moved[k]] EXCEPT !.merged = @ /\ moved[k] # ChainFirst(s, moved[k])]]

RoutedSlots(st, home) ==
  LET s == st.slots[home]
      gone == Gone(st, home)
  IN  [b \in Backends |->
         IF b = home THEN [i \in DOMAIN s |-> IF i \in gone THEN Emptied ELSE s[i]]
         ELSE st.slots[b] \o Arrivals(st, home, b)]

RoutedPlaces(st, home) ==
  LET gone == Gone(st, home)
  IN  [h \in Handles |->
         IF Valid(st, h) /\ st.at[h].renderer = home /\ st.at[h].index \in gone
           THEN LET i == st.at[h].index
                    b == Home(st.slots[home], i)
                IN  [renderer |-> b,
                     index |-> Len(st.slots[b]) + Rank(Leaving(st, home, b), i)]
           ELSE st.at[h]]

RouteHome(st, home) ==
  LET unmarked == [st EXCEPT !.marks[home] = <<>>, !.routeAll[home] = FALSE]
  IN  IF Gone(st, home) = {} THEN unmarked
      ELSE [unmarked EXCEPT
              !.slots = RoutedSlots(st, home),
              !.removed[home] = @ + Cardinality(Gone(st, home)),
              !.needResize = [b \in Backends |->
                                st.needResize[b] \/ Leaving(st, home, b) # {} \/ b = home],
              !.at = RoutedPlaces(st, home),
              !.lastAdded = IF @ # Nobody /\ Leaving(st, home, @.backend) # {}
                              THEN Nobody ELSE @]

Route(st) == RouteHome(RouteHome(RouteHome(st, Solid), Patterned), Dotted)

\* UpdateBuffers of every backend that Draw() draws: those that have a curve.
UpdateBuffers(st) ==
  LET drawn(b) == Count(st, b) > 0
      compacts(b) == drawn(b) /\ st.needResize[b] /\ st.removed[b] > 0
  IN  [st EXCEPT
        !.slots = [b \in Backends |->
            IF compacts(b) THEN CompactRemoved(@[b]) ELSE @[b]],
        !.at = [h \in Handles |->
            IF Valid(st, h) /\ compacts(@[h].renderer)
              THEN [renderer |-> @[h].renderer,
                    index |-> Rank(Live(st.slots[@[h].renderer]), @[h].index)]
              ELSE @[h]],
        !.removed = [b \in Backends |-> IF compacts(b) THEN 0 ELSE @[b]],
        !.needResize = [b \in Backends |-> @[b] /\ ~drawn(b)],
        !.marks = [b \in Backends |-> IF drawn(b) THEN <<>> ELSE @[b]],
        !.routeAll = [b \in Backends |-> @[b] /\ ~drawn(b)]]

-------------------------------------------------------------------------------
(***************************************************************************)
(* The public operations.                                                   *)
(***************************************************************************)

\* BezierRenderer::Add, its result moved into the empty handle h.
Add(h, c, merge) ==
  /\ ~Valid(store, h)
  /\ store' = AddCurve(store, h, c, merge)
  /\ TotalSlots(store') <= MaxSlots
  /\ newest' = h

\* BezierCurve::Remove, the destructor, or BezierRenderer::Remove.
Remove(h) ==
  /\ Valid(store, h)
  /\ store' = RemoveCurve(store, h)
  /\ newest' = IF newest = h THEN Nobody ELSE newest

\* Move construction of, or assignment to, the handle h from g.
Move(h, g) ==
  /\ h # g
  /\ store' = TakeOver(RemoveCurve(store, h), h, g)
  /\ newest' = IF newest = g THEN h ELSE IF newest = h THEN Nobody ELSE newest

\* A setter that wrote the slot, then kind_changed(before).
SetKind(h, field, v) ==
  LET p == store.at[h]
      before == store.slots[p.renderer][p.index]
      after == [before EXCEPT ![field] = v]
      written == [store EXCEPT !.slots[p.renderer][p.index] = after]
  IN  /\ [spaced |-> after.spaced, dashed |-> after.dashed] \in Styles
      /\ store' = IF KindOf(after) # KindOf(before)
                    THEN MarkForRouting(written, p.renderer, p.index)
                    ELSE written
      /\ UNCHANGED newest

Spacing(h, v) == Valid(store, h) /\ SetKind(h, "spaced", v)

DashLength(h, v) == Valid(store, h) /\ SetKind(h, "dashed", v)

\* Merged(bool); setting the current value does nothing.
Merged(h, v) ==
  /\ Valid(store, h)
  /\ LET p == store.at[h]
     IN  /\ store.slots[p.renderer][p.index].merged # v
         /\ store' = MarkForRouting(
                       [store EXCEPT !.slots[p.renderer][p.index].merged = v,
                                     !.needResize[p.renderer] = TRUE],
                       p.renderer, p.index)
  /\ UNCHANGED newest

\* Route() is public, and the first thing Draw() does.
RouteOnly ==
  /\ store' = Route(store)
  /\ TotalSlots(store') <= MaxSlots
  /\ UNCHANGED newest

Draw == store' = UpdateBuffers(Route(store)) /\ UNCHANGED newest

\* ~BezierRendererBase detaches the handles; a renderer built anew takes over.
Destroy == store' = EmptyRenderer /\ newest' = Nobody

Next ==
  \/ \E h \in Handles, c \in Styles, merge \in BOOLEAN : Add(h, c, merge)
  \/ \E h \in Handles : Remove(h)
  \/ \E h, g \in Handles : Move(h, g)
  \/ \E h \in Handles, v \in BOOLEAN : Spacing(h, v)
  \/ \E h \in Handles, v \in BOOLEAN : DashLength(h, v)
  \/ \E h \in Handles, v \in BOOLEAN : Merged(h, v)
  \/ RouteOnly
  \/ Draw
  \/ Destroy

Spec == Init /\ [][Next]_vars

-------------------------------------------------------------------------------
(***************************************************************************)
(* Properties.                                                              *)
(***************************************************************************)

\* Type invariant: slots hold handles or nothing, a valid handle names a backend.
TypeOK == store \in Store /\ newest \in Handles \cup {Nobody}

\* Both directions of the back-pointers.
OwnsSlots(st) ==
  /\ \A h \in Handles : Valid(st, h) =>
        LET p == st.at[h]
        IN  /\ p.index \in DOMAIN st.slots[p.renderer]
            /\ st.slots[p.renderer][p.index].owner = h
  /\ \A b \in Backends : \A i \in Live(st.slots[b]) :
        st.at[st.slots[b][i].owner] = [renderer |-> b, index |-> i]

\* A valid handle's slot points at that handle, and the owner of a live slot is
\* at that slot.  Handle moves, routing, compaction and the end of the renderer
\* must all keep both directions (the assert of BezierCurve::Remove).
HandlesOwnTheirSlots == OwnsSlots(store)

CountsRemoved(st) ==
  \A b \in Backends :
    /\ st.removed[b] = Cardinality(DOMAIN st.slots[b] \ Live(st.slots[b]))
    /\ st.removed[b] > 0 => st.needResize[b]

\* removed_count is the number of emptied slots, which Count(), the test of
\* Draw() and the early return of CompactRemoved rely on, and emptied slots are
\* never left to a draw that would not compact them.
RemovedSlotsAreCounted == CountsRemoved(store)

\* The first slots of the chains of a backend.
Heads(st, b) == {i \in Live(st.slots[b]) : ~ContinuesChain(st.slots[b], i)}

\* A chain that is not in the backend of its first curve's kind is going to be
\* visited by the next Route(): the marks the setters, removals and merges leave
\* behind never miss a chain, in whatever order they are called.
MisroutedIsMarked ==
  \A b \in Backends : \A i \in Heads(store, b) :
    KindOf(store.slots[b][i]) # b => i \in Visited(store, b)

\* What Route() is for: whatever happened before, after a Draw() every chain is in
\* the backend of the kind of its first curve, and no backend that was drawn has
\* an emptied slot.
DrawsAtHome ==
  LET drawn == UpdateBuffers(Route(store))
  IN  \A b \in Backends :
        /\ \A i \in Heads(drawn, b) : KindOf(drawn.slots[b][i]) = b
        /\ Count(drawn, b) > 0 => Live(drawn.slots[b]) = DOMAIN drawn.slots[b]

\* The step is an Add() into handle h: no other operation makes one more handle
\* valid.
Added(h) ==
  \A g \in Handles : (g = h) <=> (Valid(store', g) /\ ~Valid(store, g))
                              \/ (Valid(store, g) /\ ~Valid(store', g))

\* A merged Add() continues the curve added last or nothing: never whatever
\* curve its backend happens to hold last ("left set it would join whatever
\* that backend holds last").
JoinsOnlyTheNewest ==
  [][\A h \in Handles : Added(h) /\ Valid(store', h) =>
       LET p == store'.at[h]
           s == store'.slots[p.renderer]
       IN  ContinuesChain(s, p.index) => s[p.index - 1].owner = newest]_vars

\* The strokes that the slots make: a continuing slot joins its owner to the
\* owner of the slot before.
Joins(st) ==
  UNION {{<<st.slots[b][i - 1].owner, st.slots[b][i].owner>> :
            i \in {k \in DOMAIN st.slots[b] : ContinuesChain(st.slots[b], k)}}
         : b \in Backends}

StyleOf(st, h) ==
  IF ~Valid(st, h) THEN Nobody
  ELSE LET c == st.slots[st.at[h].renderer][st.at[h].index]
       IN  [spaced |-> c.spaced, dashed |-> c.dashed]

Strokes == INSTANCE CurveStrokes WITH
  style <- [h \in Handles |-> StyleOf(store, h)],
  joins <- Joins(store)

\* The renderer implements CurveStrokes: no sequence of moves between backends,
\* compactions and handle moves gives a handle another curve, changes a style,
\* breaks a stroke or joins two.
ImplementsStrokes == Strokes!SSpec

\* BezierRenderer.h: last_added "lets a merged Add() check that the previous
\* Add() is still the last curve of its backend", so that (BezierData.h) the new
\* curve continues the stroke of the curve added just before it.
MergedAddContinues ==
  [][\A h \in Handles, c \in Styles :
       Add(h, c, TRUE) /\ newest # Nobody /\ store.lastAdded # Nobody =>
         LET last == store.at[newest]
             p == store'.at[h]
         IN  (/\ last.renderer = store.lastAdded.backend
              /\ last.index = Len(store.slots[last.renderer]))
             => /\ p.renderer = last.renderer
                /\ ContinuesChain(store'.slots[p.renderer], p.index)]_vars

===============================================================================
