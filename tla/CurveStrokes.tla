----------------------------- MODULE CurveStrokes -----------------------------
(***************************************************************************)
(* What the curve handles promise to their user, with no slots, backends,   *)
(* marks or compaction: a curve belongs to one handle, keeps the style it   *)
(* was given until its handle changes it, and continues the stroke of at     *)
(* most one other curve.  Routing and drawing change nothing of this.       *)
(***************************************************************************)
EXTENDS Naturals, FiniteSets

CONSTANTS Handles, Nobody, Styles

VARIABLES
  style,   \* the style of each handle's curve, Nobody for an invalid handle
  joins,   \* <<g, h>>: the curve of h continues the stroke of the curve of g
  newest   \* the handle of the curve added last, if that curve is still there

svars == <<style, joins, newest>>

SInit ==
  /\ style = [h \in Handles |-> Nobody]
  /\ joins = {}
  /\ newest = Nobody

Without(h) == {j \in joins : h \notin {j[1], j[2]}}

HasNext(g) == \E h \in Handles : <<g, h>> \in joins

HasPrevious(h) == \E g \in Handles : <<g, h>> \in joins

\* The new curve continues the newest one only when asked to, and it may refuse.
SAdd(h) ==
  /\ newest' = h
  /\ style[h] = Nobody
  /\ \E c \in Styles : style' = [style EXCEPT ![h] = c]
  /\ \/ UNCHANGED joins
     \/ newest # Nobody /\ ~HasNext(newest) /\ joins' = joins \cup {<<newest, h>>}

\* The curve after a removed one starts a stroke of its own, at once.
SRemove(h) ==
  /\ newest' = IF newest = h THEN Nobody ELSE newest
  /\ style[h] # Nobody
  /\ style' = [style EXCEPT ![h] = Nobody]
  /\ joins' = Without(h)

\* A move takes the curve over, neighbours included; h's own curve is removed.
SMove(h, g) ==
  LET Renamed(x) == IF x = g THEN h ELSE x
  IN  /\ h # g
      /\ newest' = IF newest = h THEN Nobody ELSE Renamed(newest)
      /\ style' = [style EXCEPT ![h] = style[g], ![g] = Nobody]
      /\ joins' = {<<Renamed(j[1]), Renamed(j[2])>> : j \in Without(h)}

SStyle(h) ==
  /\ UNCHANGED newest
  /\ style[h] # Nobody
  /\ \E c \in Styles : style' = [style EXCEPT ![h] = c]
  /\ UNCHANGED joins

\* Merged(true) joins h to a curve whose stroke ends there, Merged(false) cuts.
SMerge(h) ==
  /\ UNCHANGED newest
  /\ style[h] # Nobody
  /\ UNCHANGED style
  /\ \/ \E g \in Handles : /\ g # h /\ style[g] # Nobody
                           /\ ~HasNext(g) /\ ~HasPrevious(h)
                           /\ joins' = joins \cup {<<g, h>>}
     \/ joins' = {j \in joins : j[2] # h}

SDestroy ==
  /\ newest' = Nobody
  /\ style' = [h \in Handles |-> Nobody]
  /\ joins' = {}

SNext ==
  \/ \E h \in Handles : SAdd(h) \/ SRemove(h) \/ SStyle(h) \/ SMerge(h)
  \/ \E h, g \in Handles : SMove(h, g)
  \/ SDestroy

SSpec == SInit /\ [][SNext]_svars

===============================================================================
