------------------------------- MODULE Splines -------------------------------
(***************************************************************************)
(* HermiteSpline and CatmullRomSpline: knots that are edited freely and, on *)
(* Update(), turned into the cubic links whose neighbourhood changed.  The  *)
(* two classes differ in that neighbourhood: a link follows its two knots,  *)
(* or these and one more on each side, where the ends of the spline have    *)
(* knots of their own.                                                      *)
(***************************************************************************)
EXTENDS Integers, Sequences, SequencesExt

CONSTANTS
  Names,   \* the spline objects
  Ends,    \* by spline, extra knots at each end: 0 of a Hermite spline, 1 of a Catmull-Rom spline
  Values,  \* what the program sets a knot to
  Alphas,  \* parametrisations
  Tints,   \* by spline, colours; none leaves the blend alone, too
  Styles,  \* by spline, what width, caps, join, dash length, spacing, resolution are set to
  Others,  \* curves of the renderer that are no links
  MaxSize  \* bound of size()

\* What the instances assume of the constants.
SplineAssumption ==
  MaxSize \in Nat /\ Ends \in [Names -> {0, 1}] /\ Names \cap Others = {}

VARIABLES
  splines,  \* by name; ends is that of the class
  order     \* what the renderer draws, in order: [of, joined]

splineVars == <<splines, order>>

NoSpline ==
  [live |-> FALSE, ends |-> 0, points |-> <<>>, front |-> 0, back |-> 0, alpha |-> 0, posed |-> <<>>,
   poseAll |-> TRUE, links |-> <<>>, paint |-> 0, height |-> FALSE, style |-> 0, colors |-> <<>>]

SplineInit == splines = [n \in Names |-> NoSpline] /\ order = <<>>

Knots(s) == IF s.ends = 1 THEN <<s.front>> \o s.points \o <<s.back>> ELSE s.points

\* The knots link i depends on: HermiteToBezier, CatmullRomToBezier.
Window(s, knots, i) == SubSeq(knots, i, i + 1 + 2 * s.ends)

Pose(s, knots, i) == <<Window(s, knots, i), s.alpha>>

\* By height every link gets the end colours of the spline, by t its own slice.
LinkPaint(s, i, count) ==
  CASE s.height /\ s.colors = <<>> -> <<s.paint>>
    [] s.height /\ s.colors # <<>> -> <<Head(s.colors), Last(s.colors)>>
    [] ~s.height /\ s.colors # <<>> -> <<s.colors[i], s.colors[i + 1]>>
    [] OTHER -> <<s.paint, i, count>>

\* What a link has from the style of the spline, its colours apart.
Look(s) == [style |-> s.style, height |-> s.height]

ApplyColors(s) ==
  [s EXCEPT !.links = [i \in DOMAIN @ |-> [@[i] EXCEPT !.paint = LinkPaint(s, i, Len(s.links))]]]

-------------------------------------------------------------------------------
(* The renderer *)

\* A destroyed handle leaves a gap, and the curve after a gap begins a stroke.
Without(drawn, name, from) ==
  LET Gone(i) == drawn[i].of = name /\ drawn[i].link >= from
      cut == [i \in DOMAIN drawn |->
                IF i > 1 /\ Gone(i - 1) THEN [drawn[i] EXCEPT !.joined = FALSE] ELSE drawn[i]]
  IN  [k \in 1..Cardinality({i \in DOMAIN drawn : ~Gone(i)}) |->
         cut[CHOOSE i \in DOMAIN drawn :
               ~Gone(i) /\ Cardinality({j \in 1..i : ~Gone(j)}) = k]]

MergesWithPrevious(i) == i > 1

LinksAdded(name, count) ==
  [i \in 1..count |-> [of |-> name, link |-> i, joined |-> MergesWithPrevious(i)]]

\* AddLinks, whose links are at the origin until the next Update().
AddLinks(s) ==
  ApplyColors([s EXCEPT !.poseAll = TRUE,
                        !.links = [i \in 1..Len(s.points) - 1 |->
                                     [pose |-> <<>>, paint |-> <<>>, look |-> Look(s)]]])

-------------------------------------------------------------------------------
(* Operations *)

Construct(name) ==
  /\ ~splines[name].live
  /\ \E n \in 2..MaxSize, v \in Values :
       /\ splines' = [splines EXCEPT ![name] =
            AddLinks([NoSpline EXCEPT !.live = TRUE, !.ends = Ends[name],
                                      !.points = [j \in 1..n |-> v]])]
       /\ order' = Without(order, name, 1) \o LinksAdded(name, n - 1)

Edit(name, s) ==
  splines[name].live /\ splines' = [splines EXCEPT ![name] = s] /\ UNCHANGED order

SetKnot(name) ==
  \E j \in DOMAIN splines[name].points : \E v \in Values \ {splines[name].points[j]} :
    Edit(name, [splines[name] EXCEPT !.points[j] = v])

SetEnd(name) ==
  /\ Ends[name] = 1
  /\ \/ \E v \in Values \ {splines[name].front} : Edit(name, [splines[name] EXCEPT !.front = v])
     \/ \E v \in Values \ {splines[name].back} : Edit(name, [splines[name] EXCEPT !.back = v])

MirrorEnds(name) ==
  LET s == splines[name] n == Len(s.points) IN
  /\ Ends[name] = 1 /\ n >= 2
  /\ Edit(name, [s EXCEPT !.front = 2 * s.points[1] - s.points[2],
                          !.back = 2 * s.points[n] - s.points[n - 1]])

SetAlpha(name) ==
  /\ Ends[name] = 1
  /\ \E a \in Alphas \ {splines[name].alpha} :
       Edit(name, [splines[name] EXCEPT !.alpha = a, !.poseAll = TRUE])

\* Mutant: a link follows its first two knots only, as one of a Hermite spline does.
ChangedFront(s, knots, i) == SubSeq(s.posed, i, i + 1) # SubSeq(knots, i, i + 1)

ChangedKnots(s, knots, i) == Window(s, s.posed, i) # Window(s, knots, i)

UpdateSpline(name) ==
  LET s     == splines[name]
      knots == Knots(s)
      all   == s.poseAll \/ Len(s.posed) # Len(knots)
  IN  Edit(name,
        [s EXCEPT !.posed = knots, !.poseAll = FALSE,
                  !.links = [i \in DOMAIN @ |->
                     IF all \/ ChangedKnots(s, knots, i)
                     THEN [@[i] EXCEPT !.pose = Pose(s, knots, i)] ELSE @[i]]])

Sized(s, n) ==
  [s EXCEPT !.points = [j \in 1..n |-> IF j <= Len(s.points) THEN s.points[j] ELSE Last(s.points)],
            !.colors = <<>>, !.poseAll = TRUE]

\* Shrinking drops the last links; growing drops all of them and adds new ones.
Resize(name) ==
  LET s == splines[name] IN
  /\ s.live
  /\ \E n \in 2..MaxSize \ {Len(s.points)} :
       IF n - 1 < Len(s.links)
       THEN /\ splines' = [splines EXCEPT ![name] =
                 ApplyColors([Sized(s, n) EXCEPT !.links = SubSeq(@, 1, n - 1)])]
            /\ order' = Without(order, name, n)
       ELSE /\ splines' = [splines EXCEPT ![name] = AddLinks(Sized(s, n))]
            /\ order' = Without(order, name, 1) \o LinksAdded(name, n - 1)

Colors(name) ==
  \E p \in Tints[name] :
    Edit(name, ApplyColors([splines[name] EXCEPT !.paint = p, !.colors = <<>>]))

PointColors(name) ==
  \E c \in [DOMAIN splines[name].points -> Tints[name]] :
    Edit(name, ApplyColors([splines[name] EXCEPT !.colors = c]))

\* Every link is told.
Restyled(s) == [s EXCEPT !.links = [i \in DOMAIN @ |-> [@[i] EXCEPT !.look = Look(s)]]]

Repainted(s) == ApplyColors(s)

\* HeightRange, that makes the blend one by height or by t.
HeightRange(name) ==
  Tints[name] # {} /\ Edit(name, Repainted(Restyled([splines[name] EXCEPT !.height = ~@])))

\* Width, Cap, Join, DashLength, Spacing, Resolution.
SetStyle(name) ==
  \E v \in Styles[name] \ {splines[name].style} :
    Edit(name, Restyled([splines[name] EXCEPT !.style = v]))

\* The move constructor and the move assignment, which drops the links of its target.  What
\* is left in the spline moved from is not read again.
Move(name, other) ==
  LET s == splines[other] Renamed(o) == IF o.of = other THEN [o EXCEPT !.of = name] ELSE o IN
  /\ s.live /\ name # other /\ Ends[name] = Ends[other]
  /\ splines' = [splines EXCEPT
       ![name] = s, ![other] = NoSpline]
  /\ order' = [i \in DOMAIN Without(order, name, 1) |-> Renamed(Without(order, name, 1)[i])]

Destroy(name) ==
  /\ splines[name].live
  /\ splines' = [splines EXCEPT ![name] = NoSpline]
  /\ order' = Without(order, name, 1)

\* Another curve, unmerged, comes or goes between the splines.
AddOther(other) ==
  /\ \A i \in DOMAIN order : order[i].of # other
  /\ order' = Append(order, [of |-> other, link |-> 1, joined |-> FALSE])
  /\ UNCHANGED splines

RemoveOther(other) ==
  /\ \E i \in DOMAIN order : order[i].of = other
  /\ order' = Without(order, other, 1)
  /\ UNCHANGED splines

SplineNext ==
  \/ \E n \in Names :
       \/ Construct(n) \/ SetKnot(n) \/ SetEnd(n) \/ MirrorEnds(n) \/ SetAlpha(n) \/ UpdateSpline(n)
       \/ Resize(n) \/ Colors(n) \/ PointColors(n) \/ HeightRange(n) \/ SetStyle(n)
       \/ Destroy(n)
       \/ \E o \in Names : Move(n, o)
  \/ \E other \in Others : AddOther(other) \/ RemoveOther(other)

SplineSpec == SplineInit /\ [][SplineNext]_splineVars

-------------------------------------------------------------------------------
(* Properties *)

\* Its links are neighbours in the draw order, in their order, and only the first begins a
\* stroke; what follows them begins another.
OneStroke(n) ==
  LET mine == {i \in DOMAIN order : order[i].of = n} IN
  /\ Cardinality(mine) = Len(splines[n].links)
  /\ \A i \in mine :
       /\ order[i].joined <=> order[i].link > 1
       /\ order[i].link > 1 => i > 1 /\ order[i - 1] = [order[i] EXCEPT !.link = @ - 1,
                                                                      !.joined = @ /\ order[i].link > 2]

\* After Update() every link has the shape its knots give it, although only the links with
\* a changed knot were posed; and at any time the links show the style and the colours that were
\* set last, by knot or from end to end, by height or by t; whether the spline was resized or
\* moved before.  And a spline is one stroke, in both kinds of spline.
LinksFollow ==
  \A n \in Names :
    LET s == splines[n] IN
    /\ OneStroke(n)
    /\ \A i \in DOMAIN s.links :
         /\ ~s.poseAll /\ s.posed = Knots(s) => s.links[i].pose = Pose(s, Knots(s), i)
         /\ s.links[i].paint = LinkPaint(s, i, Len(s.links))
         /\ s.links[i].look = Look(s)
===============================================================================
