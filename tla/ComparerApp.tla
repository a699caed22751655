----------------------------- MODULE ComparerApp -----------------------------
(***************************************************************************)
(* App: two copies of one scene, one per renderer, side by side.  A frame   *)
(* is Update(), which poses and styles the copies when a flag or a changed  *)
(* layout asks for it, then the widgets, then Render().  What a curve shows *)
(* is a record of the settings it was last posed and styled from.           *)
(***************************************************************************)
EXTENDS Naturals, Integers, Sequences, FiniteSets, FiniteSetsExt

CONSTANTS
  Panels,     \* what the style panel can push: sets of records [caps, look, resolution]
  Gaps,       \* values of compare_offset
  Batches,    \* values of test_count
  Period,     \* animation_time is counted in frames, modulo Period
  MaxTests,   \* bound of the test curves of one scene
  MaxShapes   \* bound of the curves that test_rng makes

Columns == {"curves", "lines"}   \* left to right
Paints == {"hue", "picked"}      \* animate_colors, or the colour pickers

ASSUME AppAssumption ==
  /\ Gaps \subseteq Nat /\ Batches \subseteq Nat \ {0}
  /\ Period \in Nat \ {0} /\ MaxTests \in Nat /\ MaxShapes \in Nat
  /\ \A p \in Panels : DOMAIN p = {"caps", "look", "resolution"}

VARIABLES
  phase,        \* "events", "updated", "gui": where Iterate() is
  draw,         \* draw_curves, draw_lines: the ticked columns
  gap,          \* compare_offset
  paused, time, \* animation_time
  paint,        \* animate_colors
  panel,        \* the style panel
  sceneDirty, styleDirty,
  rng,          \* test_rng: how many curves it made
  scene,        \* per column: x_offset, the example groups, the gallery, test_curves
  quiet,        \* whether no widget was used in the frame before
  together      \* whether test curves came and went by the buttons for both columns only

appVars == <<phase, draw, gap, paused, time, paint, panel, sceneDirty, styleDirty, rng, scene,
            quiet, together>>

settings == <<draw, gap, paused, paint, panel, rng, together>>

-------------------------------------------------------------------------------
(* Scenes *)

\* Twice the offset, so that half a gap is a whole number.
Place(column, visible, distance) ==
  IF visible # Columns THEN 0 ELSE IF column = "curves" THEN -distance ELSE distance

GalleryPanel(p) == [caps |-> "own", look |-> p.look, resolution |-> 2]

\* PoseScene: the groups take time, offset and colours, the test curves the offset.
PoseScene(s, at, colours) ==
  [s EXCEPT !.example.pose = [time |-> at, x |-> s.x, paint |-> colours],
            !.gallery.pose = [x |-> s.x, paint |-> colours],
            !.tests = [i \in DOMAIN s.tests |-> [s.tests[i] EXCEPT !.x = s.x]]]

TestStyle(p, own) == [p EXCEPT !.resolution = own]

\* ApplyStyle: test curves keep their resolution, the gallery its caps and resolution.
ApplyStyle(s, p) ==
  [s EXCEPT !.example.style = p,
            !.gallery.style = GalleryPanel(p),
            !.tests = [i \in DOMAIN s.tests |->
                        [s.tests[i] EXCEPT !.style = TestStyle(p, s.tests[i].style.resolution)]]]

\* AddTestCurves: placed, styled and coloured as they are added.
TestCurves(s, n, first, resolution, p) ==
  [i \in 1..n |-> [shape |-> first + i, hue |-> Len(s.tests) + i, x |-> s.x,
                   style |-> TestStyle(p, resolution)]]

RemoveTestCurves(s, count) ==
  [s EXCEPT !.tests = SubSeq(@, 1, Len(@) - Min({count, Len(@)}))]

\* BuildScene, then the first pose and style.
BuildScene(column, distance, p) ==
  LET s == [x |-> Place(column, Columns, distance), tests |-> <<>>,
            example |-> [pose |-> 0, style |-> p], gallery |-> [pose |-> 0, style |-> p]]
  IN  ApplyStyle(PoseScene(s, 0, "hue"), p)

AppInit ==
  /\ phase = "events" /\ draw = Columns /\ gap \in Gaps /\ paused = FALSE /\ time = 0
  /\ paint = "hue" /\ panel \in Panels
  /\ sceneDirty = TRUE /\ styleDirty = TRUE
  /\ rng = 0 /\ scene = [c \in Columns |-> BuildScene(c, gap, panel)]
  /\ quiet = FALSE /\ together = TRUE

-------------------------------------------------------------------------------
(* Update *)

\* Mutant: a column that moves does not ask for a pose.
MovedNever(places) == FALSE

Moved(places) == \E c \in Columns : scene[c].x # places[c]

ClearSceneDirty == sceneDirty' = FALSE

Places == [c \in Columns |-> Place(c, draw, gap)]

Reposes == sceneDirty \/ ~paused \/ Moved(Places)

Update ==
  LET now    == IF paused THEN time ELSE (time + 1) % Period
      placed == [c \in Columns |-> [scene[c] EXCEPT !.x = Places[c]]]
      posed  == IF Reposes THEN [c \in Columns |-> PoseScene(placed[c], now, paint)] ELSE placed
  IN
  /\ phase = "events"
  /\ time' = now
  /\ scene' = IF styleDirty THEN [c \in Columns |-> ApplyStyle(posed[c], panel)] ELSE posed
  /\ ClearSceneDirty /\ styleDirty' = FALSE
  /\ phase' = "updated"
  /\ UNCHANGED <<settings, quiet>>

-------------------------------------------------------------------------------
(* The widgets *)

Widget ==
  /\ phase \in {"updated", "gui"}
  /\ phase' = "gui" /\ quiet' = FALSE /\ UNCHANGED time

TickPause ==
  /\ Widget /\ paused' = ~paused
  /\ UNCHANGED <<draw, gap, paint, panel, rng, sceneDirty, styleDirty, scene, together>>

TickColumn ==
  /\ Widget /\ \E c \in Columns : draw' = IF c \in draw THEN draw \ {c} ELSE draw \union {c}
  /\ UNCHANGED <<gap, paused, paint, panel, rng, sceneDirty, styleDirty, scene, together>>

\* The slider is disabled while fewer than two columns show.
DragGap ==
  /\ Widget /\ draw = Columns /\ gap' \in Gaps
  /\ UNCHANGED <<draw, paused, paint, panel, rng, sceneDirty, styleDirty, scene, together>>

\* ExampleGui: the colours of the example groups are posed, not styled.
PickColours ==
  /\ Widget /\ paint' \in Paints \ {paint}
  /\ sceneDirty' = TRUE
  /\ UNCHANGED <<draw, gap, paused, panel, rng, styleDirty, scene, together>>

StyleChanged == styleDirty' = TRUE

\* StyleGui, on both tabs.
EditStyle ==
  /\ Widget /\ panel' \in Panels \ {panel}
  /\ StyleChanged
  /\ UNCHANGED <<draw, gap, paused, paint, rng, sceneDirty, scene, together>>

\* "Add to both" rewinds the generator between its two batches.
Rewound(column, n) == rng

AddTo(targets, n, resolution) ==
  /\ rng + n <= MaxShapes
  /\ \A c \in targets : Len(scene[c].tests) + n <= MaxTests
  /\ scene' = [c \in Columns |->
       IF c \in targets
       THEN [scene[c] EXCEPT !.tests = @ \o
               TestCurves(scene[c], n, IF targets = Columns THEN Rewound(c, n) ELSE rng,
                          resolution, panel)]
       ELSE scene[c]]
  /\ sceneDirty' = TRUE /\ styleDirty' = TRUE
  /\ rng' = rng + n
  /\ together' = (together /\ targets = Columns)

\* TestGui, the buttons that add one batch.
AddTestCurves ==
  /\ Widget
  /\ \E targets \in {{"curves"}, {"lines"}, Columns}, n \in Batches, p \in Panels :
       AddTo(targets, n, p.resolution)
  /\ UNCHANGED <<draw, gap, paused, paint, panel>>

RemoveCurves ==
  /\ Widget
  /\ \E targets \in {{"curves"}, {"lines"}, Columns}, n \in Batches \union {MaxTests} :
       /\ \E c \in targets : scene[c].tests # <<>>
       /\ scene' = [c \in Columns |->
            IF c \in targets THEN RemoveTestCurves(scene[c], n) ELSE scene[c]]
       /\ together' = (together /\ targets = Columns)
  /\ UNCHANGED <<draw, gap, paused, paint, panel, rng, sceneDirty, styleDirty>>

-------------------------------------------------------------------------------
\* Render and Present.  Only ticked columns are drawn.
Render ==
  /\ phase \in {"updated", "gui"}
  /\ phase' = "events"
  /\ quiet' = (phase = "updated")
  /\ UNCHANGED <<settings, time, sceneDirty, styleDirty, scene>>

AppNext ==
  \/ Update \/ Render
  \/ TickPause \/ TickColumn \/ DragGap \/ PickColours \/ EditStyle
  \/ AddTestCurves \/ RemoveCurves

AppSpec == AppInit /\ [][AppNext]_appVars

-------------------------------------------------------------------------------
(* Properties *)

\* Whatever was changed while a column was shown or hidden, paused or not: after Update()
\* every curve of both copies is where, and looks as, the settings say.
SceneIsCurrent ==
  phase = "updated" => \A c \in Columns :
    LET s == scene[c] x == Place(c, draw, gap) IN
    /\ s.example = [pose |-> [time |-> time, x |-> x, paint |-> paint], style |-> panel]
    /\ s.gallery = [pose |-> [x |-> x, paint |-> paint], style |-> GalleryPanel(panel)]
    /\ \A i \in DOMAIN s.tests :
         /\ s.tests[i].x = x
         /\ [s.tests[i].style EXCEPT !.resolution = 0] = [panel EXCEPT !.resolution = 0]

\* "Pause animation" is free: the frame after one without a widget poses and styles no
\* curve, so nothing is uploaded again.
PausedIsIdle == phase = "events" /\ paused /\ quiet => ~Reposes /\ ~styleDirty

\* As long as only the buttons for both columns are used, the columns hold the same curves:
\* shape, hue and resolution.
ColumnsStayAlike ==
  LET Seen(c) == [i \in DOMAIN scene[c].tests |->
                   <<scene[c].tests[i].shape, scene[c].tests[i].hue, scene[c].tests[i].style>>]
  IN  together => Seen("curves") = Seen("lines")

\* After Update() both columns show the settings; a paused frame costs nothing; curves
\* added to both are the same curves.
FramesFollow == SceneIsCurrent /\ PausedIsIdle /\ ColumnsStayAlike
===============================================================================
