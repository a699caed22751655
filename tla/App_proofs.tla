------------------------------ MODULE App_proofs ------------------------------
(***************************************************************************)
(* Proofs about the frames of the application, its camera and its splines.   *)
(* The scenes: one that asks for nothing has what the settings give it wherever  *)
(* its column was left, which Update() takes from, and each widget either    *)
(* changes nothing that a scene was posed or styled from, or asks.           *)
(***************************************************************************)
EXTENDS ComparerApp, OrbitalCamera, Splines, FiniteSetTheorems, SequenceTheorems, TLAPS

Resolutions == {p.resolution : p \in Panels}

TestStyles == {TestStyle(p, own) : p \in Panels, own \in Resolutions}

Test == [shape : Nat, hue : Nat, x : Int, style : TestStyles]

Scene ==
  [x : Int, tests : Seq(Test),
   example : [pose : [time : Nat, x : Int, paint : Paints], style : Panels],
   gallery : [pose : [x : Int, paint : Paints], style : {GalleryPanel(p) : p \in Panels}]]

AppTypeOK ==
  /\ phase \in {"events", "updated", "gui"}
  /\ draw \subseteq Columns /\ gap \in Gaps /\ paused \in BOOLEAN /\ time \in Nat
  /\ paint \in Paints /\ panel \in Panels
  /\ sceneDirty \in BOOLEAN /\ styleDirty \in BOOLEAN
  /\ rng \in Nat /\ quiet \in BOOLEAN /\ together \in BOOLEAN
  /\ scene \in [Columns -> Scene]

Posed(s) ==
  /\ s.example.pose = [time |-> time, x |-> s.x, paint |-> paint]
  /\ s.gallery.pose = [x |-> s.x, paint |-> paint]

TestsPlaced(s) == \A i \in DOMAIN s.tests : s.tests[i].x = s.x

\* A scene that does not ask for a pose has it already, wherever its column was left.
PosesKept ==
  \A c \in Columns : (~sceneDirty => Posed(scene[c])) /\ TestsPlaced(scene[c])

Styled(s) ==
  /\ s.example.style = panel
  /\ s.gallery.style = GalleryPanel(panel)
  /\ \A i \in DOMAIN s.tests : s.tests[i].style = TestStyle(panel, s.tests[i].style.resolution)

\* One that does not ask for a style has the panel's.
StylesKept == ~styleDirty => \A c \in Columns : Styled(scene[c])

AllPlaced == \A c \in Columns : scene[c].x = Place(c, draw, gap)

\* Update() leaves nothing to do for the next one, and neither does a frame without a widget.
NothingLeft ==
  phase = "updated" \/ (phase = "events" /\ quiet) => ~sceneDirty /\ ~styleDirty /\ AllPlaced

AppInv == AppTypeOK /\ PosesKept /\ StylesKept /\ NothingLeft /\ ColumnsStayAlike

-------------------------------------------------------------------------------
(* What the operations on a scene make of it *)

LEMMA PlaceIsInt ==
  ASSUME NEW c \in Columns, NEW visible, NEW distance \in Gaps
  PROVE  Place(c, visible, distance) \in Int
BY AppAssumption DEF Place

LEMMA StyleHasResolution ==
  ASSUME NEW p \in Panels, NEW own \in Resolutions
  PROVE  TestStyle(p, own) \in TestStyles /\ TestStyle(p, own).resolution = own
<1>1. "resolution" \in DOMAIN p
  BY AppAssumption
<1> QED
  BY <1>1 DEF TestStyle, TestStyles

LEMMA ResolutionOfStyle ==
  ASSUME NEW style \in TestStyles
  PROVE  style.resolution \in Resolutions
<1>1. PICK p \in Panels, own \in Resolutions : style = TestStyle(p, own)
  BY DEF TestStyles
<1> QED
  BY <1>1, StyleHasResolution

LEMMA PoseSceneIs ==
  ASSUME NEW s \in Scene, NEW at \in Nat, NEW colours \in Paints
  PROVE  /\ PoseScene(s, at, colours) \in Scene
         /\ PoseScene(s, at, colours).x = s.x
         /\ PoseScene(s, at, colours).example =
              [pose |-> [time |-> at, x |-> s.x, paint |-> colours], style |-> s.example.style]
         /\ PoseScene(s, at, colours).gallery =
              [pose |-> [x |-> s.x, paint |-> colours], style |-> s.gallery.style]
         /\ PoseScene(s, at, colours).tests =
              [i \in DOMAIN s.tests |-> [s.tests[i] EXCEPT !.x = s.x]]
<1>1. ASSUME NEW i \in DOMAIN s.tests
      PROVE  [s.tests[i] EXCEPT !.x = s.x] \in Test
  <2>1. s.tests[i] \in Test /\ s.x \in Int
    BY DEF Scene
  <2> QED
    BY <2>1 DEF Test
<1>2. [i \in DOMAIN s.tests |-> [s.tests[i] EXCEPT !.x = s.x]] \in Seq(Test)
  BY <1>1 DEF Scene
<1> QED
  BY <1>2 DEF Scene, PoseScene

LEMMA ApplyStyleIs ==
  ASSUME NEW s \in Scene, NEW p \in Panels
  PROVE  /\ ApplyStyle(s, p) \in Scene
         /\ ApplyStyle(s, p).x = s.x
         /\ ApplyStyle(s, p).example = [pose |-> s.example.pose, style |-> p]
         /\ ApplyStyle(s, p).gallery = [pose |-> s.gallery.pose, style |-> GalleryPanel(p)]
         /\ ApplyStyle(s, p).tests =
              [i \in DOMAIN s.tests |->
                [s.tests[i] EXCEPT !.style = TestStyle(p, s.tests[i].style.resolution)]]
<1>1. ASSUME NEW i \in DOMAIN s.tests
      PROVE  [s.tests[i] EXCEPT !.style = TestStyle(p, s.tests[i].style.resolution)] \in Test
  <2>1. s.tests[i] \in Test
    BY DEF Scene
  <2>3. s.tests[i].style.resolution \in Resolutions
    BY <2>1, ResolutionOfStyle DEF Test
  <2>4. TestStyle(p, s.tests[i].style.resolution) \in TestStyles
    BY <2>3, StyleHasResolution
  <2> QED
    BY <2>1, <2>4 DEF Test
<1>2. [i \in DOMAIN s.tests |->
         [s.tests[i] EXCEPT !.style = TestStyle(p, s.tests[i].style.resolution)]] \in Seq(Test)
  BY <1>1 DEF Scene
<1> QED
  BY <1>2 DEF Scene, ApplyStyle

\* A scene that AddTo() appends a batch to.
Extended(s, n, first, own, p) == [s EXCEPT !.tests = s.tests \o TestCurves(s, n, first, own, p)]

NewTest(s, i, first, own, p) ==
  [shape |-> first + i, hue |-> Len(s.tests) + i, x |-> s.x, style |-> TestStyle(p, own)]

Extends(r, s, n, first, own, p) ==
  /\ r \in Scene /\ r.x = s.x
  /\ Len(r.tests) = Len(s.tests) + n
  /\ \A i \in 1 .. Len(s.tests) : r.tests[i] = s.tests[i]
  /\ \A i \in 1 .. n : r.tests[Len(s.tests) + i] = NewTest(s, i, first, own, p)

LEMMA AddedTests ==
  ASSUME NEW s \in Scene, NEW n \in Nat, NEW first \in Nat, NEW own \in Resolutions, NEW p \in Panels
  PROVE  Extends(Extended(s, n, first, own, p), s, n, first, own, p)
<1> DEFINE t == TestCurves(s, n, first, own, p)
           r == Extended(s, n, first, own, p)
<1>1. s.tests \in Seq(Test) /\ s.x \in Int /\ Len(s.tests) \in Nat
  BY DEF Scene
<1>2. TestStyle(p, own) \in TestStyles
  BY StyleHasResolution
<1>3. \A i \in 1 .. n :
        [shape |-> first + i, hue |-> Len(s.tests) + i, x |-> s.x, style |-> TestStyle(p, own)] \in Test
  BY <1>1, <1>2 DEF Test
<1>4. t \in Seq(Test) /\ Len(t) = n
  <2>1. t \in [1 .. n -> Test]
    BY <1>3 DEF TestCurves
  <2> HIDE DEF t
  <2>2. t \in Seq(Test)
    BY <2>1, SeqDef
  <2> QED
    BY <2>1, <2>2, LenProperties
<1>5. \A i \in 1 .. n : t[i] = NewTest(s, i, first, own, p)
  BY DEF TestCurves, NewTest
<1> HIDE DEF t
<1>6. s.tests \o t \in Seq(Test) /\ Len(s.tests \o t) = Len(s.tests) + n
  BY <1>1, <1>4, ConcatProperties
<1>7. /\ \A i \in 1 .. Len(s.tests) : (s.tests \o t)[i] = s.tests[i]
      /\ \A i \in 1 .. n : (s.tests \o t)[Len(s.tests) + i] = t[i]
  BY <1>1, <1>4
<1>8. r.tests = s.tests \o t /\ r.x = s.x
  BY DEF Scene, t, Extended
<1>9. r \in Scene
  BY <1>6 DEF Scene, t, Extended
<1> QED
  BY <1>5, <1>6, <1>7, <1>8, <1>9 DEF Extends

Shortens(r, s, kept) ==
  /\ r \in Scene /\ r.x = s.x /\ r.example = s.example /\ r.gallery = s.gallery
  /\ Len(r.tests) = kept
  /\ \A i \in 1 .. kept : i \in 1 .. Len(s.tests) /\ r.tests[i] = s.tests[i]

Kept(s, n) == IF n <= Len(s.tests) THEN Len(s.tests) - n ELSE 0

LEMMA RemovedTests ==
  ASSUME NEW s \in Scene, NEW n \in Nat
  PROVE  Shortens(RemoveTestCurves(s, n), s, Kept(s, n))
<1> DEFINE l == Len(s.tests)
           kept == IF n <= l THEN l - n ELSE 0
<1>1. s.tests \in Seq(Test) /\ l \in Nat
  BY DEF Scene
<1>2. Min({n, l}) = IF n <= l THEN n ELSE l
  <2>1. \E x \in {n, l} : \A y \in {n, l} : x <= y
    BY <1>1
  <2>2. Min({n, l}) \in {n, l} /\ Min({n, l}) <= n /\ Min({n, l}) <= l
    BY <2>1 DEF Min
  <2> QED
    BY <1>1, <2>2
<1>3. l - Min({n, l}) = kept /\ kept \in 0 .. l
  BY <1>1, <1>2
<1> HIDE DEF kept, l
<1>4. /\ SubSeq(s.tests, 1, kept) \in Seq(Test)
      /\ Len(SubSeq(s.tests, 1, kept)) = kept
      /\ \A i \in 1 .. kept : SubSeq(s.tests, 1, kept)[i] = s.tests[i]
  BY <1>1, <1>3 DEF l
<1> DEFINE r == RemoveTestCurves(s, n)
<1>5. r = [s EXCEPT !.tests = SubSeq(s.tests, 1, kept)]
  BY <1>3 DEF RemoveTestCurves, l
<1>6. /\ r \in Scene
      /\ r.x = s.x /\ r.example = s.example /\ r.gallery = s.gallery
      /\ r.tests = SubSeq(s.tests, 1, kept)
  BY <1>4, <1>5 DEF Scene
<1>7. Len(r.tests) = kept /\ \A i \in 1 .. kept : i \in 1 .. l /\ r.tests[i] = s.tests[i]
  BY <1>1, <1>3, <1>4, <1>6
<1> HIDE DEF r
<1>8. /\ r \in Scene
      /\ r.x = s.x /\ r.example = s.example /\ r.gallery = s.gallery
      /\ Len(r.tests) = kept
      /\ \A i \in 1 .. kept : i \in 1 .. l /\ r.tests[i] = s.tests[i]
  BY <1>6, <1>7
<1> QED
  BY <1>8 DEF r, kept, l, Shortens, Kept

LEMMA BuildSceneIs ==
  ASSUME NEW c \in Columns, NEW distance \in Gaps, NEW p \in Panels
  PROVE  /\ BuildScene(c, distance, p) \in Scene
         /\ BuildScene(c, distance, p).tests = <<>>
<1> DEFINE x == Place(c, Columns, distance)
           s == [x |-> x, tests |-> <<>>,
                 example |-> [pose |-> 0, style |-> p], gallery |-> [pose |-> 0, style |-> p]]
<1>1. x \in Int
  BY PlaceIsInt
<1> HIDE DEF x
<1>2. PoseScene(s, 0, "hue") =
        [s EXCEPT !.example.pose = [time |-> 0, x |-> x, paint |-> "hue"],
                  !.gallery.pose = [x |-> x, paint |-> "hue"],
                  !.tests = <<>>]
  <2>1. [i \in DOMAIN s.tests |-> [s.tests[i] EXCEPT !.x = s.x]] = <<>>
    <3>1. DOMAIN s.tests = {}
      OBVIOUS
    <3> QED
      BY <3>1
  <2> QED
    BY <2>1 DEF PoseScene
<1>3. ApplyStyle(PoseScene(s, 0, "hue"), p) =
        [x |-> x, tests |-> <<>>,
         example |-> [pose |-> [time |-> 0, x |-> x, paint |-> "hue"], style |-> p],
         gallery |-> [pose |-> [x |-> x, paint |-> "hue"], style |-> GalleryPanel(p)]]
  <2> DEFINE q == [x |-> x, tests |-> <<>>,
         example |-> [pose |-> [time |-> 0, x |-> x, paint |-> "hue"], style |-> p],
         gallery |-> [pose |-> [x |-> x, paint |-> "hue"], style |-> p]]
  <2>1. PoseScene(s, 0, "hue") = q
    BY <1>2
  <2>2. [i \in DOMAIN q.tests |->
          [q.tests[i] EXCEPT !.style = TestStyle(p, q.tests[i].style.resolution)]] = <<>>
    <3>1. DOMAIN q.tests = {}
      OBVIOUS
    <3> QED
      BY <3>1
  <2>3. ApplyStyle(q, p) =
          [q EXCEPT !.example.style = p, !.gallery.style = GalleryPanel(p), !.tests = <<>>]
    BY <2>2 DEF ApplyStyle
  <2> QED
    BY <2>1, <2>3
<1>4. <<>> \in Seq(Test)
  BY EmptySeq
<1>5. BuildScene(c, distance, p) = ApplyStyle(PoseScene(s, 0, "hue"), p)
  BY DEF BuildScene, x
<1>6. [x |-> x, tests |-> <<>>,
       example |-> [pose |-> [time |-> 0, x |-> x, paint |-> "hue"], style |-> p],
       gallery |-> [pose |-> [x |-> x, paint |-> "hue"], style |-> GalleryPanel(p)]] \in Scene
  <2>1. [time |-> 0, x |-> x, paint |-> "hue"] \in [time : Nat, x : Int, paint : Paints]
    BY <1>1 DEF Paints
  <2>2. [x |-> x, paint |-> "hue"] \in [x : Int, paint : Paints]
    BY <1>1 DEF Paints
  <2>3. GalleryPanel(p) \in {GalleryPanel(q) : q \in Panels}
    OBVIOUS
  <2> QED
    BY <1>1, <1>4, <2>1, <2>2, <2>3 DEF Scene
<1> QED
  BY <1>3, <1>5, <1>6

-------------------------------------------------------------------------------
(* The same curves in both columns *)

Alike(a, b) ==
  /\ Len(a.tests) = Len(b.tests)
  /\ \A i \in 1 .. Len(a.tests) :
       /\ a.tests[i].shape = b.tests[i].shape
       /\ a.tests[i].hue = b.tests[i].hue
       /\ a.tests[i].style = b.tests[i].style

LEMMA AlikeColumns ==
  ASSUME scene \in [Columns -> Scene]
  PROVE  ColumnsStayAlike <=> (together => Alike(scene["curves"], scene["lines"]))
<1> DEFINE Seen(c) == [i \in DOMAIN scene[c].tests |->
                        <<scene[c].tests[i].shape, scene[c].tests[i].hue, scene[c].tests[i].style>>]
<1>1. \A c \in Columns : /\ scene[c].tests \in Seq(Test)
                         /\ DOMAIN scene[c].tests = 1 .. Len(scene[c].tests)
                         /\ Len(scene[c].tests) \in Nat
  BY DEF Scene
<1>2. "curves" \in Columns /\ "lines" \in Columns
  BY DEF Columns
<1>3. ASSUME Seen("curves") = Seen("lines")
      PROVE  Alike(scene["curves"], scene["lines"])
  <2>1. DOMAIN Seen("curves") = DOMAIN Seen("lines")
    BY <1>3
  <2>2. 1 .. Len(scene["curves"].tests) = 1 .. Len(scene["lines"].tests)
    BY <1>1, <1>2, <2>1
  <2>3. Len(scene["curves"].tests) = Len(scene["lines"].tests)
    BY <1>1, <1>2, <2>2
  <2>4. ASSUME NEW i \in 1 .. Len(scene["curves"].tests)
        PROVE  Seen("curves")[i] = Seen("lines")[i] /\ i \in DOMAIN scene["curves"].tests
               /\ i \in DOMAIN scene["lines"].tests
    BY <1>1, <1>2, <1>3, <2>2
  <2> QED
    BY <2>3, <2>4 DEF Alike
<1>4. ASSUME Alike(scene["curves"], scene["lines"])
      PROVE  Seen("curves") = Seen("lines")
  <2>1. DOMAIN scene["curves"].tests = DOMAIN scene["lines"].tests
    BY <1>1, <1>2, <1>4 DEF Alike
  <2>2. ASSUME NEW i \in DOMAIN scene["curves"].tests
        PROVE  /\ scene["curves"].tests[i].shape = scene["lines"].tests[i].shape
               /\ scene["curves"].tests[i].hue = scene["lines"].tests[i].hue
               /\ scene["curves"].tests[i].style = scene["lines"].tests[i].style
    BY <1>1, <1>2, <1>4 DEF Alike
  <2> QED
    BY <2>1, <2>2
<1> QED
  BY <1>3, <1>4 DEF ColumnsStayAlike

-------------------------------------------------------------------------------
LEMMA InitApp == AppInit => AppInv
<1> SUFFICES ASSUME AppInit
             PROVE  AppInv
  OBVIOUS
<1>1. scene \in [Columns -> Scene] /\ \A c \in Columns : scene[c].tests = <<>>
  BY BuildSceneIs DEF AppInit
<1>2. AppTypeOK
  BY <1>1 DEF AppInit, AppTypeOK, Paints
<1>3. Len(<<>>) = 0 /\ DOMAIN <<>> = {}
  OBVIOUS
<1>4. PosesKept
  BY <1>1, <1>3 DEF AppInit, PosesKept, TestsPlaced
<1>5. StylesKept /\ NothingLeft
  BY DEF AppInit, StylesKept, NothingLeft
<1>6. ColumnsStayAlike
  BY <1>1, <1>3, AlikeColumns DEF Alike, Columns
<1> QED
  BY <1>2, <1>4, <1>5, <1>6 DEF AppInv

-------------------------------------------------------------------------------
(* Update *)

\* What Update() makes of a column: its pose comes either from PoseScene() or, when nothing
\* asked for one, from an earlier frame.
LEMMA UpdatedColumn ==
  ASSUME AppInv, Update, NEW c \in Columns
  PROVE  /\ scene'[c] \in Scene
         /\ scene'[c].x = Places[c]
         /\ scene'[c].example.pose = [time |-> time', x |-> Places[c], paint |-> paint]
         /\ scene'[c].gallery.pose = [x |-> Places[c], paint |-> paint]
         /\ TestsPlaced(scene'[c]) /\ Styled(scene'[c])
         /\ Len(scene'[c].tests) = Len(scene[c].tests)
         /\ \A i \in 1 .. Len(scene[c].tests) :
              /\ scene'[c].tests[i].shape = scene[c].tests[i].shape
              /\ scene'[c].tests[i].hue = scene[c].tests[i].hue
              /\ scene'[c].tests[i].style = TestStyle(panel, scene[c].tests[i].style.resolution)
<1> DEFINE now == IF paused THEN time ELSE (time + 1) % Period
           placed == [scene[c] EXCEPT !.x = Places[c]]
           posed == IF Reposes THEN PoseScene(placed, now, paint) ELSE placed
           new == IF styleDirty THEN ApplyStyle(posed, panel) ELSE posed
           n == Len(scene[c].tests)
<1>1. now \in Nat /\ paint \in Paints /\ panel \in Panels /\ paused \in BOOLEAN
  BY AppAssumption DEF AppInv, AppTypeOK
<1>2. /\ scene[c] \in Scene /\ Places[c] \in Int
      /\ scene[c].tests \in Seq(Test) /\ DOMAIN scene[c].tests = 1 .. n /\ n \in Nat
      /\ \A i \in 1 .. n : scene[c].tests[i] \in Test
  <2>1. scene[c] \in Scene /\ gap \in Gaps
    BY DEF AppInv, AppTypeOK
  <2>2. Places[c] \in Int
    BY <2>1, PlaceIsInt DEF Places
  <2>3. scene[c].tests \in Seq(Test)
    BY <2>1 DEF Scene
  <2> QED
    BY <2>1, <2>2, <2>3
<1>3. /\ placed \in Scene /\ placed.x = Places[c] /\ placed.tests = scene[c].tests
      /\ placed.example = scene[c].example /\ placed.gallery = scene[c].gallery
  BY <1>2 DEF Scene
<1>4. scene'[c] = new /\ time' = now /\ paint' = paint
  BY DEF Update, settings
<1> HIDE DEF now, placed
<1>5. /\ posed \in Scene /\ posed.x = Places[c]
      /\ posed.example = [pose |-> [time |-> now, x |-> Places[c], paint |-> paint],
                          style |-> scene[c].example.style]
      /\ posed.gallery = [pose |-> [x |-> Places[c], paint |-> paint],
                          style |-> scene[c].gallery.style]
      /\ Len(posed.tests) = n
      /\ \A i \in 1 .. n : /\ posed.tests[i].x = Places[c]
                           /\ posed.tests[i].shape = scene[c].tests[i].shape
                           /\ posed.tests[i].hue = scene[c].tests[i].hue
                           /\ posed.tests[i].style = scene[c].tests[i].style
  <2>1. CASE Reposes
    <3>0. posed = PoseScene(placed, now, paint)
      BY <2>1
    <3> HIDE DEF posed
    <3>1. /\ posed \in Scene /\ posed.x = Places[c]
          /\ posed.example = [pose |-> [time |-> now, x |-> Places[c], paint |-> paint],
                              style |-> scene[c].example.style]
          /\ posed.gallery = [pose |-> [x |-> Places[c], paint |-> paint],
                              style |-> scene[c].gallery.style]
          /\ posed.tests = [i \in 1 .. n |-> [scene[c].tests[i] EXCEPT !.x = Places[c]]]
      <4>1. placed \in Scene /\ now \in Nat /\ paint \in Paints
        BY <1>1, <1>2, <1>3
      <4>2. /\ posed \in Scene /\ posed.x = placed.x
            /\ posed.example = [pose |-> [time |-> now, x |-> placed.x, paint |-> paint],
                                style |-> placed.example.style]
            /\ posed.gallery = [pose |-> [x |-> placed.x, paint |-> paint],
                                style |-> placed.gallery.style]
            /\ posed.tests = [i \in DOMAIN placed.tests |-> [placed.tests[i] EXCEPT !.x = placed.x]]
        BY Zenon, <3>0, <4>1, PoseSceneIs
      <4>3. DOMAIN placed.tests = 1 .. n
        BY <1>2, <1>3
      <4> QED
        BY Zenon, <1>3, <4>2, <4>3
    <3>2. posed.tests \in Seq(Test)
      BY <3>1 DEF Scene
    <3>3. Len(posed.tests) = n
      BY <1>2, <3>1, <3>2
    <3>4. \A i \in 1 .. n : posed.tests[i] = [scene[c].tests[i] EXCEPT !.x = Places[c]]
      BY <3>1
    <3> HIDE DEF posed
    <3>5. \A i \in 1 .. n : /\ posed.tests[i].x = Places[c]
                            /\ posed.tests[i].shape = scene[c].tests[i].shape
                            /\ posed.tests[i].hue = scene[c].tests[i].hue
                            /\ posed.tests[i].style = scene[c].tests[i].style
      BY <1>2, <3>4 DEF Test
    <3> QED
      BY <3>1, <3>3, <3>5
  <2>2. CASE ~Reposes
    <3>1. ~sceneDirty /\ paused /\ scene[c].x = Places[c]
      BY <2>2 DEF Reposes, Moved
    <3>2. now = time
      BY <3>1 DEF now
    <3>3. /\ scene[c].example.pose = [time |-> time, x |-> Places[c], paint |-> paint]
          /\ scene[c].gallery.pose = [x |-> Places[c], paint |-> paint]
          /\ \A i \in 1 .. n : scene[c].tests[i].x = Places[c]
      BY <1>2, <3>1 DEF AppInv, PosesKept, Posed, TestsPlaced
    <3>4. posed = placed
      BY <2>2
    <3>5. /\ scene[c].example = [pose |-> scene[c].example.pose, style |-> scene[c].example.style]
          /\ scene[c].gallery = [pose |-> scene[c].gallery.pose, style |-> scene[c].gallery.style]
      BY <1>2 DEF Scene
    <3> HIDE DEF posed
    <3> QED
      BY <1>3, <3>2, <3>3, <3>4, <3>5
  <2> QED
    BY <2>1, <2>2
<1>6. posed.tests \in Seq(Test) /\ DOMAIN posed.tests = 1 .. n
  <2>1. posed.tests \in Seq(Test)
    BY <1>5 DEF Scene
  <2> HIDE DEF posed
  <2> QED
    BY <1>5, <2>1
<1> HIDE DEF posed
<1>7. /\ new \in Scene /\ new.x = Places[c]
      /\ new.example = [pose |-> [time |-> now, x |-> Places[c], paint |-> paint], style |-> panel]
      /\ new.gallery = [pose |-> [x |-> Places[c], paint |-> paint], style |-> GalleryPanel(panel)]
      /\ Len(new.tests) = n
      /\ \A i \in 1 .. n :
           /\ new.tests[i].x = Places[c]
           /\ new.tests[i].shape = scene[c].tests[i].shape
           /\ new.tests[i].hue = scene[c].tests[i].hue
           /\ new.tests[i].style = TestStyle(panel, scene[c].tests[i].style.resolution)
  <2>1. CASE styleDirty
    <3>0. new = ApplyStyle(posed, panel) /\ posed \in Scene /\ DOMAIN posed.tests = 1 .. n
      BY <1>5, <1>6, <2>1
    <3> HIDE DEF new
    <3>1. /\ new \in Scene /\ new.x = posed.x
          /\ new.example = [pose |-> posed.example.pose, style |-> panel]
          /\ new.gallery = [pose |-> posed.gallery.pose, style |-> GalleryPanel(panel)]
          /\ new.tests =
               [i \in 1 .. n |-> [posed.tests[i] EXCEPT !.style = TestStyle(panel, posed.tests[i].style.resolution)]]
      BY <1>1, <3>0, ApplyStyleIs
    <3>2. new.tests \in Seq(Test)
      BY <3>1 DEF Scene
    <3>3. Len(new.tests) = n
      BY <1>2, <3>1, <3>2
    <3>4. \A i \in 1 .. n :
            new.tests[i] = [posed.tests[i] EXCEPT !.style = TestStyle(panel, posed.tests[i].style.resolution)]
      BY <3>1
    <3>5. \A i \in 1 .. n : posed.tests[i] \in Test
      BY <1>6
    <3> HIDE DEF new
    <3>6. \A i \in 1 .. n :
           /\ new.tests[i].x = posed.tests[i].x
           /\ new.tests[i].shape = posed.tests[i].shape
           /\ new.tests[i].hue = posed.tests[i].hue
           /\ new.tests[i].style = TestStyle(panel, posed.tests[i].style.resolution)
      BY <3>4, <3>5 DEF Test
    <3> QED
      BY <1>5, <3>1, <3>3, <3>6
  <2>2. CASE ~styleDirty
    <3>1. /\ scene[c].example.style = panel
          /\ scene[c].gallery.style = GalleryPanel(panel)
          /\ \A i \in 1 .. n :
               scene[c].tests[i].style = TestStyle(panel, scene[c].tests[i].style.resolution)
      BY <1>2, <2>2 DEF AppInv, StylesKept, Styled
    <3>2. new = posed
      BY <2>2
    <3> HIDE DEF new
    <3> QED
      BY <1>5, <3>1, <3>2
  <2> QED
    BY <2>1, <2>2
<1>8. new.tests \in Seq(Test)
  BY <1>7 DEF Scene
<1> HIDE DEF new
<1>9. DOMAIN new.tests = 1 .. n
  BY <1>7, <1>8
<1>10. ASSUME NEW i \in 1 .. n
       PROVE  new.tests[i].style = TestStyle(panel, new.tests[i].style.resolution)
  <2>1. scene[c].tests[i].style \in TestStyles
    BY <1>2 DEF Test
  <2>2. scene[c].tests[i].style.resolution \in Resolutions
    BY <2>1, ResolutionOfStyle
  <2>3. new.tests[i].style.resolution = scene[c].tests[i].style.resolution
    BY <1>1, <1>7, <2>2, StyleHasResolution
  <2> QED
    BY <1>7, <2>3
<1>11. TestsPlaced(new) /\ Styled(new)
  BY <1>7, <1>9, <1>10 DEF TestsPlaced, Styled
<1> QED
  BY <1>4, <1>7, <1>11

LEMMA UpdateKeeps ==
  ASSUME AppInv, Update
  PROVE  AppInv'
<1>1. /\ scene' \in [Columns -> Scene]
      /\ \A c \in Columns : scene'[c].x = Places[c] /\ TestsPlaced(scene'[c]) /\ Styled(scene'[c])
  <2>1. scene' = [c \in Columns |-> scene'[c]]
    BY DEF Update
  <2> QED
    BY <2>1, UpdatedColumn
<1>2. /\ phase' = "updated" /\ sceneDirty' = FALSE /\ styleDirty' = FALSE
      /\ draw' = draw /\ gap' = gap /\ paint' = paint /\ panel' = panel /\ together' = together
      /\ paused' = paused /\ rng' = rng /\ quiet' = quiet
  BY DEF Update, ClearSceneDirty, settings
<1>3. time' \in Nat
  BY AppAssumption DEF AppInv, AppTypeOK, Update
<1>4. AppTypeOK'
  BY <1>1, <1>2, <1>3 DEF AppInv, AppTypeOK
<1>5. PosesKept'
  <2> SUFFICES ASSUME NEW c \in Columns
               PROVE  Posed(scene[c])' /\ TestsPlaced(scene[c])'
    BY DEF PosesKept
  <2>1. /\ scene'[c].example.pose = [time |-> time', x |-> Places[c], paint |-> paint]
        /\ scene'[c].gallery.pose = [x |-> Places[c], paint |-> paint]
        /\ TestsPlaced(scene'[c]) /\ scene'[c].x = Places[c]
    BY UpdatedColumn
  <2> QED
    BY <1>2, <2>1 DEF Posed, TestsPlaced
<1>6. StylesKept'
  BY <1>1, <1>2 DEF StylesKept, Styled
<1>7. NothingLeft'
  <2>1. \A c \in Columns : Places[c] = Place(c, draw, gap)
    BY DEF Places
  <2> QED
    BY <1>1, <1>2, <2>1 DEF NothingLeft, AllPlaced
<1>8. ColumnsStayAlike'
  <2>1. ASSUME Alike(scene["curves"], scene["lines"])
        PROVE  Alike(scene'["curves"], scene'["lines"])
    <3>1. \A c \in Columns :
            /\ Len(scene'[c].tests) = Len(scene[c].tests)
            /\ \A i \in 1 .. Len(scene[c].tests) :
                 /\ scene'[c].tests[i].shape = scene[c].tests[i].shape
                 /\ scene'[c].tests[i].hue = scene[c].tests[i].hue
                 /\ scene'[c].tests[i].style = TestStyle(panel, scene[c].tests[i].style.resolution)
      BY UpdatedColumn
    <3> QED
      BY <2>1, <3>1 DEF Alike, Columns
  <2>2. (scene \in [Columns -> Scene])'
    BY <1>1
  <2>3. ColumnsStayAlike' <=> (together' => Alike(scene'["curves"], scene'["lines"]))
    <3>1. Alike(scene["curves"], scene["lines"])' <=> Alike(scene'["curves"], scene'["lines"])
      BY DEF Alike
    <3> QED
      BY <2>2, <3>1, AlikeColumns, PTL
  <2> QED
    BY <1>2, <2>1, <2>3, AlikeColumns DEF AppInv, AppTypeOK
<1> QED
  BY <1>4, <1>5, <1>6, <1>7, <1>8 DEF AppInv

-------------------------------------------------------------------------------
(* The widgets *)

\* After a widget the next frame may have something to do.
LEMMA WidgetKeeps ==
  ASSUME AppInv, Widget
  PROVE  NothingLeft' /\ phase' = "gui" /\ quiet' = FALSE /\ time' = time
BY DEF Widget, NothingLeft

\* Test curves come behind the others, placed and in the panel's style.
LEMMA AddToKeeps ==
  ASSUME AppInv, NEW targets \in {{"curves"}, {"lines"}, Columns}, NEW n \in Batches, NEW p \in Panels,
         Widget, AddTo(targets, n, p.resolution), UNCHANGED <<draw, gap, paused, paint, panel>>
  PROVE  AppInv'
<1>1. /\ scene \in [Columns -> Scene] /\ rng \in Nat /\ panel \in Panels
      /\ n \in Nat /\ n >= 1 /\ p.resolution \in Resolutions
      /\ draw \subseteq Columns /\ gap \in Gaps /\ paused \in BOOLEAN /\ time \in Nat /\ paint \in Paints
      /\ together \in BOOLEAN
  BY AppAssumption DEF AppInv, AppTypeOK, Resolutions
<1>2. /\ sceneDirty' = TRUE /\ styleDirty' = TRUE /\ rng' = rng + n
      /\ together' = (together /\ targets = Columns)
      /\ scene' = [c \in Columns |-> scene'[c]]
      /\ \A c \in Columns \ targets : scene'[c] = scene[c]
      /\ \A c \in targets :
           scene'[c] = [scene[c] EXCEPT !.tests = scene[c].tests \o
                          TestCurves(scene[c], n, rng, p.resolution, panel)]
      /\ targets \subseteq Columns
  BY DEF AddTo, Rewound, Columns
<1>3. ASSUME NEW c \in targets
      PROVE  /\ scene'[c] \in Scene /\ scene'[c].x = scene[c].x
             /\ Len(scene'[c].tests) = Len(scene[c].tests) + n
             /\ \A i \in 1 .. Len(scene[c].tests) : scene'[c].tests[i] = scene[c].tests[i]
             /\ \A i \in 1 .. n :
                  scene'[c].tests[Len(scene[c].tests) + i] =
                    NewTest(scene[c], i, rng, p.resolution, panel)
  <2>1. scene[c] \in Scene
    BY <1>1, <1>2
  <2>2. scene'[c] = [scene[c] EXCEPT !.tests = scene[c].tests \o
                      TestCurves(scene[c], n, rng, p.resolution, panel)]
    BY <1>2
  <2>3. rng \in Nat /\ n \in Nat /\ p.resolution \in Resolutions /\ panel \in Panels
    BY <1>1
  <2>4. scene'[c] = Extended(scene[c], n, rng, p.resolution, panel)
    BY <2>2 DEF Extended
  <2>5. Extends(scene'[c], scene[c], n, rng, p.resolution, panel)
    BY <2>1, <2>3, <2>4, AddedTests
  <2> QED
    BY <2>5 DEF Extends
<1>4. scene' \in [Columns -> Scene]
  BY <1>1, <1>2, <1>3
<1>5. AppTypeOK'
  BY <1>1, <1>2, <1>4, WidgetKeeps DEF AppTypeOK
<1>6. PosesKept'
  <2> SUFFICES ASSUME NEW c \in Columns
               PROVE  TestsPlaced(scene'[c])
    BY <1>2 DEF PosesKept, TestsPlaced
  <2>1. TestsPlaced(scene[c])
    BY DEF AppInv, PosesKept
  <2>2. CASE c \notin targets
    BY <1>2, <2>1, <2>2 DEF TestsPlaced
  <2>3. CASE c \in targets
    <3> DEFINE l == Len(scene[c].tests)
    <3>1. /\ scene[c].tests \in Seq(Test) /\ l \in Nat /\ DOMAIN scene[c].tests = 1 .. l
          /\ scene'[c].tests \in Seq(Test) /\ DOMAIN scene'[c].tests = 1 .. l + n
      <4>1. scene[c].tests \in Seq(Test) /\ scene'[c].tests \in Seq(Test)
        BY <1>1, <1>4 DEF Scene
      <4> QED
        BY <4>1, <2>3, <1>3
    <3> HIDE DEF l
    <3>2. ASSUME NEW i \in 1 .. l + n
          PROVE  scene'[c].tests[i].x = scene'[c].x
      <4>1. CASE i <= l
        <5>1. i \in 1 .. l
          BY <3>1, <4>1
        <5> QED
          BY <1>3, <2>1, <2>3, <3>1, <5>1 DEF TestsPlaced, l
      <4>2. CASE ~(i <= l)
        <5>1. PICK k \in 1 .. n : i = l + k
          <6>1. i - l \in 1 .. n /\ i = l + (i - l)
            BY <1>1, <3>1, <4>2
          <6> QED
            BY <6>1
        <5>2. scene'[c].tests[i] = NewTest(scene[c], k, rng, p.resolution, panel)
          BY <1>3, <2>3, <5>1 DEF l
        <5> QED
          BY <1>3, <2>3, <5>2 DEF NewTest
      <4> QED
        BY <4>1, <4>2
    <3> QED
      BY <3>1, <3>2 DEF TestsPlaced
  <2> QED
    BY <2>2, <2>3
<1>7. StylesKept'
  BY <1>2 DEF StylesKept
<1>8. ColumnsStayAlike'
  <2>1. ASSUME Alike(scene["curves"], scene["lines"]), targets = Columns
        PROVE  Alike(scene'["curves"], scene'["lines"])
    <3> DEFINE l == Len(scene["curves"].tests)
    <3>1. /\ Len(scene["lines"].tests) = l /\ l \in Nat
          /\ "curves" \in targets /\ "lines" \in targets
      <4>1. scene["curves"].tests \in Seq(Test)
        BY <1>1 DEF Scene, Columns
      <4> QED
        BY <2>1, <4>1 DEF Alike, Columns
    <3>2. Len(scene'["curves"].tests) = l + n /\ Len(scene'["lines"].tests) = l + n
      BY <1>3, <3>1
    <3>3. ASSUME NEW i \in 1 .. l + n
          PROVE  /\ scene'["curves"].tests[i].shape = scene'["lines"].tests[i].shape
                 /\ scene'["curves"].tests[i].hue = scene'["lines"].tests[i].hue
                 /\ scene'["curves"].tests[i].style = scene'["lines"].tests[i].style
      <4>1. CASE i <= l
        <5>1. i \in 1 .. l
          BY <3>1, <4>1
        <5> QED
          BY <1>3, <2>1, <3>1, <5>1 DEF Alike
      <4>2. CASE ~(i <= l)
        <5>1. PICK k \in 1 .. n : i = l + k
          <6>1. i - l \in 1 .. n /\ i = l + (i - l)
            BY <1>1, <3>1, <4>2
          <6> QED
            BY <6>1
        <5>2. /\ scene'["curves"].tests[i] = NewTest(scene["curves"], k, rng, p.resolution, panel)
              /\ scene'["lines"].tests[i] = NewTest(scene["lines"], k, rng, p.resolution, panel)
          BY <1>3, <3>1, <5>1
        <5> QED
          BY <3>1, <5>2 DEF NewTest
      <4> QED
        BY <4>1, <4>2
    <3> QED
      BY <3>2, <3>3 DEF Alike
  <2>2. (scene \in [Columns -> Scene])'
    BY <1>4
  <2>3. ColumnsStayAlike' <=> (together' => Alike(scene'["curves"], scene'["lines"]))
    <3>1. Alike(scene["curves"], scene["lines"])' <=> Alike(scene'["curves"], scene'["lines"])
      BY DEF Alike
    <3> QED
      BY <2>2, <3>1, AlikeColumns, PTL
  <2> QED
    BY <1>1, <1>2, <2>1, <2>3, AlikeColumns DEF AppInv
<1> QED
  BY <1>5, <1>6, <1>7, <1>8, WidgetKeeps DEF AppInv

LEMMA RemoveKeeps ==
  ASSUME AppInv, RemoveCurves
  PROVE  AppInv'
<1>1. PICK targets \in {{"curves"}, {"lines"}, Columns}, n \in Batches \union {MaxTests} :
        /\ scene' = [c \in Columns |->
             IF c \in targets THEN RemoveTestCurves(scene[c], n) ELSE scene[c]]
        /\ together' = (together /\ targets = Columns)
  BY DEF RemoveCurves
<1>2. /\ scene \in [Columns -> Scene] /\ n \in Nat /\ targets \subseteq Columns
      /\ together \in BOOLEAN /\ Widget
      /\ UNCHANGED <<draw, gap, paused, paint, panel, rng, sceneDirty, styleDirty>>
  BY AppAssumption DEF AppInv, AppTypeOK, RemoveCurves, Columns
<1>3. ASSUME NEW c \in Columns
      PROVE  /\ scene'[c] \in Scene /\ scene'[c].x = scene[c].x
             /\ scene'[c].example = scene[c].example /\ scene'[c].gallery = scene[c].gallery
             /\ \A i \in DOMAIN scene'[c].tests :
                  i \in DOMAIN scene[c].tests /\ scene'[c].tests[i] = scene[c].tests[i]
  <2>1. scene[c] \in Scene /\ scene[c].tests \in Seq(Test)
    BY <1>2 DEF Scene
  <2>2. CASE c \in targets
    <3>1. Shortens(scene'[c], scene[c], Kept(scene[c], n))
      BY <1>1, <1>2, <2>1, <2>2, RemovedTests
    <3>2. scene'[c] \in Scene /\ scene'[c].tests \in Seq(Test)
      BY <3>1 DEF Shortens, Scene
    <3>3. DOMAIN scene'[c].tests = 1 .. Kept(scene[c], n) /\ DOMAIN scene[c].tests = 1 .. Len(scene[c].tests)
      BY <2>1, <3>1, <3>2 DEF Shortens
    <3> QED
      BY <3>1, <3>3 DEF Shortens
  <2>3. CASE c \notin targets
    BY <1>1, <2>1, <2>3
  <2> QED
    BY <2>2, <2>3
<1>4. scene' \in [Columns -> Scene]
  BY <1>1, <1>3
<1>5. AppTypeOK'
  BY <1>1, <1>2, <1>4, WidgetKeeps DEF AppInv, AppTypeOK
<1>6. PosesKept'
  <2> SUFFICES ASSUME NEW c \in Columns
               PROVE  (~sceneDirty => Posed(scene[c]))' /\ TestsPlaced(scene[c])'
    BY DEF PosesKept
  <2>1. (~sceneDirty => Posed(scene[c])) /\ TestsPlaced(scene[c])
    BY DEF AppInv, PosesKept
  <2>2. time' = time
    BY <1>2, WidgetKeeps
  <2> QED
    BY <1>2, <1>3, <2>1, <2>2 DEF Posed, TestsPlaced
<1>7. StylesKept'
  <2> SUFFICES ASSUME ~styleDirty, NEW c \in Columns
               PROVE  Styled(scene[c])'
    BY <1>2 DEF StylesKept
  <2>1. Styled(scene[c])
    BY DEF AppInv, StylesKept
  <2> QED
    BY <1>2, <1>3, <2>1 DEF Styled
<1>8. ColumnsStayAlike'
  <2>1. ASSUME Alike(scene["curves"], scene["lines"]), targets = Columns
        PROVE  Alike(scene'["curves"], scene'["lines"])
    <3>1. /\ Shortens(scene'["curves"], scene["curves"], Kept(scene["curves"], n))
          /\ Shortens(scene'["lines"], scene["lines"], Kept(scene["lines"], n))
      BY <1>1, <1>2, <2>1, RemovedTests DEF Columns
    <3>2. Kept(scene["curves"], n) = Kept(scene["lines"], n)
      BY <2>1 DEF Alike, Kept
    <3> QED
      BY <2>1, <3>1, <3>2 DEF Alike, Shortens
  <2>2. (scene \in [Columns -> Scene])'
    BY <1>4
  <2>3. ColumnsStayAlike' <=> (together' => Alike(scene'["curves"], scene'["lines"]))
    <3>1. Alike(scene["curves"], scene["lines"])' <=> Alike(scene'["curves"], scene'["lines"])
      BY DEF Alike
    <3> QED
      BY <2>2, <3>1, AlikeColumns, PTL
  <2> QED
    BY <1>1, <1>2, <2>1, <2>3, AlikeColumns DEF AppInv
<1> QED
  BY <1>2, <1>5, <1>6, <1>7, <1>8, WidgetKeeps DEF AppInv

\* What the other widgets change asks for a pose or a style, or is read by the next Update().
LEMMA OtherWidgetKeeps ==
  ASSUME AppInv, TickPause \/ TickColumn \/ DragGap \/ PickColours \/ EditStyle
  PROVE  AppInv'
<1>1. Widget /\ UNCHANGED <<rng, scene, together>>
  BY DEF TickPause, TickColumn, DragGap, PickColours, EditStyle
<1>2. /\ paint' = paint \/ (paint' \in Paints /\ sceneDirty' = TRUE)
      /\ panel' = panel \/ (panel' \in Panels /\ styleDirty' = TRUE)
      /\ sceneDirty' = sceneDirty \/ sceneDirty' = TRUE
      /\ styleDirty' = styleDirty \/ styleDirty' = TRUE
  BY DEF TickPause, TickColumn, DragGap, PickColours, EditStyle, StyleChanged
<1>3. draw' \subseteq Columns /\ gap' \in Gaps /\ paused' \in BOOLEAN
  BY DEF AppInv, AppTypeOK, TickPause, TickColumn, DragGap, PickColours, EditStyle
<1>4. AppTypeOK'
  BY <1>1, <1>2, <1>3, WidgetKeeps DEF AppInv, AppTypeOK
<1>5. PosesKept'
  <2> SUFFICES ASSUME NEW c \in Columns
               PROVE  (~sceneDirty => Posed(scene[c]))' /\ TestsPlaced(scene[c])'
    BY DEF PosesKept
  <2>1. (~sceneDirty => Posed(scene[c])) /\ TestsPlaced(scene[c])
    BY DEF AppInv, PosesKept
  <2>2. scene' = scene /\ time' = time
    BY <1>1, WidgetKeeps
  <2>3. TestsPlaced(scene[c])'
    BY <2>1, <2>2 DEF TestsPlaced
  <2>4. ASSUME ~sceneDirty'
        PROVE  Posed(scene[c])'
    <3>1. sceneDirty' # TRUE
      BY <2>4
    <3>2. sceneDirty' = sceneDirty /\ paint' = paint
      BY <1>2, <3>1
    <3> QED
      BY <2>1, <2>2, <2>4, <3>2 DEF Posed
  <2> QED
    BY <2>3, <2>4
<1>6. StylesKept'
  BY <1>1, <1>2 DEF AppInv, StylesKept, Styled
<1>7. ColumnsStayAlike'
  BY <1>1 DEF AppInv, ColumnsStayAlike
<1> QED
  BY <1>1, <1>4, <1>5, <1>6, <1>7, WidgetKeeps DEF AppInv

LEMMA NextApp == AppInv /\ [AppNext]_appVars => AppInv'
<1> SUFFICES ASSUME AppInv, [AppNext]_appVars
             PROVE  AppInv'
  OBVIOUS
<1>1. CASE Update
  BY <1>1, UpdateKeeps
<1>2. CASE Render
  <2>1. /\ phase' = "events" /\ quiet' = (phase = "updated")
        /\ UNCHANGED <<draw, gap, paused, paint, panel, rng, together, time, sceneDirty, styleDirty, scene>>
    BY <1>2 DEF Render, settings
  <2>2. AppTypeOK'
    BY <2>1 DEF AppInv, AppTypeOK
  <2>3. PosesKept' /\ StylesKept' /\ ColumnsStayAlike'
    BY <2>1 DEF AppInv, PosesKept, Posed, TestsPlaced, StylesKept, Styled, ColumnsStayAlike
  <2>4. NothingLeft'
    BY <2>1 DEF AppInv, NothingLeft, AllPlaced
  <2> QED
    BY <2>2, <2>3, <2>4 DEF AppInv
<1>3. CASE TickPause \/ TickColumn \/ DragGap \/ PickColours \/ EditStyle
  BY <1>3, OtherWidgetKeeps
<1>4. CASE AddTestCurves
  <2>1. PICK targets \in {{"curves"}, {"lines"}, Columns}, n \in Batches, p \in Panels :
          AddTo(targets, n, p.resolution)
    BY <1>4 DEF AddTestCurves
  <2>2. Widget /\ UNCHANGED <<draw, gap, paused, paint, panel>>
    BY <1>4 DEF AddTestCurves
  <2> QED
    BY <2>1, <2>2, AddToKeeps
<1>5. CASE RemoveCurves
  BY <1>5, RemoveKeeps
<1>6. CASE UNCHANGED appVars
  <2>1. AppTypeOK' /\ PosesKept' /\ StylesKept' /\ NothingLeft' /\ ColumnsStayAlike'
    BY <1>6 DEF appVars, AppInv, AppTypeOK, PosesKept, Posed, TestsPlaced, StylesKept, Styled,
         NothingLeft, AllPlaced, ColumnsStayAlike
  <2> QED
    BY <2>1 DEF AppInv
<1> QED
  BY <1>1, <1>2, <1>3, <1>4, <1>5, <1>6 DEF AppNext

LEMMA SettingsAreShown == AppInv => SceneIsCurrent /\ PausedIsIdle
<1> SUFFICES ASSUME AppInv
             PROVE  SceneIsCurrent /\ PausedIsIdle
  OBVIOUS
<1>1. ASSUME phase = "updated", NEW c \in Columns
      PROVE  LET s == scene[c] x == Place(c, draw, gap) IN
             /\ s.example = [pose |-> [time |-> time, x |-> x, paint |-> paint], style |-> panel]
             /\ s.gallery = [pose |-> [x |-> x, paint |-> paint], style |-> GalleryPanel(panel)]
             /\ \A i \in DOMAIN s.tests :
                  /\ s.tests[i].x = x
                  /\ [s.tests[i].style EXCEPT !.resolution = 0] = [panel EXCEPT !.resolution = 0]
  <2>1. /\ ~sceneDirty /\ ~styleDirty /\ scene[c].x = Place(c, draw, gap)
        /\ scene[c] \in Scene /\ panel \in Panels
    BY <1>1 DEF AppInv, NothingLeft, AllPlaced, AppTypeOK
  <2>2. Posed(scene[c]) /\ TestsPlaced(scene[c]) /\ Styled(scene[c])
    BY <2>1 DEF AppInv, PosesKept, StylesKept
  <2>3. /\ scene[c].example = [pose |-> scene[c].example.pose, style |-> scene[c].example.style]
        /\ scene[c].gallery = [pose |-> scene[c].gallery.pose, style |-> scene[c].gallery.style]
    BY <2>1 DEF Scene
  <2>4. ASSUME NEW i \in DOMAIN scene[c].tests
        PROVE  [scene[c].tests[i].style EXCEPT !.resolution = 0] = [panel EXCEPT !.resolution = 0]
    <3>1. scene[c].tests[i].style = TestStyle(panel, scene[c].tests[i].style.resolution)
      BY <2>2 DEF Styled
    <3>2. ASSUME NEW own
          PROVE  [TestStyle(panel, own) EXCEPT !.resolution = 0] = [panel EXCEPT !.resolution = 0]
      <4>1. DOMAIN panel = {"caps", "look", "resolution"}
        BY <2>1, AppAssumption
      <4> QED
        BY <4>1 DEF TestStyle
    <3> DEFINE own == scene[c].tests[i].style.resolution
    <3>3. scene[c].tests[i].style = TestStyle(panel, own)
      BY <3>1
    <3> HIDE DEF own
    <3> QED
      BY <3>2, <3>3
  <2> QED
    BY <2>1, <2>2, <2>3, <2>4 DEF Posed, TestsPlaced, Styled
<1>2. ASSUME phase = "events", paused, quiet
      PROVE  ~Reposes /\ ~styleDirty
  BY <1>2 DEF AppInv, NothingLeft, AllPlaced, Reposes, Moved, Places
<1> QED
  BY <1>1, <1>2 DEF SceneIsCurrent, PausedIsIdle

\* The property of Update(), of idle frames and of the two columns.
THEOREM FramesAlwaysFollow == AppSpec => []FramesFollow
<1>1. AppInv => FramesFollow
  BY SettingsAreShown DEF AppInv, FramesFollow
<1> QED
  BY <1>1, InitApp, NextApp, PTL DEF AppSpec

-------------------------------------------------------------------------------
(* The camera *)

Down(k) == IF k \in held THEN 1 ELSE 0

\* An axis moves as a key of it points that is down or adrift, and each shift key that is down
\* slows the camera once.
CameraInv ==
  /\ held \subseteq Keys /\ speed \in Int /\ missed \in Int
  /\ go \in [{"forward", "right", "up"} -> Int]
  /\ speed = missed - (Down("LSHIFT") + Down("RSHIFT"))
  /\ \A a \in DOMAIN go : go[a] # 0 =>
       \E k \in (held \union adrift) \ Shifts : Axis[k] = a /\ Way[k] = go[a]

LEMMA KeysOfAxes ==
  ASSUME NEW k \in Keys
  PROVE  k \in Shifts \/ (Axis[k] \in {"forward", "right", "up"} /\ Way[k] \in Int)
BY KeysAssumption DEF Shifts, Axis, Way

\* A key that goes down moves its own axis its own way; a shift key slows the camera, once.
LEMMA PressMoves ==
  ASSUME CameraInv, NEW k \in Keys, NEW repeat \in BOOLEAN, KeyboardDown(k, repeat),
         held' = held \union {k}, adrift' = adrift \ {k} \/ adrift' = adrift,
         missed' = missed, repeat <=> k \in held
  PROVE  CameraInv'
<1>1. CASE k \in Shifts
  <2>1. UNCHANGED go /\ speed' = IF repeat THEN speed ELSE speed - 1
    BY <1>1 DEF KeyboardDown
  <2>2. speed' \in Int /\ speed' = missed' - (Down("LSHIFT") + Down("RSHIFT"))'
    BY <1>1, <2>1 DEF CameraInv, Down, Shifts
  <2>3. (held \union adrift) \ Shifts \subseteq (held' \union adrift') \ Shifts
    BY <1>1
  <2> QED
    BY <2>1, <2>2, <2>3 DEF CameraInv
<1>2. CASE k \notin Shifts
  <2>1. UNCHANGED speed /\ go' = [go EXCEPT ![Axis[k]] = Way[k]]
    BY <1>2 DEF KeyboardDown
  <2>2. speed' \in Int /\ speed' = missed' - (Down("LSHIFT") + Down("RSHIFT"))'
    BY <1>2, <2>1 DEF CameraInv, Down, Shifts
  <2>3. (held \union adrift) \ Shifts \subseteq (held' \union adrift') \ Shifts
    BY <1>2
  <2>4. k \in (held' \union adrift') \ Shifts
    BY <1>2
  <2> QED
    BY <1>2, <2>1, <2>2, <2>3, <2>4, KeysOfAxes DEF CameraInv
<1> QED
  BY <1>1, <1>2

\* A key that the camera sees go up stops its axis; a shift key makes the camera faster.
LEMMA ReleaseStops ==
  ASSUME CameraInv, NEW k \in held, held' = held \ {k}, SeesRelease(k)
  PROVE  CameraInv'
<1>1. CASE k \in Shifts
  <2>1. UNCHANGED <<go, missed>> /\ speed' = speed + 1 /\ adrift' = adrift
    BY <1>1 DEF SeesRelease, KeyboardUp
  <2>2. speed' \in Int /\ speed' = missed' - (Down("LSHIFT") + Down("RSHIFT"))'
    BY <1>1, <2>1 DEF CameraInv, Down, Shifts
  <2>3. (held \union adrift) \ Shifts \subseteq (held' \union adrift') \ Shifts
    BY <1>1, <2>1
  <2> QED
    BY <2>1, <2>2, <2>3 DEF CameraInv
<1>2. CASE k \notin Shifts
  <2>1. UNCHANGED <<speed, missed>> /\ go' = [go EXCEPT ![Axis[k]] = 0]
    BY <1>2 DEF SeesRelease, KeyboardUp
  <2>2. speed' \in Int /\ speed' = missed' - (Down("LSHIFT") + Down("RSHIFT"))'
    BY <1>2, <2>1 DEF CameraInv, Down, Shifts
  <2>3. Axis[k] \in DOMAIN go
    BY <1>2, KeysOfAxes DEF CameraInv
  <2>4. ASSUME NEW a \in DOMAIN go', go'[a] # 0
        PROVE  \E j \in (held' \union adrift') \ Shifts : Axis[j] = a /\ Way[j] = go'[a]
    <3>1. a # Axis[k] /\ go'[a] = go[a] /\ a \in DOMAIN go
      BY <2>1, <2>3, <2>4 DEF CameraInv
    <3>2. PICK j \in (held \union adrift) \ Shifts : Axis[j] = a /\ Way[j] = go[a]
      BY <2>4, <3>1 DEF CameraInv
    <3>3. j \in (held' \union adrift') \ Shifts
      BY <3>1, <3>2 DEF SeesRelease
    <3> QED
      BY <3>1, <3>2, <3>3
  <2>5. held' \subseteq Keys /\ missed' \in Int /\ go' \in [{"forward", "right", "up"} -> Int]
    BY <2>1, <2>3 DEF CameraInv
  <2> QED
    BY <2>2, <2>4, <2>5 DEF CameraInv
<1> QED
  BY <1>1, <1>2

LEMMA NextCamera == CameraInv /\ [CameraNext]_cameraVars => CameraInv'
<1> SUFFICES ASSUME CameraInv, [CameraNext]_cameraVars
             PROVE  CameraInv'
  OBVIOUS
<1>1. CASE Press
  <2>1. PICK k \in Keys \ held :
          /\ held' = held \union {k} /\ adrift' = adrift \ {k}
          /\ \/ KeyboardDown(k, FALSE) /\ UNCHANGED missed
             \/ Misses(k, 1) /\ UNCHANGED <<go, speed>>
    BY <1>1 DEF Press
  <2>2. CASE KeyboardDown(k, FALSE) /\ UNCHANGED missed
    BY <2>1, <2>2, PressMoves
  <2>3. CASE Misses(k, 1) /\ UNCHANGED <<go, speed>>
    <3>1. speed = missed' - (Down("LSHIFT") + Down("RSHIFT"))' /\ missed' \in Int
      BY <2>1, <2>3 DEF CameraInv, Misses, Down, Shifts
    <3>2. (held \union adrift) \ Shifts \subseteq (held' \union adrift') \ Shifts
      BY <2>1
    <3> QED
      BY <2>1, <2>3, <3>1, <3>2 DEF CameraInv
  <2> QED
    BY <2>1, <2>2, <2>3
<1>2. CASE Repeat
  <2>1. PICK k \in held : KeyboardDown(k, TRUE) /\ UNCHANGED <<held, missed, adrift>>
    BY <1>2 DEF Repeat
  <2>2. k \in Keys /\ held' = held \union {k}
    BY <2>1 DEF CameraInv
  <2> QED
    BY <2>1, <2>2, PressMoves
<1>3. CASE Release
  <2>1. PICK k \in held :
          /\ held' = held \ {k}
          /\ \/ SeesRelease(k)
             \/ /\ Misses(k, -1) /\ UNCHANGED <<go, speed>>
                /\ adrift' = adrift \union ({k} \ Shifts)
    BY <1>3 DEF Release
  <2>2. CASE SeesRelease(k)
    BY <2>1, <2>2, ReleaseStops
  <2>3. CASE Misses(k, -1) /\ UNCHANGED <<go, speed>> /\ adrift' = adrift \union ({k} \ Shifts)
    <3>1. speed = missed' - (Down("LSHIFT") + Down("RSHIFT"))' /\ missed' \in Int
      BY <2>1, <2>3 DEF CameraInv, Misses, Down, Shifts
    <3>2. (held \union adrift) \ Shifts \subseteq (held' \union adrift') \ Shifts
      BY <2>1, <2>3
    <3> QED
      BY <2>1, <2>3, <3>1, <3>2 DEF CameraInv
  <2> QED
    BY <2>1, <2>2, <2>3
<1>4. CASE Capture \/ UNCHANGED cameraVars
  <2>1. UNCHANGED <<held, go, speed, missed, adrift>>
    BY <1>4 DEF Capture, cameraVars
  <2> QED
    BY <2>1 DEF CameraInv, Down
<1> QED
  BY <1>1, <1>2, <1>3, <1>4 DEF CameraNext

\* Whatever is pressed, repeated, released or swallowed, in whatever order: with no key down the
\* camera has only the motion and the speed that a swallowed event left it.
THEOREM CameraForgetsWhatItSaw == CameraSpec => []OnlyTheSwallowedLasts
<1>1. CameraInit => CameraInv
  <2> SUFFICES ASSUME CameraInit
               PROVE  CameraInv
    OBVIOUS
  <2>1. Down("LSHIFT") = 0 /\ Down("RSHIFT") = 0
    BY DEF CameraInit, Down
  <2>2. go \in [{"forward", "right", "up"} -> Int] /\ \A a \in DOMAIN go : go[a] = 0
    BY DEF CameraInit
  <2>3. held \subseteq Keys /\ speed = 0 /\ missed = 0
    BY DEF CameraInit
  <2> QED
    BY <2>1, <2>2, <2>3 DEF CameraInv
<1>2. CameraInv => OnlyTheSwallowedLasts
  <2> SUFFICES ASSUME CameraInv, held = {}
               PROVE  /\ speed = missed
                      /\ \A a \in DOMAIN go : go[a] # 0 =>
                           \E k \in adrift : Axis[k] = a /\ Way[k] = go[a]
    BY DEF OnlyTheSwallowedLasts
  <2>1. Down("LSHIFT") = 0 /\ Down("RSHIFT") = 0
    BY DEF Down
  <2> QED
    BY <2>1 DEF CameraInv
<1> QED
  BY <1>1, <1>2, NextCamera, PTL DEF CameraSpec

-------------------------------------------------------------------------------
(***************************************************************************)
(* The splines.                                                            *)
(***************************************************************************)

IsSpline(s) ==
  s = [live |-> s.live, ends |-> s.ends, points |-> s.points, front |-> s.front, back |-> s.back,
       alpha |-> s.alpha, posed |-> s.posed, poseAll |-> s.poseAll, links |-> s.links,
       paint |-> s.paint, height |-> s.height, style |-> s.style, colors |-> s.colors]

LinksOK(s) ==
  /\ Len(s.links) \in Nat
  /\ s.links = [i \in 1..Len(s.links) |-> s.links[i]]
  /\ \A i \in 1..Len(s.links) :
       s.links[i] = [pose |-> s.links[i].pose, paint |-> s.links[i].paint, look |-> s.links[i].look]

\* Every link has the shape of the knots that were posed last.
AllPosed(s) ==
  ~s.poseAll => \A i \in 1..Len(s.links) : s.links[i].pose = Pose(s, s.posed, i)

AllPainted(s) == \A i \in 1..Len(s.links) : s.links[i].paint = LinkPaint(s, i, Len(s.links))

AllLook(s) == \A i \in 1..Len(s.links) : s.links[i].look = Look(s)

Sound(s) == IsSpline(s) /\ LinksOK(s) /\ AllPosed(s) /\ AllPainted(s) /\ AllLook(s)

SplinesSound ==
  /\ splines = [n \in Names |-> splines[n]]
  /\ \A n \in Names : Sound(splines[n])

-------------------------------------------------------------------------------

LEMMA NoSplineSound == Sound(NoSpline) /\ Len(NoSpline.links) = 0
BY DEF Sound, IsSpline, LinksOK, AllPosed, AllPainted, AllLook, NoSpline

\* A spline that differs in other things than its links and what they show.
LEMMA EditIsSound ==
  ASSUME NEW s, Sound(s), NEW r, IsSpline(r), r.links = s.links,
         r.poseAll \/ (r.posed = s.posed /\ r.alpha = s.alpha /\ r.ends = s.ends /\ r.poseAll = s.poseAll),
         r.paint = s.paint, r.height = s.height, r.colors = s.colors, r.style = s.style
  PROVE  Sound(r)
<1>1. LinksOK(r) /\ AllLook(r)
  BY DEF Sound, LinksOK, AllLook, Look
<1>2. AllPosed(r)
  BY DEF Sound, AllPosed, Pose, Window
<1>3. \A i : LinkPaint(r, i, Len(r.links)) = LinkPaint(s, i, Len(s.links))
  BY DEF LinkPaint
<1>4. AllPainted(r)
  BY <1>3 DEF Sound, AllPainted
<1> QED
  BY <1>1, <1>2, <1>4 DEF Sound

LEMMA ApplyColorsSound ==
  ASSUME NEW s, IsSpline(s), LinksOK(s), AllPosed(s), AllLook(s)
  PROVE  /\ Sound(ApplyColors(s))
         /\ Len(ApplyColors(s).links) = Len(s.links)
         /\ ApplyColors(s).live = s.live /\ ApplyColors(s).points = s.points
<1> DEFINE r == ApplyColors(s)
           n == Len(s.links)
           painted == [i \in 1..n |-> [s.links[i] EXCEPT !.paint = LinkPaint(s, i, n)]]
<1>1. DOMAIN s.links = 1..n /\ n \in Nat
  BY DEF LinksOK
<1>2. r = [s EXCEPT !.links = painted]
  BY <1>1 DEF ApplyColors
<1>3. /\ IsSpline(r) /\ r.links = painted
      /\ r.live = s.live /\ r.points = s.points /\ r.alpha = s.alpha /\ r.ends = s.ends /\ r.posed = s.posed
      /\ r.poseAll = s.poseAll /\ r.paint = s.paint /\ r.height = s.height
      /\ r.style = s.style /\ r.colors = s.colors
  <2> HIDE DEF painted, r
  <2> QED
    BY <1>2 DEF IsSpline
<1> HIDE DEF r
<1>4. Len(r.links) = n
  BY <1>1, <1>3
<1>5. ASSUME NEW i \in 1..n
      PROVE  /\ r.links[i].pose = s.links[i].pose /\ r.links[i].look = s.links[i].look
             /\ r.links[i].paint = LinkPaint(s, i, n)
             /\ r.links[i] = [pose |-> r.links[i].pose, paint |-> r.links[i].paint,
                              look |-> r.links[i].look]
  <2> DEFINE l == s.links[i]
             c == LinkPaint(s, i, n)
  <2>1. l = [pose |-> l.pose, paint |-> l.paint, look |-> l.look]
    BY DEF LinksOK
  <2>2. r.links[i] = [l EXCEPT !.paint = c]
    BY <1>3
  <2> HIDE DEF l, c
  <2>3. /\ r.links[i].pose = l.pose /\ r.links[i].look = l.look /\ r.links[i].paint = c
        /\ r.links[i] = [pose |-> r.links[i].pose, paint |-> r.links[i].paint, look |-> r.links[i].look]
    BY <2>1, <2>2
  <2> QED
    BY <2>3 DEF l, c
<1>6. LinksOK(r)
  BY <1>1, <1>3, <1>4, <1>5 DEF LinksOK
<1>7. AllPosed(r) /\ AllLook(r)
  BY <1>3, <1>4, <1>5 DEF AllPosed, AllLook, Look, Pose, Window
<1>8. \A i : LinkPaint(r, i, n) = LinkPaint(s, i, n)
  BY <1>3 DEF LinkPaint
<1>9. AllPainted(r)
  BY <1>4, <1>5, <1>8 DEF AllPainted
<1> QED
  BY <1>3, <1>4, <1>6, <1>7, <1>9 DEF Sound, r

\* The new links of a spline.
LEMMA AddLinksSound ==
  ASSUME NEW s, IsSpline(s), Len(s.points) \in Nat \ {0}
  PROVE  /\ Sound(AddLinks(s)) /\ Len(AddLinks(s).links) = Len(s.points) - 1
         /\ AddLinks(s).live = s.live
<1> DEFINE n == Len(s.points) - 1
           new == [i \in 1..n |-> [pose |-> <<>>, paint |-> <<>>, look |-> Look(s)]]
           r == [s EXCEPT !.poseAll = TRUE, !.links = new]
<1>1. AddLinks(s) = ApplyColors(r)
  BY DEF AddLinks
<1>2. /\ IsSpline(r) /\ r.links = new /\ r.poseAll = TRUE /\ r.live = s.live
      /\ r.height = s.height /\ r.style = s.style
  <2>1. r = [s EXCEPT !.poseAll = TRUE, !.links = new]
    OBVIOUS
  <2> HIDE DEF new, r
  <2> QED
    BY <2>1 DEF IsSpline
<1>3. n \in Nat /\ Len(new) = n
  OBVIOUS
<1> HIDE DEF n, r
<1>4. LinksOK(r) /\ AllPosed(r) /\ AllLook(r)
  <2>1. Look(r) = Look(s)
    BY <1>2 DEF Look
  <2> QED
    BY <1>2, <1>3, <2>1 DEF LinksOK, AllPosed, AllLook
<1> QED
  BY <1>1, <1>2, <1>3, <1>4, ApplyColorsSound DEF n

\* After a change of what links have from the style.
LEMMA RestyledSound ==
  ASSUME NEW s, IsSpline(s), LinksOK(s), AllPosed(s)
  PROVE  /\ IsSpline(Restyled(s)) /\ LinksOK(Restyled(s)) /\ AllPosed(Restyled(s))
         /\ AllLook(Restyled(s)) /\ Len(Restyled(s).links) = Len(s.links)
         /\ Restyled(s).live = s.live /\ Restyled(s).paint = s.paint
         /\ Restyled(s).colors = s.colors /\ Restyled(s).height = s.height
         /\ \A i \in 1..Len(s.links) : Restyled(s).links[i].paint = s.links[i].paint
<1> DEFINE r == Restyled(s)
           n == Len(s.links)
           told == [i \in 1..n |-> [s.links[i] EXCEPT !.look = Look(s)]]
<1>1. DOMAIN s.links = 1..n /\ n \in Nat
  BY DEF LinksOK
<1>2. r = [s EXCEPT !.links = told]
  BY <1>1 DEF Restyled
<1>3. /\ IsSpline(r) /\ r.links = told
      /\ r.live = s.live /\ r.points = s.points /\ r.alpha = s.alpha /\ r.ends = s.ends /\ r.posed = s.posed
      /\ r.poseAll = s.poseAll /\ r.paint = s.paint /\ r.height = s.height
      /\ r.style = s.style /\ r.colors = s.colors
  <2> HIDE DEF told, r
  <2> QED
    BY <1>2 DEF IsSpline
<1> HIDE DEF r
<1>4. Len(r.links) = n
  BY <1>1, <1>3
<1>5. ASSUME NEW i \in 1..n
      PROVE  /\ r.links[i].pose = s.links[i].pose /\ r.links[i].look = Look(s)
             /\ r.links[i].paint = s.links[i].paint
             /\ r.links[i] = [pose |-> r.links[i].pose, paint |-> r.links[i].paint,
                              look |-> r.links[i].look]
  <2> DEFINE l == s.links[i]
             c == Look(s)
  <2>1. l = [pose |-> l.pose, paint |-> l.paint, look |-> l.look]
    BY DEF LinksOK
  <2>2. r.links[i] = [l EXCEPT !.look = c]
    BY <1>3
  <2> HIDE DEF l, c
  <2>3. /\ r.links[i].pose = l.pose /\ r.links[i].look = c /\ r.links[i].paint = l.paint
        /\ r.links[i] = [pose |-> r.links[i].pose, paint |-> r.links[i].paint, look |-> r.links[i].look]
    BY <2>1, <2>2
  <2> QED
    BY <2>3 DEF l, c
<1>6. LinksOK(r)
  BY <1>1, <1>3, <1>4, <1>5 DEF LinksOK
<1>7. AllPosed(r) /\ AllLook(r)
  BY <1>3, <1>4, <1>5 DEF AllPosed, AllLook, Look, Pose, Window
<1> QED
  BY <1>3, <1>4, <1>5, <1>6, <1>7 DEF r

\* What Update() makes of a spline.
Updated(s, knots, all) ==
  [s EXCEPT !.posed = knots, !.poseAll = FALSE,
            !.links = [i \in DOMAIN @ |->
               IF all \/ ChangedKnots(s, knots, i)
               THEN [@[i] EXCEPT !.pose = Pose(s, knots, i)] ELSE @[i]]]

\* Update(): a link whose knots are those that were posed keeps its shape.
LEMMA UpdateSound ==
  ASSUME NEW s, Sound(s), NEW knots, NEW all, s.poseAll => all, all \in BOOLEAN
  PROVE  LET r == Updated(s, knots, all)
         IN  Sound(r) /\ Len(r.links) = Len(s.links) /\ r.live = s.live
<1> DEFINE n == Len(s.links)
           new == [i \in 1..n |-> IF all \/ ChangedKnots(s, knots, i)
                                  THEN [s.links[i] EXCEPT !.pose = Pose(s, knots, i)]
                                  ELSE s.links[i]]
           r == [s EXCEPT !.posed = knots, !.poseAll = FALSE, !.links = new]
<1>1. DOMAIN s.links = 1..n /\ n \in Nat
  BY DEF Sound, LinksOK
<1>2. r = Updated(s, knots, all)
  BY <1>1 DEF Updated
<1>3. /\ IsSpline(r) /\ r.links = new /\ r.live = s.live /\ r.alpha = s.alpha /\ r.ends = s.ends /\ r.posed = knots
      /\ r.paint = s.paint /\ r.height = s.height /\ r.style = s.style /\ r.colors = s.colors
  <2>1. r = [s EXCEPT !.posed = knots, !.poseAll = FALSE, !.links = new]
    OBVIOUS
  <2> HIDE DEF new, r
  <2> QED
    BY <2>1 DEF IsSpline, Sound
<1> HIDE DEF r
<1>4. Len(r.links) = n
  BY <1>1, <1>3
<1>5. ASSUME NEW i \in 1..n
      PROVE  /\ r.links[i].pose = Pose(s, knots, i) /\ r.links[i].look = s.links[i].look
             /\ r.links[i].paint = s.links[i].paint
             /\ r.links[i] = [pose |-> r.links[i].pose, paint |-> r.links[i].paint,
                              look |-> r.links[i].look]
  <2> DEFINE l == s.links[i]
             c == Pose(s, knots, i)
             changed == all \/ ChangedKnots(s, knots, i)
  <2>1. l = [pose |-> l.pose, paint |-> l.paint, look |-> l.look]
    BY DEF Sound, LinksOK
  <2>2. r.links[i] = IF changed THEN [l EXCEPT !.pose = c] ELSE l
    BY <1>3
  <2>3. ~changed => l.pose = c
    BY DEF Sound, AllPosed, ChangedKnots, Pose
  <2> HIDE DEF l, c, changed
  <2>4. /\ r.links[i].pose = c /\ r.links[i].look = l.look /\ r.links[i].paint = l.paint
        /\ r.links[i] = [pose |-> r.links[i].pose, paint |-> r.links[i].paint, look |-> r.links[i].look]
    BY <2>1, <2>2, <2>3
  <2> QED
    BY <2>4 DEF l, c
<1>6. LinksOK(r)
  BY <1>1, <1>3, <1>4, <1>5 DEF LinksOK
<1>7. AllPosed(r) /\ AllLook(r)
  <2>1. Look(r) = Look(s)
    BY <1>3 DEF Look
  <2>2. \A i \in 1..n : s.links[i].look = Look(s)
    BY DEF Sound, AllLook
  <2> QED
    BY <1>3, <1>4, <1>5, <2>1, <2>2 DEF AllPosed, AllLook, Pose, Window
<1>8. \A i : LinkPaint(r, i, n) = LinkPaint(s, i, n)
  BY <1>3 DEF LinkPaint
<1>9. AllPainted(r)
  BY <1>4, <1>5, <1>8 DEF AllPainted, Sound
<1> QED
  BY <1>2, <1>3, <1>4, <1>6, <1>7, <1>9 DEF Sound

\* Colours, the blend and the style, each of which tells every link.
LEMMA RepaintedSound ==
  ASSUME NEW s, Sound(s), NEW tint, NEW colors
  PROVE  LET r == ApplyColors([s EXCEPT !.paint = tint, !.colors = colors])
         IN  Sound(r) /\ Len(r.links) = Len(s.links) /\ r.live = s.live
<1> DEFINE r == [s EXCEPT !.paint = tint, !.colors = colors]
<1>1. /\ IsSpline(r) /\ r.links = s.links /\ r.live = s.live /\ r.alpha = s.alpha /\ r.ends = s.ends
      /\ r.posed = s.posed /\ r.poseAll = s.poseAll /\ r.height = s.height /\ r.style = s.style
  <2>1. r = [s EXCEPT !.paint = tint, !.colors = colors]
    OBVIOUS
  <2> HIDE DEF r
  <2> QED
    BY <2>1 DEF Sound, IsSpline
<1> HIDE DEF r
<1>2. LinksOK(r) /\ AllPosed(r)
  BY <1>1 DEF Sound, LinksOK, AllPosed, Pose, Window
<1>3. AllLook(r)
  BY <1>1 DEF Sound, AllLook, Look
<1> QED
  BY <1>1, <1>2, <1>3, ApplyColorsSound DEF r

LEMMA BlendSound ==
  ASSUME NEW s, Sound(s), NEW height
  PROVE  LET r == Repainted(Restyled([s EXCEPT !.height = height]))
         IN  Sound(r) /\ Len(r.links) = Len(s.links) /\ r.live = s.live
<1> DEFINE r == [s EXCEPT !.height = height]
<1>1. /\ IsSpline(r) /\ r.links = s.links /\ r.live = s.live /\ r.alpha = s.alpha /\ r.ends = s.ends
      /\ r.posed = s.posed /\ r.poseAll = s.poseAll
  BY DEF Sound, IsSpline
<1> HIDE DEF r
<1>2. LinksOK(r) /\ AllPosed(r)
  BY <1>1 DEF Sound, LinksOK, AllPosed, Pose, Window
<1>3. /\ IsSpline(Restyled(r)) /\ LinksOK(Restyled(r)) /\ AllPosed(Restyled(r))
      /\ AllLook(Restyled(r)) /\ Len(Restyled(r).links) = Len(r.links) /\ Restyled(r).live = r.live
  BY <1>1, <1>2, RestyledSound
<1> QED
  BY <1>1, <1>3, ApplyColorsSound DEF r, Repainted

LEMMA StyleSound ==
  ASSUME NEW s, Sound(s), NEW style
  PROVE  LET r == Restyled([s EXCEPT !.style = style])
         IN  Sound(r) /\ Len(r.links) = Len(s.links) /\ r.live = s.live
<1> DEFINE q == [s EXCEPT !.style = style]
           r == Restyled(q)
<1>1. /\ IsSpline(q) /\ q.links = s.links /\ q.live = s.live /\ q.alpha = s.alpha /\ q.ends = s.ends
      /\ q.posed = s.posed /\ q.poseAll = s.poseAll /\ q.height = s.height
      /\ q.paint = s.paint /\ q.colors = s.colors
  BY DEF Sound, IsSpline
<1> HIDE DEF q
<1>2. LinksOK(q) /\ AllPosed(q)
  BY <1>1 DEF Sound, LinksOK, AllPosed, Pose, Window
<1>3. /\ IsSpline(r) /\ LinksOK(r) /\ AllPosed(r) /\ AllLook(r)
      /\ Len(r.links) = Len(s.links) /\ r.live = s.live
      /\ r.paint = s.paint /\ r.colors = s.colors /\ r.height = s.height
      /\ \A i \in 1..Len(s.links) : r.links[i].paint = s.links[i].paint
  BY <1>1, <1>2, RestyledSound
<1> HIDE DEF r
<1>4. \A i : LinkPaint(r, i, Len(r.links)) = LinkPaint(s, i, Len(s.links))
  BY <1>3 DEF LinkPaint
<1>5. AllPainted(r)
  BY <1>3, <1>4 DEF Sound, AllPainted
<1> QED
  BY <1>3, <1>5 DEF Sound, r, q

\* Resize().
LEMMA SizedIs ==
  ASSUME NEW s, IsSpline(s), NEW n \in Nat
  PROVE  /\ IsSpline(Sized(s, n)) /\ Len(Sized(s, n).points) = n /\ Sized(s, n).poseAll = TRUE
         /\ Sized(s, n).links = s.links /\ Sized(s, n).live = s.live
         /\ Sized(s, n).height = s.height /\ Sized(s, n).style = s.style
<1> DEFINE new == [j \in 1..n |-> IF j <= Len(s.points) THEN s.points[j] ELSE Last(s.points)]
           r == Sized(s, n)
<1>1. r = [s EXCEPT !.points = new, !.colors = <<>>, !.poseAll = TRUE]
  BY DEF Sized
<1>2. Len(new) = n
  OBVIOUS
<1> HIDE DEF new, r
<1> SUFFICES /\ IsSpline(r) /\ Len(r.points) = n /\ r.poseAll = TRUE
             /\ r.links = s.links /\ r.live = s.live
             /\ r.height = s.height /\ r.style = s.style
  BY DEF r
<1> QED
  BY <1>1, <1>2 DEF IsSpline

LEMMA GrownSound ==
  ASSUME NEW s, Sound(s), NEW n \in Nat \ {0}
  PROVE  LET r == AddLinks(Sized(s, n)) IN Sound(r) /\ Len(r.links) = n - 1 /\ r.live = s.live
<1> DEFINE q == Sized(s, n)
<1>1. n \in Nat
  OBVIOUS
<1>2. IsSpline(q) /\ Len(q.points) = n /\ q.live = s.live
  BY <1>1, SizedIs DEF Sound
<1> HIDE DEF q
<1>3. Sound(AddLinks(q)) /\ Len(AddLinks(q).links) = n - 1 /\ AddLinks(q).live = s.live
  BY <1>2, AddLinksSound
<1> QED
  BY <1>3 DEF q

LEMMA ShrunkSound ==
  ASSUME NEW s, Sound(s), NEW n \in Nat \ {0}, n - 1 < Len(s.links)
  PROVE  LET r == ApplyColors([Sized(s, n) EXCEPT !.links = SubSeq(@, 1, n - 1)])
         IN  Sound(r) /\ Len(r.links) = n - 1 /\ r.live = s.live
<1> DEFINE q == Sized(s, n)
           left == SubSeq(s.links, 1, n - 1)
           r == [q EXCEPT !.links = left]
<1>1. /\ IsSpline(q) /\ q.poseAll = TRUE /\ q.links = s.links /\ q.live = s.live
      /\ q.height = s.height /\ q.style = s.style
  <2>1. n \in Nat
    OBVIOUS
  <2> QED
    BY <2>1, SizedIs DEF Sound
<1>2. /\ Len(left) = n - 1 /\ left = [i \in 1..n - 1 |-> s.links[i]]
  BY DEF Sound, LinksOK
<1>3. r = [Sized(s, n) EXCEPT !.links = SubSeq(@, 1, n - 1)]
  BY <1>1
<1> HIDE DEF q
<1>4. /\ IsSpline(r) /\ r.poseAll = TRUE /\ r.links = left /\ r.live = s.live
      /\ r.height = s.height /\ r.style = s.style
  <2>1. r = [q EXCEPT !.links = left]
    OBVIOUS
  <2> HIDE DEF r, left
  <2> QED
    BY <1>1, <2>1 DEF IsSpline
<1> HIDE DEF r, left
<1>5. \A i \in 1..n - 1 : i \in 1..Len(s.links)
  BY DEF Sound, LinksOK
<1>6. LinksOK(r)
  <2>1. \A i \in 1..n - 1 : r.links[i] = s.links[i]
    BY <1>2, <1>4
  <2> QED
    BY <1>2, <1>4, <1>5, <2>1 DEF LinksOK, Sound
<1>7. AllPosed(r)
  BY <1>4 DEF AllPosed
<1>8. AllLook(r)
  BY <1>2, <1>4, <1>5 DEF AllLook, Look, Sound
<1> QED
  BY <1>2, <1>3, <1>4, <1>6, <1>7, <1>8, ApplyColorsSound

-------------------------------------------------------------------------------
(* LinksFollow *)

LEMMA PlacedSound ==
  ASSUME SplinesSound, NEW name \in Names, NEW s, Sound(s), splines' = [splines EXCEPT ![name] = s]
  PROVE  SplinesSound'
BY DEF SplinesSound

LEMMA SplineInitSound == SplineInit => SplinesSound
BY NoSplineSound DEF SplineInit, SplinesSound

\* A spline is another one and the renderer has the links it had.
Replaced(name, r) ==
  /\ Sound(r) /\ Len(r.links) = Len(splines[name].links)
  /\ splines' = [splines EXCEPT ![name] = r]
  /\ order' = order

LEMMA EditsAreSound ==
  ASSUME SplinesSound, NEW name \in Names,
         \/ SetKnot(name) \/ SetEnd(name) \/ MirrorEnds(name) \/ SetAlpha(name)
         \/ UpdateSpline(name) \/ Colors(name) \/ PointColors(name)
         \/ HeightRange(name) \/ SetStyle(name)
  PROVE  \E r : Replaced(name, r)
<1> DEFINE s == splines[name]
<1>s. Sound(s)
  BY DEF SplinesSound
<1>1. CASE SetKnot(name) \/ SetEnd(name) \/ MirrorEnds(name) \/ SetAlpha(name)
  <2> DEFINE Edited(r) == \/ \E j, v : r = [s EXCEPT !.points[j] = v]
                          \/ \E v : r = [s EXCEPT !.front = v]
                          \/ \E v : r = [s EXCEPT !.back = v]
                          \/ \E v, w : r = [s EXCEPT !.front = v, !.back = w]
                          \/ \E v : r = [s EXCEPT !.alpha = v, !.poseAll = TRUE]
  <2>1. \E r : Edit(name, r) /\ Edited(r)
    <3>1. CASE SetKnot(name)
      BY <3>1 DEF SetKnot
    <3>2. CASE SetEnd(name)
      BY <3>2 DEF SetEnd
    <3>3. CASE MirrorEnds(name)
      <4> DEFINE n == Len(s.points)
                 v == 2 * s.points[1] - s.points[2]
                 w == 2 * s.points[n] - s.points[n - 1]
      <4>1. Edit(name, [s EXCEPT !.front = v, !.back = w])
        BY <3>3 DEF MirrorEnds
      <4> HIDE DEF n, v, w, s
      <4>2. Edited([s EXCEPT !.front = v, !.back = w])
        BY Zenon
      <4> HIDE DEF Edited
      <4> QED
        BY Zenon, <4>1, <4>2
    <3>4. CASE SetAlpha(name)
      BY <3>4 DEF SetAlpha
    <3> QED
      BY <1>1, <3>1, <3>2, <3>3, <3>4
  <2>2. PICK r : splines' = [splines EXCEPT ![name] = r] /\ order' = order /\ Edited(r)
    BY <2>1 DEF Edit
  <2> HIDE DEF s
  <2>4. IsSpline(s)
    BY <1>s DEF Sound
  <2>5. /\ IsSpline(r) /\ r.links = s.links
        /\ r.poseAll \/ (r.posed = s.posed /\ r.alpha = s.alpha /\ r.ends = s.ends /\ r.poseAll = s.poseAll)
        /\ r.paint = s.paint /\ r.height = s.height /\ r.colors = s.colors /\ r.style = s.style
    BY <2>2, <2>4 DEF IsSpline
  <2>6. Sound(r)
    BY <1>s, <2>5, EditIsSound
  <2> QED
    BY <2>2, <2>5, <2>6 DEF Replaced, s
<1>2. CASE UpdateSpline(name)
  <2> DEFINE knots == Knots(s)
             all == s.poseAll \/ Len(s.posed) # Len(knots)
  <2>1. splines' = [splines EXCEPT ![name] = Updated(s, knots, all)] /\ order' = order
    BY <1>2 DEF UpdateSpline, Edit, Updated
  <2>2. Sound(s) /\ all \in BOOLEAN /\ (s.poseAll => all)
    BY <1>s
  <2> HIDE DEF s, knots, all
  <2>3. Sound(Updated(s, knots, all)) /\ Len(Updated(s, knots, all).links) = Len(s.links)
    BY <2>2, UpdateSound
  <2> QED
    BY <2>1, <2>3 DEF Replaced, s
<1>3. CASE Colors(name) \/ PointColors(name)
  <2>1. PICK tint, colors :
          /\ splines' = [splines EXCEPT ![name] = ApplyColors([s EXCEPT !.paint = tint, !.colors = colors])]
          /\ order' = order
    <3>1. CASE Colors(name)
      BY <3>1 DEF Colors, Edit
    <3>2. CASE PointColors(name)
      <4>1. PICK c : /\ splines' = [splines EXCEPT ![name] = ApplyColors([s EXCEPT !.colors = c])]
                     /\ order' = order
        BY <3>2 DEF PointColors, Edit
      <4>2. IsSpline(s)
        BY <1>s DEF Sound
      <4> HIDE DEF s
      <4>3. [s EXCEPT !.colors = c] = [s EXCEPT !.paint = s.paint, !.colors = c]
        BY <4>2 DEF IsSpline
      <4> QED
        BY <4>1, <4>3
    <3> QED
      BY <1>3, <3>1, <3>2
  <2> DEFINE r == ApplyColors([s EXCEPT !.paint = tint, !.colors = colors])
  <2>2. Sound(r) /\ Len(r.links) = Len(s.links)
    BY <1>s, RepaintedSound
  <2> HIDE DEF r
  <2>3. splines' = [splines EXCEPT ![name] = r] /\ order' = order
    BY <2>1 DEF r
  <2> QED
    BY <2>2, <2>3 DEF Replaced
<1>4. CASE HeightRange(name) \/ SetStyle(name)
  <2>1. /\ \/ splines' = [splines EXCEPT ![name] = Repainted(Restyled([s EXCEPT !.height = ~s.height]))]
           \/ \E v : splines' = [splines EXCEPT ![name] = Restyled([s EXCEPT !.style = v])]
        /\ order' = order
    BY <1>4 DEF HeightRange, SetStyle, Edit
  <2> HIDE DEF s
  <2>2. PICK r : splines' = [splines EXCEPT ![name] = r] /\ Sound(r) /\ Len(r.links) = Len(s.links)
    <3> DEFINE q == Repainted(Restyled([s EXCEPT !.height = ~s.height]))
               t(v) == Restyled([s EXCEPT !.style = v])
    <3>1. Sound(q) /\ Len(q.links) = Len(s.links)
      BY <1>s, BlendSound
    <3>2. \A v : Sound(t(v)) /\ Len(t(v).links) = Len(s.links)
      BY <1>s, StyleSound
    <3> HIDE DEF q, t
    <3>3. splines' = [splines EXCEPT ![name] = q] \/ \E v : splines' = [splines EXCEPT ![name] = t(v)]
      BY <2>1 DEF q, t
    <3> QED
      BY <3>1, <3>2, <3>3
  <2> QED
    BY <2>1, <2>2 DEF Replaced, s
<1> QED
  BY <1>1, <1>2, <1>3, <1>4

\* A spline has n points, and the renderer its links, all of them new.
Relinked(name, r, n) ==
  /\ n \in Nat \ {0} /\ Sound(r) /\ Len(r.links) = n - 1
  /\ splines' = [splines EXCEPT ![name] = r]
  /\ order' = Without(order, name, 1) \o LinksAdded(name, n - 1)

\* A spline loses its last links.
Cut(name, r, n) ==
  /\ n \in Nat \ {0} /\ Sound(r) /\ Len(r.links) = n - 1 /\ n - 1 < Len(splines[name].links)
  /\ splines' = [splines EXCEPT ![name] = r]
  /\ order' = Without(order, name, n)

LEMMA ConstructIsSound ==
  ASSUME SplineAssumption, NEW name \in Names, Construct(name)
  PROVE  \E r, n : Relinked(name, r, n)
<1>1. PICK n \in 2..MaxSize, v \in Values :
        /\ splines' = [splines EXCEPT ![name] =
             AddLinks([NoSpline EXCEPT !.live = TRUE, !.ends = Ends[name], !.points = [j \in 1..n |-> v]])]
        /\ order' = Without(order, name, 1) \o LinksAdded(name, n - 1)
  BY DEF Construct
<1> DEFINE new == [j \in 1..n |-> v]
           s == [NoSpline EXCEPT !.live = TRUE, !.ends = Ends[name], !.points = new]
           r == AddLinks(s)
<1>2. IsSpline(s) /\ s.points = new
  <2>1. s = [NoSpline EXCEPT !.live = TRUE, !.ends = Ends[name], !.points = new]
    OBVIOUS
  <2> HIDE DEF s, new
  <2> QED
    BY <2>1 DEF NoSpline, IsSpline
<1>3. Len(new) = n /\ n \in Nat \ {0}
  BY DEF SplineAssumption
<1> HIDE DEF s
<1>4. splines' = [splines EXCEPT ![name] = r]
  BY <1>1 DEF s
<1> HIDE DEF new
<1>5. Sound(r) /\ Len(r.links) = n - 1
  BY <1>2, <1>3, AddLinksSound
<1> HIDE DEF r
<1> QED
  BY <1>1, <1>3, <1>4, <1>5 DEF Relinked

LEMMA ResizeIsSound ==
  ASSUME SplineAssumption, SplinesSound, NEW name \in Names, Resize(name)
  PROVE  (\E r, n : Relinked(name, r, n)) \/ (\E r, n : Cut(name, r, n))
<1> DEFINE s == splines[name]
<1>s. Sound(s)
  BY DEF SplinesSound
<1>1. PICK n \in 2..MaxSize \ {Len(s.points)} :
        IF n - 1 < Len(s.links)
        THEN /\ splines' = [splines EXCEPT ![name] =
                  ApplyColors([Sized(s, n) EXCEPT !.links = SubSeq(@, 1, n - 1)])]
             /\ order' = Without(order, name, n)
        ELSE /\ splines' = [splines EXCEPT ![name] = AddLinks(Sized(s, n))]
             /\ order' = Without(order, name, 1) \o LinksAdded(name, n - 1)
  BY DEF Resize
<1>2. n \in Nat \ {0}
  BY DEF SplineAssumption
<1>3. CASE n - 1 < Len(s.links)
  <2> DEFINE r == ApplyColors([Sized(s, n) EXCEPT !.links = SubSeq(@, 1, n - 1)])
  <2>1. Sound(r) /\ Len(r.links) = n - 1
    BY <1>s, <1>2, <1>3, ShrunkSound
  <2> HIDE DEF r
  <2>2. splines' = [splines EXCEPT ![name] = r] /\ order' = Without(order, name, n)
    BY <1>1, <1>3 DEF r
  <2> QED
    BY <1>2, <1>3, <2>1, <2>2 DEF Cut
<1>4. CASE ~(n - 1 < Len(s.links))
  <2> DEFINE r == AddLinks(Sized(s, n))
  <2>1. Sound(r) /\ Len(r.links) = n - 1
    BY <1>s, <1>2, GrownSound
  <2> HIDE DEF r
  <2>2. /\ splines' = [splines EXCEPT ![name] = r]
        /\ order' = Without(order, name, 1) \o LinksAdded(name, n - 1)
    BY <1>1, <1>4 DEF r
  <2> QED
    BY <1>2, <2>1, <2>2 DEF Relinked
<1> QED
  BY <1>3, <1>4

LEMMA SplineNextSound ==
  ASSUME SplineAssumption, SplinesSound, [SplineNext]_splineVars
  PROVE  SplinesSound'
<1>s. \A n \in Names : Sound(splines[n])
  BY DEF SplinesSound
<1>1. ASSUME NEW name \in Names, NEW r, \/ Replaced(name, r) \/ \E n : Relinked(name, r, n)
                                      \/ \E n : Cut(name, r, n)
      PROVE  SplinesSound'
  BY <1>1, PlacedSound DEF Replaced, Relinked, Cut
<1>2. ASSUME NEW name \in Names, NEW other \in Names, Move(name, other)
      PROVE  SplinesSound'
  <2> DEFINE s == splines[other]
  <2>1. splines' = [splines EXCEPT ![name] = s, ![other] = NoSpline]
    BY <1>2 DEF Move
  <2>2. Sound(s) /\ Sound(NoSpline)
    BY <1>s, NoSplineSound
  <2> HIDE DEF s
  <2>3. /\ splines' = [n \in Names |-> splines'[n]]
        /\ \A n \in Names : splines'[n] \in {splines[n], s, NoSpline}
    BY <2>1 DEF SplinesSound
  <2> QED
    BY <1>s, <2>2, <2>3 DEF SplinesSound
<1>3. ASSUME NEW name \in Names, Destroy(name)
      PROVE  SplinesSound'
  BY <1>3, NoSplineSound, PlacedSound DEF Destroy
<1>4. ASSUME NEW other \in Others, AddOther(other) \/ RemoveOther(other)
      PROVE  SplinesSound'
  BY <1>4 DEF AddOther, RemoveOther, SplinesSound
<1>5. CASE UNCHANGED splineVars
  BY <1>5 DEF splineVars, SplinesSound
<1> QED
  BY Zenon, <1>1, <1>2, <1>3, <1>4, <1>5, EditsAreSound, ConstructIsSound, ResizeIsSound DEF SplineNext

-------------------------------------------------------------------------------
(* OneStroke *)

IsDrawn(d) ==
  /\ Len(d) \in Nat
  /\ d = [i \in 1..Len(d) |-> d[i]]
  /\ \A i \in 1..Len(d) :
       /\ d[i] = [of |-> d[i].of, link |-> d[i].link, joined |-> d[i].joined]
       /\ d[i].of \in Names \cup Others /\ d[i].link \in Nat \ {0} /\ d[i].joined \in BOOLEAN

\* A link after the first comes right after its predecessor, and only such a one is joined.
InStrokes(d) ==
  \A i \in 1..Len(d) :
    /\ d[i].joined <=> d[i].link > 1
    /\ d[i].link > 1 => i > 1 /\ d[i - 1].of = d[i].of /\ d[i - 1].link = d[i].link - 1

\* Links 1 to c of a spline are drawn, each once.
Draws(d, name, c) ==
  /\ \A i \in 1..Len(d) : d[i].of = name => d[i].link <= c
  /\ \A l \in 1..c : \E i \in 1..Len(d) : d[i].of = name /\ d[i].link = l
  /\ \A i, j \in 1..Len(d) : d[i].of = name /\ d[j].of = name /\ d[i].link = d[j].link => i = j

Ordered(d) == IsDrawn(d) /\ InStrokes(d)

OrderSound == Ordered(order) /\ \A n \in Names : Draws(order, n, Len(splines[n].links))

\* The indices in a set have ranks that count up to its size, in their order.
LEMMA Ranks ==
  ASSUME NEW n \in Nat, NEW S \in SUBSET (1..n)
  PROVE  /\ IsFiniteSet(S) /\ Cardinality(S) \in Nat
         /\ \A i \in S : Cardinality({j \in S : j <= i}) \in 1..Cardinality(S)
         /\ \A i, j \in S : i < j => Cardinality({k \in S : k <= i}) < Cardinality({k \in S : k <= j})
         /\ \A k \in 1..Cardinality(S) : \E i \in S : Cardinality({j \in S : j <= i}) = k
<1> DEFINE upTo(i) == {j \in S : j <= i}
           rank == [i \in S |-> Cardinality(upTo(i))]
<1>1. IsFiniteSet(S) /\ Cardinality(S) \in Nat
  <2>1. IsFiniteSet(1..n)
    BY FS_Interval
  <2> QED
    BY <2>1, FS_Subset, FS_CardinalityType
<1>2. ASSUME NEW i \in S
      PROVE  IsFiniteSet(upTo(i)) /\ Cardinality(upTo(i)) \in 1..Cardinality(S)
  <2>1. IsFiniteSet(upTo(i)) /\ Cardinality(upTo(i)) <= Cardinality(S)
    BY <1>1, FS_Subset
  <2>2. Cardinality(upTo(i)) \in Nat
    BY <2>1, FS_CardinalityType
  <2>3. i \in upTo(i)
    OBVIOUS
  <2>4. Cardinality(upTo(i)) # 0
    BY <2>1, <2>3, FS_EmptySet
  <2> QED
    BY <1>1, <2>1, <2>2, <2>4
<1>3. ASSUME NEW i \in S, NEW j \in S, i < j
      PROVE  Cardinality(upTo(i)) < Cardinality(upTo(j))
  <2>1. upTo(i) \in SUBSET upTo(j) /\ j \in upTo(j) /\ j \notin upTo(i)
    <3>1. i \in Int /\ j \in Int
      OBVIOUS
    <3>2. ASSUME NEW x \in upTo(i)
          PROVE  x \in upTo(j)
      <4>1. x \in Int
        OBVIOUS
      <4> QED
        BY <1>3, <3>1, <4>1
    <3>3. upTo(i) \in SUBSET upTo(j)
      BY <3>2
    <3>4. j \in upTo(j) /\ j \notin upTo(i)
      BY <1>3, <3>1
    <3> QED
      BY <3>3, <3>4
  <2>2. /\ Cardinality(upTo(i)) <= Cardinality(upTo(j))
        /\ Cardinality(upTo(j)) = Cardinality(upTo(i)) => upTo(j) = upTo(i)
    BY <1>2, <2>1, FS_Subset
  <2>3. upTo(i) # upTo(j)
    BY <2>1
  <2> QED
    BY <1>2, <2>2, <2>3
<1>4. \A i, j \in S : Cardinality(upTo(i)) = Cardinality(upTo(j)) => i = j
  BY <1>2, <1>3
<1>5. rank \in Injection(S, 1..Cardinality(S))
  BY <1>2, <1>4 DEF Injection, IsInjective
<1>6. rank \in Surjection(S, 1..Cardinality(S))
  <2>1. IsFiniteSet(1..Cardinality(S)) /\ Cardinality(1..Cardinality(S)) = Cardinality(S)
    BY <1>1, FS_Interval
  <2> QED
    BY <1>1, <1>5, <2>1, FS_Injection
<1> QED
  BY <1>1, <1>2, <1>3, <1>6 DEF Surjection

\* What is left when links are taken out: the others in their order, those right after one that
\* is gone not joined.
Remains(r, d, at, name, from) ==
  LET Gone(i) == d[i].of = name /\ d[i].link >= from
  IN  /\ Len(r) \in Nat /\ r = [k \in 1..Len(r) |-> r[k]]
      /\ at \in [1..Len(r) -> {i \in 1..Len(d) : ~Gone(i)}]
      /\ \A k \in 1..Len(r) :
           r[k] = IF at[k] > 1 /\ Gone(at[k] - 1) THEN [d[at[k]] EXCEPT !.joined = FALSE]
                  ELSE d[at[k]]
      /\ \A k, l \in 1..Len(r) : k < l => at[k] < at[l]
      /\ \A i \in 1..Len(d) : ~Gone(i) => \E k \in 1..Len(r) : at[k] = i

LEMMA WithoutIs ==
  ASSUME NEW d, IsDrawn(d), NEW name, NEW from \in Nat
  PROVE  \E at : Remains(Without(d, name, from), d, at, name, from)
<1> DEFINE n == Len(d)
           Gone(i) == d[i].of = name /\ d[i].link >= from
           S == {i \in 1..n : ~Gone(i)}
           rank(i) == Cardinality({j \in S : j <= i})
           size == Cardinality(S)
           at == [k \in 1..size |-> CHOOSE i \in S : rank(i) = k]
           cut == [i \in 1..n |-> IF i > 1 /\ Gone(i - 1) THEN [d[i] EXCEPT !.joined = FALSE] ELSE d[i]]
           r == [k \in 1..size |-> cut[at[k]]]
<1>0. n \in Nat /\ DOMAIN d = 1..n
  BY DEF IsDrawn
<1>1. /\ size \in Nat /\ \A i \in S : rank(i) \in 1..size
      /\ \A i, j \in S : i < j => rank(i) < rank(j)
      /\ \A k \in 1..size : \E i \in S : rank(i) = k
  <2>1. S \in SUBSET (1..n)
    OBVIOUS
  <2> HIDE DEF S
  <2> QED
    BY <1>0, <2>1, Ranks
<1>2. Without(d, name, from) = r
  <2>1. \A i \in S : {j \in 1..i : ~Gone(j)} = {j \in S : j <= i}
    BY <1>0
  <2>2. S = {i \in DOMAIN d : ~Gone(i)}
    BY <1>0
  <2> DEFINE pick(k) == CHOOSE i \in DOMAIN d : ~Gone(i) /\ Cardinality({j \in 1..i : ~Gone(j)}) = k
             marked == [i \in DOMAIN d |-> IF i > 1 /\ Gone(i - 1) THEN [d[i] EXCEPT !.joined = FALSE]
                                           ELSE d[i]]
  <2>3. ASSUME NEW k \in 1..size
        PROVE  at[k] = pick(k)
    <3>1. \A i : (i \in S /\ rank(i) = k)
                  <=> (i \in DOMAIN d /\ ~Gone(i) /\ Cardinality({j \in 1..i : ~Gone(j)}) = k)
      BY <2>1, <2>2
    <3>2. (CHOOSE i \in S : rank(i) = k) = pick(k)
      BY Zenon, <3>1
    <3> QED
      BY <3>2
  <2>4. Without(d, name, from) = [k \in 1..Cardinality({i \in DOMAIN d : ~Gone(i)}) |-> marked[pick(k)]]
    BY Zenon DEF Without
  <2>5. marked = cut
    BY <1>0
  <2> HIDE DEF pick, marked, cut, at, S, Gone
  <2>6. [k \in 1..size |-> cut[pick(k)]] = [k \in 1..size |-> cut[at[k]]]
    BY <2>3
  <2> QED
    BY <2>2, <2>4, <2>5, <2>6
<1> HIDE DEF rank
<1>3. \A k \in 1..size : at[k] \in S /\ rank(at[k]) = k
  BY <1>1
<1>4. \A i \in S : at[rank(i)] = i
  <2> SUFFICES ASSUME NEW i \in S
               PROVE  at[rank(i)] = i
    OBVIOUS
  <2>1. rank(i) \in 1..size /\ at[rank(i)] \in S /\ rank(at[rank(i)]) = rank(i)
    BY <1>1, <1>3
  <2>2. \A j \in S : j \in Int
    BY <1>0
  <2> HIDE DEF at, S
  <2> QED
    BY <1>1, <2>1, <2>2
<1>5. \A k, l \in 1..size : k < l => at[k] < at[l]
  <2> SUFFICES ASSUME NEW k \in 1..size, NEW l \in 1..size, k < l
               PROVE  at[k] < at[l]
    OBVIOUS
  <2>1. at[k] \in S /\ at[l] \in S /\ rank(at[k]) = k /\ rank(at[l]) = l
    BY <1>3
  <2>2. at[k] \in Int /\ at[l] \in Int
    BY <1>0, <2>1
  <2>3. ~(at[l] < at[k]) /\ at[k] # at[l]
    <3> HIDE DEF at, S
    <3> QED
      BY <1>1, <2>1
  <2> HIDE DEF at
  <2> QED
    BY <2>2, <2>3
<1>6. at \in [1..size -> S]
  BY <1>3
<1>7. Len(r) = size /\ r = [k \in 1..size |-> r[k]]
  BY <1>1
<1>8. \A k \in 1..size :
        r[k] = IF at[k] > 1 /\ Gone(at[k] - 1) THEN [d[at[k]] EXCEPT !.joined = FALSE] ELSE d[at[k]]
  BY <1>3
<1>9. \A i \in 1..n : ~Gone(i) => \E k \in 1..size : at[k] = i
  BY <1>1, <1>4
<1>a. \A i \in 1..n : ~Gone(i) => \E k \in 1..Len(r) : at[k] = i
  BY <1>7, <1>9
<1> HIDE DEF at, r, size
<1>b. Remains(r, d, at, name, from)
  BY <1>1, <1>5, <1>6, <1>7, <1>8, <1>a DEF Remains
<1> QED
  BY <1>2, <1>b

\* A sequence of drawn links that are some of those of another one, in their order.
PartOf(r, d, at) ==
  /\ Len(r) \in Nat /\ r = [k \in 1..Len(r) |-> r[k]]
  /\ at \in [1..Len(r) -> 1..Len(d)]
  /\ \A k \in 1..Len(r) : r[k] = d[at[k]]
  /\ \A k, l \in 1..Len(r) : k < l => at[k] < at[l]

\* In an ordered sequence nothing that is left has to be told that it begins a stroke: what
\* follows a link that is gone is gone with it or begins one already.
LEMMA WithoutIsPart ==
  ASSUME NEW d, Ordered(d), NEW name, NEW from \in Nat
  PROVE  \E at : /\ PartOf(Without(d, name, from), d, at)
                 /\ \A i \in 1..Len(d) :
                      (\E k \in 1..Len(Without(d, name, from)) : at[k] = i)
                        <=> ~(d[i].of = name /\ d[i].link >= from)
<1> DEFINE r == Without(d, name, from)
           Gone(i) == d[i].of = name /\ d[i].link >= from
<1>0. IsDrawn(d)
  BY DEF Ordered
<1>1. PICK at : Remains(r, d, at, name, from)
  BY <1>0, WithoutIs
<1> HIDE DEF r
<1>3. ASSUME NEW k \in 1..Len(r)
      PROVE  r[k] = d[at[k]]
  <2>1. at[k] \in 1..Len(d) /\ ~Gone(at[k])
    BY <1>1 DEF Remains
  <2>2. CASE at[k] > 1 /\ Gone(at[k] - 1)
    <3> DEFINE e == d[at[k]]
               p == d[at[k] - 1]
    <3>1. /\ e = [of |-> e.of, link |-> e.link, joined |-> e.joined]
          /\ e.link \in Nat \ {0} /\ e.joined \in BOOLEAN
          /\ e.joined <=> e.link > 1
          /\ e.link > 1 => p.of = e.of /\ p.link = e.link - 1
      BY <2>1 DEF Ordered, IsDrawn, InStrokes
    <3>2. at[k] - 1 \in 1..Len(d)
      BY <2>1, <2>2 DEF Ordered, IsDrawn
    <3>3. p.link \in Nat
      BY <3>2 DEF Ordered, IsDrawn
    <3>4. p.of = name /\ p.link >= from /\ ~(e.of = name /\ e.link >= from)
      BY <2>1, <2>2
    <3> HIDE DEF e, p
    <3>5. ~(e.link > 1)
      BY <3>1, <3>3, <3>4
    <3>6. [e EXCEPT !.joined = FALSE] = e
      BY <3>1, <3>5
    <3>7. r[k] = [e EXCEPT !.joined = FALSE]
      BY <1>1, <2>2 DEF Remains, e
    <3> QED
      BY <3>6, <3>7 DEF e
  <2>3. CASE ~(at[k] > 1 /\ Gone(at[k] - 1))
    BY <1>1, <2>3 DEF Remains
  <2> QED
    BY <2>2, <2>3
<1>4. PartOf(r, d, at)
  <2>1. at \in [1..Len(r) -> 1..Len(d)]
    BY <1>1 DEF Remains
  <2> QED
    BY <1>1, <1>3, <2>1 DEF PartOf, Remains
<1>5. \A i \in 1..Len(d) : (\E k \in 1..Len(r) : at[k] = i) <=> ~Gone(i)
  BY <1>1 DEF Remains
<1> QED
  BY <1>4, <1>5 DEF r

\* A part that has the predecessor of every link it has.
LEMMA PartOrdered ==
  ASSUME NEW d, Ordered(d), NEW r, NEW at, PartOf(r, d, at),
         \A k \in 1..Len(r) : d[at[k]].link > 1 => \E l \in 1..Len(r) : at[l] = at[k] - 1
  PROVE  Ordered(r)
<1>1. IsDrawn(r)
  BY DEF Ordered, IsDrawn, PartOf
<1>2. ASSUME NEW k \in 1..Len(r)
      PROVE  /\ r[k].joined <=> r[k].link > 1
             /\ r[k].link > 1 => k > 1 /\ r[k - 1].of = r[k].of /\ r[k - 1].link = r[k].link - 1
  <2>1. at[k] \in 1..Len(d) /\ r[k] = d[at[k]]
    BY DEF PartOf
  <2>2. r[k].joined <=> r[k].link > 1
    BY <2>1 DEF Ordered, InStrokes
  <2>3. ASSUME r[k].link > 1
        PROVE  k > 1 /\ r[k - 1].of = r[k].of /\ r[k - 1].link = r[k].link - 1
    <3>1. PICK l \in 1..Len(r) : at[l] = at[k] - 1
      BY <2>1, <2>3
    <3>2. /\ Len(r) \in Nat /\ Len(d) \in Nat
          /\ \A i \in 1..Len(r) : at[i] \in 1..Len(d)
          /\ \A i, j \in 1..Len(r) : i < j => at[i] < at[j]
      BY DEF PartOf, Ordered, IsDrawn
    <3>3. l < k
      BY <3>1, <3>2
    <3>4. l = k - 1
      <4> SUFFICES ASSUME l < k - 1
                   PROVE  FALSE
        BY <3>2, <3>3
      <4>1. k - 1 \in 1..Len(r) /\ l < k - 1 /\ k - 1 < k
        BY <3>2
      <4>2. at[l] < at[k - 1] /\ at[k - 1] < at[k]
        BY <3>2, <4>1
      <4>3. at[l] \in Int /\ at[k - 1] \in Int /\ at[k] \in Int
        BY <3>2, <4>1
      <4> QED
        BY <3>1, <4>2, <4>3
    <3>5. r[l] = d[at[k] - 1]
      BY <3>1 DEF PartOf
    <3>6. d[at[k] - 1].of = d[at[k]].of /\ d[at[k] - 1].link = d[at[k]].link - 1
      BY <2>1, <2>3 DEF Ordered, InStrokes
    <3> QED
      BY <2>1, <3>2, <3>3, <3>4, <3>5, <3>6
  <2> QED
    BY <2>2, <2>3
<1> QED
  BY <1>1, <1>2 DEF Ordered, InStrokes

LEMMA WithoutOrdered ==
  ASSUME NEW d, Ordered(d), NEW name, NEW from \in Nat
  PROVE  Ordered(Without(d, name, from))
<1> DEFINE r == Without(d, name, from)
<1>1. PICK at : /\ PartOf(r, d, at)
                /\ \A i \in 1..Len(d) : (\E k \in 1..Len(r) : at[k] = i)
                                          <=> ~(d[i].of = name /\ d[i].link >= from)
  BY WithoutIsPart
<1> HIDE DEF r
<1>2. ASSUME NEW k \in 1..Len(r), d[at[k]].link > 1
      PROVE  \E l \in 1..Len(r) : at[l] = at[k] - 1
  <2> DEFINE i == at[k]
             j == i - 1
  <2>1. i \in 1..Len(d) /\ Len(d) \in Nat
    BY <1>1 DEF PartOf, Ordered, IsDrawn
  <2>2. i > 1 /\ d[j].of = d[i].of /\ d[j].link = d[i].link - 1 /\ d[i].link \in Nat
    BY <1>2, <2>1 DEF Ordered, InStrokes, IsDrawn
  <2>3. ~(d[i].of = name /\ d[i].link >= from)
    BY <1>1, <2>1
  <2>4. ~(d[j].of = name /\ d[j].link >= from)
    BY <2>2, <2>3
  <2>5. j \in 1..Len(d)
    BY <2>1, <2>2
  <2> HIDE DEF i
  <2> QED
    BY <1>1, <2>4, <2>5 DEF i
<1>3. Ordered(r)
  BY <1>1, <1>2, PartOrdered
<1> QED
  BY <1>3 DEF r

LEMMA WithoutDraws ==
  ASSUME NEW d, Ordered(d), NEW name, NEW from \in Nat, NEW n, NEW c \in Nat, Draws(d, n, c)
  PROVE  /\ n # name => Draws(Without(d, name, from), n, c)
         /\ from \in 1..(c + 1) => Draws(Without(d, n, from), n, from - 1)
<1>1. ASSUME NEW m, NEW b \in Nat,
             \/ m # n /\ b = c
             \/ m = n /\ from \in 1..(c + 1) /\ b = from - 1
      PROVE  Draws(Without(d, m, from), n, b)
  <2> DEFINE r == Without(d, m, from)
  <2>1. PICK at : /\ PartOf(r, d, at)
                  /\ \A i \in 1..Len(d) : (\E k \in 1..Len(r) : at[k] = i)
                                            <=> ~(d[i].of = m /\ d[i].link >= from)
    BY WithoutIsPart
  <2> HIDE DEF r
  <2>2. /\ \A k \in 1..Len(r) : at[k] \in 1..Len(d) /\ r[k] = d[at[k]]
        /\ \A k, l \in 1..Len(r) : at[k] = at[l] => k = l
    <3>1. \A k, l \in 1..Len(r) : k < l => at[k] < at[l]
      BY <2>1 DEF PartOf
    <3>2. \A k \in 1..Len(r) : at[k] \in 1..Len(d) /\ r[k] = d[at[k]]
      BY <2>1 DEF PartOf
    <3>3. \A k \in 1..Len(r) : at[k] \in Int
      BY <3>2
    <3> QED
      BY <3>1, <3>2, <3>3
  <2>3. \A i \in 1..Len(d) : d[i].link \in Nat
    BY DEF Ordered, IsDrawn
  <2>4. ASSUME NEW k \in 1..Len(r), r[k].of = n
        PROVE  r[k].link <= b
    <3>1. at[k] \in 1..Len(d) /\ r[k] = d[at[k]] /\ ~(d[at[k]].of = m /\ d[at[k]].link >= from)
      BY <2>1, <2>2
    <3>2. d[at[k]].link <= c /\ d[at[k]].link \in Nat
      BY <2>3, <2>4, <3>1 DEF Draws
    <3> QED
      BY <1>1, <2>4, <3>1, <3>2
  <2>5. ASSUME NEW l \in 1..b
        PROVE  \E k \in 1..Len(r) : r[k].of = n /\ r[k].link = l
    <3>1. l \in 1..c
      BY <1>1
    <3>2. PICK i \in 1..Len(d) : d[i].of = n /\ d[i].link = l
      BY <3>1 DEF Draws
    <3>3. ~(d[i].of = m /\ d[i].link >= from)
      BY <1>1, <3>1, <3>2
    <3>4. PICK k \in 1..Len(r) : at[k] = i
      BY <2>1, <3>3
    <3> QED
      BY <2>2, <3>2, <3>4
  <2>6. ASSUME NEW k \in 1..Len(r), NEW l \in 1..Len(r), r[k].of = n, r[l].of = n, r[k].link = r[l].link
        PROVE  k = l
    BY <2>2, <2>6 DEF Draws
  <2>7. Draws(r, n, b)
    BY <2>4, <2>5, <2>6 DEF Draws
  <2> QED
    BY <2>7 DEF r
<1> QED
  BY <1>1

\* The links of a curve that has none come last.
LEMMA AddedOrdered ==
  ASSUME NEW w, Ordered(w), NEW name \in Names \cup Others, NEW m \in Nat,
         \A i \in 1..Len(w) : w[i].of # name
  PROVE  /\ Ordered(w \o LinksAdded(name, m))
         /\ Draws(w \o LinksAdded(name, m), name, m)
         /\ \A n, c : n # name /\ Draws(w, n, c) => Draws(w \o LinksAdded(name, m), n, c)
<1> DEFINE size == Len(w)
           link(k) == [of |-> name, link |-> k, joined |-> k > 1]
           r == w \o LinksAdded(name, m)
           R == [i \in 1..(size + m) |-> IF i <= size THEN w[i] ELSE link(i - size)]
<1>1. size \in Nat /\ w = [i \in 1..size |-> w[i]] /\ Ordered(w)
  BY DEF Ordered, IsDrawn
<1>2. r = R
  <2> DEFINE a == LinksAdded(name, m)
  <2>1. a = [i \in 1..m |-> link(i)]
    BY DEF LinksAdded, MergesWithPrevious
  <2> HIDE DEF a, link
  <2>2. Len(a) = m /\ \A i \in 1..m : a[i] = link(i)
    BY <2>1
  <2>3. w \o a = [i \in 1..(size + m) |-> IF i <= size THEN w[i] ELSE a[i - size]]
    <3> DEFINE S == {w[i] : i \in 1..size} \cup {a[i] : i \in 1..m}
    <3>1. w \in Seq(S) /\ a \in Seq(S)
      <4>1. a = [i \in 1..m |-> a[i]]
        BY <2>1
      <4>2. \A i \in 1..size : w[i] \in S
        OBVIOUS
      <4>3. \A i \in 1..m : a[i] \in S
        OBVIOUS
      <4> HIDE DEF S
      <4>4. w \in [1..size -> S]
        BY <1>1, <4>2
      <4>5. a \in [1..m -> S]
        BY <4>1, <4>3
      <4> QED
        BY <1>1, <4>4, <4>5, SeqDef
    <3> HIDE DEF S
    <3>2. /\ w \o a \in Seq(S) /\ Len(w \o a) = size + m
          /\ \A i \in 1..(size + m) : (w \o a)[i] = IF i <= size THEN w[i] ELSE a[i - size]
      BY <2>2, <3>1, ConcatProperties
    <3> DEFINE q == w \o a
    <3> HIDE DEF q
    <3>3. q = [i \in 1..(size + m) |-> q[i]]
      <4>1. q \in Seq(S) /\ Len(q) = size + m
        BY <3>2 DEF q
      <4>2. q \in [1..(size + m) -> S]
        BY <4>1, LenProperties
      <4> QED
        BY <4>2
    <3>4. \A i \in 1..(size + m) : q[i] = IF i <= size THEN w[i] ELSE a[i - size]
      BY <3>2 DEF q
    <3> QED
      BY Zenon, <3>3, <3>4 DEF q
  <2>4. \A i \in 1..(size + m) : (IF i <= size THEN w[i] ELSE a[i - size]) = R[i]
    <3> SUFFICES ASSUME NEW i \in 1..(size + m), ~(i <= size)
                 PROVE  a[i - size] = link(i - size)
      OBVIOUS
    <3>1. i - size \in 1..m
      BY <1>1
    <3> QED
      BY <2>2, <3>1
  <2>5. w \o a = [i \in 1..(size + m) |-> R[i]]
    BY <2>3, <2>4
  <2> QED
    BY <2>5 DEF a
<1> HIDE DEF r
<1>3. /\ Len(r) = size + m /\ r = [i \in 1..Len(r) |-> r[i]]
      /\ \A i \in 1..size : r[i] = w[i]
      /\ \A k \in 1..m : r[size + k] = link(k) /\ size + k \in 1..Len(r)
      /\ \A i \in 1..Len(r) : i \in 1..size \/ i - size \in 1..m
  <2>1. Len(R) = size + m
    BY <1>1
  <2>2. \A k \in 1..m : size + k \in 1..(size + m) /\ ~(size + k <= size) /\ size + k - size = k
    BY <1>1
  <2>3. \A i \in 1..size : i \in 1..(size + m) /\ i <= size
    BY <1>1
  <2>4. \A i \in 1..(size + m) : i \in 1..size \/ i - size \in 1..m
    BY <1>1
  <2> QED
    BY <1>2, <2>1, <2>2, <2>3, <2>4
<1>4. ASSUME NEW i \in 1..Len(r), i \notin 1..size
      PROVE  r[i] = link(i - size) /\ i - size \in 1..m
  <2>1. i - size \in 1..m /\ size + (i - size) = i
    BY <1>1, <1>3, <1>4
  <2> HIDE DEF link
  <2> QED
    BY <1>3, <2>1
<1>k. \A k \in 1..m : /\ link(k).of = name /\ link(k).link = k /\ (link(k).joined <=> k > 1)
                     /\ link(k) = [of |-> link(k).of, link |-> link(k).link, joined |-> link(k).joined]
                     /\ link(k).joined \in BOOLEAN
  <2> SUFFICES ASSUME NEW k \in 1..m
               PROVE  /\ link(k).of = name /\ link(k).link = k /\ (link(k).joined <=> k > 1)
                      /\ link(k) = [of |-> link(k).of, link |-> link(k).link, joined |-> link(k).joined]
                      /\ link(k).joined \in BOOLEAN
    OBVIOUS
  <2>1. CASE k > 1
    <3>1. link(k) = [of |-> name, link |-> k, joined |-> TRUE]
      BY <2>1
    <3> HIDE DEF link
    <3> QED
      BY <2>1, <3>1
  <2>2. CASE ~(k > 1)
    <3>1. (k > 1) = FALSE
      BY <2>2
    <3>2. link(k) = [of |-> name, link |-> k, joined |-> FALSE]
      BY Zenon, <3>1
    <3> HIDE DEF link
    <3> QED
      BY <2>2, <3>2
  <2> QED
    BY <2>1, <2>2
<1> HIDE DEF link
<1>5. IsDrawn(r)
  <2>1. ASSUME NEW i \in 1..Len(r)
        PROVE  /\ r[i] = [of |-> r[i].of, link |-> r[i].link, joined |-> r[i].joined]
               /\ r[i].of \in Names \cup Others /\ r[i].link \in Nat \ {0} /\ r[i].joined \in BOOLEAN
    <3>1. CASE i \in 1..size
      BY <1>1, <1>3, <3>1 DEF Ordered, IsDrawn
    <3>2. CASE i \notin 1..size
      BY <1>k, <1>4, <3>2
    <3> QED
      BY <3>1, <3>2
  <2> QED
    BY <1>1, <1>3, <2>1 DEF IsDrawn
<1>6. InStrokes(r)
  <2> SUFFICES ASSUME NEW i \in 1..Len(r)
               PROVE  /\ r[i].joined <=> r[i].link > 1
                      /\ r[i].link > 1 => i > 1 /\ r[i - 1].of = r[i].of /\ r[i - 1].link = r[i].link - 1
    BY DEF InStrokes
  <2>1. CASE i \in 1..size
    <3>1. /\ w[i].joined <=> w[i].link > 1
          /\ w[i].link > 1 => i > 1 /\ w[i - 1].of = w[i].of /\ w[i - 1].link = w[i].link - 1
      BY <1>1, <2>1 DEF Ordered, InStrokes
    <3>2. i > 1 => i - 1 \in 1..size
      BY <1>1, <2>1
    <3> QED
      BY <1>3, <2>1, <3>1, <3>2
  <2>2. CASE i \notin 1..size
    <3>1. r[i] = link(i - size) /\ i - size \in 1..m
      BY <1>4, <2>2
    <3>2. ASSUME i - size > 1
          PROVE  r[i - 1] = link(i - size - 1) /\ i > 1
      <4>1. i - size - 1 \in 1..m /\ size + (i - size - 1) = i - 1 /\ i > 1
        BY <1>1, <3>1, <3>2
      <4> QED
        BY <1>3, <4>1
    <3>3. r[i].joined <=> r[i].link > 1
      BY Zenon, <1>k, <3>1
    <3>4. /\ r[i].link = i - size /\ r[i].of = name
          /\ i - size > 1 => r[i - 1].of = name /\ r[i - 1].link = i - size - 1
      <4>1. i - size > 1 => i - size - 1 \in 1..m
        BY <3>1
      <4> QED
        BY <1>k, <3>1, <3>2, <4>1
    <3> QED
      BY <3>2, <3>3, <3>4
  <2> QED
    BY <2>1, <2>2
<1>7. Draws(r, name, m)
  <2>1. \A i \in 1..Len(r) : r[i].of = name => r[i].link = i - size /\ i - size \in 1..m
    BY <1>3, <1>4, <1>k
  <2>2. \A k \in 1..m : r[size + k].of = name /\ r[size + k].link = k /\ size + k \in 1..Len(r)
    BY <1>3, <1>k
  <2>3. ASSUME NEW i \in 1..Len(r), NEW j \in 1..Len(r), r[i].of = name, r[j].of = name,
               r[i].link = r[j].link
        PROVE  i = j
    BY <1>1, <1>3, <2>1, <2>3
  <2>4. \A i \in 1..Len(r) : r[i].of = name => r[i].link <= m
    BY <2>1
  <2>5. \A l \in 1..m : \E i \in 1..Len(r) : r[i].of = name /\ r[i].link = l
    BY <2>2
  <2> QED
    BY Zenon, <2>3, <2>4, <2>5 DEF Draws
<1>8. ASSUME NEW n, NEW c, n # name, Draws(w, n, c)
      PROVE  Draws(r, n, c)
  <2>1. \A i \in 1..Len(r) : r[i].of = n => i \in 1..size /\ r[i] = w[i]
    BY <1>3, <1>4, <1>8, <1>k
  <2>2. \A i \in 1..size : i \in 1..Len(r) /\ r[i] = w[i]
    BY <1>1, <1>3
  <2>3. \A i \in 1..Len(r) : r[i].of = n => r[i].link <= c
    BY <1>8, <2>1 DEF Draws
  <2>4. \A l \in 1..c : \E i \in 1..Len(r) : r[i].of = n /\ r[i].link = l
    BY <1>8, <2>2 DEF Draws
  <2>5. \A i, j \in 1..Len(r) : r[i].of = n /\ r[j].of = n /\ r[i].link = r[j].link => i = j
    BY <1>8, <2>1 DEF Draws
  <2> QED
    BY <2>3, <2>4, <2>5 DEF Draws
<1> QED
  BY <1>5, <1>6, <1>7, <1>8 DEF Ordered, r

\* The links of other get another name.
Rename(w, other, name) ==
  [i \in DOMAIN w |-> IF w[i].of = other THEN [w[i] EXCEPT !.of = name] ELSE w[i]]

LEMMA RenamedOrdered ==
  ASSUME NEW w, Ordered(w), NEW name \in Names \cup Others, NEW other, other # name,
         \A i \in 1..Len(w) : w[i].of # name
  PROVE  LET r == Rename(w, other, name)
         IN  /\ Ordered(r)
             /\ \A i \in 1..Len(r) : r[i].of # other
             /\ \A c : Draws(w, other, c) => Draws(r, name, c)
             /\ \A n, c : n \notin {name, other} /\ Draws(w, n, c) => Draws(r, n, c)
<1> DEFINE r == Rename(w, other, name)
           R(i) == IF w[i].of = other THEN [w[i] EXCEPT !.of = name] ELSE w[i]
<1>1. Len(w) \in Nat /\ DOMAIN w = 1..Len(w)
  BY DEF Ordered, IsDrawn
<1>2. r = [i \in 1..Len(w) |-> R(i)]
  BY <1>1 DEF Rename
<1> HIDE DEF r
<1>3. \A i \in 1..Len(w) :
        R(i) = [of |-> IF w[i].of = other THEN name ELSE w[i].of, link |-> w[i].link,
                joined |-> w[i].joined]
  <2> SUFFICES ASSUME NEW e, e = [of |-> e.of, link |-> e.link, joined |-> e.joined]
               PROVE  (IF e.of = other THEN [e EXCEPT !.of = name] ELSE e)
                        = [of |-> IF e.of = other THEN name ELSE e.of, link |-> e.link,
                           joined |-> e.joined]
    BY DEF Ordered, IsDrawn
  <2> QED
    OBVIOUS
<1> HIDE DEF R
<1>4. /\ Len(r) = Len(w) /\ r = [i \in 1..Len(r) |-> r[i]]
      /\ \A i \in 1..Len(w) : r[i] = [of |-> IF w[i].of = other THEN name ELSE w[i].of,
                                      link |-> w[i].link, joined |-> w[i].joined]
  BY <1>1, <1>2, <1>3
<1>5. \A i \in 1..Len(w) : /\ r[i].of = IF w[i].of = other THEN name ELSE w[i].of
                          /\ r[i].link = w[i].link /\ r[i].joined = w[i].joined
                          /\ r[i] = [of |-> r[i].of, link |-> r[i].link, joined |-> r[i].joined]
  BY <1>4
<1>6. IsDrawn(r)
  BY <1>4, <1>5 DEF Ordered, IsDrawn
<1>7. InStrokes(r)
  <2> SUFFICES ASSUME NEW i \in 1..Len(w)
               PROVE  /\ r[i].joined <=> r[i].link > 1
                      /\ r[i].link > 1 => i > 1 /\ r[i - 1].of = r[i].of /\ r[i - 1].link = r[i].link - 1
    BY <1>4 DEF InStrokes
  <2>1. /\ w[i].joined <=> w[i].link > 1
        /\ w[i].link > 1 => i > 1 /\ w[i - 1].of = w[i].of /\ w[i - 1].link = w[i].link - 1
    BY DEF Ordered, InStrokes
  <2>2. i > 1 => i - 1 \in 1..Len(w)
    BY <1>1
  <2> QED
    BY <1>5, <2>1, <2>2
<1>8. \A i \in 1..Len(r) : r[i].of # other
  BY <1>4, <1>5
<1>9. ASSUME NEW n, NEW m, NEW c, Draws(w, n, c),
             \A i \in 1..Len(w) : r[i].of = m <=> w[i].of = n
      PROVE  Draws(r, m, c)
  <2>1. \A i \in 1..Len(w) : (r[i].of = m <=> w[i].of = n) /\ r[i].link = w[i].link
    BY <1>5, <1>9
  <2> QED
    BY <1>4, <1>9, <2>1 DEF Draws
<1>10. ASSUME NEW c, Draws(w, other, c)
       PROVE  Draws(r, name, c)
  BY <1>5, <1>9, <1>10
<1>11. ASSUME NEW n, NEW c, n \notin {name, other}, Draws(w, n, c)
       PROVE  Draws(r, n, c)
  BY <1>5, <1>9, <1>11
<1> QED
  BY <1>6, <1>7, <1>8, <1>10, <1>11 DEF Ordered, r

LEMMA EmptyDraws ==
  ASSUME NEW d, Ordered(d), NEW name
  PROVE  Draws(d, name, 0) <=> \A i \in 1..Len(d) : d[i].of # name
<1>1. \A i \in 1..Len(d) : d[i].link \in Nat \ {0}
  BY DEF Ordered, IsDrawn
<1> QED
  BY <1>1 DEF Draws

\* A spline that is taken out of the renderer, and another whose links are added.
LEMMA RelinkedOrder ==
  ASSUME SplinesSound, OrderSound, NEW name \in Names, NEW r, NEW n, Relinked(name, r, n)
  PROVE  OrderSound'
<1> DEFINE w == Without(order, name, 1)
<1>1. Ordered(order) /\ n - 1 \in Nat /\ Len(r.links) = n - 1
  BY DEF OrderSound, Relinked
<1>2. \A m \in Names : Len(splines[m].links) \in Nat /\ Draws(order, m, Len(splines[m].links))
  BY DEF OrderSound, SplinesSound, Sound, LinksOK
<1>3. Ordered(w)
  BY <1>1, WithoutOrdered
<1>4. Draws(w, name, 0) /\ \A m \in Names \ {name} : Draws(w, m, Len(splines[m].links))
  <2>1. 1 \in 1..(Len(splines[name].links) + 1) /\ 1 - 1 = 0 /\ 1 \in Nat
    BY <1>2
  <2>2. Draws(w, name, 0)
    BY <1>1, <1>2, <2>1, WithoutDraws
  <2>3. \A m \in Names \ {name} : Draws(w, m, Len(splines[m].links))
    BY <1>1, <1>2, <2>1, WithoutDraws
  <2> QED
    BY <2>2, <2>3
<1> HIDE DEF w
<1>5. \A i \in 1..Len(w) : w[i].of # name
  BY <1>3, <1>4, EmptyDraws
<1> DEFINE d == w \o LinksAdded(name, n - 1)
<1>6. /\ Ordered(d) /\ Draws(d, name, n - 1)
      /\ \A m \in Names \ {name} : Draws(d, m, Len(splines[m].links))
  <2>1. /\ Ordered(d) /\ Draws(d, name, n - 1)
        /\ \A m, c : m # name /\ Draws(w, m, c) => Draws(d, m, c)
    BY <1>1, <1>3, <1>5, AddedOrdered
  <2> QED
    BY <1>4, <2>1
<1> HIDE DEF d
<1>7. order' = d /\ splines' = [splines EXCEPT ![name] = r]
  BY DEF Relinked, d, w
<1>8. \A m \in Names : splines'[m] = IF m = name THEN r ELSE splines[m]
  BY <1>7 DEF SplinesSound
<1> QED
  BY <1>1, <1>6, <1>7, <1>8 DEF OrderSound

\* Links that are gone from the end of a spline, and from the renderer.
LEMMA TrimmedOrder ==
  ASSUME SplinesSound, OrderSound, NEW name \in Names, NEW r, NEW n \in Nat \ {0},
         Len(r.links) = n - 1, n - 1 <= Len(splines[name].links),
         splines' = [splines EXCEPT ![name] = r],
         order' = Without(order, name, n)
  PROVE  OrderSound'
<1>1. Ordered(order) /\ \A m \in Names : /\ Len(splines[m].links) \in Nat
                                         /\ Draws(order, m, Len(splines[m].links))
  BY DEF OrderSound, SplinesSound, Sound, LinksOK
<1>2. Ordered(order')
  BY <1>1, WithoutOrdered
<1>3. Draws(order', name, n - 1)
  <2>1. n \in 1..(Len(splines[name].links) + 1)
    BY <1>1
  <2> QED
    BY <1>1, <2>1, WithoutDraws
<1>4. \A m \in Names \ {name} : Draws(order', m, Len(splines[m].links))
  BY <1>1, WithoutDraws
<1>5. \A m \in Names : splines'[m] = IF m = name THEN r ELSE splines[m]
  BY DEF SplinesSound
<1> QED
  BY <1>2, <1>3, <1>4, <1>5 DEF OrderSound

LEMMA MovedOrder ==
  ASSUME SplinesSound, OrderSound, NEW name \in Names, NEW other \in Names, Move(name, other)
  PROVE  OrderSound'
<1> DEFINE w == Without(order, name, 1)
           s == splines[other]
<1>1. Ordered(order) /\ \A m \in Names : /\ Len(splines[m].links) \in Nat
                                         /\ Draws(order, m, Len(splines[m].links))
  BY DEF OrderSound, SplinesSound, Sound, LinksOK
<1>2. name # other /\ order' = Rename(w, other, name)
  BY Zenon DEF Move, Rename
<1>3. Ordered(w)
  BY <1>1, WithoutOrdered
<1>4. Draws(w, name, 0) /\ \A m \in Names \ {name} : Draws(w, m, Len(splines[m].links))
  <2>1. 1 \in 1..(Len(splines[name].links) + 1) /\ 1 - 1 = 0 /\ 1 \in Nat
    BY <1>1
  <2>2. Draws(w, name, 0)
    BY <1>1, <2>1, WithoutDraws
  <2>3. \A m \in Names \ {name} : Draws(w, m, Len(splines[m].links))
    BY <1>1, <2>1, WithoutDraws
  <2> QED
    BY <2>2, <2>3
<1> HIDE DEF w
<1>5. \A i \in 1..Len(w) : w[i].of # name
  BY <1>3, <1>4, EmptyDraws
<1>6. /\ Ordered(order') /\ \A i \in 1..Len(order') : order'[i].of # other
      /\ \A c : Draws(w, other, c) => Draws(order', name, c)
      /\ \A m, c : m \notin {name, other} /\ Draws(w, m, c) => Draws(order', m, c)
  BY Zenon, <1>2, <1>3, <1>5, RenamedOrdered
<1>7. Draws(order', other, 0) /\ Draws(order', name, Len(s.links))
  BY <1>2, <1>4, <1>6, EmptyDraws
<1>8. \A m \in Names \ {name, other} : Draws(order', m, Len(splines[m].links))
  BY <1>4, <1>6
<1> HIDE DEF s
<1>9. \A m \in Names : splines'[m] = IF m = other THEN NoSpline ELSE IF m = name THEN s ELSE splines[m]
  BY <1>2 DEF Move, SplinesSound, s
<1> QED
  BY <1>6, <1>7, <1>8, <1>9, NoSplineSound DEF OrderSound

\* Curves that are no links of splines.
LEMMA OthersOrder ==
  ASSUME SplineAssumption, SplinesSound, OrderSound, NEW other \in Others,
         AddOther(other) \/ RemoveOther(other)
  PROVE  OrderSound'
<1>1. Ordered(order) /\ \A m \in Names : /\ Len(splines[m].links) \in Nat
                                         /\ Draws(order, m, Len(splines[m].links))
                                         /\ m # other
  BY DEF OrderSound, SplinesSound, Sound, LinksOK, SplineAssumption
<1>2. splines' = splines
  BY DEF AddOther, RemoveOther
<1>3. CASE AddOther(other)
  <2> DEFINE d == order \o LinksAdded(other, 1)
  <2>1. /\ \A i \in 1..Len(order) : order[i].of # other
        /\ order' = Append(order, [of |-> other, link |-> 1, joined |-> FALSE])
    BY <1>1, <1>3 DEF AddOther, Ordered, IsDrawn
  <2> DEFINE e == [of |-> other, link |-> 1, joined |-> FALSE]
  <2>2. LinksAdded(other, 1) = <<e>>
    <3>1. \A i \in 1..1 : (i > 1) = FALSE /\ i = 1
      OBVIOUS
    <3>2. LinksAdded(other, 1) = [i \in 1..1 |-> e]
      BY Zenon, <3>1 DEF LinksAdded, MergesWithPrevious
    <3> HIDE DEF e
    <3> QED
      BY <3>2
  <2>3. order' = d
    <3> DEFINE S == {order[i] : i \in 1..Len(order)} \cup {e}
    <3>1. order \in Seq(S) /\ e \in S
      <4>1. /\ order = [i \in 1..Len(order) |-> order[i]] /\ Len(order) \in Nat
            /\ \A i \in 1..Len(order) : order[i] \in S
        BY <1>1 DEF Ordered, IsDrawn
      <4>2. e \in S
        OBVIOUS
      <4> HIDE DEF S, e
      <4>3. order \in [1..Len(order) -> S]
        BY <4>1
      <4> QED
        BY <4>1, <4>2, <4>3, SeqDef
    <3> HIDE DEF S, e
    <3>2. Append(order, e) = order \o <<e>>
      BY <3>1, AppendIsConcat
    <3> QED
      BY <2>1, <2>2, <3>2 DEF e
  <2>4. Ordered(d) /\ \A m, c : m # other /\ Draws(order, m, c) => Draws(d, m, c)
    BY <1>1, <2>1, AddedOrdered
  <2> HIDE DEF d
  <2> QED
    BY <1>1, <1>2, <2>3, <2>4 DEF OrderSound
<1>4. CASE RemoveOther(other)
  <2>1. order' = Without(order, other, 1)
    BY <1>4 DEF RemoveOther
  <2>2. Ordered(order') /\ \A m \in Names : Draws(order', m, Len(splines[m].links))
    BY <1>1, <2>1, WithoutOrdered, WithoutDraws
  <2> QED
    BY <1>2, <2>2 DEF OrderSound
<1> QED
  BY <1>3, <1>4

LEMMA SplineNextOrder ==
  ASSUME SplineAssumption, SplinesSound, OrderSound, [SplineNext]_splineVars
  PROVE  OrderSound'
<1>1. ASSUME NEW name \in Names, NEW r, Replaced(name, r)
      PROVE  OrderSound'
  <2>1. \A m \in Names : splines'[m] = IF m = name THEN r ELSE splines[m]
    BY <1>1 DEF Replaced, SplinesSound
  <2> QED
    BY <1>1, <2>1 DEF Replaced, OrderSound
<1>2. ASSUME NEW name \in Names, NEW r, NEW n, Cut(name, r, n)
      PROVE  OrderSound'
  <2>1. n \in Nat \ {0} /\ n - 1 <= Len(splines[name].links)
    BY <1>2 DEF Cut, SplinesSound, Sound, LinksOK
  <2> QED
    BY <1>2, <2>1, TrimmedOrder DEF Cut
<1>3. ASSUME NEW name \in Names, Destroy(name)
      PROVE  OrderSound'
  <2>1. 1 \in Nat \ {0} /\ 1 - 1 = 0 /\ 1 - 1 <= Len(splines[name].links)
    BY DEF SplinesSound, Sound, LinksOK
  <2>2. splines' = [splines EXCEPT ![name] = NoSpline] /\ order' = Without(order, name, 1)
    BY <1>3 DEF Destroy
  <2> QED
    BY <2>1, <2>2, NoSplineSound, TrimmedOrder
<1>4. CASE UNCHANGED splineVars
  BY <1>4 DEF splineVars, OrderSound
<1> QED
  BY Zenon, <1>1, <1>2, <1>3, <1>4, RelinkedOrder, MovedOrder, OthersOrder, EditsAreSound,
     ConstructIsSound, ResizeIsSound DEF SplineNext

LEMMA SplineInitOrder == SplineInit => OrderSound
<1> SUFFICES ASSUME SplineInit
             PROVE  OrderSound
  OBVIOUS
<1>1. order = <<>> /\ Len(order) = 0
  BY DEF SplineInit
<1>2. \A n \in Names : Len(splines[n].links) = 0
  BY NoSplineSound DEF SplineInit
<1>3. Ordered(order)
  BY <1>1 DEF Ordered, IsDrawn, InStrokes
<1>4. \A n \in Names : Draws(order, n, 0)
  BY <1>1 DEF Draws
<1> QED
  BY <1>2, <1>3, <1>4 DEF OrderSound

LEMMA SoundStrokes ==
  ASSUME SplinesSound, OrderSound, NEW n \in Names
  PROVE  OneStroke(n)
<1> DEFINE c == Len(splines[n].links)
           mine == {i \in DOMAIN order : order[i].of = n}
           links == [i \in mine |-> order[i].link]
<1>1. /\ c \in Nat /\ Draws(order, n, c) /\ Ordered(order)
      /\ DOMAIN order = 1..Len(order) /\ Len(order) \in Nat
      /\ \A i \in 1..Len(order) : order[i].link \in Nat \ {0}
  BY DEF OrderSound, SplinesSound, Sound, LinksOK, Ordered, IsDrawn
<1>2. Cardinality(mine) = c
  <2>1. \A i \in mine : order[i].link \in 1..c
    BY <1>1 DEF Draws
  <2>2. \A l \in 1..c : \E i \in mine : order[i].link = l
    BY <1>1 DEF Draws
  <2>3. \A i, j \in mine : order[i].link = order[j].link => i = j
    BY <1>1 DEF Draws
  <2> HIDE DEF mine, c
  <2>4. links \in Bijection(mine, 1..c)
    BY <2>1, <2>2, <2>3 DEF Bijection, Injection, Surjection, IsInjective
  <2>5. IsFiniteSet(1..c) /\ Cardinality(1..c) = c
    BY <1>1, FS_Interval
  <2>6. mine \in SUBSET (1..Len(order)) /\ IsFiniteSet(1..Len(order))
    BY <1>1, FS_Interval DEF mine
  <2>7. IsFiniteSet(mine)
    BY <2>6, FS_Subset
  <2>8. ExistsBijection(mine, 1..c)
    BY <2>4 DEF ExistsBijection
  <2> QED
    BY <2>5, <2>7, <2>8, FS_Bijection
<1>3. ASSUME NEW i \in mine
      PROVE  /\ order[i].joined <=> order[i].link > 1
             /\ order[i].link > 1 =>
                  i > 1 /\ order[i - 1] = [order[i] EXCEPT !.link = @ - 1,
                                                           !.joined = @ /\ order[i].link > 2]
  <2>1. /\ order[i].joined <=> order[i].link > 1
        /\ order[i].link > 1 => /\ i > 1 /\ order[i - 1].of = order[i].of
                                /\ order[i - 1].link = order[i].link - 1
    BY <1>1 DEF Ordered, InStrokes
  <2>2. ASSUME order[i].link > 1
        PROVE  order[i - 1] = [order[i] EXCEPT !.link = @ - 1, !.joined = @ /\ order[i].link > 2]
    <3> DEFINE e == order[i]
               p == order[i - 1]
    <3>1. i - 1 \in 1..Len(order)
      BY <1>1, <2>1, <2>2
    <3>2. /\ p = [of |-> p.of, link |-> p.link, joined |-> p.joined]
          /\ e = [of |-> e.of, link |-> e.link, joined |-> e.joined]
          /\ p.joined \in BOOLEAN /\ e.joined \in BOOLEAN /\ e.link \in Nat
      BY <1>1, <3>1 DEF Ordered, IsDrawn
    <3>3. (p.joined <=> p.link > 1) /\ p.of = e.of /\ p.link = e.link - 1 /\ e.joined = TRUE
      <4>1. p.joined <=> p.link > 1
        BY <1>1, <3>1 DEF Ordered, InStrokes
      <4> HIDE DEF p
      <4>2. e.joined
        BY <2>1, <2>2
      <4> QED
        BY <2>1, <2>2, <3>2, <4>1, <4>2 DEF p
    <3> HIDE DEF e, p
    <3>4. p.joined = (e.joined /\ e.link > 2)
      <4>1. p.link > 1 <=> e.link > 2
        BY <3>2, <3>3
      <4> QED
        BY Zenon, <3>2, <3>3, <4>1
    <3>5. \A l, j : [e EXCEPT !.link = l, !.joined = j] = [of |-> e.of, link |-> l, joined |-> j]
      <4>1. ASSUME NEW l, NEW j, NEW q, q = [e EXCEPT !.link = l, !.joined = j]
            PROVE  q = [of |-> e.of, link |-> l, joined |-> j]
        BY <3>2, <4>1
      <4> QED
        BY Zenon, <4>1
    <3>6. p = [of |-> e.of, link |-> e.link - 1, joined |-> (e.joined /\ e.link > 2)]
      BY Zenon, <3>2, <3>3, <3>4
    <3> QED
      BY Zenon, <3>5, <3>6 DEF e, p
  <2> QED
    BY <2>1, <2>2
<1> QED
  BY Zenon, <1>2, <1>3 DEF OneStroke

LEMMA SoundFollows == SplinesSound /\ OrderSound => LinksFollow
<1> SUFFICES ASSUME SplinesSound, OrderSound, NEW n \in Names, NEW s, s = splines[n]
             PROVE  /\ OneStroke(n)
                    /\ \A i \in DOMAIN s.links :
                         /\ ~s.poseAll /\ s.posed = Knots(s) => s.links[i].pose = Pose(s, Knots(s), i)
                         /\ s.links[i].paint = LinkPaint(s, i, Len(s.links))
                         /\ s.links[i].look = Look(s)
  BY Zenon DEF LinksFollow
<1>1. Sound(s) /\ DOMAIN s.links = 1..Len(s.links)
  BY DEF SplinesSound, Sound, LinksOK
<1>2. OneStroke(n)
  BY SoundStrokes
<1> QED
  BY <1>1, <1>2 DEF Sound, AllPosed, AllPainted, AllLook

\* Whatever is edited, resized, moved or destroyed, and whatever other curves come and go: after
\* an Update() every link has the shape its knots give it, at any time its style and colours, and
\* a spline is one stroke, its links side by side in the draw order.
THEOREM SplinesFollow ==
  ASSUME SplineAssumption
  PROVE  SplineSpec => []LinksFollow
<1>1. SplineInit => SplinesSound /\ OrderSound
  BY SplineInitSound, SplineInitOrder
<1>2. SplinesSound /\ OrderSound /\ [SplineNext]_splineVars => (SplinesSound /\ OrderSound)'
  BY SplineNextSound, SplineNextOrder
<1>3. SplinesSound /\ OrderSound => LinksFollow
  BY SoundFollows
<1> QED
  BY <1>1, <1>2, <1>3, PTL DEF SplineSpec

===============================================================================
