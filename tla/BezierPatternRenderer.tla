------------------------ MODULE BezierPatternRenderer ------------------------
(***************************************************************************)
(* One backend of the curve renderer between the setters and the screen:    *)
(* BezierRendererBase's dirty bits, capacities and uploads, and what         *)
(* BezierPatternRenderer and its compute shaders make of the uploaded        *)
(* buffers.  Nothing is read back from the GPU: the CPU bounds the number of *)
(* pattern centres, the GPU counts them once and caches the offsets, and     *)
(* every frame places them.                                                 *)
(*                                                                         *)
(* Slots are those of CurveSlots; which backend a curve belongs to and its  *)
(* handle are the business of BezierRenderer, so one handle stands for all.  *)
(* Arc lengths are whole numbers, all of a curve's on its first segment.    *)
(***************************************************************************)
EXTENDS CurveSlots, Integers, FiniteSetsExt

CONSTANTS
  Curves,           \* bound: the curves the program draws, see Curve
  MaxSlots,         \* bound: slots, removed ones included
  MaxPatternCount   \* cap on the pattern bound

Curve == [length : Nat, spacing : Nat, resolution : Nat \ {0, 1}, color : Nat]

ASSUME CurvesAssumption == Curves \subseteq Curve
ASSUME BoundsAssumption == MaxSlots \in Nat /\ MaxPatternCount \in Nat \ {0}
ASSUME OwnerAssumption == Handles # {}

Positions == "Positions"
Colors    == "Colors"
Styles    == "Styles"
Layout    == "Layout"
DirtyAll  == {Positions, Colors, Styles, Layout}

VARIABLES
  renderer  \* see TypeOK

Seqs == INSTANCE SequencesExt

Slot == [owner : Handles \cup {Nobody}, merged : BOOLEAN, length : Nat,
         spacing : Nat, resolution : Nat, color : Nat]

\* An emptied slot: nothing reads the rest of it again.
Emptied == [owner |-> Nobody, merged |-> FALSE, length |-> 0, spacing |-> 0,
            resolution |-> 2, color |-> 0]

\* A buffer that was created and not yet written.
Blank == <<>>

EmptyGpu ==
  [points  |-> Blank,  \* curve_control_points
   colors  |-> Blank,  \* curve_colors
   styles  |-> Blank,  \* curve_styles
   ranges  |-> Blank,  \* curve_indices: first and last sample of every curve
   map     |-> Blank,  \* bezier_data_map: curve and neighbours of every sample
   begins  |-> {},     \* curve_begins: the samples that start a chain
   offsets |-> Blank]  \* pattern_offsets: centres before every curve, and in all

EmptyRenderer ==
  [slots |-> <<>>, removed |-> 0,
   needResize |-> TRUE, needUpload |-> FALSE, uploadParts |-> {},
   totalPoints |-> 0, bound |-> 0, needRecount |-> FALSE,
   pointsAllocated |-> 0, curvesAllocated |-> 0, patternsAllocated |-> 0,
   gpu |-> EmptyGpu]

Init == renderer = EmptyRenderer

Count(r) == Len(r.slots) - r.removed

\* The sum of f over the slots before slot i.
SumBefore(s, i, f(_)) ==
  LET sum[k \in 1 .. i] == IF k = 1 THEN 0 ELSE sum[k - 1] + f(s[k - 1]) IN sum[i]

ResolutionOf(c) == c.resolution

TotalPoints(s) == SumBefore(s, Len(s) + 1, ResolutionOf)

\* First and last sample of slot i; samples count from 0, as on the GPU.
SampleRange(s, i) ==
  LET first == SumBefore(s, i, ResolutionOf)
  IN  [first |-> first, last |-> first + s[i].resolution - 1]

-------------------------------------------------------------------------------
(***************************************************************************)
(* The CPU side of a draw.                                                  *)
(***************************************************************************)

\* 1, doubled while it is smaller than what is required.
NextPowerOfTwo(required) ==
  LET doubled[k \in 0 .. required] ==
        IF k = 0 THEN 1
        ELSE IF doubled[k - 1] < required THEN 2 * doubled[k - 1]
        ELSE doubled[k - 1]
  IN  doubled[required]

\* Mutant: the capacity is rounded down.
FitCapacityRoundedDown(allocated, required) ==
  LET fitted == NextPowerOfTwo(required + 1) \div 2
  IN  IF allocated < fitted \/ fitted <= allocated \div 4 THEN fitted ELSE allocated

\* The next power of two, unless the allocation fits and is less than four times
\* that.
FitCapacity(allocated, required) ==
  LET fitted == NextPowerOfTwo(required)
  IN  IF allocated < fitted \/ fitted <= allocated \div 4 THEN fitted ELSE allocated

\* bezier_data_map: sample j of a curve starts its segment j and says whether the
\* stroke goes on at either end; the last sample starts none.
SampleMap(s) ==
  LET sampleOf(i) ==
        [j \in 1 .. s[i].resolution |->
           [curve |-> i,
            prev  |-> j < s[i].resolution /\ (j > 1 \/ ~IsChainStart(s, i)),
            next  |-> \/ j + 1 < s[i].resolution
                      \/ /\ j + 1 = s[i].resolution
                         /\ i < Len(s)
                         /\ ~IsChainStart(s, i + 1)]]
  IN  Seqs!FlattenSeq([i \in DOMAIN s |-> sampleOf(i)])

ChainBegins(s) ==
  {SampleRange(s, i).first : i \in {k \in DOMAIN s : IsChainStart(s, k)}}

\* UpdatePatternBound.  The control polygon is as long as the arc at least; the
\* bound is tightest when it is no longer.
PatternBound(s) ==
  LET centers(c) ==
        IF c.spacing > 0 THEN c.length \div c.spacing + 1 ELSE 0
      capped(c) ==
        IF centers(c) < MaxPatternCount THEN centers(c) ELSE MaxPatternCount
      total == SumBefore(s, Len(s) + 1, capped)
  IN  IF total < MaxPatternCount THEN total ELSE MaxPatternCount

\* Mutant: new positions leave the cached offsets alone.
UploadCurvesStale(r, parts) ==
  LET s == r.slots
      fresh(part, buffer, new) == IF part \in parts THEN new ELSE buffer
  IN  [r EXCEPT
        !.gpu.points = fresh(Positions, @, [i \in DOMAIN s |-> s[i].length]),
        !.gpu.colors = fresh(Colors, @, [i \in DOMAIN s |-> s[i].color]),
        !.gpu.ranges = fresh(Layout, @, [i \in DOMAIN s |-> SampleRange(s, i)]),
        !.gpu.styles = fresh(Styles, @, [i \in DOMAIN s |-> s[i].spacing]),
        !.bound = IF parts \cap {Positions, Styles} # {} THEN PatternBound(s) ELSE @,
        !.needRecount = @ \/ parts \cap {Styles, Layout} # {}]

\* UploadCurves, with BezierPatternRenderer's.  Nothing to upload to, or no curve,
\* and only the bound and the recount are left.
UploadCurves(r, parts) ==
  LET s == r.slots
      uploads == s # <<>> /\ r.curvesAllocated > 0
      fresh(part, buffer, new) == IF uploads /\ part \in parts THEN new ELSE buffer
  IN  [r EXCEPT
        !.gpu.points = fresh(Positions, @, [i \in DOMAIN s |-> s[i].length]),
        !.gpu.colors = fresh(Colors, @, [i \in DOMAIN s |-> s[i].color]),
        !.gpu.ranges = fresh(Layout, @, [i \in DOMAIN s |-> SampleRange(s, i)]),
        !.gpu.styles = fresh(Styles, @, [i \in DOMAIN s |-> s[i].spacing]),
        !.bound = IF parts \cap {Positions, Styles} # {} THEN PatternBound(s) ELSE @,
        !.needRecount = @ \/ parts \cap {Positions, Styles, Layout} # {}]

\* AllocateBuffers up to its early return: compaction and the sum.
Compacted(r) ==
  LET s == IF r.removed = 0 THEN r.slots ELSE CompactRemoved(r.slots)
  IN  [r EXCEPT !.slots = s, !.removed = 0, !.totalPoints = TotalPoints(s)]

\* The rest of it: a buffer whose capacity changes is created anew, and its
\* content is lost.
AllocateBuffers(r) ==
  LET c == Compacted(r)
      points == FitCapacity(c.pointsAllocated, c.totalPoints)
      curves == FitCapacity(c.curvesAllocated, Len(c.slots))
      grown == [c EXCEPT
        !.pointsAllocated = points,
        !.curvesAllocated = curves,
        !.gpu = IF curves = c.curvesAllocated THEN @
                ELSE [@ EXCEPT !.points = Blank, !.colors = Blank, !.styles = Blank,
                               !.ranges = Blank, !.offsets = Blank]]
      mapped == [grown EXCEPT !.gpu.map = SampleMap(c.slots),
                              !.gpu.begins = ChainBegins(c.slots)]
  IN  IF c.totalPoints < 2 THEN [c EXCEPT !.totalPoints = 0, !.bound = 0]
      ELSE UploadCurves(mapped, DirtyAll)

UpdateBuffers(r) ==
  LET clean(q) == [q EXCEPT !.needUpload = FALSE, !.uploadParts = {}]
  IN  IF r.needResize
        THEN [clean(AllocateBuffers(r)) EXCEPT !.needResize = FALSE]
      ELSE IF r.needUpload
        THEN clean(UploadCurves(r, IF r.uploadParts = {} THEN DirtyAll
                                   ELSE r.uploadParts))
      ELSE r

AllocatePatternBuffer(r) ==
  [r EXCEPT !.patternsAllocated = FitCapacity(@, r.bound)]

-------------------------------------------------------------------------------
(***************************************************************************)
(* The GPU side: functions of the uploaded buffers alone.                   *)
(***************************************************************************)

\* CurveCalcPoints: the chord from sample p to the next one of its own curve.
Chord(gpu, p) ==
  LET curve == gpu.map[p + 1].curve
  IN  IF p = gpu.ranges[curve].first THEN gpu.points[curve] ELSE 0

\* distance_scan: chords summed from the last begin bit, exclusive of p.
Arc(gpu, p) ==
  LET arc[q \in 0 .. p] ==
        IF q = 0 \/ q \in gpu.begins THEN 0 ELSE arc[q - 1] + Chord(gpu, q - 1)
  IN  arc[p]

ArcBegin(gpu, curve) == Arc(gpu, gpu.ranges[curve].first)
ArcEnd(gpu, curve) == Arc(gpu, gpu.ranges[curve].last)

\* CurvePatternIni: centres of the chain's grid up to an arc length, and so those
\* a curve owns.
PatternCount(arc, spacing) ==
  IF arc > 0 /\ spacing > 0 THEN arc \div spacing + 1 ELSE 0

Owned(gpu, curve) ==
  PatternCount(ArcEnd(gpu, curve), gpu.styles[curve]) -
  PatternCount(ArcBegin(gpu, curve), gpu.styles[curve])

\* CountPatternCenters: the offset scan appends the total.
Offsets(gpu) ==
  LET before[k \in 1 .. Len(gpu.ranges) + 1] ==
        IF k = 1 THEN 0 ELSE before[k - 1] + Owned(gpu, k - 1)
  IN  [k \in 1 .. Len(gpu.ranges) + 1 |-> before[k]]

Recount(r) ==
  IF r.needRecount THEN [r EXCEPT !.gpu.offsets = Offsets(r.gpu), !.needRecount = FALSE]
  ELSE r

\* NoLaterCenterInChain: walks over the curves that own no centre.
NoLaterCenterInChain(gpu, curve) ==
  \A next \in curve + 1 .. Len(gpu.ranges) :
    gpu.offsets[next + 1] # gpu.offsets[next] =>
      \E begin \in curve + 1 .. next : gpu.ranges[begin].first \in gpu.begins

\* CurvePatternCalc for one curve: its centres, as far as the buffer goes, with
\* the sign bit on the last centre of its chain.
PlacedCenters(r, curve) ==
  LET gpu == r.gpu
      inBuffer(n) == Min({n, r.patternsAllocated})
      placed == inBuffer(gpu.offsets[curve + 1]) - inBuffer(gpu.offsets[curve])
      base == PatternCount(ArcBegin(gpu, curve), gpu.styles[curve])
      marksLast == /\ gpu.offsets[curve + 1] - gpu.offsets[curve] = placed
                   /\ NoLaterCenterInChain(gpu, curve)
  IN  [k \in 1 .. placed |->
         [curve |-> curve,
          at    |-> (base + k - 1) * gpu.styles[curve],
          last  |-> marksLast /\ k = placed]]

\* RunPatternPass.
Centers(r) ==
  IF r.bound = 0 THEN <<>>
  ELSE Seqs!FlattenSeq([c \in DOMAIN r.gpu.ranges |-> PlacedCenters(r, c)])

\* DotArgs: the instances that the dotted backend, which counts in the same way,
\* draws; the buffer's capacity does not limit them.
InstanceCount(r) == Seqs!Last(r.gpu.offsets)

\* A sample's place on a curve.
Sample(gpu, curve, p) == [curve |-> curve, at |-> p - gpu.ranges[curve].first]

\* Mutant: the neighbour across a joint is the next sample, as on the curve.
BeforeTheJoint(gpu, p) ==
  LET curve == gpu.map[p + 1].curve
  IN  IF ~gpu.map[p + 1].prev THEN Sample(gpu, curve, p + 1)
      ELSE IF p = gpu.ranges[curve].first THEN Sample(gpu, curve - 1, p - 1)
      ELSE Sample(gpu, curve, p - 1)

\* The point before the segment that starts at sample p, which shapes its corner: on
\* the neighbouring curve beyond the two copies of a joint, and the segment's own end
\* where the stroke ends.
Before(gpu, p) ==
  LET curve == gpu.map[p + 1].curve
  IN  IF ~gpu.map[p + 1].prev THEN Sample(gpu, curve, p + 1)
      ELSE IF p = gpu.ranges[curve].first THEN Sample(gpu, curve - 1, p - 2)
      ELSE Sample(gpu, curve, p - 1)

After(gpu, p) ==
  LET curve == gpu.map[p + 1].curve
  IN  IF ~gpu.map[p + 1].next THEN Sample(gpu, curve, p)
      ELSE IF p + 1 = gpu.ranges[curve].last THEN Sample(gpu, curve + 1, p + 3)
      ELSE Sample(gpu, curve, p + 2)

\* The vertex shader drops the segments of a curve without a positive spacing; its samples
\* still shape the joints with its neighbours.
IsCulled(gpu, curve) == ~(gpu.styles[curve] > 0)

\* What the draw call makes of the buffers: a strip segment for every sample that
\* is not the last of its curve and not culled.
Segments(r) ==
  LET gpu == r.gpu
      drawn == {p \in 0 .. r.totalPoints - 1 :
                  /\ p # gpu.ranges[gpu.map[p + 1].curve].last
                  /\ ~IsCulled(gpu, gpu.map[p + 1].curve)}
      segment(p, curve) ==
        [start   |-> Sample(gpu, curve, p),
         length  |-> gpu.points[curve],
         color   |-> gpu.colors[curve],
         spacing |-> gpu.styles[curve],
         before  |-> Before(gpu, p),
         after   |-> After(gpu, p)]
  IN  {segment(p, gpu.map[p + 1].curve) : p \in drawn}

\* Mutant: the bias of a curve forgets the centre at its chain's start.
SlotPastFirst(gpu, curve, arc) ==
  arc \div gpu.styles[curve]
    + gpu.offsets[curve] - ArcBegin(gpu, curve) \div gpu.styles[curve]

\* CurveVs: the slot that the pattern coordinate of an arc length falls into.
SlotAt(gpu, curve, arc) ==
  arc \div gpu.styles[curve]
    + gpu.offsets[curve] - PatternCount(ArcBegin(gpu, curve), gpu.styles[curve])

\* PatternSDF: the two stored centres around a pixel, one and the same at the last of
\* a chain, and, by PatternCenterSpan, the one whose distance from the first is the room
\* of a dash: at the last of a chain the one before it, if that is not the last of another.
CentersAround(centers, gpu, curve, arc) ==
  LET slot == Max({SlotAt(gpu, curve, arc), 0})
      stored(k) == IF k < Len(centers) THEN centers[k + 1]
                   ELSE [curve |-> 0, at |-> 0, last |-> FALSE]
      atLast == stored(slot).last
  IN  <<stored(slot),
        IF atLast THEN stored(slot) ELSE stored(slot + 1),
        IF ~atLast THEN stored(slot + 1)
        ELSE IF slot > 0 /\ ~stored(slot - 1).last THEN stored(slot - 1)
        ELSE stored(slot)>>

\* Slots whose chain starts with a curve of another kind: BezierRenderer::Draw()
\* routes them to another backend first.
Elsewhere(s) == {i \in Live(s) : s[ChainFirst(s, i)].spacing = 0}

RouteAway(r) ==
  LET gone == Elsewhere(r.slots)
  IN  [r EXCEPT !.slots = [i \in DOMAIN @ |-> IF i \in gone THEN Emptied ELSE @[i]],
                !.removed = @ + Cardinality(gone),
                !.needResize = @ \/ gone # {}]

\* Draw, for a backend that has curves; no more of it is left when nothing is
\* there to draw.
PassesRun(r) == IF r.totalPoints < 2 THEN r ELSE Recount(AllocatePatternBuffer(r))

DrawnHere(r) == IF Count(r) = 0 THEN r ELSE PassesRun(UpdateBuffers(r))

Drawn(r) == DrawnHere(RouteAway(r))

-------------------------------------------------------------------------------
(***************************************************************************)
(* The operations.                                                          *)
(***************************************************************************)

Owner == CHOOSE h \in Handles : TRUE

\* BezierRendererBase::Add; a chain that MoveCurve brings in is a series of them.
Add(c, merge) ==
  /\ Len(renderer.slots) < MaxSlots
  /\ merge => renderer.slots # <<>> /\ Seqs!Last(renderer.slots).owner # Nobody
  /\ renderer' =
       [renderer EXCEPT
          !.slots = Append(@, [owner |-> Owner, merged |-> merge, length |-> c.length,
                               spacing |-> c.spacing, resolution |-> c.resolution,
                               color |-> c.color]),
          !.needResize = TRUE]

Remove(i) ==
  renderer' = [renderer EXCEPT !.slots[i] = Emptied, !.removed = @ + 1,
                               !.needResize = TRUE]

Touch(parts) ==
  [renderer EXCEPT !.needUpload = TRUE, !.uploadParts = @ \cup parts]

TouchLayout == [renderer EXCEPT !.needResize = TRUE]

\* A setter of slot i, which stays one of the program's curves.
Set(i, field, v, touched) ==
  LET slot == [renderer.slots[i] EXCEPT ![field] = v]
  IN  /\ \E c \in Curves : \A d \in DOMAIN c : slot[d] = c[d]
      /\ renderer' = [touched EXCEPT !.slots[i] = slot]

\* control_points, in its three forms.
SetLength(i, v) == Set(i, "length", v, Touch({Positions}))

SetColor(i, v) == Set(i, "color", v, Touch({Colors}))

\* Width, caps, join, dash length and spacing alike.
SetSpacing(i, v) == Set(i, "spacing", v, Touch({Styles}))

SetResolution(i, v) == Set(i, "resolution", v, TouchLayout)

SetMerged(i) ==
  renderer' = [TouchLayout EXCEPT !.slots[i].merged = ~@]

Draw == renderer' = Drawn(renderer)

Next ==
  \/ \E c \in Curves, merge \in BOOLEAN : Add(c, merge)
  \/ \E i \in Live(renderer.slots) : Remove(i)
  \/ \E i \in Live(renderer.slots), v \in {c.length : c \in Curves} : SetLength(i, v)
  \/ \E i \in Live(renderer.slots), v \in {c.color : c \in Curves} : SetColor(i, v)
  \/ \E i \in Live(renderer.slots), v \in {c.spacing : c \in Curves} : SetSpacing(i, v)
  \/ \E i \in Live(renderer.slots), v \in {c.resolution : c \in Curves} : SetResolution(i, v)
  \/ \E i \in Live(renderer.slots) : SetMerged(i)
  \/ Draw

Spec == Init /\ [][Next]_renderer

-------------------------------------------------------------------------------
(***************************************************************************)
(* Properties.                                                              *)
(***************************************************************************)

\* Type invariant: counters and capacities are natural, offsets follow curves.
TypeOK ==
  /\ renderer.slots \in Seq(Slot)
  /\ renderer.uploadParts \subseteq DirtyAll
  /\ {renderer.removed, renderer.totalPoints, renderer.bound,
      renderer.pointsAllocated, renderer.curvesAllocated,
      renderer.patternsAllocated} \subseteq Nat
  /\ {renderer.needResize, renderer.needUpload, renderer.needRecount} \subseteq BOOLEAN
  /\ Len(renderer.gpu.offsets) \in {0, Len(renderer.gpu.ranges) + 1}

\* The picture that a sequence of slots without gaps stands for, straight from
\* the curves: chains, the arc lengths along them, and a grid of centres that runs
\* on over the joints of a chain.  A curve whose spacing is not positive draws nothing.
PictureSegments(s) ==
  LET prev(i, j) == IF j > 0 THEN [curve |-> i, at |-> j - 1]
                    ELSE IF ContinuesChain(s, i)
                      THEN [curve |-> i - 1, at |-> s[i - 1].resolution - 2]
                    ELSE [curve |-> i, at |-> j + 1]
      next(i, j) == IF j + 2 < s[i].resolution THEN [curve |-> i, at |-> j + 2]
                    ELSE IF i < Len(s) /\ ContinuesChain(s, i + 1)
                      THEN [curve |-> i + 1, at |-> 1]
                    ELSE [curve |-> i, at |-> j]
  IN  UNION {{[start |-> [curve |-> i, at |-> j], length |-> s[i].length,
               color |-> s[i].color, spacing |-> s[i].spacing,
               before |-> prev(i, j), after |-> next(i, j)]
              : j \in 0 .. s[i].resolution - 2} : i \in {k \in DOMAIN s : s[k].spacing > 0}}

PictureCenters(s) ==
  LET begin(i) == MapThenSumSet(LAMBDA k : s[k].length, ChainFirst(s, i) .. i - 1)
      grid(i) ==
        {m \in 0 .. begin(i) + s[i].length :
           /\ s[i].spacing > 0
           /\ m * s[i].spacing <= begin(i) + s[i].length
           /\ m * s[i].spacing > begin(i) \/ (begin(i) = 0 /\ m = 0 /\ s[i].length > 0)}
      empty(i) == grid(i) = {}
      lastOf(i, m) ==
        /\ \A n \in grid(i) : n <= m
        /\ \A k \in i + 1 .. Len(s) : ChainFirst(s, k) = ChainFirst(s, i) => empty(k)
      centers(i) ==
        LET ordered == Seqs!SetToSortSeq(grid(i), <)
        IN  [k \in DOMAIN ordered |->
               [curve |-> i, at |-> ordered[k] * s[i].spacing,
                last  |-> lastOf(i, ordered[k])]]
  IN  Seqs!FlattenSeq([i \in DOMAIN s |-> centers(i)])

Visible(r) == Count(r) > 0 /\ r.totalPoints >= 2

SegmentsShown(r) == Visible(r) => Segments(r) = PictureSegments(r.slots)

\* Whatever setters ran since the last upload, a draw shows every segment of every
\* curve that has a spacing, and none of one that has not, also in the midst of a stroke,
\* with its own position, colour and style, and both segments at a joint shape
\* it from the same points: no setter forgets a dirty bit, and no compaction or
\* reallocation leaves one buffer behind another.
DrawsEverySegment == SegmentsShown(Drawn(renderer))

CentersShown(r, placed, picture) ==
  Visible(r) => placed = SubSeq(picture, 1, Min({Len(picture), r.patternsAllocated}))

ChainLength(s, i) == MapThenSumSet(LAMBDA k : s[k].length, ChainFirst(s, i) .. i - 1)

UniformChain(s, i) ==
  \A k \in DOMAIN s :
    ChainFirst(s, k) = ChainFirst(s, i) => s[k].spacing = s[i].spacing /\ s[k].spacing > 0

AroundInChain(chain, arc) ==
  LET k == Cardinality({j \in DOMAIN chain : chain[j].at <= arc})
  IN  <<chain[k], chain[Min({k + 1, Len(chain)})],
        IF k < Len(chain) THEN chain[k + 1] ELSE chain[Max({k - 1, 1})]>>

AroundInPicture(picture, s, i, arc) ==
  AroundInChain(Seqs!SelectSeq(picture, LAMBDA c : ChainFirst(s, c.curve) = ChainFirst(s, i)), arc)

CentersFound(r, s, placed, picture) ==
  Visible(r) /\ Len(picture) <= r.patternsAllocated =>
    \A i \in {k \in DOMAIN s : s[k].length > 0 /\ UniformChain(s, k)} :
      \A arc \in ChainLength(s, i) .. ChainLength(s, i) + s[i].length :
        CentersAround(placed, r.gpu, i, arc) = AroundInPicture(picture, s, i, arc)

PlacedLikeThePicture(r, placed, picture) ==
  CentersShown(r, placed, picture) /\ CentersFound(r, r.slots, placed, picture)

\* The centres a draw places are those of the picture, as far as the capped buffer
\* goes, with the sign bit on exactly the last centre of every chain: the count
\* cached by an earlier frame is never stale, and the centres of a stroke run on
\* over merged curves, also those too short to own one.  And a pixel compares its
\* arc length with the centres of its own chain, the last one before it and the
\* next, and its dash takes its room from two of them: the slot is computed from the
\* curve's share of the chain alone, and no bound is passed down but the sign bit.  "Spacing is uniform along a chain", says
\* CurveVs; Add and the setters do not see to it.
PlacesEveryCenter ==
  LET r == Drawn(renderer)
  IN  PlacedLikeThePicture(r, Centers(r), PictureCenters(r.slots))

CountFits(r) ==
  Visible(r) => InstanceCount(r) <= r.patternsAllocated \/ r.bound = MaxPatternCount

\* No write leaves its buffer.  Uploads copy whole vectors and do not check: what was
\* uploaded last fits the capacity it was uploaded to.  And the CPU bound, taken from
\* control polygons, is never below what the GPU counts, unless the cap cut it: the
\* centres of a draw fit a buffer "sized from the CPU bound, never from a GPU result".
BuffersSuffice ==
  /\ Len(renderer.gpu.map) <= renderer.pointsAllocated
  /\ Len(renderer.gpu.points) <= renderer.curvesAllocated
  /\ Len(renderer.gpu.ranges) <= renderer.curvesAllocated
  /\ Len(renderer.gpu.offsets) <= renderer.curvesAllocated + 1
  /\ CountFits(Drawn(renderer))

===============================================================================
