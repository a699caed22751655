------------------------------ MODULE Gpu_proofs ------------------------------
(***************************************************************************)
(* Proofs about what the GPU does with the work it is given: Profiler,      *)
(* whatever the GPU does and however long it takes, accumulates one frame;  *)
(* the scans of DrawScans have no two threads at one cell between two       *)
(* barriers; and the cache of TextureBindings finds what is bound.          *)
(***************************************************************************)
EXTENDS Profiler, TextureBindings, DrawScans, WellFoundedInduction, SequenceTheorems, TLAPS

Timer == [open : BOOLEAN, recorded : BOOLEAN, start : BOOLEAN, stop : BOOLEAN]

Frame == [pending : BOOLEAN, disjoint : BOOLEAN, timers : [Metrics -> Timer]]

Issue == [slot : Ring, metric : Metrics, end : {"start", "stop"}, now : BOOLEAN]
           \union [slot : Ring, metric : {""}, end : {"disjoint"}, now : BOOLEAN]

ProfilerTypeOK ==
  /\ slots \in [Ring -> Frame]
  /\ current \in Ring /\ frameOpen \in BOOLEAN /\ enabled \in BOOLEAN
  /\ known \subseteq Metrics /\ cpuOpen \subseteq Metrics
  /\ issued \in Seq(Issue)
  /\ samples \in [Metrics -> BOOLEAN]

\* The query at p in the queue of the GPU is for this timestamp of a slot.
Asks(p, i, m, e) == issued[p].slot = i /\ issued[p].metric = m /\ issued[p].end = e

\* The answer that comes last is of the frame that the slot holds.
Renewed(i, m, e) ==
  \A p \in DOMAIN issued : Asks(p, i, m, e) /\ ~issued[p].now =>
    \E r \in DOMAIN issued : p < r /\ Asks(r, i, m, e) /\ issued[r].now

Sound(flag, i, m, e) == Renewed(i, m, e) /\ (Outstanding(i, m, e) \/ flag)

\* What collect() waits for is of the slot's frame once it has come.
DisjointSound(i) == slots[i].pending => Sound(slots[i].disjoint, i, "", "disjoint")

StartSound(i, m) ==
  slots[i].timers[m].open \/ slots[i].timers[m].recorded =>
    Sound(slots[i].timers[m].start, i, m, "start")

StopSound(i, m) ==
  slots[i].timers[m].recorded => Sound(slots[i].timers[m].stop, i, m, "stop")

SlotsSound ==
  /\ \A i \in Ring : DisjointSound(i)
  /\ \A i \in Ring, m \in Metrics : StartSound(i, m) /\ StopSound(i, m)

ProfilerInv == ProfilerTypeOK /\ SlotsSound /\ SamplesOfOneFrame

-------------------------------------------------------------------------------
(* The slots that one begin_frame collects *)

LEMMA LeastElement ==
  ASSUME NEW S \in SUBSET Nat, S # {}
  PROVE  \E x \in S : \A y \in S : x <= y
<1>1. PICK x \in S : \A y \in S : <<y, x>> \notin OpToRel(<, Nat)
  BY NatLessThanWellFounded, WFMin
<1>2. \A y \in S : ~(y < x)
  BY <1>1 DEF OpToRel
<1> QED
  BY <1>2

\* Of the slots that hold a metric, the one collected last exists.
LEMMA NewestIsRecorded ==
  ASSUME ProfilerTypeOK, NEW m \in Metrics, NEW ring \in SUBSET Ring, Sampled(m, ring)
  PROVE  Newest(m, ring) \in ring /\ slots[Newest(m, ring)].timers[m].recorded
<1> DEFINE Holding == {s \in ring : slots[s].timers[m].recorded}
           Age(s) == (s - current - 1) % Latency
           Ages == {Latency - Age(s) : s \in Holding}
<1>1. \A s \in Holding : Age(s) \in 0 .. Latency - 1
  BY ProfilerAssumption DEF ProfilerTypeOK, Ring
<1>2. Holding # {}
  BY DEF Sampled
<1> HIDE DEF Age
<1>3. Ages \in SUBSET Nat /\ Ages # {}
  BY <1>1, <1>2, ProfilerAssumption
<1>4. PICK a \in Ages : \A b \in Ages : a <= b
  BY <1>3, LeastElement
<1>5. PICK s \in Holding : a = Latency - Age(s)
  BY <1>4
<1>6. ASSUME NEW o \in Holding
      PROVE  Age(o) <= Age(s)
  <2>1. Latency - Age(s) <= Latency - Age(o)
    BY <1>4, <1>5
  <2>2. Age(s) \in Int /\ Age(o) \in Int /\ Latency \in Int
    BY <1>1, ProfilerAssumption
  <2> QED
    BY <2>1, <2>2
<1>7. \A o \in ring : slots[o].timers[m].recorded => Age(o) <= Age(s)
  BY <1>6
<1> USE DEF Age
<1> QED
  BY <1>5, <1>7 DEF Newest

\* What is collected waits for nothing any more.
LEMMA CollectedIsReady ==
  ASSUME ProfilerTypeOK, NEW s \in Collected
  PROVE  s \in Ring /\ slots[s].pending /\ Ready(s)
<1> DEFINE order == [i \in Visits |-> (current + i) % Latency]
           Stops(i) == slots[order[i]].pending /\ ~Ready(order[i])
<1>1. PICK i \in Visits : /\ s = order[i]
                          /\ slots[order[i]].pending
                          /\ \A j \in 1 .. i : ~Stops(j)
  BY DEF Collected
<1>2. i \in 1 .. i /\ order[i] \in Ring
  BY ProfilerAssumption DEF Visits, Ring, ProfilerTypeOK
<1>3. ~Stops(i)
  BY <1>1, <1>2
<1> QED
  BY <1>1, <1>2, <1>3

-------------------------------------------------------------------------------
(* The queue of the GPU *)

LEMMA IssuedTyped ==
  ASSUME ProfilerTypeOK
  PROVE  /\ DOMAIN issued = 1 .. Len(issued) /\ Len(issued) \in Nat
         /\ \A p \in DOMAIN issued : issued[p] \in Issue
BY DEF ProfilerTypeOK

\* A new query of the slot's frame is the last word on its timestamp.
LEMMA AskedAgain ==
  ASSUME ProfilerTypeOK, NEW i, NEW m, NEW e, issued' = Append(issued, Query(i, m, e))
  PROVE  Renewed(i, m, e)' /\ Outstanding(i, m, e)'
<1> DEFINE n == Len(issued) + 1
<1>1. DOMAIN issued' = 1 .. n /\ n \in DOMAIN issued' /\ n \in Nat
  BY DEF ProfilerTypeOK
<1>2. issued'[n] = Query(i, m, e)
  BY DEF ProfilerTypeOK
<1>3. issued'[n].slot = i /\ issued'[n].metric = m /\ issued'[n].end = e /\ issued'[n].now
  BY <1>2 DEF Query
<1> HIDE DEF n
<1>4. \A p \in DOMAIN issued' : p < n \/ p = n
  BY <1>1
<1>5. Renewed(i, m, e)'
  BY <1>1, <1>3, <1>4 DEF Renewed, Asks
<1> QED
  BY <1>1, <1>3, <1>5 DEF Outstanding

\* It says nothing of any other.
LEMMA AskedOther ==
  ASSUME ProfilerTypeOK, NEW i, NEW m, NEW e, NEW j, NEW l, NEW d,
         issued' = Append(issued, Query(j, l, d)), i # j \/ m # l \/ e # d
  PROVE  /\ Renewed(i, m, e) => Renewed(i, m, e)'
         /\ Outstanding(i, m, e) => Outstanding(i, m, e)'
<1> DEFINE n == Len(issued) + 1
<1>1. /\ DOMAIN issued = 1 .. Len(issued) /\ DOMAIN issued' = 1 .. n /\ Len(issued) \in Nat
      /\ issued'[n] = Query(j, l, d)
      /\ \A p \in DOMAIN issued : issued'[p] = issued[p]
  BY DEF ProfilerTypeOK
<1>2. ~(issued'[n].slot = i /\ issued'[n].metric = m /\ issued'[n].end = e)
  BY <1>1 DEF Query
<1>3. DOMAIN issued \subseteq DOMAIN issued' /\ \A p \in DOMAIN issued' : p \in DOMAIN issued \/ p = n
  BY <1>1
<1> HIDE DEF n
<1>4. ASSUME Renewed(i, m, e), NEW p \in DOMAIN issued', Asks(p, i, m, e)', ~issued'[p].now
      PROVE  \E r \in DOMAIN issued' : p < r /\ Asks(r, i, m, e)' /\ issued'[r].now
  <2>1. p \in DOMAIN issued /\ Asks(p, i, m, e) /\ ~issued[p].now
    BY <1>1, <1>2, <1>3, <1>4 DEF Asks
  <2>2. PICK r \in DOMAIN issued : p < r /\ Asks(r, i, m, e) /\ issued[r].now
    BY <1>4, <2>1 DEF Renewed
  <2> QED
    BY <1>1, <1>3, <2>2 DEF Asks
<1> QED
  BY <1>1, <1>3, <1>4 DEF Outstanding, Renewed

LEMMA TailOfIssued ==
  ASSUME ProfilerTypeOK, issued # <<>>, issued' = Tail(issued)
  PROVE  /\ 1 \in DOMAIN issued /\ Head(issued) = issued[1]
         /\ \A p \in DOMAIN issued' : p \in Nat /\ p + 1 \in DOMAIN issued /\ issued'[p] = issued[p + 1]
         /\ \A p \in DOMAIN issued : p # 1 => p - 1 \in DOMAIN issued' /\ issued'[p - 1] = issued[p]
BY DEF ProfilerTypeOK

\* An answer to the timestamp: that of the slot's frame, or another one comes after it.
LEMMA AnsweredIt ==
  ASSUME ProfilerTypeOK, issued # <<>>, issued' = Tail(issued),
         NEW i, NEW m, NEW e, Asks(1, i, m, e), Renewed(i, m, e)
  PROVE  Renewed(i, m, e)' /\ (Outstanding(i, m, e)' \/ Head(issued).now)
<1>1. /\ 1 \in DOMAIN issued /\ Head(issued) = issued[1] /\ DOMAIN issued \subseteq Nat
      /\ \A p \in DOMAIN issued' : p \in Nat /\ p + 1 \in DOMAIN issued /\ issued'[p] = issued[p + 1]
      /\ \A p \in DOMAIN issued : p # 1 => p - 1 \in DOMAIN issued' /\ issued'[p - 1] = issued[p]
  BY TailOfIssued, IssuedTyped
<1>2. ASSUME NEW p \in DOMAIN issued', Asks(p, i, m, e)', ~issued'[p].now
      PROVE  \E r \in DOMAIN issued' : p < r /\ Asks(r, i, m, e)' /\ issued'[r].now
  <2>1. Asks(p + 1, i, m, e) /\ ~issued[p + 1].now /\ p + 1 \in DOMAIN issued
    BY <1>1, <1>2 DEF Asks
  <2>2. PICK r \in DOMAIN issued : p + 1 < r /\ Asks(r, i, m, e) /\ issued[r].now
    BY <2>1 DEF Renewed
  <2>3. r - 1 \in DOMAIN issued' /\ issued'[r - 1] = issued[r] /\ p < r - 1
    BY <1>1, <2>2
  <2> QED
    BY <2>2, <2>3 DEF Asks
<1>3. ASSUME ~Head(issued).now
      PROVE  Outstanding(i, m, e)'
  <2>1. PICK r \in DOMAIN issued : 1 < r /\ Asks(r, i, m, e)
    BY <1>1, <1>3 DEF Renewed
  <2>2. r - 1 \in DOMAIN issued' /\ issued'[r - 1] = issued[r]
    BY <1>1, <2>1
  <2> QED
    BY <2>1, <2>2 DEF Outstanding, Asks
<1> QED
  BY <1>2, <1>3 DEF Renewed

LEMMA AnsweredOther ==
  ASSUME ProfilerTypeOK, issued # <<>>, issued' = Tail(issued),
         NEW i, NEW m, NEW e, ~Asks(1, i, m, e)
  PROVE  /\ Renewed(i, m, e) => Renewed(i, m, e)'
         /\ Outstanding(i, m, e) => Outstanding(i, m, e)'
<1>1. /\ 1 \in DOMAIN issued /\ DOMAIN issued \subseteq Nat
      /\ \A p \in DOMAIN issued' : p \in Nat /\ p + 1 \in DOMAIN issued /\ issued'[p] = issued[p + 1]
      /\ \A p \in DOMAIN issued : p # 1 => p - 1 \in DOMAIN issued' /\ issued'[p - 1] = issued[p]
  BY TailOfIssued, IssuedTyped
<1>2. ASSUME Renewed(i, m, e), NEW p \in DOMAIN issued', Asks(p, i, m, e)', ~issued'[p].now
      PROVE  \E r \in DOMAIN issued' : p < r /\ Asks(r, i, m, e)' /\ issued'[r].now
  <2>1. Asks(p + 1, i, m, e) /\ ~issued[p + 1].now /\ p + 1 \in DOMAIN issued
    BY <1>1, <1>2 DEF Asks
  <2>2. PICK r \in DOMAIN issued : p + 1 < r /\ Asks(r, i, m, e) /\ issued[r].now
    BY <1>2, <2>1 DEF Renewed
  <2>3. r - 1 \in DOMAIN issued' /\ issued'[r - 1] = issued[r] /\ p < r - 1
    BY <1>1, <2>2
  <2> QED
    BY <2>2, <2>3 DEF Asks
<1>3. ASSUME Outstanding(i, m, e)
      PROVE  Outstanding(i, m, e)'
  <2>1. PICK r \in DOMAIN issued : Asks(r, i, m, e)
    BY <1>3 DEF Outstanding, Asks
  <2>2. r - 1 \in DOMAIN issued' /\ issued'[r - 1] = issued[r]
    BY <1>1, <2>1
  <2> QED
    BY <2>1, <2>2 DEF Outstanding, Asks
<1> QED
  BY <1>2, <1>3 DEF Renewed

\* The slot that begins a frame leaves what the others wait for alone.
LEMMA MarkedOther ==
  ASSUME NEW c, NEW i, NEW m, NEW e, i # c,
         issued' = [k \in DOMAIN issued |->
                      IF issued[k].slot = c THEN [issued[k] EXCEPT !.now = FALSE] ELSE issued[k]]
  PROVE  /\ Renewed(i, m, e) => Renewed(i, m, e)'
         /\ Outstanding(i, m, e) => Outstanding(i, m, e)'
<1>1. /\ DOMAIN issued' = DOMAIN issued
      /\ \A k \in DOMAIN issued : issued[k].slot # c => issued'[k] = issued[k]
      /\ \A k \in DOMAIN issued : issued[k].slot = c =>
           issued'[k] = [issued[k] EXCEPT !.now = FALSE]
  OBVIOUS
<1> QED
  BY <1>1 DEF Renewed, Asks, Outstanding

-------------------------------------------------------------------------------
(* Types *)

LEMMA InitTyped == ProfilerInit => ProfilerTypeOK
<1> SUFFICES ASSUME ProfilerInit
             PROVE  ProfilerTypeOK
  OBVIOUS
<1> USE DEF ProfilerInit, FreshProfiler
<1>1. slots \in [Ring -> Frame]
  <2>1. NoFrame \in Frame
    BY DEF NoFrame, Frame, Timer, NoTimer
  <2> QED
    BY <2>1
<1>2. current \in Ring
  BY ProfilerAssumption DEF Ring
<1>3. issued \in Seq(Issue) /\ samples \in [Metrics -> BOOLEAN]
  OBVIOUS
<1> QED
  BY <1>1, <1>2, <1>3 DEF ProfilerTypeOK

LEMMA QueryTyped ==
  ASSUME NEW i \in Ring
  PROVE  /\ Query(i, "", "disjoint") \in Issue
         /\ \A m \in Metrics : Query(i, m, "start") \in Issue /\ Query(i, m, "stop") \in Issue
BY DEF Query, Issue

\* A timer of a slot that is set.
LEMMA TimerTyped ==
  ASSUME ProfilerTypeOK, NEW i \in Ring, NEW m \in Metrics, NEW t \in Timer
  PROVE  [slots EXCEPT ![i].timers[m] = t] \in [Ring -> Frame]
<1>1. slots[i] \in Frame
  BY DEF ProfilerTypeOK
<1>2. [slots[i] EXCEPT !.timers[m] = t] \in Frame
  BY <1>1 DEF Frame
<1> QED
  BY <1>2 DEF ProfilerTypeOK

LEMMA TimerOf ==
  ASSUME ProfilerTypeOK, NEW i \in Ring, NEW m \in Metrics
  PROVE  slots[i] \in Frame /\ slots[i].timers \in [Metrics -> Timer] /\ slots[i].timers[m] \in Timer
BY DEF ProfilerTypeOK, Frame

LEMMA EndFrameTyped == ProfilerTypeOK /\ EndFrame => ProfilerTypeOK'
<1> SUFFICES ASSUME ProfilerTypeOK, EndFrame
             PROVE  ProfilerTypeOK'
  OBVIOUS
<1>1. slots' \in [Ring -> Frame]
  BY DEF Ended, Frame, ProfilerTypeOK, EndFrame
<1>2. issued' \in Seq(Issue)
  <2>1. Query(current, "", "disjoint") \in Issue
    BY QueryTyped DEF ProfilerTypeOK
  <2>2. issued \in Seq(Issue) /\ issued' = Append(issued, Query(current, "", "disjoint"))
    BY DEF ProfilerTypeOK, EndFrame
  <2> QED
    BY <2>1, <2>2, AppendProperties
<1>3. current' \in Ring
  <2>1. current \in Ring /\ current' = (current + 1) % Latency
    BY DEF ProfilerTypeOK, EndFrame
  <2> QED
    BY <2>1, ProfilerAssumption DEF Ring
<1> QED
  BY <1>1, <1>2, <1>3 DEF ProfilerTypeOK, EndFrame

LEMMA BeginGpuTyped ==
  ASSUME NEW m \in Metrics
  PROVE  ProfilerTypeOK /\ BeginGpu(m) => ProfilerTypeOK'
<1> SUFFICES ASSUME ProfilerTypeOK, BeginGpu(m)
             PROVE  ProfilerTypeOK'
  OBVIOUS
<1> DEFINE t == [slots[current].timers[m] EXCEPT !.open = TRUE, !.recorded = FALSE]
<1>1. slots' \in [Ring -> Frame] /\ issued' \in Seq(Issue)
  <2>1. CASE ~Timed
    BY <2>1, Zenon DEF ProfilerTypeOK, BeginGpu
  <2>2. CASE Timed
    <3>1. slots' = [slots EXCEPT ![current].timers[m] = t]
      BY <2>2, Zenon DEF BeginGpu
    <3>2. issued' = Append(issued, Query(current, m, "start")) /\ Query(current, m, "start") \in Issue
      BY <2>2, QueryTyped DEF BeginGpu, ProfilerTypeOK
    <3>3. current \in Ring /\ slots[current].timers[m] \in Timer
      BY TimerOf DEF ProfilerTypeOK
    <3>4. t \in Timer
      BY <3>3 DEF Timer
    <3> HIDE DEF t
    <3>5. slots' \in [Ring -> Frame]
      BY <3>1, <3>3, <3>4, TimerTyped
    <3> QED
      BY <3>2, <3>5 DEF ProfilerTypeOK
  <2> QED
    BY <2>1, <2>2
<1>2. known' \subseteq Metrics
  BY DEF Known, BeginGpu, ProfilerTypeOK
<1> QED
  BY <1>1, <1>2 DEF BeginGpu, ProfilerTypeOK

LEMMA EndGpuTyped ==
  ASSUME NEW m \in Metrics
  PROVE  ProfilerTypeOK /\ EndGpu(m) => ProfilerTypeOK'
<1> SUFFICES ASSUME ProfilerTypeOK, EndGpu(m)
             PROVE  ProfilerTypeOK'
  OBVIOUS
<1> DEFINE t == [slots[current].timers[m] EXCEPT !.open = FALSE, !.recorded = TRUE]
<1>1. slots' \in [Ring -> Frame] /\ issued' \in Seq(Issue)
  <2>1. CASE ~Timed \/ ~slots[current].timers[m].open
    BY <2>1, Zenon DEF ProfilerTypeOK, EndGpu
  <2>2. CASE ~(~Timed \/ ~slots[current].timers[m].open)
    <3>1. issued' = Append(issued, Query(current, m, "stop"))
      BY <2>2, Zenon DEF EndGpu
    <3>2. slots' = [slots EXCEPT ![current].timers[m] = t]
      BY <2>2, Zenon DEF EndGpu
    <3>3. current \in Ring /\ slots[current].timers[m] \in Timer
      BY TimerOf DEF ProfilerTypeOK
    <3>4. t \in Timer
      BY <3>3 DEF Timer
    <3> HIDE DEF t
    <3>5. slots' \in [Ring -> Frame]
      BY <3>2, <3>3, <3>4, TimerTyped
    <3>6. Query(current, m, "stop") \in Issue
      BY <3>3, QueryTyped
    <3> QED
      BY <3>1, <3>5, <3>6 DEF ProfilerTypeOK
  <2> QED
    BY <2>1, <2>2
<1> USE DEF ProfilerTypeOK, EndGpu
<1>2. known' \subseteq Metrics
  BY DEF Known
<1> QED
  BY <1>1, <1>2

LEMMA AnswerTyped == ProfilerTypeOK /\ Answer => ProfilerTypeOK'
<1> SUFFICES ASSUME ProfilerTypeOK, Answer
             PROVE  ProfilerTypeOK'
  OBVIOUS
<1> DEFINE q == Head(issued)
<1>1. q \in Issue /\ issued' \in Seq(Issue)
  BY DEF ProfilerTypeOK, Answer
<1>2. slots' \in [Ring -> Frame]
  <2>1. CASE q.end = "disjoint"
    <3>1. slots' = [slots EXCEPT ![q.slot].disjoint = q.now]
      BY <2>1 DEF Answer
    <3>2. q.slot \in Ring /\ q.now \in BOOLEAN
      BY <1>1 DEF Issue
    <3> QED
      BY <3>1, <3>2 DEF ProfilerTypeOK, Frame
  <2>2. CASE q.end \in {"start", "stop"}
    <3>1. q.slot \in Ring /\ q.metric \in Metrics /\ q.now \in BOOLEAN
      BY <1>1, <2>2 DEF Issue
    <3>2. slots[q.slot].timers[q.metric] \in Timer
      BY <3>1, TimerOf
    <3> DEFINE first == [slots[q.slot].timers[q.metric] EXCEPT !.start = q.now]
               second == [slots[q.slot].timers[q.metric] EXCEPT !.stop = q.now]
    <3>3. first \in Timer /\ second \in Timer
      BY <3>1, <3>2 DEF Timer
    <3>4. \/ slots' = [slots EXCEPT ![q.slot].timers[q.metric] = first]
          \/ slots' = [slots EXCEPT ![q.slot].timers[q.metric] = second]
      BY <2>2, <3>1, TimerOf DEF Answer, ProfilerTypeOK, Frame, Timer
    <3> HIDE DEF q, first, second
    <3> QED
      BY <3>1, <3>3, <3>4, TimerTyped
  <2> QED
    <3>1. q.end \in {"start", "stop", "disjoint"}
      BY <1>1 DEF Issue
    <3> HIDE DEF q
    <3> QED
      BY <3>1, <2>1, <2>2
<1> QED
  BY <1>1, <1>2 DEF ProfilerTypeOK, Answer

LEMMA FreedTyped ==
  ASSUME ProfilerTypeOK, NEW i \in Ring
  PROVE  Freed(slots[i]) \in Frame
<1> DEFINE T == [m \in Metrics |-> [slots[i].timers[m] EXCEPT !.recorded = FALSE]]
<1>1. \A m \in Metrics : [slots[i].timers[m] EXCEPT !.recorded = FALSE] \in Timer
  BY TimerOf DEF Timer
<1>2. T \in [Metrics -> Timer]
  BY <1>1
<1>3. slots[i] \in Frame
  BY DEF ProfilerTypeOK
<1> HIDE DEF T
<1>4. [slots[i] EXCEPT !.pending = FALSE, !.timers = T] \in Frame
  BY <1>2, <1>3 DEF Frame
<1> QED
  BY <1>4 DEF Freed, T

LEMMA BeginFrameTyped == ProfilerTypeOK /\ BeginFrame => ProfilerTypeOK'
<1> SUFFICES ASSUME ProfilerTypeOK, BeginFrame, enabled
             PROVE  ProfilerTypeOK'
  BY DEF BeginFrame, ProfilerTypeOK
<1> DEFINE ring == Collected
           begins == Begins(ring)
<1>1. slots' \in [Ring -> Frame]
  <2>1. slots' = [i \in Ring |->
               IF i = current /\ begins THEN NoFrame
               ELSE IF i \in ring THEN Freed(slots[i]) ELSE slots[i]]
    BY DEF BeginFrame
  <2>2. NoFrame \in Frame
    BY DEF NoFrame, Frame, Timer, NoTimer
  <2> HIDE DEF ring, begins
  <2>3. \A i \in Ring : slots'[i] \in Frame
    BY <2>1, <2>2, FreedTyped DEF ProfilerTypeOK
  <2> QED
    BY <2>1, <2>3
<1> USE DEF ProfilerTypeOK
<1>2. issued' \in Seq(Issue)
  <2>1. issued' = [k \in DOMAIN issued |->
               IF begins /\ issued[k].slot = current
               THEN [issued[k] EXCEPT !.now = FALSE] ELSE issued[k]]
    BY DEF BeginFrame
  <2>2. \A k \in DOMAIN issued : issued[k] \in Issue
    BY IssuedTyped
  <2>3. \A k \in DOMAIN issued : issued'[k] \in Issue
    <3>1. \A q \in Issue : [q EXCEPT !.now = FALSE] \in Issue
      BY DEF Issue
    <3> HIDE DEF begins
    <3> QED
      BY <2>1, <2>2, <3>1
  <2> QED
    BY <2>1, <2>3
<1>3. samples' \in [Metrics -> BOOLEAN]
  BY DEF BeginFrame, Accumulate
<1>4. frameOpen' \in BOOLEAN
  BY DEF BeginFrame, Begins
<1> QED
  BY <1>1, <1>2, <1>3, <1>4 DEF BeginFrame

-------------------------------------------------------------------------------
(* What the slots wait for *)

LEMMA EndFrameSound == ProfilerTypeOK /\ SlotsSound /\ EndFrame => SlotsSound'
<1> SUFFICES ASSUME ProfilerTypeOK, SlotsSound, EndFrame
             PROVE  SlotsSound'
  OBVIOUS
<1>1. issued' = Append(issued, Query(current, "", "disjoint"))
  BY DEF EndFrame
<1>2. ASSUME NEW i \in Ring
      PROVE  /\ slots'[i].disjoint = slots[i].disjoint
             /\ slots'[i].timers = slots[i].timers
             /\ i # current => slots'[i].pending = slots[i].pending
  BY <1>2 DEF EndFrame, Ended, ProfilerTypeOK, Frame
<1>3. ASSUME NEW i \in Ring
      PROVE  DisjointSound(i)'
  <2>1. CASE i = current
    <3>1. Renewed(i, "", "disjoint")' /\ Outstanding(i, "", "disjoint")'
      BY <1>1, <2>1, AskedAgain
    <3> QED
      BY <3>1 DEF DisjointSound, Sound
  <2>2. CASE i # current
    <3>1. /\ Renewed(i, "", "disjoint") => Renewed(i, "", "disjoint")'
          /\ Outstanding(i, "", "disjoint") => Outstanding(i, "", "disjoint")'
      BY <1>1, <2>2, AskedOther
    <3>2. DisjointSound(i)
      BY DEF SlotsSound
    <3> QED
      BY <1>2, <2>2, <3>1, <3>2, Zenon DEF DisjointSound, Sound
  <2> QED
    BY <2>1, <2>2
<1>4. ASSUME NEW i \in Ring, NEW m \in Metrics
      PROVE  StartSound(i, m)' /\ StopSound(i, m)'
  <2>1. /\ Renewed(i, m, "start") => Renewed(i, m, "start")'
        /\ Outstanding(i, m, "start") => Outstanding(i, m, "start")'
    BY <1>1, AskedOther
  <2>2. /\ Renewed(i, m, "stop") => Renewed(i, m, "stop")'
        /\ Outstanding(i, m, "stop") => Outstanding(i, m, "stop")'
    BY <1>1, AskedOther
  <2>3. StartSound(i, m) /\ StopSound(i, m)
    BY DEF SlotsSound
  <2> QED
    BY <1>2, <2>1, <2>2, <2>3, Zenon DEF StartSound, StopSound, Sound
<1> QED
  BY <1>3, <1>4 DEF SlotsSound

LEMMA BeginGpuSound ==
  ASSUME NEW l \in Metrics
  PROVE  ProfilerTypeOK /\ SlotsSound /\ BeginGpu(l) /\ Timed => SlotsSound'
<1> SUFFICES ASSUME ProfilerTypeOK, SlotsSound, BeginGpu(l), Timed
             PROVE  SlotsSound'
  OBVIOUS
<1>1. /\ issued' = Append(issued, Query(current, l, "start"))
      /\ slots' = [slots EXCEPT ![current].timers[l] = [@ EXCEPT !.open = TRUE, !.recorded = FALSE]]
  BY DEF BeginGpu
<1>2. ASSUME NEW i \in Ring
      PROVE  /\ slots'[i].disjoint = slots[i].disjoint
             /\ slots'[i].pending = slots[i].pending
  BY <1>1, <1>2 DEF ProfilerTypeOK, Frame
<1>3. ASSUME NEW i \in Ring, NEW m \in Metrics
      PROVE  /\ i # current \/ m # l => slots'[i].timers[m] = slots[i].timers[m]
             /\ i = current /\ m = l => ~slots'[i].timers[m].recorded
  <2>1. slots[i] \in Frame /\ slots[i].timers[m] \in Timer /\ slots[i].timers \in [Metrics -> Timer]
    BY TimerOf
  <2> QED
    BY <1>1, <2>1 DEF ProfilerTypeOK, Frame, Timer
<1>4. ASSUME NEW i \in Ring
      PROVE  DisjointSound(i)'
  <2>1. /\ Renewed(i, "", "disjoint") => Renewed(i, "", "disjoint")'
        /\ Outstanding(i, "", "disjoint") => Outstanding(i, "", "disjoint")'
    BY <1>1, AskedOther
  <2>2. DisjointSound(i)
    BY DEF SlotsSound
  <2> QED
    BY <1>2, <2>1, <2>2, Zenon DEF DisjointSound, Sound
<1>5. ASSUME NEW i \in Ring, NEW m \in Metrics
      PROVE  StopSound(i, m)'
  <2>1. /\ Renewed(i, m, "stop") => Renewed(i, m, "stop")'
        /\ Outstanding(i, m, "stop") => Outstanding(i, m, "stop")'
    BY <1>1, AskedOther
  <2>2. StopSound(i, m)
    BY DEF SlotsSound
  <2> QED
    BY <1>3, <2>1, <2>2, Zenon DEF StopSound, Sound
<1>6. ASSUME NEW i \in Ring, NEW m \in Metrics
      PROVE  StartSound(i, m)'
  <2>1. CASE i = current /\ m = l
    <3>1. Renewed(i, m, "start")' /\ Outstanding(i, m, "start")'
      BY <1>1, <2>1, AskedAgain
    <3> QED
      BY <3>1 DEF StartSound, Sound
  <2>2. CASE i # current \/ m # l
    <3>1. /\ Renewed(i, m, "start") => Renewed(i, m, "start")'
          /\ Outstanding(i, m, "start") => Outstanding(i, m, "start")'
      BY <1>1, <2>2, AskedOther
    <3>2. StartSound(i, m)
      BY DEF SlotsSound
    <3> QED
      BY <1>3, <2>2, <3>1, <3>2, Zenon DEF StartSound, Sound
  <2> QED
    BY <2>1, <2>2
<1> QED
  BY <1>4, <1>5, <1>6 DEF SlotsSound

LEMMA EndGpuSound ==
  ASSUME NEW l \in Metrics
  PROVE  ProfilerTypeOK /\ SlotsSound /\ EndGpu(l) /\ Timed /\ slots[current].timers[l].open
           => SlotsSound'
<1> SUFFICES ASSUME ProfilerTypeOK, SlotsSound, EndGpu(l), Timed, slots[current].timers[l].open
             PROVE  SlotsSound'
  OBVIOUS
<1>1. /\ issued' = Append(issued, Query(current, l, "stop"))
      /\ slots' = [slots EXCEPT ![current].timers[l] = [@ EXCEPT !.open = FALSE, !.recorded = TRUE]]
  BY Zenon DEF EndGpu
<1>2. ASSUME NEW i \in Ring
      PROVE  /\ slots'[i].disjoint = slots[i].disjoint
             /\ slots'[i].pending = slots[i].pending
  BY <1>1, <1>2 DEF ProfilerTypeOK, Frame
<1>3. ASSUME NEW i \in Ring, NEW m \in Metrics
      PROVE  /\ i # current \/ m # l => slots'[i].timers[m] = slots[i].timers[m]
             /\ slots'[i].timers[m].start = slots[i].timers[m].start
  <2>1. slots[i] \in Frame /\ slots[i].timers[m] \in Timer /\ slots[i].timers \in [Metrics -> Timer]
    BY TimerOf
  <2> QED
    BY <1>1, <2>1 DEF ProfilerTypeOK, Frame, Timer
<1>4. ASSUME NEW i \in Ring
      PROVE  DisjointSound(i)'
  <2>1. /\ Renewed(i, "", "disjoint") => Renewed(i, "", "disjoint")'
        /\ Outstanding(i, "", "disjoint") => Outstanding(i, "", "disjoint")'
    BY <1>1, AskedOther
  <2>2. DisjointSound(i)
    BY DEF SlotsSound
  <2> QED
    BY <1>2, <2>1, <2>2, Zenon DEF DisjointSound, Sound
<1>5. ASSUME NEW i \in Ring, NEW m \in Metrics
      PROVE  StartSound(i, m)'
  <2>1. /\ Renewed(i, m, "start") => Renewed(i, m, "start")'
        /\ Outstanding(i, m, "start") => Outstanding(i, m, "start")'
    BY <1>1, AskedOther
  <2>2. StartSound(i, m)
    BY DEF SlotsSound
  <2>3. CASE i = current /\ m = l
    BY <1>3, <2>1, <2>2, <2>3, Zenon DEF StartSound, Sound
  <2>4. CASE i # current \/ m # l
    BY <1>3, <2>1, <2>2, <2>4, Zenon DEF StartSound, Sound
  <2> QED
    BY <2>3, <2>4
<1>6. ASSUME NEW i \in Ring, NEW m \in Metrics
      PROVE  StopSound(i, m)'
  <2>1. CASE i = current /\ m = l
    <3>1. Renewed(i, m, "stop")' /\ Outstanding(i, m, "stop")'
      BY <1>1, <2>1, AskedAgain
    <3> QED
      BY <3>1 DEF StopSound, Sound
  <2>2. CASE i # current \/ m # l
    <3>1. /\ Renewed(i, m, "stop") => Renewed(i, m, "stop")'
          /\ Outstanding(i, m, "stop") => Outstanding(i, m, "stop")'
      BY <1>1, <2>2, AskedOther
    <3>2. StopSound(i, m)
      BY DEF SlotsSound
    <3> QED
      BY <1>3, <2>2, <3>1, <3>2, Zenon DEF StopSound, Sound
  <2> QED
    BY <2>1, <2>2
<1> QED
  BY <1>4, <1>5, <1>6 DEF SlotsSound

\* The answer goes to the timestamp that was asked for.
LEMMA AnswerSets ==
  ASSUME ProfilerTypeOK, Answer, NEW i \in Ring
  PROVE  /\ slots'[i].pending = slots[i].pending
         /\ Asks(1, i, "", "disjoint") => slots'[i].disjoint = Head(issued).now
         /\ ~Asks(1, i, "", "disjoint") => slots'[i].disjoint = slots[i].disjoint
<1> DEFINE q == Head(issued)
<1>1. q \in Issue /\ q = issued[1]
  BY DEF ProfilerTypeOK, Answer
<1>2. CASE q.end = "disjoint"
  <2>1. slots' = [slots EXCEPT ![q.slot].disjoint = q.now]
    BY <1>2 DEF Answer
  <2>2. q.slot \in Ring /\ q.metric = ""
    BY <1>1, <1>2 DEF Issue
  <2>3. Asks(1, i, "", "disjoint") <=> i = q.slot
    BY <1>1, <1>2, <2>2 DEF Asks
  <2> HIDE DEF q
  <2>4. slots[i] \in Frame
    BY DEF ProfilerTypeOK
  <2>5. slots'[i].pending = slots[i].pending
    BY <2>1, <2>4 DEF ProfilerTypeOK, Frame
  <2>6. CASE i = q.slot
    <3>1. slots'[i] = [slots[i] EXCEPT !.disjoint = q.now]
      BY <2>1, <2>6 DEF ProfilerTypeOK
    <3>2. slots'[i].disjoint = q.now
      BY <2>4, <3>1 DEF Frame
    <3> QED
      BY <2>3, <2>5, <2>6, <3>2 DEF q
  <2>7. CASE i # q.slot
    <3>1. slots'[i] = slots[i]
      BY <2>1, <2>7 DEF ProfilerTypeOK
    <3> QED
      BY <2>3, <2>7, <3>1, Zenon
  <2> QED
    BY <2>6, <2>7
<1>3. CASE q.end \in {"start", "stop"}
  <2>1. \/ slots' = [slots EXCEPT ![q.slot].timers[q.metric].start = q.now]
        \/ slots' = [slots EXCEPT ![q.slot].timers[q.metric].stop = q.now]
    BY <1>3 DEF Answer
  <2>2. ~Asks(1, i, "", "disjoint")
    BY <1>1, <1>3 DEF Asks
  <2>3. q.slot \in Ring /\ slots[i] \in Frame
    BY <1>1, <1>3 DEF Issue, ProfilerTypeOK
  <2> HIDE DEF q
  <2>4. slots'[i].pending = slots[i].pending /\ slots'[i].disjoint = slots[i].disjoint
    <3>1. CASE i = q.slot
      <4>1. \/ slots'[i] = [slots[i] EXCEPT !.timers[q.metric].start = q.now]
            \/ slots'[i] = [slots[i] EXCEPT !.timers[q.metric].stop = q.now]
        BY <2>1, <3>1 DEF ProfilerTypeOK
      <4> QED
        BY <2>3, <4>1 DEF Frame
    <3>2. CASE i # q.slot
      BY <2>1, <3>2 DEF ProfilerTypeOK
    <3> QED
      BY <3>1, <3>2
  <2> QED
    BY <2>2, <2>4, Zenon
<1> QED
  BY <1>1, <1>2, <1>3 DEF Issue

LEMMA AnswerSetsTimer ==
  ASSUME ProfilerTypeOK, Answer, NEW i \in Ring, NEW m \in Metrics
  PROVE  /\ slots'[i].timers[m].open = slots[i].timers[m].open
         /\ slots'[i].timers[m].recorded = slots[i].timers[m].recorded
         /\ Asks(1, i, m, "start") => slots'[i].timers[m].start = Head(issued).now
         /\ ~Asks(1, i, m, "start") => slots'[i].timers[m].start = slots[i].timers[m].start
         /\ Asks(1, i, m, "stop") => slots'[i].timers[m].stop = Head(issued).now
         /\ ~Asks(1, i, m, "stop") => slots'[i].timers[m].stop = slots[i].timers[m].stop
<1> DEFINE q == Head(issued)
<1>1. q \in Issue /\ q = issued[1]
  BY SMTT(30) DEF ProfilerTypeOK, Answer
<1>2. slots[i] \in Frame /\ slots[i].timers[m] \in Timer /\ slots[i].timers \in [Metrics -> Timer]
  BY TimerOf
<1>3. CASE q.end = "disjoint"
  <2>1. slots' = [slots EXCEPT ![q.slot].disjoint = q.now]
    BY <1>3 DEF Answer
  <2>2. ~Asks(1, i, m, "start") /\ ~Asks(1, i, m, "stop")
    BY <1>1, <1>3 DEF Asks
  <2> HIDE DEF q
  <2>3. slots'[i].timers = slots[i].timers
    BY <1>2, <2>1 DEF ProfilerTypeOK, Frame
  <2> QED
    BY <2>2, <2>3
<1>4. CASE q.end = "start"
  <2>1. slots' = [slots EXCEPT ![q.slot].timers[q.metric].start = q.now]
    BY <1>4 DEF Answer
  <2>2. q.slot \in Ring /\ q.metric \in Metrics
    BY <1>1, <1>4 DEF Issue
  <2>3. /\ Asks(1, i, m, "start") <=> i = q.slot /\ m = q.metric
        /\ ~Asks(1, i, m, "stop")
    BY <1>1, <1>4 DEF Asks
  <2> HIDE DEF q
  <2>4. CASE i = q.slot /\ m = q.metric
    <3>1. slots'[i].timers[m] = [slots[i].timers[m] EXCEPT !.start = q.now]
      BY <1>2, <2>1, <2>4 DEF ProfilerTypeOK, Frame
    <3> QED
      BY <1>2, <2>3, <2>4, <3>1 DEF Timer, q
  <2>5. CASE ~(i = q.slot /\ m = q.metric)
    <3>1. slots'[i].timers[m] = slots[i].timers[m]
      BY <1>2, <2>1, <2>2, <2>5 DEF ProfilerTypeOK, Frame
    <3> QED
      BY <2>3, <2>5, <3>1, Zenon
  <2> QED
    BY <2>4, <2>5
<1>5. CASE q.end = "stop"
  <2>1. slots' = [slots EXCEPT ![q.slot].timers[q.metric].stop = q.now]
    BY <1>5 DEF Answer
  <2>2. q.slot \in Ring /\ q.metric \in Metrics
    BY <1>1, <1>5 DEF Issue
  <2>3. /\ Asks(1, i, m, "stop") <=> i = q.slot /\ m = q.metric
        /\ ~Asks(1, i, m, "start")
    BY <1>1, <1>5 DEF Asks
  <2> HIDE DEF q
  <2>4. CASE i = q.slot /\ m = q.metric
    <3>1. slots'[i].timers[m] = [slots[i].timers[m] EXCEPT !.stop = q.now]
      BY <1>2, <2>1, <2>4 DEF ProfilerTypeOK, Frame
    <3> QED
      BY <1>2, <2>3, <2>4, <3>1 DEF Timer, q
  <2>5. CASE ~(i = q.slot /\ m = q.metric)
    <3>1. slots'[i].timers[m] = slots[i].timers[m]
      BY <1>2, <2>1, <2>2, <2>5 DEF ProfilerTypeOK, Frame
    <3> QED
      BY <2>3, <2>5, <3>1, Zenon
  <2> QED
    BY <2>4, <2>5
<1> QED
  BY <1>1, <1>3, <1>4, <1>5 DEF Issue

LEMMA AnswerSound == ProfilerTypeOK /\ SlotsSound /\ Answer => SlotsSound'
<1> SUFFICES ASSUME ProfilerTypeOK, SlotsSound, Answer
             PROVE  SlotsSound'
  OBVIOUS
<1>1. issued # <<>> /\ issued' = Tail(issued)
  BY DEF Answer
<1>2. ASSUME NEW i, NEW m, NEW e, Renewed(i, m, e)
      PROVE  /\ Renewed(i, m, e)'
             /\ Asks(1, i, m, e) => Outstanding(i, m, e)' \/ Head(issued).now
             /\ ~Asks(1, i, m, e) /\ Outstanding(i, m, e) => Outstanding(i, m, e)'
  <2>1. CASE Asks(1, i, m, e)
    BY <1>1, <1>2, <2>1, AnsweredIt
  <2>2. CASE ~Asks(1, i, m, e)
    BY <1>1, <1>2, <2>2, AnsweredOther
  <2> QED
    BY <2>1, <2>2
<1>3. ASSUME NEW i \in Ring
      PROVE  DisjointSound(i)'
  <2>1. DisjointSound(i)
    BY DEF SlotsSound
  <2> QED
    BY <1>2, <2>1, AnswerSets, Zenon DEF DisjointSound, Sound
<1>4. ASSUME NEW i \in Ring, NEW m \in Metrics
      PROVE  StartSound(i, m)' /\ StopSound(i, m)'
  <2>1. StartSound(i, m) /\ StopSound(i, m)
    BY DEF SlotsSound
  <2>2. StartSound(i, m)'
    BY <1>2, <2>1, AnswerSetsTimer, Zenon DEF StartSound, Sound
  <2>3. StopSound(i, m)'
    BY <1>2, <2>1, AnswerSetsTimer, Zenon DEF StopSound, Sound
  <2> QED
    BY <2>2, <2>3
<1> QED
  BY <1>3, <1>4 DEF SlotsSound

LEMMA BeginFrameSound == ProfilerTypeOK /\ SlotsSound /\ BeginFrame /\ enabled => SlotsSound'
<1> SUFFICES ASSUME ProfilerTypeOK, SlotsSound, BeginFrame, enabled
             PROVE  SlotsSound'
  OBVIOUS
<1> DEFINE ring == Collected
           begins == Begins(ring)
<1>1. /\ slots' = [i \in Ring |->
                IF i = current /\ begins THEN NoFrame
                ELSE IF i \in ring THEN Freed(slots[i]) ELSE slots[i]]
      /\ issued' = [k \in DOMAIN issued |->
                IF begins /\ issued[k].slot = current
                THEN [issued[k] EXCEPT !.now = FALSE] ELSE issued[k]]
  BY DEF BeginFrame
<1> HIDE DEF ring, begins
<1>2. ASSUME NEW i \in Ring, i = current /\ begins
      PROVE  /\ ~slots'[i].pending
             /\ \A m \in Metrics : ~slots'[i].timers[m].open /\ ~slots'[i].timers[m].recorded
  BY <1>1, <1>2 DEF NoFrame, NoTimer
<1>3. ASSUME NEW i \in Ring, ~(i = current /\ begins)
      PROVE  /\ slots'[i].disjoint = slots[i].disjoint
             /\ slots'[i].pending => slots[i].pending
             /\ \A m \in Metrics :
                  /\ slots'[i].timers[m].open = slots[i].timers[m].open
                  /\ slots'[i].timers[m].recorded => slots[i].timers[m].recorded
                  /\ slots'[i].timers[m].start = slots[i].timers[m].start
                  /\ slots'[i].timers[m].stop = slots[i].timers[m].stop
  <2>1. CASE i \in ring
    <3>1. slots'[i] = Freed(slots[i])
      BY <1>1, <1>3, <2>1
    <3>2. /\ slots'[i].disjoint = slots[i].disjoint /\ ~slots'[i].pending
          /\ \A m \in Metrics : slots'[i].timers[m] = [slots[i].timers[m] EXCEPT !.recorded = FALSE]
      BY <3>1 DEF Freed, ProfilerTypeOK, Frame
    <3>3. ASSUME NEW m \in Metrics
          PROVE  /\ slots'[i].timers[m].open = slots[i].timers[m].open
                 /\ ~slots'[i].timers[m].recorded
                 /\ slots'[i].timers[m].start = slots[i].timers[m].start
                 /\ slots'[i].timers[m].stop = slots[i].timers[m].stop
      BY <3>2, TimerOf DEF Timer
    <3> QED
      BY <3>2, <3>3
  <2>2. CASE i \notin ring
    BY <1>1, <1>3, <2>2
  <2> QED
    BY <2>1, <2>2
<1>4. ASSUME NEW i \in Ring, ~(i = current /\ begins), NEW m, NEW e
      PROVE  /\ Renewed(i, m, e) => Renewed(i, m, e)'
             /\ Outstanding(i, m, e) => Outstanding(i, m, e)'
  <2>1. CASE begins
    <3>1. issued' = [k \in DOMAIN issued |->
                       IF issued[k].slot = current THEN [issued[k] EXCEPT !.now = FALSE] ELSE issued[k]]
      BY <1>1, <2>1
    <3> QED
      BY <1>4, <2>1, <3>1, MarkedOther
  <2>2. CASE ~begins
    <3>1. DOMAIN issued' = DOMAIN issued /\ \A k \in DOMAIN issued : issued'[k] = issued[k]
      BY <1>1, <2>2
    <3> QED
      BY <3>1, Zenon DEF Renewed, Outstanding, Asks
  <2> QED
    BY <2>1, <2>2
<1>5. ASSUME NEW i \in Ring
      PROVE  DisjointSound(i)'
  <2>1. CASE i = current /\ begins
    BY <1>2, <2>1, Zenon DEF DisjointSound
  <2>2. CASE ~(i = current /\ begins)
    <3>1. DisjointSound(i)
      BY DEF SlotsSound
    <3> QED
      BY <1>3, <1>4, <2>2, <3>1, Zenon DEF DisjointSound, Sound
  <2> QED
    BY <2>1, <2>2
<1>6. ASSUME NEW i \in Ring, NEW m \in Metrics
      PROVE  StartSound(i, m)' /\ StopSound(i, m)'
  <2>1. CASE i = current /\ begins
    BY <1>2, <2>1, Zenon DEF StartSound, StopSound
  <2>2. CASE ~(i = current /\ begins)
    <3>1. StartSound(i, m) /\ StopSound(i, m)
      BY DEF SlotsSound
    <3>2. StartSound(i, m)'
      BY <1>3, <1>4, <2>2, <3>1, Zenon DEF StartSound, Sound
    <3>3. StopSound(i, m)'
      BY <1>3, <1>4, <2>2, <3>1, Zenon DEF StopSound, Sound
    <3> QED
      BY <3>2, <3>3
  <2> QED
    BY <2>1, <2>2
<1> QED
  BY <1>5, <1>6 DEF SlotsSound

-------------------------------------------------------------------------------
(* The samples *)

\* A slot is collected once all that it waits for has come, and that is of its frame.
LEMMA AccumulatedSound ==
  ASSUME ProfilerTypeOK, SlotsSound, NEW m \in Metrics, Sampled(m, Collected)
  PROVE  LET s == slots[Newest(m, Collected)]
         IN  s.timers[m].start /\ s.timers[m].stop /\ s.disjoint
<1> DEFINE s == Newest(m, Collected)
<1>1. Collected \in SUBSET Ring
  BY CollectedIsReady
<1>2. s \in Collected /\ slots[s].timers[m].recorded
  BY <1>1, NewestIsRecorded
<1> HIDE DEF s
<1>3. s \in Ring /\ slots[s].pending /\ Ready(s)
  BY <1>2, CollectedIsReady
<1>4. ~Outstanding(s, m, "start") /\ ~Outstanding(s, m, "stop") /\ ~Outstanding(s, "", "disjoint")
  BY <1>2, <1>3, Zenon DEF Ready
<1>5. DisjointSound(s) /\ StartSound(s, m) /\ StopSound(s, m)
  BY <1>3 DEF SlotsSound
<1>6. slots[s].timers[m].start /\ slots[s].timers[m].stop /\ slots[s].disjoint
  BY <1>2, <1>3, <1>4, <1>5, Zenon DEF DisjointSound, StartSound, StopSound, Sound
<1> QED
  BY <1>6 DEF s

LEMMA BeginFrameSamples ==
  ProfilerTypeOK /\ SlotsSound /\ SamplesOfOneFrame /\ BeginFrame => SamplesOfOneFrame'
<1> SUFFICES ASSUME ProfilerTypeOK, SlotsSound, SamplesOfOneFrame, BeginFrame, NEW m \in Metrics
             PROVE  samples'[m]
  BY DEF SamplesOfOneFrame
<1>1. CASE ~enabled
  BY <1>1 DEF BeginFrame, SamplesOfOneFrame
<1>2. CASE enabled
  <2>1. samples' = Accumulate(Collected)
    BY <1>2 DEF BeginFrame
  <2>2. CASE Sampled(m, Collected)
    BY <2>1, <2>2, AccumulatedSound DEF Accumulate
  <2>3. CASE ~Sampled(m, Collected)
    BY <2>1, <2>3 DEF Accumulate, SamplesOfOneFrame
  <2> QED
    BY <2>2, <2>3
<1> QED
  BY <1>1, <1>2 DEF ProfilerTypeOK

-------------------------------------------------------------------------------
(* The invariant *)

LEMMA InitProfiler == ProfilerInit => ProfilerInv
<1> SUFFICES ASSUME ProfilerInit
             PROVE  ProfilerInv
  OBVIOUS
<1>1. \A i \in Ring : ~slots[i].pending
                      /\ \A m \in Metrics : ~slots[i].timers[m].open /\ ~slots[i].timers[m].recorded
  BY DEF ProfilerInit, FreshProfiler, NoFrame, NoTimer
<1>2. SlotsSound
  BY <1>1, Zenon DEF SlotsSound, DisjointSound, StartSound, StopSound
<1>3. SamplesOfOneFrame
  BY DEF SamplesOfOneFrame, ProfilerInit, FreshProfiler
<1> QED
  BY <1>2, <1>3, InitTyped DEF ProfilerInv

\* A step that leaves the slots and the queue alone.
LEMMA QueueKept == SlotsSound /\ UNCHANGED <<slots, issued>> => SlotsSound'
<1> SUFFICES ASSUME SlotsSound, slots' = slots, issued' = issued
             PROVE  SlotsSound'
  OBVIOUS
<1>1. ASSUME NEW i, NEW m, NEW e
      PROVE  (Renewed(i, m, e) => Renewed(i, m, e)') /\ (Outstanding(i, m, e) => Outstanding(i, m, e)')
  BY DEF Renewed, Outstanding, Asks
<1> QED
  BY <1>1, Zenon DEF SlotsSound, DisjointSound, StartSound, StopSound, Sound

LEMMA NextProfiler == ProfilerInv /\ [ProfilerNext]_profilerVars => ProfilerInv'
<1> SUFFICES ASSUME ProfilerTypeOK, SlotsSound, SamplesOfOneFrame, [ProfilerNext]_profilerVars
             PROVE  ProfilerTypeOK' /\ SlotsSound' /\ SamplesOfOneFrame'
  BY DEF ProfilerInv
<1>1. CASE BeginFrame
  <2>1. CASE enabled
    BY <1>1, <2>1, BeginFrameTyped, BeginFrameSound, BeginFrameSamples
  <2>2. CASE ~enabled
    <3>1. UNCHANGED <<slots, issued>>
      BY <1>1, <2>2 DEF BeginFrame
    <3> QED
      BY <1>1, <3>1, QueueKept, BeginFrameTyped, BeginFrameSamples
  <2> QED
    BY <2>1, <2>2 DEF ProfilerTypeOK
<1>2. CASE EndFrame
  BY <1>2, EndFrameTyped, EndFrameSound DEF EndFrame, SamplesOfOneFrame
<1>3. CASE Answer
  BY <1>3, AnswerTyped, AnswerSound DEF Answer, SamplesOfOneFrame
<1>4. CASE Reset \/ Enable
  <2>1. ProfilerTypeOK'
    BY <1>4 DEF ProfilerTypeOK, Reset, Enable
  <2>2. SamplesOfOneFrame'
    BY <1>4 DEF SamplesOfOneFrame, Reset, Enable
  <2>3. UNCHANGED <<slots, issued>>
    BY <1>4 DEF Reset, Enable
  <2> QED
    BY <2>1, <2>2, <2>3, QueueKept
<1>5. ASSUME NEW m \in Metrics, BeginGpu(m)
      PROVE  ProfilerTypeOK' /\ SlotsSound' /\ SamplesOfOneFrame'
  <2>1. SlotsSound'
    <3>1. CASE Timed
      BY <1>5, <3>1, BeginGpuSound
    <3>2. CASE ~Timed
      BY <1>5, <3>2, QueueKept, Zenon DEF BeginGpu
    <3> QED
      BY <3>1, <3>2
  <2> QED
    BY <1>5, <2>1, BeginGpuTyped DEF BeginGpu, SamplesOfOneFrame
<1>6. ASSUME NEW m \in Metrics, EndGpu(m)
      PROVE  ProfilerTypeOK' /\ SlotsSound' /\ SamplesOfOneFrame'
  <2>1. SlotsSound'
    <3>1. CASE Timed /\ slots[current].timers[m].open
      BY <1>6, <3>1, EndGpuSound
    <3>2. CASE ~(Timed /\ slots[current].timers[m].open)
      BY <1>6, <3>2, QueueKept, Zenon DEF EndGpu
    <3> QED
      BY <3>1, <3>2
  <2> QED
    BY <1>6, <2>1, EndGpuTyped DEF EndGpu, SamplesOfOneFrame
<1>7. ASSUME NEW m \in Metrics, BeginCpu(m) \/ EndCpu(m)
      PROVE  ProfilerTypeOK' /\ SlotsSound' /\ SamplesOfOneFrame'
  <2>1. ProfilerTypeOK'
    BY <1>7 DEF ProfilerTypeOK, BeginCpu, EndCpu, Known
  <2>2. UNCHANGED <<slots, issued>> /\ SamplesOfOneFrame'
    BY <1>7 DEF BeginCpu, EndCpu, SamplesOfOneFrame
  <2> QED
    BY <2>1, <2>2, QueueKept
<1>8. CASE UNCHANGED profilerVars
  BY <1>8, QueueKept DEF profilerVars, ProfilerTypeOK, SamplesOfOneFrame
<1> QED
  BY <1>1, <1>2, <1>3, <1>4, <1>5, <1>6, <1>7, <1>8 DEF ProfilerNext

\* The times and the frequency of every sample that Profiler accumulates are of one frame,
\* for every latency of the ring and however late the GPU answers.
THEOREM OneFrameSampled == ProfilerSpec => []SamplesOfOneFrame
<1>1. ProfilerInv => SamplesOfOneFrame
  BY DEF ProfilerInv
<1> QED
  BY <1>1, InitProfiler, NextProfiler, PTL DEF ProfilerSpec

-------------------------------------------------------------------------------
(* Scans: shared memory between two barriers *)

\* Each thread is at a step of its shader.
ScansTyped ==
  /\ distanceStep \in [DistanceScan!Threads -> 0 .. DistanceScan!Ended]
  /\ offsetStep \in [OffsetScan!Threads -> 0 .. OffsetScan!Ended]

-------------------------------------------------------------------------------

\* The solvers know the powers of two one by one.
Power(k) == 2^k

LEMMA PowersOfTwo ==
  ASSUME NEW k \in 0 .. 11
  PROVE  Power(k) \in Nat \ {0} /\ 2 * Power(k) = Power(k + 1)
<1>1. /\ 2 * 2^0 = 2^1 /\ 2 * 2^1 = 2^2 /\ 2 * 2^2 = 2^3 /\ 2 * 2^3 = 2^4
      /\ 2 * 2^4 = 2^5 /\ 2 * 2^5 = 2^6 /\ 2 * 2^6 = 2^7 /\ 2 * 2^7 = 2^8
      /\ 2 * 2^8 = 2^9 /\ 2 * 2^9 = 2^10 /\ 2 * 2^10 = 2^11 /\ 2 * 2^11 = 2^12
  OBVIOUS
<1>2. /\ 2^0 \in Nat \ {0} /\ 2^1 \in Nat \ {0} /\ 2^2 \in Nat \ {0} /\ 2^3 \in Nat \ {0}
      /\ 2^4 \in Nat \ {0} /\ 2^5 \in Nat \ {0} /\ 2^6 \in Nat \ {0} /\ 2^7 \in Nat \ {0}
      /\ 2^8 \in Nat \ {0} /\ 2^9 \in Nat \ {0} /\ 2^10 \in Nat \ {0} /\ 2^11 \in Nat \ {0}
  OBVIOUS
<1> DEFINE Doubles(n, next) == Power(n) \in Nat \ {0} /\ 2 * Power(n) = Power(next)
<1>3. /\ Doubles(0, 1) /\ Doubles(1, 2) /\ Doubles(2, 3) /\ Doubles(3, 4)
      /\ Doubles(4, 5) /\ Doubles(5, 6) /\ Doubles(6, 7) /\ Doubles(7, 8)
      /\ Doubles(8, 9) /\ Doubles(9, 10) /\ Doubles(10, 11) /\ Doubles(11, 12)
  BY Zenon, <1>1, <1>2 DEF Power
<1>4. Doubles(k, k + 1)
  <2> HIDE DEF Doubles
  <2> QED
    BY <1>3
<1> QED
  BY <1>4

LEMMA DistanceRounds ==
  DistanceScan!Rounds \in 0 .. 10 /\ Power(DistanceScan!Rounds) = DistanceGroupSize
<1>1. \E k \in 0 .. 10 : DistanceGroupSize = Power(k)
  BY Zenon, ScansAssumption DEF DistanceScan!ScanAssumption, Power
<1>2. DistanceScan!Rounds = CHOOSE k \in 0 .. 10 : Power(k) = DistanceGroupSize
  BY Zenon DEF DistanceScan!Rounds, Power
<1> QED
  BY <1>1, <1>2

LEMMA OffsetRounds ==
  /\ OffsetScan!Rounds \in 1 .. 11 /\ Power(OffsetScan!Rounds) = 2 * OffsetGroupSize
  /\ OffsetGroupSize \in Nat \ {0}
<1>1. PICK k \in 0 .. 10 : OffsetGroupSize = Power(k)
  BY Zenon, ScansAssumption DEF OffsetScan!ScanAssumption, Power
<1>2. OffsetGroupSize \in Nat \ {0} /\ 2 * OffsetGroupSize = Power(k + 1) /\ k + 1 \in 0 .. 11
  BY <1>1, PowersOfTwo
<1>3. OffsetScan!Rounds = CHOOSE n \in 0 .. 11 : Power(n) = 2 * OffsetGroupSize
  BY Zenon DEF OffsetScan!Rounds, OffsetScan!Block, Power
<1>4. OffsetScan!Rounds \in 0 .. 11 /\ Power(OffsetScan!Rounds) = 2 * OffsetGroupSize
  BY <1>2, <1>3
<1>5. Power(0) = 1
  <2>1. 2^0 = 1
    OBVIOUS
  <2> QED
    BY Zenon, <2>1 DEF Power
<1>6. OffsetScan!Rounds # 0
  BY <1>2, <1>4, <1>5
<1> QED
  BY <1>2, <1>4, <1>6

LEMMA DistanceTyped ==
  ASSUME ScansTyped, \/ \E c \in DistanceCalls : DistanceScan!Scan(c)
                     \/ DistanceScan!ScanNext \/ DistanceScan!Release
                     \/ UNCHANGED distanceVars
  PROVE  distanceStep' \in [DistanceScan!Threads -> 0 .. DistanceScan!Ended]
<1> DEFINE Threads == DistanceScan!Threads
           last == DistanceScan!Ended
<1>1. last \in Nat /\ last > 0
  BY DistanceRounds DEF DistanceScan!Ended, DistanceScan!StoreStep
<1>2. distanceStep \in [Threads -> 0 .. last]
  BY DEF ScansTyped
<1> HIDE DEF Threads, last
<1>3. ASSUME NEW t \in Threads, DistanceScan!LocalStep(t) \/ DistanceScan!AddStep(t)
      PROVE  distanceStep' \in [Threads -> 0 .. last]
  <2>1. \/ distanceStep' = [distanceStep EXCEPT ![t] = distanceStep[t] + 1] /\ distanceStep[t] # last
        \/ distanceStep' = [distanceStep EXCEPT ![t] = last]
    BY <1>3 DEF DistanceScan!LocalStep, DistanceScan!AddStep, last
  <2> QED
    BY <1>1, <1>2, <2>1
<1>4. ASSUME NEW g, DistanceScan!GroupBegins(g)
      PROVE  distanceStep' \in [Threads -> 0 .. last]
  BY <1>1, <1>4 DEF DistanceScan!GroupBegins, Threads
<1>5. ASSUME \/ DistanceScan!GroupEnds \/ DistanceScan!Descend \/ DistanceScan!Ascend
             \/ DistanceScan!Release \/ \E c \in DistanceCalls : DistanceScan!Scan(c)
             \/ UNCHANGED distanceVars
      PROVE  distanceStep' \in [Threads -> 0 .. last]
  <2>1. distanceStep' = distanceStep
    BY Zenon, <1>5 DEF DistanceScan!GroupEnds, DistanceScan!Descend, DistanceScan!Ascend,
         DistanceScan!Release, DistanceScan!Scan, distanceVars
  <2> QED
    BY <1>2, <2>1
<1> QED
  BY <1>3, <1>4, <1>5 DEF DistanceScan!ScanNext, Threads, last

LEMMA OffsetTyped ==
  ASSUME ScansTyped, \/ \E c \in OffsetCalls : OffsetScan!Scan(c)
                     \/ OffsetScan!ScanNext \/ OffsetScan!Release
                     \/ UNCHANGED offsetVars
  PROVE  offsetStep' \in [OffsetScan!Threads -> 0 .. OffsetScan!Ended]
<1> DEFINE Threads == OffsetScan!Threads
           last == OffsetScan!Ended
<1>1. last \in Nat /\ last > 0
  BY OffsetRounds DEF OffsetScan!Ended, OffsetScan!StoreStep
<1>2. offsetStep \in [Threads -> 0 .. last]
  BY DEF ScansTyped
<1> HIDE DEF Threads, last
<1>3. ASSUME NEW t \in Threads, OffsetScan!LocalStep(t) \/ OffsetScan!AddStep(t)
      PROVE  offsetStep' \in [Threads -> 0 .. last]
  <2>1. \/ offsetStep' = [offsetStep EXCEPT ![t] = offsetStep[t] + 1] /\ offsetStep[t] # last
        \/ offsetStep' = [offsetStep EXCEPT ![t] = last]
    BY <1>3 DEF OffsetScan!LocalStep, OffsetScan!AddStep, last
  <2> QED
    BY <1>1, <1>2, <2>1
<1>4. ASSUME NEW g, OffsetScan!GroupBegins(g)
      PROVE  offsetStep' \in [Threads -> 0 .. last]
  BY <1>1, <1>4 DEF OffsetScan!GroupBegins, Threads
<1>5. ASSUME \/ OffsetScan!GroupEnds \/ OffsetScan!Descend \/ OffsetScan!Ascend
             \/ OffsetScan!Release \/ \E c \in OffsetCalls : OffsetScan!Scan(c)
             \/ UNCHANGED offsetVars
      PROVE  offsetStep' \in [Threads -> 0 .. last]
  <2>1. offsetStep' = offsetStep
    BY Zenon, <1>5 DEF OffsetScan!GroupEnds, OffsetScan!Descend, OffsetScan!Ascend,
         OffsetScan!Release, OffsetScan!Scan, offsetVars
  <2> QED
    BY <1>2, <2>1
<1> QED
  BY <1>3, <1>4, <1>5 DEF OffsetScan!ScanNext, Threads, last

-------------------------------------------------------------------------------
(* Two threads that are let go by the same barrier *)

\* A thread writes its own cells of the copy that nobody reads.
LEMMA DistanceNoRace ==
  ASSUME ScansTyped
  PROVE  DistanceScan!NoRace
<1> SUFFICES ASSUME NEW t \in DistanceScan!Threads, NEW u \in DistanceScan!Threads, t # u,
                    DistanceScan!AtBarrier(t, distanceStep[t]),
                    DistanceScan!AtBarrier(u, distanceStep[u])
             PROVE  DistanceScan!Wrote(t, distanceStep[t])
                      \cap (DistanceScan!Read(u, distanceStep[u])
                              \cup DistanceScan!Wrote(u, distanceStep[u])) = {}
  BY Zenon DEF DistanceScan!NoRace
<1> DEFINE s == distanceStep[t]
<1>1. s \in Int /\ distanceStep[u] = s
  BY DEF ScansTyped, DistanceScan!AtBarrier, DistanceScan!Ended
<1> HIDE DEF s
<1>2. CASE s = 0
  BY <1>1, <1>2 DEF DistanceScan!Wrote, DistanceScan!Read, s
<1>3. CASE s = DistanceScan!StoreStep /\ s # 0
  BY <1>1, <1>3 DEF DistanceScan!Wrote, s
<1>4. CASE s # DistanceScan!StoreStep /\ s # 0
  <2>1. DistanceScan!Source(s) # 1 - DistanceScan!Source(s)
    BY <1>1 DEF DistanceScan!Source
  <2>2. /\ DistanceScan!Wrote(t, s) = {<<1 - DistanceScan!Source(s), t>>}
        /\ DistanceScan!Wrote(u, s) = {<<1 - DistanceScan!Source(s), u>>}
    BY <1>4 DEF DistanceScan!Wrote
  <2>3. \A cell \in DistanceScan!Read(u, s) : \E v : cell = <<DistanceScan!Source(s), v>>
    BY Zenon, <1>4 DEF DistanceScan!Read
  <2>4. DistanceScan!Wrote(t, s) \cap (DistanceScan!Read(u, s) \cup DistanceScan!Wrote(u, s)) = {}
    BY <2>1, <2>2, <2>3
  <2> QED
    BY <1>1, <2>4 DEF s
<1> QED
  BY <1>2, <1>3, <1>4

\* The padding keeps cells apart.
LEMMA PaddedApart ==
  ASSUME NEW a \in Nat, NEW b \in Nat, a # b
  PROVE  OffsetScan!Padded(a) # OffsetScan!Padded(b)
<1>1. OffsetBanks \in Nat \ {0}
  BY ScansAssumption DEF OffsetScan!ScanAssumption
<1>2. \A i, j \in Nat : i < j => i \div OffsetBanks <= j \div OffsetBanks
  BY <1>1
<1>3. \A i \in Nat : i \div OffsetBanks \in Nat
  BY <1>1
<1> QED
  BY <1>2, <1>3 DEF OffsetScan!Padded

\* The children of two nodes of a sweep are four cells.
LEMMA ChildrenApart ==
  ASSUME NEW s \in Int, NEW t \in Nat, NEW u \in Nat, t # u, s >= 1, s < OffsetScan!StoreStep
  PROVE  {OffsetScan!LeftChild(t, s), OffsetScan!RightChild(t, s)}
           \cap {OffsetScan!LeftChild(u, s), OffsetScan!RightChild(u, s)} = {}
<1> DEFINE a == OffsetScan!Offset(s)
<1>1. a \in Nat \ {0}
  <2>1. \/ s <= OffsetScan!Rounds /\ a = Power(s - 1)
        \/ ~(s <= OffsetScan!Rounds) /\ a = Power(OffsetScan!StoreStep - 1 - s)
    BY Zenon DEF OffsetScan!Offset, Power
  <2> HIDE DEF a
  <2> QED
    BY <2>1, OffsetRounds, PowersOfTwo DEF OffsetScan!StoreStep
<1> HIDE DEF a
<1>2. ASSUME NEW i \in Nat, NEW j \in Nat, i # j, i > 0, j > 0
      PROVE  OffsetScan!Padded(a * i - 1) # OffsetScan!Padded(a * j - 1)
  <2>1. a * i \in Nat /\ a * j \in Nat /\ a * i # a * j /\ a * i >= 1 /\ a * j >= 1
    BY <1>1, <1>2
  <2>2. a * i - 1 \in Nat /\ a * j - 1 \in Nat /\ a * i - 1 # a * j - 1
    BY <2>1
  <2> QED
    BY <2>2, PaddedApart
<1>3. /\ 2 * t + 1 \in Nat /\ 2 * t + 2 \in Nat /\ 2 * u + 1 \in Nat /\ 2 * u + 2 \in Nat
      /\ 2 * t + 1 > 0 /\ 2 * t + 2 > 0 /\ 2 * u + 1 > 0 /\ 2 * u + 2 > 0
      /\ 2 * t + 1 \notin {2 * u + 1, 2 * u + 2} /\ 2 * t + 2 \notin {2 * u + 1, 2 * u + 2}
  OBVIOUS
<1>4. /\ OffsetScan!LeftChild(t, s) = OffsetScan!Padded(a * (2 * t + 1) - 1)
      /\ OffsetScan!RightChild(t, s) = OffsetScan!Padded(a * (2 * t + 2) - 1)
      /\ OffsetScan!LeftChild(u, s) = OffsetScan!Padded(a * (2 * u + 1) - 1)
      /\ OffsetScan!RightChild(u, s) = OffsetScan!Padded(a * (2 * u + 2) - 1)
  BY Zenon DEF OffsetScan!LeftChild, OffsetScan!RightChild, a
<1>5. /\ OffsetScan!LeftChild(t, s) # OffsetScan!LeftChild(u, s)
      /\ OffsetScan!LeftChild(t, s) # OffsetScan!RightChild(u, s)
      /\ OffsetScan!RightChild(t, s) # OffsetScan!LeftChild(u, s)
      /\ OffsetScan!RightChild(t, s) # OffsetScan!RightChild(u, s)
  BY Zenon, <1>2, <1>3, <1>4
<1> QED
  BY Zenon, <1>5

LEMMA OffsetNoRace ==
  ASSUME ScansTyped
  PROVE  OffsetScan!NoRace
<1> SUFFICES ASSUME NEW t \in OffsetScan!Threads, NEW u \in OffsetScan!Threads, t # u,
                    offsetStep[t] # OffsetScan!Ended,
                    OffsetScan!AtBarrier(t, offsetStep[t]), OffsetScan!AtBarrier(u, offsetStep[u])
             PROVE  OffsetScan!Touched(t, offsetStep[t]) \cap OffsetScan!Touched(u, offsetStep[u]) = {}
  BY Zenon DEF OffsetScan!NoRace
<1> DEFINE s == offsetStep[t]
<1>1. s \in Int /\ offsetStep[u] = s
  BY DEF ScansTyped, OffsetScan!AtBarrier, OffsetScan!Ended
<1>2. t \in Nat /\ u \in Nat /\ t < OffsetGroupSize /\ u < OffsetGroupSize
  BY OffsetRounds DEF OffsetScan!Threads
<1> SUFFICES OffsetScan!Touched(t, s) \cap OffsetScan!Touched(u, s) = {}
  BY <1>1
<1> HIDE DEF s
<1>3. CASE s \in {0, OffsetScan!StoreStep}
  <2>1. /\ t + OffsetGroupSize \in Nat /\ u + OffsetGroupSize \in Nat
        /\ t # u + OffsetGroupSize /\ u # t + OffsetGroupSize
        /\ t + OffsetGroupSize # u + OffsetGroupSize
    BY <1>2, OffsetRounds
  <2>2. /\ OffsetScan!Padded(t) # OffsetScan!Padded(u)
        /\ OffsetScan!Padded(t) # OffsetScan!Padded(u + OffsetGroupSize)
        /\ OffsetScan!Padded(t + OffsetGroupSize) # OffsetScan!Padded(u)
        /\ OffsetScan!Padded(t + OffsetGroupSize) # OffsetScan!Padded(u + OffsetGroupSize)
    BY <1>2, <2>1, PaddedApart
  <2>3. /\ OffsetScan!Touched(t, s) = {OffsetScan!Padded(t), OffsetScan!Padded(t + OffsetGroupSize)}
        /\ OffsetScan!Touched(u, s) = {OffsetScan!Padded(u), OffsetScan!Padded(u + OffsetGroupSize)}
    BY Zenon, <1>3 DEF OffsetScan!Touched
  <2> QED
    BY Zenon, <2>2, <2>3
<1>4. CASE s \notin {0, OffsetScan!StoreStep} /\ s = OffsetScan!RootStep
  <2>1. OffsetScan!Touched(t, s) = {} \/ OffsetScan!Touched(u, s) = {}
    BY Zenon, <1>4 DEF OffsetScan!Touched
  <2> QED
    BY <2>1
<1>5. CASE s \notin {0, OffsetScan!StoreStep, OffsetScan!RootStep}
  <2>1. CASE OffsetScan!Swept(t, s) /\ OffsetScan!Swept(u, s)
    <3>1. s >= 1 /\ s < OffsetScan!StoreStep
      BY <1>1, <2>1, OffsetRounds DEF OffsetScan!Swept, OffsetScan!StoreStep
    <3>2. /\ OffsetScan!Touched(t, s) = {OffsetScan!LeftChild(t, s), OffsetScan!RightChild(t, s)}
          /\ OffsetScan!Touched(u, s) = {OffsetScan!LeftChild(u, s), OffsetScan!RightChild(u, s)}
      BY Zenon, <1>5, <2>1 DEF OffsetScan!Touched
    <3> QED
      BY <1>1, <1>2, <3>1, <3>2, ChildrenApart
  <2>2. CASE ~OffsetScan!Swept(t, s) \/ ~OffsetScan!Swept(u, s)
    <3>1. OffsetScan!Touched(t, s) = {} \/ OffsetScan!Touched(u, s) = {}
      BY Zenon, <1>5, <2>2 DEF OffsetScan!Touched
    <3> QED
      BY <3>1
  <2> QED
    BY <2>1, <2>2
<1> QED
  BY <1>3, <1>4, <1>5

LEMMA ScansInitTyped == ScansInit => ScansTyped
<1>1. DistanceScan!Ended \in Nat /\ OffsetScan!Ended \in Nat
  BY DistanceRounds, OffsetRounds
     DEF DistanceScan!Ended, DistanceScan!StoreStep, OffsetScan!Ended, OffsetScan!StoreStep
<1> QED
  BY <1>1 DEF ScansInit, DistanceScan!Init, OffsetScan!Init, ScansTyped

LEMMA ScansNextTyped == ScansTyped /\ [ScansNext]_scanVars => ScansTyped'
<1> SUFFICES ASSUME ScansTyped, [ScansNext]_scanVars
             PROVE  ScansTyped'
  OBVIOUS
<1>1. \/ \E c \in DistanceCalls : DistanceScan!Scan(c)
      \/ DistanceScan!ScanNext \/ DistanceScan!Release \/ UNCHANGED distanceVars
  BY Zenon DEF ScansNext, MeasureCurves, CountCenters, KeepCenters, scanVars
<1>2. \/ \E c \in OffsetCalls : OffsetScan!Scan(c)
      \/ OffsetScan!ScanNext \/ OffsetScan!Release \/ UNCHANGED offsetVars
  BY Zenon DEF ScansNext, MeasureCurves, CountCenters, KeepCenters, scanVars
<1> QED
  BY Zenon, <1>1, <1>2, DistanceTyped, OffsetTyped DEF ScansTyped

\* No thread of a scan touches what another one touches between the same two barriers, for
\* every size of a group that is a power of two and every number of banks.
THEOREM ScansDoNotRace == ScansSpec => []NoRace
<1>1. ScansTyped => NoRace
  BY DistanceNoRace, OffsetNoRace DEF NoRace
<1> QED
  BY ScansInitTyped, ScansNextTyped, <1>1, PTL DEF ScansSpec

-------------------------------------------------------------------------------
(* Textures: the cache of the context *)

AnyMip == Mips \cup {All}

\* What the cache may hold of a place, besides nothing.
Fitting(p) ==
  CASE p.kind = "srv" -> {ResourceView(t, m) : t \in Bindable, m \in AnyMip}
    [] p.kind = "uav" -> {UnorderedView(t, m) : t \in Textures, m \in AnyMip}
    [] OTHER -> {TargetView(t) : t \in Targets \cup DepthBuffers}

\* The device has what the cache says, or nothing.
Agrees(c) ==
  /\ c = [device |-> c.device, cached |-> c.cached]
  /\ c.device = [p \in ViewPlaces |-> c.device[p]]
  /\ c.cached = [p \in ViewPlaces |-> c.cached[p]]
  /\ \A p \in ViewPlaces :
       /\ c.cached[p] \in Fitting(p) \cup {None}
       /\ c.device[p] \in {c.cached[p], None}

ContextAgrees == Agrees(Context)

-------------------------------------------------------------------------------

LEMMA FittingIsView ==
  ASSUME TexturesAssumption, NEW p \in ViewPlaces, NEW view \in Fitting(p)
  PROVE  /\ view # None
         /\ view.of \in Bindable
         /\ view = [of |-> view.of, covers |-> view.covers, mip |-> view.mip]
<1> DEFINE Views == [of : Textures \cup Targets \cup DepthBuffers,
                     covers : {{0}, Mips} \cup {{m} : m \in Mips}, mip : Mips \cup {All}]
<1>1. ASSUME NEW t \in Bindable, NEW m \in AnyMip
      PROVE  ResourceView(t, m) \in Views /\ UnorderedView(t, m) \in Views /\ TargetView(t) \in Views
  BY <1>1 DEF ResourceView, UnorderedView, TargetView, Key, View, Bindable, AnyMip
<1>2. \/ \E t \in Bindable, m \in AnyMip : view = ResourceView(t, m)
      \/ \E t \in Textures, m \in AnyMip : view = UnorderedView(t, m)
      \/ \E t \in Targets \cup DepthBuffers : view = TargetView(t)
  <2>1. CASE p.kind = "srv"
    BY <2>1 DEF Fitting
  <2>2. CASE p.kind = "uav"
    BY <2>2 DEF Fitting
  <2>3. CASE p.kind \notin {"srv", "uav"}
    BY <2>3 DEF Fitting
  <2> QED
    BY <2>1, <2>2, <2>3
<1>3. view \in Views
  <2> HIDE DEF Views
  <2>1. Textures \subseteq Bindable /\ Targets \cup DepthBuffers \subseteq Bindable /\ All \in AnyMip
    BY DEF Bindable, AnyMip
  <2> QED
    BY <1>1, <1>2, <2>1
<1> QED
  BY <1>3 DEF TexturesAssumption, Bindable

LEMMA PlaceKinds ==
  /\ \A slot \in ViewSlots : /\ ShaderResource("Pixel", slot) \in ViewPlaces
                             /\ ShaderResource("Pixel", slot).kind = "srv"
                             /\ Unordered(slot) \in ViewPlaces
                             /\ Unordered(slot).kind = "uav"
  /\ RenderTarget \in ViewPlaces /\ RenderTarget.kind = "rtv"
  /\ DepthStencil \in ViewPlaces /\ DepthStencil.kind = "dsv"
  /\ RenderTarget # DepthStencil
  /\ \A p \in ViewPlaces : /\ p.kind \in Tracked
                           /\ p.kind = "rtv" => p = RenderTarget
                           /\ p.kind = "dsv" => p = DepthStencil
<1>1. /\ \A slot : ShaderResource("Pixel", slot).kind = "srv" /\ Unordered(slot).kind = "uav"
      /\ RenderTarget.kind = "rtv" /\ DepthStencil.kind = "dsv"
  BY DEF ShaderResource, Unordered, RenderTarget, DepthStencil
<1>2. /\ \A slot \in ViewSlots : ShaderResource("Pixel", slot) \in ViewPlaces
                                  /\ Unordered(slot) \in ViewPlaces
      /\ RenderTarget \in ViewPlaces /\ DepthStencil \in ViewPlaces
  BY Zenon DEF ViewPlaces
<1>3. \A p \in ViewPlaces : \/ \E slot \in ViewSlots : p = ShaderResource("Pixel", slot)
                            \/ \E slot \in ViewSlots : p = Unordered(slot)
                            \/ p = RenderTarget \/ p = DepthStencil
  BY Zenon DEF ViewPlaces
<1> QED
  BY <1>1, <1>2, <1>3 DEF Tracked, Writers

\* What binding a view does to what is bound: it is there or refused, and elsewhere only
\* something may be gone.
LEMMA BoundOnlyTakes ==
  ASSUME NEW bound, NEW place \in ViewPlaces, NEW view, bound = [p \in ViewPlaces |-> bound[p]]
  PROVE  /\ Bound(bound, place, view) = [p \in ViewPlaces |-> Bound(bound, place, view)[p]]
         /\ Bound(bound, place, view)[place] \in {view, None}
         /\ \A p \in ViewPlaces \ {place} : Bound(bound, place, view)[p] \in {bound[p], None}
<1>1. place.kind \in Tracked
  BY PlaceKinds
<1>2. DOMAIN bound = ViewPlaces
  OBVIOUS
<1> QED
  BY <1>1, <1>2 DEF Bound

LEMMA BindViewAgrees ==
  ASSUME NEW c, Agrees(c), NEW place \in ViewPlaces, NEW view \in Fitting(place) \cup {None}
  PROVE  Agrees(BindView(c, place, view))
<1> DEFINE d == BindView(c, place, view)
<1>1. d.device = Bound(c.device, place, view) /\ d.cached = [c.cached EXCEPT ![place] = view]
  BY DEF BindView
<1>0. d = [device |-> d.device, cached |-> d.cached]
  BY DEF BindView
<1>2. /\ d.device = [p \in ViewPlaces |-> d.device[p]]
      /\ d.device[place] \in {view, None}
      /\ \A p \in ViewPlaces \ {place} : d.device[p] \in {c.device[p], None}
  BY <1>1, BoundOnlyTakes DEF Agrees
<1>3. /\ d.cached = [p \in ViewPlaces |-> d.cached[p]]
      /\ d.cached[place] = view
      /\ \A p \in ViewPlaces \ {place} : d.cached[p] = c.cached[p]
  <2> DEFINE before == c.cached
  <2>1. before = [p \in ViewPlaces |-> before[p]]
    BY DEF Agrees
  <2> HIDE DEF before
  <2>2. /\ [before EXCEPT ![place] = view] = [p \in ViewPlaces |-> [before EXCEPT ![place] = view][p]]
        /\ [before EXCEPT ![place] = view][place] = view
        /\ \A p \in ViewPlaces \ {place} : [before EXCEPT ![place] = view][p] = before[p]
    BY <2>1
  <2> QED
    BY <1>1, <2>2 DEF before
<1> HIDE DEF d
<1>4. ASSUME NEW p \in ViewPlaces
      PROVE  d.cached[p] \in Fitting(p) \cup {None} /\ d.device[p] \in {d.cached[p], None}
  <2>1. c.cached[p] \in Fitting(p) \cup {None} /\ c.device[p] \in {c.cached[p], None}
    BY DEF Agrees
  <2>2. CASE p = place
    BY <1>2, <1>3, <2>2
  <2>3. CASE p # place
    BY <1>2, <1>3, <2>1, <2>3
  <2> QED
    BY <2>2, <2>3
<1>5. d.device = [p \in ViewPlaces |-> d.device[p]] /\ d.cached = [p \in ViewPlaces |-> d.cached[p]]
  BY <1>2, <1>3
<1> SUFFICES Agrees(d)
  BY DEF d
<1> QED
  BY ZenonT(30), <1>0, <1>4, <1>5 DEF Agrees

LEMMA UnboundAgrees ==
  ASSUME NEW c, Agrees(c), NEW kind, NEW t, NEW mip
  PROVE  /\ Agrees(Unbound(c, kind, t, mip))
         /\ \A p \in ViewPlaces :
              IF p.kind = kind /\ Releases(t, mip, c.cached[p])
              THEN Unbound(c, kind, t, mip).cached[p] = None /\ Unbound(c, kind, t, mip).device[p] = None
              ELSE /\ Unbound(c, kind, t, mip).cached[p] = c.cached[p]
                   /\ Unbound(c, kind, t, mip).device[p] = c.device[p]
BY DEF Unbound, Agrees

Left(c, t, p) == IF Releases(t, All, c.cached[p]) THEN None ELSE c.cached[p]

LEMMA OutputsAgree ==
  ASSUME NEW c, Agrees(c), NEW color \in Fitting(RenderTarget) \cup {None},
         NEW depth \in Fitting(DepthStencil) \cup {None}
  PROVE  /\ Agrees(BindOutputs(c, color, depth))
         /\ BindOutputs(c, color, depth).cached[RenderTarget] = color
         /\ BindOutputs(c, color, depth).cached[DepthStencil] = depth
         /\ \A p \in ViewPlaces \ {RenderTarget, DepthStencil} :
              BindOutputs(c, color, depth).cached[p] = c.cached[p]
<1> DEFINE d == BindView(c, RenderTarget, color)
           e == BindView(d, DepthStencil, depth)
<1>1. Agrees(d) /\ d.cached = [c.cached EXCEPT ![RenderTarget] = color]
  BY BindViewAgrees, PlaceKinds DEF BindView
<1> HIDE DEF d
<1>2. Agrees(e) /\ e.cached = [d.cached EXCEPT ![DepthStencil] = depth]
  BY <1>1, BindViewAgrees, PlaceKinds DEF BindView
<1> HIDE DEF e
<1>3. BindOutputs(c, color, depth) = e
  BY DEF BindOutputs, d, e
<1> QED
  BY <1>1, <1>2, <1>3, PlaceKinds DEF Agrees

LEMMA UnboundOutputAgrees ==
  ASSUME NEW c, Agrees(c), NEW t
  PROVE  /\ Agrees(UnboundOutput(c, t))
         /\ \A p \in {RenderTarget, DepthStencil} : UnboundOutput(c, t).cached[p] = Left(c, t, p)
         /\ \A p \in ViewPlaces \ {RenderTarget, DepthStencil} :
              UnboundOutput(c, t).cached[p] = c.cached[p]
<1> DEFINE color == Left(c, t, RenderTarget)
           depth == Left(c, t, DepthStencil)
           same == color = c.cached[RenderTarget] /\ depth = c.cached[DepthStencil]
<1>1. UnboundOutput(c, t) = IF same THEN c ELSE BindOutputs(c, color, depth)
  BY DEF UnboundOutput, Left
<1>2. color \in Fitting(RenderTarget) \cup {None} /\ depth \in Fitting(DepthStencil) \cup {None}
  BY PlaceKinds DEF Agrees, Left
<1> HIDE DEF color, depth
<1>3. CASE same
  BY <1>1, <1>3 DEF color, depth
<1>4. CASE ~same
  BY <1>1, <1>2, <1>4, OutputsAgree DEF color, depth
<1> QED
  BY <1>3, <1>4

\* After Unbind the cache and so the device have nothing of the texture.
LEMMA UnboundAllReleases ==
  ASSUME TexturesAssumption, NEW c, Agrees(c), NEW t
  PROVE  /\ Agrees(UnboundAll(c, t))
         /\ \A p \in ViewPlaces :
              LET view == UnboundAll(c, t).device[p] IN view # None => view.of # t
<1> DEFINE d == Unbound(c, "srv", t, All)
           e == Unbound(d, "uav", t, All)
           f == UnboundOutput(e, t)
<1>1. Agrees(d) /\ \A p \in ViewPlaces : p.kind = "srv" => ~Releases(t, All, d.cached[p])
  BY UnboundAgrees DEF Releases
<1> HIDE DEF d
<1>2. /\ Agrees(e)
      /\ \A p \in ViewPlaces : p.kind \in {"srv", "uav"} => ~Releases(t, All, e.cached[p])
  BY <1>1, UnboundAgrees DEF Releases
<1> HIDE DEF e
<1>3. Agrees(f) /\ \A p \in ViewPlaces : ~Releases(t, All, f.cached[p])
  <2>1. Agrees(f)
    BY <1>2, UnboundOutputAgrees
  <2>2. \A p \in {RenderTarget, DepthStencil} : ~Releases(t, All, f.cached[p])
    BY <1>2, UnboundOutputAgrees DEF Left, Releases
  <2>3. \A p \in ViewPlaces \ {RenderTarget, DepthStencil} :
          p.kind \in {"srv", "uav"} /\ f.cached[p] = e.cached[p]
    BY <1>2, UnboundOutputAgrees, PlaceKinds DEF Tracked, Writers
  <2> QED
    BY <1>2, <2>1, <2>2, <2>3
<1> HIDE DEF f
<1>4. UnboundAll(c, t) = f
  BY DEF UnboundAll, d, e, f
<1> QED
  BY <1>3, <1>4 DEF Agrees, Releases

LEMMA BecomesAgrees ==
  ASSUME NEW c, Agrees(c), Becomes(c)
  PROVE  ContextAgrees'
<1>1. Context' = c
  BY DEF Context, Becomes, Agrees
<1> QED
  BY <1>1 DEF ContextAgrees, Agrees

LEMMA InitAgrees == TexturesInit => ContextAgrees
<1> SUFFICES ASSUME TexturesInit
             PROVE  ContextAgrees
  OBVIOUS
<1> DEFINE c == Context
<1>1. c = [device |-> c.device, cached |-> c.cached]
  BY DEF Context
<1>2. c.device = [p \in ViewPlaces |-> None] /\ c.cached = [p \in ViewPlaces |-> None]
  BY DEF Context, TexturesInit
<1> HIDE DEF c
<1>3. c.device = [p \in ViewPlaces |-> c.device[p]] /\ c.cached = [p \in ViewPlaces |-> c.cached[p]]
  BY <1>2
<1>4. \A p \in ViewPlaces : c.cached[p] = None /\ c.device[p] = None
  BY <1>2
<1>5. Agrees(c)
  BY ZenonT(30), <1>1, <1>3, <1>4 DEF Agrees
<1> QED
  BY <1>5 DEF ContextAgrees, c

\* The views that the actions bind are ones that the cache may hold at their place.
LEMMA ViewsFit ==
  ASSUME NEW m \in AnyMip, NEW slot \in ViewSlots
  PROVE  /\ \A t \in Bindable : ResourceView(t, m) \in Fitting(ShaderResource("Pixel", slot))
         /\ \A t \in Textures : UnorderedView(t, m) \in Fitting(Unordered(slot))
         /\ \A t \in Targets \cup DepthBuffers :
              TargetView(t) \in Fitting(RenderTarget) /\ TargetView(t) \in Fitting(DepthStencil)
<1>1. /\ ShaderResource("Pixel", slot).kind = "srv" /\ Unordered(slot).kind = "uav"
      /\ RenderTarget.kind = "rtv" /\ DepthStencil.kind = "dsv"
  BY PlaceKinds
<1> QED
  BY <1>1 DEF Fitting

LEMMA NextAgrees ==
  ASSUME TexturesAssumption, ContextAgrees, [TexturesNext]_textureVars
  PROVE  ContextAgrees'
<1> USE DEF AnyMip
<1>c. Agrees(Context)
  BY DEF ContextAgrees
<1>1. ASSUME NEW t \in Bindable, NEW slot \in ViewSlots, NEW mip \in AnyMip,
             BindShaderResourceView(t, slot, mip)
      PROVE  ContextAgrees'
  <2>1. Agrees(BoundForReading(t, slot, mip))
    BY <1>c, UnboundAgrees, BindViewAgrees, ViewsFit, PlaceKinds DEF BoundForReading
  <2> QED
    BY <1>1, <2>1, BecomesAgrees DEF BindShaderResourceView
<1>2. ASSUME NEW t \in Textures, NEW slot \in ViewSlots, NEW mip \in AnyMip,
             BindUnorderedAccessView(t, slot, mip)
      PROVE  ContextAgrees'
  <2>1. Agrees(BoundForWriting(t, slot, mip))
    BY <1>c, UnboundAgrees, BindViewAgrees, ViewsFit, PlaceKinds DEF BoundForWriting
  <2> QED
    BY <1>2, <2>1, BecomesAgrees DEF BindUnorderedAccessView
<1>3. ASSUME NEW t \in Bindable, NEW mip \in AnyMip,
             UnbindShaderResourceView(t, mip) \/ UnbindUnorderedAccessView(t, mip)
      PROVE  ContextAgrees'
  BY <1>c, <1>3, UnboundAgrees, BecomesAgrees DEF UnbindShaderResourceView, UnbindUnorderedAccessView
<1>4. ASSUME NEW t \in Bindable, Unbind(t)
      PROVE  ContextAgrees'
  BY <1>c, <1>4, UnboundAllReleases, BecomesAgrees DEF Unbind
<1>5. ASSUME NEW t \in Targets \cup DepthBuffers, BindRenderTargetView(t) \/ BindDepthStencilView(t)
      PROVE  ContextAgrees'
  <2>1. Agrees(UnboundAll(Context, t))
    BY <1>c, UnboundAllReleases
  <2>2. TargetView(t) \in Fitting(RenderTarget) /\ TargetView(t) \in Fitting(DepthStencil)
    BY PlaceKinds DEF Fitting
  <2> QED
    BY <1>5, <2>1, <2>2, OutputsAgree, BecomesAgrees DEF BindRenderTargetView, BindDepthStencilView
<1>6. ASSUME NEW t \in Targets, NEW depth \in DepthBuffers, SetAsRenderTarget(t, depth)
      PROVE  ContextAgrees'
  <2>1. TargetView(t) \in Fitting(RenderTarget) /\ TargetView(depth) \in Fitting(DepthStencil)
    BY PlaceKinds DEF Fitting
  <2> QED
    BY <1>c, <1>6, <2>1, OutputsAgree, BecomesAgrees DEF SetAsRenderTarget
<1>7. ASSUME NEW source \in Bindable, NEW target \in Bindable, Copy(source, target)
      PROVE  ContextAgrees'
  BY <1>c, <1>7, UnboundAllReleases, BecomesAgrees DEF Copy
<1>8. ASSUME UNCHANGED textureVars
      PROVE  ContextAgrees'
  BY <1>c, <1>8 DEF ContextAgrees, Context, textureVars
<1>9. Textures \subseteq Bindable
  BY DEF Bindable
<1> QED
  BY <1>1, <1>2, <1>3, <1>4, <1>5, <1>6, <1>7, <1>8, <1>9 DEF TexturesNext

-------------------------------------------------------------------------------
(* What the agreement is enough for *)

LEMMA AgreesReleases ==
  ASSUME TexturesAssumption, ContextAgrees
  PROVE  UnbindReleases
BY UnboundAllReleases DEF UnbindReleases, ContextAgrees

\* A view that is left bound for writing shares nothing with the one to be read.
LEMMA NothingConflicts ==
  ASSUME TexturesAssumption, NEW t \in Textures, NEW mip \in AnyMip,
         NEW p \in ViewPlaces, p.kind # "srv", NEW view \in Fitting(p),
         p.kind = "uav" => ~Releases(t, mip, view)
  PROVE  ~Overlap(view, ResourceView(t, mip))
<1> SUFFICES ASSUME view.of = t, view.covers \cap ResourceView(t, mip).covers # {}
             PROVE  FALSE
  BY DEF Overlap, ResourceView, Key, View
<1>1. CASE p.kind = "uav"
  <2>1. PICK u \in Textures, m \in AnyMip : view = UnorderedView(u, m)
    BY <1>1 DEF Fitting
  <2>2. view.mip = m /\ view # None
    BY <2>1, FittingIsView DEF UnorderedView, Key, View
  <2>3. m # All /\ mip # All /\ m # mip
    BY <1>1, <2>2 DEF Releases
  <2>4. view.covers = {m} /\ ResourceView(t, mip).covers = {mip}
    BY <2>1, <2>3 DEF UnorderedView, ResourceView, Key, View
  <2> QED
    BY <2>3, <2>4
<1>2. CASE p.kind # "uav"
  <2>1. PICK u \in Targets \cup DepthBuffers : view = TargetView(u)
    BY <1>2 DEF Fitting
  <2>2. view.of = u
    BY <2>1 DEF TargetView, Key, View
  <2> QED
    BY <2>2 DEF TexturesAssumption
<1> QED
  BY <1>1, <1>2

LEMMA AgreesTakesEffect ==
  ASSUME TexturesAssumption, ContextAgrees
  PROVE  BindTakesEffect
<1> SUFFICES ASSUME NEW t \in Textures, NEW slot \in ViewSlots, NEW mip \in AnyMip
             PROVE  /\ BoundForReading(t, slot, mip).device[ShaderResource("Pixel", slot)]
                         = ResourceView(t, mip)
                    /\ BoundForWriting(t, slot, mip).device[Unordered(slot)] = UnorderedView(t, mip)
  BY DEF BindTakesEffect, AnyMip
<1>c. Agrees(Context)
  BY DEF ContextAgrees
<1>1. BoundForReading(t, slot, mip).device[ShaderResource("Pixel", slot)] = ResourceView(t, mip)
  <2> DEFINE c == Unbound(Context, "uav", t, mip)
             place == ShaderResource("Pixel", slot)
             view == ResourceView(t, mip)
  <2>1. /\ Agrees(c)
        /\ \A p \in ViewPlaces : p.kind = "uav" => ~Releases(t, mip, c.cached[p])
    BY <1>c, UnboundAgrees DEF Releases
  <2>2. place \in ViewPlaces /\ place.kind = "srv"
    BY PlaceKinds
  <2>3. BoundForReading(t, slot, mip).device = Bound(c.device, place, view)
    BY DEF BoundForReading, BindView
  <2> HIDE DEF c, place
  <2>4. DOMAIN c.device = ViewPlaces
    BY <2>1 DEF Agrees
  <2>5. ASSUME NEW p \in ViewPlaces, p.kind # "srv"
        PROVE  ~Overlap(c.device[p], view)
    <3>1. CASE c.device[p] = None
      BY <3>1 DEF Overlap
    <3>2. CASE c.device[p] # None
      <4>1. c.device[p] = c.cached[p] /\ c.cached[p] \in Fitting(p)
        BY <2>1, <3>2 DEF Agrees
      <4> QED
        BY <2>1, <2>5, <4>1, NothingConflicts
    <3> QED
      BY <3>1, <3>2
  <2> HIDE DEF view
  <2>6. Bound(c.device, place, view)[place] = view
    BY <2>2, <2>4, <2>5 DEF Bound, Tracked
  <2> QED
    BY <2>3, <2>6 DEF place, view
<1>2. BoundForWriting(t, slot, mip).device[Unordered(slot)] = UnorderedView(t, mip)
  <2> DEFINE c == Unbound(Context, "srv", t, mip)
             place == Unordered(slot)
             view == UnorderedView(t, mip)
  <2>1. Agrees(c)
    BY <1>c, UnboundAgrees
  <2>2. place \in ViewPlaces /\ place.kind = "uav"
    BY PlaceKinds
  <2>3. BoundForWriting(t, slot, mip).device = Bound(c.device, place, view)
    BY DEF BoundForWriting, BindView
  <2> HIDE DEF c, place, view
  <2>4. DOMAIN c.device = ViewPlaces
    BY <2>1 DEF Agrees
  <2>5. Bound(c.device, place, view)[place] = view
    BY <2>2, <2>4 DEF Bound, Tracked, Writers
  <2> QED
    BY <2>3, <2>5 DEF place, view
<1> QED
  BY <1>1, <1>2

THEOREM BindingCacheSuffices ==
  ASSUME TexturesAssumption
  PROVE  TexturesSpec => []CacheSuffices
<1>1. TexturesInit => ContextAgrees
  BY InitAgrees
<1>2. ContextAgrees /\ [TexturesNext]_textureVars => ContextAgrees'
  BY NextAgrees
<1>3. ContextAgrees => CacheSuffices
  BY AgreesReleases, AgreesTakesEffect DEF CacheSuffices
<1> QED
  BY <1>1, <1>2, <1>3, PTL DEF TexturesSpec

===============================================================================
