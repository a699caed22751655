------------------------------- MODULE Profiler -------------------------------
(***************************************************************************)
(* Profiler: a ring of frames, each with a pair of GPU timestamps per       *)
(* metric, that are read back without waiting a few frames later.  The GPU  *)
(* answers queries in the order in which they were issued.                  *)
(***************************************************************************)
EXTENDS Naturals, Sequences, SequencesExt, FiniteSets, Functions

CONSTANTS
  Metrics,  \* names of metrics
  Latency   \* frame_latency: slots of the ring

ASSUME ProfilerAssumption == Latency \in Nat \ {0, 1}

VARIABLES
  slots,      \* the ring
  current, frameOpen, enabled,
  known,      \* metric_list: the metrics that have an id
  cpuOpen,    \* metrics between begin_cpu and end_cpu
  issued,     \* queries the GPU has not answered, oldest first
  samples     \* per metric, whether what was accumulated last is of one frame

profilerVars == <<slots, current, frameOpen, enabled, known, cpuOpen, issued, samples>>

Ring == 0..Latency - 1

\* start and stop tell whether the answer is of the frame that the slot holds now.
NoTimer == [open |-> FALSE, recorded |-> FALSE, start |-> FALSE, stop |-> FALSE]

NoFrame == [pending |-> FALSE, disjoint |-> FALSE, timers |-> [m \in Metrics |-> NoTimer]]

FreshProfiler ==
  /\ slots = [i \in Ring |-> NoFrame]
  /\ current = 0 /\ frameOpen = FALSE
  /\ known = {} /\ cpuOpen = {} /\ issued = <<>>
  /\ samples = [m \in Metrics |-> TRUE]

ProfilerInit == FreshProfiler /\ enabled = TRUE

\* Nothing is measured.
NoProfiler == FreshProfiler /\ enabled = FALSE

Query(slot, metric, end) == [slot |-> slot, metric |-> metric, end |-> end, now |-> TRUE]

\* id(), which every call by name goes through.
Known(metric) == known' = known \union {metric}

\* timer()
Timed == frameOpen

-------------------------------------------------------------------------------
(* collect(): GetData answers S_FALSE while the last issue of a query is outstanding. *)

Outstanding(slot, metric, end) ==
  \E i \in DOMAIN issued :
    issued[i].slot = slot /\ issued[i].metric = metric /\ issued[i].end = end

\* Mutant: the answer to the second timestamp is not awaited.
ReadyStarted(slot) ==
  \A m \in Metrics : slots[slot].timers[m].recorded => ~Outstanding(slot, m, "start")

Ready(slot) ==
  /\ \A m \in Metrics : slots[slot].timers[m].recorded =>
       ~Outstanding(slot, m, "start") /\ ~Outstanding(slot, m, "stop")
  /\ ~Outstanding(slot, "", "disjoint")

\* Mutant: the scan ends before it is around.
VisitsOthers == 1..Latency - 1

Visits == 1..Latency

\* The slots of one begin_frame, from the one after current on, up to one that is not ready.
Collected ==
  LET order == [i \in Visits |-> (current + i) % Latency]
      Stops(i) == slots[order[i]].pending /\ ~Ready(order[i])
  IN  {order[i] : i \in {i \in Visits :
         slots[order[i]].pending /\ \A j \in 1..i : ~Stops(j)}}

\* Of several slots, the one collected last gives the sample.
Newest(metric, ring) ==
  CHOOSE s \in ring :
    /\ slots[s].timers[metric].recorded
    /\ \A o \in ring : slots[o].timers[metric].recorded =>
         (o - current - 1) % Latency <= (s - current - 1) % Latency

Sampled(metric, ring) == \E s \in ring : slots[s].timers[metric].recorded

Accumulate(ring) ==
  [m \in Metrics |->
     IF Sampled(m, ring)
     THEN LET s == slots[Newest(m, ring)] IN
          s.timers[m].start /\ s.timers[m].stop /\ s.disjoint
     ELSE samples[m]]

-------------------------------------------------------------------------------
(* Frames *)

\* end_frame
Ended(ring) == [ring EXCEPT ![current].pending = TRUE]

EndFrame ==
  /\ frameOpen
  /\ slots' = Ended(slots)
  /\ issued' = Append(issued, Query(current, "", "disjoint"))
  /\ current' = (current + 1) % Latency
  /\ frameOpen' = FALSE
  /\ UNCHANGED <<enabled, known, cpuOpen, samples>>

\* A slot after collect().
Freed(slot) ==
  [slot EXCEPT !.pending = FALSE,
               !.timers = [m \in Metrics |-> [slot.timers[m] EXCEPT !.recorded = FALSE]]]

Begins(ring) == ~slots[current].pending \/ current \in ring

\* begin_frame, that an exception may have left without its end_frame: then that comes first.
BeginFrame ==
  /\ ~frameOpen
  /\ IF ~enabled THEN UNCHANGED <<slots, frameOpen, issued, samples>>
     ELSE LET ring == Collected IN
          /\ samples' = Accumulate(ring)
          /\ frameOpen' = Begins(ring)
          /\ slots' = [i \in Ring |->
               IF i = current /\ Begins(ring) THEN NoFrame
               ELSE IF i \in ring THEN Freed(slots[i]) ELSE slots[i]]
          /\ issued' = [k \in DOMAIN issued |->
               IF Begins(ring) /\ issued[k].slot = current
               THEN [issued[k] EXCEPT !.now = FALSE] ELSE issued[k]]
  /\ UNCHANGED <<current, enabled, known, cpuOpen>>

-------------------------------------------------------------------------------
(* Timers *)

BeginGpu(m) ==
  /\ Known(m)
  /\ IF ~Timed THEN UNCHANGED <<slots, issued>>
     ELSE /\ slots' = [slots EXCEPT ![current].timers[m] =
                          [@ EXCEPT !.open = TRUE, !.recorded = FALSE]]
          /\ issued' = Append(issued, Query(current, m, "start"))
  /\ UNCHANGED <<current, frameOpen, enabled, cpuOpen, samples>>

EndGpu(m) ==
  /\ Known(m)
  /\ IF ~Timed \/ ~slots[current].timers[m].open THEN UNCHANGED <<slots, issued>>
     ELSE /\ slots' = [slots EXCEPT ![current].timers[m] =
                          [@ EXCEPT !.open = FALSE, !.recorded = TRUE]]
          /\ issued' = Append(issued, Query(current, m, "stop"))
  /\ UNCHANGED <<current, frameOpen, enabled, cpuOpen, samples>>

BeginCpu(m) ==
  /\ Known(m) /\ cpuOpen' = IF enabled THEN cpuOpen \union {m} ELSE cpuOpen
  /\ UNCHANGED <<slots, current, frameOpen, enabled, issued, samples>>

EndCpu(m) ==
  /\ Known(m) /\ cpuOpen' = cpuOpen \ {m}
  /\ UNCHANGED <<slots, current, frameOpen, enabled, issued, samples>>

Reset ==
  /\ cpuOpen' = {} /\ samples' = [m \in Metrics |-> TRUE]
  /\ UNCHANGED <<slots, current, frameOpen, enabled, known, issued>>

Enable ==
  /\ enabled' = ~enabled
  /\ UNCHANGED <<slots, current, frameOpen, known, cpuOpen, issued, samples>>

\* The GPU answers the oldest query.
Answer ==
  /\ issued # <<>>
  /\ issued' = Tail(issued)
  /\ LET q == Head(issued) IN
     slots' = CASE q.end = "start" -> [slots EXCEPT ![q.slot].timers[q.metric].start = q.now]
                [] q.end = "stop"  -> [slots EXCEPT ![q.slot].timers[q.metric].stop = q.now]
                [] OTHER           -> [slots EXCEPT ![q.slot].disjoint = q.now]
  /\ UNCHANGED <<current, frameOpen, enabled, known, cpuOpen, samples>>

-------------------------------------------------------------------------------
\* A renderer begins and ends its metrics inside its frames, each once per frame.
Inside(m) ==
  \/ ~Timed
  \/ ~slots[current].timers[m].open /\ ~slots[current].timers[m].recorded

ProfilerNext ==
  \/ BeginFrame \/ EndFrame \/ Answer \/ Reset \/ Enable
  \/ \E m \in Metrics :
       \/ Inside(m) /\ BeginGpu(m)
       \/ EndGpu(m) \/ BeginCpu(m) \/ EndCpu(m)

\* The GPU goes on, and so do the frames.
ProfilerFairness == WF_profilerVars(Answer) /\ WF_profilerVars(BeginFrame \/ EndFrame)

ProfilerSpec == ProfilerInit /\ [][ProfilerNext]_profilerVars /\ ProfilerFairness

-------------------------------------------------------------------------------
(* Properties *)

\* The two timestamps of a sample and the frequency it is divided by are of one frame, however
\* late the GPU is and whatever frame a renderer left by an exception.
SamplesOfOneFrame == \A m \in Metrics : samples[m]

\* An enabled profiler goes on measuring: a ring whose slots all wait for the GPU is
\* collected again, in whatever order the answers come.
MeasuresOn == []<>(frameOpen \/ ~enabled)
===============================================================================
