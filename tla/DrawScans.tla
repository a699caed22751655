------------------------------ MODULE DrawScans ------------------------------
(***************************************************************************)
(* The scans of a frame of the patterned backend (BezierPatternRenderer.cpp):*)
(* RunPointPass scans the chord lengths curve chain by curve chain, then     *)
(* CountPatternCenters scans the centre counts, with their total.            *)
(***************************************************************************)
EXTENDS Integers

CONSTANTS DistanceGroupSize, DistanceCalls, OffsetGroupSize, OffsetBanks, OffsetCalls

VARIABLES
  distanceCall, distances, distanceFlags, distanceBegins,
  distancePass, distancePending, distanceGroup, distanceShared, distanceStep,
  offsetCall, offsets, offsetPass, offsetPending, offsetGroup, offsetTree, offsetStep

distanceVars == <<distanceCall, distances, distanceFlags, distanceBegins,
                  distancePass, distancePending, distanceGroup, distanceShared, distanceStep>>

offsetVars == <<offsetCall, offsets, offsetPass, offsetPending, offsetGroup, offsetTree,
                offsetStep>>

scanVars == <<distanceVars, offsetVars>>

DistanceScan == INSTANCE SegmentedScan WITH
  GroupSize <- DistanceGroupSize, Calls <- DistanceCalls,
  call <- distanceCall, values <- distances, flags <- distanceFlags, begins <- distanceBegins,
  pass <- distancePass, pending <- distancePending, group <- distanceGroup,
  shared <- distanceShared, step <- distanceStep

OffsetScan == INSTANCE ParallelScan WITH
  GroupSize <- OffsetGroupSize, Banks <- OffsetBanks, Calls <- OffsetCalls,
  call <- offsetCall, buffers <- offsets, pass <- offsetPass, pending <- offsetPending,
  group <- offsetGroup, tree <- offsetTree, step <- offsetStep

ASSUME ScansAssumption == DistanceScan!ScanAssumption /\ OffsetScan!ScanAssumption

ScansInit == DistanceScan!Init /\ OffsetScan!Init

\* RunPointPass
MeasureCurves(c) ==
  /\ offsetPass.kind = "idle"
  /\ DistanceScan!Scan(c)
  /\ UNCHANGED offsetVars

\* CountPatternCenters, which reads the arc lengths before it scans its counts
CountCenters(c) ==
  /\ DistanceScan!Release
  /\ OffsetScan!Scan(c)

\* Draw() without need_recount: the centres of an earlier frame are kept
KeepCenters ==
  /\ DistanceScan!Release
  /\ UNCHANGED offsetVars

ScansNext ==
  \/ \E c \in DistanceCalls : MeasureCurves(c)
  \/ DistanceScan!ScanNext /\ UNCHANGED offsetVars
  \/ \E c \in OffsetCalls : CountCenters(c)
  \/ KeepCenters
  \/ OffsetScan!ScanNext /\ UNCHANGED distanceVars
  \/ OffsetScan!Release /\ UNCHANGED distanceVars

ScansSpec == ScansInit /\ [][ScansNext]_scanVars

-------------------------------------------------------------------------------

\* Every element gets the sum of those before it in its segment, wherever the
\* segments begin relative to the blocks of each level.
SegmentSums == DistanceScan!SegmentSums

\* The carry pass finds in each block its one first begin.
FirstBegins == DistanceScan!FirstBegins

\* Every element gets the sum of all before it, and the slot past the last one the
\* total, also when it lies in a block of its own.
PrefixSums == OffsetScan!PrefixSums

\* No dispatch writes past the block sums that were allocated when the scan was made.
SumsFit == OffsetScan!SumsFit

\* Threads between two barriers do not touch the same cell of shared memory.
NoRace == DistanceScan!NoRace /\ OffsetScan!NoRace

===============================================================================
