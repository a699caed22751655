-------------------------------- MODULE MCGpu --------------------------------
(***************************************************************************)
(* The GPU side for TLC: the patterned backend, the scans of its draws, the  *)
(* slots its passes bind and the textures of the library.  part says which   *)
(* of them a behaviour runs; each takes the others for what they promise, so *)
(* they share no state.                                                     *)
(***************************************************************************)
EXTENDS BezierPatternRenderer, DrawScans, TextureBindings, CurveBindings

VARIABLE part

ASSUME MCGpuAssumption == TexturesAssumption /\ BindingsAssumption

\* One curve too short to own a centre, one that owns one alone, one without spacing, one
\* of another resolution or colour.
MCCurves ==
  {[length |-> 3, spacing |-> 2, resolution |-> 2, color |-> 0],
   [length |-> 3, spacing |-> 2, resolution |-> 2, color |-> 1],
   [length |-> 0, spacing |-> 2, resolution |-> 2, color |-> 0],
   [length |-> 1, spacing |-> 2, resolution |-> 2, color |-> 0],
   [length |-> 3, spacing |-> 0, resolution |-> 2, color |-> 0],
   [length |-> 3, spacing |-> 2, resolution |-> 3, color |-> 0]}

Short == 1 .. 6

\* Every placement of begins in up to six elements, and two levels of block sums
\* above twenty-two.
MCDistanceCalls ==
  UNION {[capacity : {n, 6}, count : {n}, flags : SUBSET (0 .. n - 1)] : n \in Short}
    \cup [capacity : {24}, count : {22}, flags : SUBSET {3, 9, 17, 21}]

MCOffsetCalls ==
  {c \in [capacity : {1, 3, 4, 15, 16}, count : 1 .. 16, append : BOOLEAN] :
     c.count <= c.capacity}

MCInit ==
  /\ part \in {"backend", "scans", "bindings", "textures"}
  /\ Init /\ ScansInit /\ BindingsInit /\ TexturesInit

MCNext ==
  /\ UNCHANGED part
  /\ \/ /\ part = "backend" /\ Next
        /\ UNCHANGED <<scanVars, bindingVars, textureVars>>
     \/ /\ part = "scans" /\ ScansNext
        /\ UNCHANGED <<renderer, bindingVars, textureVars>>
     \/ /\ part = "bindings" /\ BindingsNext
        /\ UNCHANGED <<renderer, scanVars, textureVars>>
     \/ /\ part = "textures" /\ TexturesNext
        /\ UNCHANGED <<renderer, scanVars, bindingVars>>

MCSpec ==
  MCInit /\ [][MCNext]_<<part, renderer, scanVars, bindingVars, textureVars>>

\* Both scans give the sums that a walk over the data gives.
ScansAddUp == SegmentSums /\ PrefixSums

\* What the next draw overwrites: every buffer while a resize is pending, those of the
\* dirty parts while an upload is, and the offsets before a recount.  States that differ in
\* nothing else behave alike, and BuffersSuffice was checked on the state whose buffers
\* they still hold.
Pending(r) ==
  LET stale(parts, new, old) == IF parts \cap r.uploadParts # {} THEN new ELSE old
      recount == stale({Positions, Styles, Layout}, TRUE, r.needRecount)
  IN  IF r.needResize
        THEN [r EXCEPT !.gpu = EmptyGpu, !.needUpload = FALSE, !.uploadParts = {},
                       !.bound = 0, !.totalPoints = 0, !.needRecount = TRUE]
        ELSE [r EXCEPT !.gpu.points = stale({Positions}, Blank, @),
                       !.gpu.colors = stale({Colors}, Blank, @),
                       !.gpu.styles = stale({Styles}, Blank, @),
                       !.gpu.offsets = IF recount THEN Blank ELSE @,
                       !.bound = stale({Positions, Styles}, 0, @),
                       !.needRecount = recount]

MCView == <<part, Pending(renderer), scanVars, bindingVars, textureVars>>
===============================================================================
