----------------------------- MODULE CurveBindings -----------------------------
(***************************************************************************)
(* The passes of a frame and the slots their shaders find their buffers in.  *)
(* Four renderers and their scans share one context; every pass binds what   *)
(* its kernel reads, runs it and unbinds.  A kernel whose slot holds          *)
(* something else reads garbage or zeros, and nothing reports it.            *)
(*                                                                         *)
(* A draw is a sequence of commands.  One binds a view at a place; one scans *)
(* a level; another runs a kernel and says what its registers are declared   *)
(* to be: the code that binds is C++, the declarations are HLSL.  Both name  *)
(* buffers as the patterned renderer does; dot_indices are its offsets, dots *)
(* its patterns.                                                            *)
(***************************************************************************)
EXTENDS GraphicsDeviceContext, Sequences

CONSTANT Depths  \* levels that a scan of a draw needs

BindingsAssumption == Depths \subseteq Nat \ {0}

VARIABLES
  bound,       \* place -> view
  todo,        \* commands left of the draw in flight
  running,     \* registers of the kernel that runs: pairs of place and view
  rest,        \* renderers that this frame has still to draw
  generation   \* reallocations of buffers and of the depth buffer, modulo two

bindingVars == <<bound, todo, running, rest, generation>>

Places ==
  {ShaderResource(stage, slot) : stage \in {"Vertex", "Pixel", "Compute"}, slot \in 0 .. 8}
    \cup {Unordered(slot) : slot \in 0 .. 4}
    \cup {Constants(stage, slot) : stage \in {"Vertex", "Pixel", "Compute"}, slot \in 0 .. 1}
    \cup {State("Shaders"), State("Topology"), RenderTarget, DepthStencil}

BindingsInit ==
  /\ bound = [p \in Places |-> None]
  /\ todo = <<>> /\ running = {} /\ rest = {}
  /\ generation = [buffers |-> 0, depth |-> 0]

-------------------------------------------------------------------------------
(***************************************************************************)
(* Commands.                                                                *)
(***************************************************************************)

\* The buffer called name of renderer r, as it was last allocated.
Buffer(r, name) ==
  View(<<r, name, IF name \in {"viewport_data", "draw_args"} THEN 0 ELSE generation.buffers>>, {0})

\* The scans' own buffers, one set for every level, are allocated once.
Level(r, name, level) == View(<<r, name, level>>, {0})

\* What takes no part in conflicts: shaders, states, a topology.
Setting(name) == View(<<name>>, {})

Back  == View(<<"swapchain", "BackBuffer">>, {0})
Depth == View(<<"app", "depth", generation.depth>>, {0})

\* Pairs of place and name, for renderer r.
Of(r, pairs) == [i \in DOMAIN pairs |-> <<pairs[i][1], Buffer(r, pairs[i][2])>>]

\* One Bind call each, in the order of the code.
Binds(pairs) ==
  [i \in DOMAIN pairs |-> [do |-> "bind", at |-> pairs[i][1], view |-> pairs[i][2]]]

\* What the kernel declares its registers to be.
Run(registers) ==
  <<[do |-> "run", declared |-> {registers[i] : i \in DOMAIN registers}]>>

\* A call of ScanLevel for one level of so many.
ScanLevel(scan, r, values, level, levels) ==
  <<[do |-> "scan", scan |-> scan, of |-> r, values |-> values, level |-> level, levels |-> levels]>>

UnbindShaderResources(stage, slots) ==
  Binds([i \in DOMAIN slots |-> <<ShaderResource(stage, slots[i]), None>>])

\* Mutant: the views stay where they are.
UnbindsNothing(slots) == <<>>

UnbindUnorderedAccessViews(slots) ==
  Binds([i \in DOMAIN slots |-> <<Unordered(slots[i]), None>>])

\* Registers as HLSL names them, of compute shaders and of the vertex shader.
CsB(slot) == Constants("Compute", slot)
CsT(slot) == ShaderResource("Compute", slot)
CsU(slot) == Unordered(slot)
VsT(slot) == ShaderResource("Vertex", slot)

-------------------------------------------------------------------------------
(***************************************************************************)
(* Scans.  The next level reads the block flags that this one wrote, and     *)
(* rebinds the slots of this one; all levels of a scan run the same kernels. *)
(***************************************************************************)

ScannedAt(r, values, level) ==
  IF level = 1 THEN Buffer(r, values) ELSE Level(r, "blockSums", level - 1)

FlagsAt(r, level) ==
  IF level = 1 THEN Buffer(r, "curve_begins") ELSE Level(r, "blockFlags", level - 1)

SegmentedLevel(r, values, level, levels) ==
  LET constants == <<CsB(0), Level(r, "segmented", level)>>
      scanned   == <<CsU(0), ScannedAt(r, values, level)>>
      flags     == <<CsT(0), FlagsAt(r, level)>>
      sums      == <<CsU(2), Level(r, "blockSums", level)>>
      ends      == <<CsU(3), Level(r, "blockFlags", level)>>
      begin     == <<CsU(4), Level(r, "firstBegin", level)>>
      local     == <<constants, scanned, flags, sums, ends, begin>>
      offsets   == <<constants, scanned, sums, begin>>
  IN  Binds(local) \o Run(local)
        \o (IF level = levels THEN <<>>
            ELSE UnbindUnorderedAccessViews(<<3>>)
                   \o ScanLevel("segmented", r, values, level + 1, levels)
                   \o Binds(offsets) \o Run(offsets))
        \o UnbindShaderResources("Compute", <<0>>)
        \o UnbindUnorderedAccessViews(<<0, 2, 3, 4>>)

ParallelLevel(r, values, level, levels) ==
  LET pass == <<<<CsB(0), Level(r, "parallel", level)>>, <<CsU(0), ScannedAt(r, values, level)>>,
                <<CsU(1), Level(r, "blockSums", level)>>>>
  IN  Binds(pass) \o Run(pass)
        \o (IF level = levels THEN <<>>
            ELSE ScanLevel("parallel", r, values, level + 1, levels) \o Binds(pass) \o Run(pass))
        \o UnbindUnorderedAccessViews(<<0, 1>>)

-------------------------------------------------------------------------------
(***************************************************************************)
(* What the kernels declare.                                                *)
(***************************************************************************)

\* CurveCalcPoints, DotCalcPoints.
CalcPoints ==
  <<<<CsB(0), "viewport_data">>, <<CsT(0), "curve_control_points">>,
    <<CsT(1), "bezier_data_map">>, <<CsT(2), "curve_indices">>, <<CsU(0), "distances">>>>

\* CurvePatternIni, DotIni.
Ini ==
  <<<<CsB(0), "viewport_data">>, <<CsT(0), "curve_indices">>, <<CsT(1), "distances">>,
    <<CsT(2), "curve_styles">>, <<CsU(0), "offsets">>>>

DotArgs == <<<<CsB(0), "viewport_data">>, <<CsU(0), "offsets">>, <<CsU(1), "draw_args">>>>

CurvePatternCalc ==
  <<<<CsB(0), "viewport_data">>, <<CsT(0), "curve_indices">>, <<CsT(1), "distances">>,
    <<CsT(2), "curve_begins">>, <<CsT(3), "curve_styles">>, <<CsT(4), "offsets">>,
    <<CsU(0), "patterns">>>>

DotCalc ==
  <<<<CsB(0), "viewport_data">>, <<CsT(0), "curve_indices">>, <<CsT(1), "distances">>,
    <<CsT(3), "curve_styles">>, <<CsT(4), "offsets">>, <<CsU(0), "patterns">>>>

\* SolidVert; CurveVs and CurvePs read more.
SolidVert ==
  <<<<Constants("Vertex", 1), "viewport_data">>, <<VsT(3), "curve_control_points">>,
    <<VsT(4), "bezier_data_map">>, <<VsT(5), "curve_colors">>, <<VsT(6), "curve_styles">>,
    <<VsT(7), "curve_indices">>>>

CurveVsAndPs ==
  SolidVert \o <<<<VsT(0), "distances">>, <<VsT(8), "offsets">>,
                 <<ShaderResource("Pixel", 1), "patterns">>>>

DotVert ==
  <<<<Constants("Vertex", 1), "viewport_data">>, <<VsT(3), "curve_control_points">>,
    <<VsT(4), "patterns">>, <<VsT(5), "curve_colors">>, <<VsT(6), "curve_styles">>>>

LineVert ==
  <<<<Constants("Vertex", 1), "viewport_data">>, <<VsT(3), "curve_control_points">>,
    <<VsT(4), "bezier_data_map">>, <<VsT(5), "curve_colors">>, <<VsT(6), "curve_indices">>>>

\* A draw writes the back buffer, with the shaders of renderer r.
Output(r, topology) ==
  <<<<RenderTarget, Back>>, <<DepthStencil, Depth>>,
    <<State("Shaders"), Setting(r)>>, <<State("Topology"), Setting(topology)>>>>

-------------------------------------------------------------------------------
(***************************************************************************)
(* Passes.                                                                  *)
(***************************************************************************)

RunPointPass(r, depth) ==
  Binds(Of(r, <<<<CsB(0), "viewport_data">>, <<CsT(0), "curve_control_points">>,
                <<CsT(1), "bezier_data_map">>, <<CsT(2), "curve_indices">>,
                <<CsU(0), "distances">>>>))
    \o Run(Of(r, CalcPoints))
    \o UnbindShaderResources("Compute", <<0, 1, 2>>)
    \o UnbindUnorderedAccessViews(<<0>>)
    \o ScanLevel("segmented", r, "distances", 1, depth)

\* And CountDots up to its arguments.
CountPatternCenters(r, depth) ==
  Binds(Of(r, <<<<CsB(0), "viewport_data">>, <<CsT(0), "curve_indices">>,
                <<CsT(1), "distances">>, <<CsT(2), "curve_styles">>, <<CsU(0), "offsets">>>>))
    \o Run(Of(r, Ini))
    \o UnbindShaderResources("Compute", <<0, 1, 2>>)
    \o UnbindUnorderedAccessViews(<<0>>)
    \o ScanLevel("parallel", r, "offsets", 1, depth)

\* "The scan bound its own constants at b0, so rebind."
CountDots(r, depth) ==
  CountPatternCenters(r, depth)
    \o Binds(Of(r, <<<<CsB(0), "viewport_data">>, <<CsU(0), "offsets">>,
                     <<CsU(1), "draw_args">>>>))
    \o Run(Of(r, DotArgs))
    \o UnbindUnorderedAccessViews(<<0, 1>>)

RunPatternPass(r) ==
  Binds(Of(r, <<<<CsB(0), "viewport_data">>, <<CsT(0), "curve_indices">>,
                <<CsT(1), "distances">>, <<CsT(2), "curve_begins">>, <<CsT(3), "curve_styles">>,
                <<CsT(4), "offsets">>, <<CsU(0), "patterns">>>>))
    \o Run(Of(r, CurvePatternCalc))
    \o UnbindShaderResources("Compute", <<0, 1, 2, 3, 4>>)
    \o UnbindUnorderedAccessViews(<<0>>)

RunDotPlacementPass(r) ==
  Binds(Of(r, <<<<CsB(0), "viewport_data">>, <<CsT(0), "curve_indices">>,
                <<CsT(1), "distances">>, <<CsT(3), "curve_styles">>, <<CsT(4), "offsets">>,
                <<CsU(0), "patterns">>>>))
    \o Run(Of(r, DotCalc))
    \o UnbindShaderResources("Compute", <<0, 1, 3, 4>>)
    \o UnbindUnorderedAccessViews(<<0>>)

\* The draw call: Pipeline::Bind, the buffers, the cameras, the topology.
DrawCall(r, buffers, topology, kernel, unbound) ==
  Binds(<<<<State("Shaders"), Setting(r)>>>>)
    \o Binds(Of(r, buffers)) \o Binds(Of(r, <<<<Constants("Vertex", 1), "viewport_data">>>>))
    \o Binds(<<<<State("Topology"), Setting(topology)>>>>)
    \o Run(Of(r, kernel) \o Output(r, topology))
    \o UnbindShaderResources("Vertex", unbound)

BindCurveData(control_point_slot, color_slot, index_slot) ==
  <<<<VsT(control_point_slot), "curve_control_points">>, <<VsT(color_slot), "curve_colors">>,
    <<VsT(index_slot), "curve_indices">>>>

\* Dots have no map at t4, but their centres.
DrawSolid(r) ==
  DrawCall(r, BindCurveData(3, 5, 7)
                \o <<<<VsT(4), "bezier_data_map">>, <<VsT(6), "curve_styles">>>>,
           "TRIANGLESTRIP", SolidVert, <<3, 4, 5, 6, 7>>)

DrawPatterned(r) ==
  DrawCall(r, <<<<VsT(0), "distances">>>> \o BindCurveData(3, 5, 7)
                \o <<<<VsT(4), "bezier_data_map">>, <<VsT(6), "curve_styles">>,
                     <<VsT(8), "offsets">>, <<ShaderResource("Pixel", 1), "patterns">>>>,
           "TRIANGLESTRIP", CurveVsAndPs, <<0, 3, 4, 5, 6, 7, 8>>)
    \o UnbindShaderResources("Pixel", <<1>>)

DrawDots(r) ==
  DrawCall(r, <<<<VsT(3), "curve_control_points">>, <<VsT(4), "patterns">>,
                <<VsT(5), "curve_colors">>, <<VsT(6), "curve_styles">>>>,
           "TRIANGLESTRIP", DotVert, <<3, 4, 5, 6>>)

DrawLines(r) ==
  DrawCall(r, BindCurveData(3, 5, 6) \o <<<<VsT(4), "bezier_data_map">>>>,
           "LINELIST", LineVert, <<3, 4, 5, 6>>)

\* Draw of a renderer that has something to draw.  A patterned draw and a dotted one
\* sum distances in every frame, count centres when something changed, and place
\* them if there can be any.
DrawCommands(r, recounts, centers, distances, counts) ==
  CASE r = "solid" -> DrawSolid(r)
    [] r = "lines" -> DrawLines(r)
    [] r = "patterned" ->
         RunPointPass(r, distances)
           \o (IF recounts THEN CountPatternCenters(r, counts) ELSE <<>>)
           \o (IF centers THEN RunPatternPass(r) ELSE <<>>)
           \o DrawPatterned(r)
    [] r = "dots" ->
         RunPointPass(r, distances)
           \o (IF recounts THEN CountDots(r, counts) ELSE <<>>)
           \o (IF centers THEN RunDotPlacementPass(r) \o DrawDots(r) ELSE <<>>)

-------------------------------------------------------------------------------
(***************************************************************************)
(* A frame.                                                                 *)
(***************************************************************************)

\* BezierRenderer draws in this order, and the lines come last.
Order == <<"solid", "patterned", "dots", "lines">>

BetweenDraws  == todo = <<>> /\ running = {}
BetweenFrames == BetweenDraws /\ rest = {} /\ bound[RenderTarget] = None

\* Up to the first draw, of those that have curves.
Iterate(visible) ==
  /\ BetweenFrames
  /\ bound' = Bound(Bound(bound, RenderTarget, Back), DepthStencil, Depth)
  /\ rest' = visible
  /\ UNCHANGED <<todo, running, generation>>

\* UpdateBuffers, AllocatePatternBuffer, AllocateDotBuffer: before a draw binds.
Reallocate ==
  /\ BetweenDraws /\ rest # {}
  /\ generation' = [generation EXCEPT !.buffers = 1 - @]
  /\ UNCHANGED <<bound, todo, running, rest>>

BeginDraw(recounts, centers, distances, counts) ==
  /\ BetweenDraws
  /\ \E i \in DOMAIN Order :
       /\ Order[i] \in rest /\ \A j \in 1 .. i - 1 : Order[j] \notin rest
       /\ todo' = DrawCommands(Order[i], recounts, centers, distances, counts)
       /\ rest' = rest \ {Order[i]}
  /\ UNCHANGED <<bound, running, generation>>

\* The next command is issued.
Issue(do) == todo # <<>> /\ Head(todo).do = do /\ UNCHANGED <<rest, generation>>

BindNext ==
  /\ Issue("bind")
  /\ bound' = Bound(bound, Head(todo).at, Head(todo).view)
  /\ todo' = Tail(todo) /\ running' = {}

RunKernel ==
  /\ Issue("run")
  /\ todo' = Tail(todo) /\ running' = Head(todo).declared
  /\ UNCHANGED bound

\* ScanLevel is entered.
EnterLevel ==
  /\ Issue("scan")
  /\ LET c == Head(todo) IN
     todo' = (IF c.scan = "segmented" THEN SegmentedLevel(c.of, c.values, c.level, c.levels)
              ELSE ParallelLevel(c.of, c.values, c.level, c.levels)) \o Tail(todo)
  /\ running' = {}
  /\ UNCHANGED bound

\* A swap chain that flips takes its buffer from the output when it presents it.
Present ==
  /\ BetweenDraws /\ rest = {} /\ bound[RenderTarget] # None
  /\ bound' = Bound(bound, RenderTarget, None)
  /\ UNCHANGED <<todo, running, rest, generation>>

\* App::Event: the old depth buffer stays bound until the next frame.
Resize ==
  /\ BetweenFrames
  /\ generation' = [generation EXCEPT !.depth = 1 - @]
  /\ UNCHANGED <<bound, todo, running, rest>>

BindingsNext ==
  \/ \E visible \in SUBSET {"solid", "patterned", "dots", "lines"} : Iterate(visible)
  \/ Reallocate
  \/ \E recounts, centers \in BOOLEAN, distances, counts \in Depths :
       BeginDraw(recounts, centers, distances, counts)
  \/ BindNext \/ RunKernel \/ EnterLevel
  \/ Present
  \/ Resize

BindingsSpec == BindingsInit /\ [][BindingsNext]_bindingVars

-------------------------------------------------------------------------------
(***************************************************************************)
(* Properties.                                                              *)
(***************************************************************************)

\* Every kernel finds in each of its registers the buffer it is declared to be.
BindsWhatItReads == \A register \in running : bound[register[1]] = register[2]

\* Between two draws no buffer is bound to any shader.
LeavesNothingBound ==
  BetweenDraws =>
    \A p \in Places : p.kind \in {"srv", "uav"} => bound[p] = None

\* A kernel reads what its registers say, whichever renderers drew before it and whatever the
\* scans between its passes bound: no view is refused because its buffer is still bound
\* for writing, none is of a buffer that was reallocated since, and no scan's constants are left
\* over.  And a draw leaves nothing bound, so that the next one may write each buffer.
BindingsHold == BindsWhatItReads /\ LeavesNothingBound

===============================================================================
