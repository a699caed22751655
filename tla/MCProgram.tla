------------------------------ MODULE MCProgram ------------------------------
(***************************************************************************)
(* What is safe in the program and its library by itself, for TLC: the      *)
(* frames of the application, its splines and its camera, events without    *)
(* threads that wait, the allocator, the container, background work, what   *)
(* is stored and images.  They share no state: part says which one a        *)
(* behaviour runs.                                                          *)
(***************************************************************************)
EXTENDS EventHandlers, BufferAllocator, DependencyContainer, AsyncOperations, ComparerApp, OrbitalCamera,
        Splines, TLC

CONSTANTS t1, t2

VARIABLES
  part,
  stream, answer,
  writer, object, wire, reader, readAs, result,
  document, text, parsed,
  original, json, edit, target,
  texture, picture, sourceRect, selection, spoiled, edits

\* Two Hermite splines and a Catmull-Rom spline.
MCEnds == [first |-> 0, second |-> 0, third |-> 1]
MCTints == [first |-> {0, 1}, second |-> {0, 1}, third |-> {}]
MCStyles == [first |-> {}, second |-> {}, third |-> {0, 1}]

MCPanels == {[caps |-> "round", look |-> "solid", resolution |-> 4],
             [caps |-> "butt",  look |-> "dots",  resolution |-> 3]}

\* A range of nine bytes, and requests with and without alignment gaps.
MCRequests == [size : {1, 2, 3}, alignment : {1, 2, 4}]

-------------------------------------------------------------------------------
(* The container: an application that needs the log, which nobody can build  *)
(* by default.                                                               *)

MCNeeds == [app |-> <<"log">>, log |-> <<>>]
MCRank == [app |-> 2, log |-> 1]
MCSetups ==
  {<<"instance", "root", "log">>, <<"instance", "child", "log">>, <<"create", "root", "app">>,
   <<"transient", "root", "app">>, <<"alias", "child", "app">>}

-------------------------------------------------------------------------------
(* What is stored *)

Streaming == INSTANCE Streams WITH
  Letters <- {"a"}, Chunk <- 2, Size <- 5, SizeWord <- 64, MaxLength <- 5

Property(name, kind, min, max) ==
  [name |-> name, kind |-> kind, min |-> min, max |-> max, target |-> "creature"]
LastVersion == 65535

\* Three releases: the second retires a property and adds one, the third adds one to
\* the base and retires one of a derived type.
MCDescriptor(release) ==
  [creature |->
     [id |-> 1, version |-> release,
      properties |->
        <<Property("name", "value", 0, LastVersion),
          Property("weight", "value", 0, IF release = 1 THEN LastVersion ELSE 1)>>
        \o (IF release >= 2 THEN <<Property("tags", "items", 2, LastVersion)>> ELSE <<>>)
        \o (IF release = 3 THEN <<Property("rank", "value", 3, LastVersion)>> ELSE <<>>)],
   hound |->
     [id |-> 2, version |-> release, properties |-> <<Property("prey", "pointer", 0, LastVersion)>>],
   stallion |->
     [id |-> 3, version |-> release,
      properties |-> <<Property("speed", "value", 0, IF release = 3 THEN 2 ELSE LastVersion)>>]]

CreatureNames(release) ==
  {"type", "name", "weight"} \cup (IF release >= 2 THEN {"tags"} ELSE {})
                             \cup (IF release = 3 THEN {"rank"} ELSE {})

Creature(type, tags, prey) ==
  [type |-> type, name |-> 1, weight |-> 2, tags |-> tags, rank |-> 5, speed |-> 7, prey |-> prey]

\* Objects of a release: creatures and stallions, and hounds that point at nothing,
\* at those and at hounds.
MCObjects(release) ==
  LET none == [type |-> "nullptr"]
      cut(o, names) == [n \in names |-> o[n]]
      plain == {none}
        \cup {cut(Creature("creature", tags, none), CreatureNames(release)) : tags \in {<<>>, <<3, 4>>}}
        \cup {cut(Creature("stallion", <<6>>, none), CreatureNames(release) \cup {"speed"})}
      hounds(preys) ==
        {cut(Creature("hound", <<8, 9>>, p), CreatureNames(release) \cup {"prey"}) : p \in preys}
  IN  plain \cup hounds(plain \cup hounds(plain))

Binary == INSTANCE BinarySchema WITH
  Releases <- 1 .. 3, Types <- {"creature", "hound", "stallion"}, Roots <- {"creature"},
  Base <- [hound |-> "creature", stallion |-> "creature"], Abstract <- {},
  Descriptor <- [r \in 1 .. 3 |-> MCDescriptor(r)], Specimens <- [r \in 1 .. 3 |-> MCObjects(r)]

Literal(x) == [literal |-> x]

\* Every string of two characters that JSON treats apart, and nested documents.
MCDocuments ==
  LET strings == UNION {[1 .. n -> {"a", "n", "0", "quote", "backslash", "newline", "space", "zero"}] : n \in 0 .. 2}
      few == {[number |-> 127], [string |-> <<"quote", ",">>], [array |-> <<>>], [object |-> <<>>]}
      arrays == {[array |-> items] : items \in UNION {[1 .. n -> few] : n \in 0 .. 2}}
      names == {<<>>, <<"zero">>, <<"newline", "n">>, <<"quote">>, <<"a", "backslash">>}
      objects == {[object |-> <<>>]} \cup {[object |-> <<<<<<"a">>, v>>>>] : v \in few}
        \cup {[object |-> <<<<name, [string |-> <<"n", "zero", "a">>]>>>>] : name \in names}
        \cup {[object |-> <<<<<<"a">>, v>>, <<<<"n">>, w>>>>] : v \in few, w \in few \cup arrays}
  IN  {Literal("null"), Literal("true")} \cup {[number |-> n] : n \in {0, 7, 12, 127, 996}} \cup {[string |-> s] : s \in strings}
        \cup arrays \cup objects \cup {[array |-> <<v>>] : v \in objects}

Text == INSTANCE JsonText WITH Precision <- 2, Documents <- MCDocuments

Field(name, kind) == [name |-> name, kind |-> kind, target |-> "animal"]

MCAnimals ==
  LET small == [type : {"animal"}, age : {1}, names : {<<>>, <<2, 3>>}]
                 \cup [type : {"dog"}, age : {4}, names : {<<5>>}, training : {-1, 6}]
  IN  small \cup [type : {"horse"}, age : {7}, names : {<<>>}, foal : small, speed : {8}]

Json == INSTANCE JsonSchema WITH
  Types <- {"animal", "dog", "horse"}, Roots <- {"animal"},
  Base <- [dog |-> "animal", horse |-> "animal"],
  Own <- [animal |-> <<Field("age", "number"), Field("names", "array")>>,
          dog |-> <<Field("training", "optional")>>,
          horse |-> <<Field("foal", "pointer"), Field("speed", "number")>>],
  Discriminator <- [T \in {"animal", "dog", "horse"} |-> "$type"],
  Specimens <- MCAnimals, object <- original

-------------------------------------------------------------------------------
(* Images *)

\* A picture whose pixels all differ, of a byte each.
MCPicture(width, height) ==
  [Width |-> width, Height |-> height,
   Pixels |-> [at \in (0 .. width - 1) \X (0 .. height - 1) |-> <<at[1] + (width * at[2])>>]]

\* Photos with every orientation, and images without.
Image == INSTANCE TextureData WITH
  Files <- [container : {"jpeg"}, orientation : 0 .. 8, picture : {MCPicture(2, 2)}]
             \cup [container : {"png"}, orientation : {6}, picture : {MCPicture(1, 3), MCPicture(3, 2)}],
  Sides <- {1, 2, 4}, Insets <- {MCPicture(2, 1)}, Paddings <- {0, 4}, MaxEdits <- 2,
  Crops <- {[Left |-> 1, Top |-> 0, Right |-> 4, Bottom |-> 1], [Left |-> 1, Top |-> 1, Right |-> 1, Bottom |-> 2]}

ASSUME MCProgramAssumption ==
  /\ SplineAssumption /\ Streaming!StreamsAssumption /\ Binary!SchemaAssumption /\ Json!SchemaAssumption

-------------------------------------------------------------------------------
(* The parts *)

streamVars == <<stream, answer>>
binaryVars == <<writer, object, wire, reader, readAs, result>>
textVars == <<document, text, parsed>>
jsonVars == <<original, json, edit, target>>
textureVars == <<texture, picture, sourceRect, selection, spoiled, edits>>
storeVars == <<streamVars, binaryVars, textVars, jsonVars>>
workVars == <<asyncVars, textureVars>>
programVars == <<appVars, splineVars, cameraVars>>
libraryVars == <<vars, allocatorVars, containerVars>>

\* The variables of a part that is not run.
NoSplines == splines = [n \in Names |-> [links |-> <<>>]] /\ order = <<>>
NoStream == stream = 0 /\ answer = 0
NoBinary == writer = 0 /\ object = 0 /\ wire = 0 /\ reader = 0 /\ readAs = 0 /\ result = 0
NoText == document = 0 /\ text = 0 /\ parsed = 0
NoImage == /\ texture = 0 /\ picture = 0 /\ sourceRect = 0 /\ selection = 0 /\ spoiled = 0
           /\ edits = 0
NoJson == original = 0 /\ json = 0 /\ edit = 0 /\ target = 0

MCInit ==
  /\ part \in {"frames", "hermite", "catmull-rom", "camera", "events", "allocator", "container",
               "streams", "binary", "text", "json", "work", "images"}
  /\ Init /\ AllocatorInit /\ DependencyInit /\ AsyncInit /\ AppInit /\ CameraInit
  /\ part # "frames" => gap = 2 /\ panel.caps = "butt"
  /\ IF part \in {"hermite", "catmull-rom"} THEN SplineInit ELSE NoSplines
  /\ IF part = "streams" THEN Streaming!StreamsInit ELSE NoStream
  /\ IF part = "binary" THEN Binary!SchemaInit ELSE NoBinary
  /\ IF part = "text" THEN Text!JsonInit ELSE NoText
  /\ IF part = "json" THEN Json!DescriptorInit ELSE NoJson
  /\ IF part = "images" THEN Image!TextureInit ELSE NoImage

Frames == part = "frames" /\ AppNext /\ UNCHANGED <<splineVars, cameraVars, libraryVars, storeVars, workVars>>

\* Splines of one kind, edited while they are alone, and mirrored ends that are no further out than
\* one, to keep the instance small.
Living == {n \in Names : splines[n].live}

SplinePart ==
  /\ part \in {"hermite", "catmull-rom"} /\ SplineNext
  /\ splines' # splines /\ Living' = Living => Cardinality(Living) = 1
  /\ \/ part = "hermite" /\ ~splines'["third"].live
     \/ /\ part = "catmull-rom" /\ \A i \in DOMAIN order' : order'[i].of = "third"
        /\ LET s == splines'["third"] IN s.front < 2 /\ s.back < 2
  /\ UNCHANGED <<appVars, cameraVars, libraryVars, storeVars, workVars>>

Camera == part = "camera" /\ CameraNext /\ UNCHANGED <<appVars, splineVars, libraryVars, storeVars, workVars>>

Events == part = "events" /\ CautiousNext /\ UNCHANGED <<programVars, allocatorVars, containerVars, storeVars, workVars>>

Allocator ==
  part = "allocator" /\ CautiousAllocatorNext /\ UNCHANGED <<programVars, vars, containerVars, storeVars, workVars>>

Resolving ==
  /\ part = "container" /\ DependencyNext
  /\ UNCHANGED <<programVars, vars, allocatorVars, storeVars, workVars>>

Store ==
  /\ \/ part = "streams" /\ Streaming!StreamsNext /\ UNCHANGED <<binaryVars, textVars, jsonVars>>
     \/ part = "binary" /\ Binary!SchemaNext /\ UNCHANGED <<streamVars, textVars, jsonVars>>
     \/ part = "text" /\ Text!JsonNext /\ UNCHANGED <<streamVars, binaryVars, jsonVars>>
     \/ part = "json" /\ Json!DescriptorNext /\ UNCHANGED <<streamVars, binaryVars, textVars>>
  /\ UNCHANGED <<programVars, libraryVars, workVars>>

Work ==
  /\ \/ part = "work" /\ AsyncNext /\ UNCHANGED textureVars
     \/ part = "images" /\ Image!TextureNext /\ UNCHANGED asyncVars
  /\ UNCHANGED <<programVars, libraryVars, storeVars>>

MCNext ==
  /\ UNCHANGED part
  /\ Frames \/ SplinePart \/ Camera \/ Events \/ Allocator \/ Resolving \/ Store \/ Work

MCSpec == MCInit /\ [][MCNext]_<<part, programVars, libraryVars, storeVars, workVars>>

-------------------------------------------------------------------------------
(* The properties, see the modules of the parts *)

\* What the program wrote to a stream, also in an older release, or finds there line by
\* line, it reads whole and in order.
StoredIsRead ==
  /\ part = "streams" => Streaming!LinesComeInOrder /\ Streaming!RestOrRefused
  /\ part = "binary" => Binary!OldStreamsAreUnderstood

\* A JSON text gives back the document, and the document the object, or it is refused.
JsonReadsBack ==
  /\ part = "text" => Text!ParsesWhatWasWritten
  /\ part = "json" => Json!ReadsBackOrRefuses

\* The bytes of an image show its picture, and the rectangles about it say what is there.
ImagesShow ==
  part = "images" =>
    /\ Image!BytesShowThePicture /\ Image!SourceRectIsInside
    /\ Image!BoxIsTight /\ Image!SelectionSlides

===============================================================================
