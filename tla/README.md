# CurveCPP in TLA+

A verification project for CurveCPP: a Direct3D 11 renderer for Bezier curves (`src/Comparer`) on
top of the general purpose library `axodox-common` (`src/axodox-common`). It holds models of the
parts whose correctness depends on long sequences of calls, on several threads or on counting,
the TLC configurations that check them on small instances, and TLAPS proofs of what holds for
every size.

Contents: [the system](#1-the-system), [modules and code](#2-modules-and-code),
[the runs](#3-the-runs), [fairness](#4-fairness), [proofs](#5-proofs),
[disagreements found](#6-disagreements-between-code-and-documentation),
[what is not modelled](#7-what-is-not-modelled-and-why), [plan](#8-plan),
[how to run](#9-how-to-run).

## 1. The system

### The renderer (`src/Comparer`)

| Component | State | Operations | Correct when |
|---|---|---|---|
| **Curve routing**: `BezierRenderer`, `BezierCurve`, the slot half of `BezierRendererBase` | per backend (solid, patterned, dotted) the parallel vectors `owners`, `styles`, `merged`; `removed_count`, `need_resize`, `marked`, `route_all`; `last_added`, `last_added_slots`; in every handle its backend and index | `Add`, `BezierCurve::Remove`, moving a handle, the setters that change the kind (`Spacing`, `DashLength`) or the chain (`Merged`), `Route`, `Draw`, the renderer's end | handles and slots point at each other; a chain (a stroke of merged curves) is drawn whole by the backend of its first curve; a stroke is never broken, joined to another, or lost by moving and compacting |
| **Curve buffers and pattern pipeline**: `BezierRendererBase`, `BezierPatternRenderer`, the compute shaders | dirty bits, `need_resize`, `need_upload`, `need_recount`, capacities, bound of the pattern centres, GPU copies of curve points, ranges, offsets, sample map, counts | all setters, `Draw` = compaction, reallocation, upload, sampling, scans, counting, placing | a draw shows what the handles say, whatever setters ran since the last one; nothing is written past a buffer; cached counts are not stale |
| **Dot and solid backends** | those of the base, and the dots' indirect draw arguments | as above | the instance count fits the buffer |
| **Scans**: `ParallelScan`, `SegmentedScan` and their shaders | one buffer per level: block sums, begin flags, first begins; shared memory of a work group | `Scan` = a local pass per level, then an addition per level | every element gets the sum of those before it (in its segment); blocks fit; threads do not race |
| **Bindings of the passes**: every `Draw` of the four renderers and the scans, with the register declarations of their shaders | what is bound at each stage and slot of the one immediate context | bind, dispatch or draw, unbind | a kernel finds in every register the buffer the code means; a frame leaves nothing bound |
| **Profiler** | a ring of frames with a pair of timestamp queries per metric | frames, GPU and CPU metrics, enabling, resetting | both times of a sample and its frequency are of one frame; measuring never stops |
| **Application**: `App`, `CurveApp` | scenes of two renderers side by side, dirty flags, clock, layout, test batches, panel of styles | a frame = `Update`, widgets, `Render` | both columns show the settings; a paused frame poses nothing; both columns hold the same curves |
| **Splines**: `HermiteSpline`, `CatmullRomSpline` | knots, links, one handle per link, changed knots | edits of knots, resizing, moving, `Update` | the links are those of the knots, and one spline is one stroke |
| **Orbital camera** | held keys, axes, speed | key and mouse events | with nothing held, nothing moves but by what was swallowed |
| Pipeline cache, camera matrices, window, line renderer | lookup tables, geometry | | |

A frame is one thread: the application changes curves through handles, then calls
`BezierRenderer::Draw`, which routes chains between backends, then compacts, uploads and draws
each of them. What is hard here is not concurrency but protocol: every setter must leave the
right marks and dirty bits for a draw that comes any number of calls later, and the slot indices
held by handles must survive every move. On the GPU side the threads of a work group run
concurrently between barriers and work groups run in any order, and what a shader reads is what
happens to be bound, which Direct3D changes on its own.

### The library (`src/axodox-common`)

| Component | State | Operations | Correct when |
|---|---|---|---|
| **Events** (`Infrastructure/Events.h`) | handlers by token, two lists of deferred changes, token counter, recursive mutex with a lock count | subscribe, destroy a subscription, raise (nested too), handlers that throw | a dropped subscription is silent; a dispatch calls the handlers it began with; deferred changes settle |
| **Event awaiter, `event_publisher::wait`** | `_waitingEvent`, `_firedEvent`, `_result`, `_isShuttingDown` | wait, handler, reset | arguments stay valid while held; nobody hangs |
| **Buffer allocator** (`Infrastructure/BufferAllocator.cpp`) | vector of free segments | `try_allocate`, `deallocate` | every byte has one owner; neighbours merge |
| **Dependency container** | registrations by type, each with a mutex and a lazily built service; children that clone the registrations of their root | add instances, types, transients and aliases, resolve, create a child | a service is one object, whoever asks first; threads that build do not hang |
| **Asynchronous operations, dispatcher** (`Threading`) | state, cancellation and event of an operation under one mutex; queue of the dispatcher | updates by workers, forwarded operations, cancel, invoke and process, join | every state is shown once, in order, and the last shown is the last set |
| Thread pool, parallel loops, recursion lock | | | |
| **Messaging channel** (`Networking/Messaging/TCP/TcpMessagingChannel.cpp`) | queue of outgoing messages, promises, `_isConnected`, socket, sender and receiver threads | send, cancel, open, both loops, heartbeat, disconnect, destroy | messages go out in order, every future answers and says the truth, the loss of the peer is noticed, `disconnected` is raised once, the destructor ends |
| **Messaging server** | connected channels, lock, shutdown flag, listener thread | accept, broadcast, a channel's end, destroy | connections are told of in order and freed; a broadcast reaches all; destruction ends |
| **Messaging client** | channel, lock, wake-up event, connection thread | connect, lose, reconnect, destroy | a healthy channel is kept, a lost one replaced; destruction ends |
| **Discovery** (`Networking/Discovery`, `UdpClient`) | announced and located services, a socket and a receiver thread each | announce, ask, answer | an announced service is found however the network behaves |
| **Streams, binary and JSON formats** (`Storage`, `Json`) | position and buffer; descriptors with versions | lines, strings, rests; write by one release, read by another; text and schema | what was written reads back, or is refused as a whole |
| **Graphics wrappers** (`Graphics`) | cached bindings of the device context; pixels, rows and strides of images | bind and unbind textures; crop, extend, scale, turn, convert, merge, store images | unbinding releases; the bytes of an image show its picture |
| Event aggregator, collections, settings, directory monitor, logger, sockets, addresses | tables, adapters, handles of the operating system | | |

Events connect the threads of the library: messaging channels, servers and the directory monitor
raise events in their own threads, and the program's handlers run there while the mutex of the
publisher is held. `event_awaiter` turns such a handler into a blocking wait, which is where the
mutex, the two auto reset events and the lifetime of the arguments meet.

`PROJECT.json` lists every component with its files and its state of modelling, and under
`hazards` each place where this code is hard to test, with the properties aimed at it.

## 2. Modules and code

| Module | Models | State and actions |
|---|---|---|
| `CurveSlots` | what the backends share: slots, chains (`IsChainStart`, `ContinuesChain`, `ChainFirst`), compaction (`CompactRemoved`) | constant operators on sequences of slots; a slot whose owner is `Nobody` is a gap |
| `BezierRenderer` | routing | `store` holds, per backend, the slots and counters, the marks, each handle's place (`at`) and `last_added`. One action per public call: `Add`, `Remove`, `Move`, `Spacing`, `DashLength`, `Merged`, `RouteOnly` (`Route()` alone, which is public), `Draw`, `Destroy`. `newest` is a history variable: the handle whose curve was added last |
| `CurveStrokes` | abstract specification: curves, styles and strokes, with no slots, backends, marks or gaps | `style`, `joins`, `newest`; `BezierRenderer` implements it with `joins <- Joins(store)` |
| `BezierPatternRenderer` | buffers, uploads and compute passes of the patterned backend, and the dots' instance count | `renderer`: slots, dirty bits, capacities and the contents of each GPU buffer. The setters, `Add`, `Remove` and `Draw`; `Segments` and `Centers` read the GPU buffers as the vertex and pixel shaders do, `PictureSegments` and `PictureCenters` are the reference computed from the curves alone |
| `SegmentedScan`, `ParallelScan` | the two scans: levels, passes, work groups in any order, threads in any order between barriers, shared memory | one action per shader step of a thread and per barrier of a group, `Scan` for the call on the CPU |
| `DrawScans` | a frame's use of both: arc lengths by segmented scan, centre offsets by parallel scan with appended total | composes the two by `INSTANCE ... WITH` |
| `GraphicsDeviceContext` | the hazard rules of Direct3D 11 (external) and the context's wrappers: what binding one view does to the others | operators on `bound` |
| `CurveBindings` | the draws of the four curve renderers and their scans as sequences of commands: bindings, kernels and calls of a scan's level | `todo` is the rest of a draw; a kernel names what its HLSL registers are declared to be, the binding what the C++ passes. `BindNext`, `RunKernel` and `EnterLevel` issue one command; the last puts the body of `ScanLevel`, with its own recursive call, in its place |
| `TextureBindings` | `Texture2D` and its kinds on the context, with the context's cache by which `Unbind` finds its places | `device` and `cached` are apart, since Direct3D does not tell the cache what it took away |
| `ComparerApp` | `App`, `CurveApp`, the renderers' scenes: frames, widgets, layout, batches of test curves | a curve is the record of settings it was last posed and styled from; time is counted in frames |
| `Splines` | both kinds of spline, by the number of knots a link depends on | knots, links and handles of several splines, `changed`, and the order of the curves in the renderer; moves are operations |
| `OrbitalCamera` | the keys | `held` keys against the axes and the speed that their events left; `captured` is whether the user interface wants the keyboard; `missed` and `adrift` are histories of the events it swallowed |
| `Profiler` | the ring of query frames | `slots`, the GPU's answers in the order of `issued`, `samples`: whether a metric's figures are of one frame |
| `EventHandlers` | `event_handler_collection`, `event_publisher`, `event_subscription` | the lists, `dispatches[t]`: the stack of `invoke()` calls of a thread. The mutex needs no variable: its owner is the thread with a dispatch, and `lock_count` is the depth of its stack |
| `EventAwaiter` | `event_awaiter` and `event_publisher::wait` | extends `EventHandlers`; `pc` of the caller and `body` of the raisers stand for the lines between two blocking calls |
| `BufferAllocator` | `buffer_allocator` | `freeSpace` is the vector in its order, since the order decides what happens; `used` is what callers hold |
| `DependencyContainer` | the container, its factories and children | `calls[t]` is the stack of `resolve()` calls of a thread; a frame of it holds the mutex of the registration it builds. Constructors may throw or build nothing |
| `AsyncOperations` | `async_operation_source`, `async_operation`, `manual_dispatcher`, background threads | per worker its line, the source under its lock, the queue of the dispatcher, the states shown to the owner |
| `MessagingChannel` | `tcp_messaging_channel` with the `blocking_collection`, the promises, the socket stream and the threads it uses | `pc` says where sender, receiver and owner are; `peer` and `inbox` are the connection as the operating system sees it. One action per step between two points where another thread matters. `accepted`, `written`, `raised` and `late` are histories |
| `MessagingServer` | `messaging_server`, `tcp_messaging_server` | the listener, the list of clients under its lock, two threads per connection at the points where they call the server, the owner. Of a channel it keeps the link and the flag that tells of its end once |
| `MessagingClient` | `messaging_client`, `tcp_messaging_client` | the connection thread line by line, the channel in short, the owner; `reachable` is the server |
| `Discovery` | `service_provider`, `service_locator` and the `udp_client` of each | `life` and `thread` are construction and destruction around the receiver's thread; `network` is a set of datagrams: it loses, repeats and reorders |
| `Streams` | `stream` over array, memory and file | position, length and what the C library or the vector does at the end |
| `BinarySchema` | `binary_object_descriptor`: windows of versions, dynamic types, pointers | what release `writer` wrote and `reader` makes of it |
| `JsonText`, `JsonSchema` | the text of JSON values; described objects in JSON | one step writes, one edits, one reads |
| `Rects`, `TextureData` | points, sizes, rectangles; images in memory | bytes and strides, beside them the picture they should show |

Modules whose names begin with `MC` give constants their values and join parts for TLC.

Abstractions that matter:

* Curves are their style bits in routing, and length, spacing, resolution and colour in the pattern
  pipeline. Arc lengths are whole units, so that counting centres is exact; rounding of
  floating-point lengths is not modelled.
* Values that scans add are `2^i` for element `i`, so that a sum says which elements it contains:
  a scan that is right on these is right on every commutative monoid.
* Buffers that were not written since they were allocated hold `Garbage` (scans) or `Blank`
  (pipeline), and nothing may depend on them.
* A handler is its token, and what a handler does is any sequence of calls on the same publisher.
* In the messaging channel a write succeeds or throws as a whole, and a written message is one that
  the operating system took, which is all a future that says true promises. After the peer closed the
  connection, recv returns 0 and `socket_stream::read` asks again: the receiver takes no step, and
  only the reset that answers the next write of the sender ends the connection. The wait of 200 ms
  may end at any time, so the reset event of the collection, which can only shorten it, is left
  out. Closing the socket makes a blocked recv fail, as it does on Windows, for which alone
  `BackgroundThread.cpp` is compiled.
* `BufferAllocator` keeps the unsigned width of sizes (`Word`), because the remaining space is a
  difference that wraps.
* Bindings name buffers, never their contents; a frame's draws bind for any number of scan levels up
  to two. A texture stands for its successors at the same address: a view's address is used again only
  when nothing is bound of it.
* A spline's knots and links are identities of values, not coordinates. TLC edits
  knots, sizes and colours of a spline that is alone (`SplinePart`), to keep the instance small; what several
  splines and other curves do to each other's order comes there from building, moving and destroying
  them. The theorem has no such bound. The setters of
  width, caps, join, dash length, spacing and resolution do the same, to the spline and then to every
  link, and are one action (`SetStyle`); a link added later has the style the spline has then.
* The camera's axes are the signs that its keys set. `App::Event` hands keys on only while the user
  interface does not want them, which changes at any time (`Capture`), also while keys are down.
* The threads of a channel start in one step (`Open`) where the code creates the sender first: a
  thread that is not created yet is like one that has not taken a step. `create_child()` copies a
  registration in one step, where `clone_into` (`DependencyContainer.h:338`) reads the object
  without the registration's mutex: of a race with the thread that builds it no outcome but "before" and "after" is modelled.
* The picture of patterns places a dash with the room its centre gives it (`PatternCenterSpan`); by how
  much a crowded arc shrinks (`PatternArcScale`) is floating point and left out. Curves with no spacing
  are uploaded and culled by the vertex shader (`IsCulled`).
* JSON numbers are natural and printed without an exponent; they are rounded to `Precision` digits, the
  `digits10` of the code. `true`, `false` and `null` are one character each.
* Pixels are values and images one or two pixels a side; ratios are exact, and where the code rounds
  to an integer both neighbours are tried when the quotient lies between them. What WIC and the GPU
  do with pixels (turning by EXIF orientation after flipping, rows of four-byte strides) is external.

## 3. The runs

Every property has a mutant in `PROJECT.json`: a plausible bug of the code, kept as an operator
with a `\* Mutant:` comment before the definition it replaces, for which TLC finds the property
violated under the same configuration.

Two runs each hold the parts that share neither state nor fairness: `part` is chosen in the
initial state, the other parts stay in an idle state in which their invariants hold and none of
their fair steps is enabled. The reachable states are the sum, not the product, of the parts', and
a property of one part is checked of all its states. Where a property of a run is made of those of
several parts, its definition in the `MC` module names them.

### `routing` (MCRouting.cfg)

Three handles, two styles (solid, dotted), three slots in all backends together (`MaxSlots` bounds
`Add` and a bare `Route()`, gaps included; `Draw` may pass it before it compacts), `Spec`.

* `HandlesOwnTheirSlots`: both directions of the back-pointers, after every operation.
* `MisroutedIsMarked`: a chain in the wrong backend will be visited by the next `Route()`.
* `DrawsAtHome`: after `Draw()` every chain is with the backend of its first curve.
* `ImplementsStrokes`: the refinement of `CurveStrokes`. Each operation is one abstract step or a
  stutter; routing, compacting and drawing are stutters, so they change no stroke.
* `JoinsOnlyTheNewest`: a step that adds a curve joins it to the newest curve or to nothing.

Three slots are the least that show a chain of three, a gap between two chains, a removal at the
head and a removal that makes marks overflow (marks are limited by the slots, so that `route_all`
is reached); two kinds are enough to be misrouted in both directions. The handles are
interchangeable, so the run is reduced by symmetry. TLC does not guarantee symmetry for
temporal properties in general; these two are step properties whose formulas do not
distinguish handles, so a permuted step violates them exactly when the original does.

### `gpu` (MCGpu.cfg)

* **The patterned backend**: three slots, six curves: an ordinary one, one of another colour, one of another resolution, one
  without spacing, a short one that owns a centre or none as it is merged, and one of no length. The cap of the centre buffer is four, so the
  cap is reached. `DrawsEverySegment` and `PlacesEveryCenter` compare what the shaders read from the
  buffers with the picture computed from the curves, the latter with what the search of the
  pixel shader finds among the centres of its stroke as well; `BuffersSuffice` is the CPU's bound against the GPU's
  count, and every upload against its buffer.
* **The scans**: every interleaving of work groups, threads and barriers. The segmented scan runs with
  four threads on every placement of begin flags in up to six elements (two blocks) and on twenty-two
  elements (six blocks, three levels) with begins at chosen places, the parallel scan with two threads and
  counts of 1 to 16 at five capacities, with and without total. The upper levels are where the
  shaders differ: the carry passes a block's first begin or stops at it. Work groups and thread counts are the
  code's with a smaller power of two; nothing in the shaders depends on the exponent.
  `ScansAddUp`, `NoRace`.
* **The bindings**: every order of draws of the four renderers with one or two scan levels (section 5 proves it for any
  number); for
  `TextureBindings` one
  texture, render target and depth buffer with two mips and two view slots. `BindingsHold` of the
  draws, `CacheSuffices` of the textures.

The run has a `VIEW` that forgets what the next draw overwrites (`Pending`): every buffer while
`need_resize` is pending, the buffers of the dirty parts and the bound while an upload is, and the offsets
before a recount. States that differ in nothing else behave alike. `BuffersSuffice` is the one
invariant that reads these buffers, and it was evaluated on the state in which they were uploaded (section 5
proves it without the view).

### `channel` (MCChannel.cfg)

Two messages, each sent by a thread of its own, and up to two things from the peer: a message, a
heartbeat or bytes without the magic number. Two messages make one overtake another and one wait
behind a write that fails; two arrivals are what it takes to handle one message too many after the
disconnection. The peer may close or break the connection, and the owner may destroy the channel,
opened or not, at any step. `SendsInOrder`, `AnswersAreTrue`, `DisconnectedOnce` and `AtMostOneLate`
hold (and are proved, section 5), and three liveness properties: `PeerLossNoticed`, which fails
without the heartbeat, `FutureResolves` and `ShutdownEnds`. `FutureResolves` states what the code
gives: a message that reaches the queue after the sender has cleared it, because `add()` asks for
`is_complete` before it locks, is answered only when the channel is destroyed.

### `waiting` (MCWaiting.cfg)

What waits and must get on.

* **Server**: two connections, which connect, talk, leave and fail at any time, one broadcast, a
  listener, an owner. Two connections are what it takes to remove one from the list while another
  waits for the lock, and for the swap with the last element. `ToldInOrder`,
  `OnlyTheRemovedLinger` (when the destructor has returned, no thread reads the server's flag, takes its
  lock or changes its list, and none is in a handler but those of clients that a handler removed
  and has not freed yet; that these are is section 6.6),
  `BroadcastReachesAll`, and `LostIsFreed`: what left the list is freed at last.
  `AnyTime` is FALSE: peers leave and handlers run at any moment of the destruction, but the owner does not
  take the lock while a handler that read the flag waits for it (`Waits`); otherwise section 6.5.
  A failed `accept()` ends the listener (`AcceptFails`), which the code never starts again.
* **Client**: a server that stops and starts, links that break. `DropsOnlyLost`, and `Reconnects`: as
  long as a server listens the client comes back to a connection. `WhileConnecting` and `Replies` are FALSE:
  the owner does not destroy the client while it connects, and handlers do not send; with either the
  model hangs at the place the hazards name.
* **Awaiter**: a caller and two threads that raise the event, as the repository's tests use it: the
  caller waits twice, frees what it got, destroys the awaiter, with five firings, so
  that raisers come before, between and after the waits and queue up behind each other.
  `FiringsAreHandedOver`: arguments stay valid while they are held, and each wait gets a later
  firing than the one before. `CautiousRaisers` leaves out the dispatches that begin between the last two
  lines of `reset()`; without that the destructor may hang, see 6.4.
* **Profiler**: a ring of three slots and one metric; the GPU answers as late as it likes, renderers
  leave frames by exceptions, the profiler is enabled, disabled and reset at any time.
  `SamplesOfOneFrame`, `MeasuresOn`.
* **Discovery**: one provider and one locator of one service. `ServicesAreFound`: an announced service is
  at last known to a locator that goes on asking, or one of the two ends, or a receiver of theirs gave
  up (`ReceiverGivesUp`: an empty datagram or an error ends it for good, with the socket open), or the crash of the hazard
  at `UdpClient.cpp:87` happened. The network loses, repeats and reorders, and none of that is excepted.
* `DestructorsEnd` is one property for all: server, client, awaiter and provider.

### `program` (MCProgram.cfg)

What is safe by itself.

* `FramesFollow`: after `Update()` both columns show the settings they should, a paused frame poses
  nothing, both columns hold the same curves. Two
  panels of styles, two gaps, a clock of two frames, two test curves and two shapes: enough
  for a batch that is kept, cleared and made again under another seed.
* `OnlyTheSwallowedLasts`: with no key down the camera moves only as a key whose release was swallowed
  left it, until it sees a key of that axis go up, and its speed is off by the swallowed events of
  shift keys and by nothing else. Six keys (both of one axis, one of each other, both shift keys), and at most two
  (`MaxMissed`) presses swallowed more than releases or the other way round.
* `LinksFollow`: up to three knots; two Hermite splines, so that one
  is moved, also onto the other, and drawn after it, with other curves added in between
  (`Others`); one Catmull-Rom spline, without, that is restyled before and after it is resized
  (`Styles`: two of them; none for the Hermite splines, whose setters are the same lines). A
  behaviour has splines of one kind (`SplinePart`), and end knots are mirrored once.
* `RevokedStaysSilent`: two threads, four tokens, two nested dispatches. Four tokens make the counter wrap onto tokens
  that are still in use. The part runs `CautiousNext`: handlers do not throw, and a subscription made
  inside a dispatch outlives it (else 6.3).
* `EveryByteOnce`: nine bytes, requests of one to three bytes with alignments 1, 2 and 4: enough for four holes at
  once and for alignment gaps on both sides. The part leaves out the deallocations of section 6.2.
* `ServicesAreShared`: a service is one object whichever thread asks first, whoever's constructor
  throws on the way, and threads that resolve do not all wait. A root and a child container, a type
  that needs another, two threads, three objects made.
* `StoredIsRead`: lines of a file read in chunks of two bytes, and what `read_to_end()` gives or refuses; objects written by any of three
  releases (a property added, retired, added to a base, retired from a derived type) and read by the
  same or a later one.
* `JsonReadsBack`: every string of up to two characters of each kind JSON treats apart, numbers with
  more digits than are printed, nested arrays and objects, names with any character; described objects with
  edits of the JSON on the way: read back or refused. A text keeps a string up to its first `'\0'` and a
  number rounded, and of names with a quote or a backslash nothing is promised (section 6, at the end). A
  discriminator that was removed makes an object of the pointed type, one that is no string is refused.
* `StatesAreShownInOrder`: two workers of one operation, two updates, cancellation at any step.
* `ImagesShow`: photos with every orientation and images without, two operations each out of
  cropping, extending, truncating, scaling, merging, converting, storing, loading; the bytes show
  the picture, source rectangles lie inside, bounding boxes are tight.

### The runs that find a disagreement

`merged_add`, `allocator_stale`, `events_dropped`, `publisher_wait`, `server_shutdown`,
`server_outlived` and `child_double` each check one claim of a document or a comment and find it violated; see section 6.

The runs `gpu`, `channel`, `waiting` and `program`, and of the last group all but `merged_add` and
`events_dropped`, switch deadlock checking off: the slots are full, the firings are bounded, the
channel is destroyed, the document is read. The hangs that matter are stated as liveness
properties instead, and in the container as a safety property (`SomeoneGoesOn`).

## 4. Fairness

Weak fairness of a thread's next step says that a thread that is not blocked goes on, and that is all: a step that waits for an
event or for a mutex is enabled only when the event is set or the mutex is free, so weak fairness
promises nothing of a wait that others can keep interrupting. Nowhere is it assumed that a mutex is
fair, which the standard does not promise, that an event fires, that anybody sends, connects,
leaves, stops or destroys anything.

* *Awaiter*: the caller and each raiser inside a dispatch. The program frees the
  results it was given, as the tests do when the result leaves its scope.
* *Channel*: the sender, the receiver, a started destructor and a started `add()` go on when they
  are not blocked, handlers return, a write to a living peer ends because the peer's receiver reads
  what it gets, and the reset of a closed peer that was written to arrives.
* *Server*: listener, owner and the threads of the connections. A message that is being handled is
  handled at last (`Received`); only messages come without end.
* *Client*: the connection thread, the two threads of the channel, a started destructor.
* *Profiler*: the GPU answers what it was asked, and the program goes on drawing frames.
* *Discovery*: threads, constructors and destructors go on; a program that looks for a service asks
  again and again; of what is sent again and again to a living receiver some arrives, and what
  arrived is received (strong fairness: other datagrams, and the program, come between).

Where the steps of several threads are finitely many in every behaviour (awaiter, server, lives of
discovery) one weak fairness condition of their disjunction stands for one of each: a
thread that could step for ever would keep the disjunction enabled, and finitely many steps of the
others leave no other step to take. This keeps the liveness graph small. `AwaiterFairness` and
`ServerFairness` are written so.

## 5. Proofs

All by TLAPS, for every value of the constants that satisfies the named assumptions. `PROJECT.json`
lists the theorems a reader should know of, with the property of a run that each states. An
invariant of a run is seldom inductive; what follows says for each part what had to be added
and why.

### Routing: `BezierRenderer_proofs`, `BezierRendererChains_proofs`

For any set of handles, any set of styles and any number of slots, from `HandlesAssumption`,
`StylesAssumption`, `MaxSlotsAssumption` and `NobodyAssumption` (the null values are no handles,
places or styles).

1. *Handles and slots*: `Spec => []Inv` for `Inv == TypeOK /\ HandlesOwnTheirSlots /\
   RemovedSlotsAreCounted`. The three conjuncts are inductive only together: compaction and routing
   move a slot and write the new place into its owner, which is right only because the owner is no
   other slot's (ownership); compaction returns early when `removed_count` is 0, which leaves the
   indices right only because then there is no gap (counting); and both need the owners to be handles
   (types). The argument is laid out by building blocks, each of which keeps the store sound:
   emptying a slot, taking a curve over by a moved handle, rewriting a slot in place, appending,
   compacting, and moving a chain to another backend. `Route()` loops over the backends and the
   chains of each: `RouteHome` says by sets of slots what the loop over one backend moves.
2. *Merged adds*: the action property `JoinsOnlyTheNewest`. `Add()` compares two numbers, and
   `LastAddSound` is what makes them enough: while `last_added` is set its backend has not grown since
   (`Route()` forgets it when a chain arrives behind it), and if it has not shrunk either, its last
   slot is the newest curve's or a gap. `Ages` is the relation between the stores before and after a
   call that keeps this; a compaction does because it shortens the backend by one slot at least.
3. *Chains*: `MisroutedIsMarked` and `DrawsAtHome`. Slots move, so everything is said of handles:
   `Before(st, h)` is the handle whose curve the curve of `h` continues, and every operation is
   described by what it does to `Before`, to the styles and to the places. The walk to the first curve of a
   chain is in none of the proofs; a chain is reached through the slots it lies in side by side
   (`WholeChains`). The inductive invariant is `InvChains == InvAdd /\ ChainsMarked(store)`:
   every curve that *starts* a chain in the wrong backend is marked at its slot. `MisroutedIsMarked` itself,
   which speaks of the backend only, is not inductive: it does not say that a chain keeps a mark when the other
   marks go, which is what splitting and joining chains needs. `RoutingRepairs` says that
   `Route()`, backend after backend, leaves no chain misrouted: the loop over one backend sends each
   of its marked chains home, and what arrives in another is at home there.
4. *Refinement*: `RendererImplementsStrokes`, the implementation of `CurveStrokes`. The initial states map to
   initial ones; `NextStrokes` has one case per operation. Routing, compacting and drawing keep
   `Before` and the styles of all handles (`Kept`), so they are stutters; `Remove` and `Merged(FALSE)` cut, `Move`
   renames, `Add` and `Merged(TRUE)` join a pair.

### Application and camera: `App_proofs`

*Frames*: `AppSpec => []FramesFollow`, for any number of columns, panels, gaps and shapes and any
length of a batch. `AppInv` adds what a frame relies on: a scene that does not ask for a pose has the one it
would get *where its column was left* (`PosesKept`, not where the column should be, which is why
`Update()` must compare the places too), one that does not ask for a style has the panel's
(`StylesKept`), the test curves of both columns agree (`ColumnsStayAlike`, which needs the generator to be rewound
between the two columns), and nothing is left to do right after `Update()` and in frames in which no widget was touched
(`NothingLeft`).

*Camera*: `CameraSpec => []OnlyTheSwallowedLasts` for every set of keys and whenever the user interface takes the
keyboard. The speed is the history `missed` less the shift keys held, and an axis that moves does so as a
key of it points that is down or adrift (`CameraInv`): "down" is what the property leaves out and a step
needs, because a key that is down may become adrift.

*Splines*: `SplineSpec => []LinksFollow`, for any splines of either kind and any number of knots, from
`SplineAssumption` (the names of splines are not those of other curves). Two invariants, one of the splines
and one of the renderer. `SplinesSound`: unless all links are to be posed, the knots in `posed` are as many as
there are knots, and every link has the shape *these* give it, so that comparing windows of `posed` with windows of the
knots finds every link that must move; colours and looks are those set last. `OrderSound` is about the order in
which curves are drawn: a link that is not the first comes right after its predecessor (`Ordered`), and of a
spline with `c` links each of `1..c` is there once (`Draws`). What a removal leaves is a part of the order
(`WithoutIsPart`), and no link is cut from a predecessor that stays, because links go from
the last one on; `AddedOrdered` and `RenamedOrdered` are the other two things that happen to it.

### Buffers and draws: `CurveDrawing_proofs`

*Segments and sizes*: `Spec => []DrawsEverySegment`, `Spec => []BuffersSuffice` and `Spec => []TypeOK` of
`BezierPatternRenderer`, for any curves, number of slots and cap, from `CurvesAssumption`, `BoundsAssumption` and
`OwnerAssumption` (there is a handle that can own a slot). The properties speak of what a draw would show,
so they are not inductive: the buffers are wrong most of the time, between a setter and the next draw. `Rests` says
what is kept meanwhile. Unless a resize is due there is no gap, and each buffer is that of the slots *or has its dirty
bit* (`Uploaded`); the CPU's bound is that of the slots unless lengths or spacings are dirty, and the count on the
GPU is under the bound, or the cap reached, unless a recount is due; each upload fitted its buffer
(`SizesFit`); dirty bits ask for an upload. Each setter keeps this (`SetLengthRests` and the like), because the buffers it
does not mark do not depend on what it sets (`SamplesAreThoseOf`, `SameBound`), and `Draw` restores it: `UpdatedIs` says that
`UpdateBuffers` leaves every buffer that of the slots, whether it reallocated, uploaded some parts or did
nothing, `PassesLeave` the same of the passes after it, and `RoutedAway` that removing the curves of the other backend
before it does no harm.
From there the argument is about data. Where a sample of a curve lies in the sample map, which the code writes curve by curve with a
running first sample, is `MapIs`; that the segment the vertex shader makes of it is the picture's is `SegmentIs`, and that
there is no other sample `SegmentsAre`. For the count, the arc length grows over a curve by its own length,
wherever its chain began (`ArcsOfCurve`), so it holds no more multiples of the spacing than the bound allows
(`OwnedIsBounded`), and so do the sums (`CountIsBounded`). Induction is done over the *set* of numbers for
which a statement holds (`FromZeroOn`), which needs no predicate as a parameter; it gives the recursive
functions of the model their values (`RecursionExists`, `SumIs`, `SumLocates`) and `FlattenSeq` its
elements (`Flattened`).

*Bindings*: `BindingsSpec => []BindingsHold`, for scans of any number of levels, from `BindingsAssumption` (a scan has at
least one). `BindingsInv` says that the rest of the draw in flight runs to its end (`Runs`: each kernel on the way
finds its registers) and leaves nothing bound (`Clean`). That binding a group of views puts each where it belongs and disturbs
nothing else (`BindsRun`) holds when none of them is refused because of another that is still bound for
writing, nor taken away by one that is bound after it (`Fits`); that the groups of the code are such is what the proof finds out for
each pass. A pass starts clean and leaves clean (`Passes`), so passes may follow each other in any order, which is
why recounting and placing are free to be left out. For the scans no induction over the levels is needed: what a call
of `ScanLevel` does to the slots is stated once (`AfterScan`), with what the level above may leave bound when
it is entered (`ReadyToScan`), and the body of a level does this if its own call does
(`SegmentedRuns`, `ParallelRuns`), as one reasons about a recursive procedure by its contract. The contract says that `b0` is left with the scan's
constants, which is why `CountDots` must bind its own again: without that line the proof fails where the run does.

### GPU: `Gpu_proofs`

*Profiler*: `ProfilerSpec => []SamplesOfOneFrame` for any number of metrics and any length of the ring.
`SlotsSound` is about the answers still to come: among the queries outstanding for one
timestamp of a slot, one of the frame the slot holds comes after each of an older frame
(`Renewed`), so that a slot from which nothing is outstanding has answers of its own frame. This holds for slots that
were left open by an exception as well, because their queries are issued again before they count.
That the slot visited last holds the newest frame among those collected needs the arithmetic of the ring
(`NewestIsRecorded`, `CollectedIsReady`).

*Scans*: `ScansSpec => []NoRace` for both scans, of any number of elements and any buffers. Threads of a group are let go
together, so those between two barriers are at the same step, and what remains is that two threads never touch one
cell of shared memory at the same step when either writes. For the segmented scan that is the
distance, a power of two (`DistanceNoRace`); for the parallel scan the cells of a round are apart because
`Padded` is strictly increasing and a thread's children lie between those of its neighbours (`OffsetNoRace`). The
invariant needs only which steps a thread can be at (`ScansTyped`). `PowersOfTwo` goes through the powers one by
one, up to the largest group that the assumptions admit (1024 threads, the limit of Direct3D).

*Textures*: `TexturesSpec => []CacheSuffices`, for any textures, mips and slots, from `TexturesAssumption`. `ContextAgrees`:
in each place of the device there is what the cache of the context says, or nothing, and a cached view is one
that may stand there. The "or nothing" is the point: Direct3D takes a view away where binding another one conflicts
and does not tell the cache, so the cache may say too much, but never too little, and an `Unbind` that
follows the cache clears every place that holds the texture (`AgreesReleases`); a `Bind` takes effect
because the conflicting views are cleared beforehand (`NothingConflicts`, `AgreesTakesEffect`).

### Events and threads: `Threads_proofs`

*Handlers*: `RevokedStaysSilent`, the type invariant and three more properties
(`SettlesBetweenDispatches`, `SubscriptionsDiffer`, `CallsAllItBeganWith`) under
`CautiousSpec`, for any number of threads, any width of the counter and any depth of nesting. The
inductive invariant adds two things. `DispatchesSound`: the handlers are still those every running
dispatch began with, which is what makes walking the map safe and says why removals must be
deferred. `ListsSound`: the subscriptions are the handlers, plus those waiting to be added,
minus those waiting to be removed, and both lists are empty when no dispatch runs. Without the
second the deferred changes of one dispatch could leak into the next; without the first a nested
dispatch could apply them under an outer loop.

*Awaiter*: `FiringsAreHandedOver` of `event_awaiter` (`AwaiterSpec`) and of `event_publisher::wait`
(`PublisherSpec`), for any number of raising threads and firings, on top of the handlers' invariant. `OneHandler`: the awaiter is the only
handler and nothing is ever deferred. `Dispatched`: a raiser that is inside the
handler is the only one and its firing the last. `Handed`: the pointer, the caller and the raiser agree on which
firing is handed over, and it is not freed. `InStep`: the two auto reset events,
`_isShuttingDown` and the two threads go through a wait together, so that each event is set for one
waiter and one reason. The proof covers every step (`AnyStep`), the careless destruction of section 6.4
included: there the threads hang, but no argument is used after its life.

*Background work*: `AsyncSpec => []StatesAreShownInOrder`, for any number of workers and updates. What was
shown, is being shown and waits in the queue is one sequence (`Told`), numbered by
the updates since the source was set (`Numbered`) and as long as their number, less the one whose event is still to be raised
(`Counted`); the lock is held from the assignment to the end of the event
(`LockIsHeld`), which is why at most one is. `KnowsLast`: what the owner asks for by `state()` is never older than what was shown.

### Messaging: `MessagingChannel_proofs`, `Threads_proofs`

*Channel*: the type invariant and the four safety properties of `channel`
for any set of messages and any bound on what arrives. The inductive invariant has four parts.
`JoinsSound`: the destructor is past a join only when that thread has ended. `OrderSound`: while
the sender may still write, what was written, then what it holds, then the queue are the accepted
messages; "may still write" is needed because a failure drops what is queued behind it, and the
joins because the destructor empties the queue too. `PlacesSound`: a message is in one place, and
its future is open (or cancelled) until it leaves; without it a future could have said false of a
message that is written later. `LinkSound`: `disconnected` was raised exactly when `_isConnected` is
false, and a receiver between its check and its handler has handled nothing late. Steps that move no
message are proved once (`AsideStep`) and instantiated for each thread.

*Server*: the type invariant, `ToldInOrder` and `BroadcastReachesAll` for any
number of connections and broadcasts, and `OnlyTheRemovedLinger`, all of owners that destroy the server at
any time. `RegistrationSound` says that no
thread of a channel runs before its client was told of, because `open()` comes last;
`DisconnectionSound` that `_isConnected` lets one thread of a channel through, so that one handler
tells of the end; `LockSound` that the list changes only while the owner does not walk it; `BroadcastSound` is the loop
invariant of a broadcast. For the destructor `ListSound` says that every client is in the list, or was taken off by a handler, or
has no thread, also after a swap with the last element (`RemovalKeeps`), and `ShutdownSound` follows the
loop: the clients it has passed have no thread, and nobody registers after the listener was joined.

*Client*: `DropsOnlyLost`, whether or not the owner destroys the client while
it connects and whether or not handlers send. `SignalSound` is the point: between its reset and the wait the wake-up
event is set only when the client goes or the connection is lost, which needs that no thread of
an earlier channel is left (`ChannelSound`) and that the owner sets the event after the flag (`OwnerSound`).

### Allocator and container: `Infrastructure_proofs`

*Allocator*: `EveryByteOnce` under `CautiousAllocatorSpec`, for any size of the
range and any requests. The invariant is `Divided`: the free and the held segments are not empty, lie
in the range, lie apart and cover it. A free segment that leaves the list is treated as handed out,
so that `Carved` and `Merged` are made of five steps (take a free segment out, append a held one,
cut a held or a free one in two, join two that touch), each with a lemma. `NoWrap` shows that the unsigned
difference in `try_allocate` does not wrap for a slot that is as large as the alignment. The
deallocations in which `nextSlot` moves are left out (`NextSlotMoves`): for them it is false, see
section 6.2.

*Container*: `DependencySpec => []ServicesAreShared`, for any number of threads, types and objects and any
constructors that do not need each other in a circle (`DependencyAssumption`). *One object*:
what a container gave of a service is bound to its registration (`Bound`: the value it keeps, or the instance it
will return), registrations only go from absent to bound and never change hands (`Follows`), and a
clone keeps what it was bound to. *Somebody goes on*: a locked mutex is held by a call of its holder (`HeldByCall`), the calls of a thread
are of falling rank (`StackOK`), and a thread whose innermost call waits for a mutex waits for
one whose holder, if it waits as well, waits for a type of lower rank; so the thread that
waits for the lowest rank would wait for one that does not (`LowestGoesOn`).

### What is only model-checked

* Liveness, which is beyond the prover: three properties of `channel` and five of `waiting`.
* What the scans compute (`ScansAddUp`): the reference sums are recursive operators, and that the passes over the levels
  add up to them is an induction over levels, groups and rounds at once.
* `PlacesEveryCenter`: that the passes place the centres where the picture has them compares two sequences, one by offsets
  and one by sorting the centres of each curve, with sums over sets of curves on both sides; the prover has no theory of
  such sums, and its lemmas on samples and arcs (above) are where a proof would begin.
* `StoredIsRead`, `JsonReadsBack`, `ImagesShow`: recursive formats and folds over rows.


## 6. Disagreements between code and documentation

1. **Merged add after a compaction** (`merged_add`). `Add()` compares `owners.size()` with the size
   it saved when the last curve was added; a compaction in between changes the former. After an
   earlier curve of the backend was removed and a frame drawn, a merged `Add()` starts a new stroke
   although the curve added last still is the last of its backend, contrary to
   `BezierRenderer.h:43` and `BezierData.h:43`.
2. **Merging of free ranges** (`allocator_stale`). `deallocate()` keeps a pointer to the following
   free segment across the removal of the preceding one. When the following one is the last of the
   vector, the pointer dangles past its end, and bytes in use become free or free bytes are lost.
   The repository has no test of the allocator.
3. **Dropped subscriptions** (`events_dropped`). A subscription that is made and destroyed within
   one dispatch is registered when the dispatch ends and called ever after. A handler that throws
   leaves the deferred removals pending.
4. **`event_publisher::wait`** (`publisher_wait`). The local awaiter is destroyed before the caller
   has the result, and its destructor waits for the mutex of the dispatch that waits for the result
   to be freed: both hang once the event fires. Related, recorded as a hazard: an awaiter's
   destructor that begins while one raiser waits in the handler releases that raiser by one
   auto reset event; if the next dispatch gets the mutex before the destructor does, its handler
   waits for a signal that is not set again. With `RaisersNext` in place of `CautiousRaisers` in
   `AwaiterNext` the run `waiting` shows it.
5. **Server shutdown** (`server_shutdown`). `on_client_disconnected()` asks the shutdown flag, then takes
   the lock. A handler between the two waits for ever for a destructor that joins the handler's thread
   under the lock, which the comment at `MessagingServer.cpp:79` says is avoided.
6. **Handlers that outlive the server** (`server_outlived`). `on_client_disconnected()` takes its client off
   the list before it raises `client_disconnected`, and the destructor joins the channels of the list only.
   So it may return while the thread of a removed client is still in that event, or its receiver in
   `message_received`, of a server that is destroyed. The comment at `MessagingServer.cpp:79` leaves the
   cleanup to the destructor, and the handlers are subscribed with `no_revoke`, which
   `Conventions.md:240` allows only while the subscriber owns the source.
7. **Child containers** (`child_double`). `create_child()` clones every registration and `add()` does
   not replace one, so a double that is added to a child is dropped and the child resolves the
   service of its root, contrary to the example of `DependencyContainer.md:168`.

Met on the way, read from the code and not made into runs:

* `async_operation::cancel` on a source whose function returned sets nothing, while
  `Threading.md:131` lets a handle be cancelled at any time.
* `TextureData::FindNonZeroRect` steps one byte per pixel whatever the format has, so it is right for
  formats of one byte, the only ones it is modelled for.
* `Extend`, `TruncateVertically` and `ToSoftwareBitmap` copy whole strides; of images whose rows are
  padded (downloads) they read and write past the end. The history `spoiled` keeps what follows out
  of `ImagesShow`.
* `Texture2D.cpp:46` passes the format where the height belongs, and `:149` uploads with a stride of zero.
* `read_to_end()` asks for as many bytes as the whole stream has, without the partial path
  (`Stream.cpp:33`): behind a header it throws (`RestOrRefused`). `Storage.md:106` says that it uses
  the partial path, and the example at `:176` reads a rest.
* JSON text loses three things silently. `to_string()` ends a string at its first `'\0'` (`JsonString.cpp:30`), which
  `Json.md:298` lists among the characters it escapes; it prints `digits10` digits of a number
  (`JsonNumber.cpp:11`), so not every double comes back, while `Json.md:11` says "double precision for numbers"; and it
  writes the names of properties as they are (`JsonObject.cpp:53`), so one with a quote or a backslash
  makes another document or none. The model has all three; `ParsesWhatWasWritten` says what is kept.
* A key that is released while the user interface has the keyboard (`App.cpp:1081`) leaves the camera
  moving, and a swallowed event of a shift key leaves its speed wrong for good: nothing resets either.
* A `udp_client` whose receiver met an error or an empty datagram (`UdpClient.cpp:92`, `:109`), and a
  `tcp_listener` whose `accept()` failed once (`TcpListener.cpp:51`), live on and hear nothing.
* `read_line()` over array and memory streams: a partial read advances by the size of the
  buffer it was given and the seek that follows throws, so lines are read of files only.

## 7. What is not modelled, and why

* Floating point: arc lengths, joins, antialiasing, the polynomials of splines, camera matrices, the
  tessellation of the line renderer.
* The events' arguments: that a movable argument is moved into the first handler is noted as a
  hazard in the code's terms only. Event owners and moved subscriptions only forward to what is modelled.
* `no_revoke` subscriptions are those the program never destroys; the end of a publisher while it has
  subscribers is left out.
* Timeouts of the awaiter: the code treats 0 as no limit although `Events.md` promises an immediate
  return; the model waits without a limit, as the default argument does.
* Resolutions below two, which `Add()` asserts against, and alignments of zero, which trap before
  any state changes.
* A message that is cancelled while it waits is still written: `message_promise::cancel` answers the
  future and leaves the queue alone. `AnswersAreTrue` excepts cancelled messages for this reason.
* The receivers of `udp_client` may call a null `unique_ptr` while it is built or destroyed; the model
  has the step (`crashed`) and says nothing of what follows.
* The pipeline cache, the event aggregator, the collections, the recursion lock, the thread pool, the
  logger, the type registry and the settings: tables, adapters and output without a protocol; each
  component's note in `PROJECT.json` says more.
* Devices, swap chains, meshes, states and sockets: thin wrappers of one call of the system each.
* The tests, a third of the library's lines, are not modelled; the uses they make of the library are
  the instances of the runs (awaiter, streams, schemas, container).

## 8. Plan

Done: routing (modelled, checked, proved with its refinement), the GPU side, the library's threads
(channel, server, client, discovery, awaiter, operations), the application, and the formats. Proved:
every safety property of a run but the five that section 5 lists as only model-checked.

Next:

1. A proof of `PlacesEveryCenter`, from `MapIs`, `ArcsOfCurve` and `OffsetsAre`: the centre that the search finds
   for an offset is the picture's.
2. `blocking_collection` for itself, with consumers that wait without a limit: there the reset event,
   which `clear()` leaves set, matters.
3. Server and client composed over the channel itself in place of the short form they use.


## 9. How to run

In this directory, with the community modules on the library path:

    tlc -workers 2 -config MCRouting.cfg MCRouting
    tlapm BezierRenderer_proofs.tla

Every run ends within a few minutes; `PROJECT.json` names the module and the configuration of each.
