----------------------------- MODULE ParallelScan -----------------------------
(***************************************************************************)
(* ParallelScan (ParallelScan.cpp, ParallelScanLocal.hlsl and               *)
(* ParallelScanAddOffsets.hlsl): the exclusive prefix sum that turns the    *)
(* pattern counts into offsets.  A pass runs its work groups in any order,  *)
(* the threads of a group run in any order between two barriers, and each   *)
(* block is summed in a tree in shared memory.  The value of element i is   *)
(* 2^i, so that a sum says which elements are in it.                        *)
(***************************************************************************)
EXTENDS Integers, Sequences, Functions

CONSTANTS
  GroupSize,  \* THREAD_GROUP_SIZE: 256 in the code, a power of two
  Banks,      \* 1 << LOG_BANK_COUNT, 32 in the code
  Calls       \* bound: the scans asked for, [capacity, count, append]

Block == 2 * GroupSize  \* ELEMENTS_PER_GROUP

\* What the instances assume of the constants.
ScanAssumption ==
  /\ \E k \in 0 .. 10 : GroupSize = 2^k
  /\ Banks \in Nat \ {0}
  /\ \A c \in Calls : c.capacity \in Nat \ {0} /\ c.count \in 1 .. c.capacity
                      /\ c.append \in BOOLEAN

VARIABLES
  call,     \* the Scan() that runs
  buffers,  \* the values, then the block sums of each level
  pass,     \* the dispatch that runs: a local scan or an addition, and its level
  pending,  \* its work groups that have not begun
  group,    \* the one that runs
  tree,     \* gTree, its shared memory
  step      \* thread -> where it is in the shader

vars == <<call, buffers, pass, pending, group, tree, step>>

Threads == 0 .. GroupSize - 1

Nothing == -1   \* no work group runs

Garbage == -1000000000   \* what an earlier frame left in a buffer

DivRoundUp(value, divisor) == (value + divisor - 1) \div divisor

\* Capacities of the levels under the first.
Deeper[capacity \in Nat] ==
  LET blocks == DivRoundUp(capacity, Block)
  IN  IF blocks <= 1 THEN <<capacity>> ELSE <<capacity>> \o Deeper[blocks]

\* The levels that the constructor allocates.
Levels(capacity) ==
  LET blocks == DivRoundUp(capacity + 1, Block)
  IN  IF blocks <= 1 THEN <<capacity>> ELSE <<capacity>> \o Deeper[blocks]

\* Blocks whose sums a level has room for.
SumsOf(capacity, level) ==
  DivRoundUp(Levels(capacity)[level] + (IF level = 1 THEN 1 ELSE 0), Block)

WrittenByCall(c) == c.count + (IF c.append THEN 1 ELSE 0)

\* ElementCount and InputCount of a level.
Written(c, level) ==
  LET written[l \in 1 .. level] ==
        IF l = 1 THEN WrittenByCall(c) ELSE DivRoundUp(written[l - 1], Block)
  IN  written[level]

InputCount(c, level) == IF level = 1 THEN c.count ELSE Written(c, level)

Groups(c, level) == DivRoundUp(Written(c, level), Block)

FreshBuffers(c) ==
  LET levels == Levels(c.capacity)
  IN  [l \in 1 .. Len(levels) + 1 |->
         IF l = 1 THEN [i \in 0 .. c.capacity |-> IF i < c.count THEN 2^i ELSE Garbage]
         ELSE [i \in 0 .. SumsOf(c.capacity, l - 1) - 1 |-> Garbage]]

-------------------------------------------------------------------------------
(* The shaders. *)

Rounds == CHOOSE k \in 0 .. 11 : 2^k = Block

RootStep == Rounds + 1
StoreStep == 2 * Rounds + 2
Ended == StoreStep + 1

\* Padding that keeps the sweeps out of one memory bank.
Padded(index) == index + (index \div Banks)

Root == Padded(Block - 1)

\* The distance of the two children that a sweep joins in a step.
Offset(s) == IF s <= Rounds THEN 2^(s - 1) ELSE 2^(StoreStep - 1 - s)

\* Threads that have a node in that step.
Nodes(s) == Block \div (2 * Offset(s))

LeftChild(t, s) == Padded(Offset(s) * (2 * t + 1) - 1)
RightChild(t, s) == Padded(Offset(s) * (2 * t + 2) - 1)

Swept(t, s) == s \in 1 .. StoreStep - 1 /\ s # RootStep /\ t < Nodes(s)

\* The cells of shared memory that a thread touches in a step.
Touched(t, s) ==
  IF s \in {0, StoreStep} THEN {Padded(t), Padded(t + GroupSize)}
  ELSE IF s = RootStep THEN (IF t = 0 THEN {Root} ELSE {})
  ELSE IF Swept(t, s) THEN {LeftChild(t, s), RightChild(t, s)} ELSE {}

Loaded(i) ==
  IF i < InputCount(call, pass.level) THEN buffers[pass.level][i] ELSE 0

\* The shared memory after a thread's step.
TreeAfter(t, s) ==
  LET l == LeftChild(t, s)
      r == RightChild(t, s)
  IN  CASE s = 0 -> [tree EXCEPT ![Padded(t)] = Loaded(group * Block + t),
                                 ![Padded(t + GroupSize)] = Loaded(group * Block + t + GroupSize)]
        [] s = RootStep /\ t = 0 -> [tree EXCEPT ![Root] = 0]
        [] Swept(t, s) /\ s <= Rounds -> [tree EXCEPT ![r] = tree[r] + tree[l]]
        [] Swept(t, s) /\ s > Rounds -> [tree EXCEPT ![l] = tree[r], ![r] = tree[r] + tree[l]]
        [] OTHER -> tree

\* Writes at or past ElementCount are skipped.
Stored(values, at, i) ==
  IF i < Written(call, pass.level) THEN [values EXCEPT ![i] = at] ELSE values

\* The global memory after a thread's step of the local scan.
BuffersAfter(t, s) ==
  LET i == group * Block + t
      l == pass.level
  IN  CASE s = RootStep /\ t = 0 -> [buffers EXCEPT ![l + 1][group] = tree[Root]]
        [] s = StoreStep ->
             [buffers EXCEPT ![l] =
                Stored(Stored(buffers[l], tree[Padded(t)], i),
                       tree[Padded(t + GroupSize)], i + GroupSize)]
        [] OTHER -> buffers

\* Mutant: the up-sweep begins before the whole block is loaded.
BarrierAfterFirstSweep(t, s) == s = 1 \/ \A u \in Threads : step[u] >= s

\* GroupMemoryBarrierWithGroupSync: every step of the shader has one before it.
AtBarrier(t, s) == \A u \in Threads : step[u] >= s

LocalStep(t) ==
  LET s == step[t]
  IN  /\ pass.kind = "local" /\ group # Nothing /\ s # Ended
      /\ AtBarrier(t, s)
      /\ step' = [step EXCEPT ![t] = s + 1]
      /\ tree' = TreeAfter(t, s)
      /\ buffers' = BuffersAfter(t, s)
      /\ UNCHANGED <<call, pass, pending, group>>

\* A thread of ParallelScanAddOffsets.
AddStep(t) ==
  LET l == pass.level
      i == group * Block + t
      sum(k) == buffers[l][k] + buffers[l + 1][group]
      first == IF i < Written(call, l) THEN [buffers[l] EXCEPT ![i] = sum(i)] ELSE buffers[l]
      both == IF i + GroupSize < Written(call, l)
                THEN [first EXCEPT ![i + GroupSize] = sum(i + GroupSize)] ELSE first
  IN  /\ pass.kind = "add" /\ group # Nothing /\ step[t] = 0
      /\ step' = [step EXCEPT ![t] = Ended]
      /\ buffers' = [buffers EXCEPT ![l] = both]
      /\ UNCHANGED <<call, pass, pending, group, tree>>

-------------------------------------------------------------------------------
(* The dispatches of Scan() and ScanLevel(). *)

NoTree == [i \in 0 .. Root |-> Garbage]

BeginPass(c, kind, level) ==
  /\ pass' = [kind |-> kind, level |-> level]
  /\ pending' = 0 .. Groups(c, level) - 1
  /\ group' = Nothing

Idle == [kind |-> "idle", level |-> 0]

Init ==
  /\ call = [capacity |-> 1, count |-> 0, append |-> FALSE]
  /\ buffers = <<>> /\ pass = Idle /\ pending = {} /\ group = Nothing
  /\ tree = NoTree /\ step = [t \in Threads |-> Ended]

\* Scan(), with a count that the instance was made for.
Scan(c) ==
  /\ pass.kind = "idle"
  /\ call' = c
  /\ buffers' = FreshBuffers(c)
  /\ BeginPass(c, "local", 1)
  /\ UNCHANGED <<tree, step>>

GroupBegins(g) ==
  /\ group = Nothing /\ g \in pending
  /\ group' = g
  /\ pending' = pending \ {g}
  /\ tree' = NoTree
  /\ step' = [t \in Threads |-> 0]
  /\ UNCHANGED <<call, buffers, pass>>

GroupEnds ==
  /\ group # Nothing /\ \A t \in Threads : step[t] = Ended
  /\ group' = Nothing
  /\ UNCHANGED <<call, buffers, pass, pending, tree, step>>

PassEnds == group = Nothing /\ pending = {}

\* ScanLevel() calls itself for the block sums; without a level it throws.
Descend ==
  /\ PassEnds /\ pass.kind = "local" /\ Groups(call, pass.level) > 1
  /\ IF pass.level < Len(Levels(call.capacity))
       THEN BeginPass(call, "local", pass.level + 1)
       ELSE pass' = [pass EXCEPT !.kind = "thrown"] /\ UNCHANGED <<pending, group>>
  /\ UNCHANGED <<call, buffers, tree, step>>

\* A level is done: the one above adds its sums, or Scan() returns.
Ascend ==
  /\ PassEnds
  /\ pass.kind = "add" \/ (pass.kind = "local" /\ Groups(call, pass.level) <= 1)
  /\ IF pass.level > 1
       THEN BeginPass(call, "add", pass.level - 1)
       ELSE pass' = [pass EXCEPT !.kind = "done"] /\ UNCHANGED <<pending, group>>
  /\ UNCHANGED <<call, buffers, tree, step>>

ScanNext ==
  \/ \E g \in pending : GroupBegins(g)
  \/ \E t \in Threads : LocalStep(t) \/ AddStep(t)
  \/ GroupEnds \/ Descend \/ Ascend

\* The caller read the result.
Release ==
  /\ pass.kind = "done"
  /\ pass' = Idle /\ buffers' = <<>>
  /\ call' = [capacity |-> 1, count |-> 0, append |-> FALSE]
  /\ tree' = NoTree
  /\ UNCHANGED <<pending, group, step>>

Next == ScanNext \/ Release \/ \E c \in Calls : Scan(c)

Spec == Init /\ [][Next]_vars

-------------------------------------------------------------------------------

\* Type invariant: the buffers keep their sizes and the threads their steps.
TypeOK ==
  /\ pass.kind \in {"idle", "local", "add", "done"}
  /\ step \in [Threads -> 0 .. Ended]
  /\ DOMAIN tree = 0 .. Root
  /\ pass.kind # "idle" =>
       /\ pass.level \in 1 .. Len(Levels(call.capacity))
       /\ \A l \in DOMAIN buffers : DOMAIN buffers[l] = DOMAIN FreshBuffers(call)[l]

Sum(n) == FoldFunctionOnSet(+, 0, [i \in 0 .. n |-> 2^i], 0 .. n - 1)

\* When Scan() returns, each element is the sum of those before it, values[count]
\* is the total if it was asked for, and the rest of the buffer is as it was.
PrefixSums ==
  pass.kind = "done" =>
    \A i \in DOMAIN buffers[1] :
      buffers[1][i] = IF i < call.count \/ (i = call.count /\ call.append) THEN Sum(i) ELSE Garbage

\* Every dispatch stays within the block sums allocated for its level, also when
\* the appended total falls into a block of its own; a store outside is dropped
\* silently.
SumsFit ==
  pass.kind \in {"local", "add"} =>
    Groups(call, pass.level) <= SumsOf(call.capacity, pass.level)

\* Between two barriers no thread touches a cell of shared memory that another one
\* touches: the order of the threads cannot matter.
NoRace ==
  pass.kind = "local" /\ group # Nothing =>
    \A t, u \in Threads :
      t # u /\ step[t] # Ended /\ step[u] # Ended /\ AtBarrier(t, step[t]) /\ AtBarrier(u, step[u])
        => Touched(t, step[t]) \cap Touched(u, step[u]) = {}

===============================================================================
