---------------------------- MODULE SegmentedScan ----------------------------
(***************************************************************************)
(* SegmentedScan (SegmentedScan.cpp, SegmentedScanLocal.hlsli and           *)
(* SegmentedScanAddOffsets.hlsli): the exclusive prefix sum that restarts    *)
(* at every begin flag and turns chord lengths into arc lengths.  Passes,    *)
(* work groups, threads and barriers are as in ParallelScan; a block is      *)
(* summed by doubling steps between two copies in shared memory.  The value  *)
(* of element i is 2^i, so that a sum says which elements are in it.         *)
(***************************************************************************)
EXTENDS Integers, Sequences, Functions

CONSTANTS
  GroupSize,  \* GROUP_SIZE: 1024 in the code, a power of two
  Calls       \* bound: the scans asked for, [capacity, count, flags]

\* What the instances assume of the constants.
ScanAssumption ==
  /\ \E k \in 0 .. 10 : GroupSize = 2^k
  /\ \A c \in Calls : c.capacity \in Nat \ {0} /\ c.count \in 1 .. c.capacity
                      /\ c.flags \subseteq 0 .. c.count - 1

VARIABLES
  call,     \* the Scan() that runs
  values,   \* the values, then the block sums of each level
  flags,    \* the begin flags, then the block flags of each level
  begins,   \* FirstBegin of each level
  pass,     \* the dispatch that runs: a local scan or an addition, and its level
  pending,  \* its work groups that have not begun
  group,    \* the one that runs
  shared,   \* gValue and gFlag, its shared memory: two copies
  step      \* thread -> where it is in the shader

buffers == <<values, flags, begins>>

vars == <<call, buffers, pass, pending, group, shared, step>>

Threads == 0 .. GroupSize - 1

Nothing == -1   \* no work group runs

Garbage == -1000000000   \* what an earlier frame left in a buffer

DivRoundUp(value, divisor) == (value + divisor - 1) \div divisor

\* Capacities of the levels that the constructor allocates.
Levels[capacity \in Nat] ==
  LET blocks == DivRoundUp(capacity, GroupSize)
  IN  IF blocks <= 1 THEN <<capacity>> ELSE <<capacity>> \o Levels[blocks]

SumsOf(capacity, level) == DivRoundUp(Levels[capacity][level], GroupSize)

\* ElementCount of a level.
Count(c, level) ==
  LET count[l \in 1 .. level] ==
        IF l = 1 THEN c.count ELSE DivRoundUp(count[l - 1], GroupSize)
  IN  count[level]

Groups(c, level) == DivRoundUp(Count(c, level), GroupSize)

PerBlock(c, level, value) == [b \in 0 .. SumsOf(c.capacity, level) - 1 |-> value]

-------------------------------------------------------------------------------
(* The shaders. *)

Rounds == CHOOSE k \in 0 .. 10 : 2^k = GroupSize

StoreStep == Rounds + 1
Ended == StoreStep + 1

Here == pass.level

TopLevel == Here = 1

Index(t) == group * GroupSize + t

Active(t) == Index(t) < Count(call, Here)

\* ReadFlag, of an element that is active.
Flagged(t) == Active(t) /\ flags[Here][Index(t)]

\* The copy of the shared memory that a step reads; the doubling steps write the
\* other one.
Source(s) == (s - 1) % 2

\* A cell of the shared memory: a value, and whether a segment begins up to it.
Cell == [value |-> Garbage, flag |-> FALSE]

Join(left, right) ==
  [value |-> IF right.flag THEN right.value ELSE left.value + right.value,
   flag  |-> left.flag \/ right.flag]

Doubled(t, s) ==
  LET source == shared[Source(s)]
      offset == 2^(s - 1)
  IN  IF t >= offset THEN Join(source[t - offset], source[t]) ELSE source[t]

SharedAfter(t, s) ==
  CASE s = 0 -> [shared EXCEPT ![0][t] =
                   [value |-> IF Active(t) THEN values[Here][Index(t)] ELSE 0,
                    flag  |-> Flagged(t)]]
    [] s \in 1 .. Rounds -> [shared EXCEPT ![1 - Source(s)][t] = Doubled(t, s)]
    [] OTHER -> shared

\* The cells that a thread reads and writes in a step, as <<copy, thread>>.
Read(t, s) ==
  IF s = 0 THEN {}
  ELSE IF s = StoreStep THEN {<<Source(s), u>> : u \in Threads}
  ELSE {<<Source(s), u>> : u \in {t, t - 2^(s - 1)} \cap Threads}

Wrote(t, s) ==
  IF s = 0 THEN {<<0, t>>} ELSE IF s = StoreStep THEN {} ELSE {<<1 - Source(s), t>>}

Scanned == shared[Source(StoreStep)]

\* The exclusive result: at the top level a scan restarts at its begin.
Result(t) ==
  IF t = 0 \/ (TopLevel /\ Flagged(t)) THEN 0 ELSE Scanned[t - 1].value

\* The first begin of the block, written by the one thread at which the
\* accumulated flag steps up, or by thread 0.
IsFirstBegin(t) == Scanned[t].flag /\ (t = 0 \/ ~Scanned[t - 1].flag)

\* The last element of the block that holds one.
LastOfBlock ==
  LET left == Count(call, Here) - group * GroupSize
  IN  (IF left < GroupSize THEN left ELSE GroupSize) - 1

Store(t) ==
  LET last == Scanned[LastOfBlock]
  IN  /\ values' = [values EXCEPT
           ![Here] = IF Active(t) THEN [@ EXCEPT ![Index(t)] = Result(t)] ELSE @,
           ![Here + 1] = IF t = 0 THEN [@ EXCEPT ![group] = last.value] ELSE @]
      /\ flags' = IF t = 0 THEN [flags EXCEPT ![Here + 1][group] = last.flag] ELSE flags
      /\ begins' = IF IsFirstBegin(t) THEN [begins EXCEPT ![Here][group] = t]
                   ELSE IF t = 0 /\ ~last.flag
                     THEN [begins EXCEPT ![Here][group] = GroupSize]
                     ELSE begins

\* GroupMemoryBarrierWithGroupSync: every step of the shader has one before it.
AtBarrier(t, s) == \A u \in Threads : step[u] >= s

LocalStep(t) ==
  LET s == step[t]
  IN  /\ pass.kind = "local" /\ group # Nothing /\ s # Ended
      /\ AtBarrier(t, s)
      /\ step' = [step EXCEPT ![t] = s + 1]
      /\ shared' = SharedAfter(t, s)
      /\ IF s = StoreStep THEN Store(t) ELSE UNCHANGED buffers
      /\ UNCHANGED <<call, pass, pending, group>>

\* Mutant: the carry of a lower level stops before its first begin too.
CarriedBelow(t) == t < begins[Here][group]

\* Elements that get the sum of the blocks before them: at the top level those
\* before the first begin, under it also the one at it, as it is shifted by one.
NeedsCarry(t) ==
  IF TopLevel THEN t < begins[Here][group] ELSE t <= begins[Here][group]

\* A thread of SegmentedScanAddOffsets.
AddStep(t) ==
  /\ pass.kind = "add" /\ group # Nothing /\ step[t] = 0
  /\ step' = [step EXCEPT ![t] = Ended]
  /\ values' = IF Active(t) /\ NeedsCarry(t)
                 THEN [values EXCEPT ![Here][Index(t)] = @ + values[Here + 1][group]]
                 ELSE values
  /\ UNCHANGED <<call, flags, begins, pass, pending, group, shared>>

-------------------------------------------------------------------------------
(* The dispatches of Scan() and ScanLevel(). *)

NoShared == [copy \in {0, 1} |-> [t \in Threads |-> Cell]]

NoCall == [capacity |-> 1, count |-> 0, flags |-> {}]

Idle == [kind |-> "idle", level |-> 0]

Init ==
  /\ call = NoCall
  /\ values = <<>> /\ flags = <<>> /\ begins = <<>>
  /\ pass = Idle /\ pending = {} /\ group = Nothing
  /\ shared = NoShared /\ step = [t \in Threads |-> Ended]

BeginPass(c, kind, level) ==
  /\ pass' = [kind |-> kind, level |-> level]
  /\ pending' = 0 .. Groups(c, level) - 1
  /\ group' = Nothing

\* Scan(), with a count that the instance was made for.
Scan(c) ==
  LET levels == 1 .. Len(Levels[c.capacity])
  IN  /\ pass.kind = "idle"
      /\ call' = c
      /\ values' = <<[i \in 0 .. c.capacity - 1 |-> IF i < c.count THEN 2^i ELSE Garbage]>>
                   \o [l \in levels |-> PerBlock(c, l, Garbage)]
      /\ flags' = <<[i \in 0 .. c.capacity - 1 |-> i \in c.flags]>>
                  \o [l \in levels |-> PerBlock(c, l, FALSE)]
      /\ begins' = [l \in levels |-> PerBlock(c, l, Garbage)]
      /\ BeginPass(c, "local", 1)
      /\ UNCHANGED <<shared, step>>

GroupBegins(g) ==
  /\ group = Nothing /\ g \in pending
  /\ group' = g
  /\ pending' = pending \ {g}
  /\ shared' = NoShared
  /\ step' = [t \in Threads |-> 0]
  /\ UNCHANGED <<call, buffers, pass>>

GroupEnds ==
  /\ group # Nothing /\ \A t \in Threads : step[t] = Ended
  /\ group' = Nothing
  /\ UNCHANGED <<call, buffers, pass, pending, shared, step>>

PassEnds == group = Nothing /\ pending = {}

\* ScanLevel() calls itself for the block sums; without a level it throws.
Descend ==
  /\ PassEnds /\ pass.kind = "local" /\ Groups(call, Here) > 1
  /\ IF Here < Len(Levels[call.capacity])
       THEN BeginPass(call, "local", Here + 1)
       ELSE pass' = [pass EXCEPT !.kind = "thrown"] /\ UNCHANGED <<pending, group>>
  /\ UNCHANGED <<call, buffers, shared, step>>

\* A level is done: the one above adds its sums, or Scan() returns.
Ascend ==
  /\ PassEnds
  /\ pass.kind = "add" \/ (pass.kind = "local" /\ Groups(call, Here) <= 1)
  /\ IF Here > 1
       THEN BeginPass(call, "add", Here - 1)
       ELSE pass' = [pass EXCEPT !.kind = "done"] /\ UNCHANGED <<pending, group>>
  /\ UNCHANGED <<call, buffers, shared, step>>

ScanNext ==
  \/ \E g \in pending : GroupBegins(g)
  \/ \E t \in Threads : LocalStep(t) \/ AddStep(t)
  \/ GroupEnds \/ Descend \/ Ascend

\* The caller read the result.
Release ==
  /\ pass.kind = "done"
  /\ call' = NoCall
  /\ values' = <<>> /\ flags' = <<>> /\ begins' = <<>>
  /\ pass' = Idle
  /\ shared' = NoShared
  /\ UNCHANGED <<pending, group, step>>

Next == ScanNext \/ Release \/ \E c \in Calls : Scan(c)

Spec == Init /\ [][Next]_vars

-------------------------------------------------------------------------------

\* Type invariant; ScanLevel() always finds the level it asks for.
TypeOK ==
  /\ pass.kind \in {"idle", "local", "add", "done"}
  /\ step \in [Threads -> 0 .. Ended]
  /\ Len(values) = Len(flags)
  /\ pass.kind # "idle" => Len(begins) = Len(Levels[call.capacity])

Sum(from, to) == FoldFunctionOnSet(+, 0, [i \in from .. to |-> 2^i], from .. to)

\* Where the segment of element i begins.
BeginOf(c, i) ==
  LET before == {b \in c.flags : b <= i}
  IN  IF before = {} THEN 0 ELSE CHOOSE b \in before : \A other \in before : other <= b

\* When Scan() returns, each element is the sum of those before it in its segment,
\* wherever the segments begin relative to the blocks of each level.
SegmentSums ==
  pass.kind = "done" =>
    \A i \in DOMAIN values[1] :
      values[1][i] = IF i < call.count THEN Sum(BeginOf(call, i), i - 1) ELSE Garbage

\* The carry pass reads what the local pass wrote: each block has one first begin,
\* that of its first element with a flag.
FirstBegins ==
  pass.kind \in {"add", "done"} /\ Groups(call, 1) > 1 =>
    \A b \in 0 .. Groups(call, 1) - 1 :
      LET inBlock == {t \in Threads : b * GroupSize + t \in call.flags}
      IN  begins[1][b] = IF inBlock = {} THEN GroupSize
                         ELSE CHOOSE t \in inBlock : \A u \in inBlock : t <= u

\* Between two barriers no thread writes a cell of shared memory that another one
\* reads or writes; two copies make one barrier a step enough.
NoRace ==
  pass.kind = "local" /\ group # Nothing =>
    \A t, u \in Threads :
      t # u /\ step[t] # Ended /\ step[u] # Ended /\ AtBarrier(t, step[t]) /\ AtBarrier(u, step[u])
        => Wrote(t, step[t]) \cap (Read(u, step[u]) \cup Wrote(u, step[u])) = {}

===============================================================================
