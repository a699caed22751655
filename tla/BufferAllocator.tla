--------------------------- MODULE BufferAllocator ---------------------------
(***************************************************************************)
(* buffer_allocator (BufferAllocator.cpp): first fit over a list of free    *)
(* segments.  The list is a vector in no order; an element is removed by    *)
(* swapping the last one into its place, while pointers into the vector are *)
(* still held.                                                              *)
(***************************************************************************)
EXTENDS Integers, Sequences, FiniteSets

CONSTANTS
  Size,      \* bytes of the virtual range
  Requests,  \* bound: the sizes and alignments that are asked for
  Word       \* number of values of the unsigned type of sizes, 2^64 in the code

ASSUME SizeAssumption == Size \in Nat \ {0} /\ Word \in Nat /\ Word > 2 * Size
ASSUME RequestsAssumption ==
  Requests \subseteq [size : 1 .. Size, alignment : 1 .. Size]

Segment == [start : Nat, size : Nat]

VARIABLES
  freeSpace,  \* _freeSpace
  used        \* the segments the program was given and has not returned

allocatorVars == <<freeSpace, used>>

AllocatorInit == freeSpace = <<[start |-> 0, size |-> Size]>> /\ used = {}

End(segment) == segment.start + segment.size

Bytes(segment) == segment.start .. End(segment) - 1

\* swap(v[i], v[j]).
Swapped(v, i, j) == [v EXCEPT ![i] = v[j], ![j] = v[i]]

-------------------------------------------------------------------------------

\* align_memory_offset
Aligned(offset, alignment) ==
  IF offset % alignment = 0 THEN offset ELSE offset + alignment - (offset % alignment)

\* The slots that try_allocate may take: the remaining space is unsigned.
Fits(slot, request) ==
  /\ slot.size >= request.alignment
  /\ (End(slot) - Aligned(slot.start, request.alignment)) % Word >= request.size

\* Mutant: the alignment gap is lost.
CarvedWithoutGap(list, i, request) ==
  LET slot == list[i]
      start == Aligned(slot.start, request.alignment)
      rest == [start |-> start + request.size, size |-> End(slot) - start - request.size]
  IN  IF rest.size = 0 THEN SubSeq(Swapped(list, i, Len(list)), 1, Len(list) - 1)
      ELSE [list EXCEPT ![i] = rest]

\* The loop over the free segments stops at the first that fits.
FirstFit(list, request) ==
  {i \in DOMAIN list : Fits(list[i], request) /\ \A j \in 1 .. i - 1 : ~Fits(list[j], request)}

\* The list once the request was cut out of slot i.
Carved(list, i, request) ==
  LET slot == list[i]
      start == Aligned(slot.start, request.alignment)
      gap == [start |-> slot.start, size |-> start - slot.start]
      rest == [start |-> start + request.size, size |-> End(slot) - start - request.size]
      left == IF rest.size = 0
                THEN SubSeq(Swapped(list, i, Len(list)), 1, Len(list) - 1)
                ELSE [list EXCEPT ![i] = rest]
  IN  IF gap.size > 0 THEN Append(left, gap) ELSE left

\* try_allocate; an empty result changes nothing.
TryAllocate(request) ==
  \E i \in FirstFit(freeSpace, request) :
    /\ freeSpace' = Carved(freeSpace, i, request)
    /\ used' = used \cup {[start |-> Aligned(freeSpace[i].start, request.alignment),
                           size  |-> request.size]}

\* previousSlot and nextSlot of deallocate, whose loop keeps the last match of each.
Previous(list, segment) ==
  {i \in DOMAIN list :
     End(list[i]) = segment.start
     /\ \A j \in i + 1 .. Len(list) : End(list[j]) # segment.start}

Following(list, segment) ==
  {i \in DOMAIN list :
     list[i].start = End(segment)
     /\ \A j \in i + 1 .. Len(list) : list[j].start # End(segment)}

\* The vector's storage and the number of its elements after
\* swap(back(), *slot), pop_back(): the element popped stays in the storage.
MovedToEnd(storage, n, slot) == Swapped(storage, slot, n)

\* deallocate: nextSlot points into the storage, also after the removal of
\* previousSlot moved the last element.
Merged(list, segment) ==
  LET n == Len(list)
      before == Previous(list, segment)
      after == Following(list, segment)
      b == CHOOSE i \in before : TRUE
      a == CHOOSE i \in after : TRUE
      storage1 == IF before = {} THEN list ELSE MovedToEnd(list, n, b)
      n1 == IF before = {} THEN n ELSE n - 1
      merged1 == IF before = {} THEN segment
                 ELSE [start |-> list[b].start, size |-> list[b].size + segment.size]
      storage2 == IF after = {} THEN storage1 ELSE MovedToEnd(storage1, n1, a)
      n2 == IF after = {} THEN n1 ELSE n1 - 1
      merged2 == IF after = {} THEN merged1
                 ELSE [merged1 EXCEPT !.size = @ + storage1[a].size]
  IN  Append(SubSeq(storage2, 1, n2), merged2)

Deallocate(segment) ==
  /\ freeSpace' = Merged(freeSpace, segment)
  /\ used' = used \ {segment}

\* nextSlot is the last element, and the removal of previousSlot moves it away.
NextSlotMoves(segment) ==
  /\ Previous(freeSpace, segment) # {}
  /\ Len(freeSpace) \in Following(freeSpace, segment)

AllocatorNext ==
  \/ \E request \in Requests : TryAllocate(request)
  \/ \E segment \in used : Deallocate(segment)

AllocatorSpec == AllocatorInit /\ [][AllocatorNext]_allocatorVars

\* The calls that do not meet a nextSlot that moves.
CautiousAllocatorNext ==
  \/ \E request \in Requests : TryAllocate(request)
  \/ \E segment \in used : ~NextSlotMoves(segment) /\ Deallocate(segment)

-------------------------------------------------------------------------------

Disjoint(a, b) == Bytes(a) \cap Bytes(b) = {}

FreeBytes == UNION {Bytes(freeSpace[i]) : i \in DOMAIN freeSpace}

UsedBytes == UNION {Bytes(segment) : segment \in used}

\* Every byte of the range belongs to exactly one segment, handed out or free: no
\* two callers share bytes, and no bytes are lost, whatever is allocated with
\* whatever alignment and returned in whatever order.
EveryByteOnce ==
  /\ \A i, j \in DOMAIN freeSpace : i # j => Disjoint(freeSpace[i], freeSpace[j])
  /\ \A a, b \in used : a # b => Disjoint(a, b)
  /\ \A i \in DOMAIN freeSpace, a \in used : Disjoint(freeSpace[i], a)
  /\ FreeBytes \cup UsedBytes = 0 .. Size - 1

\* "The allocator scans for free segments touching the freshly-freed range and
\* merges them in place": a deallocation makes the returned bytes free, and no
\* others.
MergesInPlace ==
  [][\A segment \in used :
       Deallocate(segment) => FreeBytes' = FreeBytes \cup Bytes(segment)]_allocatorVars

===============================================================================
