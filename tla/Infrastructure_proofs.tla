------------------------ MODULE Infrastructure_proofs ------------------------
(***************************************************************************)
(* Proofs about the buffer allocator and the dependency container.           *)
(*                                                                         *)
(* The allocator gives every byte to one owner, for any size of the range,   *)
(* any requests and any order of returns in which nextSlot stays where it    *)
(* is.  A free segment that leaves the list is treated as handed out:        *)
(* allocating and returning are then made of five steps, each of which       *)
(* keeps the range divided.                                                 *)
(*                                                                         *)
(* The container: a registration that gave an object out is bound to it, a   *)
(* mutex that is locked is so for a call of its holder, and inner calls are  *)
(* for services of lower rank.                                              *)
(***************************************************************************)
EXTENDS BufferAllocator, DependencyContainer, WellFoundedInduction, SequenceTheorems, TLAPS

-------------------------------------------------------------------------------
(* The allocator *)

CautiousAllocatorSpec == AllocatorInit /\ [][CautiousAllocatorNext]_allocatorVars

\* A segment that is not empty and lies in the range.
Piece == {s \in [start : Nat, size : Nat \ {0}] : End(s) <= Size}

Apart(s, t) == End(s) <= t.start \/ End(t) <= s.start

Within(x, s) == s.start <= x /\ x < End(s)

\* Free and held segments divide the range.
Divided(list, held) ==
  /\ list \in Seq(Piece)
  /\ held \subseteq Piece
  /\ \A i, j \in 1 .. Len(list) : i # j => Apart(list[i], list[j])
  /\ \A s, t \in held : s # t => Apart(s, t)
  /\ \A i \in 1 .. Len(list), s \in held : Apart(list[i], s)
  /\ \A x \in 0 .. Size - 1 :
       (\E i \in 1 .. Len(list) : Within(x, list[i])) \/ (\E s \in held : Within(x, s))

RemoveAt(list, i) == SubSeq(Swapped(list, i, Len(list)), 1, Len(list) - 1)

-------------------------------------------------------------------------------
(* The steps *)

LEMMA RemovedElements ==
  ASSUME NEW S, NEW list \in Seq(S), NEW i \in 1 .. Len(list)
  PROVE  /\ RemoveAt(list, i) \in Seq(S)
         /\ Len(RemoveAt(list, i)) = Len(list) - 1
         /\ \A k \in 1 .. Len(list) - 1 :
              RemoveAt(list, i)[k] = list[IF k = i THEN Len(list) ELSE k]
<1> DEFINE n == Len(list)
           swapped == Swapped(list, i, n)
<1>1. n \in Nat /\ n >= 1 /\ DOMAIN list = 1 .. n
  OBVIOUS
<1>2. swapped \in Seq(S) /\ Len(swapped) = n
  BY <1>1 DEF Swapped
<1>3. \A k \in 1 .. n - 1 : swapped[k] = list[IF k = i THEN n ELSE k]
  BY <1>1 DEF Swapped
<1> QED
  BY <1>1, <1>2, <1>3 DEF RemoveAt

\* A free segment is taken out of the list.
LEMMA TakeDivides ==
  ASSUME NEW list, NEW held, Divided(list, held), NEW i \in 1 .. Len(list)
  PROVE  Divided(RemoveAt(list, i), held \cup {list[i]}) /\ list[i] \notin held
<1> DEFINE n == Len(list)
           rest == RemoveAt(list, i)
           from(k) == IF k = i THEN n ELSE k
<1>1. list \in Seq(Piece) /\ held \subseteq Piece /\ n \in Nat
  BY DEF Divided
<1>2. /\ rest \in Seq(Piece) /\ Len(rest) = n - 1
      /\ \A k \in 1 .. n - 1 : rest[k] = list[from(k)]
  BY <1>1, RemovedElements
<1>3. \A k \in 1 .. n - 1 : from(k) \in 1 .. n /\ from(k) # i
  BY <1>1
<1>4. \A j, k \in 1 .. n - 1 : j # k => from(j) # from(k)
  BY <1>1
<1>5. \A k \in 1 .. n : k # i => \E j \in 1 .. n - 1 : from(j) = k
  <2> SUFFICES ASSUME NEW k \in 1 .. n, k # i
               PROVE  \E j \in 1 .. n - 1 : from(j) = k
    OBVIOUS
  <2>1. CASE k = n
    BY <1>1, <2>1
  <2>2. CASE k # n
    BY <1>1, <2>2
  <2> QED BY <2>1, <2>2
<1> HIDE DEF from, rest, n
<1>6. list[i] \in Piece /\ list[i] \notin held
  <2>1. list[i] \in Piece
    BY <1>1 DEF n
  <2>2. ~Apart(list[i], list[i])
    BY <2>1 DEF Apart, Piece, End
  <2> QED BY <2>1, <2>2 DEF Divided
<1>7. \A j, k \in 1 .. n - 1 : j # k => Apart(rest[j], rest[k])
  BY <1>2, <1>3, <1>4 DEF Divided, n
<1>8. \A s, t \in held \cup {list[i]} : s # t => Apart(s, t)
  BY DEF Divided, Apart
<1>9. \A k \in 1 .. n - 1, s \in held \cup {list[i]} : Apart(rest[k], s)
  BY <1>2, <1>3 DEF Divided, n
<1>10. ASSUME NEW x \in 0 .. Size - 1
       PROVE  \/ \E k \in 1 .. n - 1 : Within(x, rest[k])
              \/ \E s \in held \cup {list[i]} : Within(x, s)
  BY <1>2, <1>5 DEF Divided, n
<1>11. Divided(rest, held \cup {list[i]})
  BY <1>1, <1>2, <1>6, <1>7, <1>8, <1>9, <1>10 DEF Divided
<1> QED
  BY <1>6, <1>11 DEF rest

\* A held segment is appended to the list.
LEMMA GiveDivides ==
  ASSUME NEW list, NEW held, Divided(list, held), NEW s \in held
  PROVE  Divided(Append(list, s), held \ {s})
<1> DEFINE n == Len(list)
           more == Append(list, s)
<1>1. list \in Seq(Piece) /\ held \subseteq Piece /\ s \in Piece /\ n \in Nat
  BY DEF Divided
<1>2. /\ more \in Seq(Piece) /\ Len(more) = n + 1
      /\ \A k \in 1 .. n : more[k] = list[k]
      /\ more[n + 1] = s
  BY <1>1
<1>3. \A k \in 1 .. n + 1 : k \in 1 .. n \/ k = n + 1
  BY <1>1
<1> HIDE DEF more, n
<1>4. \A j, k \in 1 .. n + 1 : j # k => Apart(more[j], more[k])
  BY <1>2, <1>3 DEF Divided, n, Apart
<1>5. \A k \in 1 .. n + 1, t \in held \ {s} : Apart(more[k], t)
  BY <1>2, <1>3 DEF Divided, n
<1>6. ASSUME NEW x \in 0 .. Size - 1
      PROVE  \/ \E k \in 1 .. n + 1 : Within(x, more[k])
             \/ \E t \in held \ {s} : Within(x, t)
  <2>1. CASE Within(x, s)
    BY <1>1, <1>2, <2>1
  <2>2. CASE ~Within(x, s)
    BY <1>1, <1>2, <2>2 DEF Divided, n
  <2> QED BY <2>1, <2>2
<1>7. \A t, u \in held \ {s} : t # u => Apart(t, u)
  BY DEF Divided
<1>8. Divided(more, held \ {s})
  BY <1>1, <1>2, <1>4, <1>5, <1>6, <1>7 DEF Divided
<1> QED
  BY <1>8 DEF more

Cut(s, t, u) == s.start = t.start /\ End(t) = u.start /\ End(u) = End(s)

\* A held segment is cut in two.
LEMMA SplitDivides ==
  ASSUME NEW list, NEW held, Divided(list, held),
         NEW s \in held, NEW t \in Piece, NEW u \in Piece, Cut(s, t, u)
  PROVE  Divided(list, (held \ {s}) \cup {t, u})
<1> DEFINE all == (held \ {s}) \cup {t, u}
<1>1. held \subseteq Piece /\ s \in Piece /\ list \in Seq(Piece)
  BY DEF Divided
<1>2. ASSUME NEW r \in Piece, Apart(r, s)
      PROVE  Apart(r, t) /\ Apart(r, u) /\ Apart(t, r) /\ Apart(u, r)
  BY <1>1, <1>2 DEF Apart, Cut, Piece, End
<1>3. Apart(t, u) /\ Apart(u, t)
  BY DEF Apart, Cut, Piece, End
<1>4. \A x \in 0 .. Size - 1 : Within(x, s) => Within(x, t) \/ Within(x, u)
  BY <1>1 DEF Within, Cut, Piece, End
<1>5. \A q, r \in all : q # r => Apart(q, r)
  BY <1>1, <1>2, <1>3 DEF Divided
<1>6. \A i \in 1 .. Len(list), r \in all : Apart(list[i], r)
  BY <1>1, <1>2 DEF Divided
<1>7. ASSUME NEW x \in 0 .. Size - 1
      PROVE  (\E i \in 1 .. Len(list) : Within(x, list[i])) \/ (\E r \in all : Within(x, r))
  BY <1>4 DEF Divided
<1> QED
  BY <1>1, <1>5, <1>6, <1>7 DEF Divided

\* Two held segments that touch become one.
LEMMA JoinDivides ==
  ASSUME NEW list, NEW held, Divided(list, held),
         NEW s \in Piece, NEW t \in held, NEW u \in held, Cut(s, t, u)
  PROVE  Divided(list, (held \ {t, u}) \cup {s})
<1> DEFINE all == (held \ {t, u}) \cup {s}
<1>1. held \subseteq Piece /\ list \in Seq(Piece)
  BY DEF Divided
<1>2. ASSUME NEW r \in Piece, Apart(r, t), Apart(r, u)
      PROVE  Apart(r, s) /\ Apart(s, r)
  BY <1>1, <1>2 DEF Apart, Cut, Piece, End
<1>3. \A x \in 0 .. Size - 1 : Within(x, t) \/ Within(x, u) => Within(x, s)
  BY <1>1 DEF Within, Cut, Piece, End
<1>4. \A q, r \in all : q # r => Apart(q, r)
  BY <1>1, <1>2 DEF Divided
<1>5. \A i \in 1 .. Len(list), r \in all : Apart(list[i], r)
  BY <1>1, <1>2 DEF Divided
<1>6. ASSUME NEW x \in 0 .. Size - 1
      PROVE  (\E i \in 1 .. Len(list) : Within(x, list[i])) \/ (\E r \in all : Within(x, r))
  BY <1>3 DEF Divided
<1> QED
  BY <1>1, <1>4, <1>5, <1>6 DEF Divided

\* A free segment is cut in two: the first part is handed out, the second stays.
LEMMA ShrinkDivides ==
  ASSUME NEW list, NEW held, Divided(list, held), NEW i \in 1 .. Len(list),
         NEW t \in Piece, NEW u \in Piece, Cut(list[i], t, u)
  PROVE  Divided([list EXCEPT ![i] = u], held \cup {t})
<1> DEFINE n == Len(list)
           s == list[i]
           left == [list EXCEPT ![i] = u]
<1>1. list \in Seq(Piece) /\ held \subseteq Piece /\ s \in Piece /\ n \in Nat
  BY DEF Divided
<1>2. /\ left \in Seq(Piece) /\ Len(left) = n
      /\ \A k \in 1 .. n : k # i => left[k] = list[k]
      /\ left[i] = u
  BY <1>1
<1> HIDE DEF left, n
<1>3. ASSUME NEW r \in Piece, Apart(r, s)
      PROVE  Apart(r, t) /\ Apart(r, u) /\ Apart(t, r) /\ Apart(u, r)
  BY <1>1, <1>3 DEF Apart, Cut, Piece, End
<1>4. Apart(t, u) /\ Apart(u, t)
  BY DEF Apart, Cut, Piece, End
<1>5. \A r \in held : Apart(r, s)
  BY DEF Divided, Apart
<1>6. \A k \in 1 .. n : k # i => list[k] \in Piece /\ Apart(list[k], s)
  BY <1>1 DEF Divided, n
<1>7. \A j, k \in 1 .. n : j # k => Apart(left[j], left[k])
  BY <1>2, <1>3, <1>6 DEF Divided, n
<1>8. \A q, r \in held \cup {t} : q # r => Apart(q, r)
  BY <1>1, <1>3, <1>5 DEF Divided
<1>9. \A k \in 1 .. n, r \in held \cup {t} : Apart(left[k], r)
  <2> SUFFICES ASSUME NEW k \in 1 .. n, NEW r \in held \cup {t}
               PROVE  Apart(left[k], r)
    OBVIOUS
  <2>1. CASE k = i
    BY <1>1, <1>2, <1>3, <1>4, <1>5, <2>1
  <2>2. CASE k # i
    BY <1>2, <1>3, <1>6, <2>2 DEF Divided, n
  <2> QED BY <2>1, <2>2
<1>10. ASSUME NEW x \in 0 .. Size - 1
       PROVE  \/ \E k \in 1 .. n : Within(x, left[k])
              \/ \E r \in held \cup {t} : Within(x, r)
  <2>1. CASE Within(x, s)
    <3>1. Within(x, t) \/ Within(x, u)
      BY <1>1, <2>1 DEF Within, Cut, Piece, End
    <3> QED BY <1>2, <3>1 DEF n
  <2>2. CASE ~Within(x, s)
    BY <1>2, <2>2 DEF Divided, n
  <2> QED BY <2>1, <2>2
<1>11. Divided(left, held \cup {t})
  BY <1>1, <1>2, <1>7, <1>8, <1>9, <1>10 DEF Divided
<1> QED
  BY <1>11 DEF left

-------------------------------------------------------------------------------
(* Allocating and returning *)

LEMMA AlignedBound ==
  ASSUME NEW offset \in Nat, NEW alignment \in Nat \ {0}
  PROVE  /\ Aligned(offset, alignment) \in Nat
         /\ offset <= Aligned(offset, alignment)
         /\ Aligned(offset, alignment) < offset + alignment
<1>1. offset % alignment \in 0 .. alignment - 1
  OBVIOUS
<1> QED
  BY <1>1 DEF Aligned

\* The remaining space of a free segment that is as large as the alignment does not wrap.
LEMMA NoWrap ==
  ASSUME NEW slot \in Piece, NEW request \in Requests, Fits(slot, request)
  PROVE  LET start == Aligned(slot.start, request.alignment)
         IN  /\ start \in Nat /\ slot.start <= start
             /\ start + request.size <= End(slot)
<1> DEFINE start == Aligned(slot.start, request.alignment)
           room == End(slot) - start
<1>1. /\ slot.start \in Nat /\ slot.size \in Nat /\ End(slot) <= Size
      /\ request.size \in Nat \ {0} /\ request.alignment \in Nat \ {0}
  BY RequestsAssumption, SizeAssumption DEF Piece
<1>2. start \in Nat /\ slot.start <= start /\ start < slot.start + request.alignment
  BY <1>1, AlignedBound
<1>3. slot.size >= request.alignment
  BY DEF Fits
<1> HIDE DEF start
<1>4. room \in Nat /\ room < Word
  BY <1>1, <1>2, <1>3, SizeAssumption DEF End
<1>5. room % Word = room
  BY <1>4, SizeAssumption
<1>6. room >= request.size
  BY <1>5 DEF Fits, start
<1> QED
  BY <1>1, <1>2, <1>6 DEF start, End

\* What was taken from the slot lies apart from what is held.
LEMMA FreshPart ==
  ASSUME NEW list, NEW held, Divided(list, held), NEW i \in 1 .. Len(list),
         NEW t \in Piece, list[i].start <= t.start, End(t) <= End(list[i])
  PROVE  t \notin held
<1>1. list[i] \in Piece /\ held \subseteq Piece
  BY DEF Divided
<1>2. ~Apart(list[i], t)
  BY <1>1 DEF Apart, Piece, End
<1> QED
  BY <1>2 DEF Divided

LEMMA CarvedDivides ==
  ASSUME NEW list, NEW held, Divided(list, held), NEW i \in 1 .. Len(list),
         NEW request \in Requests, Fits(list[i], request)
  PROVE  Divided(Carved(list, i, request),
                 held \cup {[start |-> Aligned(list[i].start, request.alignment),
                             size |-> request.size]})
<1> DEFINE slot == list[i]
           start == Aligned(slot.start, request.alignment)
           gap == [start |-> slot.start, size |-> start - slot.start]
           result == [start |-> start, size |-> request.size]
           front == [start |-> slot.start, size |-> start - slot.start + request.size]
           rest == [start |-> start + request.size, size |-> End(slot) - start - request.size]
           left == IF rest.size = 0 THEN RemoveAt(list, i) ELSE [list EXCEPT ![i] = rest]
<1>1. slot \in Piece /\ held \subseteq Piece /\ list \in Seq(Piece)
  BY DEF Divided
<1>2. start \in Nat /\ slot.start <= start /\ start + request.size <= End(slot)
  BY <1>1, NoWrap
<1>3. /\ slot.start \in Nat /\ slot.size \in Nat \ {0} /\ End(slot) <= Size
      /\ slot = [start |-> slot.start, size |-> slot.size]
      /\ request.size \in Nat \ {0}
  BY <1>1, RequestsAssumption, SizeAssumption DEF Piece
<1>4. Carved(list, i, request) = IF gap.size > 0 THEN Append(left, gap) ELSE left
  BY DEF Carved, RemoveAt
<1> HIDE DEF start
<1>5. front \in Piece /\ result \in Piece
  <2>1. /\ start - slot.start + request.size \in Nat \ {0}
        /\ slot.start + (start - slot.start + request.size) <= Size
        /\ start + request.size <= Size
    BY <1>2, <1>3, SizeAssumption DEF End
  <2>2. front \in Piece
    BY <1>3, <2>1 DEF Piece, End
  <2>3. result \in Piece
    BY <1>2, <1>3, <2>1 DEF Piece, End
  <2> QED BY <2>2, <2>3
<1>6. front \notin held
  <2>1. slot.start <= front.start /\ End(front) <= End(slot)
    BY <1>2, <1>3 DEF End
  <2> HIDE DEF front
  <2> QED BY <1>5, <2>1, FreshPart
<1>7. Divided(left, held \cup {front})
  <2>1. CASE rest.size = 0
    <3>1. front = slot
      BY <1>2, <1>3, <2>1 DEF End
    <3> QED BY <2>1, <3>1, TakeDivides
  <2>2. CASE rest.size # 0
    <3>1. rest \in Piece /\ Cut(slot, front, rest)
      BY <1>2, <1>3, <2>2 DEF Piece, End, Cut
    <3>2. Divided([list EXCEPT ![i] = rest], held \cup {front})
      BY <1>5, <3>1, ShrinkDivides
    <3> QED BY <2>2, <3>2
  <2> QED BY <2>1, <2>2
<1>8. CASE gap.size = 0
  <2>1. front = result
    BY <1>2, <1>3, <1>8
  <2>2. ~(gap.size > 0)
    BY <1>8
  <2> HIDE DEF left, gap, result, front
  <2>3. Carved(list, i, request) = left
    BY <1>4, <2>2
  <2>4. Divided(Carved(list, i, request), held \cup {result})
    BY <1>7, <2>1, <2>3
  <2> QED BY <2>4 DEF result, start
<1>9. CASE gap.size # 0
  <2>1. gap.size > 0 /\ gap \in Piece /\ Cut(front, gap, result)
    <3>1. /\ start - slot.start \in Nat \ {0} /\ start - slot.start > 0
          /\ slot.start + (start - slot.start) <= Size
          /\ slot.start + (start - slot.start) = start
      BY <1>2, <1>3, <1>9, SizeAssumption DEF End
    <3>2. gap.size > 0
      BY <3>1
    <3>3. gap \in Piece
      BY <1>3, <3>1 DEF Piece, End
    <3>4. Cut(front, gap, result)
      BY <1>2, <1>3, <3>1 DEF Cut, End
    <3> QED BY <3>2, <3>3, <3>4
  <2>2. gap \notin held /\ gap # result
    <3>1. gap.start = slot.start /\ End(gap) <= End(slot)
      BY <1>2, <1>3 DEF End
    <3>2. gap \notin held
      BY <1>3, <2>1, <3>1, FreshPart
    <3> QED BY <1>2, <1>3, <2>1, <3>2
  <2> HIDE DEF left, gap, result, front
  <2>3. Divided(left, ((held \cup {front}) \ {front}) \cup {gap, result})
    BY <1>5, <1>7, <2>1, SplitDivides
  <2>4. Divided(left, held \cup {gap, result})
    BY <1>6, <2>3
  <2>5. Divided(Append(left, gap), (held \cup {gap, result}) \ {gap})
    BY <2>4, GiveDivides
  <2>6. (held \cup {gap, result}) \ {gap} = held \cup {result}
    BY <2>2
  <2>7. Carved(list, i, request) = Append(left, gap)
    BY <1>4, <2>1
  <2> QED BY <2>5, <2>6, <2>7 DEF result, start
<1> QED
  BY <1>2, <1>3, <1>8, <1>9

\* Two segments that touch, in a list of others, become one of them.
LEMMA FreshJoin ==
  ASSUME NEW list, NEW others, NEW t, NEW u, Divided(list, others \cup {t, u}),
         t \notin others, u \notin others, NEW s \in Piece, Cut(s, t, u)
  PROVE  Divided(list, others \cup {s}) /\ s \notin others
<1>1. others \subseteq Piece /\ t \in Piece /\ u \in Piece
  BY DEF Divided
<1>2. Divided(list, ((others \cup {t, u}) \ {t, u}) \cup {s})
  BY JoinDivides
<1>3. (others \cup {t, u}) \ {t, u} = others
  OBVIOUS
<1>4. ~Apart(s, t)
  BY <1>1 DEF Apart, Cut, Piece, End
<1>5. s \notin others
  BY <1>4 DEF Divided
<1> QED
  BY <1>2, <1>3, <1>5

\* What removes an element of the vector, and leaves the element popped in its storage.
LEMMA PrefixRemoved ==
  ASSUME NEW S, NEW storage \in Seq(S), NEW m \in 1 .. Len(storage), NEW i \in 1 .. m
  PROVE  SubSeq(MovedToEnd(storage, m, i), 1, m - 1) = RemoveAt(SubSeq(storage, 1, m), i)
<1> DEFINE moved == MovedToEnd(storage, m, i)
           prefix == SubSeq(storage, 1, m)
<1>1. moved \in Seq(S) /\ Len(moved) = Len(storage) /\ m \in Nat /\ m <= Len(storage)
  BY DEF MovedToEnd, Swapped
<1>2. \A k \in 1 .. m - 1 : moved[k] = storage[IF k = i THEN m ELSE k]
  BY <1>1 DEF MovedToEnd, Swapped
<1>3. prefix \in Seq(S) /\ Len(prefix) = m /\ \A k \in 1 .. m : prefix[k] = storage[k]
  BY <1>1
<1>4. /\ RemoveAt(prefix, i) \in Seq(S) /\ Len(RemoveAt(prefix, i)) = m - 1
      /\ \A k \in 1 .. m - 1 : RemoveAt(prefix, i)[k] = prefix[IF k = i THEN m ELSE k]
  <2> HIDE DEF prefix
  <2>1. i \in 1 .. Len(prefix)
    BY <1>3
  <2>2. /\ RemoveAt(prefix, i) \in Seq(S)
        /\ Len(RemoveAt(prefix, i)) = Len(prefix) - 1
        /\ \A k \in 1 .. Len(prefix) - 1 :
             RemoveAt(prefix, i)[k] = prefix[IF k = i THEN Len(prefix) ELSE k]
    BY <1>3, <2>1, RemovedElements
  <2> QED BY <1>3, <2>2
<1>5. /\ SubSeq(moved, 1, m - 1) \in Seq(S) /\ Len(SubSeq(moved, 1, m - 1)) = m - 1
      /\ \A k \in 1 .. m - 1 : SubSeq(moved, 1, m - 1)[k] = moved[k]
  BY <1>1
<1> HIDE DEF moved, prefix
<1>6. \A k \in 1 .. m - 1 : SubSeq(moved, 1, m - 1)[k] = RemoveAt(prefix, i)[k]
  BY <1>1, <1>2, <1>3, <1>4, <1>5
<1>7. SubSeq(moved, 1, m - 1) = RemoveAt(prefix, i)
  BY <1>4, <1>5, <1>6, SeqEqual
<1> QED
  BY <1>7 DEF moved, prefix

\* A held segment takes in a free one that it touches.
LEMMA JoinFree ==
  ASSUME NEW list, NEW others, NEW s, Divided(list, others \cup {s}), s \notin others,
         NEW i \in 1 .. Len(list), NEW m \in Piece,
         Cut(m, list[i], s) \/ Cut(m, s, list[i])
  PROVE  Divided(RemoveAt(list, i), others \cup {m}) /\ m \notin others
<1> DEFINE t == list[i]
           left == RemoveAt(list, i)
<1>1. Divided(left, (others \cup {s}) \cup {t}) /\ t \notin others \cup {s}
  BY TakeDivides
<1>2. (others \cup {s}) \cup {t} = others \cup {s, t} /\ {s, t} = {t, s}
  OBVIOUS
<1>3. t \notin others
  BY <1>1
<1>4. Cut(m, t, s) \/ Cut(m, s, t)
  OBVIOUS
<1> HIDE DEF t, left
<1>5. Divided(left, others \cup {s, t})
  BY <1>1, <1>2
<1>6. CASE Cut(m, s, t)
  BY <1>3, <1>5, <1>6, FreshJoin DEF left
<1>7. CASE Cut(m, t, s)
  <2>1. Divided(left, others \cup {t, s})
    BY <1>2, <1>5
  <2> QED BY <1>3, <1>7, <2>1, FreshJoin DEF left
<1> QED
  BY <1>4, <1>6, <1>7

LEMMA MovedElements ==
  ASSUME NEW S, NEW storage \in Seq(S), NEW m \in 1 .. Len(storage), NEW i \in 1 .. m
  PROVE  /\ MovedToEnd(storage, m, i) \in Seq(S)
         /\ Len(MovedToEnd(storage, m, i)) = Len(storage)
         /\ \A k \in 1 .. Len(storage) :
              k # i /\ k # m => MovedToEnd(storage, m, i)[k] = storage[k]
  BY DEF MovedToEnd, Swapped

LEMMA MergedDivides ==
  ASSUME NEW list, NEW held, Divided(list, held), NEW segment \in held,
         ~(Previous(list, segment) # {} /\ Len(list) \in Following(list, segment))
  PROVE  Divided(Merged(list, segment), held \ {segment})
<1> DEFINE others == held \ {segment}
           n == Len(list)
           before == Previous(list, segment)
           after == Following(list, segment)
           b == CHOOSE i \in before : TRUE
           a == CHOOSE i \in after : TRUE
           storage1 == IF before = {} THEN list ELSE MovedToEnd(list, n, b)
           n1 == IF before = {} THEN n ELSE n - 1
           merged1 == IF before = {} THEN segment
                      ELSE [start |-> list[b].start, size |-> list[b].size + segment.size]
           storage2 == IF after = {} THEN storage1 ELSE MovedToEnd(storage1, n1, a)
           n2 == IF after = {} THEN n1 ELSE n1 - 1
           merged2 == IF after = {} THEN merged1
                      ELSE [merged1 EXCEPT !.size = @ + storage1[a].size]
<1>1. /\ list \in Seq(Piece) /\ held \subseteq Piece /\ segment \in Piece
      /\ n \in Nat /\ DOMAIN list = 1 .. n
  BY DEF Divided
<1>2. Merged(list, segment) = Append(SubSeq(storage2, 1, n2), merged2)
  BY DEF Merged
<1>3. before # {} => b \in 1 .. n /\ End(list[b]) = segment.start
  <2>1. before # {} => b \in before
    OBVIOUS
  <2> HIDE DEF b
  <2> QED BY <1>1, <2>1 DEF Previous
<1>4. after # {} => /\ a \in 1 .. n /\ list[a].start = End(segment)
                    /\ before # {} => a # n
  <2>1. after # {} => a \in after
    OBVIOUS
  <2> HIDE DEF a
  <2> QED BY <1>1, <2>1 DEF Following
<1> HIDE DEF a, b, before, after
<1>5. Divided(list, others \cup {segment}) /\ segment \notin others
  <2>1. others \cup {segment} = held
    OBVIOUS
  <2> QED BY <2>1
<1>6. SubSeq(list, 1, n) = list
  <2>1. /\ SubSeq(list, 1, n) \in Seq(Piece) /\ Len(SubSeq(list, 1, n)) = n
        /\ \A k \in 1 .. n : SubSeq(list, 1, n)[k] = list[k]
    BY <1>1
  <2> QED BY <1>1, <2>1, SeqEqual
<1>7. /\ storage1 \in Seq(Piece) /\ Len(storage1) = n /\ n1 \in Nat /\ n1 <= n
      /\ merged1 \in Piece /\ End(merged1) = End(segment)
      /\ Divided(SubSeq(storage1, 1, n1), others \cup {merged1})
      /\ merged1 \notin others
      /\ after # {} => a \in 1 .. n1 /\ storage1[a].start = End(segment)
  <2>1. CASE before = {}
    <3>1. storage1 = list /\ n1 = n /\ merged1 = segment
      BY <2>1
    <3>2. after # {} => a \in 1 .. n /\ list[a].start = End(segment)
      BY <1>4
    <3>3. list \in Seq(Piece) /\ Len(list) = n /\ n \in Nat /\ n <= n
      BY <1>1
    <3> HIDE DEF storage1, n1, merged1, others, n
    <3>4. Divided(SubSeq(storage1, 1, n1), others \cup {merged1}) /\ merged1 \notin others
      BY <1>5, <1>6, <3>1
    <3> QED BY <1>1, <3>1, <3>2, <3>3, <3>4
  <2>2. CASE before # {}
    <3> DEFINE joined == [start |-> list[b].start, size |-> list[b].size + segment.size]
    <3>1. storage1 = MovedToEnd(list, n, b) /\ n1 = n - 1 /\ merged1 = joined
      BY <2>2
    <3>2. /\ b \in 1 .. n /\ End(list[b]) = segment.start /\ list[b] \in Piece
          /\ n \in Nat \ {0}
      BY <1>1, <1>3, <2>2
    <3>3. joined \in Piece /\ End(joined) = End(segment) /\ Cut(joined, list[b], segment)
      BY <1>1, <3>2, SizeAssumption DEF Piece, End, Cut
    <3>4. Divided(RemoveAt(list, b), others \cup {joined}) /\ joined \notin others
      <4> HIDE DEF joined, others, n
      <4> QED BY <1>5, <3>2, <3>3, JoinFree DEF n
    <3>5. SubSeq(MovedToEnd(list, n, b), 1, n - 1) = RemoveAt(list, b)
      <4>1. n \in 1 .. Len(list)
        BY <3>2
      <4> HIDE DEF n
      <4>2. SubSeq(MovedToEnd(list, n, b), 1, n - 1) = RemoveAt(SubSeq(list, 1, n), b)
        BY <1>1, <3>2, <4>1, PrefixRemoved
      <4> QED BY <1>6, <4>2
    <3>6. storage1 \in Seq(Piece) /\ Len(storage1) = n
      <4>1. n \in 1 .. Len(list)
        BY <3>2
      <4> HIDE DEF storage1, n
      <4>2. MovedToEnd(list, n, b) \in Seq(Piece) /\ Len(MovedToEnd(list, n, b)) = Len(list)
        BY <1>1, <3>2, <4>1, MovedElements
      <4> QED BY <3>1, <4>2 DEF n
    <3>7. after # {} => a \in 1 .. n - 1 /\ storage1[a].start = End(segment)
      <4> SUFFICES ASSUME after # {}
                   PROVE  a \in 1 .. n - 1 /\ storage1[a].start = End(segment)
        OBVIOUS
      <4>1. a \in 1 .. n /\ a # n /\ list[a].start = End(segment)
        BY <1>4, <2>2
      <4>2. a # b
        <5> SUFFICES ASSUME a = b PROVE FALSE
          OBVIOUS
        <5>1. /\ list[b].start \in Nat /\ list[b].size \in Nat \ {0}
              /\ segment.start \in Nat /\ segment.size \in Nat \ {0}
          BY <1>1, <3>2 DEF Piece
        <5>2. list[b].start = segment.start + segment.size
          BY <4>1 DEF End
        <5>3. list[b].start + list[b].size = segment.start
          BY <3>2 DEF End
        <5> QED BY <5>1, <5>2, <5>3
      <4>3. MovedToEnd(list, n, b)[a] = list[a]
        BY <1>1, <3>2, <4>1, <4>2 DEF MovedToEnd, Swapped
      <4> HIDE DEF storage1, n
      <4> QED BY <3>1, <3>2, <4>1, <4>3
    <3> HIDE DEF storage1, n1, merged1, joined, others, n
    <3>8. n1 \in Nat /\ n1 <= n
      BY <3>1, <3>2
    <3>9. Divided(SubSeq(storage1, 1, n1), others \cup {merged1}) /\ merged1 \notin others
      BY <3>1, <3>4, <3>5
    <3>10. merged1 \in Piece /\ End(merged1) = End(segment)
      BY <3>1, <3>3
    <3> QED BY <3>1, <3>6, <3>7, <3>8, <3>9, <3>10
  <2> QED BY <2>1, <2>2
<1>8. Divided(SubSeq(storage2, 1, n2), others \cup {merged2}) /\ merged2 \notin others
  <2>1. CASE after = {}
    <3>1. storage2 = storage1 /\ n2 = n1 /\ merged2 = merged1
      BY <2>1
    <3> HIDE DEF storage1, n1, merged1, storage2, n2, merged2, others
    <3> QED BY <1>7, <3>1
  <2>2. CASE after # {}
    <3> DEFINE joined == [merged1 EXCEPT !.size = @ + storage1[a].size]
               list1 == SubSeq(storage1, 1, n1)
    <3>1. storage2 = MovedToEnd(storage1, n1, a) /\ n2 = n1 - 1 /\ merged2 = joined
      BY <2>2
    <3> HIDE DEF storage1, n1, merged1, storage2, n2, merged2, others, n
    <3>2. /\ a \in 1 .. n1 /\ n1 \in 1 .. Len(storage1)
          /\ storage1[a] \in Piece /\ storage1[a].start = End(merged1)
      BY <1>1, <1>7, <2>2
    <3>3. list1[a] = storage1[a] /\ a \in 1 .. Len(list1)
      BY <1>7, <3>2
    <3>4. joined \in Piece /\ Cut(joined, merged1, storage1[a])
      <4>1. /\ joined = [start |-> merged1.start, size |-> merged1.size + storage1[a].size]
            /\ merged1.start \in Nat /\ merged1.size \in Nat \ {0}
            /\ storage1[a].size \in Nat \ {0} /\ End(storage1[a]) <= Size
        BY <1>7, <3>2 DEF Piece
      <4> HIDE DEF joined
      <4>2. End(joined) = End(storage1[a]) /\ joined.start = merged1.start
        BY <3>2, <4>1 DEF End
      <4>3. joined \in Piece
        BY <4>1, <4>2 DEF Piece, End
      <4> QED BY <3>2, <4>2, <4>3 DEF Cut
    <3>5. SubSeq(MovedToEnd(storage1, n1, a), 1, n1 - 1) = RemoveAt(list1, a)
      BY <1>7, <3>2, PrefixRemoved
    <3> HIDE DEF joined, list1
    <3>6. Cut(joined, merged1, list1[a])
      BY <3>3, <3>4
    <3>7. Divided(list1, others \cup {merged1}) /\ merged1 \notin others
      BY <1>7 DEF list1
    <3>8. Divided(RemoveAt(list1, a), others \cup {joined}) /\ joined \notin others
      BY <3>3, <3>4, <3>6, <3>7, JoinFree
    <3> QED BY <3>1, <3>5, <3>8
  <2> QED BY <2>1, <2>2
<1> DEFINE list2 == SubSeq(storage2, 1, n2)
<1> HIDE DEF merged2, list2, others, storage2, n2
<1>9. Divided(Append(list2, merged2), (others \cup {merged2}) \ {merged2})
  <2>1. Divided(list2, others \cup {merged2})
    BY <1>8 DEF list2
  <2> QED BY <2>1, GiveDivides
<1>10. (others \cup {merged2}) \ {merged2} = others
  BY <1>8
<1> QED
  BY <1>2, <1>9, <1>10 DEF list2, others

-------------------------------------------------------------------------------

\* Initially the whole range is free.
LEMMA InitDivides == AllocatorInit => Divided(freeSpace, used)
<1> SUFFICES ASSUME AllocatorInit PROVE Divided(freeSpace, used)
  OBVIOUS
<1> DEFINE whole == [start |-> 0, size |-> Size]
<1>1. freeSpace = <<whole>> /\ used = {}
  BY DEF AllocatorInit
<1>2. whole \in Piece /\ \A x \in 0 .. Size - 1 : Within(x, whole)
  BY SizeAssumption DEF Piece, End, Within
<1> HIDE DEF whole
<1>3. freeSpace \in Seq(Piece) /\ Len(freeSpace) = 1 /\ freeSpace[1] = whole
  BY <1>1, <1>2
<1> QED
  BY <1>1, <1>2, <1>3 DEF Divided

LEMMA NextDivides ==
  Divided(freeSpace, used) /\ [CautiousAllocatorNext]_allocatorVars
    => Divided(freeSpace, used)'
<1> SUFFICES ASSUME Divided(freeSpace, used), [CautiousAllocatorNext]_allocatorVars
             PROVE  Divided(freeSpace', used')
  BY DEF Divided, Piece, Apart, Within, End
<1>1. ASSUME NEW request \in Requests, TryAllocate(request)
      PROVE  Divided(freeSpace', used')
  <2>1. PICK i \in FirstFit(freeSpace, request) :
          /\ freeSpace' = Carved(freeSpace, i, request)
          /\ used' = used \cup {[start |-> Aligned(freeSpace[i].start, request.alignment),
                                 size  |-> request.size]}
    BY <1>1 DEF TryAllocate
  <2>2. i \in 1 .. Len(freeSpace) /\ Fits(freeSpace[i], request)
    BY DEF FirstFit, Divided
  <2> QED BY <2>1, <2>2, CarvedDivides
<1>2. ASSUME NEW segment \in used, ~NextSlotMoves(segment), Deallocate(segment)
      PROVE  Divided(freeSpace', used')
  BY <1>2, MergedDivides DEF Deallocate, NextSlotMoves
<1>3. CASE UNCHANGED allocatorVars
  BY <1>3 DEF allocatorVars
<1> QED
  BY <1>1, <1>2, <1>3 DEF CautiousAllocatorNext

LEMMA DividedGivesOnce == Divided(freeSpace, used) => EveryByteOnce
<1> SUFFICES ASSUME Divided(freeSpace, used) PROVE EveryByteOnce
  OBVIOUS
<1>1. /\ freeSpace \in Seq(Piece) /\ used \subseteq Piece
      /\ DOMAIN freeSpace = 1 .. Len(freeSpace)
      /\ \A i \in 1 .. Len(freeSpace) : freeSpace[i] \in Piece
  BY DEF Divided
<1>2. ASSUME NEW s \in Piece, NEW t \in Piece, Apart(s, t)
      PROVE  Disjoint(s, t)
  BY <1>2 DEF Apart, Disjoint, Bytes, Piece, End
<1>3. ASSUME NEW s \in Piece, NEW x
      PROVE  x \in Bytes(s) <=> x \in 0 .. Size - 1 /\ Within(x, s)
  BY SizeAssumption DEF Bytes, Piece, End, Within
<1>4. \A i, j \in DOMAIN freeSpace : i # j => Disjoint(freeSpace[i], freeSpace[j])
  BY <1>1, <1>2 DEF Divided
<1>5. \A s, t \in used : s # t => Disjoint(s, t)
  BY <1>1, <1>2 DEF Divided
<1>6. \A i \in DOMAIN freeSpace, s \in used : Disjoint(freeSpace[i], s)
  BY <1>1, <1>2 DEF Divided
<1>7. ASSUME NEW x
      PROVE  x \in FreeBytes \cup UsedBytes <=> x \in 0 .. Size - 1
  <2>1. x \in FreeBytes <=> \E i \in 1 .. Len(freeSpace) : x \in Bytes(freeSpace[i])
    BY <1>1 DEF FreeBytes
  <2>2. x \in UsedBytes <=> \E s \in used : x \in Bytes(s)
    BY DEF UsedBytes
  <2>3. x \in FreeBytes \cup UsedBytes => x \in 0 .. Size - 1
    BY <1>1, <1>3, <2>1, <2>2
  <2>4. x \in 0 .. Size - 1 => x \in FreeBytes \cup UsedBytes
    BY <1>1, <1>3, <2>1, <2>2 DEF Divided
  <2> QED BY <2>3, <2>4
<1>8. FreeBytes \cup UsedBytes = 0 .. Size - 1
  BY <1>7
<1> QED
  BY <1>4, <1>5, <1>6, <1>8 DEF EveryByteOnce

\* try_allocate and deallocate give every byte of the range to one owner, free or
\* handed out, for every size of the range and all requests, as long as no call
\* meets a nextSlot that the removal of previousSlot moves.
THEOREM EveryByteHasOneOwner == CautiousAllocatorSpec => []EveryByteOnce
<1>2. AllocatorInit => Divided(freeSpace, used)
  BY InitDivides
<1>3. Divided(freeSpace, used) /\ [CautiousAllocatorNext]_allocatorVars
        => Divided(freeSpace, used)'
  BY NextDivides
<1>4. Divided(freeSpace, used) => EveryByteOnce
  BY DividedGivesOnce
<1> QED
  BY <1>2, <1>3, <1>4, PTL DEF CautiousAllocatorSpec

-------------------------------------------------------------------------------
(* The container *)

Factories == {"absent", "make", "null", "instance", "alias"}

Registered ==
  [factory : Factories, through : Containers, target : Types, object : Nat,
   lifetime : {"singleton", "transient"}, value : Nat, holder : Users \cup {NoThread}]

Call ==
  [at : Containers, type : Types, step : {"find", "get", "make"}, left : Seq(Types), got : Nat]

ContainerTypeOK ==
  /\ registrations \in [Containers -> [Types -> Registered]]
  /\ calls \in [Users -> Seq(Call)]
  /\ built \in Nat /\ born \in BOOLEAN
  /\ given \in [Containers -> [Types -> SUBSET Nat]]
  /\ inherited \in [Types -> SUBSET Nat]

\* A registration whose mutex is locked has no value yet, and one without a factory has neither.
RegistrationOK(r, T) ==
  /\ r.factory = "alias" => Rank[r.target] < Rank[T]
  /\ r.factory = "absent" => r.value = Null /\ r.holder = NoThread
  /\ r.lifetime = "transient" => r.value = Null /\ r.holder = NoThread
  /\ r.factory = "instance" => r.object # Null /\ r.value \in {Null, r.object}
  /\ r.holder # NoThread => r.value = Null

RegistrationsOK ==
  /\ \A c \in Containers, T \in Types : RegistrationOK(registrations[c][T], T)
  /\ ~born => \A T \in Types : registrations[Child][T].factory = "absent"
  /\ \A c \in Containers, T \in Types : registrations[c][T].through = Child => born

\* A call that runs the factory of a singleton has its mutex.
CallOK(t, f) ==
  /\ f.at = Child => born
  /\ f.step # "find" => registrations[f.at][f.type].factory # "absent"
  /\ f.step = "make" => /\ \/ registrations[f.at][f.type].lifetime = "transient"
                           \/ registrations[f.at][f.type].holder = t
                        /\ \A k \in DOMAIN f.left : Rank[f.left[k]] < Rank[f.type]

\* The factory of a call waits for the service it needs next.
Needy(f) == f.step = "make" /\ f.left # <<>>

\* Only the innermost call does not wait for another one, and inner ones are of lower rank.
StackOK(t) ==
  /\ \A i \in 1 .. Len(calls[t]) :
       CallOK(t, calls[t][i]) /\ (i < Len(calls[t]) => Needy(calls[t][i]))
  /\ \A i, j \in 1 .. Len(calls[t]) : i < j => Rank[calls[t][j].type] < Rank[calls[t][i].type]

Makes(t, c, T) ==
  \E i \in 1 .. Len(calls[t]) :
    calls[t][i].at = c /\ calls[t][i].type = T /\ calls[t][i].step = "make"

\* A mutex that is locked is so for a call of its holder.
HeldByCall(t) == \A c \in Containers, T \in Types : registrations[c][T].holder = t => Makes(t, c, T)

\* The one object that a registration gives out, from the first time on.
Bound(r, x) ==
  /\ x # Null /\ r.lifetime = "singleton"
  /\ r.value = x \/ (r.factory = "instance" /\ r.object = x)

GivenIsBound == \A c \in Containers, T \in Types : \A x \in given[c][T] : Bound(registrations[c][T], x)

InheritedIsBound ==
  \A T \in Types : \A x \in inherited[T] : born /\ Bound(registrations[Child][T], x)

ContainerInv ==
  /\ ContainerTypeOK /\ RegistrationsOK /\ GivenIsBound /\ InheritedIsBound
  /\ \A t \in Users : StackOK(t) /\ HeldByCall(t)

\* What a step may do to a registration: an absent one is replaced, any other one keeps its
\* factory and gets its value once; only thread t locks and unlocks.
Follows(t, r, q) ==
  /\ r.factory # "absent" => /\ q.factory = r.factory /\ q.object = r.object
                             /\ q.lifetime = r.lifetime /\ (q.value = r.value \/ r.value = Null)
  /\ q.holder # r.holder => r.holder \in {t, NoThread} /\ q.holder \in {t, NoThread}

Advances(t) ==
  \A c \in Containers, T \in Types : Follows(t, registrations[c][T], registrations'[c][T])

-------------------------------------------------------------------------------
LEMMA BoundStays ==
  ASSUME NEW t, NEW r \in Registered, NEW q \in Registered, NEW T, NEW x,
         RegistrationOK(r, T), RegistrationOK(q, T), Follows(t, r, q), Bound(r, x)
  PROVE  Bound(q, x)
BY DEF RegistrationOK, Follows, Bound

LEMMA StepKeeps ==
  ASSUME ContainerInv, NEW t \in Users, ContainerTypeOK', RegistrationsOK', Advances(t),
         StackOK(t)', HeldByCall(t)', \A u \in Users \ {t} : calls'[u] = calls[u], born => born',
         \A c \in Containers, T \in Types : \A x \in given'[c][T] :
           x \in given[c][T] \/ Bound(registrations'[c][T], x),
         \A T \in Types : \A x \in inherited'[T] :
           x \in inherited[T] \/ (born' /\ Bound(registrations'[Child][T], x))
  PROVE  ContainerInv'
<1>1. ASSUME NEW c \in Containers, NEW T \in Types, NEW x, Bound(registrations[c][T], x)
      PROVE  Bound(registrations'[c][T], x)
  <2>1. registrations[c][T] \in Registered /\ registrations'[c][T] \in Registered
    BY DEF ContainerInv, ContainerTypeOK
  <2>2. RegistrationOK(registrations[c][T], T) /\ RegistrationOK(registrations'[c][T], T)
    BY DEF ContainerInv, RegistrationsOK
  <2>3. Follows(t, registrations[c][T], registrations'[c][T])
    BY DEF Advances
  <2> QED
    BY <1>1, <2>1, <2>2, <2>3, BoundStays
<1>2. GivenIsBound'
  BY <1>1 DEF ContainerInv, GivenIsBound
<1>3. InheritedIsBound'
  BY <1>1 DEF ContainerInv, InheritedIsBound, Containers
<1>4. ASSUME NEW u \in Users
      PROVE  (StackOK(u) /\ HeldByCall(u))'
  <2>1. CASE u = t
    BY <2>1
  <2>2. CASE u # t
    <3>1. calls'[u] = calls[u] /\ StackOK(u) /\ HeldByCall(u) /\ calls[u] \in Seq(Call) /\ u # NoThread
      BY <2>2, DependencyAssumption DEF ContainerInv, ContainerTypeOK
    <3>2. ASSUME NEW f \in Call, CallOK(u, f)
          PROVE  CallOK(u, f)'
      <4> DEFINE r == registrations[f.at][f.type]
                 q == registrations'[f.at][f.type]
      <4>1. f.at \in Containers /\ f.type \in Types
        BY DEF Call
      <4>2. Follows(t, r, q)
        BY <4>1 DEF Advances
      <4>3. r.factory # "absent" => q.factory = r.factory /\ q.lifetime = r.lifetime
        BY <4>2 DEF Follows
      <4>4. r.holder = u => q.holder = u
        BY <2>2, <3>1, <4>2 DEF Follows
      <4> QED
        BY <3>2, <4>3, <4>4 DEF CallOK
    <3>3. StackOK(u)'
      <4>1. \A i \in 1 .. Len(calls[u]) : calls[u][i] \in Call
        BY <3>1
      <4> QED
        BY <3>1, <3>2, <4>1 DEF StackOK
    <3>4. HeldByCall(u)'
      <4> SUFFICES ASSUME NEW c \in Containers, NEW T \in Types, registrations'[c][T].holder = u
                   PROVE  Makes(u, c, T)'
        BY DEF HeldByCall
      <4>1. registrations[c][T].holder = u
        BY <2>2, <3>1 DEF Advances, Follows
      <4>2. Makes(u, c, T)
        BY <3>1, <4>1 DEF HeldByCall
      <4> QED
        BY <3>1, <4>2 DEF Makes
    <3> QED
      BY <3>3, <3>4
  <2> QED
    BY <2>1, <2>2
<1> QED
  BY <1>2, <1>3, <1>4 DEF ContainerInv

LEMMA SameRegistrations ==
  ASSUME ContainerInv, registrations' = registrations, born' = born
  PROVE  RegistrationsOK' /\ \A t \in Users : Advances(t)
BY DEF ContainerInv, RegistrationsOK, Advances, Follows

\* The innermost call of a thread.
LEMMA TopIs ==
  ASSUME ContainerInv, NEW t \in Users, calls[t] # <<>>
  PROVE  /\ Len(calls[t]) \in Nat /\ Len(calls[t]) >= 1 /\ calls[t] \in Seq(Call)
         /\ Top(t) = calls[t][Len(calls[t])] /\ Top(t) \in Call /\ CallOK(t, Top(t))
         /\ Top(t).at \in Containers /\ Top(t).type \in Types /\ Found(t) \in Registered
         /\ RegistrationOK(Found(t), Top(t).type)
<1>1. calls[t] \in Seq(Call) /\ Len(calls[t]) \in Nat /\ Len(calls[t]) >= 1
  BY DEF ContainerInv, ContainerTypeOK
<1>2. Top(t) = calls[t][Len(calls[t])] /\ Top(t) \in Call
  BY <1>1 DEF Top
<1>3. CallOK(t, Top(t))
  BY <1>1, <1>2 DEF ContainerInv, StackOK
<1>4. Top(t).at \in Containers /\ Top(t).type \in Types
  BY <1>2 DEF Call
<1>5. Found(t) \in Registered /\ RegistrationOK(Found(t), Top(t).type)
  BY <1>4 DEF Found, ContainerInv, ContainerTypeOK, RegistrationsOK
<1> QED
  BY <1>1, <1>2, <1>3, <1>4, <1>5

\* A new call onto a stack whose innermost one runs a factory that needs it.
LEMMA CallingKeeps ==
  ASSUME ContainerInv, NEW t \in Users, NEW c \in Containers, NEW T \in Types, c = Child => born,
         calls[t] # <<>> => Needy(Top(t)) /\ Rank[T] < Rank[Top(t).type],
         calls' = [calls EXCEPT ![t] = Calling(t, c, T)],
         UNCHANGED <<registrations, born>>
  PROVE  /\ calls' \in [Users -> Seq(Call)] /\ StackOK(t)' /\ HeldByCall(t)'
         /\ \A u \in Users \ {t} : calls'[u] = calls[u]
<1> DEFINE f == [at |-> c, type |-> T, step |-> "find", left |-> <<>>, got |-> Null]
           n == Len(calls[t])
<1>1. calls \in [Users -> Seq(Call)] /\ calls[t] \in Seq(Call) /\ n \in Nat
  BY DEF ContainerInv, ContainerTypeOK
<1>2. f \in Call /\ CallOK(t, f)'
  BY DEF Call, CallOK, Null
<1>3. calls'[t] = Append(calls[t], f)
  BY <1>1 DEF Calling
<1> HIDE DEF f
<1>4. /\ calls'[t] \in Seq(Call) /\ Len(calls'[t]) = n + 1 /\ calls'[t][n + 1] = f
      /\ \A i \in 1 .. n : calls'[t][i] = calls[t][i]
  BY <1>1, <1>2, <1>3
<1>5. \A i \in 1 .. n : CallOK(t, calls[t][i]) /\ calls[t][i] \in Call
  BY <1>1 DEF ContainerInv, StackOK
<1>9. ASSUME NEW g \in Call, CallOK(t, g)
      PROVE  CallOK(t, g)'
  BY <1>9 DEF CallOK
<1>6. \A i \in 1 .. n : Needy(calls[t][i]) /\ Rank[T] < Rank[calls[t][i].type]
  <2>1. CASE n = 0
    BY <2>1
  <2>2. CASE n # 0
    <3>1. calls[t] # <<>> /\ Top(t) = calls[t][n]
      BY <1>1, <2>2 DEF Top
    <3>2. \A i \in 1 .. n : i < n => Needy(calls[t][i]) /\ Rank[Top(t).type] < Rank[calls[t][i].type]
      BY <1>1, <3>1 DEF ContainerInv, StackOK
    <3>3. \A S \in Types : Rank[S] \in Nat
      BY DependencyAssumption
    <3>4. Top(t) \in Call
      BY <1>5, <2>2, <1>1, <3>1
    <3> SUFFICES ASSUME NEW i \in 1 .. n
                 PROVE  Needy(calls[t][i]) /\ Rank[T] < Rank[calls[t][i].type]
      OBVIOUS
    <3>5. CASE i = n
      BY <3>1, <3>5
    <3>6. CASE i # n
      <4>1. i < n /\ calls[t][i].type \in Types /\ Top(t).type \in Types
        BY <1>1, <1>5, <3>4, <3>6 DEF Call
      <4> QED
        BY <3>1, <3>2, <3>3, <4>1
    <3> QED
      BY <3>5, <3>6
  <2> QED
    BY <2>1, <2>2
<1>7. StackOK(t)'
  <2>1. ASSUME NEW i \in 1 .. n + 1
        PROVE  CallOK(t, calls[t][i])' /\ (i < n + 1 => Needy(calls[t][i])')
    <3>1. CASE i = n + 1
      BY <1>1, <1>2, <1>4, <3>1
    <3>2. CASE i # n + 1
      BY <1>1, <1>4, <1>5, <1>6, <1>9, <3>2
    <3> QED
      BY <3>1, <3>2
  <2>2. ASSUME NEW i \in 1 .. n + 1, NEW j \in 1 .. n + 1, i < j
        PROVE  Rank[calls'[t][j].type] < Rank[calls'[t][i].type]
    <3>1. f.type = T
      BY DEF f
    <3>2. CASE j = n + 1
      BY <1>1, <1>4, <1>6, <2>2, <3>1, <3>2
    <3>3. CASE j # n + 1
      <4>1. i \in 1 .. n /\ j \in 1 .. n
        BY <1>1, <2>2, <3>3
      <4>2. Rank[calls[t][j].type] < Rank[calls[t][i].type]
        BY <2>2, <4>1 DEF ContainerInv, StackOK
      <4> QED
        BY <1>4, <4>1, <4>2
    <3> QED
      BY <3>2, <3>3
  <2> QED
    BY <1>4, <2>1, <2>2 DEF StackOK
<1>8. HeldByCall(t)'
  BY <1>1, <1>4 DEF ContainerInv, HeldByCall, Makes
<1> QED
  BY <1>1, <1>3, <1>4, <1>7, <1>8

\* The innermost call goes on.
LEMMA GoneOnKeeps ==
  ASSUME ContainerInv, NEW t \in Users, calls[t] # <<>>, Top(t).step # "make",
         NEW g \in Call, g.at = Top(t).at, g.type = Top(t).type, CallOK(t, g)',
         calls' = [calls EXCEPT ![t] = [calls[t] EXCEPT ![Len(calls[t])] = g]],
         Advances(t), born' = born, ContainerTypeOK',
         \A c \in Containers, T \in Types : registrations[c][T].holder = t => registrations'[c][T].holder = t,
         \A c \in Containers, T \in Types : registrations'[c][T].holder = t =>
           registrations[c][T].holder = t \/ (c = g.at /\ T = g.type /\ g.step = "make")
  PROVE  /\ StackOK(t)' /\ HeldByCall(t)'
         /\ \A u \in Users \ {t} : calls'[u] = calls[u]
<1> DEFINE n == Len(calls[t])
<1>1. /\ n \in Nat /\ n >= 1 /\ calls[t] \in Seq(Call) /\ Top(t) = calls[t][n]
      /\ calls \in [Users -> Seq(Call)]
  BY TopIs DEF ContainerInv, ContainerTypeOK
<1>2. /\ calls'[t] \in Seq(Call) /\ Len(calls'[t]) = n /\ calls'[t][n] = g
      /\ \A i \in 1 .. n - 1 : calls'[t][i] = calls[t][i]
  BY <1>1
<1>3. ASSUME NEW f \in Call, CallOK(t, f)
      PROVE  CallOK(t, f)'
  <2> DEFINE r == registrations[f.at][f.type]
             q == registrations'[f.at][f.type]
  <2>1. f.at \in Containers /\ f.type \in Types
    BY DEF Call
  <2>2. Follows(t, r, q) /\ (r.holder = t => q.holder = t)
    BY <2>1 DEF Advances
  <2>3. r.factory # "absent" => q.factory = r.factory /\ q.lifetime = r.lifetime
    BY <2>2 DEF Follows
  <2> QED
    BY <1>3, <2>2, <2>3 DEF CallOK
<1>4. \A i \in 1 .. n : calls[t][i] \in Call /\ CallOK(t, calls[t][i]) /\ (i < n => Needy(calls[t][i]))
  BY <1>1 DEF ContainerInv, StackOK
<1>5. \A i, j \in 1 .. n : i < j => Rank[calls[t][j].type] < Rank[calls[t][i].type]
  BY DEF ContainerInv, StackOK
<1>6. StackOK(t)'
  <2>1. ASSUME NEW i \in 1 .. n
        PROVE  CallOK(t, calls[t][i])' /\ (i < n => Needy(calls[t][i])')
    <3>1. CASE i = n
      BY <1>1, <1>2, <3>1
    <3>2. CASE i # n
      BY <1>1, <1>2, <1>3, <1>4, <3>2
    <3> QED
      BY <3>1, <3>2
  <2>2. \A i \in 1 .. n : calls'[t][i].type = calls[t][i].type
    BY <1>1, <1>2
  <2> QED
    BY <1>2, <1>5, <2>1, <2>2 DEF StackOK
<1>7. HeldByCall(t)'
  <2> SUFFICES ASSUME NEW c \in Containers, NEW T \in Types, registrations'[c][T].holder = t
               PROVE  Makes(t, c, T)'
    BY DEF HeldByCall
  <2>1. CASE c = g.at /\ T = g.type /\ g.step = "make"
    BY <1>1, <1>2, <2>1 DEF Makes
  <2>2. CASE registrations[c][T].holder = t
    <3>1. PICK i \in 1 .. n : calls[t][i].at = c /\ calls[t][i].type = T /\ calls[t][i].step = "make"
      BY <2>2 DEF ContainerInv, HeldByCall, Makes
    <3>2. i # n
      BY <1>1, <3>1
    <3> QED
      BY <1>1, <1>2, <3>1, <3>2 DEF Makes
  <2> QED
    BY <2>1, <2>2
<1> QED
  BY <1>1, <1>6, <1>7

LEMMA GetsIs ==
  ASSUME NEW f \in Call, Needy(f), NEW object \in Nat
  PROVE  /\ Gets(f, object) \in Call /\ Gets(f, object).at = f.at /\ Gets(f, object).type = f.type
         /\ Gets(f, object).step = f.step /\ Gets(f, object).left = Tail(f.left)
<1>1. f = [at |-> f.at, type |-> f.type, step |-> f.step, left |-> f.left, got |-> f.got]
  BY DEF Call
<1>2. Tail(f.left) \in Seq(Types)
  <2>1. f.left \in Seq(Types) /\ f.left # <<>>
    BY DEF Call, Needy
  <2> QED
    BY <2>1
<1>3. Gets(f, object) =
        [at |-> f.at, type |-> f.type, step |-> f.step, left |-> Tail(f.left), got |-> object]
  <2>1. Gets(f, object) = [f EXCEPT !.left = Tail(f.left), !.got = object]
    BY DEF Gets
  <2> QED
    BY <1>1, <2>1
<1> QED
  BY <1>2, <1>3 DEF Call

\* The innermost call returns, to the caller or through all of them.
LEMMA ReturnedKeeps ==
  ASSUME ContainerInv, NEW t \in Users, calls[t] # <<>>, NEW object \in Nat,
         calls' = [calls EXCEPT ![t] = Returned(t, object)],
         Advances(t), born' = born, registrations' \in [Containers -> [Types -> Registered]],
         \A c \in Containers, T \in Types :
           object # Null /\ registrations[c][T].holder = t /\ T # Top(t).type => registrations'[c][T].holder = t,
         \A c \in Containers, T \in Types : registrations'[c][T].holder = t =>
           /\ registrations[c][T].holder = t /\ object # Null
           /\ ~(Top(t).step = "make" /\ c = Top(t).at /\ T = Top(t).type)
  PROVE  /\ StackOK(t)' /\ HeldByCall(t)' /\ calls' \in [Users -> Seq(Call)]
         /\ \A u \in Users \ {t} : calls'[u] = calls[u]
<1> DEFINE n == Len(calls[t])
<1>1. /\ n \in Nat /\ n >= 1 /\ calls[t] \in Seq(Call) /\ Top(t) = calls[t][n]
      /\ calls \in [Users -> Seq(Call)]
  BY TopIs DEF ContainerInv, ContainerTypeOK
<1>2. calls'[t] = Returned(t, object) /\ \A u \in Users \ {t} : calls'[u] = calls[u]
  BY <1>1
<1>3. \A i \in 1 .. n : calls[t][i] \in Call /\ CallOK(t, calls[t][i]) /\ (i < n => Needy(calls[t][i]))
  BY <1>1 DEF ContainerInv, StackOK
<1>4. \A i, j \in 1 .. n : i < j => Rank[calls[t][j].type] < Rank[calls[t][i].type]
  BY DEF ContainerInv, StackOK
<1>5. ASSUME NEW c \in Containers, NEW T \in Types, registrations'[c][T].holder = t
      PROVE  object # Null /\ \E i \in 1 .. n - 1 :
               calls[t][i].at = c /\ calls[t][i].type = T /\ calls[t][i].step = "make"
  <2>1. PICK i \in 1 .. n : calls[t][i].at = c /\ calls[t][i].type = T /\ calls[t][i].step = "make"
    BY <1>5 DEF ContainerInv, HeldByCall, Makes
  <2>2. i # n
    BY <1>1, <1>5, <2>1
  <2> QED
    BY <1>1, <1>5, <2>1, <2>2
<1>6. CASE object = Null \/ n = 1
  <2>1. calls'[t] = <<>>
    BY <1>1, <1>2, <1>6 DEF Returned
  <2>2. HeldByCall(t)'
    BY <1>1, <1>5, <1>6 DEF HeldByCall
  <2>3. StackOK(t)' /\ calls' \in [Users -> Seq(Call)]
    BY <1>1, <2>1 DEF StackOK
  <2> QED
    BY <1>2, <2>2, <2>3
<1>7. CASE object # Null /\ n # 1
  <2>a. n \in Nat /\ n >= 1 /\ n # 1
    BY <1>1, <1>7
  <2> HIDE DEF n
  <2>0. PICK m \in Nat : m = n - 1 /\ m >= 1 /\ m < n
    <3>1. n - 1 \in Nat /\ n - 1 >= 1 /\ n - 1 < n
      BY <2>a
    <3> QED
      BY <3>1
  <2> USE DEF n
  <2> DEFINE g == Gets(calls[t][m], object)
  <2>1. m \in 1 .. n /\ m < n /\ m >= 1
    BY <2>0, <2>a
  <2> DEFINE below == SubSeq(calls[t], 1, Len(calls[t]) - 1)
  <2>c. below \in Seq(Call) /\ Len(below) = m /\ \A i \in 1 .. m : below[i] = calls[t][i]
    BY <1>1, <2>0, <2>1
  <2>2. calls'[t] = [below EXCEPT ![m] = g]
    <3>1. Returned(t, object) = IF object = Null \/ Len(below) = 0 THEN <<>>
                                ELSE [below EXCEPT ![Len(below)] = Gets(below[Len(below)], object)]
      BY DEF Returned
    <3> HIDE DEF below
    <3>2. Len(below) = m /\ below[m] = calls[t][m] /\ m # 0
      BY <2>c, <2>1
    <3> QED
      BY <1>2, <1>7, <3>1, <3>2
  <2>3. /\ calls[t][m] \in Call /\ CallOK(t, calls[t][m]) /\ Needy(calls[t][m])
    BY <1>3, <2>1
  <2>4. /\ g \in Call /\ g.at = calls[t][m].at /\ g.type = calls[t][m].type
        /\ g.step = calls[t][m].step /\ g.left = Tail(calls[t][m].left)
    BY <2>3, GetsIs
  <2> HIDE DEF g, below
  <2>5. /\ calls'[t] \in Seq(Call) /\ Len(calls'[t]) = m /\ calls'[t][m] = g
        /\ \A i \in 1 .. m - 1 : calls'[t][i] = calls[t][i]
    <3>1. below \in [1 .. m -> Call] /\ m \in Nat
      BY <2>0, <2>c
    <3>2. calls'[t] \in [1 .. m -> Call]
      BY <2>2, <2>4, <3>1
    <3>3. calls'[t][m] = g /\ \A i \in 1 .. m - 1 : calls'[t][i] = below[i]
      <4>1. m \in 1 .. m /\ \A i \in 1 .. m - 1 : i \in 1 .. m /\ i # m
        BY <2>0
      <4> HIDE DEF n
      <4> QED
        BY <2>2, <3>1, <4>1
    <3>4. calls'[t] \in Seq(Call) /\ Len(calls'[t]) = m
      BY <3>1, <3>2
    <3> QED
      BY <2>1, <2>c, <3>3, <3>4
  <2>6. \A i \in 1 .. m : /\ calls'[t][i].at = calls[t][i].at /\ calls'[t][i].type = calls[t][i].type
                          /\ calls'[t][i].step = calls[t][i].step
    BY <2>1, <2>4, <2>5
  <2>7. HeldByCall(t)'
    <3> SUFFICES ASSUME NEW c \in Containers, NEW T \in Types, registrations'[c][T].holder = t
                 PROVE  Makes(t, c, T)'
      BY DEF HeldByCall
    <3>1. PICK i \in 1 .. m : calls[t][i].at = c /\ calls[t][i].type = T /\ calls[t][i].step = "make"
      BY <1>5, <2>0
    <3> QED
      BY <2>5, <2>6, <3>1 DEF Makes
  <2>8. ASSUME NEW i \in 1 .. m
        PROVE  CallOK(t, calls[t][i])' /\ (i < m => Needy(calls[t][i])')
    <3> DEFINE f == calls[t][i]
               r == registrations[f.at][f.type]
               q == registrations'[f.at][f.type]
    <3>1. f \in Call /\ CallOK(t, f) /\ Needy(f) /\ f.at \in Containers /\ f.type \in Types
      BY <1>3, <2>1 DEF Call
    <3>2. f.type # Top(t).type
      <4>1. Rank[Top(t).type] < Rank[f.type]
        BY <1>1, <1>4, <2>1
      <4>2. Rank[f.type] \in Nat
        BY <3>1, DependencyAssumption
      <4> QED
        BY <4>1, <4>2
    <3>3. Follows(t, r, q) /\ (r.holder = t => q.holder = t)
      BY <1>7, <3>1, <3>2 DEF Advances
    <3>4. r.factory # "absent" => q.factory = r.factory /\ q.lifetime = r.lifetime
      BY <3>3 DEF Follows
    <3>5. \A k \in DOMAIN calls'[t][i].left : Rank[calls'[t][i].left[k]] < Rank[f.type]
      <4>1. \A k \in DOMAIN f.left : Rank[f.left[k]] < Rank[f.type]
        BY <3>1 DEF CallOK, Needy
      <4>2. CASE i # m
        BY <2>1, <2>5, <4>1, <4>2
      <4>3. CASE i = m
        <5>1. f.left \in Seq(Types) /\ f.left # <<>> /\ calls'[t][i].left = Tail(f.left)
          BY <2>4, <2>5, <3>1, <4>3 DEF Call, Needy
        <5> HIDE DEF f
        <5>2. \A k \in DOMAIN Tail(f.left) : k + 1 \in DOMAIN f.left /\ Tail(f.left)[k] = f.left[k + 1]
          BY <5>1
        <5> QED
          BY <4>1, <5>1, <5>2
      <4> QED
        BY <4>2, <4>3
    <3>6. CallOK(t, calls[t][i])'
      BY <2>6, <3>1, <3>3, <3>4, <3>5 DEF CallOK, Needy
    <3>7. i < m => Needy(calls[t][i])'
      BY <2>1, <2>5, <3>1
    <3> QED
      BY <3>6, <3>7
  <2>9. StackOK(t)'
    <3>1. \A i, j \in 1 .. m : i < j => Rank[calls'[t][j].type] < Rank[calls'[t][i].type]
      BY <1>1, <1>4, <2>1, <2>6
    <3> QED
      BY <2>5, <2>8, <3>1 DEF StackOK
  <2> QED
    BY <1>1, <1>2, <2>5, <2>7, <2>9
<1> QED
  BY <1>6, <1>7

LEMMA EmplacedIs ==
  ASSUME ContainerInv, NEW c \in Containers, NEW T \in Types, NEW q \in Registered, RegistrationOK(q, T),
         q.holder = NoThread, q.factory # "absent", q.through = c, c = Child => born,
         Emplaced(c, T, q), born' = born
  PROVE  /\ registrations' \in [Containers -> [Types -> Registered]] /\ RegistrationsOK'
         /\ \A t \in Users : Advances(t)
         /\ \A d \in Containers, S \in Types : registrations'[d][S].holder = registrations[d][S].holder
         /\ registrations'[c][T].factory # "absent"
         /\ registrations[c][T].factory = "absent" => registrations'[c][T] = q
<1>1. registrations \in [Containers -> [Types -> Registered]]
  BY DEF ContainerInv, ContainerTypeOK
<1> DEFINE p == IF registrations[c][T].factory = "absent" THEN q ELSE registrations[c][T]
<1>2. p \in Registered
  BY <1>1
<1>3. registrations' = [registrations EXCEPT ![c] = [registrations[c] EXCEPT ![T] = p]]
  BY <1>1 DEF Emplaced
<1> HIDE DEF p
<1>4. /\ registrations' \in [Containers -> [Types -> Registered]] /\ registrations'[c][T] = p
      /\ \A d \in Containers, S \in Types :
           ~(d = c /\ S = T) => registrations'[d][S] = registrations[d][S]
  BY <1>1, <1>2, <1>3
<1>5. /\ RegistrationOK(p, T) /\ p.holder = registrations[c][T].holder /\ p.factory # "absent"
      /\ \A t \in Users : Follows(t, registrations[c][T], p)
      /\ p.through = Child => born
  BY <1>1 DEF p, ContainerInv, RegistrationsOK, RegistrationOK, Follows
<1>6. \A t \in Users : Advances(t)
  BY <1>4, <1>5 DEF Advances, Follows
<1>7. RegistrationsOK'
  BY <1>4, <1>5 DEF ContainerInv, RegistrationsOK, RegistrationOK, Containers
<1> QED
  BY <1>4, <1>5, <1>6, <1>7 DEF p

\* A thread that resolves nothing has no mutex.
LEMMA IdleKeeps ==
  ASSUME ContainerInv, NEW t \in Users, calls[t] = <<>>, calls' = calls,
         \A c \in Containers, T \in Types :
           registrations'[c][T].holder = t => registrations[c][T].holder = t
  PROVE  StackOK(t)' /\ HeldByCall(t)'
<1>1. Len(calls[t]) = 0 /\ Len(calls'[t]) = 0
  OBVIOUS
<1>2. HeldByCall(t)
  BY DEF ContainerInv
<1> QED
  BY <1>1, <1>2 DEF StackOK, HeldByCall, Makes

LEMMA FactoryOK ==
  ASSUME NEW c \in Containers, NEW T \in Types, NEW U \in Types, NEW object \in Nat,
         NEW lifetime \in {"singleton", "transient"}, NEW factory \in Factories,
         factory = "instance" => object # Null /\ lifetime = "singleton",
         factory = "alias" => Rank[U] < Rank[T]
  PROVE  LET q == Registration(factory, c, U, object, lifetime) IN
         /\ q \in Registered /\ RegistrationOK(q, T) /\ q.holder = NoThread /\ q.through = c
         /\ q.factory = factory /\ q.object = object /\ q.lifetime = lifetime
BY DEF Registration, Registered, RegistrationOK, Null

LEMMA FindKeeps ==
  ASSUME ContainerInv, NEW t \in Users, Find(t)
  PROVE  ContainerInv'
<1> DEFINE c == Top(t).at
           T == Top(t).type
           q == DefaultFactory(c, T, "singleton")
           got == [Top(t) EXCEPT !.step = "get"]
<1>1. /\ calls[t] # <<>> /\ Top(t).step = "find" /\ Emplaced(c, T, q)
      /\ calls' = [calls EXCEPT ![t] = [calls[t] EXCEPT ![Len(calls[t])] = got]]
      /\ UNCHANGED <<built, born, given, inherited, doubles>>
  BY DEF Find, GoneOn
<1>2. /\ c \in Containers /\ T \in Types /\ Top(t) \in Call /\ CallOK(t, Top(t)) /\ calls[t] \in Seq(Call)
  BY <1>1, TopIs
<1>3. /\ q \in Registered /\ RegistrationOK(q, T) /\ q.holder = NoThread /\ q.through = c
      /\ q.factory # "absent"
  BY <1>2, FactoryOK DEF DefaultFactory, Factories, Null
<1>4. PICK g \in Call : g = got /\ g.at = c /\ g.type = T /\ g.step = "get"
  <2>1. got \in Call /\ got.at = c /\ got.type = T /\ got.step = "get"
    BY <1>2 DEF Call
  <2> HIDE DEF got
  <2> QED
    BY <2>1
<1> HIDE DEF got, q
<1>5. c = Child => born
  BY <1>2 DEF CallOK
<1>6. /\ registrations' \in [Containers -> [Types -> Registered]] /\ RegistrationsOK'
      /\ Advances(t)
      /\ \A d \in Containers, S \in Types : registrations'[d][S].holder = registrations[d][S].holder
      /\ registrations'[c][T].factory # "absent"
  BY <1>1, <1>2, <1>3, <1>5, EmplacedIs
<1> HIDE DEF c, T
<1>7. ContainerTypeOK'
  BY <1>1, <1>2, <1>4, <1>6 DEF ContainerInv, ContainerTypeOK
<1>8. CallOK(t, g)'
  BY <1>1, <1>4, <1>5, <1>6 DEF CallOK
<1>9. StackOK(t)' /\ HeldByCall(t)' /\ \A u \in Users \ {t} : calls'[u] = calls[u]
  <2>1. /\ \A d \in Containers, S \in Types :
             registrations[d][S].holder = t => registrations'[d][S].holder = t
        /\ \A d \in Containers, S \in Types : registrations'[d][S].holder = t =>
             registrations[d][S].holder = t \/ (d = g.at /\ S = g.type /\ g.step = "make")
    BY <1>6
  <2>2. /\ Top(t).step # "make" /\ g.at = Top(t).at /\ g.type = Top(t).type /\ born' = born
        /\ calls' = [calls EXCEPT ![t] = [calls[t] EXCEPT ![Len(calls[t])] = g]]
    BY <1>1, <1>4 DEF c, T
  <2> QED
    BY <1>1, <1>6, <1>7, <1>8, <2>1, <2>2, GoneOnKeeps
<1> QED
  BY <1>1, <1>6, <1>7, <1>9, StepKeeps

LEMMA StartFactoryKeeps ==
  ASSUME ContainerInv, NEW t \in Users, StartFactory(t)
  PROVE  ContainerInv'
<1> DEFINE c == Top(t).at
           T == Top(t).type
           r == registrations[c][T]
           left == CASE r.factory = "make" -> Needs[T] [] r.factory = "alias" -> <<r.target>> [] OTHER -> <<>>
           made == [Top(t) EXCEPT !.step = "make", !.left = left]
           q == [r EXCEPT !.holder = t]
<1>1. /\ calls[t] # <<>> /\ Top(t).step = "get"
      /\ r.lifetime = "singleton" => r.value = Null /\ r.holder = NoThread
      /\ registrations' = IF r.lifetime = "transient" THEN registrations
                          ELSE [registrations EXCEPT ![c][T].holder = t]
      /\ calls' = [calls EXCEPT ![t] = [calls[t] EXCEPT ![Len(calls[t])] = made]]
      /\ UNCHANGED <<built, born, given, inherited, doubles>>
  BY DEF StartFactory, GoneOn, Found, MayBuild
<1>2. /\ c \in Containers /\ T \in Types /\ Top(t) \in Call /\ CallOK(t, Top(t)) /\ calls[t] \in Seq(Call)
      /\ r \in Registered /\ RegistrationOK(r, T)
  BY <1>1, TopIs DEF Found
<1>3. left \in Seq(Types) /\ \A k \in DOMAIN left : Rank[left[k]] < Rank[T]
  <2>1. Needs[T] \in Seq(Types) /\ \A k \in DOMAIN Needs[T] : Rank[Needs[T][k]] < Rank[T]
    BY <1>2, DependencyAssumption
  <2>2. r.target \in Types /\ (r.factory = "alias" => Rank[r.target] < Rank[T])
    BY <1>2 DEF Registered, RegistrationOK
  <2>3. CASE r.factory = "make"
    BY <2>1, <2>3
  <2>4. CASE r.factory = "alias"
    BY <2>2, <2>4
  <2>5. CASE r.factory \notin {"make", "alias"}
    BY <2>5
  <2> QED
    BY <2>3, <2>4, <2>5
<1> HIDE DEF left
<1>4. PICK g \in Call : g = made /\ g.at = c /\ g.type = T /\ g.step = "make" /\ g.left = left
  <2>1. made \in Call /\ made.at = c /\ made.type = T /\ made.step = "make" /\ made.left = left
    BY <1>2, <1>3 DEF Call
  <2> HIDE DEF made
  <2> QED
    BY <2>1
<1> HIDE DEF made, r
<1>5. /\ q \in Registered /\ q.holder = t /\ q.factory = r.factory /\ q.object = r.object
      /\ q.lifetime = r.lifetime /\ q.value = r.value /\ q.target = r.target /\ q.through = r.through
  BY <1>2 DEF Registered
<1> HIDE DEF q, c, T
<1>6. /\ registrations \in [Containers -> [Types -> Registered]]
      /\ registrations' = IF r.lifetime = "transient" THEN registrations
                          ELSE [registrations EXCEPT ![c] = [registrations[c] EXCEPT ![T] = q]]
  BY <1>1, <1>2 DEF q, r, ContainerInv, ContainerTypeOK
<1>7. /\ registrations' \in [Containers -> [Types -> Registered]]
      /\ registrations'[c][T] = IF r.lifetime = "transient" THEN r ELSE q
      /\ \A d \in Containers, S \in Types :
           ~(d = c /\ S = T) => registrations'[d][S] = registrations[d][S]
      /\ registrations[c][T] = r
  BY <1>2, <1>5, <1>6 DEF r
<1>8. r.factory # "absent" /\ r.lifetime \in {"singleton", "transient"} /\ (c = Child => born)
  BY <1>1, <1>2 DEF CallOK, c, T, r, Registered
<1>9. RegistrationOK(registrations'[c][T], T) /\ Follows(t, r, registrations'[c][T])
  BY <1>1, <1>2, <1>5, <1>7, <1>8 DEF RegistrationOK, Follows, r
<1>10. Advances(t)
  BY <1>7, <1>9 DEF Advances, Follows
<1>11. RegistrationsOK'
  <2>1. \A d \in Containers, S \in Types : RegistrationOK(registrations'[d][S], S)
    BY <1>7, <1>9 DEF ContainerInv, RegistrationsOK
  <2>2. \A d \in Containers, S \in Types : /\ registrations'[d][S].through = registrations[d][S].through
                                          /\ registrations'[d][S].factory = registrations[d][S].factory
    BY <1>5, <1>7
  <2> QED
    BY <1>1, <2>1, <2>2 DEF ContainerInv, RegistrationsOK, Containers
<1>12. ContainerTypeOK'
  BY <1>1, <1>2, <1>4, <1>7 DEF ContainerInv, ContainerTypeOK
<1>13. CallOK(t, g)'
  BY <1>1, <1>3, <1>4, <1>5, <1>7, <1>8 DEF CallOK
<1>14. StackOK(t)' /\ HeldByCall(t)' /\ \A u \in Users \ {t} : calls'[u] = calls[u]
  <2>1. /\ \A d \in Containers, S \in Types :
             registrations[d][S].holder = t => registrations'[d][S].holder = t
        /\ \A d \in Containers, S \in Types : registrations'[d][S].holder = t =>
             registrations[d][S].holder = t \/ (d = g.at /\ S = g.type /\ g.step = "make")
    BY <1>4, <1>5, <1>7
  <2>2. /\ Top(t).step # "make" /\ g.at = Top(t).at /\ g.type = Top(t).type /\ born' = born
        /\ calls' = [calls EXCEPT ![t] = [calls[t] EXCEPT ![Len(calls[t])] = g]]
    BY <1>1, <1>4 DEF c, T
  <2> QED
    BY <1>1, <1>10, <1>12, <1>13, <2>1, <2>2, GoneOnKeeps
<1> QED
  BY <1>1, <1>10, <1>11, <1>12, <1>14, StepKeeps

LEMMA GetKeptKeeps ==
  ASSUME ContainerInv, NEW t \in Users, GetKept(t)
  PROVE  ContainerInv'
<1> DEFINE c == Top(t).at
           T == Top(t).type
           x == registrations[c][T].value
<1>1. /\ calls[t] # <<>> /\ Top(t).step = "get"
      /\ registrations[c][T].lifetime = "singleton" /\ x # Null
      /\ calls' = [calls EXCEPT ![t] = Returned(t, x)]
      /\ given' = [given EXCEPT ![c][T] = given[c][T] \cup {x}]
      /\ UNCHANGED <<registrations, built, born, inherited, doubles>>
  BY DEF GetKept, Found
<1>2. c \in Containers /\ T \in Types /\ registrations[c][T] \in Registered
  BY <1>1, TopIs DEF Found
<1>3. x \in Nat
  BY <1>2 DEF Registered
<1>4. RegistrationsOK' /\ Advances(t)
  BY <1>1, SameRegistrations
<1>5. /\ StackOK(t)' /\ HeldByCall(t)' /\ calls' \in [Users -> Seq(Call)]
      /\ \A u \in Users \ {t} : calls'[u] = calls[u]
  <2>1. registrations' \in [Containers -> [Types -> Registered]]
    BY <1>1 DEF ContainerInv, ContainerTypeOK
  <2> HIDE DEF x, c, T
  <2> QED
    BY <1>1, <1>3, <1>4, <2>1, ReturnedKeeps
<1> HIDE DEF c, T, x
<1>6. given' \in [Containers -> [Types -> SUBSET Nat]]
  BY <1>1, <1>2, <1>3 DEF ContainerInv, ContainerTypeOK
<1>7. ContainerTypeOK'
  BY <1>1, <1>5, <1>6 DEF ContainerInv, ContainerTypeOK
<1>8. \A d \in Containers, S \in Types : \A y \in given'[d][S] :
        y \in given[d][S] \/ Bound(registrations'[d][S], y)
  BY <1>1, <1>2 DEF ContainerInv, ContainerTypeOK, Bound, x
<1> QED
  BY <1>1, <1>4, <1>5, <1>7, <1>8, StepKeeps

\* What the lock guards of a thread that end do to a registration, that of the innermost call
\* or another one.
Unlocks(t, top, other, object, r, q, T) ==
  /\ q \in Registered /\ RegistrationOK(q, T) /\ Follows(t, r, q)
  /\ q.through = r.through /\ q.factory = r.factory
  /\ object # Null /\ r.holder = t /\ other => q.holder = t
  /\ q.holder = t => r.holder = t /\ object # Null /\ ~top
  /\ r.holder = t /\ object # Null /\ top => q.value = object /\ q.lifetime = "singleton"

LEMMA UnlockedIs ==
  ASSUME ContainerInv, NEW t \in Users, calls[t] # <<>>, Top(t).step = "make", NEW object \in Nat,
         Found(t).factory = "instance" => object \in {Null, Found(t).object},
         registrations' = Unlocked(t, object), born' = born
  PROVE  /\ registrations' \in [Containers -> [Types -> Registered]] /\ RegistrationsOK' /\ Advances(t)
         /\ \A c \in Containers, T \in Types :
              object # Null /\ registrations[c][T].holder = t /\ T # Top(t).type =>
                registrations'[c][T].holder = t
         /\ \A c \in Containers, T \in Types : registrations'[c][T].holder = t =>
              /\ registrations[c][T].holder = t /\ object # Null
              /\ ~(Top(t).step = "make" /\ c = Top(t).at /\ T = Top(t).type)
         /\ object # Null /\ Found(t).lifetime # "transient" =>
              Bound(registrations'[Top(t).at][Top(t).type], object)
<1>1. /\ Top(t).at \in Containers /\ Top(t).type \in Types /\ CallOK(t, Top(t)) /\ Found(t) \in Registered
      /\ t # NoThread
  BY TopIs, DependencyAssumption
<1>2. ASSUME NEW c \in Containers, NEW T \in Types
      PROVE  Unlocks(t, c = Top(t).at /\ T = Top(t).type, T # Top(t).type, object,
                     registrations[c][T], registrations'[c][T], T)
  <2> DEFINE r == registrations[c][T]
             q == registrations'[c][T]
             top == c = Top(t).at /\ T = Top(t).type
             freed == [r EXCEPT !.holder = NoThread]
             kept == [r EXCEPT !.holder = NoThread, !.value = object]
  <2>1. r \in Registered /\ RegistrationOK(r, T)
    BY DEF ContainerInv, ContainerTypeOK, RegistrationsOK
  <2>2. q = IF r.holder # t THEN r ELSE IF object = Null THEN freed ELSE IF top THEN kept ELSE r
    BY DEF Unlocked
  <2>3. top => r = Found(t)
    BY DEF Found
  <2> SUFFICES Unlocks(t, top, T # Top(t).type, object, r, q, T)
    OBVIOUS
  <2> HIDE DEF r
  <2>4. /\ freed \in Registered /\ freed.factory = r.factory /\ freed.through = r.through
        /\ freed.target = r.target /\ freed.object = r.object /\ freed.lifetime = r.lifetime
        /\ freed.value = r.value /\ freed.holder = NoThread
    BY <2>1 DEF Registered
  <2>5. /\ kept \in Registered /\ kept.factory = r.factory /\ kept.through = r.through
        /\ kept.target = r.target /\ kept.object = r.object /\ kept.lifetime = r.lifetime
        /\ kept.value = object /\ kept.holder = NoThread
    BY <2>1 DEF Registered
  <2> HIDE DEF freed, kept, q
  <2>6. r.holder = t => r.value = Null /\ r.lifetime = "singleton" /\ r.factory # "absent"
    BY <1>1, <2>1 DEF RegistrationOK, Registered
  <2>7. CASE r.holder # t
    BY <2>1, <2>2, <2>7 DEF Unlocks, Follows
  <2>8. CASE r.holder = t /\ object = Null
    BY <1>1, <2>1, <2>2, <2>4, <2>6, <2>8 DEF Unlocks, Follows, RegistrationOK
  <2>9. CASE r.holder = t /\ object # Null /\ top
    BY <1>1, <2>1, <2>2, <2>3, <2>5, <2>6, <2>9 DEF Unlocks, Follows, RegistrationOK
  <2>10. CASE r.holder = t /\ object # Null /\ ~top
    BY <2>1, <2>2, <2>10 DEF Unlocks, Follows
  <2> QED
    BY <2>7, <2>8, <2>9, <2>10
<1>3. registrations' \in [Containers -> [Types -> Registered]]
  <2>1. registrations' = [c \in Containers |-> [T \in Types |-> registrations'[c][T]]]
    BY DEF Unlocked
  <2>2. \A c \in Containers, T \in Types : registrations'[c][T] \in Registered
    BY <1>2 DEF Unlocks
  <2> QED
    BY <2>1, <2>2
<1>4. RegistrationsOK'
  BY <1>2 DEF Unlocks, ContainerInv, RegistrationsOK, Containers
<1>5. Advances(t)
  BY <1>2 DEF Unlocks, Advances
<1>6. ASSUME object # Null, Found(t).lifetime # "transient"
      PROVE  Bound(registrations'[Top(t).at][Top(t).type], object)
  <2>1. registrations[Top(t).at][Top(t).type].holder = t
    BY <1>1, <1>6 DEF CallOK, Found
  <2> QED
    BY <1>1, <1>2, <1>6, <2>1 DEF Unlocks, Bound
<1> QED
  BY <1>2, <1>3, <1>4, <1>5, <1>6 DEF Unlocks

LEMMA FinishFactoryKeeps ==
  ASSUME ContainerInv, NEW t \in Users, FinishFactory(t)
  PROVE  ContainerInv'
<1> DEFINE c == Top(t).at
           T == Top(t).type
           x == Made(t)
<1>1. /\ calls[t] # <<>> /\ Top(t).step = "make"
      /\ registrations' = Unlocked(t, x) /\ calls' = [calls EXCEPT ![t] = Returned(t, x)]
      /\ given' = IF x = Null \/ Found(t).lifetime = "transient" THEN given
                  ELSE [given EXCEPT ![c][T] = given[c][T] \cup {x}]
      /\ built' = IF Found(t).factory = "make" THEN built + 1 ELSE built
      /\ UNCHANGED <<born, inherited, doubles>>
  BY DEF FinishFactory
<1>2. /\ c \in Containers /\ T \in Types /\ Found(t) \in Registered /\ Top(t) \in Call /\ built \in Nat
  BY <1>1, TopIs DEF ContainerInv, ContainerTypeOK
<1>3. x \in Nat /\ (Found(t).factory = "instance" => x = Found(t).object)
  BY <1>2 DEF Made, Null, Registered, Call, Factories
<1> HIDE DEF x, c, T
<1>4. /\ registrations' \in [Containers -> [Types -> Registered]] /\ RegistrationsOK' /\ Advances(t)
      /\ \A d \in Containers, S \in Types :
           x # Null /\ registrations[d][S].holder = t /\ S # Top(t).type => registrations'[d][S].holder = t
      /\ \A d \in Containers, S \in Types : registrations'[d][S].holder = t =>
           /\ registrations[d][S].holder = t /\ x # Null
           /\ ~(Top(t).step = "make" /\ d = Top(t).at /\ S = Top(t).type)
      /\ x # Null /\ Found(t).lifetime # "transient" => Bound(registrations'[c][T], x)
  BY <1>1, <1>3, UnlockedIs DEF c, T
<1>5. /\ StackOK(t)' /\ HeldByCall(t)' /\ calls' \in [Users -> Seq(Call)]
      /\ \A u \in Users \ {t} : calls'[u] = calls[u]
  BY <1>1, <1>3, <1>4, ReturnedKeeps
<1>6. /\ given' \in [Containers -> [Types -> SUBSET Nat]]
      /\ \A d \in Containers, S \in Types : \A y \in given'[d][S] :
           y \in given[d][S] \/ Bound(registrations'[d][S], y)
  <2>1. given \in [Containers -> [Types -> SUBSET Nat]]
    BY DEF ContainerInv, ContainerTypeOK
  <2>2. CASE x = Null \/ Found(t).lifetime = "transient"
    BY <1>1, <2>1, <2>2
  <2>3. CASE ~(x = Null \/ Found(t).lifetime = "transient")
    <3>1. given' = [given EXCEPT ![c][T] = given[c][T] \cup {x}] /\ Bound(registrations'[c][T], x)
      BY <1>1, <1>4, <2>3
    <3> QED
      BY <1>2, <1>3, <2>1, <3>1
  <2> QED
    BY <2>2, <2>3
<1>7. ContainerTypeOK'
  BY <1>1, <1>2, <1>4, <1>5, <1>6 DEF ContainerInv, ContainerTypeOK
<1> QED
  BY <1>1, <1>4, <1>5, <1>6, <1>7, StepKeeps

LEMMA ResolvesKeep ==
  ASSUME ContainerInv, NEW t \in Users,
         ResolveNested(t) \/ \E c \in Containers, T \in Types : Resolve(t, c, T)
  PROVE  ContainerInv'
<1>1. PICK c \in Containers, T \in Types :
        /\ c = Child => born
        /\ calls[t] # <<>> => Needy(Top(t)) /\ Rank[T] < Rank[Top(t).type]
        /\ calls' = [calls EXCEPT ![t] = Calling(t, c, T)]
        /\ UNCHANGED <<registrations, built, born, given, inherited, doubles>>
  <2>1. CASE ResolveNested(t)
    <3>1. /\ calls[t] # <<>> /\ Top(t).step = "make" /\ Top(t).left # <<>>
          /\ calls' = [calls EXCEPT ![t] = Calling(t, Found(t).through, Head(Top(t).left))]
          /\ UNCHANGED <<registrations, built, born, given, inherited, doubles>>
      BY <2>1 DEF ResolveNested
    <3>2. /\ Top(t) \in Call /\ CallOK(t, Top(t)) /\ Top(t).at \in Containers /\ Top(t).type \in Types
          /\ Found(t) \in Registered
      BY <3>1, TopIs
    <3>3. Found(t).through \in Containers /\ (Found(t).through = Child => born)
      BY <3>2 DEF Found, Registered, ContainerInv, RegistrationsOK
    <3>4. Head(Top(t).left) \in Types /\ Rank[Head(Top(t).left)] < Rank[Top(t).type]
      <4>1. Top(t).left \in Seq(Types) /\ Top(t).left # <<>>
        BY <3>1, <3>2 DEF Call
      <4>2. 1 \in DOMAIN Top(t).left /\ Head(Top(t).left) = Top(t).left[1]
        BY <4>1
      <4> QED
        BY <3>1, <3>2, <4>1, <4>2 DEF CallOK
    <3> QED
      BY <3>1, <3>3, <3>4 DEF Needy
  <2>2. CASE \E c \in Containers, T \in Types : Resolve(t, c, T)
    BY <2>2, DependencyAssumption DEF Resolve, Usable
  <2> QED
    BY <2>1, <2>2
<1>2. RegistrationsOK' /\ Advances(t)
  BY <1>1, SameRegistrations
<1>3. /\ calls' \in [Users -> Seq(Call)] /\ StackOK(t)' /\ HeldByCall(t)'
      /\ \A u \in Users \ {t} : calls'[u] = calls[u]
  BY <1>1, CallingKeeps
<1>4. ContainerTypeOK'
  BY <1>1, <1>3 DEF ContainerInv, ContainerTypeOK
<1> QED
  BY <1>1, <1>2, <1>3, <1>4, StepKeeps

\* The program registers a service, and gives the object that it made to whoever asked.
LEMMA RegistersKeep ==
  ASSUME ContainerInv, NEW t \in Users, NEW c \in Containers, NEW T \in Types, NEW q \in Registered,
         calls[t] = <<>>, Usable(c), Emplaced(c, T, q), RegistrationOK(q, T), q.holder = NoThread,
         q.factory # "absent", q.through = c, built' \in Nat, UNCHANGED <<born, inherited>>,
         \/ UNCHANGED <<calls, given>>
         \/ /\ registrations[c][T].factory = "absent" /\ calls' = calls
            /\ q.object # Null /\ q.lifetime = "singleton" /\ q.factory = "instance"
            /\ given' = [given EXCEPT ![c][T] = given[c][T] \cup {q.object}]
         \/ calls' = [calls EXCEPT ![t] = Calling(t, c, T)] /\ given' = given
  PROVE  ContainerInv'
<1>1. c = Child => born
  BY DependencyAssumption DEF Usable
<1>2. /\ registrations' \in [Containers -> [Types -> Registered]] /\ RegistrationsOK' /\ Advances(t)
      /\ \A d \in Containers, S \in Types : registrations'[d][S].holder = registrations[d][S].holder
      /\ registrations[c][T].factory = "absent" => registrations'[c][T] = q
  BY <1>1, EmplacedIs
<1>3. /\ given' \in [Containers -> [Types -> SUBSET Nat]]
      /\ \A d \in Containers, S \in Types : \A y \in given'[d][S] :
           y \in given[d][S] \/ Bound(registrations'[d][S], y)
  <2>1. given \in [Containers -> [Types -> SUBSET Nat]] /\ q.object \in Nat
    BY DEF ContainerInv, ContainerTypeOK, Registered
  <2>2. CASE given' = given
    BY <2>1, <2>2
  <2>3. CASE given' # given
    <3>1. /\ given' = [given EXCEPT ![c][T] = given[c][T] \cup {q.object}]
          /\ Bound(registrations'[c][T], q.object)
      BY <1>2, <2>3 DEF Bound
    <3> QED
      BY <2>1, <3>1
  <2> QED
    BY <2>2, <2>3
<1>4. /\ calls' \in [Users -> Seq(Call)] /\ StackOK(t)' /\ HeldByCall(t)'
      /\ \A u \in Users \ {t} : calls'[u] = calls[u]
  <2>1. CASE calls' = calls
    BY <1>2, <2>1, IdleKeeps DEF ContainerInv, ContainerTypeOK
  <2>2. CASE calls' = [calls EXCEPT ![t] = Calling(t, c, T)]
    <3> DEFINE f == [at |-> c, type |-> T, step |-> "find", left |-> <<>>, got |-> Null]
    <3>1. calls'[t] = <<f>> /\ calls \in [Users -> Seq(Call)]
      BY <2>2 DEF Calling, ContainerInv, ContainerTypeOK
    <3>2. f \in Call /\ CallOK(t, f)' /\ f.step = "find"
      BY <1>1 DEF Call, CallOK, Null
    <3> HIDE DEF f
    <3>3. calls'[t] \in Seq(Call) /\ Len(calls'[t]) = 1 /\ calls'[t][1] = f
      BY <3>1, <3>2
    <3>4. StackOK(t)'
      <4>1. ASSUME NEW i \in 1 .. 1
            PROVE  CallOK(t, calls[t][i])' /\ i = 1
        BY <3>2, <3>3
      <4> QED
        BY <3>3, <4>1 DEF StackOK
    <3>5. HeldByCall(t)'
      BY <1>2 DEF ContainerInv, HeldByCall, Makes
    <3> QED
      BY <2>2, <3>1, <3>3, <3>4, <3>5
  <2> QED
    BY <2>1, <2>2
<1>5. ContainerTypeOK'
  BY <1>2, <1>3, <1>4 DEF ContainerInv, ContainerTypeOK
<1> QED
  BY <1>2, <1>3, <1>4, <1>5, StepKeeps

LEMMA CreateChildKeeps ==
  ASSUME ContainerInv, NEW t \in Users, CreateChild(t)
  PROVE  ContainerInv'
<1>1. /\ calls[t] = <<>> /\ ~born /\ born' = TRUE /\ inherited' = given[Root]
      /\ registrations' = [registrations EXCEPT ![Child] = [T \in Types |-> Clone(registrations[Root][T])]]
      /\ UNCHANGED <<calls, built, given, doubles>>
  BY DEF CreateChild
<1>2. registrations \in [Containers -> [Types -> Registered]] /\ Root \in Containers /\ Child \in Containers
  BY DEF ContainerInv, ContainerTypeOK, Containers
<1>3. ASSUME NEW T \in Types
      PROVE  LET r == registrations[Root][T]
                 q == registrations'[Child][T]
             IN  /\ q \in Registered /\ RegistrationOK(q, T) /\ q.holder = NoThread
                 /\ \A x : Bound(r, x) => Bound(q, x)
  <2> DEFINE r == registrations[Root][T]
             q == [r EXCEPT !.holder = NoThread]
  <2>1. r \in Registered /\ RegistrationOK(r, T) /\ registrations'[Child][T] = q
    BY <1>1, <1>2 DEF ContainerInv, RegistrationsOK, Clone
  <2> HIDE DEF r
  <2>2. /\ q \in Registered /\ q.factory = r.factory /\ q.through = r.through
        /\ q.target = r.target /\ q.object = r.object /\ q.lifetime = r.lifetime
        /\ q.value = r.value /\ q.holder = NoThread
    BY <2>1 DEF Registered
  <2> HIDE DEF q
  <2>3. RegistrationOK(q, T) /\ \A x : Bound(r, x) => Bound(q, x)
    BY <2>1, <2>2 DEF RegistrationOK, Bound
  <2> QED
    BY <2>1, <2>2, <2>3 DEF r
<1>4. \A T \in Types : registrations'[Root][T] = registrations[Root][T]
  BY <1>1, <1>2, DependencyAssumption
<1>5. registrations' \in [Containers -> [Types -> Registered]]
  <2>1. [T \in Types |-> Clone(registrations[Root][T])] \in [Types -> Registered]
    BY <1>1, <1>2, <1>3
  <2> QED
    BY <1>1, <1>2, <2>1
<1>6. RegistrationsOK'
  BY <1>1, <1>3, <1>4 DEF ContainerInv, RegistrationsOK, Containers
<1>7. \A T \in Types : registrations[Child][T].factory = "absent" /\ registrations[Child][T].holder = NoThread
  BY <1>1, <1>2 DEF ContainerInv, RegistrationsOK, RegistrationOK
<1>8. Advances(t)
  BY <1>3, <1>4, <1>7 DEF Advances, Follows, Containers
<1>9. StackOK(t)' /\ HeldByCall(t)'
  <2>1. \A c \in Containers, T \in Types :
          registrations'[c][T].holder = t => registrations[c][T].holder = t
    BY <1>3, <1>4, DependencyAssumption DEF Containers
  <2> QED
    BY <1>1, <2>1, IdleKeeps
<1>10. ContainerTypeOK'
  BY <1>1, <1>2, <1>5 DEF ContainerInv, ContainerTypeOK
<1>11. \A T \in Types : \A x \in inherited'[T] : born' /\ Bound(registrations'[Child][T], x)
  BY <1>1, <1>2, <1>3 DEF ContainerInv, GivenIsBound
<1> QED
  BY <1>1, <1>6, <1>8, <1>9, <1>10, <1>11, StepKeeps

LEMMA UsesKeep ==
  ASSUME ContainerInv, NEW t \in Users, NEW c \in Containers, NEW T \in Types,
         \/ AddInstance(t, c, T) \/ Create(t, c, T)
         \/ \E lifetime \in {"singleton", "transient"} : AddDefault(t, c, T, lifetime)
         \/ \E U \in Types : Rank[U] < Rank[T] /\ AddAlias(t, c, T, U)
  PROVE  ContainerInv'
<1>1. built \in Nat /\ "instance" \in Factories /\ "alias" \in Factories
  BY DEF ContainerInv, ContainerTypeOK, Factories
<1>2. CASE AddInstance(t, c, T) \/ Create(t, c, T)
  <2>1. PICK object \in Nat : object = built + 1 /\ object # Null /\ built' = object
    BY <1>1, <1>2 DEF AddInstance, Create, Null
  <2> DEFINE q == Registration("instance", c, T, object, "singleton")
  <2>2. /\ q \in Registered /\ RegistrationOK(q, T) /\ q.holder = NoThread /\ q.through = c
        /\ q.factory = "instance" /\ q.object = object /\ q.lifetime = "singleton"
    BY <1>1, <2>1, FactoryOK
  <2>3. CASE AddInstance(t, c, T)
    <3>1. /\ calls[t] = <<>> /\ Usable(c) /\ Emplaced(c, T, q) /\ UNCHANGED <<calls, given, born, inherited>>
      BY <2>1, <2>3 DEF AddInstance
    <3> HIDE DEF q
    <3> QED
      BY <2>1, <2>2, <3>1, RegistersKeep
  <2>4. CASE Create(t, c, T)
    <3>1. /\ calls[t] = <<>> /\ Usable(c) /\ Emplaced(c, T, q) /\ UNCHANGED <<born, inherited>>
          /\ \/ /\ registrations[c][T].factory = "absent" /\ calls' = calls
                /\ given' = [given EXCEPT ![c][T] = given[c][T] \cup {object}]
             \/ calls' = [calls EXCEPT ![t] = Calling(t, c, T)] /\ given' = given
      BY <2>1, <2>4 DEF Create, Is
    <3> HIDE DEF q
    <3> QED
      BY <2>1, <2>2, <3>1, RegistersKeep
  <2> QED
    BY <1>2, <2>3, <2>4
<1>3. ASSUME NEW lifetime \in {"singleton", "transient"}, AddDefault(t, c, T, lifetime)
      PROVE  ContainerInv'
  <2> DEFINE q == DefaultFactory(c, T, lifetime)
  <2>1. /\ q \in Registered /\ RegistrationOK(q, T) /\ q.holder = NoThread /\ q.through = c
        /\ q.factory # "absent"
    BY FactoryOK DEF DefaultFactory, Factories, Null
  <2>2. /\ calls[t] = <<>> /\ Usable(c) /\ Emplaced(c, T, q) /\ UNCHANGED <<calls, built, given, born, inherited>>
    BY <1>3 DEF AddDefault
  <2> HIDE DEF q
  <2> QED
    BY <1>1, <2>1, <2>2, RegistersKeep
<1>4. ASSUME NEW U \in Types, Rank[U] < Rank[T], AddAlias(t, c, T, U)
      PROVE  ContainerInv'
  <2> DEFINE q == Registration("alias", c, U, Null, "singleton")
  <2>1. /\ q \in Registered /\ RegistrationOK(q, T) /\ q.holder = NoThread /\ q.through = c
        /\ q.factory # "absent"
    BY <1>1, <1>4, FactoryOK DEF Null
  <2>2. /\ calls[t] = <<>> /\ Usable(c) /\ Emplaced(c, T, q) /\ UNCHANGED <<calls, built, given, born, inherited>>
    BY <1>4 DEF AddAlias
  <2> HIDE DEF q
  <2> QED
    BY <1>1, <2>1, <2>2, RegistersKeep
<1> QED
  BY <1>2, <1>3, <1>4

LEMMA NextContainer == ContainerInv /\ [DependencyNext]_containerVars => ContainerInv'
<1> SUFFICES ASSUME ContainerInv, [DependencyNext]_containerVars
             PROVE  ContainerInv'
  OBVIOUS
<1>1. ASSUME NEW t \in Users, CallStep(t)
      PROVE  ContainerInv'
  BY <1>1, FindKeeps, GetKeptKeeps, StartFactoryKeeps, ResolvesKeep, FinishFactoryKeeps DEF CallStep
<1>2. ASSUME NEW t \in Users, Uses(t)
      PROVE  ContainerInv'
  <2>1. CASE CreateChild(t)
    BY <2>1, CreateChildKeeps
  <2>2. ASSUME NEW c \in Containers, NEW T \in Types, Resolve(t, c, T)
        PROVE  ContainerInv'
    BY <2>2, ResolvesKeep
  <2> QED
    BY <1>2, <2>1, <2>2, UsesKeep DEF Uses
<1>3. CASE UNCHANGED containerVars
  <2>1. ContainerTypeOK' /\ RegistrationsOK' /\ GivenIsBound' /\ InheritedIsBound'
    BY <1>3 DEF containerVars, ContainerInv, ContainerTypeOK, RegistrationsOK, GivenIsBound, InheritedIsBound
  <2>2. ASSUME NEW t \in Users
        PROVE  StackOK(t)' /\ HeldByCall(t)'
    <3>1. StackOK(t) /\ HeldByCall(t) /\ calls' = calls /\ registrations' = registrations /\ born' = born
      BY <1>3 DEF containerVars, ContainerInv
    <3> QED
      BY <3>1 DEF StackOK, CallOK, HeldByCall, Makes
  <2> QED
    BY <2>1, <2>2 DEF ContainerInv
<1> QED
  BY <1>1, <1>2, <1>3 DEF DependencyNext

LEMMA InitContainer == DependencyInit => ContainerInv
<1> SUFFICES ASSUME DependencyInit
             PROVE  ContainerInv
  OBVIOUS
<1>1. ASSUME NEW T \in Types
      PROVE  /\ Absent(T) \in Registered /\ RegistrationOK(Absent(T), T) /\ Absent(T).through = Root
             /\ Absent(T).factory = "absent" /\ Absent(T).holder = NoThread
  <2>1. Root \in Containers /\ "absent" \in Factories
    BY DEF Containers, Factories
  <2> QED
    BY <2>1, FactoryOK DEF Absent, Null
<1>2. ContainerTypeOK
  <2>1. registrations \in [Containers -> [Types -> Registered]]
    BY <1>1 DEF DependencyInit
  <2>2. calls \in [Users -> Seq(Call)] /\ given \in [Containers -> [Types -> SUBSET Nat]]
    BY DEF DependencyInit
  <2> QED
    BY <2>1, <2>2 DEF DependencyInit, ContainerTypeOK
<1>3. RegistrationsOK
  BY <1>1, DependencyAssumption DEF DependencyInit, RegistrationsOK, Containers
<1>4. \A t \in Users : StackOK(t) /\ HeldByCall(t)
  <2> SUFFICES ASSUME NEW t \in Users
               PROVE  StackOK(t) /\ HeldByCall(t)
    OBVIOUS
  <2>1. Len(calls[t]) = 0
    BY DEF DependencyInit
  <2>2. \A c \in Containers, T \in Types : registrations[c][T].holder = NoThread
    BY <1>1 DEF DependencyInit
  <2> QED
    BY <2>1, <2>2, DependencyAssumption DEF StackOK, HeldByCall
<1> QED
  BY <1>2, <1>3, <1>4 DEF DependencyInit, ContainerInv, GivenIsBound, InheritedIsBound

\* Of the threads that wait, the one that waits for the service of the lowest rank waits for a
\* thread whose innermost call is of a lower rank still: that one does not wait.
LEMMA LowestGoesOn == ContainerInv => SomeoneGoesOn
<1> SUFFICES ASSUME ContainerInv, NEW u \in Users, calls[u] # <<>>,
                    \A t \in Users : calls[t] # <<>> => Waits(t)
             PROVE  FALSE
  BY DEF SomeoneGoesOn
<1> DEFINE Ranks == {Rank[Top(t).type] : t \in {v \in Users : calls[v] # <<>>}}
<1>1. Ranks \subseteq Nat /\ Ranks # {}
  <2>1. \A t \in Users : calls[t] # <<>> => Top(t).type \in Types
    BY TopIs
  <2> QED
    BY <2>1, DependencyAssumption
<1>2. PICK lowest \in Ranks : \A k \in Ranks : ~(k < lowest)
  <2> HIDE DEF Ranks
  <2>1. PICK x \in Ranks : \A y \in Ranks : ~(<<y, x>> \in OpToRel(<, Nat))
    BY <1>1, NatLessThanWellFounded, WFMin
  <2> QED
    BY <1>1, <2>1 DEF OpToRel
<1>3. PICK t \in Users : calls[t] # <<>> /\ lowest = Rank[Top(t).type]
  OBVIOUS
<1>4. /\ Top(t).at \in Containers /\ Top(t).type \in Types /\ Found(t) \in Registered
  BY <1>3, TopIs
<1>5. PICK v \in Users : Found(t).holder = v
  BY <1>3, <1>4 DEF Waits, Registered
<1>6. Makes(v, Top(t).at, Top(t).type)
  BY <1>4, <1>5 DEF ContainerInv, HeldByCall, Found
<1>7. PICK i \in 1 .. Len(calls[v]) : calls[v][i].type = Top(t).type /\ calls[v][i].step = "make"
  BY <1>6 DEF Makes
<1>8. calls[v] # <<>>
  BY <1>7 DEF ContainerInv, ContainerTypeOK
<1>9. /\ Top(v) = calls[v][Len(calls[v])] /\ Len(calls[v]) \in Nat /\ Len(calls[v]) >= 1
      /\ Top(v).type \in Types
  BY <1>8, TopIs
<1>10. Top(v).step = "get"
  BY <1>8 DEF Waits
<1>11. i # Len(calls[v])
  BY <1>7, <1>9, <1>10
<1>12. Rank[Top(v).type] < Rank[Top(t).type]
  BY <1>7, <1>9, <1>11 DEF ContainerInv, StackOK
<1> QED
  BY <1>2, <1>3, <1>8, <1>12

\* One object for each service and container, inherited by the child, and nobody waits in a circle.
THEOREM ServicesStayShared == DependencySpec => []ServicesAreShared
<1>1. ContainerInv => OneInstance
  <2> SUFFICES ASSUME ContainerInv, NEW T \in Types, NEW c \in Containers
               PROVE  /\ \A a, b \in given[c][T] : a = b
                      /\ inherited[T] # {} => given[Child][T] \subseteq inherited[T]
    BY DEF OneInstance
  <2>1. ASSUME NEW d \in Containers, NEW a, NEW b, Bound(registrations[d][T], a), Bound(registrations[d][T], b)
        PROVE  a = b
    BY <2>1 DEF Bound, ContainerInv, RegistrationsOK, RegistrationOK
  <2>2. Child \in Containers
    BY DEF Containers
  <2> QED
    BY <2>1, <2>2 DEF ContainerInv, GivenIsBound, InheritedIsBound
<1>2. ContainerInv => ServicesAreShared
  BY <1>1, LowestGoesOn DEF ServicesAreShared
<1> QED
  BY <1>2, InitContainer, NextContainer, PTL DEF DependencySpec
===============================================================================
