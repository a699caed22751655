------------------------------ MODULE CurveSlots ------------------------------
(***************************************************************************)
(* The slot vectors of a BezierRendererBase (BezierRendererBase.h) as one  *)
(* sequence of records.  The code keeps parallel vectors (owners, merged,  *)
(* spacings, ...) in Add order; slot i here is their i-th entries, counted  *)
(* from 1.  An owner of Nobody is the null pointer of a removed curve,      *)
(* whose slot stays until the next compaction.                              *)
(*                                                                         *)
(* Only the fields `owner` and `merged` are read here, so that the modules  *)
(* that use these operators choose what else a slot carries.                *)
(***************************************************************************)
EXTENDS Naturals, Sequences, FiniteSets

CONSTANTS
  Handles,  \* BezierCurve objects of the program that owns the curves
  Nobody    \* a null pointer

ASSUME HandlesAssumption == Nobody \notin Handles

(***************************************************************************)
(* Order-preserving enumeration of a finite set of slots: what a loop over  *)
(* ascending indices that skips the others visits, and where `write` stands  *)
(* when the loop of CompactRemoved reads slot i.                            *)
(***************************************************************************)
Rank(S, i) == Cardinality({j \in S : j <= i})

Ascending(S) ==
  [k \in 1 .. Cardinality(S) |-> CHOOSE i \in S : Rank(S, i) = k]

-------------------------------------------------------------------------------

\* The slots that still hold a curve.
Live(s) == {i \in DOMAIN s : s[i].owner # Nobody}

\* BezierRendererBase::IsChainStart, which never looks at removed slots: it is
\* asked after a compaction only.
IsChainStart(s, i) == i = 1 \/ ~s[i].merged

\* BezierRenderer::ContinuesChain: a removed slot ends a chain.
ContinuesChain(s, i) ==
  /\ i > 1
  /\ s[i].owner # Nobody
  /\ s[i].merged
  /\ s[i - 1].owner # Nobody

\* First slot of the chain that slot i belongs to: the walk back of Route().
ChainFirst(s, i) ==
  CHOOSE f \in 1 .. i : /\ ~ContinuesChain(s, f)
                        /\ \A k \in f + 1 .. i : ContinuesChain(s, k)

\* CompactRemoved: the live slots, squeezed together in their order; one right
\* after a removed slot starts a chain of its own.
CompactRemoved(s) ==
  LET live == Ascending(Live(s))
  IN  [k \in DOMAIN live |->
         LET i == live[k]
         IN  [s[i] EXCEPT !.merged = @ /\ (i = 1 \/ s[i - 1].owner # Nobody)]]

===============================================================================
