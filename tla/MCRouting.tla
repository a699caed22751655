------------------------------ MODULE MCRouting ------------------------------
(* BezierRenderer on a few handles.  The handles are interchangeable.        *)
EXTENDS BezierRenderer, TLC

Symmetry == Permutations(Handles)

\* Solid and dotted curves only.
TwoStyles == {[spaced |-> FALSE, dashed |-> FALSE], [spaced |-> TRUE, dashed |-> FALSE]}

===============================================================================
