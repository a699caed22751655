------------------------------ MODULE MCEvents ------------------------------
(* Instances of EventHandlers for TLC. *)
EXTENDS EventHandlers, TLC

CONSTANTS t1, t2

Symmetry == Permutations(Threads)
===============================================================================
