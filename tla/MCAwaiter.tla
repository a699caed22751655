------------------------------ MODULE MCAwaiter ------------------------------
(* Instances of EventAwaiter for TLC: one caller, two threads that raise. *)
EXTENDS EventAwaiter

CONSTANTS c, r1, r2
===============================================================================
