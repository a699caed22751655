------------------------------ MODULE MCChannel ------------------------------
(* Instance of MessagingChannel for TLC. *)
EXTENDS MessagingChannel

CONSTANTS m1, m2
===============================================================================
