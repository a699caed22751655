----------------------------- MODULE MCMessaging -----------------------------
(* Instances of MessagingServer and MessagingClient for TLC, each from its own *)
(* initial state beside a destroyed other: they share no state in one process.  *)
EXTENDS MessagingServer, MessagingClient

CONSTANTS k1, k2

messagingVars == <<serverVars, clientVars>>

MessagingInit == (ServerInit /\ NoClient) \/ (NoServer /\ ClientInit)

MessagingNext ==
  \/ ServerNext /\ UNCHANGED clientVars
  \/ ClientNext /\ UNCHANGED serverVars

MessagingSpec == MessagingInit /\ [][MessagingNext]_messagingVars /\ ServerFairness /\ ClientFairness
===============================================================================
