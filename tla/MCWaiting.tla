------------------------------ MODULE MCWaiting ------------------------------
(***************************************************************************)
(* What waits in the program, for TLC: the server and the client, programs  *)
(* that look for services, an awaiter of an event, the profiler's frames    *)
(* for the GPU.  They share no state: part says which an instance runs, the *)
(* others stay in a state in which none of their fair steps is possible.    *)
(***************************************************************************)
EXTENDS MCMessaging, EventAwaiter, Profiler

CONSTANTS waiter, r1, r2

VARIABLES
  part,
  life, thread, datagram, services, network, found, crashed

Finding == INSTANCE Discovery WITH
  Providers <- {"provider"}, Locators <- {"locator"}, Ids <- {"service"}, Addresses <- {"address"}

ASSUME MCWaitingAssumption == Finding!DiscoveryAssumption

discoveryVars == <<life, thread, datagram, services, network, found, crashed>>

MCInit ==
  /\ part \in {"messaging", "awaiter", "profiler", "discovery"}
  /\ IF part = "messaging" THEN MessagingInit ELSE NoServer /\ NoClient
  /\ IF part = "awaiter" THEN InitAwaiter ELSE NoAwaiter
  /\ IF part = "profiler" THEN ProfilerInit ELSE NoProfiler
  /\ IF part = "discovery" THEN Finding!DiscoveryInit ELSE Finding!NoDiscovery

MCNext ==
  /\ UNCHANGED part
  /\ \/ part = "messaging" /\ MessagingNext /\ UNCHANGED <<awaiterVars, profilerVars, discoveryVars>>
     \/ part = "awaiter" /\ AwaiterNext /\ UNCHANGED <<messagingVars, profilerVars, discoveryVars>>
     \/ part = "profiler" /\ ProfilerNext /\ UNCHANGED <<messagingVars, awaiterVars, discoveryVars>>
     \/ part = "discovery" /\ Finding!DiscoveryNext /\ UNCHANGED <<messagingVars, awaiterVars, profilerVars>>

MCSpec ==
  /\ MCInit /\ [][MCNext]_<<part, messagingVars, awaiterVars, profilerVars, discoveryVars>>
  /\ ServerFairness /\ ClientFairness
  /\ AwaiterFairness /\ ProfilerFairness /\ Finding!DiscoveryFairness

\* Every destructor ends, of a server, a client, an awaiter or a service provider; those of
\* the parts that do not run are over.
DestructorsEnd ==
  (owner = "closing" \/ user = "setting" \/ pc = "release" \/ life["provider"] = "unsubscribed")
    ~> /\ owner = "gone" /\ user = "gone" /\ pc = "destroyed"
       /\ life["provider"] = "gone" \/ crashed

\* The connections are alike: what holds of one holds of the other.
LostIsFreed == IsFreed(k1)

\* The property of Discovery, see there.
ServicesAreFound == Finding!ServicesAreFound
===============================================================================
