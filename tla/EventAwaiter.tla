---------------------------- MODULE EventAwaiter ----------------------------
(***************************************************************************)
(* event_awaiter and event_publisher::wait (Events.h): a thread blocks until *)
(* an event fires, and the thread that raised it blocks inside the awaiter's *)
(* handler until the arguments it handed over are freed.  The handlers are   *)
(* those of EventHandlers; three reset events and a pointer make the rest.   *)
(***************************************************************************)
EXTENDS EventHandlers

CONSTANTS
  Caller,     \* the thread that waits
  Rounds,     \* bound: calls of wait() of one awaiter
  MaxRaises   \* bound: times the event is raised

Raisers == Threads \ {Caller}

ASSUME AwaiterAssumption ==
  Caller \in Threads /\ Rounds \in Nat \ {0} /\ MaxRaises \in Nat

None == 0  \* no result; the others are the numbers of the firings

VARIABLES
  pc,            \* where the caller is
  round,         \* calls of wait() so far
  body,          \* raiser -> where it is in the awaiter's handler
  raised,        \* times the event was raised
  firing,        \* raiser -> the number of its firing
  waitingEvent,  \* _waitingEvent, reset by the wait it ends
  firedEvent,    \* _firedEvent, reset by the wait it ends
  result,        \* _result
  taken,         \* the result that wait() returned and the program still holds
  freed,         \* firings whose resultFreedEvent is set
  isShuttingDown,
  received       \* the results wait() returned, in order

awaiter == <<waitingEvent, firedEvent, result, isShuttingDown>>

awaiterVars == <<vars, pc, round, body, raised, firing, awaiter, taken, freed, received>>

FreshAwaiter ==
  /\ Init
  /\ round = 0
  /\ body = [r \in Raisers |-> "out"]
  /\ raised = 0 /\ firing = [r \in Raisers |-> None]
  /\ waitingEvent = FALSE /\ firedEvent = FALSE
  /\ result = None /\ taken = None /\ freed = {}
  /\ isShuttingDown = FALSE
  /\ received = <<>>

InitAwaiter == FreshAwaiter /\ pc = "unsubscribed"

\* Nobody waits.
NoAwaiter == FreshAwaiter /\ pc = "destroyed"

-------------------------------------------------------------------------------
(* The thread that raises the event. *)

RaiseEvent(r) ==
  /\ raised < MaxRaises /\ Depth(r) = 0
  /\ Raise(r)
  /\ raised' = raised + 1
  /\ firing' = [firing EXCEPT ![r] = raised + 1]
  /\ UNCHANGED <<pc, round, body, awaiter, taken, freed, received>>

CallHandler(r) ==
  /\ \E token \in Tokens : Call(r, token)
  /\ body' = [body EXCEPT ![r] = "turn"]
  /\ UNCHANGED <<pc, round, raised, firing, awaiter, taken, freed, received>>

\* _waitingEvent.wait()
TakeTurn(r) ==
  /\ body[r] = "turn" /\ waitingEvent
  /\ waitingEvent' = FALSE
  /\ body' = [body EXCEPT ![r] = "check"]
  /\ UNCHANGED <<vars, pc, round, raised, firing, firedEvent, result, isShuttingDown,
                 taken, freed, received>>

CheckShutdown(r) ==
  /\ body[r] = "check"
  /\ body' = [body EXCEPT ![r] = IF isShuttingDown THEN "returning" ELSE "publish"]
  /\ UNCHANGED <<vars, pc, round, raised, firing, awaiter, taken, freed, received>>

\* An assignment to _result frees what it held.
Publish(r) ==
  /\ body[r] = "publish"
  /\ result' = firing[r]
  /\ freed' = freed \cup ({result} \ {None})
  /\ body' = [body EXCEPT ![r] = "fire"]
  /\ UNCHANGED <<vars, pc, round, raised, firing, waitingEvent, firedEvent, isShuttingDown,
                 taken, received>>

Fire(r) ==
  /\ body[r] = "fire"
  /\ firedEvent' = TRUE
  /\ body' = [body EXCEPT ![r] = "hold"]
  /\ UNCHANGED <<vars, pc, round, raised, firing, waitingEvent, result, isShuttingDown,
                 taken, freed, received>>

\* Mutant: the handler returns as soon as it fired.
HoldNotAtAll(r) == TRUE

ResultFreed(r) == firing[r] \in freed

\* resultFreedEvent.wait()
Hold(r) ==
  /\ body[r] = "hold" /\ ResultFreed(r)
  /\ body' = [body EXCEPT ![r] = "returning"]
  /\ UNCHANGED <<vars, pc, round, raised, firing, awaiter, taken, freed, received>>

ReturnHandler(r) ==
  /\ body[r] = "returning"
  /\ Return(r)
  /\ body' = [body EXCEPT ![r] = "out"]
  /\ UNCHANGED <<pc, round, raised, firing, awaiter, taken, freed, received>>

FinishRaise(r) ==
  /\ Finish(r)
  /\ UNCHANGED <<pc, round, body, raised, firing, awaiter, taken, freed, received>>

-------------------------------------------------------------------------------
(* The thread that waits. *)

Construct ==
  /\ pc = "unsubscribed"
  /\ Subscribe(Caller)
  /\ pc' = "ready"
  /\ UNCHANGED <<round, body, raised, firing, awaiter, taken, freed, received>>

\* wait(): _waitingEvent.set()
BeginWait ==
  /\ pc = "ready" /\ taken = None /\ round < Rounds
  /\ round' = round + 1
  /\ waitingEvent' = TRUE
  /\ pc' = "waiting"
  /\ UNCHANGED <<vars, body, raised, firing, firedEvent, result, isShuttingDown,
                 taken, freed, received>>

AutoReset == firedEvent' = FALSE

\* _firedEvent.wait() without a timeout
WakeUp ==
  /\ pc = "waiting" /\ firedEvent
  /\ AutoReset
  /\ pc' = "woken"
  /\ UNCHANGED <<vars, round, body, raised, firing, waitingEvent, result, isShuttingDown,
                 taken, freed, received>>

\* return std::move(_result)
EndWait ==
  /\ pc = "woken"
  /\ taken' = result /\ result' = None
  /\ received' = Append(received, result)
  /\ pc' = "ready"
  /\ UNCHANGED <<vars, round, body, raised, firing, waitingEvent, firedEvent, isShuttingDown,
                 freed>>

\* The program destroys the awaitable_ptr.
FreeResult ==
  /\ taken # None /\ pc \in {"ready", "destroyed"}
  /\ freed' = freed \cup {taken}
  /\ taken' = None
  /\ UNCHANGED <<vars, pc, round, body, raised, firing, awaiter, received>>

ShutDown == isShuttingDown' = TRUE

\* reset(): _isShuttingDown = true
BeginDestroy ==
  /\ pc = "ready"
  /\ ShutDown
  /\ pc' = "release"
  /\ UNCHANGED <<vars, round, body, raised, firing, waitingEvent, firedEvent, result,
                 taken, freed, received>>

ReleaseHandler == waitingEvent' = TRUE

Release ==
  /\ pc = "release"
  /\ ReleaseHandler
  /\ pc' = "unsubscribe"
  /\ UNCHANGED <<vars, round, body, raised, firing, firedEvent, result, isShuttingDown,
                 taken, freed, received>>

\* _firedSubscription.reset(), which locks the mutex of the handlers
Revoke ==
  /\ pc = "unsubscribe"
  /\ \E token \in subscriptions : Unsubscribe(Caller, token)
  /\ pc' = "drop"
  /\ UNCHANGED <<round, body, raised, firing, awaiter, taken, freed, received>>

\* _result.reset()
EndDestroy ==
  /\ pc = "drop"
  /\ freed' = freed \cup ({result} \ {None})
  /\ result' = None
  /\ pc' = "destroyed"
  /\ UNCHANGED <<vars, round, body, raised, firing, waitingEvent, firedEvent, isShuttingDown,
                 taken, received>>

-------------------------------------------------------------------------------

InHandler(r) ==
  TakeTurn(r) \/ CheckShutdown(r) \/ Publish(r) \/ Fire(r) \/ Hold(r) \/ ReturnHandler(r)

RaiserNext(r) == CallHandler(r) \/ InHandler(r) \/ FinishRaise(r)

WaitNext == Construct \/ BeginWait \/ WakeUp \/ EndWait

DestroyNext == Release \/ Revoke \/ EndDestroy

RaisersNext == \E r \in Raisers : RaiseEvent(r) \/ RaiserNext(r)

\* No dispatch begins between the signal of reset() and its unsubscription: the
\* auto reset _waitingEvent lets one firing out of the handler, not a second one.
CautiousRaisers ==
  \E r \in Raisers : (pc # "unsubscribe" /\ RaiseEvent(r)) \/ RaiserNext(r)

\* As the tests use an awaiter: what wait() returned is freed before the next
\* wait(), and before the awaiter.
AwaiterCaller ==
  \/ WaitNext \/ DestroyNext \/ FreeResult
  \/ taken = None /\ round = Rounds /\ BeginDestroy

\* event_publisher::wait: the awaiter is local to the call, and the caller has
\* what it returned only when the awaiter is destroyed.
PublisherCaller ==
  \/ WaitNext \/ DestroyNext
  \/ round = 1 /\ BeginDestroy
  \/ pc = "destroyed" /\ FreeResult

\* Threads that are not blocked go on.  Nothing is assumed of the mutex, nor that
\* the event fires.
RaisersFairness == \A r \in Raisers : WF_awaiterVars(RaiserNext(r))

\* The steps of a behaviour are finitely many: that some thread goes on, as long as one can,
\* is then that each of them does.
AwaiterFairness == WF_awaiterVars((\E r \in Raisers : RaiserNext(r)) \/ AwaiterCaller)

AwaiterNext == CautiousRaisers \/ AwaiterCaller

AwaiterSpec == InitAwaiter /\ [][AwaiterNext]_awaiterVars /\ AwaiterFairness

PublisherSpec ==
  /\ InitAwaiter /\ [][RaisersNext \/ PublisherCaller]_awaiterVars
  /\ RaisersFairness /\ WF_awaiterVars(PublisherCaller)

-------------------------------------------------------------------------------

\* As long as the program holds the arguments of a firing, and they may be a view
\* of the raiser's memory, that raiser has not left the handler.
ArgumentsStayValid ==
  taken # None => \E r \in Raisers : firing[r] = taken /\ body[r] = "hold"

\* Each wait() returns a firing, no firing twice and none out of order.
WaitsInOrder ==
  \A i \in DOMAIN received :
    received[i] # None /\ \A j \in 1 .. i - 1 : received[j] < received[i]

FiringsAreHandedOver == ArgumentsStayValid /\ WaitsInOrder

\* "event_publisher::wait(timeout) blocks the caller until the next firing of the
\* event and returns the arguments": once the arguments are there, it returns.
WaitReturns == (result # None) ~> (pc = "destroyed")

===============================================================================
