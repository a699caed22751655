---------------------------- MODULE EventHandlers ----------------------------
(***************************************************************************)
(* event_handler_collection (Events.h): the handlers behind a publisher.    *)
(* One recursive mutex guards them; a handler that runs may subscribe, drop *)
(* a subscription and raise the same event again, and what it changes waits *)
(* in two lists until the outermost dispatch is over.  The mutex is not a   *)
(* variable: the thread that dispatches holds it, and its lock_count is the *)
(* depth of its dispatches, plus one inside an operation.                   *)
(***************************************************************************)
EXTENDS Integers, Sequences

CONSTANTS
  Threads,
  TokenCount,  \* number of values of token_t, 2^32 in the code
  MaxDepth     \* bound: dispatches nested in one thread

ASSUME BoundsAssumption == TokenCount \in Nat \ {0, 1} /\ MaxDepth \in Nat \ {0}

Tokens == 0 .. TokenCount - 1

Idle == TokenCount  \* no handler of the dispatch runs

VARIABLES
  handlers,          \* _handlers, the tokens
  handlersToAdd,     \* _handlersToAdd
  handlersToRemove,  \* _handlersToRemove
  nextToken,         \* _nextToken
  dispatches,        \* thread -> its invoke() calls, the innermost last
  subscriptions,     \* tokens of the event_subscription objects in the program
  revoked            \* tokens of those that were destroyed

vars == <<handlers, handlersToAdd, handlersToRemove, nextToken, dispatches,
          subscriptions, revoked>>

lists == <<handlers, handlersToAdd, handlersToRemove>>

Dispatch == [running : Tokens \cup {Idle}, called : SUBSET Tokens,
             begunWith : SUBSET Tokens, silent : SUBSET Tokens]

Init ==
  /\ handlers = {} /\ handlersToAdd = {} /\ handlersToRemove = {}
  /\ nextToken = 1
  /\ dispatches = [t \in Threads |-> <<>>]
  /\ subscriptions = {} /\ revoked = {}

Depth(t) == Len(dispatches[t])

Current(t) == dispatches[t][Depth(t)]

\* The program's own code runs in t: outside every dispatch or in a handler.
InProgram(t) == Depth(t) > 0 => Current(t).running # Idle

\* Mutant: a publisher made single-threaded is shared by threads.
Unguarded(t) == TRUE

\* t can lock the mutex.
CanLock(t) == \A u \in Threads \ {t} : Depth(u) = 0

Pushed(t, dispatch) == [dispatches EXCEPT ![t] = Append(@, dispatch)]

WithCurrent(t, dispatch) == [dispatches EXCEPT ![t][Depth(t)] = dispatch]

Popped(t) == [dispatches EXCEPT ![t] = SubSeq(@, 1, Len(@) - 1)]

-------------------------------------------------------------------------------

Fresh(token) == token \notin handlers \cup handlersToAdd

Distance(token) == (token - nextToken) % TokenCount

\* The loop skips the tokens in use; the counter wraps around.
Issued(token) ==
  /\ Fresh(token)
  /\ \A other \in Tokens : Distance(other) < Distance(token) => ~Fresh(other)

Insert(t, token) ==
  IF Depth(t) = 0
    THEN /\ handlers' = handlers \cup {token}
         /\ UNCHANGED <<handlersToAdd, handlersToRemove>>
    ELSE /\ handlersToAdd' = handlersToAdd \cup {token}
         /\ UNCHANGED <<handlers, handlersToRemove>>

\* event_publisher::subscribe.  A program that never has all tokens in use.
Subscribe(t) ==
  /\ InProgram(t) /\ CanLock(t)
  /\ \E token \in Tokens :
       /\ Issued(token)
       /\ Insert(t, token)
       /\ nextToken' = (token + 1) % TokenCount
       /\ subscriptions' = subscriptions \cup {token}
       /\ revoked' = revoked \ {token}
  /\ UNCHANGED dispatches

\* remove(): it knows nothing of a handler that still waits in _handlersToAdd.
Erase(t, token) ==
  IF token \notin handlers THEN UNCHANGED lists
  ELSE IF Depth(t) = 0
    THEN /\ handlers' = handlers \ {token}
         /\ UNCHANGED <<handlersToAdd, handlersToRemove>>
    ELSE /\ handlersToRemove' = handlersToRemove \cup {token}
         /\ UNCHANGED <<handlers, handlersToAdd>>

\* An event_subscription is destroyed or reset.
Unsubscribe(t, token) ==
  /\ InProgram(t) /\ CanLock(t)
  /\ token \in subscriptions
  /\ Erase(t, token)
  /\ subscriptions' = subscriptions \ {token}
  /\ revoked' = revoked \cup {token}
  /\ UNCHANGED <<nextToken, dispatches>>

\* event_publisher::raise, which locks the mutex.
Raise(t) ==
  /\ InProgram(t) /\ CanLock(t)
  /\ Depth(t) < MaxDepth
  /\ dispatches' = Pushed(t, [running |-> Idle, called |-> {}, begunWith |-> handlers,
                              silent |-> IF Depth(t) = 0 THEN revoked ELSE {}])
  /\ UNCHANGED <<lists, nextToken, subscriptions, revoked>>

\* The loop of invoke() reaches the next handler; the order of the map is open.
Call(t, token) ==
  /\ Depth(t) > 0 /\ Current(t).running = Idle
  /\ token \in handlers \ Current(t).called
  /\ dispatches' = WithCurrent(t, [Current(t) EXCEPT !.running = token, !.called = @ \cup {token}])
  /\ UNCHANGED <<lists, nextToken, subscriptions, revoked>>

Return(t) ==
  /\ Depth(t) > 0 /\ Current(t).running # Idle
  /\ dispatches' = WithCurrent(t, [Current(t) EXCEPT !.running = Idle])
  /\ UNCHANGED <<lists, nextToken, subscriptions, revoked>>

\* Mutant: the deferred removals are left to a later dispatch.
ApplyAdds ==
  /\ handlers' = handlers \cup handlersToAdd
  /\ handlersToAdd' = {}
  /\ UNCHANGED handlersToRemove

ApplyDeferred ==
  /\ handlers' = (handlers \cup handlersToAdd) \ handlersToRemove
  /\ handlersToAdd' = {} /\ handlersToRemove' = {}

\* invoke() called them all; the outermost one applies what was deferred.
Finish(t) ==
  /\ Depth(t) > 0 /\ Current(t).running = Idle
  /\ handlers \subseteq Current(t).called
  /\ dispatches' = Popped(t)
  /\ IF Depth(t) = 1 THEN ApplyDeferred ELSE UNCHANGED lists
  /\ UNCHANGED <<nextToken, subscriptions, revoked>>

\* A handler throws: invoke() is left through its lock_guard.  The handler that
\* called raise() catches the exception or throws in turn.
Throw(t) ==
  /\ Depth(t) > 0 /\ Current(t).running # Idle
  /\ dispatches' = Popped(t)
  /\ UNCHANGED <<lists, nextToken, subscriptions, revoked>>

Step(t) ==
  \/ Subscribe(t)
  \/ Raise(t)
  \/ \E token \in Tokens : Call(t, token)
  \/ Return(t)
  \/ Finish(t)

Next ==
  \E t \in Threads :
    Step(t) \/ Throw(t) \/ \E token \in Tokens : Unsubscribe(t, token)

Spec == Init /\ [][Next]_vars

\* Handlers do not throw, and a subscription made in a dispatch outlives it.
CautiousNext ==
  \E t \in Threads :
    Step(t) \/ \E token \in Tokens \ handlersToAdd : Unsubscribe(t, token)

CautiousSpec == Init /\ [][CautiousNext]_vars

-------------------------------------------------------------------------------

\* Type invariant; one thread at a time dispatches.
TypeOK ==
  /\ handlers \subseteq Tokens /\ handlersToAdd \subseteq Tokens
  /\ handlersToRemove \subseteq Tokens /\ nextToken \in Tokens
  /\ dispatches \in [Threads -> Seq(Dispatch)]
  /\ subscriptions \subseteq Tokens /\ revoked \subseteq Tokens
  /\ \A t, u \in Threads : Depth(t) > 0 /\ Depth(u) > 0 => t = u

\* "When that token is destroyed (or moved-from) the handler is removed": a
\* dispatch that begins later calls it no more.  A nested one still may, and the
\* one that was running does.
RevokedStaysSilent ==
  \A t \in Threads : \A i \in 1 .. Depth(t) :
    dispatches[t][i].running \notin dispatches[t][i].silent

\* Between dispatches the handlers are exactly those the program holds a
\* subscription to, whatever was added and dropped inside the dispatches.
SettlesBetweenDispatches ==
  (\A t \in Threads : Depth(t) = 0) => handlers = subscriptions

\* A new subscription gets a token that no living one has, also when the counter
\* wraps around.
SubscriptionsDiffer ==
  [][\A t \in Threads :
       Subscribe(t) => \E token \in Tokens \ subscriptions :
                         subscriptions' = subscriptions \cup {token}]_vars

\* A dispatch that ends has called each handler it began with, and no other, also
\* those that were dropped or added while it ran; raise() walks the map safely.
CallsAllItBeganWith ==
  [][\A t \in Threads : Finish(t) => Current(t).called = Current(t).begunWith]_vars

===============================================================================
