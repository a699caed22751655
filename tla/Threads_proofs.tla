----------------------------- MODULE Threads_proofs -----------------------------
(***************************************************************************)
(* Proofs about EventHandlers, for every number of threads, every width of  *)
(* the tokens and every depth of nesting; about EventAwaiter, that hands    *)
(* over each firing; about AsyncOperations, whose states are counted from    *)
(* the update to the screen; and, for any number of connections and          *)
(* broadcasts, about MessagingServer, that tells of its clients in order,     *)
(* reaches the audience of a broadcast and leaves no thread in a handler but   *)
(* those of clients just removed when it is destroyed, and MessagingClient,   *)
(* that gives up no healthy channel.                                        *)
(***************************************************************************)
EXTENDS EventAwaiter, AsyncOperations, MessagingServer, MessagingClient, SequenceTheorems, TLAPS

NobodyDispatches == \A t \in Threads : Depth(t) = 0

\* What holds of every dispatch that runs: the handlers are still those it began
\* with, which is why the loop of invoke() may walk them.
Sound(d) ==
  /\ d \in Dispatch
  /\ d.begunWith = handlers
  /\ d.called \subseteq handlers
  /\ d.running \in handlers \cup {Idle}
  /\ d.silent \cap handlers = {}

DispatchesSound == \A t \in Threads : \A i \in 1 .. Depth(t) : Sound(dispatches[t][i])

\* The deferred lists say how the handlers differ from the subscriptions.
ListsSound ==
  /\ subscriptions = (handlers \cup handlersToAdd) \ handlersToRemove
  /\ handlersToRemove \subseteq handlers
  /\ handlers \cap handlersToAdd = {}
  /\ subscriptions \cap revoked = {}
  /\ NobodyDispatches => handlersToAdd = {} /\ handlersToRemove = {}

IInv == TypeOK /\ DispatchesSound /\ ListsSound

LEMMA InitIInv == Init => IInv
BY BoundsAssumption DEF Init, IInv, TypeOK, DispatchesSound, ListsSound, NobodyDispatches, Depth, Tokens, Dispatch

\* A thread that can lock the mutex outside a dispatch finds none running.
LEMMA QuietWhenLocked ==
  ASSUME NEW t \in Threads, CanLock(t), Depth(t) = 0
  PROVE  NobodyDispatches
BY DEF CanLock, NobodyDispatches

LEMMA SubscribeStep ==
  ASSUME IInv, NEW t \in Threads, Subscribe(t)
  PROVE  IInv'
<1>1. PICK token \in Tokens :
        /\ Issued(token) /\ Insert(t, token)
        /\ nextToken' = (token + 1) % TokenCount
        /\ subscriptions' = subscriptions \cup {token}
        /\ revoked' = revoked \ {token}
  BY DEF Subscribe
<1>2. dispatches' = dispatches /\ CanLock(t)
  BY DEF Subscribe
<1>3. token \notin handlers /\ token \notin handlersToAdd
  BY <1>1 DEF Issued, Fresh
<1>4. nextToken' \in Tokens
  BY <1>1, BoundsAssumption DEF Tokens
<1>5. TypeOK'
  BY <1>1, <1>2, <1>4 DEF IInv, TypeOK, Insert, Depth
<1>6. ListsSound'
  <2>1. CASE Depth(t) = 0
    <3>1. NobodyDispatches
      BY <2>1, <1>2, QuietWhenLocked
    <3>2. QED
      BY <1>1, <1>2, <1>3, <2>1, <3>1 DEF IInv, ListsSound, Insert, NobodyDispatches, Depth
  <2>2. CASE Depth(t) # 0
    BY <1>1, <1>2, <1>3, <2>2 DEF IInv, ListsSound, Insert, NobodyDispatches, Depth
  <2>3. QED
    BY <2>1, <2>2
<1>7. DispatchesSound'
  <2>1. CASE Depth(t) = 0
    <3>1. NobodyDispatches
      BY <2>1, <1>2, QuietWhenLocked
    <3>2. QED
      BY <1>2, <3>1 DEF DispatchesSound, NobodyDispatches, Depth
  <2>2. CASE Depth(t) # 0
    BY <1>1, <1>2, <2>2 DEF IInv, DispatchesSound, Sound, Insert, Depth
  <2>3. QED
    BY <2>1, <2>2
<1>8. QED
  BY <1>5, <1>6, <1>7 DEF IInv

LEMMA UnsubscribeStep ==
  ASSUME IInv, NEW t \in Threads, NEW token \in Tokens \ handlersToAdd, Unsubscribe(t, token)
  PROVE  IInv'
<1>1. /\ dispatches' = dispatches /\ CanLock(t) /\ nextToken' = nextToken
      /\ token \in subscriptions /\ Erase(t, token)
      /\ subscriptions' = subscriptions \ {token}
      /\ revoked' = revoked \cup {token}
  BY DEF Unsubscribe
<1>2. token \in handlers
  BY <1>1 DEF IInv, ListsSound
<1>3. TypeOK'
  BY <1>1, <1>2 DEF IInv, TypeOK, Erase, Depth
<1>4. CASE Depth(t) = 0
  <2>1. NobodyDispatches
    BY <1>1, <1>4, QuietWhenLocked
  <2>2. ListsSound'
    BY <1>1, <1>2, <1>4, <2>1 DEF IInv, ListsSound, Erase, NobodyDispatches, Depth
  <2>3. DispatchesSound'
    BY <1>1, <2>1 DEF DispatchesSound, NobodyDispatches, Depth
  <2>4. QED
    BY <1>3, <2>2, <2>3 DEF IInv
<1>5. CASE Depth(t) # 0
  <2>1. ListsSound'
    BY <1>1, <1>2, <1>5 DEF IInv, ListsSound, Erase, NobodyDispatches, Depth
  <2>2. DispatchesSound'
    BY <1>1, <1>2, <1>5 DEF IInv, DispatchesSound, Sound, Erase, Depth
  <2>3. QED
    BY <1>3, <2>1, <2>2 DEF IInv
<1>6. QED
  BY <1>4, <1>5

-------------------------------------------------------------------------------
(* The steps that change nothing but the dispatches of one thread. *)

\* Such a step keeps the invariant when it leaves the thread with sound dispatches.
LEMMA DispatchStep ==
  ASSUME IInv, NEW t \in Threads, NEW own,
         dispatches' = [dispatches EXCEPT ![t] = own],
         own \in Seq(Dispatch), \A i \in 1 .. Len(own) : Sound(own[i]),
         Len(own) # 0,
         CanLock(t),
         UNCHANGED <<lists, nextToken, subscriptions, revoked>>
  PROVE  IInv'
<1>1. dispatches'[t] = own /\ \A u \in Threads \ {t} : dispatches'[u] = dispatches[u]
  BY DEF IInv, TypeOK
<1>2. TypeOK'
  BY <1>1 DEF IInv, TypeOK, lists, Depth, CanLock
<1>3. \A d : Sound(d) => Sound(d)'
  BY DEF Sound, lists
<1>4. DispatchesSound'
  BY <1>1, <1>3 DEF IInv, DispatchesSound, Depth
<1>5. ListsSound'
  BY <1>1 DEF IInv, ListsSound, NobodyDispatches, Depth, lists
<1>6. QED
  BY <1>2, <1>4, <1>5 DEF IInv

\* In the thread that dispatches, the others wait.
LEMMA Alone ==
  ASSUME IInv, NEW t \in Threads, Depth(t) > 0
  PROVE  CanLock(t)
BY DEF IInv, TypeOK, CanLock, Depth

LEMMA CurrentSound ==
  ASSUME IInv, NEW t \in Threads, Depth(t) > 0
  PROVE  /\ dispatches[t] \in Seq(Dispatch)
         /\ Depth(t) \in Nat
         /\ Sound(Current(t))
BY DEF IInv, TypeOK, DispatchesSound, Current, Depth

LEMMA RaiseStep ==
  ASSUME IInv, NEW t \in Threads, Raise(t)
  PROVE  IInv'
<1> DEFINE new == [running |-> Idle, called |-> {}, begunWith |-> handlers,
                   silent |-> IF Depth(t) = 0 THEN revoked ELSE {}]
<1> DEFINE own == Append(dispatches[t], new)
<1>1. dispatches' = [dispatches EXCEPT ![t] = own]
  BY DEF Raise, Pushed
<1>2. Sound(new)
  <2>1. Depth(t) = 0 => revoked \cap handlers = {}
    BY QuietWhenLocked DEF Raise, IInv, ListsSound
  <2>2. QED
    BY <2>1 DEF Sound, Dispatch, IInv, TypeOK
<1>3. dispatches[t] \in Seq(Dispatch) /\ new \in Dispatch
  BY <1>2 DEF IInv, TypeOK, Sound
<1>4. \A i \in 1 .. Len(own) : Sound(own[i])
  <2> SUFFICES ASSUME NEW i \in 1 .. Len(own) PROVE Sound(own[i])
    OBVIOUS
  <2> HIDE DEF new
  <2>1. CASE i = Len(dispatches[t]) + 1
    BY <1>2, <1>3, <2>1
  <2>2. CASE i # Len(dispatches[t]) + 1
    <3>1. i \in 1 .. Depth(t) /\ own[i] = dispatches[t][i]
      BY <1>3, <2>2 DEF Depth
    <3>2. QED
      BY <3>1 DEF IInv, DispatchesSound
  <2>3. QED
    BY <2>1, <2>2
<1>5. own \in Seq(Dispatch) /\ Len(own) # 0
  <2> HIDE DEF new
  <2>1. QED
    BY <1>3
<1>6. CanLock(t) /\ UNCHANGED <<lists, nextToken, subscriptions, revoked>>
  BY DEF Raise
<1> HIDE DEF own
<1>7. QED
  BY <1>1, <1>4, <1>5, <1>6, DispatchStep

\* A step inside the current dispatch.
LEMMA CurrentStep ==
  ASSUME IInv, NEW t \in Threads, Depth(t) > 0, NEW new, Sound(new),
         dispatches' = WithCurrent(t, new),
         UNCHANGED <<lists, nextToken, subscriptions, revoked>>
  PROVE  IInv'
<1> DEFINE own == [dispatches[t] EXCEPT ![Depth(t)] = new]
<1>1. dispatches[t] \in Seq(Dispatch) /\ Depth(t) \in Nat /\ new \in Dispatch
  BY CurrentSound DEF Sound
<1>2. dispatches' = [dispatches EXCEPT ![t] = own]
  BY DEF WithCurrent
<1>3. own \in Seq(Dispatch) /\ Len(own) = Depth(t)
  BY <1>1 DEF Depth
<1>4. \A i \in 1 .. Len(own) : Sound(own[i])
  BY <1>1, <1>3 DEF IInv, DispatchesSound, Depth
<1>5. Len(own) # 0
  BY <1>1, <1>3
<1> HIDE DEF own
<1>6. QED
  BY <1>2, <1>3, <1>4, <1>5, Alone, DispatchStep

LEMMA CallStep ==
  ASSUME IInv, NEW t \in Threads, NEW token \in Tokens, Call(t, token)
  PROVE  IInv'
<1> DEFINE new == [Current(t) EXCEPT !.running = token,
                                     !.called = Current(t).called \cup {token}]
<1>1. Sound(new)
  <2>1. Sound(Current(t))
    BY CurrentSound DEF Call
  <2>2. QED
    BY <2>1 DEF Sound, Dispatch, Call
<1>2. dispatches' = WithCurrent(t, new) /\ Depth(t) > 0
      /\ UNCHANGED <<lists, nextToken, subscriptions, revoked>>
  BY DEF Call
<1> HIDE DEF new
<1>3. QED
  BY <1>1, <1>2, CurrentStep

LEMMA ReturnStep ==
  ASSUME IInv, NEW t \in Threads, Return(t)
  PROVE  IInv'
<1> DEFINE new == [Current(t) EXCEPT !.running = Idle]
<1>1. Sound(new)
  <2>1. Sound(Current(t))
    BY CurrentSound DEF Return
  <2>2. QED
    BY <2>1 DEF Sound, Dispatch, Return
<1>2. dispatches' = WithCurrent(t, new) /\ Depth(t) > 0
      /\ UNCHANGED <<lists, nextToken, subscriptions, revoked>>
  BY DEF Return
<1> HIDE DEF new
<1>3. QED
  BY <1>1, <1>2, CurrentStep

LEMMA FinishStep ==
  ASSUME IInv, NEW t \in Threads, Finish(t)
  PROVE  IInv'
<1> DEFINE own == SubSeq(dispatches[t], 1, Len(dispatches[t]) - 1)
<1>1. /\ Depth(t) > 0 /\ dispatches' = [dispatches EXCEPT ![t] = own]
      /\ UNCHANGED <<nextToken, subscriptions, revoked>>
  BY DEF Finish, Popped
<1>2. dispatches[t] \in Seq(Dispatch) /\ Depth(t) \in Nat /\ CanLock(t)
  BY <1>1, CurrentSound, Alone
<1>3. own \in Seq(Dispatch) /\ Len(own) = Depth(t) - 1
      /\ \A i \in 1 .. Len(own) : own[i] = dispatches[t][i]
  BY <1>1, <1>2 DEF Depth
<1>4. CASE Depth(t) = 1
  <2>1. ApplyDeferred
    BY <1>4 DEF Finish
  <2> HIDE DEF own
  <2>2. dispatches'[t] = own /\ \A u \in Threads \ {t} : dispatches'[u] = dispatches[u]
    BY <1>1 DEF IInv, TypeOK
  <2>3. NobodyDispatches'
    BY <2>2, <1>2, <1>3, <1>4 DEF NobodyDispatches, CanLock, Depth
  <2>4. DispatchesSound'
    BY <2>3 DEF DispatchesSound, NobodyDispatches, Depth
  <2>5. TypeOK'
    BY <2>1, <2>2, <2>3, <1>1, <1>3 DEF IInv, TypeOK, ApplyDeferred, NobodyDispatches
  <2>6. ListsSound'
    BY <2>1, <1>1 DEF IInv, ListsSound, ApplyDeferred
  <2>7. QED
    BY <2>4, <2>5, <2>6 DEF IInv
<1>5. CASE Depth(t) # 1
  <2>1. UNCHANGED lists
    BY <1>5 DEF Finish
  <2>2. \A i \in 1 .. Len(own) : Sound(own[i])
    BY <1>1, <1>2, <1>3 DEF IInv, DispatchesSound, Depth
  <2> HIDE DEF own
  <2>3. Len(own) # 0
    BY <1>1, <1>2, <1>3, <1>5 DEF Depth
  <2>4. QED
    BY <1>1, <1>2, <1>3, <2>1, <2>2, <2>3, DispatchStep
<1>6. QED
  BY <1>4, <1>5

LEMMA StutterStep == IInv /\ UNCHANGED vars => IInv'
BY DEF vars, IInv, TypeOK, DispatchesSound, Sound, ListsSound, NobodyDispatches, Depth

LEMMA NextStep == IInv /\ [CautiousNext]_vars => IInv'
<1> SUFFICES ASSUME IInv, [CautiousNext]_vars PROVE IInv'
  OBVIOUS
<1>1. CASE UNCHANGED vars
  BY <1>1, StutterStep
<1>2. ASSUME NEW t \in Threads, Step(t) PROVE IInv'
  <2>1. CASE Subscribe(t)
    BY <2>1, SubscribeStep
  <2>2. CASE Raise(t)
    BY <2>2, RaiseStep
  <2>3. CASE \E token \in Tokens : Call(t, token)
    BY <2>3, CallStep
  <2>4. CASE Return(t)
    BY <2>4, ReturnStep
  <2>5. CASE Finish(t)
    BY <2>5, FinishStep
  <2>6. QED
    BY <1>2, <2>1, <2>2, <2>3, <2>4, <2>5 DEF Step
<1>3. ASSUME NEW t \in Threads, NEW token \in Tokens \ handlersToAdd, Unsubscribe(t, token)
      PROVE  IInv'
  BY <1>3, UnsubscribeStep
<1>4. QED
  BY <1>1, <1>2, <1>3 DEF CautiousNext

THEOREM Invariance == CautiousSpec => []IInv
BY InitIInv, NextStep, PTL DEF CautiousSpec

\* The collection keeps its type, and one thread at a time dispatches.
THEOREM TypeCorrect == CautiousSpec => []TypeOK
<1>1. IInv => TypeOK
  BY DEF IInv
<1>2. QED
  BY <1>1, Invariance, PTL

\* A handler whose subscription was destroyed is not called by a later dispatch.
THEOREM RevokedHandlersStaySilent == CautiousSpec => []RevokedStaysSilent
<1>1. IInv => RevokedStaysSilent
  BY BoundsAssumption DEF IInv, DispatchesSound, Sound, RevokedStaysSilent, Dispatch, Tokens, Idle
<1>2. QED
  BY <1>1, Invariance, PTL

\* Between dispatches the handlers are those the program has subscriptions to.
THEOREM DeferredChangesSettle == CautiousSpec => []SettlesBetweenDispatches
<1>1. IInv => SettlesBetweenDispatches
  BY DEF IInv, ListsSound, SettlesBetweenDispatches, NobodyDispatches
<1>2. QED
  BY <1>1, Invariance, PTL

\* A token is not given out again while a subscription has it.
THEOREM TokensDiffer == CautiousSpec => SubscriptionsDiffer
<1>1. ASSUME IInv, NEW t \in Threads, Subscribe(t)
      PROVE  \E token \in Tokens \ subscriptions : subscriptions' = subscriptions \cup {token}
  <2>1. PICK token \in Tokens : Issued(token) /\ subscriptions' = subscriptions \cup {token}
    BY <1>1 DEF Subscribe
  <2>2. token \notin subscriptions
    BY <1>1, <2>1 DEF Issued, Fresh, IInv, ListsSound
  <2>3. QED
    BY <2>1, <2>2
<1>2. IInv => \A t \in Threads :
                Subscribe(t) => \E token \in Tokens \ subscriptions :
                                  subscriptions' = subscriptions \cup {token}
  BY <1>1
<1>3. QED
  BY <1>2, Invariance, PTL DEF SubscriptionsDiffer

\* A dispatch that ends has called exactly the handlers it began with.
THEOREM DispatchCallsAll == CautiousSpec => CallsAllItBeganWith
<1>1. ASSUME IInv, NEW t \in Threads, Finish(t)
      PROVE  Current(t).called = Current(t).begunWith
  <2>1. Sound(Current(t)) /\ handlers \subseteq Current(t).called
    BY <1>1, CurrentSound DEF Finish
  <2>2. QED
    BY <2>1 DEF Sound
<1>2. IInv => \A t \in Threads : Finish(t) => Current(t).called = Current(t).begunWith
  BY <1>1
<1>3. QED
  BY <1>2, Invariance, PTL DEF CallsAllItBeganWith



-------------------------------------------------------------------------------
(* EventAwaiter *)

Calling == {"unsubscribed", "ready", "waiting", "woken"}
Destroying == {"release", "unsubscribe", "drop", "destroyed"}

AwaiterTypeOK ==
  /\ pc \in Calling \cup Destroying
  /\ body \in [Raisers -> {"out", "turn", "check", "publish", "fire", "hold", "returning"}]
  /\ raised \in Nat /\ firing \in [Raisers -> Nat]
  /\ waitingEvent \in BOOLEAN /\ firedEvent \in BOOLEAN /\ isShuttingDown \in BOOLEAN
  /\ result \in Nat /\ taken \in Nat
  /\ freed \subseteq 1 .. raised
  /\ received \in Seq(1 .. raised)

\* The awaiter is the one handler, and no list is ever deferred for it.
OneHandler ==
  /\ Depth(Caller) = 0
  /\ handlersToAdd = {} /\ handlersToRemove = {}
  /\ \A a, b \in handlers : a = b
  /\ pc = "unsubscribed" => handlers = {}

\* A raiser is in the handler only while its one dispatch runs it, and that is the last firing.
Dispatched(r) ==
  /\ Depth(r) = 0 => body[r] = "out"
  /\ Depth(r) > 0 =>
       /\ Depth(r) = 1 /\ firing[r] = raised /\ raised > 0
       /\ Current(r).running = Idle => body[r] = "out"
       /\ Current(r).called = {} => body[r] = "out"

\* The last firing was handed to nobody.
Unheard ==
  raised \notin freed /\ taken = None /\ \A i \in DOMAIN received : received[i] < raised

NotYetCalled(r) ==
  Depth(r) > 0 /\ (Current(r).called = {} \/ body[r] \in {"turn", "check", "publish", "fire"})

\* How far the last firing is.
Handed ==
  /\ \A r \in Raisers : NotYetCalled(r) => Unheard
  /\ result # None =>
       /\ Unheard /\ result = raised /\ pc \in {"waiting", "woken"}
       /\ \E r \in Raisers : body[r] \in {"fire", "hold"}
  /\ taken # None =>
       /\ taken = raised /\ raised \notin freed
       /\ \E r \in Raisers : body[r] = "hold"

\* The three events, the pointer and the two threads go through a wait together.
InStep ==
  /\ isShuttingDown <=> pc \in Destroying
  /\ pc = "woken" => result # None
  /\ firedEvent => pc = "waiting" /\ result # None
  /\ \A r \in Raisers : body[r] = "fire" => pc = "waiting" /\ result # None /\ ~firedEvent
  /\ \A r \in Raisers : body[r] = "publish" => pc = "waiting" /\ result = None
  /\ \A r \in Raisers : body[r] = "check" => isShuttingDown \/ (pc = "waiting" /\ result = None)
  /\ waitingEvent =>
       \/ isShuttingDown
       \/ /\ pc = "waiting" /\ result = None
          /\ \A r \in Raisers : body[r] \notin {"check", "publish", "fire"}

AwaiterInv ==
  /\ AwaiterTypeOK /\ OneHandler /\ (\A r \in Raisers : Dispatched(r))
  /\ Handed /\ InStep /\ WaitsInOrder

\* Every step of an awaiter, whether the program destroys it with care or not.
AnyStep == RaisersNext \/ WaitNext \/ DestroyNext \/ FreeResult \/ BeginDestroy

LEMMA RaiseView ==
  ASSUME IInv, NEW r \in Threads, Raise(r), Depth(r) = 0
  PROVE  /\ Depth(r)' = 1 /\ Current(r)'.running = Idle /\ Current(r)'.called = {}
         /\ \A u \in Threads : Depth(u) = 0
         /\ \A u \in Threads \ {r} : dispatches'[u] = dispatches[u]
<1> DEFINE new == [running |-> Idle, called |-> {}, begunWith |-> handlers,
                   silent |-> IF Depth(r) = 0 THEN revoked ELSE {}]
<1>1. dispatches[r] = <<>>
  BY DEF IInv, TypeOK, Depth
<1>2. dispatches' = [dispatches EXCEPT ![r] = Append(dispatches[r], new)]
  BY DEF Raise, Pushed
<1>3. new.running = Idle /\ new.called = {}
  OBVIOUS
<1> HIDE DEF new
<1>4. dispatches'[r] = <<new>> /\ \A u \in Threads \ {r} : dispatches'[u] = dispatches[u]
  BY <1>1, <1>2 DEF IInv, TypeOK
<1>5. Depth(r)' = 1 /\ Current(r)' = new
  BY <1>4 DEF Depth, Current
<1>6. \A u \in Threads : Depth(u) = 0
  BY DEF Raise, CanLock
<1> QED
  BY <1>3, <1>4, <1>5, <1>6

LEMMA CurrentView ==
  ASSUME IInv, NEW r \in Threads, Depth(r) = 1, NEW new, dispatches' = WithCurrent(r, new)
  PROVE  /\ Depth(r)' = 1 /\ Current(r)' = new
         /\ \A u \in Threads \ {r} : dispatches'[u] = dispatches[u] /\ Depth(u) = 0
<1>1. dispatches[r] \in Seq(Dispatch) /\ CanLock(r)
  BY CurrentSound, Alone
<1>2. dispatches' = [dispatches EXCEPT ![r] = [dispatches[r] EXCEPT ![1] = new]]
  BY DEF WithCurrent
<1>3. /\ dispatches'[r] = [dispatches[r] EXCEPT ![1] = new]
      /\ \A u \in Threads \ {r} : dispatches'[u] = dispatches[u]
  BY <1>2 DEF IInv, TypeOK
<1>4. Len(dispatches'[r]) = 1 /\ dispatches'[r][1] = new
  BY <1>1, <1>3 DEF Depth
<1> QED
  BY <1>1, <1>3, <1>4 DEF Depth, Current, CanLock

LEMMA FinishView ==
  ASSUME IInv, NEW r \in Threads, Depth(r) = 1, Finish(r)
  PROVE  /\ Depth(r)' = 0
         /\ \A u \in Threads \ {r} : dispatches'[u] = dispatches[u] /\ Depth(u) = 0
<1>1. dispatches[r] \in Seq(Dispatch) /\ CanLock(r)
  BY CurrentSound, Alone
<1>2. dispatches' = [dispatches EXCEPT ![r] = SubSeq(dispatches[r], 1, 0)]
  BY DEF Finish, Popped, Depth
<1>3. dispatches'[r] = SubSeq(dispatches[r], 1, 0)
      /\ \A u \in Threads \ {r} : dispatches'[u] = dispatches[u]
  BY <1>2 DEF IInv, TypeOK
<1>4. Len(dispatches'[r]) = 0
  BY <1>1, <1>3
<1> QED
  BY <1>1, <1>3, <1>4 DEF Depth, CanLock

\* One raiser at most is in the handler: the others wait for the mutex.
LEMMA OneInside ==
  ASSUME IInv, \A r \in Raisers : Dispatched(r), NEW r \in Raisers, NEW s \in Raisers,
         Depth(r) > 0, body[s] # "out"
  PROVE  s = r
<1>1. dispatches[r] \in Seq(Dispatch) /\ dispatches[s] \in Seq(Dispatch)
  BY DEF IInv, TypeOK, Raisers
<1>2. Depth(s) > 0
  BY <1>1 DEF Dispatched, Depth
<1> QED
  BY <1>2 DEF IInv, TypeOK, Raisers

LEMMA Inside ==
  ASSUME IInv, AwaiterInv, NEW r \in Raisers, body[r] # "out"
  PROVE  /\ Depth(r) = 1 /\ firing[r] = raised /\ raised > 0
         /\ Current(r).running # Idle /\ Current(r).called # {}
         /\ \A s \in Raisers : s # r => body[s] = "out"
<1>1. Depth(r) > 0
  BY DEF AwaiterInv, Dispatched, Depth, IInv, TypeOK, Raisers
<1>2. \A s \in Raisers : s # r => body[s] = "out"
  BY <1>1, OneInside DEF AwaiterInv
<1> QED
  BY <1>1, <1>2 DEF AwaiterInv, Dispatched

\* A step of the handler.
LEMMA BodyView ==
  ASSUME IInv, AwaiterInv, NEW r \in Raisers, body[r] # "out",
         NEW b \in {"check", "publish", "fire", "hold", "returning"},
         body' = [body EXCEPT ![r] = b], UNCHANGED <<vars, pc, firing, raised>>
  PROVE  /\ OneHandler' /\ \A s \in Raisers : Dispatched(s)'
         /\ body' \in [Raisers -> {"out", "turn", "check", "publish", "fire", "hold", "returning"}]
         /\ body'[r] = b /\ \A s \in Raisers : s # r => body'[s] = "out"
         /\ \A s \in Raisers : NotYetCalled(s)' => b \in {"check", "publish", "fire"}
<1>1. /\ Depth(r) = 1 /\ firing[r] = raised /\ raised > 0
      /\ Current(r).running # Idle /\ Current(r).called # {}
      /\ \A s \in Raisers : s # r => body[s] = "out"
  BY Inside
<1>2. body \in [Raisers -> {"out", "turn", "check", "publish", "fire", "hold", "returning"}]
  BY DEF AwaiterInv, AwaiterTypeOK
<1>3. body'[r] = b /\ \A s \in Raisers : s # r => body'[s] = "out"
  BY <1>1, <1>2
<1>4. dispatches' = dispatches /\ firing' = firing /\ raised' = raised
  BY DEF vars
<1>5. \A s \in Raisers : s # r => Depth(s) = 0
  BY <1>1, Alone DEF CanLock, Raisers
<1>6. OneHandler'
  BY DEF AwaiterInv, OneHandler, vars, Depth
<1>7. ASSUME NEW s \in Raisers
      PROVE  Dispatched(s)'
  <2>1. CASE s = r
    BY <1>1, <1>3, <1>4, <2>1 DEF Dispatched, Depth, Current
  <2>2. CASE s # r
    BY <1>3, <1>4, <1>5, <2>2 DEF Dispatched, Depth, Current
  <2> QED
    BY <2>1, <2>2
<1>8. ASSUME NEW s \in Raisers, NotYetCalled(s)'
      PROVE  b \in {"check", "publish", "fire"}
  <2>1. Depth(s) > 0 /\ (Current(s).called = {} \/ body'[s] \in {"turn", "check", "publish", "fire"})
    BY <1>4, <1>8 DEF NotYetCalled, Depth, Current
  <2>2. s = r
    BY <1>5, <2>1
  <2> QED
    BY <1>1, <1>3, <2>1, <2>2
<1> QED
  BY <1>2, <1>3, <1>6, <1>7, <1>8

LEMMA TakeTurnKeeps ==
  ASSUME IInv, AwaiterInv, NEW r \in Raisers, TakeTurn(r)
  PROVE  AwaiterInv'
<1>1. /\ OneHandler' /\ \A s \in Raisers : Dispatched(s)'
      /\ body' \in [Raisers -> {"out", "turn", "check", "publish", "fire", "hold", "returning"}]
      /\ body'[r] = "check" /\ \A s \in Raisers : s # r => body'[s] = "out"
  BY BodyView DEF TakeTurn
<1>2. Depth(r) = 1 /\ \A s \in Raisers : s # r => body[s] = "out"
  BY Inside DEF TakeTurn
<1>3. AwaiterTypeOK'
  BY <1>1 DEF AwaiterInv, AwaiterTypeOK, TakeTurn
<1>4. Unheard /\ result = None /\ taken = None
  BY <1>2 DEF AwaiterInv, Handed, Unheard, NotYetCalled, TakeTurn
<1>5. Handed'
  BY <1>4 DEF Handed, Unheard, TakeTurn
<1>6. InStep'
  BY <1>1, <1>2, <1>4 DEF AwaiterInv, InStep, TakeTurn, awaiter
<1>7. WaitsInOrder'
  BY DEF AwaiterInv, WaitsInOrder, TakeTurn
<1> QED
  BY <1>1, <1>3, <1>5, <1>6, <1>7 DEF AwaiterInv

LEMMA CheckShutdownKeeps ==
  ASSUME IInv, AwaiterInv, NEW r \in Raisers, CheckShutdown(r)
  PROVE  AwaiterInv'
<1> DEFINE b == IF isShuttingDown THEN "returning" ELSE "publish"
<1>1. /\ OneHandler' /\ \A s \in Raisers : Dispatched(s)'
      /\ body' \in [Raisers -> {"out", "turn", "check", "publish", "fire", "hold", "returning"}]
      /\ body'[r] = b /\ \A s \in Raisers : s # r => body'[s] = "out"
  BY BodyView DEF CheckShutdown
<1>2. Depth(r) = 1 /\ \A s \in Raisers : s # r => body[s] = "out"
  BY Inside DEF CheckShutdown
<1>3. AwaiterTypeOK'
  BY <1>1 DEF AwaiterInv, AwaiterTypeOK, CheckShutdown, awaiter
<1>4. Unheard /\ result = None /\ taken = None
  BY <1>2 DEF AwaiterInv, Handed, Unheard, NotYetCalled, CheckShutdown
<1>5. Handed'
  BY <1>4 DEF Handed, Unheard, CheckShutdown, awaiter
<1>6. InStep'
  BY <1>1, <1>2, <1>4 DEF AwaiterInv, InStep, CheckShutdown, awaiter
<1>7. WaitsInOrder'
  BY DEF AwaiterInv, WaitsInOrder, CheckShutdown
<1> QED
  BY <1>1, <1>3, <1>5, <1>6, <1>7 DEF AwaiterInv

LEMMA PublishKeeps ==
  ASSUME IInv, AwaiterInv, NEW r \in Raisers, Publish(r)
  PROVE  AwaiterInv'
<1>1. /\ OneHandler' /\ \A s \in Raisers : Dispatched(s)'
      /\ body' \in [Raisers -> {"out", "turn", "check", "publish", "fire", "hold", "returning"}]
      /\ body'[r] = "fire" /\ \A s \in Raisers : s # r => body'[s] = "out"
  BY BodyView DEF Publish
<1>2. /\ Depth(r) = 1 /\ \A s \in Raisers : s # r => body[s] = "out"
      /\ firing[r] = raised /\ raised > 0
  BY Inside DEF Publish
<1>3. Unheard /\ result = None /\ taken = None
  BY <1>2 DEF AwaiterInv, Handed, Unheard, NotYetCalled, Publish
<1>4. freed' = freed /\ result' = raised
  BY <1>2, <1>3 DEF Publish
<1>5. AwaiterTypeOK'
  BY <1>1, <1>4 DEF AwaiterInv, AwaiterTypeOK, Publish
<1>6. Handed'
  BY <1>1, <1>3, <1>4 DEF AwaiterInv, InStep, Handed, Unheard, Publish
<1>7. InStep'
  BY <1>1, <1>2, <1>3, <1>4 DEF AwaiterInv, InStep, Publish, None
<1>8. WaitsInOrder'
  BY DEF AwaiterInv, WaitsInOrder, Publish
<1> QED
  BY <1>1, <1>5, <1>6, <1>7, <1>8 DEF AwaiterInv

LEMMA FireKeeps ==
  ASSUME IInv, AwaiterInv, NEW r \in Raisers, Fire(r)
  PROVE  AwaiterInv'
<1>1. /\ OneHandler' /\ \A s \in Raisers : Dispatched(s)'
      /\ body' \in [Raisers -> {"out", "turn", "check", "publish", "fire", "hold", "returning"}]
      /\ body'[r] = "hold" /\ \A s \in Raisers : s # r => body'[s] = "out"
      /\ \A s \in Raisers : ~NotYetCalled(s)'
  BY BodyView DEF Fire
<1>2. \A s \in Raisers : s # r => body[s] = "out"
  BY Inside DEF Fire
<1>3. AwaiterTypeOK'
  BY <1>1 DEF AwaiterInv, AwaiterTypeOK, Fire
<1>4. Handed'
  BY <1>1 DEF AwaiterInv, Handed, Unheard, Fire
<1>5. InStep'
  BY <1>1, <1>2 DEF AwaiterInv, InStep, Fire
<1>6. WaitsInOrder'
  BY DEF AwaiterInv, WaitsInOrder, Fire
<1> QED
  BY <1>1, <1>3, <1>4, <1>5, <1>6 DEF AwaiterInv

\* Who leaves the handler has been freed: it is not what the program holds.
LEMMA HoldKeeps ==
  ASSUME IInv, AwaiterInv, NEW r \in Raisers, Hold(r)
  PROVE  AwaiterInv'
<1>1. /\ OneHandler' /\ \A s \in Raisers : Dispatched(s)'
      /\ body' \in [Raisers -> {"out", "turn", "check", "publish", "fire", "hold", "returning"}]
      /\ body'[r] = "returning" /\ \A s \in Raisers : s # r => body'[s] = "out"
      /\ \A s \in Raisers : ~NotYetCalled(s)'
  BY BodyView DEF Hold
<1>2. firing[r] = raised /\ \A s \in Raisers : s # r => body[s] = "out"
  BY Inside DEF Hold
<1>3. AwaiterTypeOK'
  BY <1>1 DEF AwaiterInv, AwaiterTypeOK, Hold, awaiter
<1>4. raised \in freed
  BY <1>2 DEF Hold, ResultFreed
<1>5. result = None /\ taken = None
  BY <1>4 DEF AwaiterInv, Handed, Unheard
<1>6. Handed'
  BY <1>1, <1>5 DEF Handed, Hold, awaiter
<1>7. InStep'
  BY <1>1, <1>2 DEF AwaiterInv, InStep, Hold, awaiter
<1>8. WaitsInOrder'
  BY DEF AwaiterInv, WaitsInOrder, Hold
<1> QED
  BY <1>1, <1>3, <1>6, <1>7, <1>8 DEF AwaiterInv

LEMMA RaiseEventKeeps ==
  ASSUME IInv, AwaiterInv, NEW r \in Raisers, RaiseEvent(r)
  PROVE  AwaiterInv'
<1>1. /\ Depth(r)' = 1 /\ Current(r)'.running = Idle /\ Current(r)'.called = {}
      /\ \A u \in Threads : Depth(u) = 0
      /\ \A u \in Threads \ {r} : dispatches'[u] = dispatches[u]
  BY RaiseView DEF RaiseEvent, Raisers
<1>2. \A s \in Raisers : body[s] = "out"
  BY <1>1 DEF AwaiterInv, Dispatched, Raisers
<1>3. result = None /\ taken = None
  BY <1>2 DEF AwaiterInv, Handed
<1>4. raised' = raised + 1 /\ raised \in Nat /\ firing'[r] = raised'
  BY DEF AwaiterInv, AwaiterTypeOK, RaiseEvent
<1>5. /\ body' = body /\ UNCHANGED <<pc, awaiter, taken, freed, received>>
      /\ UNCHANGED <<handlers, handlersToAdd, handlersToRemove>>
  BY DEF RaiseEvent, Raise, lists
<1>6. AwaiterTypeOK'
  <2>1. freed \subseteq 1 .. raised' /\ received \in Seq(1 .. raised')
    <3>1. 1 .. raised \subseteq 1 .. raised'
      BY <1>4
    <3>2. freed \subseteq 1 .. raised /\ received \in Seq(1 .. raised)
      BY DEF AwaiterInv, AwaiterTypeOK
    <3> DEFINE before == 1 .. raised
               after == 1 .. raised'
    <3> HIDE DEF before, after
    <3>3. received \in Seq(before) /\ before \subseteq after => received \in Seq(after)
      OBVIOUS
    <3> QED
      BY <3>1, <3>2, <3>3 DEF before, after
  <2>2. firing' \in [Raisers -> Nat] /\ raised' \in Nat
    BY <1>4 DEF AwaiterInv, AwaiterTypeOK, RaiseEvent
  <2> QED
    BY <1>5, <2>1, <2>2 DEF AwaiterInv, AwaiterTypeOK, awaiter
<1>7. OneHandler'
  BY <1>1, <1>5, AwaiterAssumption DEF AwaiterInv, OneHandler, Depth, Raisers
<1>8. ASSUME NEW s \in Raisers
      PROVE  Dispatched(s)'
  <2>1. CASE s = r
    BY <1>1, <1>2, <1>4, <1>5, <2>1 DEF Dispatched, Depth, Current
  <2>2. CASE s # r
    BY <1>1, <1>2, <1>5, <2>2 DEF Dispatched, Depth, Raisers
  <2> QED
    BY <2>1, <2>2
<1>9. Unheard'
  <2>1. raised' \notin freed
    BY <1>4 DEF AwaiterInv, AwaiterTypeOK
  <2>2. ASSUME NEW i \in DOMAIN received
        PROVE  received[i] < raised'
    BY <1>4 DEF AwaiterInv, AwaiterTypeOK
  <2> QED
    BY <1>3, <1>5, <2>1, <2>2 DEF Unheard
<1>10. Handed'
  BY <1>3, <1>5, <1>9 DEF Handed, awaiter
<1>11. InStep'
  BY <1>5 DEF AwaiterInv, InStep, awaiter
<1>12. WaitsInOrder'
  BY <1>5 DEF AwaiterInv, WaitsInOrder
<1> QED
  BY <1>6, <1>7, <1>8, <1>10, <1>11, <1>12 DEF AwaiterInv

\* There is one handler: the dispatch that calls it had not called it yet.
LEMMA CallHandlerKeeps ==
  ASSUME IInv, AwaiterInv, NEW r \in Raisers, CallHandler(r)
  PROVE  AwaiterInv'
<1>1. PICK token \in Tokens : Call(r, token)
  BY DEF CallHandler
<1> DEFINE new == [Current(r) EXCEPT !.running = token, !.called = Current(r).called \cup {token}]
<1>2. Depth(r) > 0 /\ Current(r).running = Idle /\ token \in handlers \ Current(r).called
      /\ dispatches' = WithCurrent(r, new) /\ r \in Threads
  BY <1>1 DEF Call, Raisers
<1>3. Depth(r) = 1 /\ firing[r] = raised /\ raised > 0 /\ body[r] = "out"
  BY <1>2 DEF AwaiterInv, Dispatched
<1>4. Sound(Current(r))
  BY <1>2, CurrentSound
<1>5. new.running = token /\ new.called = Current(r).called \cup {token}
  BY <1>4 DEF Sound, Dispatch
<1>6. Current(r).called = {}
  BY <1>2, <1>4 DEF Sound, AwaiterInv, OneHandler
<1>7. NotYetCalled(r)
  BY <1>2, <1>6 DEF NotYetCalled
<1>8. token # Idle
  BY BoundsAssumption DEF Tokens, Idle
<1> HIDE DEF new
<1>9. /\ Depth(r)' = 1 /\ Current(r)' = new
      /\ \A u \in Threads \ {r} : dispatches'[u] = dispatches[u] /\ Depth(u) = 0
  BY <1>2, <1>3, CurrentView
<1>10. body' = [body EXCEPT ![r] = "turn"]
       /\ UNCHANGED <<pc, raised, firing, awaiter, taken, freed, received>>
       /\ UNCHANGED <<handlers, handlersToAdd, handlersToRemove>>
  BY <1>1 DEF CallHandler, Call, lists
<1>11. body \in [Raisers -> {"out", "turn", "check", "publish", "fire", "hold", "returning"}]
  BY DEF AwaiterInv, AwaiterTypeOK
<1>12. \A s \in Raisers : s # r => body[s] = "out"
  BY <1>2, OneInside DEF AwaiterInv
<1>13. body'[r] = "turn" /\ \A s \in Raisers : s # r => body'[s] = "out"
  BY <1>10, <1>11, <1>12
<1>14. AwaiterTypeOK'
  BY <1>10, <1>11 DEF AwaiterInv, AwaiterTypeOK, awaiter
<1>15. OneHandler'
  BY <1>9, <1>10, AwaiterAssumption DEF AwaiterInv, OneHandler, Depth, Raisers
<1>16. ASSUME NEW s \in Raisers
       PROVE  Dispatched(s)'
  <2>1. CASE s = r
    BY <1>3, <1>5, <1>8, <1>9, <1>10, <2>1 DEF Dispatched
  <2>2. CASE s # r
    BY <1>9, <1>13, <2>2 DEF Dispatched, Depth, Raisers
  <2> QED
    BY <2>1, <2>2
<1>17. Unheard /\ result = None /\ taken = None
  BY <1>3, <1>7, <1>12 DEF AwaiterInv, Handed, Unheard
<1>18. Handed'
  BY <1>10, <1>17 DEF Handed, Unheard, awaiter
<1>19. InStep'
  BY <1>10, <1>13 DEF AwaiterInv, InStep, awaiter
<1>20. WaitsInOrder'
  BY <1>10 DEF AwaiterInv, WaitsInOrder
<1> QED
  BY <1>14, <1>15, <1>16, <1>18, <1>19, <1>20 DEF AwaiterInv

LEMMA ReturnHandlerKeeps ==
  ASSUME IInv, AwaiterInv, NEW r \in Raisers, ReturnHandler(r)
  PROVE  AwaiterInv'
<1> DEFINE new == [Current(r) EXCEPT !.running = Idle]
<1>1. Depth(r) > 0 /\ dispatches' = WithCurrent(r, new) /\ r \in Threads
  BY DEF ReturnHandler, Return, Raisers
<1>2. /\ Depth(r) = 1 /\ firing[r] = raised /\ raised > 0
      /\ Current(r).running # Idle /\ Current(r).called # {}
      /\ \A s \in Raisers : s # r => body[s] = "out"
  BY Inside DEF ReturnHandler
<1>3. new.called = Current(r).called
  <2>1. Sound(Current(r))
    BY <1>1, CurrentSound
  <2> QED
    BY <2>1 DEF Sound, Dispatch
<1> HIDE DEF new
<1>4. /\ Depth(r)' = 1 /\ Current(r)' = new
      /\ \A u \in Threads \ {r} : dispatches'[u] = dispatches[u] /\ Depth(u) = 0
  BY <1>1, <1>2, CurrentView
<1>5. body[r] = "returning" /\ body' = [body EXCEPT ![r] = "out"]
       /\ UNCHANGED <<pc, raised, firing, awaiter, taken, freed, received>>
       /\ UNCHANGED <<handlers, handlersToAdd, handlersToRemove>>
  BY DEF ReturnHandler, Return, lists
<1>6. body \in [Raisers -> {"out", "turn", "check", "publish", "fire", "hold", "returning"}]
  BY DEF AwaiterInv, AwaiterTypeOK
<1>7. \A s \in Raisers : body'[s] = "out"
  BY <1>2, <1>5, <1>6
<1>8. AwaiterTypeOK'
  BY <1>5, <1>6 DEF AwaiterInv, AwaiterTypeOK, awaiter
<1>9. OneHandler'
  BY <1>4, <1>5, AwaiterAssumption DEF AwaiterInv, OneHandler, Depth, Raisers
<1>10. ASSUME NEW s \in Raisers
       PROVE  Dispatched(s)' /\ ~NotYetCalled(s)'
  <2>1. CASE s = r
    BY <1>2, <1>3, <1>4, <1>5, <1>7, <2>1 DEF Dispatched, NotYetCalled
  <2>2. CASE s # r
    BY <1>4, <1>7, <2>2 DEF Dispatched, NotYetCalled, Depth, Raisers
  <2> QED
    BY <2>1, <2>2
<1>11. result = None /\ taken = None
  BY <1>2, <1>5 DEF AwaiterInv, Handed
<1>12. Handed'
  BY <1>5, <1>10, <1>11 DEF Handed, awaiter
<1>13. InStep'
  BY <1>5, <1>7 DEF AwaiterInv, InStep, awaiter
<1>14. WaitsInOrder'
  BY <1>5 DEF AwaiterInv, WaitsInOrder
<1> QED
  BY <1>8, <1>9, <1>10, <1>12, <1>13, <1>14 DEF AwaiterInv

LEMMA FinishRaiseKeeps ==
  ASSUME IInv, AwaiterInv, NEW r \in Raisers, FinishRaise(r)
  PROVE  AwaiterInv'
<1>1. Depth(r) > 0 /\ Current(r).running = Idle /\ r \in Threads
  BY DEF FinishRaise, Finish, Raisers
<1>2. Depth(r) = 1 /\ body[r] = "out"
  BY <1>1 DEF AwaiterInv, Dispatched
<1>3. /\ Depth(r)' = 0
      /\ \A u \in Threads \ {r} : dispatches'[u] = dispatches[u] /\ Depth(u) = 0
  BY <1>1, <1>2, FinishView DEF FinishRaise
<1>4. UNCHANGED <<pc, body, raised, firing, awaiter, taken, freed, received>>
  BY DEF FinishRaise
<1>5. UNCHANGED <<handlers, handlersToAdd, handlersToRemove>>
  BY <1>2 DEF AwaiterInv, OneHandler, FinishRaise, Finish, ApplyDeferred
<1>6. AwaiterTypeOK'
  BY <1>4 DEF AwaiterInv, AwaiterTypeOK, awaiter
<1>7. OneHandler'
  BY <1>3, <1>4, <1>5, AwaiterAssumption DEF AwaiterInv, OneHandler, Depth, Raisers
<1>8. \A s \in Raisers : body[s] = "out"
  BY <1>1, <1>2, OneInside DEF AwaiterInv
<1>9. ASSUME NEW s \in Raisers
      PROVE  Dispatched(s)' /\ ~NotYetCalled(s)'
  <2>1. CASE s = r
    BY <1>3, <1>4, <1>8, <2>1 DEF Dispatched, NotYetCalled
  <2>2. CASE s # r
    BY <1>3, <1>4, <1>8, <2>2 DEF Dispatched, NotYetCalled, Depth, Raisers
  <2> QED
    BY <2>1, <2>2
<1>10. Handed'
  BY <1>4, <1>8, <1>9 DEF AwaiterInv, Handed, awaiter
<1>11. InStep'
  BY <1>4 DEF AwaiterInv, InStep, awaiter
<1>12. WaitsInOrder'
  BY <1>4 DEF AwaiterInv, WaitsInOrder
<1> QED
  BY <1>6, <1>7, <1>9, <1>10, <1>11, <1>12 DEF AwaiterInv

\* A step of the caller that leaves the handlers alone.
LEMMA CallerView ==
  ASSUME AwaiterInv, pc' # "unsubscribed", UNCHANGED <<vars, body, raised, firing>>
  PROVE  /\ OneHandler' /\ \A s \in Raisers : Dispatched(s)'
         /\ \A s \in Raisers : NotYetCalled(s)' => NotYetCalled(s)
<1>1. UNCHANGED <<handlers, handlersToAdd, handlersToRemove, dispatches>>
  BY DEF vars
<1> QED
  BY <1>1 DEF AwaiterInv, OneHandler, Dispatched, NotYetCalled, Depth, Current

LEMMA ConstructKeeps ==
  ASSUME IInv, AwaiterInv, Construct
  PROVE  AwaiterInv'
<1>1. Subscribe(Caller) /\ pc = "unsubscribed" /\ pc' = "ready"
      /\ UNCHANGED <<round, body, raised, firing, awaiter, taken, freed, received>>
  BY DEF Construct
<1>2. Depth(Caller) = 0 /\ handlers = {}
  BY <1>1 DEF AwaiterInv, OneHandler
<1>3. PICK token \in Tokens : Insert(Caller, token)
  BY <1>1 DEF Subscribe
<1>4. handlers' = {token} /\ UNCHANGED <<handlersToAdd, handlersToRemove, dispatches>>
  BY <1>1, <1>2, <1>3 DEF Insert, Subscribe
<1>5. OneHandler'
  BY <1>1, <1>4 DEF AwaiterInv, OneHandler, Depth
<1>6. \A s \in Raisers : Dispatched(s)' /\ (NotYetCalled(s)' => NotYetCalled(s))
  BY <1>1, <1>4 DEF AwaiterInv, Dispatched, NotYetCalled, Depth, Current
<1>7. AwaiterTypeOK'
  BY <1>1 DEF AwaiterInv, AwaiterTypeOK, awaiter, Calling
<1>8. result = None
  BY <1>1 DEF AwaiterInv, Handed
<1>9. Handed'
  BY <1>1, <1>6, <1>8 DEF AwaiterInv, Handed, Unheard, awaiter
<1>10. InStep'
  BY <1>1 DEF AwaiterInv, InStep, awaiter, Destroying
<1>11. WaitsInOrder'
  BY <1>1 DEF AwaiterInv, WaitsInOrder
<1> QED
  BY <1>5, <1>6, <1>7, <1>9, <1>10, <1>11 DEF AwaiterInv

LEMMA BeginWaitKeeps ==
  ASSUME IInv, AwaiterInv, BeginWait
  PROVE  AwaiterInv'
<1>1. /\ OneHandler' /\ \A s \in Raisers : Dispatched(s)'
      /\ \A s \in Raisers : NotYetCalled(s)' => NotYetCalled(s)
  BY CallerView DEF BeginWait
<1>2. AwaiterTypeOK'
  BY DEF AwaiterInv, AwaiterTypeOK, BeginWait, Calling
<1>3. result = None
  BY DEF AwaiterInv, Handed, BeginWait
<1>4. Handed'
  BY <1>1, <1>3 DEF AwaiterInv, Handed, Unheard, BeginWait
<1>5. InStep'
  BY <1>3 DEF AwaiterInv, InStep, BeginWait, Destroying
<1>6. WaitsInOrder'
  BY DEF AwaiterInv, WaitsInOrder, BeginWait
<1> QED
  BY <1>1, <1>2, <1>4, <1>5, <1>6 DEF AwaiterInv

LEMMA WakeUpKeeps ==
  ASSUME IInv, AwaiterInv, WakeUp
  PROVE  AwaiterInv'
<1>1. /\ OneHandler' /\ \A s \in Raisers : Dispatched(s)'
      /\ \A s \in Raisers : NotYetCalled(s)' => NotYetCalled(s)
  BY CallerView DEF WakeUp
<1>2. AwaiterTypeOK'
  BY DEF AwaiterInv, AwaiterTypeOK, WakeUp, AutoReset, Calling
<1>3. result # None
  BY DEF AwaiterInv, InStep, WakeUp
<1>4. Handed'
  BY <1>1 DEF AwaiterInv, Handed, Unheard, WakeUp
<1>5. InStep'
  BY <1>3 DEF AwaiterInv, InStep, WakeUp, AutoReset, Destroying
<1>6. WaitsInOrder'
  BY DEF AwaiterInv, WaitsInOrder, WakeUp
<1> QED
  BY <1>1, <1>2, <1>4, <1>5, <1>6 DEF AwaiterInv

\* What wait() returns is the last firing, whose raiser holds its arguments.
LEMMA EndWaitKeeps ==
  ASSUME IInv, AwaiterInv, EndWait
  PROVE  AwaiterInv'
<1>1. /\ OneHandler' /\ \A s \in Raisers : Dispatched(s)'
      /\ \A s \in Raisers : NotYetCalled(s)' => NotYetCalled(s)
  BY CallerView DEF EndWait
<1>2. /\ Unheard /\ result = raised /\ result # None
      /\ \E r \in Raisers : body[r] = "hold"
  BY DEF AwaiterInv, InStep, Handed, EndWait
<1>3. raised \in Nat /\ raised > 0 /\ received \in Seq(1 .. raised)
  BY <1>2 DEF AwaiterInv, AwaiterTypeOK, None
<1>4. received' = Append(received, raised)
  BY <1>2 DEF EndWait
<1>5. /\ received' \in Seq(1 .. raised) /\ DOMAIN received' = 1 .. Len(received) + 1
      /\ received'[Len(received) + 1] = raised
      /\ \A i \in DOMAIN received : received'[i] = received[i]
      /\ DOMAIN received = 1 .. Len(received) /\ Len(received) \in Nat
  <2>1. raised \in 1 .. raised
    BY <1>3
  <2> DEFINE numbers == 1 .. raised
  <2> HIDE DEF numbers
  <2>2. received \in Seq(numbers) /\ raised \in numbers
    BY <1>3, <2>1 DEF numbers
  <2>3. /\ received' \in Seq(numbers) /\ Len(received') = Len(received) + 1
        /\ Len(received) \in Nat
        /\ received'[Len(received) + 1] = raised
        /\ \A i \in 1 .. Len(received) : received'[i] = received[i]
    BY <1>4, <2>2, AppendProperties
  <2>4. DOMAIN received = 1 .. Len(received) /\ DOMAIN received' = 1 .. Len(received')
    BY <2>2, <2>3
  <2>5. received' \in Seq(1 .. raised)
    BY <2>3 DEF numbers
  <2> QED
    BY <2>3, <2>4, <2>5
<1>6. AwaiterTypeOK'
  BY <1>5 DEF AwaiterInv, AwaiterTypeOK, EndWait, Calling, None
<1>7. \A s \in Raisers : ~NotYetCalled(s)
  <2>1. PICK r \in Raisers : body[r] = "hold"
    BY <1>2
  <2>2. Current(r).called # {} /\ Depth(r) = 1 /\ \A s \in Raisers : s # r => body[s] = "out"
    BY <2>1, Inside
  <2>3. \A s \in Raisers : s # r => ~(Depth(s) > 0)
    BY <2>1, <2>2, OneInside DEF AwaiterInv
  <2> QED
    BY <2>1, <2>2, <2>3 DEF NotYetCalled
<1>8. Handed'
  BY <1>1, <1>2, <1>7 DEF AwaiterInv, Handed, Unheard, EndWait, None
<1>9. InStep'
  BY DEF AwaiterInv, InStep, EndWait, Destroying
<1>10. WaitsInOrder'
  <2> SUFFICES ASSUME NEW i \in DOMAIN received'
               PROVE  received'[i] # None /\ \A j \in 1 .. i - 1 : received'[j] < received'[i]
    BY DEF WaitsInOrder
  <2>1. CASE i \in DOMAIN received
    BY <1>5, <2>1 DEF AwaiterInv, WaitsInOrder
  <2>2. CASE i = Len(received) + 1
    BY <1>2, <1>5, <2>2 DEF Unheard
  <2> QED
    BY <1>5, <2>1, <2>2
<1> QED
  BY <1>1, <1>6, <1>8, <1>9, <1>10 DEF AwaiterInv

LEMMA FreeResultKeeps ==
  ASSUME IInv, AwaiterInv, FreeResult
  PROVE  AwaiterInv'
<1>1. /\ OneHandler' /\ \A s \in Raisers : Dispatched(s)'
      /\ \A s \in Raisers : NotYetCalled(s)' => NotYetCalled(s)
  BY CallerView DEF FreeResult, AwaiterInv, OneHandler
<1>2. taken = raised /\ taken # None
  BY DEF AwaiterInv, Handed, FreeResult
<1>3. raised \in 1 .. raised
  BY <1>2 DEF AwaiterInv, AwaiterTypeOK, None
<1>4. AwaiterTypeOK'
  BY <1>2, <1>3 DEF AwaiterInv, AwaiterTypeOK, FreeResult, awaiter, None
<1>5. \A s \in Raisers : ~NotYetCalled(s)
  BY <1>2 DEF AwaiterInv, Handed, Unheard
<1>6. result = None
  BY <1>2 DEF AwaiterInv, Handed, Unheard
<1>7. Handed'
  BY <1>1, <1>5, <1>6 DEF Handed, FreeResult, awaiter
<1>8. InStep'
  BY DEF AwaiterInv, InStep, FreeResult, awaiter
<1>9. WaitsInOrder'
  BY DEF AwaiterInv, WaitsInOrder, FreeResult
<1> QED
  BY <1>1, <1>4, <1>7, <1>8, <1>9 DEF AwaiterInv

LEMMA DestroyKeeps ==
  ASSUME IInv, AwaiterInv, BeginDestroy \/ Release \/ EndDestroy
  PROVE  AwaiterInv'
<1> USE DEF BeginDestroy, ShutDown, Release, ReleaseHandler, EndDestroy
<1>1. /\ OneHandler' /\ \A s \in Raisers : Dispatched(s)'
      /\ \A s \in Raisers : NotYetCalled(s)' => NotYetCalled(s)
  <2>1. pc' # "unsubscribed" /\ UNCHANGED <<vars, body, raised, firing>>
    OBVIOUS
  <2> QED
    BY <2>1, CallerView
<1>2. result = None /\ result' = None /\ freed' = freed /\ UNCHANGED <<raised, firing, body, taken, received>>
  BY DEF AwaiterInv, Handed
<1>3. AwaiterTypeOK'
  BY <1>2 DEF AwaiterInv, AwaiterTypeOK, Destroying, None
<1>4. Handed'
  BY <1>1, <1>2 DEF AwaiterInv, Handed, Unheard
<1>5. InStep'
  BY <1>2 DEF AwaiterInv, InStep, Destroying
<1>6. WaitsInOrder'
  BY DEF AwaiterInv, WaitsInOrder
<1> QED
  BY <1>1, <1>3, <1>4, <1>5, <1>6 DEF AwaiterInv

LEMMA RevokeKeeps ==
  ASSUME IInv, AwaiterInv, Revoke
  PROVE  AwaiterInv'
<1>1. PICK token \in subscriptions : Unsubscribe(Caller, token)
  BY DEF Revoke
<1>2. pc = "unsubscribe" /\ pc' = "drop"
      /\ UNCHANGED <<round, body, raised, firing, awaiter, taken, freed, received>>
  BY DEF Revoke
<1>3. Depth(Caller) = 0
  BY DEF AwaiterInv, OneHandler
<1>4. handlers' \subseteq handlers /\ UNCHANGED <<handlersToAdd, handlersToRemove, dispatches>>
  BY <1>1, <1>3 DEF Unsubscribe, Erase, lists
<1>5. OneHandler'
  BY <1>2, <1>4 DEF AwaiterInv, OneHandler, Depth
<1>6. \A s \in Raisers : Dispatched(s)' /\ (NotYetCalled(s)' => NotYetCalled(s))
  BY <1>2, <1>4 DEF AwaiterInv, Dispatched, NotYetCalled, Depth, Current
<1>7. AwaiterTypeOK'
  BY <1>2 DEF AwaiterInv, AwaiterTypeOK, awaiter, Destroying
<1>8. result = None
  BY <1>2 DEF AwaiterInv, Handed
<1>9. Handed'
  BY <1>2, <1>6, <1>8 DEF AwaiterInv, Handed, Unheard, awaiter
<1>10. InStep'
  BY <1>2 DEF AwaiterInv, InStep, awaiter, Destroying
<1>11. WaitsInOrder'
  BY <1>2 DEF AwaiterInv, WaitsInOrder
<1> QED
  BY <1>5, <1>6, <1>7, <1>9, <1>10, <1>11 DEF AwaiterInv

-------------------------------------------------------------------------------
(* The invariant *)

LEMMA InitAwaiterInv == InitAwaiter => IInv /\ AwaiterInv
<1> SUFFICES ASSUME InitAwaiter
             PROVE  IInv /\ AwaiterInv
  OBVIOUS
<1>1. Init
  BY DEF InitAwaiter, FreshAwaiter
<1>2. /\ pc = "unsubscribed" /\ body = [r \in Raisers |-> "out"] /\ raised = 0
      /\ firing = [r \in Raisers |-> 0] /\ waitingEvent = FALSE /\ firedEvent = FALSE
      /\ result = 0 /\ taken = 0 /\ freed = {} /\ isShuttingDown = FALSE /\ received = <<>>
  BY DEF InitAwaiter, FreshAwaiter, None
<1>3. \A t \in Threads : Depth(t) = 0
  BY <1>1 DEF Init, Depth
<1>4. AwaiterTypeOK
  <2>1. received \in Seq(1 .. raised)
    BY <1>2
  <2>2. /\ pc \in Calling /\ raised \in Nat /\ firing \in [Raisers -> Nat]
        /\ body \in [Raisers -> {"out", "turn", "check", "publish", "fire", "hold", "returning"}]
    BY <1>2 DEF Calling
  <2> QED
    BY <1>2, <2>1, <2>2 DEF AwaiterTypeOK
<1>5. OneHandler
  BY <1>1, <1>3, AwaiterAssumption DEF Init, OneHandler
<1>6. ASSUME NEW r \in Raisers
      PROVE  Dispatched(r) /\ ~NotYetCalled(r)
  <2>1. Depth(r) = 0 /\ body[r] = "out"
    BY <1>2, <1>3 DEF Raisers
  <2> QED
    BY <2>1 DEF Dispatched, NotYetCalled
<1>7. Handed
  BY <1>2, <1>6 DEF Handed, None
<1>8. InStep
  BY <1>2 DEF InStep, Destroying
<1>9. WaitsInOrder
  BY <1>2 DEF WaitsInOrder
<1> QED
  BY <1>1, <1>4, <1>5, <1>6, <1>7, <1>8, <1>9, InitIInv DEF AwaiterInv

\* To the handlers, the threads of an awaiter are a program that is cautious.
LEMMA AwaiterIsCautious == IInv /\ AwaiterInv /\ [AnyStep]_awaiterVars => [CautiousNext]_vars
<1> SUFFICES ASSUME IInv, AwaiterInv, [AnyStep]_awaiterVars
             PROVE  [CautiousNext]_vars
  OBVIOUS
<1>1. CASE UNCHANGED awaiterVars
  BY <1>1 DEF awaiterVars
<1>2. ASSUME NEW r \in Raisers, RaiseEvent(r) \/ RaiserNext(r)
      PROVE  [CautiousNext]_vars
  <2>1. r \in Threads
    BY DEF Raisers
  <2>2. Step(r) \/ UNCHANGED vars
    BY <1>2 DEF RaiseEvent, RaiserNext, InHandler, CallHandler, TakeTurn, CheckShutdown, Publish,
         Fire, Hold, ReturnHandler, FinishRaise, Step
  <2> QED
    BY <2>1, <2>2 DEF CautiousNext
<1>3. CASE Construct
  BY <1>3, AwaiterAssumption DEF Construct, Step, CautiousNext
<1>4. CASE Revoke
  <2>1. PICK token \in subscriptions : Unsubscribe(Caller, token)
    BY <1>4 DEF Revoke
  <2>2. token \in Tokens \ handlersToAdd
    BY DEF IInv, TypeOK, AwaiterInv, OneHandler
  <2> QED
    BY <2>1, <2>2, AwaiterAssumption DEF CautiousNext
<1>5. CASE BeginWait \/ WakeUp \/ EndWait \/ FreeResult \/ BeginDestroy \/ Release \/ EndDestroy
  BY <1>5 DEF BeginWait, WakeUp, EndWait, FreeResult, BeginDestroy, Release, EndDestroy
<1> QED
  BY <1>1, <1>2, <1>3, <1>4, <1>5 DEF AnyStep, RaisersNext, WaitNext, DestroyNext

LEMMA NextAwaiter == IInv /\ AwaiterInv /\ [AnyStep]_awaiterVars => IInv' /\ AwaiterInv'
<1> SUFFICES ASSUME IInv, AwaiterInv, [AnyStep]_awaiterVars
             PROVE  IInv' /\ AwaiterInv'
  OBVIOUS
<1>1. IInv'
  BY AwaiterIsCautious, NextStep
<1>2. CASE UNCHANGED awaiterVars
  <2>1. UNCHANGED <<handlers, handlersToAdd, handlersToRemove, dispatches, pc, body, raised, firing,
                    awaiter, taken, freed, received>>
    BY <1>2 DEF awaiterVars, vars
  <2>2. AwaiterTypeOK' /\ WaitsInOrder'
    BY <2>1 DEF AwaiterInv, AwaiterTypeOK, WaitsInOrder, awaiter
  <2>3. OneHandler' /\ \A s \in Raisers : Dispatched(s)' /\ (NotYetCalled(s)' => NotYetCalled(s))
    BY <1>2, <2>1 DEF AwaiterInv, OneHandler, Dispatched, NotYetCalled, Depth, Current, awaiterVars
  <2>4. Handed'
    BY <2>1, <2>3 DEF AwaiterInv, Handed, Unheard, awaiter
  <2>5. InStep'
    BY <2>1 DEF AwaiterInv, InStep, awaiter
  <2> QED
    BY <1>1, <2>2, <2>3, <2>4, <2>5 DEF AwaiterInv
<1>3. ASSUME NEW r \in Raisers, RaiseEvent(r) \/ RaiserNext(r)
      PROVE  AwaiterInv'
  BY <1>3, RaiseEventKeeps, CallHandlerKeeps, TakeTurnKeeps, CheckShutdownKeeps, PublishKeeps,
     FireKeeps, HoldKeeps, ReturnHandlerKeeps, FinishRaiseKeeps DEF RaiserNext, InHandler
<1>4. CASE WaitNext \/ DestroyNext \/ FreeResult \/ BeginDestroy
  BY <1>1, <1>4, ConstructKeeps, BeginWaitKeeps, WakeUpKeeps, EndWaitKeeps, FreeResultKeeps,
     DestroyKeeps, RevokeKeeps DEF WaitNext, DestroyNext
<1>5. AwaiterInv'
  BY <1>2, <1>3, <1>4 DEF AnyStep, RaisersNext
<1> QED
  BY <1>1, <1>5

\* What the program was handed is held by its raiser until it is freed.
LEMMA HandedOver == IInv /\ AwaiterInv => FiringsAreHandedOver
<1> SUFFICES ASSUME IInv, AwaiterInv, taken # None
             PROVE  \E r \in Raisers : firing[r] = taken /\ body[r] = "hold"
  BY DEF FiringsAreHandedOver, ArgumentsStayValid, AwaiterInv
<1>1. PICK r \in Raisers : body[r] = "hold"
  BY DEF AwaiterInv, Handed
<1>2. firing[r] = raised
  BY <1>1, Inside
<1> QED
  BY <1>1, <1>2 DEF AwaiterInv, Handed

\* Each wait() of an awaiter returns a firing, in the order in which the event fired, and the
\* raiser stays in its handler as long as the program holds what it handed over.
THEOREM AwaiterHandsOver == AwaiterSpec => []FiringsAreHandedOver
<1>1. [AwaiterNext]_awaiterVars => [AnyStep]_awaiterVars
  BY DEF AwaiterNext, AwaiterCaller, CautiousRaisers, AnyStep, RaisersNext
<1>2. IInv /\ AwaiterInv /\ [AwaiterNext]_awaiterVars => IInv' /\ AwaiterInv'
  BY <1>1, NextAwaiter
<1> QED
  BY <1>2, InitAwaiterInv, HandedOver, PTL DEF AwaiterSpec

\* So does the one wait() of event_publisher::wait, though it may never end.
THEOREM PublisherHandsOver == PublisherSpec => []FiringsAreHandedOver
<1>1. [RaisersNext \/ PublisherCaller]_awaiterVars => [AnyStep]_awaiterVars
  BY DEF PublisherCaller, AnyStep
<1>2. IInv /\ AwaiterInv /\ [RaisersNext \/ PublisherCaller]_awaiterVars => IInv' /\ AwaiterInv'
  BY <1>1, NextAwaiter
<1> QED
  BY <1>2, InitAwaiterInv, HandedOver, PTL DEF PublisherSpec

-------------------------------------------------------------------------------
(* Operations that report through events *)

Info ==
  [is_cancelled : BOOLEAN, state : States \cup {"idle"}, progress : Progresses \cup {NoProgress},
   message : Messages \cup {NoMessage}, update : Nat]

Owner ==
  {AtRest} \cup [does : {"knows"}, info : Info] \cup [does : {"runs"}, item : Info]
    \cup [does : {"joins"}, worker : Workers]

AsyncTypeOK ==
  /\ info \in Info /\ holder \in Workers \cup {Nobody}
  /\ worker \in [Workers -> {"none", "working", "raising", "raised", "ended", "joined"}]
  /\ source \in {"none", "set", "destroyed"} /\ setAt \in Nat
  /\ workItems \in Seq(Info) /\ ownerThread \in Owner /\ shown \in Seq(Info)

\* The worker that updates the state is the one that has the lock.
LockIsHeld == \A w \in Workers : worker[w] \in {"raising", "raised"} <=> holder = w

Raising == \E w \in Workers : worker[w] = "raising"

\* The event of the last update is still to be raised, or none is.
Raised == IF Raising THEN info.update - 1 ELSE info.update

Counted ==
  /\ Raising => info.update >= 1
  /\ Len(Told) = IF source = "none" THEN 0 ELSE Raised - setAt

Numbered == \A i \in 1 .. Len(Told) : Told[i].update = setAt + i

\* What the listeners are told of a state.
Same(a, b) == a.state = b.state /\ a.progress = b.progress /\ a.message = b.message

LastIsNow == ~Raising /\ Len(Told) # 0 => Same(Told[Len(Told)], info)

KnowsLast ==
  ownerThread.does = "knows" => \A i \in 1 .. Len(shown) : shown[i].update <= ownerThread.info.update

AsyncInv == AsyncTypeOK /\ LockIsHeld /\ Counted /\ Numbered /\ LastIsNow /\ KnowsLast

Running == IF ownerThread.does = "runs" THEN <<ownerThread.item>> ELSE <<>>

-------------------------------------------------------------------------------
LEMMA ToldIs ==
  ASSUME AsyncTypeOK
  PROVE  /\ Told = (shown \o Running) \o workItems
         /\ Running \in Seq(Info) /\ Told \in Seq(Info) /\ Len(Told) \in Nat
         /\ Len(Told) = Len(shown) + Len(Running) + Len(workItems)
<1>1. Running \in Seq(Info)
  BY DEF AsyncTypeOK, Owner, Running, AtRest
<1>2. Told = (shown \o Running) \o workItems
  BY <1>1 DEF Told, Running, AsyncTypeOK
<1> QED
  BY <1>1, <1>2 DEF AsyncTypeOK

\* A step that tells nobody anything and leaves the updates as they are.
LEMMA QuietKeeps ==
  ASSUME AsyncInv, AsyncTypeOK', LockIsHeld', KnowsLast', Told' = Told,
         Raising' <=> Raising, info'.update = info.update, Same(info', info),
         setAt' = setAt, source' = source \/ (source = "set" /\ source' = "destroyed")
  PROVE  AsyncInv'
<1>1. Counted'
  <2>1. Raised' = Raised
    BY DEF Raised
  <2>2. Len(Told)' = Len(Told)
    BY ToldIs
  <2> QED
    BY <2>1, <2>2 DEF AsyncInv, Counted
<1>2. Numbered'
  BY DEF AsyncInv, Numbered
<1>3. LastIsNow'
  BY DEF AsyncInv, LastIsNow, Same
<1> QED
  BY <1>1, <1>2, <1>3 DEF AsyncInv

LEMMA UpdateStateKeeps ==
  ASSUME AsyncInv, NEW w \in Workers, NEW state \in States,
         NEW progress \in Progresses \cup {NoProgress}, NEW message \in Messages \cup {NoMessage},
         UpdateState(w, state, progress, message)
  PROVE  AsyncInv'
<1>1. /\ worker[w] = "working" /\ holder = Nobody /\ holder' = w
      /\ worker' = [worker EXCEPT ![w] = "raising"]
      /\ UNCHANGED <<exiting, source, setAt, workItems, ownerThread, shown>>
  BY DEF UpdateState, Lock
<1>2. info' \in Info /\ info'.update = info.update + 1 /\ info.update \in Nat
  <2> DEFINE p == IF progress = NoProgress THEN info.progress ELSE progress
             m == IF message = NoMessage THEN info.message ELSE message
  <2>1. /\ info = [is_cancelled |-> info.is_cancelled, state |-> info.state, progress |-> info.progress,
                   message |-> info.message, update |-> info.update]
        /\ info.is_cancelled \in BOOLEAN /\ info.update \in Nat
        /\ p \in Progresses \cup {NoProgress} /\ m \in Messages \cup {NoMessage}
    BY DEF AsyncInv, AsyncTypeOK, Info
  <2>2. info' = [info EXCEPT !.state = state, !.update = info.update + 1, !.progress = p, !.message = m]
    BY DEF UpdateState
  <2> HIDE DEF p, m
  <2>3. info' = [is_cancelled |-> info.is_cancelled, state |-> state, progress |-> p, message |-> m,
                 update |-> info.update + 1]
    BY <2>1, <2>2
  <2> QED
    BY <2>1, <2>3 DEF Info
<1>3. AsyncTypeOK'
  BY <1>1, <1>2 DEF AsyncInv, AsyncTypeOK
<1>4. LockIsHeld'
  BY <1>1, AsyncAssumption DEF AsyncInv, LockIsHeld, AsyncTypeOK
<1>5. Told' = Told
  BY <1>1 DEF Told
<1>6. Raising' /\ ~Raising
  BY <1>1, AsyncAssumption DEF AsyncInv, AsyncTypeOK, LockIsHeld, Raising
<1>7. Counted'
  BY <1>1, <1>2, <1>5, <1>6 DEF AsyncInv, Counted, Raised
<1>8. Numbered' /\ LastIsNow' /\ KnowsLast'
  BY <1>1, <1>5, <1>6 DEF AsyncInv, Numbered, LastIsNow, KnowsLast
<1> QED
  BY <1>3, <1>4, <1>7, <1>8 DEF AsyncInv

LEMMA OnStateChangedKeeps ==
  ASSUME AsyncInv, NEW w \in Workers, OnStateChanged(w)
  PROVE  AsyncInv'
<1>1. /\ worker[w] = "raising" /\ worker' = [worker EXCEPT ![w] = "raised"]
      /\ UNCHANGED <<info, holder, exiting, source, setAt, ownerThread, shown>>
      /\ workItems' = IF source = "none" THEN workItems ELSE Append(workItems, info)
  BY DEF OnStateChanged, InvokeAsync
<1>2. info \in Info /\ info.update \in Nat /\ workItems \in Seq(Info) /\ shown \in Seq(Info)
  BY DEF AsyncInv, AsyncTypeOK, Info
<1>3. AsyncTypeOK'
  BY <1>1, <1>2 DEF AsyncInv, AsyncTypeOK
<1>4. LockIsHeld'
  BY <1>1 DEF AsyncInv, AsyncTypeOK, LockIsHeld
<1>5. Raising /\ ~Raising'
  BY <1>1, AsyncAssumption DEF AsyncInv, AsyncTypeOK, LockIsHeld, Raising
<1>6. Told \in Seq(Info) /\ Len(Told) \in Nat
  BY ToldIs DEF AsyncInv
<1>7. Told' = IF source = "none" THEN Told ELSE Append(Told, info)
  <2>1. /\ Told = (shown \o Running) \o workItems
        /\ Running \in Seq(Info) /\ Running' = Running
    BY <1>1, ToldIs DEF AsyncInv, Running
  <2>2. (Told = (shown \o Running) \o workItems)'
    BY <1>3, ToldIs, PTL
  <2> DEFINE before == shown \o Running
  <2>3. before \in Seq(Info)
    BY <1>2, <2>1
  <2> HIDE DEF before
  <2>4. before \o Append(workItems, info) = Append(before \o workItems, info)
    BY <1>2, <2>3
  <2> QED
    BY <1>1, <2>1, <2>2, <2>4 DEF before
<1>8. Counted'
  BY <1>1, <1>2, <1>5, <1>6, <1>7 DEF AsyncInv, AsyncTypeOK, Counted, Raised
<1>9. Numbered'
  <2>1. CASE source = "none"
    BY <1>1, <1>7, <2>1 DEF AsyncInv, Numbered
  <2>2. CASE source # "none"
    <3>1. /\ Told' = Append(Told, info) /\ Len(Told)' = Len(Told) + 1
          /\ info.update = setAt + Len(Told) + 1 /\ setAt \in Nat
      <4>1. setAt \in Nat /\ Len(Told) = (info.update - 1) - setAt
        BY <1>2, <1>5, <2>2 DEF AsyncInv, AsyncTypeOK, Counted, Raised
      <4>2. Told' = Append(Told, info)
        BY <1>7, <2>2
      <4>3. Len(Told)' = Len(Told) + 1
        BY <1>2, <1>6, <4>2
      <4> QED
        BY <1>2, <1>6, <4>1, <4>2, <4>3
    <3>2. /\ \A i \in 1 .. Len(Told) : Told'[i] = Told[i]
          /\ Told'[Len(Told) + 1] = info
      BY <1>2, <1>6, <3>1
    <3>3. \A i \in 1 .. Len(Told) : Told[i].update = setAt + i
      BY DEF AsyncInv, Numbered
    <3>4. ASSUME NEW i \in 1 .. Len(Told)'
          PROVE  Told'[i].update = setAt + i
      <4>1. CASE i \in 1 .. Len(Told)
        BY <3>2, <3>3, <4>1
      <4>2. CASE i \notin 1 .. Len(Told)
        <5>1. i = Len(Told) + 1
          BY <1>6, <3>1, <4>2
        <5> QED
          BY <1>6, <3>1, <3>2, <5>1
      <4> QED
        BY <4>1, <4>2
    <3> QED
      BY <1>1, <3>4 DEF Numbered
  <2> QED
    BY <2>1, <2>2
<1>10. LastIsNow'
  BY <1>1, <1>2, <1>5, <1>6, <1>7 DEF AsyncInv, Counted, LastIsNow, Same
<1>11. KnowsLast'
  BY <1>1 DEF AsyncInv, KnowsLast
<1> QED
  BY <1>3, <1>4, <1>8, <1>9, <1>10, <1>11 DEF AsyncInv

LEMMA UnlockKeeps ==
  ASSUME AsyncInv, NEW w \in Workers, Unlock(w)
  PROVE  AsyncInv'
<1>1. /\ worker[w] = "raised" /\ worker' = [worker EXCEPT ![w] = "working"] /\ holder' = Nobody
      /\ UNCHANGED <<info, exiting, source, setAt, workItems, ownerThread, shown>>
  BY DEF Unlock, AsyncInv, LockIsHeld
<1>2. AsyncTypeOK'
  BY <1>1 DEF AsyncInv, AsyncTypeOK
<1>3. LockIsHeld'
  BY <1>1, AsyncAssumption DEF AsyncInv, AsyncTypeOK, LockIsHeld
<1>4. Told' = Told /\ KnowsLast'
  BY <1>1 DEF Told, AsyncInv, KnowsLast
<1>5. Raising' <=> Raising
  BY <1>1 DEF AsyncInv, AsyncTypeOK, Raising
<1> QED
  BY <1>1, <1>2, <1>3, <1>4, <1>5, QuietKeeps DEF Same

\* What a worker does with its thread while the lock is somebody else's.
LEMMA ThreadKeeps ==
  ASSUME AsyncInv, NEW w \in Workers, worker[w] \notin {"raising", "raised"},
         NEW doing \in {"none", "working", "ended", "joined"}, worker' = [worker EXCEPT ![w] = doing],
         ownerThread' = ownerThread \/ (ownerThread.does = "joins" /\ ownerThread' = AtRest),
         UNCHANGED <<info, holder, exiting, source, setAt, workItems, shown>>
  PROVE  AsyncInv'
<1>1. AsyncTypeOK'
  BY DEF AsyncInv, AsyncTypeOK, Owner
<1>2. LockIsHeld'
  BY DEF AsyncInv, AsyncTypeOK, LockIsHeld
<1>3. Told' = Told /\ KnowsLast'
  <2>1. CASE ownerThread' = ownerThread
    BY <2>1 DEF Told, AsyncInv, KnowsLast
  <2>2. CASE ownerThread.does = "joins" /\ ownerThread' = AtRest
    <3>1. ownerThread.does \notin {"runs", "knows"} /\ ownerThread'.does \notin {"runs", "knows"}
      BY <2>2 DEF AtRest
    <3> QED
      BY <3>1 DEF Told, AsyncInv, KnowsLast
  <2> QED
    BY <2>1, <2>2
<1>4. Raising' <=> Raising
  BY DEF AsyncInv, AsyncTypeOK, Raising
<1> QED
  BY <1>1, <1>2, <1>3, <1>4, QuietKeeps DEF Same

LEMMA SetSourceKeeps ==
  ASSUME AsyncInv, SetSource
  PROVE  AsyncInv'
<1>1. /\ source = "none" /\ source' = "set" /\ setAt' = Raised
      /\ UNCHANGED <<info, holder, worker, exiting, workItems, ownerThread, shown>>
  BY DEF SetSource, Raised, Raising
<1>2. info.update \in Nat /\ Raised \in Nat
  BY DEF AsyncInv, AsyncTypeOK, Info, Counted, Raised
<1>3. AsyncTypeOK'
  BY <1>1, <1>2 DEF AsyncInv, AsyncTypeOK
<1>4. /\ Told' = Told /\ LockIsHeld' /\ KnowsLast' /\ LastIsNow' /\ (Raising' <=> Raising)
      /\ Raised' = Raised
  BY <1>1 DEF Told, AsyncInv, LockIsHeld, KnowsLast, LastIsNow, Raising, Raised
<1>5. Len(Told) = 0
  BY <1>1 DEF AsyncInv, Counted
<1>6. Counted' /\ Numbered'
  BY <1>1, <1>2, <1>4, <1>5 DEF AsyncInv, Counted, Numbered
<1> QED
  BY <1>3, <1>4, <1>6 DEF AsyncInv

LEMMA CancelKeeps ==
  ASSUME AsyncInv, Cancel
  PROVE  AsyncInv'
<1>1. /\ info' = [info EXCEPT !.is_cancelled = TRUE]
      /\ UNCHANGED <<holder, worker, exiting, source, setAt, workItems, ownerThread, shown>>
  BY DEF Cancel
<1>2. info = [is_cancelled |-> info.is_cancelled, state |-> info.state, progress |-> info.progress,
              message |-> info.message, update |-> info.update]
  BY DEF AsyncInv, AsyncTypeOK, Info
<1>3. info' = [is_cancelled |-> TRUE, state |-> info.state, progress |-> info.progress,
               message |-> info.message, update |-> info.update]
  BY <1>1, <1>2
<1>4. info' \in Info /\ Same(info', info) /\ info'.update = info.update
  BY <1>2, <1>3 DEF AsyncInv, AsyncTypeOK, Info, Same
<1>5. AsyncTypeOK' /\ LockIsHeld' /\ KnowsLast' /\ Told' = Told /\ (Raising' <=> Raising)
  BY <1>1, <1>4 DEF AsyncInv, AsyncTypeOK, LockIsHeld, KnowsLast, Told, Raising
<1> QED
  BY <1>1, <1>4, <1>5, QuietKeeps

LEMMA AskStateKeeps ==
  ASSUME AsyncInv, AskState
  PROVE  AsyncInv'
<1>1. /\ ownerThread = AtRest /\ holder = Nobody /\ ownerThread' = [does |-> "knows", info |-> info] /\ source = "set"
      /\ UNCHANGED <<info, holder, worker, exiting, source, setAt, workItems, shown>>
  BY DEF AskState
<1>2. AsyncTypeOK' /\ LockIsHeld' /\ Told' = Told /\ (Raising' <=> Raising)
  BY <1>1 DEF AsyncInv, AsyncTypeOK, Owner, LockIsHeld, Told, Raising, AtRest
<1>3. /\ shown \in Seq(Info) /\ Len(shown) \in Nat /\ Len(shown) <= Len(Told) /\ Len(Told) \in Nat
      /\ \A i \in 1 .. Len(shown) : Told[i] = shown[i]
  <2>1. /\ Told = (shown \o Running) \o workItems /\ Running \in Seq(Info)
        /\ Len(Told) = Len(shown) + Len(Running) + Len(workItems)
        /\ shown \in Seq(Info) /\ workItems \in Seq(Info)
    BY ToldIs DEF AsyncInv, AsyncTypeOK
  <2> QED
    BY <2>1
<1>4. info.update \in Nat /\ setAt \in Nat /\ ~Raising
  BY <1>1, AsyncAssumption DEF AsyncInv, AsyncTypeOK, Info, LockIsHeld, Raising
<1>5. Len(Told) = info.update - setAt
  BY <1>1, <1>4 DEF AsyncInv, Counted, Raised
<1>6. KnowsLast'
  BY <1>1, <1>3, <1>4, <1>5 DEF AsyncInv, Numbered, KnowsLast
<1> QED
  BY <1>1, <1>2, <1>6, QuietKeeps DEF Same

LEMMA OwnerKeeps ==
  ASSUME AsyncInv, TakeWorkItem \/ RunWorkItem
  PROVE  AsyncInv'
<1>1. /\ workItems \in Seq(Info) /\ shown \in Seq(Info)
      /\ UNCHANGED <<info, holder, worker, exiting, source, setAt>>
  BY DEF AsyncInv, AsyncTypeOK, TakeWorkItem, RunWorkItem
<1>2. AsyncTypeOK' /\ Told' = Told /\ KnowsLast'
  <2>1. CASE TakeWorkItem
    <3>1. /\ workItems # <<>> /\ ownerThread' = [does |-> "runs", item |-> Head(workItems)]
          /\ workItems' = Tail(workItems) /\ shown' = shown /\ ownerThread.does # "runs"
      BY <2>1 DEF TakeWorkItem
    <3>2. Head(workItems) \in Info /\ workItems' \in Seq(Info) /\ ownerThread' \in Owner
      BY <1>1, <3>1 DEF Owner
    <3>3. <<Head(workItems)>> \o workItems' = workItems
      BY <1>1, <3>1
    <3>4. Told = shown \o <<>> \o workItems /\ Told' = shown \o <<Head(workItems)>> \o workItems'
      BY <3>1 DEF Told
    <3>5. Told' = Told
      <4>1. shown \o <<>> = shown
        BY <1>1
      <4>2. (shown \o <<Head(workItems)>>) \o workItems' = shown \o (<<Head(workItems)>> \o workItems')
        BY <1>1, <3>2
      <4> QED
        BY <3>3, <3>4, <4>1, <4>2
    <3> QED
      BY <1>1, <3>1, <3>2, <3>5 DEF AsyncInv, AsyncTypeOK, KnowsLast
  <2>2. CASE RunWorkItem
    <3>1. /\ ownerThread.does = "runs" /\ shown' = Append(shown, ownerThread.item) /\ ownerThread' = AtRest
          /\ workItems' = workItems
      BY <2>2 DEF RunWorkItem
    <3>2. ownerThread.item \in Info /\ shown' \in Seq(Info) /\ ownerThread' \in Owner
      BY <1>1, <3>1 DEF AsyncInv, AsyncTypeOK, Owner, AtRest
    <3>3. Told = (shown \o <<ownerThread.item>>) \o workItems /\ Told' = (shown' \o <<>>) \o workItems
      BY <3>1 DEF Told, AtRest
    <3>4. shown \o <<ownerThread.item>> = shown' /\ shown' \o <<>> = shown'
      BY <1>1, <3>1, <3>2
    <3> QED
      BY <1>1, <3>1, <3>2, <3>3, <3>4 DEF AsyncInv, AsyncTypeOK, KnowsLast, AtRest
  <2> QED
    BY <2>1, <2>2
<1>3. LockIsHeld' /\ (Raising' <=> Raising)
  BY <1>1 DEF AsyncInv, LockIsHeld, Raising
<1> QED
  BY <1>1, <1>2, <1>3, QuietKeeps DEF Same

\* The source is destroyed, a reset begins, the answer to state() is forgotten.
LEMMA RestKeeps ==
  ASSUME AsyncInv,
         DestroySource \/ ReturnFromState \/ (\E w \in Workers : BeginReset(w)) \/ UNCHANGED asyncVars
  PROVE  AsyncInv'
<1>1. /\ UNCHANGED <<info, holder, worker, setAt, workItems, shown>>
      /\ source' = source \/ (source = "set" /\ source' = "destroyed")
      /\ \/ ownerThread' = ownerThread
         \/ ownerThread.does # "runs" /\ ownerThread' = AtRest
         \/ ownerThread = AtRest /\ \E w \in Workers : ownerThread' = [does |-> "joins", worker |-> w]
  BY DEF DestroySource, ReturnFromState, BeginReset, asyncVars
<1>2. AsyncTypeOK' /\ LockIsHeld' /\ (Raising' <=> Raising)
  BY <1>1 DEF AsyncInv, AsyncTypeOK, Owner, LockIsHeld, Raising
<1>3. Told' = Told /\ KnowsLast'
  <2>1. CASE ownerThread' = ownerThread
    BY <1>1, <2>1 DEF Told, AsyncInv, KnowsLast
  <2>2. CASE ownerThread' # ownerThread
    <3>1. ownerThread.does # "runs" /\ ownerThread'.does \notin {"runs", "knows"}
      BY <1>1, <2>2 DEF AtRest
    <3> QED
      BY <1>1, <3>1 DEF Told, AsyncInv, KnowsLast
  <2> QED
    BY <2>1, <2>2
<1> QED
  BY <1>1, <1>2, <1>3, QuietKeeps DEF Same

LEMMA NextAsync == AsyncInv /\ [AsyncNext]_asyncVars => AsyncInv'
<1> SUFFICES ASSUME AsyncInv, [AsyncNext]_asyncVars
             PROVE  AsyncInv'
  OBVIOUS
<1>1. ASSUME NEW w \in Workers, WorkerStep(w)
      PROVE  AsyncInv'
  <2>1. CASE ReportAll(w) \/ ReportState(w) \/ ReportProgress(w) \/ ReportMessage(w)
    <3>1. \E state \in States, p \in Progresses \cup {NoProgress}, m \in Messages \cup {NoMessage} :
            UpdateState(w, state, p, m)
      BY <2>1 DEF ReportAll, ReportState, ReportProgress, ReportMessage, States
    <3> QED
      BY <3>1, UpdateStateKeeps
  <2>2. CASE OnStateChanged(w)
    BY <2>2, OnStateChangedKeeps
  <2>3. CASE Unlock(w)
    BY <2>3, UnlockKeeps
  <2>4. CASE ThrowIfCancelled(w) \/ EndWork(w)
    BY <2>4, ThreadKeeps DEF ThrowIfCancelled, EndWork
  <2> QED
    BY <1>1, <2>1, <2>2, <2>3, <2>4 DEF WorkerStep
<1>2. ASSUME NEW w \in Workers, StartWorker(w)
      PROVE  AsyncInv'
  BY <1>2, ThreadKeeps DEF StartWorker
<1>3. CASE FinishReset
  <2>1. ownerThread.worker \in Workers
    BY <1>3 DEF FinishReset, AsyncInv, AsyncTypeOK, Owner, AtRest
  <2> QED
    BY <1>3, <2>1, ThreadKeeps DEF FinishReset
<1> QED
  BY <1>1, <1>2, <1>3, SetSourceKeeps, CancelKeeps, AskStateKeeps, OwnerKeeps, RestKeeps DEF AsyncNext

LEMMA InitAsync == AsyncInit => AsyncInv
<1> SUFFICES ASSUME AsyncInit
             PROVE  AsyncInv
  OBVIOUS
<1>1. AsyncTypeOK
  BY DEF AsyncInit, AsyncTypeOK, Info, Owner
<1>2. LockIsHeld /\ ~Raising
  BY AsyncAssumption DEF AsyncInit, LockIsHeld, Raising
<1>3. Len(Told) = 0
  BY DEF AsyncInit, Told, AtRest
<1> QED
  BY <1>1, <1>2, <1>3 DEF AsyncInit, AsyncInv, Counted, Numbered, LastIsNow, KnowsLast, AtRest

\* Work in the background is shown as it was done.
THEOREM StatesComeInOrder == AsyncSpec => []StatesAreShownInOrder
<1>1. ASSUME AsyncInv
      PROVE  StatesAreShownInOrder
  <2>1. /\ Told \in Seq(Info) /\ Len(Told) \in Nat /\ DOMAIN Told = 1 .. Len(Told)
        /\ shown \in Seq(Info) /\ Len(shown) \in Nat /\ info.update \in Nat
    BY <1>1, ToldIs DEF AsyncInv, AsyncTypeOK, Info
  <2>2. \A i \in DOMAIN Told : Told[i].update = setAt + i
    BY <1>1, <2>1 DEF AsyncInv, Numbered
  <2>3. ASSUME holder = Nobody
        PROVE  ~Raising
    BY <1>1, <2>3, AsyncAssumption DEF AsyncInv, LockIsHeld, Raising
  <2>4. source # "none" /\ holder = Nobody => Len(Told) = info.update - setAt
    BY <1>1, <2>3 DEF AsyncInv, Counted, Raised
  <2>5. ASSUME Told # <<>>, holder = Nobody
        PROVE  Same(Last(Told), info)
    BY <1>1, <2>1, <2>3, <2>5 DEF AsyncInv, LastIsNow, Last
  <2>6. ASSUME ownerThread.does = "knows"
        PROVE  ownerThread.info.update >= IF shown = <<>> THEN 0 ELSE Last(shown).update
    <3>1. ownerThread.info.update \in Nat
      BY <1>1, <2>6 DEF AsyncInv, AsyncTypeOK, Owner, AtRest, Info
    <3>2. CASE shown = <<>>
      BY <3>1, <3>2
    <3>3. CASE shown # <<>>
      <4>1. Last(shown) = shown[Len(shown)] /\ Len(shown) \in 1 .. Len(shown)
        BY <2>1, <3>3 DEF Last
      <4>2. shown[Len(shown)].update <= ownerThread.info.update /\ shown[Len(shown)].update \in Nat
        <5>1. \A i \in 1 .. Len(shown) : shown[i].update <= ownerThread.info.update
          BY <1>1, <2>6 DEF AsyncInv, KnowsLast
        <5>2. shown[Len(shown)] \in Info
          BY <2>1, <4>1
        <5> QED
          BY <4>1, <5>1, <5>2 DEF Info
      <4> QED
        BY <3>1, <3>3, <4>1, <4>2
    <3> QED
      BY <3>2, <3>3
  <2> QED
    BY <2>2, <2>4, <2>5, <2>6 DEF StatesAreShownInOrder, Same
<1> QED
  BY <1>1, InitAsync, NextAsync, PTL DEF AsyncSpec

-------------------------------------------------------------------------------
(* The server of the messages *)

ServerSpec == ServerInit /\ [][ServerNext]_serverVars

Tellings == {<<>>, <<"connected">>, <<"connected", "disconnected">>}

Places == {"none", "running", "message", "disconnect", "check", "remove", "tell", "tellRemoved",
           "delete", "ended"}

Stages == {"raise", "register", "tell", "open"}

ServerTypeOK ==
  /\ owner \in {"using", "broadcast", "closing", "joining", "locking", "clearing", "gone"}
  /\ target \in Nat /\ target >= 1
  /\ audience \subseteq Conns
  /\ listener \in {<<"accept">>, <<"ended">>} \cup (Stages \X Conns)
  /\ clients \in Seq(Conns)
  /\ lock \in {"free", "owner"}
  /\ link \in [Conns -> {"none", "up", "left", "closed"}]
  /\ connected \in [Conns -> BOOLEAN]
  /\ freeing \in [Conns -> {"none", "joining", "freed"}]
  /\ at \in [Conns -> [Ends -> Places]]
  /\ told \in [Conns -> Tellings]

\* Whether a thread of a channel is about to raise client_disconnected.
Tells(stage) == stage \in {"check", "remove", "tell", "tellRemoved"}

\* Nothing was raised of a connection before its registration, whose threads do not run
\* before client_connected was raised.
RegistrationSound ==
  \A c \in Conns :
    /\ link[c] = "none" \/ listener \in {<<"raise", c>>, <<"register", c>>, <<"tell", c>>} =>
         told[c] = <<>> /\ \A e \in Ends : at[c][e] = "none"
    /\ listener = <<"open", c>> => told[c] # <<>>
    /\ \A s \in Stages : listener = <<s, c>> => link[c] # "none"

\* The flag _isConnected lets one thread through, which raises client_disconnected and ends.
DisconnectionSound ==
  \A c \in Conns :
    /\ \A e \in Ends :
         /\ at[c][e] # "none" => told[c] # <<>>
         /\ Tells(at[c][e]) => told[c] = <<"connected">>
         /\ \A f \in Ends : Tells(at[c][e]) /\ Tells(at[c][f]) => e = f
    /\ connected[c] =>
         /\ told[c] # <<"connected", "disconnected">>
         /\ \A e \in Ends : ~Tells(at[c][e])

\* The list changes only when the owner does not walk it.
LockSound == lock = "owner" <=> owner \in {"broadcast", "clearing"}

\* A broadcast has reached those of its audience that it passed.
BroadcastSound ==
  owner = "broadcast" =>
    /\ audience \subseteq {clients[i] : i \in 1 .. Len(clients)}
    /\ reached = audience \cap {clients[i] : i \in {j \in 1 .. Len(clients) : j < target}}

TellInv ==
  ServerTypeOK /\ RegistrationSound /\ DisconnectionSound /\ LockSound /\ BroadcastSound

\* The client was told of and is on its way out of the server, for no thread of it asks again.
TakenOff(c) ==
  \/ \E e \in Ends : at[c][e] \in {"tellRemoved", "delete"}
  \/ freeing[c] = "joining" /\ told[c] = <<"connected", "disconnected">>

Cleared(c) == ThreadsEnded(c) \/ TakenOff(c)

\* Every client is on the list, or a handler took it off, or its threads do not run; they do
\* not before its registration is over.
ListSound ==
  \A c \in Conns :
    /\ (\E i \in 1 .. Len(clients) : clients[i] = c) \/ Cleared(c)
    /\ listener \in {<<"tell", c>>, <<"open", c>>} =>
         (\E i \in 1 .. Len(clients) : clients[i] = c) /\ \A e \in Ends : at[c][e] = "none"
    /\ \A e \in Ends : at[c][e] = "delete" => told[c] = <<"connected", "disconnected">>

\* Once the owner is past the join of the listener nobody registers; in the destructor the
\* threads of the clients that it has passed are joined.
ShutdownSound ==
  /\ owner \in {"locking", "clearing", "gone"} => listener = <<"ended">>
  /\ owner = "clearing" =>
       \A i \in 1 .. Len(clients) : i < target => ThreadsEnded(clients[i])
  /\ owner = "gone" => clients = <<>>

-------------------------------------------------------------------------------

LEMMA ListenerPlaces ==
  /\ <<"accept">> # <<"ended">>
  /\ \A s \in Stages, c \in Conns : <<s, c>> # <<"accept">> /\ <<s, c>> # <<"ended">>
  /\ \A s, t \in Stages, c, d \in Conns : <<s, c>> = <<t, d>> => s = t /\ c = d
BY SMT

LEMMA Telling ==
  /\ <<>> # <<"connected">> /\ <<>> # <<"connected", "disconnected">>
  /\ <<"connected">> # <<"connected", "disconnected">>
  /\ Append(<<>>, "connected") = <<"connected">>
  /\ Append(<<"connected">>, "disconnected") = <<"connected", "disconnected">>
<1>1. Append(<<>>, "connected") = <<"connected">>
  OBVIOUS
<1>2. Append(<<"connected">>, "disconnected") = <<"connected", "disconnected">>
  <2> DEFINE a == Append(<<"connected">>, "disconnected")
             b == <<"connected", "disconnected">>
             Words == {"connected", "disconnected"}
  <2>1. /\ <<"connected">> \in Seq(Words) /\ Len(<<"connected">>) = 1
        /\ <<"connected">>[1] = "connected"
    <3>1. <<"connected">> \in Seq(Words)
      OBVIOUS
    <3>2. Len(<<"connected">>) = 1 /\ <<"connected">>[1] = "connected"
      OBVIOUS
    <3> QED BY <3>1, <3>2
  <2>2. a \in Seq(Words) /\ Len(a) = 2 /\ a[1] = "connected" /\ a[2] = "disconnected"
    BY <2>1, AppendProperties
  <2>3. b \in Seq(Words) /\ Len(b) = 2 /\ b[1] = "connected" /\ b[2] = "disconnected"
    <3>1. b \in Seq(Words)
      OBVIOUS
    <3>2. Len(b) = 2 /\ b[1] = "connected" /\ b[2] = "disconnected"
      OBVIOUS
    <3> QED BY <3>1, <3>2
  <2>4. \A i \in 1 .. Len(a) : a[i] = b[i]
    BY <2>2, <2>3
  <2> HIDE DEF a, b
  <2> QED BY <2>1, <2>2, <2>3, <2>4, SeqEqual DEF a, b
<1>3. <<>> # <<"connected">> /\ <<>> # <<"connected", "disconnected">>
  OBVIOUS
<1>4. <<"connected">> # <<"connected", "disconnected">>
  OBVIOUS
<1> QED BY <1>1, <1>2, <1>3, <1>4

\* One thread of a channel goes to another stage.
LEMMA GotoPlace ==
  ASSUME at \in [Conns -> [Ends -> Places]],
         NEW c \in Conns, NEW e \in Ends, NEW stage \in Places, Goto(c, e, stage)
  PROVE  /\ at' \in [Conns -> [Ends -> Places]]
         /\ \A d \in Conns, f \in Ends :
              at'[d][f] = IF d = c /\ f = e THEN stage ELSE at[d][f]
BY DEF Goto

\* remove_unordered keeps a sequence of connections one.
LEMMA RemovalType ==
  ASSUME NEW s \in Seq(Conns), NEW x \in Conns
  PROVE  RemoveUnordered(s, x) \in Seq(Conns)
<1>1. CASE x \notin Range(s)
  BY <1>1 DEF RemoveUnordered
<1>2. CASE x \in Range(s)
  <2> DEFINE i == CHOOSE j \in DOMAIN s : s[j] = x
             t == [s EXCEPT ![i] = Last(s)]
  <2>1. Len(s) \in Nat /\ Len(s) >= 1
    BY <1>2 DEF Range
  <2>2. Last(s) \in Conns
    BY <2>1 DEF Last
  <2>3. i \in 1 .. Len(s)
    BY <1>2 DEF Range
  <2>4. t \in Seq(Conns) /\ Len(t) = Len(s)
    BY <2>2, <2>3, ExceptSeq
  <2>5. Front(t) \in Seq(Conns)
    <3> HIDE DEF t
    <3> QED BY <2>1, <2>4 DEF Front
  <2> QED
    BY <1>2, <2>5 DEF RemoveUnordered
<1> QED BY <1>1, <1>2


-------------------------------------------------------------------------------
(* Types *)

LEMMA InitTypes == ServerInit => ServerTypeOK
BY DEF ServerInit, FreshServer, ServerTypeOK, Ends, Places, Tellings, Stages

LEMMA NextTypes == TellInv /\ [ServerNext]_serverVars => ServerTypeOK'
<1> SUFFICES ASSUME TellInv, [ServerNext]_serverVars
             PROVE  ServerTypeOK'
  OBVIOUS
<1> USE DEF TellInv, ServerTypeOK, ownerVars, listenerVars, registry, channelVars
<1>1. CASE StopListening \/ AcceptFails
  BY <1>1 DEF StopListening, AcceptFails, EndListener
<1>2. ASSUME NEW c \in Conns, Accept(c) \/ RaiseAccepted(c)
      PROVE  ServerTypeOK'
  BY <1>2 DEF Accept, RaiseAccepted, Stages
<1>3. ASSUME NEW c \in Conns, Register(c)
      PROVE  ServerTypeOK'
  BY <1>3 DEF Register, RegisterWith, Stages, Ends, Places
<1>4. ASSUME NEW c \in Conns, TellConnected(c)
      PROVE  ServerTypeOK'
  BY <1>4, Telling DEF TellConnected, RegistrationSound, Stages, Tellings
<1>5. ASSUME NEW c \in Conns, Open(c)
      PROVE  ServerTypeOK'
  BY <1>5 DEF Open, Ends, Places
<1>6. ASSUME NEW c \in Conns, Leave(c) \/ FreeAsync(c)
      PROVE  ServerTypeOK'
  BY <1>6 DEF Leave, FreeAsync
<1>7. ASSUME NEW c \in Conns, Receive(c) \/ Received(c)
      PROVE  ServerTypeOK'
  <2>1. PICK stage \in Places : Goto(c, "receiver", stage)
    BY <1>7 DEF Receive, Received, Places
  <2>2. at' \in [Conns -> [Ends -> Places]]
    BY <2>1, GotoPlace DEF Ends
  <2> QED BY <1>7, <2>2 DEF Receive, Received
<1>8. ASSUME NEW c \in Conns, NEW e \in Ends,
             EndOfLink(c, e) \/ Disconnect(c, e) \/ ReadShuttingDown(c, e)
      PROVE  ServerTypeOK'
  <2>1. CASE EndOfLink(c, e)
    BY <2>1 DEF EndOfLink, Goto, Places
  <2>2. CASE Disconnect(c, e)
    BY <2>2 DEF Disconnect, Goto, Places
  <2>3. CASE ReadShuttingDown(c, e)
    BY <2>3 DEF ReadShuttingDown, Goto, Places
  <2> QED BY <1>8, <2>1, <2>2, <2>3
<1>9. ASSUME NEW c \in Conns, NEW e \in Ends, RemoveClient(c, e)
      PROVE  ServerTypeOK'
  BY <1>9, RemovalType DEF RemoveClient, Goto, Places
<1>10. ASSUME NEW c \in Conns, NEW e \in Ends, TellDisconnected(c, e)
       PROVE  ServerTypeOK'
  BY <1>10, Telling DEF TellDisconnected, DisconnectionSound, Tells, Goto, Places, Tellings
<1>11. ASSUME NEW c \in Conns, NEW e \in Ends, DeleteAsync(c, e)
       PROVE  ServerTypeOK'
  BY <1>11 DEF DeleteAsync, BeginFree, Goto, Places
<1>12. CASE Broadcast
  BY <1>12 DEF Broadcast, Range
<1>13. CASE SendToNext
  BY <1>13 DEF SendToNext
<1>14. CASE EndBroadcast \/ UnsubscribeListener \/ CloseListener \/ JoinListener
  BY <1>14 DEF EndBroadcast, UnsubscribeListener, CloseListener, JoinListener
<1>15. CASE BeginShutdown \/ FreeNext
  <2>1. CASE BeginShutdown
    BY <2>1 DEF BeginShutdown
  <2>2. CASE FreeNext
    <3>1. target \in 1 .. Len(clients) /\ target + 1 \in Nat
      BY <2>2 DEF FreeNext
    <3> QED BY <2>2, <3>1 DEF FreeNext
  <2> QED BY <1>15, <2>1, <2>2
<1>16. CASE CloseNext
  BY <1>16 DEF CloseNext, BeginFree
<1>17. CASE EndShutdown
  BY <1>17 DEF EndShutdown
<1>18. CASE UNCHANGED serverVars
  BY <1>18 DEF serverVars
<1>19. QED
  BY <1>1, <1>2, <1>3, <1>4, <1>5, <1>6, <1>7, <1>8, <1>9, <1>10, <1>11, <1>12, <1>13, <1>14,
     <1>15, <1>16, <1>17, <1>18
     DEF ServerNext, ListenerStep, EndNext, OwnerStep


-------------------------------------------------------------------------------
(* What is told of a client *)

\* The steps that neither raise anything nor concern a thread that will.
Aside ==
  /\ UNCHANGED <<listener, told, at, connected>>
  /\ \A c \in Conns : link'[c] = "none" => link[c] = "none"

LEMMA AsideSteps ==
  ASSUME ServerTypeOK, [ServerNext]_serverVars
  PROVE  \/ \E c \in Conns : Accept(c) \/ RaiseAccepted(c) \/ Register(c) \/ TellConnected(c) \/ Open(c)
         \/ StopListening \/ AcceptFails
         \/ \E c \in Conns : Receive(c) \/ Received(c)
         \/ \E c \in Conns, e \in Ends : EndNext(c, e)
         \/ Aside
<1> USE DEF ServerTypeOK, ownerVars, listenerVars, registry, channelVars, Aside
<1>1. ASSUME NEW c \in Conns, Leave(c)
      PROVE  Aside
  BY <1>1 DEF Leave
<1>2. ASSUME NEW c \in Conns, FreeAsync(c)
      PROVE  Aside
  BY <1>2 DEF FreeAsync
<1>3. CASE Broadcast
  BY <1>3 DEF Broadcast
<1>4. CASE SendToNext
  BY <1>4 DEF SendToNext
<1>5. CASE EndBroadcast \/ UnsubscribeListener \/ CloseListener \/ JoinListener
  BY <1>5 DEF EndBroadcast, UnsubscribeListener, CloseListener, JoinListener
<1>6. CASE BeginShutdown \/ FreeNext \/ EndShutdown
  BY <1>6 DEF BeginShutdown, FreeNext, EndShutdown
<1>7. CASE CloseNext
  BY <1>7 DEF CloseNext, BeginFree
<1>8. CASE UNCHANGED serverVars
  BY <1>8 DEF serverVars
<1>9. QED
  BY <1>1, <1>2, <1>3, <1>4, <1>5, <1>6, <1>7, <1>8 DEF ServerNext, ListenerStep, OwnerStep

LEMMA InitTells == ServerInit => RegistrationSound /\ DisconnectionSound
BY ListenerPlaces, Telling
   DEF ServerInit, FreshServer, RegistrationSound, DisconnectionSound, Tells, Ends, Stages

LEMMA NextTells ==
  TellInv /\ [ServerNext]_serverVars => RegistrationSound' /\ DisconnectionSound'
<1> SUFFICES ASSUME TellInv, [ServerNext]_serverVars
             PROVE  RegistrationSound' /\ DisconnectionSound'
  OBVIOUS
<1> USE DEF TellInv, ownerVars, listenerVars, registry, channelVars
<1>0. ServerTypeOK'
  BY NextTypes
<1>1. ASSUME NEW c \in Conns, Accept(c)
      PROVE  RegistrationSound' /\ DisconnectionSound'
  BY <1>1, ListenerPlaces DEF Accept, RegistrationSound, DisconnectionSound, ServerTypeOK, Stages
<1>2. ASSUME NEW c \in Conns, RaiseAccepted(c)
      PROVE  RegistrationSound' /\ DisconnectionSound'
  BY <1>2, ListenerPlaces DEF RaiseAccepted, RegistrationSound, DisconnectionSound, ServerTypeOK, Stages
<1>3. ASSUME NEW c \in Conns, Register(c)
      PROVE  RegistrationSound' /\ DisconnectionSound'
  BY <1>3, ListenerPlaces
     DEF Register, RegisterWith, RegistrationSound, DisconnectionSound, ServerTypeOK, Stages, Tells
<1>4. ASSUME NEW c \in Conns, TellConnected(c)
      PROVE  RegistrationSound' /\ DisconnectionSound'
  <2>1. told[c] = <<>> /\ \A e \in Ends : at[c][e] = "none"
    BY <1>4 DEF TellConnected, RegistrationSound
  <2>2. \A d \in Conns : told'[d] = IF d = c THEN <<"connected">> ELSE told[d]
    BY <1>4, <2>1, Telling DEF TellConnected, ServerTypeOK
  <2>3. UNCHANGED <<link, at, connected>> /\ listener = <<"tell", c>> /\ listener' = <<"open", c>>
    BY <1>4 DEF TellConnected
  <2>4. RegistrationSound'
    BY <2>1, <2>2, <2>3, ListenerPlaces, Telling DEF RegistrationSound, Stages
  <2>5. DisconnectionSound'
    BY <2>1, <2>2, <2>3, Telling DEF DisconnectionSound, Tells
  <2> QED BY <2>4, <2>5
<1>5. ASSUME NEW c \in Conns, Open(c)
      PROVE  RegistrationSound' /\ DisconnectionSound'
  BY <1>5, ListenerPlaces
     DEF Open, RegistrationSound, DisconnectionSound, ServerTypeOK, Stages, Tells
<1>6. CASE StopListening \/ AcceptFails
  BY <1>6, ListenerPlaces
     DEF StopListening, AcceptFails, EndListener, RegistrationSound, DisconnectionSound, Stages
<1>7. ASSUME NEW c \in Conns, Receive(c) \/ Received(c)
      PROVE  RegistrationSound' /\ DisconnectionSound'
  <2> "receiver" \in Ends
    BY DEF Ends
  <2>1. PICK stage \in {"message", "running", "disconnect"} :
          Goto(c, "receiver", stage) /\ at[c]["receiver"] \in {"running", "message"}
    BY <1>7 DEF Receive, Received
  <2>2. \A d \in Conns, f \in Ends :
          at'[d][f] = IF d = c /\ f = "receiver" THEN stage ELSE at[d][f]
    BY <2>1, GotoPlace DEF ServerTypeOK, Places
  <2>3. UNCHANGED <<listener, link, told, connected>>
    BY <1>7 DEF Receive, Received
  <2> QED
    BY <2>1, <2>2, <2>3 DEF RegistrationSound, DisconnectionSound, Tells
<1>8. ASSUME NEW c \in Conns, NEW e \in Ends, EndNext(c, e)
      PROVE  RegistrationSound' /\ DisconnectionSound'
  <2>0. UNCHANGED listener /\ \A d \in Conns : link'[d] = "none" => link[d] = "none"
    BY <1>8 DEF EndNext, EndOfLink, Disconnect, ReadShuttingDown, RemoveClient, TellDisconnected,
                DeleteAsync, BeginFree, ServerTypeOK
  <2>1. CASE EndOfLink(c, e)
    <3>1. \A d \in Conns, f \in Ends :
            at'[d][f] = IF d = c /\ f = e THEN "disconnect" ELSE at[d][f]
      BY <2>1, GotoPlace DEF EndOfLink, ServerTypeOK, Places
    <3> QED
      BY <2>0, <2>1, <3>1 DEF EndOfLink, RegistrationSound, DisconnectionSound, Tells
  <2>2. CASE Disconnect(c, e)
    <3>1. \A d \in Conns, f \in Ends :
            at'[d][f] = IF d = c /\ f = e THEN IF connected[c] THEN "check" ELSE "ended"
                        ELSE at[d][f]
      BY <2>2, GotoPlace DEF Disconnect, ServerTypeOK, Places
    <3>2. \A d \in Conns : connected'[d] => d # c /\ connected[d]
      BY <2>2 DEF Disconnect, ServerTypeOK
    <3>3. connected[c] => told[c] = <<"connected">> /\ \A f \in Ends : ~Tells(at[c][f])
      BY <2>2 DEF Disconnect, DisconnectionSound, ServerTypeOK, Tellings
    <3>4. UNCHANGED told
      BY <2>2 DEF Disconnect
    <3>5. RegistrationSound'
      BY <2>0, <2>2, <3>1, <3>4 DEF Disconnect, RegistrationSound
    <3>6. DisconnectionSound'
      BY <2>2, <3>1, <3>2, <3>3, <3>4 DEF Disconnect, DisconnectionSound, Tells
    <3> QED BY <3>5, <3>6
  <2>3. CASE ReadShuttingDown(c, e) \/ RemoveClient(c, e)
    <3>1. PICK stage \in {"remove", "tell", "tellRemoved"} :
            Goto(c, e, stage) /\ Tells(at[c][e])
      BY <2>3 DEF ReadShuttingDown, RemoveClient, Tells
    <3>2. \A d \in Conns, f \in Ends :
            at'[d][f] = IF d = c /\ f = e THEN stage ELSE at[d][f]
      BY <3>1, GotoPlace DEF ServerTypeOK, Places
    <3>3. UNCHANGED <<link, told, connected>>
      BY <2>3 DEF ReadShuttingDown, RemoveClient
    <3> QED
      BY <2>0, <3>1, <3>2, <3>3 DEF RegistrationSound, DisconnectionSound, Tells
  <2>4. CASE TellDisconnected(c, e)
    <3>1. PICK stage \in {"ended", "delete"} : Goto(c, e, stage) /\ Tells(at[c][e])
      BY <2>4 DEF TellDisconnected, Tells
    <3>2. \A d \in Conns, f \in Ends :
            at'[d][f] = IF d = c /\ f = e THEN stage ELSE at[d][f]
      BY <3>1, GotoPlace DEF ServerTypeOK, Places
    <3>3. \A d \in Conns :
            told'[d] = IF d = c THEN <<"connected", "disconnected">> ELSE told[d]
      BY <2>4, <3>1, Telling DEF TellDisconnected, DisconnectionSound, ServerTypeOK
    <3>4. ~connected[c] /\ at[c][e] # "none" /\ UNCHANGED <<link, connected>>
      BY <2>4, <3>1 DEF TellDisconnected, DisconnectionSound
    <3>5. RegistrationSound'
      BY <2>0, <3>1, <3>2, <3>3, <3>4, Telling DEF RegistrationSound
    <3>6. DisconnectionSound'
      BY <3>1, <3>2, <3>3, <3>4, Telling DEF DisconnectionSound, Tells
    <3> QED BY <3>5, <3>6
  <2>5. CASE DeleteAsync(c, e)
    <3>1. \A d \in Conns, f \in Ends :
            at'[d][f] = IF d = c /\ f = e THEN "ended" ELSE at[d][f]
      BY <2>5, GotoPlace DEF DeleteAsync, ServerTypeOK, Places
    <3>2. at[c][e] = "delete" /\ UNCHANGED <<told, connected>>
      BY <2>5 DEF DeleteAsync
    <3> QED
      BY <2>0, <3>1, <3>2 DEF RegistrationSound, DisconnectionSound, Tells
  <2> QED BY <1>8, <2>1, <2>2, <2>3, <2>4, <2>5 DEF EndNext
<1>9. CASE Aside
  BY <1>9 DEF Aside, RegistrationSound, DisconnectionSound
<1>10. QED
  BY <1>1, <1>2, <1>3, <1>4, <1>5, <1>6, <1>7, <1>8, <1>9, AsideSteps


-------------------------------------------------------------------------------
(* Broadcasts *)

LEMMA InitBroadcast == ServerInit => LockSound /\ BroadcastSound
BY DEF ServerInit, FreshServer, LockSound, BroadcastSound

LEMMA NextBroadcast ==
  TellInv /\ [ServerNext]_serverVars => LockSound' /\ BroadcastSound'
<1> SUFFICES ASSUME TellInv, [ServerNext]_serverVars
             PROVE  LockSound' /\ BroadcastSound'
  OBVIOUS
<1> USE DEF TellInv, ownerVars, listenerVars, registry, channelVars
<1>1. CASE UNCHANGED <<owner, target, audience, reached, clients, lock>>
  BY <1>1 DEF LockSound, BroadcastSound
<1>2. ASSUME NEW c \in Conns, Register(c)
      PROVE  LockSound' /\ BroadcastSound'
  BY <1>2 DEF Register, RegisterWith, LockSound, BroadcastSound
<1>3. ASSUME NEW c \in Conns, NEW e \in Ends, RemoveClient(c, e)
      PROVE  LockSound' /\ BroadcastSound'
  BY <1>3 DEF RemoveClient, Unlocked, LockSound, BroadcastSound
<1>4. CASE Broadcast
  <2>1. Range(clients) = {clients[i] : i \in 1 .. Len(clients)}
    BY DEF Range, ServerTypeOK
  <2>2. audience' \subseteq Range(clients) /\ UNCHANGED clients
    BY <1>4 DEF Broadcast
  <2>3. {j \in 1 .. Len(clients) : j < 1} = {}
    BY DEF ServerTypeOK
  <2>4. owner' = "broadcast" /\ lock' = "owner" /\ target' = 1 /\ reached' = {}
    BY <1>4 DEF Broadcast
  <2> QED BY <2>1, <2>2, <2>3, <2>4 DEF LockSound, BroadcastSound
<1>5. CASE SendToNext
  <2> DEFINE c == clients[target]
  <2>1. UNCHANGED <<owner, lock, audience, clients>> /\ target' = target + 1
    BY <1>5 DEF SendToNext
  <2>2. owner = "broadcast" /\ reached' = reached \cup ({c} \cap audience)
    BY <1>5 DEF SendToNext
  <2>3. target \in 1 .. Len(clients)
    BY <1>5 DEF SendToNext, ServerTypeOK
  <2>4. {j \in 1 .. Len(clients) : j < target'} = {j \in 1 .. Len(clients) : j < target} \cup {target}
    BY <2>1, <2>3 DEF ServerTypeOK
  <2>5. {clients[i] : i \in {j \in 1 .. Len(clients) : j < target'}}
          = {clients[i] : i \in {j \in 1 .. Len(clients) : j < target}} \cup {c}
    BY <2>4
  <2> QED BY <2>1, <2>2, <2>5 DEF LockSound, BroadcastSound
<1>6. CASE EndBroadcast \/ UnsubscribeListener \/ CloseListener \/ JoinListener
  BY <1>6 DEF EndBroadcast, UnsubscribeListener, CloseListener, JoinListener, LockSound, BroadcastSound
<1>7. CASE BeginShutdown \/ EndShutdown
  BY <1>7 DEF BeginShutdown, EndShutdown, LockSound, BroadcastSound
<1>8. CASE FreeNext
  BY <1>8 DEF FreeNext, LockSound, BroadcastSound
<1>9. QED
  BY <1>1, <1>2, <1>3, <1>4, <1>5, <1>6, <1>7, <1>8
     DEF ServerNext, ListenerStep, EndNext, OwnerStep, StopListening, AcceptFails, EndListener, Accept, RaiseAccepted,
         TellConnected, Open, Leave, FreeAsync, Receive, Received, EndOfLink, Disconnect,
         ReadShuttingDown, TellDisconnected, DeleteAsync, CloseNext, serverVars

-------------------------------------------------------------------------------
(* The end *)

LEMMA InitShutdown == ServerInit => ListSound /\ ShutdownSound
BY DEF ServerInit, FreshServer, ListSound, ShutdownSound, Cleared, ThreadsEnded

\* remove_unordered takes off nothing but what it is to remove.
LEMMA RemovalKeeps ==
  ASSUME NEW s \in Seq(Conns), NEW x \in Conns, NEW k \in 1 .. Len(s), s[k] # x
  PROVE  \E i \in 1 .. Len(RemoveUnordered(s, x)) : RemoveUnordered(s, x)[i] = s[k]
<1>1. CASE x \notin Range(s)
  BY <1>1 DEF RemoveUnordered
<1>2. CASE x \in Range(s)
  <2> DEFINE j == CHOOSE i \in DOMAIN s : s[i] = x
             n == Len(s)
             t == [s EXCEPT ![j] = s[n]]
  <2>1. n \in Nat /\ n >= 1 /\ n \in 1 .. n
    OBVIOUS
  <2>2. j \in 1 .. n /\ s[j] = x
    BY <1>2 DEF Range
  <2>3. t \in Seq(Conns) /\ Len(t) = n
    BY <2>1, <2>2, ExceptSeq
  <2>4. /\ Front(t) \in Seq(Conns) /\ Len(Front(t)) = n - 1
        /\ \A i \in 1 .. n - 1 : Front(t)[i] = t[i]
    <3> HIDE DEF t
    <3> QED BY <2>1, <2>3 DEF Front
  <2>5. RemoveUnordered(s, x) = Front(t)
    BY <1>2 DEF RemoveUnordered, Last
  <2>6. \A i \in 1 .. n : t[i] = IF i = j THEN s[n] ELSE s[i]
    BY <2>2
  <2> HIDE DEF t, j
  <2>7. CASE k = n
    <3>1. j # n
      BY <2>2, <2>7
    <3>2. j \in 1 .. n - 1 /\ Front(t)[j] = s[k]
      BY <2>1, <2>2, <2>4, <2>6, <2>7, <3>1
    <3> QED BY <2>4, <2>5, <3>2
  <2>8. CASE k # n
    <3>1. k \in 1 .. n - 1 /\ k # j
      BY <2>1, <2>2, <2>8
    <3>2. Front(t)[k] = s[k]
      BY <2>4, <2>6, <3>1
    <3> QED BY <2>4, <2>5, <3>1, <3>2
  <2> QED BY <2>7, <2>8
<1> QED BY <1>1, <1>2

\* Steps that take no client off the list and start none of its threads.
LEMMA ListKeeps ==
  ASSUME ListSound, UNCHANGED clients,
         \A c \in Conns : Cleared(c) => Cleared(c)',
         \A c \in Conns :
           listener' \in {<<"tell", c>>, <<"open", c>>} =>
             /\ listener \in {<<"tell", c>>, <<"open", c>>}
             /\ \A e \in Ends : at'[c][e] = at[c][e],
         \A c \in Conns, e \in Ends :
           at'[c][e] = "delete" => told'[c] = <<"connected", "disconnected">>
  PROVE  ListSound'
BY DEF ListSound

\* A thread that goes on, neither from the beginning nor out of the way of its client.
LEMMA ThreadGoesOn ==
  ASSUME TellInv, ListSound, NEW c \in Conns, NEW e \in Ends, NEW stage \in Places, Goto(c, e, stage),
         at[c][e] \notin {"none", "ended", "tellRemoved", "delete"}, stage # "delete",
         UNCHANGED <<clients, listener, freeing, told>>
  PROVE  /\ ListSound'
         /\ \A d \in Conns : ThreadsEnded(d) => ThreadsEnded(d)'
<1>1. \A d \in Conns, f \in Ends : at'[d][f] = IF d = c /\ f = e THEN stage ELSE at[d][f]
  BY GotoPlace DEF TellInv, ServerTypeOK
<1>2. ASSUME NEW d \in Conns PROVE /\ ThreadsEnded(d) => ThreadsEnded(d)'
                                   /\ TakenOff(d) => TakenOff(d)'
  BY <1>1 DEF ThreadsEnded, TakenOff
<1>3. ASSUME NEW d \in Conns, listener' \in {<<"tell", d>>, <<"open", d>>}
      PROVE  \A f \in Ends : at'[d][f] = at[d][f]
  BY <1>1, <1>3 DEF ListSound
<1> QED
  BY <1>1, <1>2, <1>3, ListKeeps DEF Cleared, ListSound

LEMMA NextShutdown ==
  ASSUME TellInv, ListSound, ShutdownSound, [ServerNext]_serverVars
  PROVE  ListSound' /\ ShutdownSound'
<1> USE DEF ownerVars, listenerVars, registry, channelVars
<1>1. ASSUME NEW c \in Conns, Accept(c) \/ RaiseAccepted(c)
      PROVE  ListSound' /\ ShutdownSound'
  <2>1. /\ listener \in {<<"accept">>, <<"raise", c>>}
        /\ listener' \in {<<"accept">>, <<"raise", c>>, <<"register", c>>}
        /\ UNCHANGED <<owner, clients, at, freeing, told>>
    BY <1>1 DEF Accept, RaiseAccepted
  <2>2. ListSound'
    BY <2>1, ListKeeps, ListenerPlaces DEF Cleared, ThreadsEnded, TakenOff, ListSound, Stages
  <2>3. ShutdownSound'
    BY <2>1, ListenerPlaces DEF ShutdownSound, Stages
  <2> QED BY <2>2, <2>3
<1>2. ASSUME NEW c \in Conns, Register(c)
      PROVE  ListSound' /\ ShutdownSound'
  <2>1. /\ listener = <<"register", c>> /\ listener' = <<"tell", c>> /\ clients' = Append(clients, c)
        /\ at' = [at EXCEPT ![c] = [e \in Ends |-> "none"]]
        /\ UNCHANGED <<owner, target, freeing, told>>
    BY <1>2 DEF Register, RegisterWith
  <2>2. /\ \A e \in Ends : at[c][e] = "none"
        /\ clients \in Seq(Conns) /\ at \in [Conns -> [Ends -> Places]]
    BY <2>1 DEF TellInv, RegistrationSound, ServerTypeOK
  <2>3. \A d \in Conns, e \in Ends : at'[d][e] = at[d][e]
    BY <2>1, <2>2
  <2>4. /\ \A i \in 1 .. Len(clients) : i \in 1 .. Len(clients') /\ clients'[i] = clients[i]
        /\ \E i \in 1 .. Len(clients') : clients'[i] = c
    BY <2>1, <2>2
  <2>5. ASSUME NEW d \in Conns
        PROVE  /\ Cleared(d) => Cleared(d)'
               /\ listener' \in {<<"tell", d>>, <<"open", d>>} => d = c
    BY <2>1, <2>3, ListenerPlaces DEF Cleared, ThreadsEnded, TakenOff, Stages
  <2>6. ListSound'
    BY <2>1, <2>2, <2>3, <2>4, <2>5 DEF ListSound
  <2>7. listener # <<"ended">>
    BY <2>1, ListenerPlaces DEF Stages
  <2>8. ShutdownSound'
    BY <2>1, <2>7 DEF ShutdownSound
  <2> QED BY <2>6, <2>8
<1>3. ASSUME NEW c \in Conns, TellConnected(c)
      PROVE  ListSound' /\ ShutdownSound'
  <2>1. /\ listener = <<"tell", c>> /\ listener' = <<"open", c>>
        /\ told' = [told EXCEPT ![c] = Append(@, "connected")]
        /\ UNCHANGED <<owner, clients, at, freeing>>
    BY <1>3 DEF TellConnected
  <2>2. \A d \in Conns : d # c => told'[d] = told[d]
    BY <2>1 DEF TellInv, ServerTypeOK
  <2>3. \A e \in Ends : at[c][e] = "none"
    BY <2>1 DEF ListSound
  <2>4. ASSUME NEW d \in Conns
        PROVE  /\ Cleared(d) => Cleared(d)'
               /\ listener' \in {<<"tell", d>>, <<"open", d>>} => d = c
    <3>1. ThreadsEnded(c)'
      BY <2>1, <2>3 DEF ThreadsEnded
    <3>2. d # c /\ Cleared(d) => Cleared(d)'
      BY <2>1, <2>2 DEF Cleared, ThreadsEnded, TakenOff
    <3>3. listener' \in {<<"tell", d>>, <<"open", d>>} => d = c
      BY <2>1, ListenerPlaces DEF Stages
    <3> QED BY <3>1, <3>2, <3>3 DEF Cleared
  <2>5. ASSUME NEW d \in Conns, NEW e \in Ends, at'[d][e] = "delete"
        PROVE  told'[d] = <<"connected", "disconnected">>
    BY <2>1, <2>2, <2>3, <2>5 DEF ListSound
  <2>6. ListSound'
    BY <2>1, <2>4, <2>5, ListKeeps
  <2>7. listener # <<"ended">>
    BY <2>1, ListenerPlaces DEF Stages
  <2>8. ShutdownSound'
    BY <2>1, <2>7 DEF ShutdownSound
  <2> QED BY <2>6, <2>8
<1>4. ASSUME NEW c \in Conns, Open(c)
      PROVE  ListSound' /\ ShutdownSound'
  <2>1. /\ listener = <<"open", c>> /\ listener' = <<"accept">>
        /\ at' = [at EXCEPT ![c] = [e \in Ends |-> IF @[e] = "none" THEN "running" ELSE @[e]]]
        /\ UNCHANGED <<owner, clients, freeing, told>>
    BY <1>4 DEF Open
  <2>2. /\ \E i \in 1 .. Len(clients) : clients[i] = c
        /\ \A e \in Ends : at[c][e] = "none"
    BY <2>1 DEF ListSound
  <2>3. /\ \A d \in Conns, e \in Ends : d # c => at'[d][e] = at[d][e]
        /\ \A e \in Ends : at'[c][e] = "running"
    BY <2>1, <2>2 DEF TellInv, ServerTypeOK
  <2>4. ASSUME NEW d \in Conns, d # c, Cleared(d) PROVE Cleared(d)'
    BY <2>1, <2>3, <2>4 DEF Cleared, ThreadsEnded, TakenOff
  <2>5. \A d \in Conns : listener' # <<"tell", d>> /\ listener' # <<"open", d>>
    BY <2>1, ListenerPlaces DEF Stages
  <2>6. ListSound'
    BY <2>1, <2>2, <2>3, <2>4, <2>5 DEF ListSound
  <2>7. listener # <<"ended">>
    BY <2>1, ListenerPlaces DEF Stages
  <2>8. ShutdownSound'
    BY <2>1, <2>7 DEF ShutdownSound
  <2> QED BY <2>6, <2>8
<1>5. CASE StopListening \/ AcceptFails
  <2>1. /\ listener' = <<"ended">> /\ UNCHANGED <<owner, target, clients, at, freeing, told>>
    BY <1>5 DEF StopListening, AcceptFails, EndListener
  <2>2. ListSound'
    BY <2>1, ListKeeps, ListenerPlaces DEF Cleared, ThreadsEnded, TakenOff, ListSound, Stages
  <2>3. ShutdownSound'
    BY <2>1 DEF ShutdownSound, ThreadsEnded
  <2> QED BY <2>2, <2>3
\* A step of a thread while the owner does not go on.
<1>6. ASSUME UNCHANGED <<owner, target, clients, listener>>, \A c \in Conns : ThreadsEnded(c) => ThreadsEnded(c)'
      PROVE  ShutdownSound'
  BY <1>6 DEF ShutdownSound, TellInv, ServerTypeOK
<1>7. ASSUME NEW c \in Conns, Receive(c) \/ Received(c)
      PROVE  ListSound' /\ ShutdownSound'
  <2>1. PICK stage \in Places :
          /\ Goto(c, "receiver", stage) /\ stage # "delete"
          /\ at[c]["receiver"] \notin {"none", "ended", "tellRemoved", "delete"}
    BY <1>7 DEF Receive, Received, Places
  <2>2. UNCHANGED <<owner, target, clients, listener, freeing, told>> /\ "receiver" \in Ends
    BY <1>7 DEF Receive, Received, Ends
  <2> QED
    BY <2>1, <2>2, <1>6, ThreadGoesOn
<1>8. ASSUME NEW c \in Conns, NEW e \in Ends, EndOfLink(c, e) \/ Disconnect(c, e) \/ ReadShuttingDown(c, e)
      PROVE  ListSound' /\ ShutdownSound'
  <2>1. PICK stage \in Places :
          /\ Goto(c, e, stage) /\ stage # "delete"
          /\ at[c][e] \notin {"none", "ended", "tellRemoved", "delete"}
    BY <1>8 DEF EndOfLink, Disconnect, ReadShuttingDown, Places
  <2>2. UNCHANGED <<owner, target, clients, listener, freeing, told>>
    BY <1>8 DEF EndOfLink, Disconnect, ReadShuttingDown
  <2> QED
    BY <2>1, <2>2, <1>6, ThreadGoesOn
<1>9. ASSUME NEW c \in Conns, NEW e \in Ends, RemoveClient(c, e)
      PROVE  ListSound' /\ ShutdownSound'
  <2>1. /\ at[c][e] = "remove" /\ lock = "free" /\ clients' = RemoveUnordered(clients, c)
        /\ Goto(c, e, "tellRemoved") /\ "tellRemoved" \in Places
        /\ UNCHANGED <<owner, target, listener, freeing, told>>
    BY <1>9 DEF RemoveClient, Unlocked, Places
  <2>2. /\ \A d \in Conns, f \in Ends : at'[d][f] = IF d = c /\ f = e THEN "tellRemoved" ELSE at[d][f]
        /\ clients \in Seq(Conns)
    BY <2>1, GotoPlace DEF TellInv, ServerTypeOK
  <2>3. TakenOff(c)'
    BY <2>2 DEF TakenOff
  <2>4. ASSUME NEW d \in Conns, d # c
        PROVE  /\ Cleared(d) => Cleared(d)'
               /\ (\E i \in 1 .. Len(clients) : clients[i] = d) =>
                    \E i \in 1 .. Len(clients') : clients'[i] = d
    <3>1. Cleared(d) => Cleared(d)'
      BY <2>1, <2>2, <2>4 DEF Cleared, ThreadsEnded, TakenOff
    <3>2. ASSUME NEW k \in 1 .. Len(clients), clients[k] = d
          PROVE  \E i \in 1 .. Len(clients') : clients'[i] = d
      BY <2>1, <2>2, <2>4, <3>2, RemovalKeeps
    <3> QED BY <3>1, <3>2
  <2>5. listener \notin {<<"tell", c>>, <<"open", c>>}
    BY <2>1 DEF ListSound
  <2>6. ListSound'
    <3> SUFFICES ASSUME NEW d \in Conns
                 PROVE  /\ (\E i \in 1 .. Len(clients') : clients'[i] = d) \/ Cleared(d)'
                        /\ listener' \in {<<"tell", d>>, <<"open", d>>} =>
                             (\E i \in 1 .. Len(clients') : clients'[i] = d) /\ \A f \in Ends : at'[d][f] = "none"
                        /\ \A f \in Ends : at'[d][f] = "delete" => told'[d] = <<"connected", "disconnected">>
      BY DEF ListSound
    <3>1. (\E i \in 1 .. Len(clients') : clients'[i] = d) \/ Cleared(d)'
      BY <2>3, <2>4 DEF ListSound, Cleared
    <3>2. listener' \in {<<"tell", d>>, <<"open", d>>} =>
            (\E i \in 1 .. Len(clients') : clients'[i] = d) /\ \A f \in Ends : at'[d][f] = "none"
      BY <2>1, <2>2, <2>4, <2>5 DEF ListSound
    <3>3. \A f \in Ends : at'[d][f] = "delete" => told'[d] = <<"connected", "disconnected">>
      BY <2>1, <2>2 DEF ListSound
    <3> QED BY <3>1, <3>2, <3>3
  <2>7. owner # "clearing"
    BY <2>1 DEF TellInv, LockSound
  <2>8. clients = <<>> => clients' = <<>>
    BY <2>1 DEF RemoveUnordered, Range
  <2>9. ShutdownSound'
    BY <2>1, <2>7, <2>8 DEF ShutdownSound
  <2> QED BY <2>6, <2>9
<1>10. ASSUME NEW c \in Conns, NEW e \in Ends, TellDisconnected(c, e)
       PROVE  ListSound' /\ ShutdownSound'
  <2>1. /\ at[c][e] \in {"tell", "tellRemoved"}
        /\ told' = [told EXCEPT ![c] = Append(@, "disconnected")]
        /\ Goto(c, e, IF at[c][e] = "tell" THEN "ended" ELSE "delete")
        /\ UNCHANGED <<owner, target, clients, listener, freeing>>
    BY <1>10 DEF TellDisconnected
  <2>2. /\ \A d \in Conns, f \in Ends :
             at'[d][f] = IF d = c /\ f = e THEN IF at[c][e] = "tell" THEN "ended" ELSE "delete" ELSE at[d][f]
        /\ told \in [Conns -> Tellings]
    BY <2>1, GotoPlace DEF TellInv, ServerTypeOK, Places
  <2>3. /\ told'[c] = <<"connected", "disconnected">>
        /\ \A d \in Conns : d # c => told'[d] = told[d]
    <3>1. told[c] = <<"connected">>
      BY <2>1 DEF TellInv, DisconnectionSound, Tells
    <3> QED BY <2>1, <2>2, <3>1, Telling
  <2>4. ASSUME NEW d \in Conns
        PROVE  /\ ThreadsEnded(d) => ThreadsEnded(d)'
               /\ TakenOff(d) => TakenOff(d)'
    <3>1. ThreadsEnded(d) => ThreadsEnded(d)'
      BY <2>1, <2>2 DEF ThreadsEnded
    <3>2. TakenOff(d) => TakenOff(d)'
      BY <2>1, <2>2, <2>3 DEF TakenOff
    <3> QED BY <3>1, <3>2
  <2>5. ASSUME NEW d \in Conns, NEW f \in Ends, at'[d][f] = "delete"
        PROVE  told'[d] = <<"connected", "disconnected">>
    BY <2>2, <2>3, <2>5 DEF ListSound
  <2>6. ASSUME NEW d \in Conns, listener' \in {<<"tell", d>>, <<"open", d>>}
        PROVE  /\ listener \in {<<"tell", d>>, <<"open", d>>}
               /\ \A f \in Ends : at'[d][f] = at[d][f]
    BY <2>1, <2>2, <2>6 DEF ListSound
  <2>7. ListSound'
    BY <2>1, <2>4, <2>5, <2>6, ListKeeps DEF Cleared
  <2> QED BY <2>1, <2>4, <2>7, <1>6
<1>11. ASSUME NEW c \in Conns, NEW e \in Ends, DeleteAsync(c, e)
       PROVE  ListSound' /\ ShutdownSound'
  <2>1. /\ at[c][e] = "delete" /\ freeing' = [freeing EXCEPT ![c] = "joining"]
        /\ Goto(c, e, "ended") /\ "ended" \in Places
        /\ UNCHANGED <<owner, target, clients, listener, told>>
    BY <1>11 DEF DeleteAsync, BeginFree, Places
  <2>2. /\ \A d \in Conns, f \in Ends : at'[d][f] = IF d = c /\ f = e THEN "ended" ELSE at[d][f]
        /\ freeing'[c] = "joining" /\ \A d \in Conns : d # c => freeing'[d] = freeing[d]
        /\ told'[c] = <<"connected", "disconnected">>
    BY <2>1, GotoPlace DEF TellInv, ServerTypeOK, ListSound
  <2>3. ASSUME NEW d \in Conns
        PROVE  /\ ThreadsEnded(d) => ThreadsEnded(d)'
               /\ TakenOff(d) => TakenOff(d)'
    BY <2>1, <2>2 DEF ThreadsEnded, TakenOff
  <2>4. ASSUME NEW d \in Conns, NEW f \in Ends, at'[d][f] = "delete"
        PROVE  told'[d] = <<"connected", "disconnected">>
    BY <2>1, <2>2, <2>4 DEF ListSound
  <2>5. ASSUME NEW d \in Conns, listener' \in {<<"tell", d>>, <<"open", d>>}
        PROVE  /\ listener \in {<<"tell", d>>, <<"open", d>>}
               /\ \A f \in Ends : at'[d][f] = at[d][f]
    BY <2>1, <2>2, <2>5 DEF ListSound
  <2>6. ListSound'
    BY <2>1, <2>3, <2>4, <2>5, ListKeeps DEF Cleared
  <2> QED BY <2>1, <2>3, <2>6, <1>6
<1>12. ASSUME NEW c \in Conns, FreeAsync(c)
       PROVE  ListSound' /\ ShutdownSound'
  <2>1. /\ freeing' = [freeing EXCEPT ![c] = "freed"] /\ ThreadsEnded(c)
        /\ UNCHANGED <<owner, target, clients, listener, at, told>>
    BY <1>12 DEF FreeAsync
  <2>2. ASSUME NEW d \in Conns
        PROVE  /\ ThreadsEnded(d) => ThreadsEnded(d)'
               /\ Cleared(d) => Cleared(d)'
    BY <2>1 DEF Cleared, ThreadsEnded, TakenOff, TellInv, ServerTypeOK
  <2>3. ListSound'
    BY <2>1, <2>2, ListKeeps DEF ListSound
  <2> QED BY <2>1, <2>2, <2>3, <1>6
\* Steps of the owner and of the peers that move no thread.
<1>13. ASSUME UNCHANGED <<clients, listener, at, freeing, told>>
       PROVE  ListSound' /\ \A c \in Conns : ThreadsEnded(c) => ThreadsEnded(c)'
  BY <1>13, ListKeeps DEF Cleared, ThreadsEnded, TakenOff, ListSound
<1>14. ASSUME NEW c \in Conns, Leave(c)
       PROVE  ListSound' /\ ShutdownSound'
  BY <1>14, <1>6, <1>13 DEF Leave
<1>15. CASE Broadcast \/ SendToNext \/ EndBroadcast \/ UnsubscribeListener \/ CloseListener \/ JoinListener
  <2>1. /\ UNCHANGED <<clients, listener, at, freeing, told>>
        /\ owner' \in {"broadcast", "using", "closing", "joining", "locking"}
        /\ owner' = "locking" => listener = <<"ended">>
    BY <1>15 DEF Broadcast, SendToNext, EndBroadcast, UnsubscribeListener, CloseListener, JoinListener
  <2>2. ShutdownSound'
    BY <2>1 DEF ShutdownSound
  <2> QED BY <1>13, <2>1, <2>2
<1>16. CASE BeginShutdown
  <2>1. /\ owner = "locking" /\ owner' = "clearing" /\ target' = 1
        /\ UNCHANGED <<clients, listener, at, freeing, told>>
    BY <1>16 DEF BeginShutdown
  <2>2. ShutdownSound'
    BY <2>1 DEF ShutdownSound, TellInv, ServerTypeOK
  <2> QED BY <1>13, <2>1, <2>2
<1>17. CASE CloseNext
  <2>1. /\ target \in 1 .. Len(clients) /\ freeing[clients[target]] = "none"
        /\ freeing' = [freeing EXCEPT ![clients[target]] = "joining"]
        /\ UNCHANGED <<owner, target, clients, listener, at, told>>
    BY <1>17 DEF CloseNext, BeginFree, TellInv, ServerTypeOK
  <2>2. ASSUME NEW d \in Conns
        PROVE  /\ ThreadsEnded(d) => ThreadsEnded(d)'
               /\ Cleared(d) => Cleared(d)'
    BY <2>1 DEF Cleared, ThreadsEnded, TakenOff
  <2>3. ListSound'
    BY <2>1, <2>2, ListKeeps DEF ListSound
  <2> QED BY <2>1, <2>2, <2>3, <1>6
<1>18. CASE FreeNext
  <2> DEFINE x == clients[target]
  <2>1. /\ owner = "clearing" /\ target \in 1 .. Len(clients) /\ ThreadsEnded(x)
        /\ freeing' = [freeing EXCEPT ![x] = "freed"]
        /\ target' = target + 1 /\ UNCHANGED <<owner, clients, listener, at, told>>
    BY <1>18 DEF FreeNext, TellInv, ServerTypeOK
  <2>2. x \in Conns /\ clients \in Seq(Conns)
    BY <2>1 DEF TellInv, ServerTypeOK
  <2>3. \A d \in Conns : ThreadsEnded(d) => ThreadsEnded(d)'
    BY <2>1 DEF ThreadsEnded
  <2>4. ASSUME NEW d \in Conns, Cleared(d) PROVE Cleared(d)'
    <3>1. CASE d = x
      BY <2>1, <2>3, <3>1, <2>2 DEF Cleared
    <3>2. CASE d # x
      <4> HIDE DEF x
      <4> QED BY <2>1, <2>4, <3>2 DEF Cleared, ThreadsEnded, TakenOff
    <3> QED BY <3>1, <3>2
  <2>5. ListSound'
    BY <2>1, <2>4, ListKeeps DEF ListSound
  <2>6. ASSUME NEW i \in 1 .. Len(clients), i < target + 1 PROVE ThreadsEnded(clients[i])'
    <3>1. clients[i] \in Conns /\ (i = target \/ i < target)
      BY <2>1, <2>2, <2>6
    <3>2. ThreadsEnded(clients[i])
      BY <2>1, <3>1 DEF ShutdownSound
    <3> QED BY <2>1, <2>3, <3>1, <3>2
  <2>7. ShutdownSound'
    BY <2>1, <2>6 DEF ShutdownSound
  <2> QED BY <2>5, <2>7
<1>19. CASE EndShutdown
  <2>1. /\ owner = "clearing" /\ target > Len(clients) /\ clients' = <<>> /\ owner' = "gone"
        /\ UNCHANGED <<listener, at, freeing, told>>
    BY <1>19 DEF EndShutdown
  <2>2. ASSUME NEW c \in Conns PROVE Cleared(c) /\ (Cleared(c) => Cleared(c)')
    <3>1. Cleared(c) => Cleared(c)'
      BY <2>1 DEF Cleared, ThreadsEnded, TakenOff
    <3>2. ASSUME NEW i \in 1 .. Len(clients), clients[i] = c PROVE Cleared(c)
      BY <2>1, <3>2 DEF ShutdownSound, Cleared, TellInv, ServerTypeOK
    <3> QED BY <3>1, <3>2 DEF ListSound
  <2>3. listener = <<"ended">>
    BY <2>1 DEF ShutdownSound
  <2>4. \A c \in Conns : listener' # <<"tell", c>> /\ listener' # <<"open", c>>
    BY <2>1, <2>3, ListenerPlaces DEF Stages
  <2>5. ListSound'
    BY <2>1, <2>2, <2>4 DEF ListSound
  <2>6. ShutdownSound'
    BY <2>1, <2>3 DEF ShutdownSound
  <2> QED BY <2>5, <2>6
<1>20. CASE UNCHANGED serverVars
  BY <1>20, <1>6, <1>13 DEF serverVars
<1>21. QED
  BY <1>1, <1>2, <1>3, <1>4, <1>5, <1>7, <1>8, <1>9, <1>10, <1>11, <1>12, <1>14, <1>15, <1>16, <1>17,
     <1>18, <1>19, <1>20
     DEF ServerNext, ListenerStep, EndNext, OwnerStep

-------------------------------------------------------------------------------
(* Theorems *)

\* What always holds of the server.
LEMMA ServerIsSound == ServerSpec => []TellInv
<1>1. ServerInit => TellInv
  BY InitTypes, InitTells, InitBroadcast DEF TellInv
<1>2. TellInv /\ [ServerNext]_serverVars => TellInv'
  BY NextTypes, NextTells, NextBroadcast DEF TellInv
<1>3. QED
  BY <1>1, <1>2, PTL DEF ServerSpec

\* The variables of the server keep their types.
THEOREM ServerTypeCorrect == ServerSpec => []ServerTypeOK
<1>1. TellInv => ServerTypeOK
  BY DEF TellInv
<1>2. QED
  BY <1>1, ServerIsSound, PTL

\* ToldInOrder (MessagingServer.cpp:82): client_connected is raised of a client first, and
\* client_disconnected at most once, whichever thread of its channel sees the end.
THEOREM ClientsAreToldOf == ServerSpec => []ToldInOrder
<1>1. TellInv => ToldInOrder
  BY DEF TellInv, ServerTypeOK, Tellings, DisconnectionSound, ToldInOrder
<1>2. QED
  BY <1>1, ServerIsSound, PTL

\* BroadcastReachesAll (MessagingServer.cpp:40): a broadcast that ran to its end was queued
\* for its audience, although clients come and go.
THEOREM BroadcastsReachAll == ServerSpec => []BroadcastReachesAll
<1>1. TellInv => BroadcastReachesAll
  <2> SUFFICES ASSUME TellInv, owner = "broadcast", target > Len(clients)
               PROVE  reached = audience
    BY DEF BroadcastReachesAll
  <2>1. {j \in 1 .. Len(clients) : j < target} = 1 .. Len(clients)
    BY DEF TellInv, ServerTypeOK
  <2> QED BY <2>1 DEF TellInv, BroadcastSound
<1>2. QED
  BY <1>1, ServerIsSound, PTL

\* OnlyTheRemovedLinger (MessagingServer.cpp:19): whenever the owner destroys the server, and
\* whatever its clients do meanwhile, the threads that it does not join are those of clients
\* that a handler had taken off the list; none of them still reads the flag or takes the lock.
THEOREM OnlyRemovedAreLeft == ServerSpec => []OnlyTheRemovedLinger
<1>1. ServerInit => ListSound /\ ShutdownSound
  BY InitShutdown
<1>2. TellInv /\ ListSound /\ ShutdownSound /\ [ServerNext]_serverVars => ListSound' /\ ShutdownSound'
  BY NextShutdown
<1>3. TellInv /\ ListSound /\ ShutdownSound => OnlyTheRemovedLinger
  <2> SUFFICES ASSUME TellInv, ListSound, ShutdownSound, owner = "gone", NEW c \in Conns, NEW e \in Ends,
                      at[c][e] \in {"check", "remove", "tell", "message", "tellRemoved"}
               PROVE  at[c][e] \notin {"check", "remove", "tell"} /\ IsLeaving(c)
    BY DEF OnlyTheRemovedLinger, ShutdownSound
  <2>1. Cleared(c) /\ ~ThreadsEnded(c)
    BY DEF ListSound, ShutdownSound, ThreadsEnded
  <2>2. TakenOff(c)
    BY <2>1 DEF Cleared
  <2>3. IsLeaving(c)
    BY <2>2 DEF TakenOff, IsLeaving
  <2>4. at[c][e] \notin {"check", "remove", "tell"}
    BY <2>2, Telling DEF TakenOff, ListSound, TellInv, DisconnectionSound, Tells
  <2> QED BY <2>3, <2>4
<1>4. QED
  BY <1>1, <1>2, <1>3, ServerIsSound, PTL DEF ServerSpec

-------------------------------------------------------------------------------
(* The client *)

ClientSpec == ClientInit /\ [][ClientNext]_clientVars

ClientPlaces ==
  {"loop", "connecting", "reset", "publish", "open", "wait", "clean", "pause", "ended"}

ClientTypeOK ==
  /\ user \in {"using", "setting", "joining", "gone"}
  /\ stopping \in BOOLEAN /\ signal \in BOOLEAN /\ alive \in BOOLEAN /\ reachable \in BOOLEAN
  /\ place \in ClientPlaces
  /\ channel \in {"none", "fresh", "open", "closed"}
  /\ sender \in {"none", "running", "setting", "ended"}
  /\ receiver \in {"none", "running", "handling", "ended"}

\* The owner sets the event only after the flag.
OwnerSound == user # "using" => stopping

\* Threads run only while the connection thread waits for the end or causes it, and the
\* sender reports only an end that has come.
ChannelSound ==
  /\ sender # "none" => place \in {"wait", "clean"}
  /\ sender = "setting" => ~alive

\* Between reset() and the next wait the event says what it should: the client goes or the
\* connection is lost.  Without the reset it could be set since the channel before.
SignalSound ==
  place \in {"publish", "open", "wait"} /\ signal => stopping \/ ~alive

ClientInv == ClientTypeOK /\ OwnerSound /\ ChannelSound /\ SignalSound /\ DropsOnlyLost

-------------------------------------------------------------------------------

LEMMA InitClient == ClientInit => ClientInv
BY DEF ClientInit, Unconnected, ClientInv, ClientTypeOK, ClientPlaces, OwnerSound, ChannelSound, SignalSound,
       DropsOnlyLost

LEMMA NextClient == ClientInv /\ [ClientNext]_clientVars => ClientInv'
<1> SUFFICES ASSUME ClientInv, [ClientNext]_clientVars
             PROVE  ClientInv'
  OBVIOUS
<1> USE DEF ClientInv, ClientTypeOK, ClientPlaces, OwnerSound, ChannelSound, SignalSound, DropsOnlyLost
<1>1. CASE ServerStarts
  BY <1>1 DEF ServerStarts
<1>2. CASE ServerStops
  BY <1>2 DEF ServerStops
<1>3. CASE LinkBreaks
  BY <1>3 DEF LinkBreaks
<1>4. CASE TestStopping
  BY <1>4 DEF TestStopping, Go
<1>5. CASE GetChannel
  BY <1>5 DEF GetChannel, Go
<1>6. CASE ResetSignal
  BY <1>6 DEF ResetSignal, ResetWakeup, Go
<1>7. CASE PublishChannel
  BY <1>7 DEF PublishChannel, Go
<1>8. CASE OpenChannel
  BY <1>8 DEF OpenChannel, Go
<1>9. CASE Awake
  BY <1>9 DEF Awake, Go
<1>10. CASE CloseChannel
  BY <1>10 DEF CloseChannel
<1>11. CASE DropChannel
  BY <1>11 DEF DropChannel, Go
<1>12. CASE Pause
  BY <1>12 DEF Pause, Go
<1>13. CASE Report
  BY <1>13 DEF Report
<1>14. CASE ReportEnd
  BY <1>14 DEF ReportEnd, Wake
<1>15. CASE Message
  BY <1>15 DEF Message
<1>16. CASE Handled
  BY <1>16 DEF Handled
<1>17. CASE ReceiverEnds
  BY <1>17 DEF ReceiverEnds
<1>18. CASE Stop
  BY <1>18 DEF Stop
<1>19. CASE SetWakeup
  BY <1>19 DEF SetWakeup, SignalStop
<1>20. CASE Join
  BY <1>20 DEF Join
<1>21. CASE UNCHANGED clientVars
  BY <1>21 DEF clientVars
<1>22. QED
  BY <1>1, <1>2, <1>3, <1>4, <1>5, <1>6, <1>7, <1>8, <1>9, <1>10, <1>11, <1>12, <1>13, <1>14, <1>15, <1>16, <1>17, <1>18, <1>19, <1>20, <1>21
     DEF ClientNext, ConnectNext, SenderNext, ReceiverNext

\* DropsOnlyLost (MessagingClient.cpp:89): _channel.reset() meets an open channel only when the
\* connection is lost or the destructor has begun.
THEOREM HealthyChannelsAreKept == ClientSpec => []DropsOnlyLost
<1>1. ClientInv => DropsOnlyLost
  BY DEF ClientInv
<1>2. QED
  BY <1>1, InitClient, NextClient, PTL DEF ClientSpec
===============================================================================
