--------------------------- MODULE AsyncOperations ---------------------------
(***************************************************************************)
(* Work in background threads that report to another one: the source of an  *)
(* asynchronous operation, which the workers update under its lock; the     *)
(* operation, which forwards its event and may be cancelled; and the manual *)
(* dispatcher, through which a handler has every state shown on the thread  *)
(* of the owner, who starts and joins the workers.                          *)
(***************************************************************************)
EXTENDS Naturals, SequencesExt

CONSTANTS
  Workers,     \* background threads
  Progresses, Messages,   \* what they report
  MaxUpdates   \* updates of a behaviour

VARIABLES
  info,        \* the state of the source, with the number of its last update
  holder,      \* who holds the source's lock
  worker,      \* what each background thread does
  exiting,     \* the workers whose exiting event is set
  source,      \* the operation's source: none, set, or set and destroyed
  setAt,       \* the updates whose event had been raised when the source was set
  workItems,   \* the dispatcher's queue
  ownerThread, \* what the owner's thread does: the work item it runs, whom it joins
  shown        \* the states shown so far, the last one last

asyncVars == <<info, holder, worker, exiting, source, setAt, workItems, ownerThread, shown>>

NoProgress == "NaN"
NoMessage == ""
Nobody == "nobody"

ASSUME AsyncAssumption == Nobody \notin Workers /\ MaxUpdates \in Nat

AtRest == [does |-> "idle"]

-------------------------------------------------------------------------------
(* The source: update_state and its four overloads *)

\* Mutant: the lock is given back before the event is raised.
LockBriefly(w) == holder = Nobody /\ w \in Workers /\ UNCHANGED holder

\* A worker takes the lock.
Lock(w) == holder = Nobody /\ holder' = w

\* The parts of the state that are given are assigned; the event is raised under the lock.
UpdateState(w, state, progress, message) ==
  /\ worker[w] = "working" /\ source # "destroyed" /\ info.update < MaxUpdates
  /\ Lock(w)
  /\ info' = [info EXCEPT !.state = state, !.update = @ + 1,
                          !.progress = IF progress = NoProgress THEN @ ELSE progress,
                          !.message = IF message = NoMessage THEN @ ELSE message]
  /\ worker' = [worker EXCEPT ![w] = "raising"]
  /\ UNCHANGED <<exiting, source, setAt, workItems, ownerThread, shown>>

States == {"working", "succeeded", "failed", "cancelled"}

ReportAll(w) ==
  \E state \in States, progress \in Progresses \cup {NoProgress}, message \in Messages \cup {NoMessage} :
    UpdateState(w, state, progress, message)

ReportState(w) ==
  \E state \in States, message \in Messages \cup {NoMessage} : UpdateState(w, state, NoProgress, message)

ReportProgress(w) ==
  \E progress \in Progresses \cup {NoProgress}, message \in Messages \cup {NoMessage} :
    UpdateState(w, "working", progress, message)

ReportMessage(w) == \E message \in Messages : UpdateState(w, "working", NoProgress, message)

InvokeAsync(callback) == workItems' = Append(workItems, callback)

\* The operation forwards the event, and its handler puts a work item with the state it is
\* told into the dispatcher's queue.
OnStateChanged(w) ==
  /\ worker[w] = "raising"
  /\ IF source = "none" THEN UNCHANGED workItems ELSE InvokeAsync(info)
  /\ worker' = [worker EXCEPT ![w] = "raised"]
  /\ UNCHANGED <<info, holder, exiting, source, setAt, ownerThread, shown>>

Unlock(w) ==
  /\ worker[w] = "raised"
  /\ holder' = IF holder = w THEN Nobody ELSE holder
  /\ worker' = [worker EXCEPT ![w] = "working"]
  /\ UNCHANGED <<info, exiting, source, setAt, workItems, ownerThread, shown>>

-------------------------------------------------------------------------------
(* The operation *)

SetSource ==
  /\ ownerThread = AtRest /\ source = "none"
  /\ source' = "set"
  /\ setAt' = IF \E w \in Workers : worker[w] = "raising" THEN info.update - 1 ELSE info.update
  /\ UNCHANGED <<info, holder, worker, exiting, workItems, ownerThread, shown>>

\* The flag is set without the lock.
Cancel ==
  /\ ownerThread = AtRest /\ source = "set"
  /\ info' = [info EXCEPT !.is_cancelled = TRUE]
  /\ UNCHANGED <<holder, worker, exiting, source, setAt, workItems, ownerThread, shown>>

\* state() waits for the lock: the owner sees what was last assigned.
AskState ==
  /\ ownerThread = AtRest /\ source = "set" /\ holder = Nobody
  /\ ownerThread' = [does |-> "knows", info |-> info]
  /\ UNCHANGED <<info, holder, worker, exiting, source, setAt, workItems, shown>>

\* A worker that checks and finds the operation cancelled throws, which its thread catches.
ThrowIfCancelled(w) ==
  /\ worker[w] = "working" /\ source # "destroyed" /\ info.is_cancelled
  /\ worker' = [worker EXCEPT ![w] = "ended"]
  /\ UNCHANGED <<info, holder, exiting, source, setAt, workItems, ownerThread, shown>>

\* The source is a local variable of the work: it goes with the last worker, and the
\* operation goes on pointing at it.
DestroySource ==
  /\ source = "set" /\ \A w \in Workers : worker[w] \in {"ended", "joined"}
  /\ source' = "destroyed"
  /\ UNCHANGED <<info, holder, worker, exiting, setAt, workItems, ownerThread, shown>>

-------------------------------------------------------------------------------
(* The dispatcher, drained by the owner *)

TakeWorkItem ==
  /\ ownerThread.does \in {"idle", "knows"} /\ workItems # <<>>
  /\ ownerThread' = [does |-> "runs", item |-> Head(workItems)]
  /\ workItems' = Tail(workItems)
  /\ UNCHANGED <<info, holder, worker, exiting, source, setAt, shown>>

\* Run without the queue's lock.
RunWorkItem ==
  /\ ownerThread.does = "runs"
  /\ shown' = Append(shown, ownerThread.item)
  /\ ownerThread' = AtRest
  /\ UNCHANGED <<info, holder, worker, exiting, source, setAt, workItems>>

ReturnFromState ==
  /\ ownerThread.does = "knows" /\ ownerThread' = AtRest
  /\ UNCHANGED <<info, holder, worker, exiting, source, setAt, workItems, shown>>

-------------------------------------------------------------------------------
(* Background threads *)

StartWorker(w) ==
  /\ ownerThread = AtRest /\ worker[w] = "none"
  /\ worker' = [worker EXCEPT ![w] = "working"]
  /\ UNCHANGED <<info, holder, exiting, source, setAt, workItems, ownerThread, shown>>

\* The work is done, or the thread was asked to exit.
EndWork(w) ==
  /\ worker[w] = "working"
  /\ worker' = [worker EXCEPT ![w] = "ended"]
  /\ UNCHANGED <<info, holder, exiting, source, setAt, workItems, ownerThread, shown>>

\* reset() asks the thread to exit and waits for it, whatever it is at.
BeginReset(w) ==
  /\ ownerThread = AtRest /\ worker[w] \notin {"none", "joined"}
  /\ exiting' = exiting \cup {w}
  /\ ownerThread' = [does |-> "joins", worker |-> w]
  /\ UNCHANGED <<info, holder, worker, source, setAt, workItems, shown>>

FinishReset ==
  /\ ownerThread.does = "joins" /\ worker[ownerThread.worker] = "ended"
  /\ worker' = [worker EXCEPT ![ownerThread.worker] = "joined"]
  /\ ownerThread' = AtRest
  /\ UNCHANGED <<info, holder, exiting, source, setAt, workItems, shown>>

-------------------------------------------------------------------------------
AsyncInit ==
  /\ info = [is_cancelled |-> FALSE, state |-> "idle", progress |-> NoProgress, message |-> NoMessage, update |-> 0]
  /\ holder = Nobody /\ worker = [w \in Workers |-> "none"] /\ exiting = {}
  /\ source = "none" /\ setAt = 0
  /\ workItems = <<>> /\ ownerThread = AtRest /\ shown = <<>>

WorkerStep(w) ==
  \/ ReportAll(w) \/ ReportState(w) \/ ReportProgress(w) \/ ReportMessage(w)
  \/ OnStateChanged(w) \/ Unlock(w) \/ ThrowIfCancelled(w) \/ EndWork(w)

AsyncNext ==
  \/ \E w \in Workers : WorkerStep(w) \/ StartWorker(w) \/ BeginReset(w)
  \/ SetSource \/ Cancel \/ AskState \/ DestroySource
  \/ TakeWorkItem \/ RunWorkItem \/ ReturnFromState \/ FinishReset

AsyncSpec == AsyncInit /\ [][AsyncNext]_asyncVars

-------------------------------------------------------------------------------
(* Properties *)

\* Everything that was or will be shown, in order.
Told == shown \o (IF ownerThread.does = "runs" THEN <<ownerThread.item>> ELSE <<>>) \o workItems

\* However the updates of several threads overlap, each one after the source was set is
\* shown once, in the order they were made, and the last one that is shown is the state
\* of the operation.
StatesAreShownInOrder ==
  /\ \A i \in DOMAIN Told : Told[i].update = setAt + i
  /\ source # "none" /\ holder = Nobody => Len(Told) = info.update - setAt
  /\ Told # <<>> /\ holder = Nobody =>
       /\ Last(Told).state = info.state /\ Last(Told).progress = info.progress
       /\ Last(Told).message = info.message
  /\ ownerThread.does = "knows" => ownerThread.info.update >= IF shown = <<>> THEN 0 ELSE Last(shown).update
===============================================================================
