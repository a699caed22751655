-------------------------- MODULE MessagingChannel --------------------------
(***************************************************************************)
(* tcp_messaging_channel: one end of a connection.  A sender thread takes   *)
(* messages from a blocking_collection and writes them to the socket, a     *)
(* receiver thread reads the socket and raises events, any thread may send, *)
(* and an owner opens and at last destroys the channel.  The future of a    *)
(* message_task tells a caller what became of its message.  The other end   *)
(* and the network are the environment.                                     *)
(***************************************************************************)
EXTENDS Naturals, Sequences, SequencesExt

CONSTANTS
  Messages,    \* the messages to send, each by a thread of its own
  MaxReceived  \* bound: messages of the peer

ASSUME ChannelAssumption == MaxReceived \in Nat

Threads == {"sender", "receiver", "owner"}

VARIABLES
  queue,      \* _messagesToSend
  complete,   \* _messagesToSend.is_complete()
  caller,     \* message -> where the thread is that sends it
  promise,    \* message -> what its future says
  cancelled,  \* messages with a cancelled promise
  task,       \* what the sender took from the queue: a sequence of at most one
  connected,  \* _isConnected
  mutex,      \* messaging_channel::_mutex: the threads that hold it
  socketOpen, \* whether _client has a socket
  pc,         \* thread -> where it is
  peer,       \* the connection, as the operating system sees it
  inbox,      \* what arrived and was not read yet
  arrived,    \* number of all that arrived
  accepted,   \* history: the messages added to the queue, in order
  written,    \* history: the messages written to the socket, in order
  raised,     \* history: how often disconnected was raised
  late        \* history: messages handled after disconnected was raised

outgoing == <<queue, complete, caller, promise, cancelled, task, accepted, written>>
network == <<socketOpen, peer, inbox, arrived>>
link == <<connected, mutex, raised>>

vars == <<outgoing, network, link, pc, late>>

Init ==
  /\ queue = <<>> /\ complete = FALSE /\ task = <<>>
  /\ caller = [m \in Messages |-> "idle"]
  /\ promise = [m \in Messages |-> "none"] /\ cancelled = {}
  /\ connected = TRUE /\ mutex = {}
  /\ socketOpen = TRUE /\ peer = "up" /\ inbox = <<>> /\ arrived = 0
  /\ pc = [thread \in Threads |-> IF thread = "owner" THEN "created" ELSE "none"]
  /\ accepted = <<>> /\ written = <<>> /\ raised = 0 /\ late = 0

Goto(thread, place) == pc' = [pc EXCEPT ![thread] = place]

\* message_promise::finish and cancel: only the first answer counts.
Resolve(messages, answer) ==
  [m \in Messages |-> IF m \in messages /\ promise[m] = "pending" THEN answer ELSE promise[m]]

\* Mutant: a promise that is destroyed leaves its future open.
DropSilently(messages) == promise

\* message_promise::~message_promise
Drop(messages) == Resolve(messages, "false")

-------------------------------------------------------------------------------
(* Threads that send.  The object is not in use when its destructor begins. *)

Usable == pc["owner"] \in {"created", "opened"}

\* add() asks for is_complete before it locks the queue.  A refused message has no
\* future: send_message throws.
SendMessage(m) ==
  /\ Usable /\ caller[m] = "idle"
  /\ IF complete
       THEN /\ caller' = [caller EXCEPT ![m] = "done"]
            /\ UNCHANGED promise
       ELSE /\ caller' = [caller EXCEPT ![m] = "adding"]
            /\ promise' = [promise EXCEPT ![m] = "pending"]
  /\ UNCHANGED <<queue, complete, cancelled, task, accepted, written, network, link, pc, late>>

Add(m) ==
  /\ caller[m] = "adding"
  /\ caller' = [caller EXCEPT ![m] = "done"]
  /\ queue' = Append(queue, m)
  /\ accepted' = Append(accepted, m)
  /\ UNCHANGED <<complete, promise, cancelled, task, written, network, link, pc, late>>

Cancel(m) ==
  /\ caller[m] = "done" /\ promise[m] = "pending"
  /\ promise' = Resolve({m}, "false")
  /\ cancelled' = cancelled \cup {m}
  /\ UNCHANGED <<queue, complete, caller, task, accepted, written, network, link, pc, late>>

-------------------------------------------------------------------------------
(* on_disconnected, in any thread. *)

Disconnect(thread) ==
  /\ pc[thread] = "disconnect"
  /\ Goto(thread, IF connected THEN "lock" ELSE "ended")
  /\ UNCHANGED <<outgoing, network, link, late>>

\* Mutant: _isConnected is not asked again under the lock.
NotAsked == TRUE

StillConnected == connected

RaiseDisconnected(thread) ==
  /\ pc[thread] = "lock" /\ mutex = {}
  /\ IF StillConnected
       THEN /\ mutex' = {thread} /\ connected' = FALSE /\ raised' = raised + 1
            /\ Goto(thread, "raising")
       ELSE /\ Goto(thread, "ended")
            /\ UNCHANGED link
  /\ UNCHANGED <<outgoing, network, late>>

Unlock == mutex' = {}

\* The handlers of disconnected returned.
FinishDisconnected(thread) ==
  /\ pc[thread] = "raising"
  /\ Unlock
  /\ Goto(thread, "ended")
  /\ UNCHANGED <<outgoing, network, connected, raised, late>>

OnDisconnected(thread) ==
  Disconnect(thread) \/ RaiseDisconnected(thread) \/ FinishDisconnected(thread)

-------------------------------------------------------------------------------
(* send_messages *)

\* get_stream() throws when the socket is closed.
StartSender ==
  /\ pc["sender"] = "start"
  /\ Goto("sender", IF socketOpen THEN "loop" ELSE "complete")
  /\ UNCHANGED <<outgoing, network, link, late>>

LoopSender ==
  /\ pc["sender"] = "loop"
  /\ Goto("sender", IF connected THEN "take" ELSE "complete")
  /\ UNCHANGED <<outgoing, network, link, late>>

\* Mutant: the newest message is taken first.
TakeBack == [item |-> Last(queue), rest |-> Front(queue)]

TakeFront == [item |-> Head(queue), rest |-> Tail(queue)]

\* The two rounds of try_get, with the queue locked.
Take ==
  /\ pc["sender"] \in {"take", "retake"}
  /\ IF queue # <<>>
       THEN /\ task' = <<TakeFront.item>>
            /\ queue' = TakeFront.rest
            /\ Goto("sender", "write")
       ELSE /\ Goto("sender", IF pc["sender"] = "retake" \/ complete THEN "heartbeat" ELSE "wait")
            /\ UNCHANGED <<task, queue>>
  /\ UNCHANGED <<complete, caller, promise, cancelled, accepted, written, network, link, late>>

\* _event.wait(200 ms): it ends, with or without the event.
Wait ==
  /\ pc["sender"] = "wait"
  /\ Goto("sender", "retake")
  /\ UNCHANGED <<outgoing, network, link, late>>

\* A write succeeds as long as this end does not know that the connection is gone.
\* The first one after the peer closed it makes the peer answer with a reset.
CanWrite == socketOpen /\ peer # "broken"

CanFail == ~socketOpen \/ peer \in {"resetting", "broken"}

ToPeer == peer' = IF peer = "closed" THEN "resetting" ELSE peer

Write ==
  /\ pc["sender"] = "write" /\ CanWrite
  /\ written' = written \o task
  /\ ToPeer
  /\ Goto("sender", "finish")
  /\ UNCHANGED <<queue, complete, caller, promise, cancelled, task, accepted,
                 socketOpen, inbox, arrived, link, late>>

Finish ==
  /\ pc["sender"] = "finish"
  /\ promise' = Resolve(ToSet(task), "true")
  /\ task' = <<>>
  /\ Goto("sender", "loop")
  /\ UNCHANGED <<queue, complete, caller, cancelled, accepted, written, network, link, late>>

\* Mutant: the task is finished whether or not the write threw.
AnswerTrue == Resolve(ToSet(task), "true")

AnswerOfFailed == Drop(ToSet(task))

FailWrite ==
  /\ pc["sender"] = "write" /\ CanFail
  /\ promise' = AnswerOfFailed
  /\ task' = <<>>
  /\ Goto("sender", "complete")
  /\ UNCHANGED <<queue, complete, caller, cancelled, accepted, written, network, link, late>>

\* Mutant: nothing is written when there is no message.
StayQuiet == Goto("sender", "loop") /\ UNCHANGED peer

Beat ==
  \/ CanWrite /\ ToPeer /\ Goto("sender", "loop")
  \/ CanFail /\ UNCHANGED peer /\ Goto("sender", "complete")

Heartbeat ==
  /\ pc["sender"] = "heartbeat"
  /\ Beat
  /\ UNCHANGED <<outgoing, socketOpen, inbox, arrived, link, late>>

Complete ==
  /\ pc["sender"] = "complete"
  /\ complete' = TRUE
  /\ Goto("sender", "clear")
  /\ UNCHANGED <<queue, caller, promise, cancelled, task, accepted, written, network, link, late>>

Clear ==
  /\ pc["sender"] = "clear"
  /\ promise' = Drop(ToSet(queue))
  /\ queue' = <<>>
  /\ Goto("sender", "disconnect")
  /\ UNCHANGED <<complete, caller, cancelled, task, accepted, written, network, link, late>>

SenderNext ==
  \/ StartSender \/ LoopSender \/ Take \/ Wait \/ Write \/ Finish \/ FailWrite \/ Heartbeat
  \/ Complete \/ Clear \/ OnDisconnected("sender")

-------------------------------------------------------------------------------
(* receive_messages *)

StartReceiver ==
  /\ pc["receiver"] = "start"
  /\ Goto("receiver", IF socketOpen THEN "loop" ELSE "disconnect")
  /\ UNCHANGED <<outgoing, network, link, late>>

\* Mutant: the receiver reads until reading fails.
ReadForEver == TRUE

KeepsReading == connected

LoopReceiver ==
  /\ pc["receiver"] = "loop"
  /\ Goto("receiver", IF KeepsReading THEN "read" ELSE "disconnect")
  /\ UNCHANGED <<outgoing, network, link, late>>

\* What arrived before the peer closed or lost the connection can still be read.
\* With nothing left of a connection that the peer closed, recv returns 0 and
\* socket_stream::read asks again: the receiver takes no step.
Read ==
  /\ pc["receiver"] = "read" /\ socketOpen /\ inbox # <<>>
  /\ inbox' = Tail(inbox)
  /\ Goto("receiver", CASE Head(inbox) = "message"   -> "handle"
                        [] Head(inbox) = "heartbeat" -> "loop"
                        [] Head(inbox) = "garbage"   -> "disconnect")
  /\ UNCHANGED <<outgoing, socketOpen, peer, arrived, link, late>>

FailRead ==
  /\ pc["receiver"] = "read" /\ (~socketOpen \/ peer = "broken")
  /\ Goto("receiver", "disconnect")
  /\ UNCHANGED <<outgoing, network, link, late>>

\* message_received is raised.
OnReceived ==
  /\ pc["receiver"] = "handle"
  /\ late' = IF raised = 0 THEN late ELSE late + 1
  /\ Goto("receiver", "loop")
  /\ UNCHANGED <<outgoing, network, link>>

ReceiverNext ==
  \/ StartReceiver \/ LoopReceiver \/ Read \/ FailRead \/ OnReceived
  \/ OnDisconnected("receiver")

-------------------------------------------------------------------------------
(* The owner. *)

\* open() and on_opening, which creates the sender and then the receiver: a thread that is not
\* created yet is like one that has not taken a step.
Open ==
  /\ pc["owner"] = "created"
  /\ pc' = [thread \in Threads |-> IF thread = "owner" THEN "opened" ELSE "start"]
  /\ UNCHANGED <<outgoing, network, link, late>>

\* Mutant: the destructor joins the threads without closing the socket.
LeaveSocket == UNCHANGED socketOpen

CloseSocket == socketOpen' = FALSE

Destroy ==
  /\ Usable /\ \A m \in Messages : caller[m] # "adding"
  /\ CloseSocket
  /\ Goto("owner", "joinReceiver")
  /\ UNCHANGED <<outgoing, peer, inbox, arrived, link, late>>

HasEnded(thread) == pc[thread] \in {"none", "ended"}

JoinReceiver ==
  /\ pc["owner"] = "joinReceiver" /\ HasEnded("receiver")
  /\ Goto("owner", "joinSender")
  /\ UNCHANGED <<outgoing, network, link, late>>

JoinSender ==
  /\ pc["owner"] = "joinSender" /\ HasEnded("sender")
  /\ Goto("owner", "destroyQueue")
  /\ UNCHANGED <<outgoing, network, link, late>>

\* The members, then ~messaging_channel.
DestroyQueue ==
  /\ pc["owner"] = "destroyQueue"
  /\ complete' = TRUE
  /\ promise' = Drop(ToSet(queue))
  /\ queue' = <<>>
  /\ Goto("owner", "disconnect")
  /\ UNCHANGED <<caller, cancelled, task, accepted, written, network, link, late>>

DestroyNext == JoinReceiver \/ JoinSender \/ DestroyQueue \/ OnDisconnected("owner")

-------------------------------------------------------------------------------
(* The other end and the network. *)

Arrive(what) ==
  /\ peer = "up" /\ arrived < MaxReceived
  /\ inbox' = Append(inbox, what) /\ arrived' = arrived + 1
  /\ UNCHANGED <<outgoing, socketOpen, peer, link, pc, late>>

PeerCloses ==
  /\ peer = "up"
  /\ peer' = "closed"
  /\ UNCHANGED <<outgoing, socketOpen, inbox, arrived, link, pc, late>>

ConnectionBreaks ==
  /\ peer # "broken"
  /\ peer' = "broken"
  /\ UNCHANGED <<outgoing, socketOpen, inbox, arrived, link, pc, late>>

ResetArrives == peer = "resetting" /\ ConnectionBreaks

CallersNext == \E m \in Messages : SendMessage(m) \/ Add(m) \/ Cancel(m)

EnvironmentNext ==
  \/ \E what \in {"message", "heartbeat", "garbage"} : Arrive(what)
  \/ PeerCloses \/ ConnectionBreaks \/ ResetArrives

Next ==
  CallersNext \/ SenderNext \/ ReceiverNext \/ Open \/ Destroy \/ DestroyNext \/ EnvironmentNext

\* The threads run, writes to a living peer end (it reads what it gets), handlers
\* return, and the answer to a write that nobody reads comes at last.
Fairness ==
  /\ WF_vars(SenderNext) /\ WF_vars(ReceiverNext) /\ WF_vars(DestroyNext)
  /\ WF_vars(ResetArrives)
  /\ \A m \in Messages : WF_vars(Add(m))

ChannelSpec == Init /\ [][Next]_vars /\ Fairness

-------------------------------------------------------------------------------

Running == {"none", "start", "loop", "disconnect", "lock", "raising", "ended"}

SenderPlaces == Running \cup {"take", "wait", "retake", "write", "finish", "heartbeat",
                             "complete", "clear"}

ReceiverPlaces == Running \cup {"read", "handle"}

OwnerPlaces == {"created", "opened", "joinReceiver", "joinSender", "destroyQueue", "disconnect",
                "lock", "raising", "ended"}

\* Type invariant; the mutex is with the thread that raises disconnected.
TypeOK ==
  /\ queue \in Seq(Messages) /\ task \in Seq(Messages)
  /\ accepted \in Seq(Messages) /\ written \in Seq(Messages)
  /\ complete \in BOOLEAN /\ connected \in BOOLEAN /\ socketOpen \in BOOLEAN
  /\ caller \in [Messages -> {"idle", "adding", "done"}]
  /\ promise \in [Messages -> {"none", "pending", "true", "false"}]
  /\ cancelled \subseteq Messages
  /\ pc \in [Threads -> SenderPlaces \cup ReceiverPlaces \cup OwnerPlaces]
  /\ pc["sender"] \in SenderPlaces /\ pc["receiver"] \in ReceiverPlaces
  /\ pc["owner"] \in OwnerPlaces
  /\ peer \in {"up", "closed", "resetting", "broken"}
  /\ inbox \in Seq({"message", "heartbeat", "garbage"})
  /\ arrived \in 0 .. MaxReceived /\ raised \in Nat /\ late \in Nat
  /\ mutex = {thread \in Threads : pc[thread] = "raising"}

\* The peer gets the messages in the order in which they were added, none twice,
\* and none after one that it did not get.
SendsInOrder == IsPrefix(written, accepted)

\* A future that says true is of a message that was written; one that says false is
\* of a message that was never written, unless it was cancelled.
AnswersAreTrue ==
  \A m \in Messages :
    /\ promise[m] = "true" => m \in ToSet(written)
    /\ promise[m] = "false" /\ m \notin cancelled => m \notin ToSet(written)

\* The program is told once that the channel is disconnected, by whichever thread
\* notices first, and at the latest when the channel is destroyed.
DisconnectedOnce == raised <= 1 /\ (pc["owner"] = "ended" => raised = 1)

\* After disconnected a handler gets at most the one message that was being read.
AtMostOneLate == late <= 1

\* Whoever waits for the future of a message gets an answer: if the message was in
\* the queue of an opened channel before it was complete, and for every message
\* when the channel is destroyed.
FutureResolves ==
  \A m \in Messages :
    /\ promise[m] = "pending"
    /\ \/ m \in ToSet(queue) /\ ~complete /\ pc["sender"] # "none"
       \/ pc["owner"] = "joinReceiver"
    ~> promise[m] # "pending"

\* A connection that is gone is noticed, also by a program that sends nothing, and
\* also when the receiver sees no error.
PeerLossNoticed == (peer # "up" /\ pc["owner"] = "opened") ~> raised > 0

\* The destructor ends, whatever the threads and the peer are doing.
ShutdownEnds == (pc["owner"] = "joinReceiver") ~> (pc["owner"] = "ended")

===============================================================================
