--------------------------- MODULE MessagingClient ---------------------------
(***************************************************************************)
(* tcp_messaging_client: a connection thread connects to a server, waits    *)
(* for the end of the channel, destroys it and connects again, until the    *)
(* owner destroys the client.  _wakeupEvent is a manual_reset_event that    *)
(* the owner and the channel set and the connection thread resets.          *)
(***************************************************************************)
EXTENDS Naturals

CONSTANTS
  Replies,         \* whether a handler of message_received calls send_message
  WhileConnecting  \* whether the owner destroys the client while it connects

ASSUME ClientAssumption == Replies \in BOOLEAN /\ WhileConnecting \in BOOLEAN

VARIABLES
  user,      \* where the thread is that owns the client
  stopping,  \* _isShuttingDown
  signal,    \* _wakeupEvent
  place,     \* where the connection thread is, in connect()
  channel,   \* _channel: "none", "fresh", "open" or "closed"
  alive,     \* whether its connection is up
  sender,    \* where the channel's sender is
  receiver,  \* where the channel's receiver is
  reachable  \* whether a server listens

clientVars == <<user, stopping, signal, place, channel, alive, sender, receiver, reachable>>

Unconnected ==
  /\ signal = FALSE /\ channel = "none" /\ alive = FALSE
  /\ sender = "none" /\ receiver = "none"

\* on_opening
ClientInit ==
  Unconnected /\ user = "using" /\ stopping = FALSE /\ place = "loop" /\ reachable \in BOOLEAN

NoClient ==
  Unconnected /\ user = "gone" /\ stopping = TRUE /\ place = "ended" /\ reachable = FALSE

-------------------------------------------------------------------------------
(* The server and the network *)

ServerStarts ==
  /\ ~reachable /\ user # "gone" /\ reachable' = TRUE
  /\ UNCHANGED <<user, stopping, signal, place, channel, alive, sender, receiver>>

ServerStops ==
  /\ reachable /\ reachable' = FALSE
  /\ UNCHANGED <<user, stopping, signal, place, channel, alive, sender, receiver>>

LinkBreaks ==
  /\ alive /\ alive' = FALSE
  /\ UNCHANGED <<user, stopping, signal, place, channel, sender, receiver, reachable>>

-------------------------------------------------------------------------------
(* connect() *)

Go(from, to) == place = from /\ place' = to

TestStopping ==
  /\ Go("loop", IF stopping THEN "ended" ELSE "connecting")
  /\ UNCHANGED <<user, stopping, signal, channel, alive, sender, receiver, reachable>>

\* get_channel() connects a new socket, or throws.
GetChannel ==
  /\ Go("connecting", IF reachable THEN "reset" ELSE "clean")
  /\ alive' = reachable
  /\ UNCHANGED <<user, stopping, signal, channel, sender, receiver, reachable>>

\* Mutant: the event stays as the last channel left it.
ResetNothing == UNCHANGED signal

ResetWakeup == signal' = FALSE

ResetSignal ==
  /\ Go("reset", "publish")
  /\ ResetWakeup
  /\ UNCHANGED <<user, stopping, channel, alive, sender, receiver, reachable>>

\* connected is raised and the handlers are set before the channel is open.
PublishChannel ==
  /\ Go("publish", "open")
  /\ channel' = "fresh"
  /\ UNCHANGED <<user, stopping, signal, alive, sender, receiver, reachable>>

OpenChannel ==
  /\ Go("open", "wait")
  /\ channel' = "open" /\ sender' = "running" /\ receiver' = "running"
  /\ UNCHANGED <<user, stopping, signal, alive, reachable>>

Awake ==
  /\ signal /\ Go("wait", "clean")
  /\ UNCHANGED <<user, stopping, signal, channel, alive, sender, receiver, reachable>>

Locked == place = "clean" /\ channel = "closed"

\* _channel.reset() under the lock: close the socket, then join both threads.
CloseChannel ==
  /\ place = "clean" /\ channel = "open"
  /\ channel' = "closed" /\ alive' = FALSE
  /\ UNCHANGED <<user, stopping, signal, place, sender, receiver, reachable>>

DropChannel ==
  /\ Go("clean", "pause")
  /\ channel # "open"
  /\ sender \in {"none", "ended"} /\ receiver \in {"none", "ended"}
  /\ channel' = "none" /\ sender' = "none" /\ receiver' = "none"
  /\ UNCHANGED <<user, stopping, signal, alive, reachable>>

\* A second passes, or the event is set already: after a lost channel there is no pause.
Pause ==
  /\ Go("pause", "loop")
  /\ UNCHANGED <<user, stopping, signal, channel, alive, sender, receiver, reachable>>

-------------------------------------------------------------------------------
(* The threads of the channel.  The sender stands for the one that reports the end. *)

Report ==
  /\ sender = "running" /\ ~alive
  /\ sender' = "setting"
  /\ UNCHANGED <<user, stopping, signal, place, channel, alive, receiver, reachable>>

\* Mutant: the handler of disconnected does not wake the connection thread.
WakeNobody == UNCHANGED signal

Wake == signal' = TRUE

\* The handler of disconnected, after it raised the client's event.
ReportEnd ==
  /\ sender = "setting" /\ sender' = "ended"
  /\ Wake
  /\ UNCHANGED <<user, stopping, place, channel, alive, receiver, reachable>>

Message ==
  /\ receiver = "running" /\ channel = "open"
  /\ receiver' = "handling"
  /\ UNCHANGED <<user, stopping, signal, place, channel, alive, sender, reachable>>

\* A handler that replies waits for the lock in send_message.
Handled ==
  /\ receiver = "handling" /\ ~(Replies /\ Locked)
  /\ receiver' = IF sender = "running" THEN "running" ELSE "ended"
  /\ UNCHANGED <<user, stopping, signal, place, channel, alive, sender, reachable>>

ReceiverEnds ==
  /\ receiver = "running" /\ ~alive
  /\ receiver' = "ended"
  /\ UNCHANGED <<user, stopping, signal, place, channel, alive, sender, reachable>>

-------------------------------------------------------------------------------
(* ~messaging_client: the flag, the event, the join.  A set() that comes before *)
(* reset() is lost, so a careful owner does not begin while the client connects. *)

Connects == place \in {"connecting", "reset"}

Stop ==
  /\ user = "using" /\ (WhileConnecting \/ ~Connects)
  /\ stopping' = TRUE /\ user' = "setting"
  /\ UNCHANGED <<signal, place, channel, alive, sender, receiver, reachable>>

SignalStop == signal' = TRUE

SetWakeup ==
  /\ user = "setting" /\ user' = "joining"
  /\ SignalStop
  /\ UNCHANGED <<stopping, place, channel, alive, sender, receiver, reachable>>

Join ==
  /\ user = "joining" /\ place = "ended"
  /\ user' = "gone"
  /\ UNCHANGED <<stopping, signal, place, channel, alive, sender, receiver, reachable>>

-------------------------------------------------------------------------------
ConnectNext ==
  \/ TestStopping \/ GetChannel \/ ResetSignal \/ PublishChannel \/ OpenChannel \/ Awake
  \/ CloseChannel \/ DropChannel \/ Pause

SenderNext == Report \/ ReportEnd

ReceiverNext == Handled \/ ReceiverEnds

ClientNext ==
  \/ ServerStarts \/ ServerStops \/ LinkBreaks
  \/ ConnectNext \/ SenderNext \/ Message \/ ReceiverNext
  \/ Stop \/ SetWakeup \/ Join

\* Each thread goes on when it can.  Nothing makes the owner begin its destructor, a
\* server start or stop, or the peer send.
ClientFairness ==
  /\ WF_clientVars(ConnectNext)
  /\ WF_clientVars(SenderNext) /\ WF_clientVars(ReceiverNext)
  /\ WF_clientVars(SetWakeup \/ Join)

-------------------------------------------------------------------------------
(* Properties *)

\* The client gives a channel up only when its connection is lost or the client goes:
\* a signal left from an earlier channel does not end a healthy one.
DropsOnlyLost == place = "clean" /\ channel = "open" => stopping \/ ~alive

\* As long as a server listens, the client comes back to a connection.
Reconnects == []<>(alive \/ ~reachable \/ user # "using")

===============================================================================
