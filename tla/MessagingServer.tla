--------------------------- MODULE MessagingServer ---------------------------
(***************************************************************************)
(* tcp_messaging_server: a listener thread accepts connections and registers*)
(* a channel for each, two threads per channel report what happens on it,   *)
(* an owner broadcasts and at last destroys the server.  What the threads   *)
(* of a channel do before they call the server is in MessagingChannel.      *)
(***************************************************************************)
EXTENDS Naturals, Sequences, SequencesExt

CONSTANTS
  Conns,         \* the connections peers make
  MaxBroadcasts, \* bound: calls of broadcast_message
  AnyTime        \* whether the owner takes the lock to destroy the server while a handler waits for it

ASSUME ServerAssumption == MaxBroadcasts \in Nat /\ AnyTime \in BOOLEAN

Ends == {"sender", "receiver"}

VARIABLES
  owner,        \* where the thread is that owns the server
  broadcasts,   \* number of broadcasts begun
  target,       \* index of the client the owner works on
  audience,     \* the clients a broadcast is for
  reached,      \* history: the clients it was queued for
  subscribed,   \* whether _clientAcceptedSubscription holds its handler
  listening,    \* whether the listener has its socket
  listener,     \* where the listener thread is
  clients,      \* _clients
  lock,         \* messaging_server::_mutex: "free" or who holds it
  shuttingDown, \* _isShuttingDown
  link,         \* connection -> its socket: "none", "up", "left" by the peer, "closed" here
  connected,    \* connection -> _isConnected of its channel
  complete,     \* connection -> whether its send queue refuses messages
  at,           \* connection -> thread of its channel -> where it is
  freeing,      \* connection -> its channel's destructor: "none", "joining", "freed"
  told          \* history: connection -> what the server raised of it

ownerVars == <<owner, broadcasts, target, audience, reached>>
listenerVars == <<subscribed, listening, listener>>
registry == <<clients, lock, shuttingDown>>
channelVars == <<link, connected, complete, freeing>>

serverVars == <<ownerVars, listenerVars, registry, channelVars, at, told>>

FreshServer ==
  /\ broadcasts = 0 /\ target = 1 /\ audience = {} /\ reached = {}
  /\ clients = <<>> /\ lock = "free"
  /\ connected = [c \in Conns |-> TRUE] /\ complete = [c \in Conns |-> FALSE]
  /\ at = [c \in Conns |-> [e \in Ends |-> "none"]]
  /\ told = [c \in Conns |-> <<>>]

ServerInit ==
  /\ FreshServer /\ owner = "using" /\ shuttingDown = FALSE
  /\ subscribed = TRUE /\ listening = TRUE /\ listener = <<"accept">>
  /\ link = [c \in Conns |-> "none"] /\ freeing = [c \in Conns |-> "none"]

\* No server, and nobody who connects to one.
NoServer ==
  /\ FreshServer /\ owner = "gone" /\ shuttingDown = TRUE
  /\ subscribed = FALSE /\ listening = FALSE /\ listener = <<"ended">>
  /\ link = [c \in Conns |-> "closed"] /\ freeing = [c \in Conns |-> "freed"]

-------------------------------------------------------------------------------
(* The listener thread: tcp_listener::worker and, in its event, on_client_accepted. *)

Accept(c) ==
  /\ listener = <<"accept">> /\ listening /\ link[c] = "none"
  /\ link' = [link EXCEPT ![c] = "up"]
  /\ listener' = <<"raise", c>>
  /\ UNCHANGED <<ownerVars, subscribed, listening, registry, connected, complete, freeing, at, told>>

EndListener ==
  /\ listener = <<"accept">>
  /\ listener' = <<"ended">>
  /\ UNCHANGED <<ownerVars, subscribed, listening, registry, channelVars, at, told>>

\* accept() of a closed socket gives none,
StopListening == ~listening /\ EndListener

\* and neither does one that fails: the server hears of no client any more.
AcceptFails == listening /\ EndListener

\* Without a handler the accepted client is destroyed with the arguments of the event.
RaiseAccepted(c) ==
  /\ listener = <<"raise", c>>
  /\ listener' = IF subscribed THEN <<"register", c>> ELSE <<"accept">>
  /\ link' = IF subscribed THEN link ELSE [link EXCEPT ![c] = "closed"]
  /\ UNCHANGED <<ownerVars, subscribed, listening, registry, connected, complete, freeing, at, told>>

\* on_client_connected, with the handlers of the channel set
RegisterWith(c, threads) ==
  /\ listener = <<"register", c>> /\ lock = "free"
  /\ clients' = Append(clients, c)
  /\ listener' = <<"tell", c>>
  /\ at' = [at EXCEPT ![c] = [e \in Ends |-> threads]]
  /\ UNCHANGED <<ownerVars, subscribed, listening, lock, shuttingDown, channelVars, told>>

\* Mutant: the channel is open before client_connected is raised.
RegisterOpen(c) == RegisterWith(c, "running")

Register(c) == RegisterWith(c, "none")

TellConnected(c) ==
  /\ listener = <<"tell", c>>
  /\ told' = [told EXCEPT ![c] = Append(@, "connected")]
  /\ listener' = <<"open", c>>
  /\ UNCHANGED <<ownerVars, subscribed, listening, registry, channelVars, at>>

\* A thread that is not created yet is like one that has not taken a step.
Open(c) ==
  /\ listener = <<"open", c>>
  /\ at' = [at EXCEPT ![c] = [e \in Ends |-> IF @[e] = "none" THEN "running" ELSE @[e]]]
  /\ listener' = <<"accept">>
  /\ UNCHANGED <<ownerVars, subscribed, listening, registry, channelVars, told>>

InAccepted == \E c \in Conns : listener \in {<<"register", c>>, <<"tell", c>>, <<"open", c>>}

-------------------------------------------------------------------------------
(* The threads of a channel, where they call the server. *)

Goto(c, e, place) == at' = [at EXCEPT ![c][e] = place]

\* The peer ends the connection.
Leave(c) ==
  /\ link[c] = "up"
  /\ link' = [link EXCEPT ![c] = "left"]
  /\ UNCHANGED <<ownerVars, listenerVars, registry, connected, complete, freeing, at, told>>

\* on_message_received, in the receiver; what was read before the end is still handled.
Receive(c) ==
  /\ at[c]["receiver"] = "running" /\ link[c] # "closed"
  /\ Goto(c, "receiver", "message")
  /\ UNCHANGED <<ownerVars, listenerVars, registry, channelVars, told>>

Received(c) ==
  /\ at[c]["receiver"] = "message"
  /\ Goto(c, "receiver", IF connected[c] THEN "running" ELSE "disconnect")
  /\ UNCHANGED <<ownerVars, listenerVars, registry, channelVars, told>>

\* The sender completes its queue before it reports the end.
EndOfLink(c, e) ==
  /\ at[c][e] = "running" /\ link[c] # "up"
  /\ Goto(c, e, "disconnect")
  /\ complete' = [complete EXCEPT ![c] = @ \/ e = "sender"]
  /\ UNCHANGED <<ownerVars, listenerVars, registry, link, connected, freeing, told>>

\* messaging_channel::on_disconnected: only the first thread raises the event.
Disconnect(c, e) ==
  /\ at[c][e] = "disconnect"
  /\ Goto(c, e, IF connected[c] THEN "check" ELSE "ended")
  /\ connected' = [connected EXCEPT ![c] = FALSE]
  /\ UNCHANGED <<ownerVars, listenerVars, registry, link, complete, freeing, told>>

\* Mutant: the handler always removes its client.
RemovesAlways == TRUE

Removes == ~shuttingDown

\* messaging_server::on_client_disconnected reads _isShuttingDown without the lock.
ReadShuttingDown(c, e) ==
  /\ at[c][e] = "check"
  /\ Goto(c, e, IF Removes THEN "remove" ELSE "tell")
  /\ UNCHANGED <<ownerVars, listenerVars, registry, channelVars, told>>

\* remove_unordered: the last element takes the place of the removed one.
RemoveUnordered(s, x) ==
  LET i == CHOOSE j \in DOMAIN s : s[j] = x
  IN IF x \in Range(s) THEN Front([s EXCEPT ![i] = Last(s)]) ELSE s

\* Mutant: the list is changed without the lock.
UnguardedClients == TRUE

Unlocked == lock = "free"

RemoveClient(c, e) ==
  /\ at[c][e] = "remove" /\ Unlocked
  /\ clients' = RemoveUnordered(clients, c)
  /\ Goto(c, e, "tellRemoved")
  /\ UNCHANGED <<ownerVars, listenerVars, lock, shuttingDown, channelVars, told>>

TellDisconnected(c, e) ==
  /\ at[c][e] \in {"tell", "tellRemoved"}
  /\ told' = [told EXCEPT ![c] = Append(@, "disconnected")]
  /\ Goto(c, e, IF at[c][e] = "tell" THEN "ended" ELSE "delete")
  /\ UNCHANGED <<ownerVars, listenerVars, registry, channelVars>>

\* ~tcp_messaging_channel, up to the joins of its threads
BeginFree(c) ==
  /\ link' = [link EXCEPT ![c] = "closed"]
  /\ freeing' = [freeing EXCEPT ![c] = "joining"]

\* Mutant: the receiver is not joined.
SenderEnded(c) == at[c]["sender"] \in {"none", "ended"}

ThreadsEnded(c) == \A e \in Ends : at[c][e] \in {"none", "ended"}

\* Mutant: the channel is destroyed by its own handler, which waits for itself.
DeleteInHandler(c, e) ==
  /\ at[c][e] = "delete"
  /\ BeginFree(c)
  /\ Goto(c, e, "joining")
  /\ UNCHANGED <<ownerVars, listenerVars, registry, connected, complete, told>>

\* delete_async: another thread runs the destructor.
DeleteAsync(c, e) ==
  /\ at[c][e] = "delete"
  /\ BeginFree(c)
  /\ Goto(c, e, "ended")
  /\ UNCHANGED <<ownerVars, listenerVars, registry, connected, complete, told>>

\* The thread of delete_async.  The channels of the list are freed by the owner.
FreeAsync(c) ==
  /\ freeing[c] = "joining" /\ c \notin Range(clients) /\ ThreadsEnded(c)
  /\ freeing' = [freeing EXCEPT ![c] = "freed"]
  /\ UNCHANGED <<ownerVars, listenerVars, registry, link, connected, complete, at, told>>

-------------------------------------------------------------------------------
(* The owner *)

\* broadcast_message, for all clients but exception
Broadcast ==
  /\ owner = "using" /\ lock = "free" /\ broadcasts < MaxBroadcasts
  /\ \E exception \in SUBSET Conns :
       /\ \A c, d \in exception : c = d
       /\ audience' = Range(clients) \ exception
  /\ owner' = "broadcast" /\ lock' = "owner"
  /\ broadcasts' = broadcasts + 1 /\ target' = 1 /\ reached' = {}
  /\ UNCHANGED <<listenerVars, clients, shuttingDown, channelVars, at, told>>

SendToNext ==
  /\ owner = "broadcast" /\ target <= Len(clients)
  /\ LET c == clients[target] IN
     /\ c \in audience => ~complete[c]
     /\ reached' = reached \cup ({c} \cap audience)
  /\ target' = target + 1
  /\ UNCHANGED <<owner, broadcasts, audience, listenerVars, registry, channelVars, at, told>>

\* send_message throws when the queue of a client is complete: the rest is not sent to.
Refused == target <= Len(clients) /\ clients[target] \in audience /\ complete[clients[target]]

EndBroadcast ==
  /\ owner = "broadcast" /\ (target > Len(clients) \/ Refused)
  /\ owner' = "using" /\ lock' = "free"
  /\ target' = 1 /\ audience' = {} /\ reached' = {}
  /\ UNCHANGED <<broadcasts, listenerVars, clients, shuttingDown, channelVars, at, told>>

\* ~tcp_messaging_server: the subscription waits for a handler that runs,
UnsubscribeListener ==
  /\ owner = "using" /\ ~InAccepted
  /\ subscribed' = FALSE /\ owner' = "closing"
  /\ UNCHANGED <<broadcasts, target, audience, reached, listening, listener, registry, channelVars,
                 at, told>>

\* then tcp_listener::stop closes the socket and joins the thread.
CloseListener ==
  /\ owner = "closing"
  /\ listening' = FALSE /\ owner' = "joining"
  /\ UNCHANGED <<broadcasts, target, audience, reached, subscribed, listener, registry, channelVars,
                 at, told>>

JoinListener ==
  /\ owner = "joining" /\ listener = <<"ended">>
  /\ owner' = "locking"
  /\ UNCHANGED <<broadcasts, target, audience, reached, listenerVars, registry, channelVars, at, told>>

\* A handler that read the flag waits for the lock.
Waits == \E c \in Conns, e \in Ends : at[c][e] = "remove"

\* ~messaging_server.  A flag read after the lock is taken and before it is set is as
\* good as one read before the lock is taken.
BeginShutdown ==
  /\ owner = "locking" /\ lock = "free" /\ (Waits => AnyTime)
  /\ lock' = "owner" /\ shuttingDown' = TRUE
  /\ owner' = "clearing" /\ target' = 1
  /\ UNCHANGED <<broadcasts, audience, reached, listenerVars, clients, channelVars, at, told>>

CloseNext ==
  /\ owner = "clearing" /\ target <= Len(clients) /\ freeing[clients[target]] = "none"
  /\ BeginFree(clients[target])
  /\ UNCHANGED <<ownerVars, listenerVars, registry, connected, complete, at, told>>

FreeNext ==
  /\ owner = "clearing" /\ target <= Len(clients)
  /\ freeing[clients[target]] = "joining" /\ ThreadsEnded(clients[target])
  /\ freeing' = [freeing EXCEPT ![clients[target]] = "freed"]
  /\ target' = target + 1
  /\ UNCHANGED <<owner, broadcasts, audience, reached, listenerVars, registry, link, connected,
                 complete, at, told>>

EndShutdown ==
  /\ owner = "clearing" /\ target > Len(clients)
  /\ clients' = <<>> /\ lock' = "free" /\ owner' = "gone"
  /\ UNCHANGED <<broadcasts, target, audience, reached, listenerVars, shuttingDown, channelVars,
                 at, told>>

-------------------------------------------------------------------------------
ListenerStep ==
  \/ \E c \in Conns : RaiseAccepted(c) \/ Register(c) \/ TellConnected(c) \/ Open(c)
  \/ StopListening

EndNext(c, e) ==
  \/ EndOfLink(c, e) \/ Disconnect(c, e) \/ ReadShuttingDown(c, e) \/ RemoveClient(c, e)
  \/ TellDisconnected(c, e) \/ DeleteAsync(c, e)

OwnerStep ==
  \/ SendToNext \/ EndBroadcast
  \/ CloseListener \/ JoinListener \/ BeginShutdown \/ CloseNext \/ FreeNext \/ EndShutdown

ServerNext ==
  \/ ListenerStep
  \/ AcceptFails \/ \E c \in Conns : Accept(c)
  \/ \E c \in Conns : Leave(c) \/ Receive(c) \/ Received(c) \/ FreeAsync(c)
  \/ \E c \in Conns, e \in Ends : EndNext(c, e)
  \/ Broadcast \/ UnsubscribeListener \/ OwnerStep

\* Every thread goes on when it can, but nobody has to connect, to send, to leave, to
\* broadcast or to destroy the server, and no accept has to fail.  Only messages come
\* without end; of all other steps a behaviour has finitely many, so that one of them is
\* taken, as long as one can be, is then that each thread goes on.
ServerFairness ==
  /\ WF_serverVars(\/ OwnerStep \/ ListenerStep
                   \/ \E c \in Conns : FreeAsync(c) \/ \E e \in Ends : EndNext(c, e))
  /\ \A c \in Conns : WF_serverVars(Received(c))

-------------------------------------------------------------------------------
(* Properties *)

\* The server raises client_connected for a client before anything else of it, and
\* client_disconnected at most once.
ToldInOrder ==
  \A c \in Conns :
    /\ told[c] \in {<<>>, <<"connected">>, <<"connected", "disconnected">>}
    /\ \A e \in Ends : at[c][e] # "none" => told[c] # <<>>

\* A handler took the client off the list and has its channel still to free.
IsLeaving(c) ==
  freeing[c] = "joining" \/ \E e \in Ends : at[c][e] \in {"tellRemoved", "delete"}

\* When the server is destroyed, its owner has joined every thread that could call it but
\* those of clients that a handler removed shortly before: none other is in a handler, and
\* none at all will read the flag, take the lock or change the list of a destroyed server.
OnlyTheRemovedLinger ==
  owner = "gone" =>
    /\ listener = <<"ended">>
    /\ \A c \in Conns, e \in Ends :
         /\ at[c][e] \notin {"check", "remove", "tell"}
         /\ at[c][e] \in {"message", "tellRemoved"} => IsLeaving(c)

\* No handler of a destroyed server runs: "when shutting down cleanup is done in the
\* destructor".  Nobody joins the threads of a client that a handler has removed.
OutlivesItsHandlers ==
  owner = "gone" => \A c \in Conns, e \in Ends : at[c][e] \notin {"message", "tellRemoved"}

\* A broadcast that no queue refuses reaches every client of the list and nobody else,
\* whoever connects or leaves meanwhile.
BroadcastReachesAll ==
  owner = "broadcast" /\ target > Len(clients) => reached = audience

\* A client that left is told of and its channel is freed, by the handler or the destructor.
IsFreed(c) ==
  (link[c] = "left" /\ c \in Range(clients)) ~> (freeing[c] = "freed" /\ Len(told[c]) = 2)

\* The destructor of the server returns.
ServerShutdownEnds == (owner = "closing") ~> (owner = "gone")
===============================================================================
