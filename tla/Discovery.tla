------------------------------ MODULE Discovery ------------------------------
(***************************************************************************)
(* service_provider and service_locator, which find each other by multicast *)
(* datagrams, and the udp_client of each: a socket, a thread that receives  *)
(* from it and an event.  The network, external, loses, repeats and         *)
(* reorders datagrams, and hands a sender its own.                          *)
(***************************************************************************)
CONSTANTS
  Providers, Locators,   \* the clients of the network
  Ids, Addresses         \* of services

DiscoveryAssumption == Providers \cap Locators = {}

VARIABLES
  life,      \* how far a client is constructed or destroyed
  thread,    \* what its receiver does
  datagram,  \* the datagram the receiver has
  services,  \* the address of each service of a provider, or Unknown
  network,   \* datagrams under way
  found,     \* what service_found told of
  crashed    \* whether a receiver used what was not there

discoveryVars == <<life, thread, datagram, services, network, found, crashed>>

Clients == Providers \cup Locators

Request(id) == [kind |-> "discovery_request", id |-> id]
Response(id, address) == [kind |-> "discovery_response", id |-> id, address |-> address]
NoDatagram == [kind |-> "none"]
Unknown == "unknown"

-------------------------------------------------------------------------------
(* A client from its constructor to the end of its destructor *)

\* The receiver runs before _receiver points at it, and the members of a client go in the
\* reverse order: the subscription, the services, then the socket and the receiver.
NextLife ==
  [none |-> "receiving", receiving |-> "constructed", constructed |-> "subscribed",
   subscribed |-> "unsubscribed", unsubscribed |-> "emptied", emptied |-> "closed",
   closed |-> "cleared", cleared |-> "gone"]

SocketIsOpen(c) == life[c] \in {"receiving", "constructed", "subscribed", "unsubscribed", "emptied"}

\* unique_ptr::reset() clears the pointer before the thread it owned is joined.
ReceiverIsSet(c) == life[c] \in {"constructed", "subscribed", "unsubscribed", "emptied", "closed"}

ServicesAreThere(c) == life[c] \in {"constructed", "subscribed", "unsubscribed"}

Lives(c, from) == ~crashed /\ life[c] = from /\ life' = [life EXCEPT ![c] = NextLife[from]]

StartReceiver(c) ==
  /\ Lives(c, "none")
  /\ thread' = [thread EXCEPT ![c] = "checking"]
  /\ UNCHANGED <<datagram, services, network, found, crashed>>

FinishConstruction(c) ==
  /\ \E from \in {"receiving", "constructed"} : Lives(c, from)
  /\ UNCHANGED <<thread, datagram, services, network, found, crashed>>

\* A provider may be destroyed at any time, a locator lives as long as the program.
BeginDestruction(c) ==
  /\ c \in Providers /\ Lives(c, "subscribed")
  /\ UNCHANGED <<thread, datagram, services, network, found, crashed>>

FinishDestruction(c) ==
  /\ \/ \E from \in {"unsubscribed", "emptied", "closed"} : Lives(c, from)
     \/ thread[c] = "ended" /\ Lives(c, "cleared")
  /\ UNCHANGED <<thread, datagram, services, network, found, crashed>>

-------------------------------------------------------------------------------
(* Sending: everybody who listens gets a copy, or does not *)

Listeners == {c \in Clients : SocketIsOpen(c)}

Multicast(d) ==
  \E reached \in SUBSET Listeners : network' = network \cup [to : reached, content : {d}]

\* Stored and sent under the lock.
Announce(p, id, address) ==
  /\ ~crashed /\ life[p] = "subscribed"
  /\ services' = [services EXCEPT ![p][id] = address]
  /\ Multicast(Response(id, address))
  /\ UNCHANGED <<life, thread, datagram, found, crashed>>

LocateService(l, id) ==
  /\ ~crashed /\ life[l] = "subscribed"
  /\ Multicast(Request(id))
  /\ UNCHANGED <<life, thread, datagram, services, found, crashed>>

-------------------------------------------------------------------------------
(* Receiving *)

Crash(c) ==
  /\ crashed' = TRUE
  /\ UNCHANGED <<life, thread, datagram, services, network, found>>

\* The loop asks the receiver it is whether it is exiting: there may be none, and where
\* there is one its destructor has not begun.
Check(c) ==
  /\ ~crashed /\ thread[c] = "checking"
  /\ IF ReceiverIsSet(c)
     THEN /\ thread' = [thread EXCEPT ![c] = "waiting"]
          /\ UNCHANGED <<life, datagram, services, network, found, crashed>>
     ELSE Crash(c)

\* A datagram that arrives, once or with a copy under way.
Receive(c, d) ==
  /\ ~crashed /\ thread[c] = "waiting" /\ SocketIsOpen(c)
  /\ d.to = c /\ d \in network
  /\ datagram' = [datagram EXCEPT ![c] = d.content]
  /\ thread' = [thread EXCEPT ![c] = "raising"]
  /\ network' \in {network, network \ {d}}
  /\ UNCHANGED <<life, services, found, crashed>>

EndLoop(c) ==
  /\ ~crashed /\ thread[c] = "waiting"
  /\ thread' = [thread EXCEPT ![c] = "ended"]
  /\ UNCHANGED <<life, datagram, services, network, found, crashed>>

\* A closed socket throws, which ends the loop,
ReceiveFails(c) == ~SocketIsOpen(c) /\ EndLoop(c)

\* and so does any error of an open one, that of an earlier send or of a datagram too long
\* among them, and an empty datagram, which anybody on the port may send: the client lives
\* on and hears nothing any more.
ReceiverGivesUp(c) == SocketIsOpen(c) /\ EndLoop(c)

\* A datagram that nobody has subscribed for yet is dropped.
Raise(c) ==
  /\ ~crashed /\ thread[c] = "raising"
  /\ thread' = [thread EXCEPT ![c] = IF life[c] = "subscribed" THEN "handling" ELSE "checking"]
  /\ UNCHANGED <<life, datagram, services, network, found, crashed>>

Handled(c) ==
  /\ ~crashed /\ thread[c] = "handling"
  /\ thread' = [thread EXCEPT ![c] = "checking"]
  /\ UNCHANGED <<life, datagram, services, crashed>>

\* Mutant: a provider announces its services and answers nobody.
IgnoreRequest(p) == Handled(p) /\ UNCHANGED <<network, found>>

\* Answers to everybody, since programs that share the port would not get a reply to one.
\* An unsubscribed handler may still be running when the services it reads are gone.
OnRequest(p) ==
  LET d == datagram[p]
  IN  IF thread[p] = "handling" /\ ~ServicesAreThere(p) THEN ~crashed /\ Crash(p)
      ELSE /\ Handled(p)
           /\ IF d.kind = "discovery_request" /\ services[p][d.id] # Unknown
              THEN Multicast(Response(d.id, services[p][d.id]))
              ELSE UNCHANGED network
           /\ UNCHANGED found

OnResponse(l) ==
  LET d == datagram[l]
  IN  /\ Handled(l)
      /\ found' = IF d.kind = "discovery_response"
                  THEN [found EXCEPT ![l] = @ \cup {<<d.id, d.address>>}] ELSE found
      /\ UNCHANGED network

OnMessageReceived(c) == IF c \in Providers THEN OnRequest(c) ELSE OnResponse(c)

-------------------------------------------------------------------------------
DiscoveryInit ==
  /\ life = [c \in Clients |-> "none"]
  /\ thread = [c \in Clients |-> "none"]
  /\ datagram = [c \in Clients |-> NoDatagram]
  /\ services = [p \in Providers |-> [id \in Ids |-> Unknown]]
  /\ network = {}
  /\ found = [l \in Locators |-> {}]
  /\ crashed = FALSE

\* A program without discovery.
NoDiscovery ==
  /\ life = [c \in Clients |-> "gone"] /\ thread = [c \in Clients |-> "none"]
  /\ datagram = [c \in Clients |-> NoDatagram] /\ services = [p \in Providers |-> [id \in Ids |-> Unknown]]
  /\ network = {} /\ found = [l \in Locators |-> {}] /\ crashed = FALSE

ThreadStep(c) == Check(c) \/ ReceiveFails(c) \/ Raise(c) \/ OnMessageReceived(c)

DiscoveryNext ==
  \/ \E c \in Clients :
       \/ StartReceiver(c) \/ FinishConstruction(c) \/ BeginDestruction(c) \/ FinishDestruction(c)
       \/ ThreadStep(c) \/ ReceiverGivesUp(c)
  \/ \E p \in Providers, id \in Ids, address \in Addresses : Announce(p, id, address)
  \/ \E l \in Locators, id \in Ids : LocateService(l, id)
  \/ \E d \in network : Receive(d.to, d)

\* Whether what is sent reaches everybody.
Arrives(d) == [to : Listeners, content : {d}] \subseteq network'

\* Every thread goes on, and so do the constructors and destructors that have begun, whose
\* steps are finitely many; no receiver has to give up; a program that looks for a service asks again and again; of the
\* answers that are sent again and again some arrive, and what arrived is received.
DiscoveryFairness ==
  /\ WF_discoveryVars(\E c \in Clients : StartReceiver(c) \/ FinishConstruction(c) \/ FinishDestruction(c))
  /\ \A c \in Clients : WF_discoveryVars(ThreadStep(c))
  /\ \A id \in Ids :
       /\ \A l \in Locators : WF_discoveryVars(LocateService(l, id) /\ Arrives(Request(id)))
       /\ \A p \in Providers : SF_discoveryVars(Receive(p, [to |-> p, content |-> Request(id)]))
       /\ \A address \in Addresses :
            /\ \A p \in Providers : SF_discoveryVars(OnRequest(p) /\ Arrives(Response(id, address)))
            /\ \A l \in Locators :
                 SF_discoveryVars(Receive(l, [to |-> l, content |-> Response(id, address)]))

-------------------------------------------------------------------------------
(* Properties *)

\* A service that stays announced is found at its address by every locator that goes on
\* asking, whatever was lost, repeated or overtaken, also where both were constructed after
\* the first announcements were sent, unless the receiver of one of them gave up, which
\* nothing tells its owner.
ServicesAreFound ==
  \A p \in Providers, l \in Locators, id \in Ids, address \in Addresses :
    services[p][id] = address /\ life[p] = "subscribed"
      ~> \/ <<id, address>> \in found[l]
         \/ services[p][id] # address \/ life[p] # "subscribed" \/ crashed
         \/ thread[p] = "ended" \/ thread[l] = "ended"

===============================================================================
