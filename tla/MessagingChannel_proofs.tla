----------------------- MODULE MessagingChannel_proofs -----------------------
(***************************************************************************)
(* Proofs about MessagingChannel, for every set of messages and whatever    *)
(* the peer sends.                                                          *)
(***************************************************************************)
EXTENDS MessagingChannel, SequenceTheorems, TLAPS

Places(m) == m \in ToSet(queue) \/ m \in ToSet(task)

\* The destructor goes on when the threads have ended, and there are none before
\* the channel is opened.
JoinsSound ==
  /\ pc["owner"] = "created" => pc["sender"] = "none" /\ pc["receiver"] = "none"
  /\ pc["owner"] \in {"joinSender", "destroyQueue", "disconnect", "lock", "raising", "ended"}
       => HasEnded("receiver")
  /\ pc["owner"] \in {"destroyQueue", "disconnect", "lock", "raising", "ended"}
       => HasEnded("sender")

\* What the sender still has to write.
InTransit == IF pc["sender"] = "write" THEN task ELSE <<>>

Sending ==
  /\ pc["sender"] \in {"none", "start", "loop", "take", "wait", "retake", "write", "finish",
                       "heartbeat"}
  /\ pc["owner"] \in {"created", "opened", "joinReceiver", "joinSender", "destroyQueue"}

\* As long as the sender may write, the messages are on their way in the order in
\* which they came; later only what was written counts.
OrderSound ==
  /\ \E rest \in Seq(Messages) : accepted = written \o rest
  /\ Sending => accepted = written \o (InTransit \o queue)

\* A message is in one place at a time, and its future is open until it left.
PlacesSound ==
  /\ \A i, j \in 1 .. Len(queue) : queue[i] = queue[j] => i = j
  /\ ToSet(queue) \cap (ToSet(task) \cup ToSet(written)) = {}
  /\ pc["sender"] = "write" => ToSet(task) \cap ToSet(written) = {}
  /\ pc["sender"] = "finish" => ToSet(task) \subseteq ToSet(written)
  /\ pc["sender"] \notin {"write", "finish"} => task = <<>>
  /\ \A m \in Messages :
       /\ caller[m] = "idle" => promise[m] = "none"
       /\ caller[m] # "done" => ~Places(m) /\ m \notin ToSet(written) /\ m \notin cancelled
       /\ caller[m] = "adding" => promise[m] = "pending"
       /\ Places(m) => promise[m] = "pending" \/ (m \in cancelled /\ promise[m] = "false")

LinkSound ==
  /\ raised = IF connected THEN 0 ELSE 1
  /\ \A thread \in Threads : pc[thread] = "raising" => ~connected
  /\ \A thread, other \in Threads :
       pc[thread] = "raising" /\ pc[other] = "raising" => thread = other
  /\ pc["owner"] = "ended" => ~connected
  /\ connected => late = 0
  /\ late <= 1
  /\ pc["receiver"] \in {"read", "handle"} => late = 0

IInv == TypeOK /\ JoinsSound /\ OrderSound /\ PlacesSound /\ LinkSound /\ AnswersAreTrue

-------------------------------------------------------------------------------
(* The elements of a sequence. *)

LEMMA ElementsOfAppend ==
  ASSUME NEW S, NEW s \in Seq(S), NEW e \in S
  PROVE  ToSet(Append(s, e)) = ToSet(s) \cup {e}
<1>1. Len(Append(s, e)) = Len(s) + 1 /\ DOMAIN Append(s, e) = 1 .. Len(s) + 1
  OBVIOUS
<1>2. \A i \in 1 .. Len(s) : Append(s, e)[i] = s[i]
  OBVIOUS
<1>3. Append(s, e)[Len(s) + 1] = e
  OBVIOUS
<1>4. QED
  BY <1>1, <1>2, <1>3 DEF ToSet

LEMMA ElementsOfConcat ==
  ASSUME NEW S, NEW s \in Seq(S), NEW t \in Seq(S)
  PROVE  ToSet(s \o t) = ToSet(s) \cup ToSet(t)
<1>1. \A i \in 1 .. Len(s) : (s \o t)[i] = s[i]
  OBVIOUS
<1>2. \A i \in 1 .. Len(t) : (s \o t)[Len(s) + i] = t[i] /\ Len(s) + i \in 1 .. Len(s \o t)
  OBVIOUS
<1>3. \A i \in 1 .. Len(s \o t) :
        i \in 1 .. Len(s) \/ (i - Len(s) \in 1 .. Len(t) /\ i = Len(s) + (i - Len(s)))
  OBVIOUS
<1>4. /\ DOMAIN (s \o t) = 1 .. Len(s \o t) /\ Len(s \o t) = Len(s) + Len(t)
      /\ DOMAIN s = 1 .. Len(s) /\ DOMAIN t = 1 .. Len(t)
      /\ Len(s) \in Nat /\ Len(t) \in Nat
  OBVIOUS
<1>5. ASSUME NEW e, e \in ToSet(s \o t)
      PROVE  e \in ToSet(s) \cup ToSet(t)
  <2>1. PICK i \in 1 .. Len(s \o t) : e = (s \o t)[i]
    BY <1>4, <1>5 DEF ToSet
  <2>2. CASE i \in 1 .. Len(s)
    BY <1>1, <1>4, <2>1, <2>2 DEF ToSet
  <2>3. CASE i - Len(s) \in 1 .. Len(t) /\ i = Len(s) + (i - Len(s))
    BY <1>2, <1>4, <2>1, <2>3 DEF ToSet
  <2>4. QED
    BY <1>3, <2>2, <2>3
<1>6. ToSet(s) \subseteq ToSet(s \o t)
  <2>1. \A i \in 1 .. Len(s) : i \in 1 .. Len(s \o t)
    BY <1>4
  <2>2. QED
    BY <1>1, <1>4, <2>1 DEF ToSet
<1>7. ToSet(t) \subseteq ToSet(s \o t)
  BY <1>2, <1>4 DEF ToSet
<1>8. QED
  BY <1>5, <1>6, <1>7

LEMMA ElementsOfTail ==
  ASSUME NEW S, NEW s \in Seq(S), s # <<>>
  PROVE  /\ Head(s) \in S /\ Tail(s) \in Seq(S)
         /\ s = <<Head(s)>> \o Tail(s)
         /\ ToSet(s) = {Head(s)} \cup ToSet(Tail(s))
         /\ ToSet(<<Head(s)>>) = {Head(s)}
<1>1. Head(s) \in S /\ Tail(s) \in Seq(S)
  OBVIOUS
<1>2. s = <<Head(s)>> \o Tail(s)
  OBVIOUS
<1>3. ToSet(<<Head(s)>>) = {Head(s)}
  BY DEF ToSet
<1>4. <<Head(s)>> \in Seq(S)
  BY <1>1
<1>5. ToSet(<<Head(s)>> \o Tail(s)) = {Head(s)} \cup ToSet(Tail(s))
  <2>1. ToSet(<<Head(s)>> \o Tail(s)) = ToSet(<<Head(s)>>) \cup ToSet(Tail(s))
    BY <1>1, <1>4, ElementsOfConcat
  <2>2. QED
    BY <1>3, <2>1
<1>6. QED
  BY <1>1, <1>2, <1>3, <1>5

LEMMA AppendConcat ==
  ASSUME NEW s \in Seq(Messages), NEW t \in Seq(Messages), NEW e \in Messages
  PROVE  /\ s \o t \in Seq(Messages) /\ Append(t, e) \in Seq(Messages)
         /\ Append(s \o t, e) = s \o Append(t, e)
<1>1. <<e>> \in Seq(Messages) /\ s \o t \in Seq(Messages) /\ Append(t, e) \in Seq(Messages)
  OBVIOUS
<1>2. Append(s \o t, e) = (s \o t) \o <<e>> /\ Append(t, e) = t \o <<e>>
  BY <1>1, AppendIsConcat
<1>3. (s \o t) \o <<e>> = s \o (t \o <<e>>)
  BY <1>1, ConcatAssociative
<1>4. QED
  BY <1>1, <1>2, <1>3

LEMMA NoElements == ToSet(<<>>) = {}
BY DEF ToSet

-------------------------------------------------------------------------------

LEMMA InitIInv == Init => IInv
<1>1. SUFFICES ASSUME Init PROVE IInv
  OBVIOUS
<1>2. /\ pc \in [Threads -> {"none", "created"}]
      /\ pc["sender"] = "none" /\ pc["receiver"] = "none" /\ pc["owner"] = "created"
  BY <1>1 DEF Init, Threads
<1>3. TypeOK
  <2>1. arrived \in 0 .. MaxReceived
    BY <1>1, ChannelAssumption DEF Init
  <2>2. \A S : <<>> \in Seq(S)
    OBVIOUS
  <2>3. mutex = {thread \in Threads : pc[thread] = "raising"}
    BY <1>1, <1>2 DEF Init
  <2>4. QED
    BY <1>1, <1>2, <2>1, <2>2, <2>3
       DEF Init, TypeOK, SenderPlaces, ReceiverPlaces, OwnerPlaces, Running
<1>4. OrderSound
  <2>1. <<>> \in Seq(Messages) /\ <<>> \o <<>> = <<>>
    OBVIOUS
  <2>2. InTransit = <<>>
    BY <1>2 DEF InTransit
  <2>3. QED
    BY <1>1, <2>1, <2>2 DEF Init, OrderSound
<1>5. PlacesSound
  BY <1>1, <1>2, NoElements DEF Init, PlacesSound, Places
<1>6. JoinsSound /\ LinkSound /\ AnswersAreTrue
  BY <1>1, <1>2 DEF Init, JoinsSound, LinkSound, AnswersAreTrue, HasEnded
<1>7. QED
  BY <1>3, <1>4, <1>5, <1>6 DEF IInv

(* The steps that concern no message. *)

\* Such a step may stop the sender, but not move it to or from a message.
Aside ==
  /\ UNCHANGED outgoing
  /\ Sending' => Sending
  /\ \A place \in {"write", "finish"} : (pc'["sender"] = place) = (pc["sender"] = place)

LEMMA AsideStep ==
  ASSUME IInv, Aside
  PROVE  OrderSound' /\ PlacesSound' /\ AnswersAreTrue'
<1>1. OrderSound'
  BY DEF IInv, Aside, outgoing, OrderSound, InTransit
<1>2. PlacesSound'
  BY DEF IInv, Aside, outgoing, PlacesSound, Places
<1>3. AnswersAreTrue'
  BY DEF IInv, Aside, outgoing, AnswersAreTrue
<1>4. QED
  BY <1>1, <1>2, <1>3

LEMMA AddStep ==
  ASSUME IInv, NEW m \in Messages, Add(m)
  PROVE  IInv'
<1>1. /\ caller[m] = "adding" /\ caller' = [caller EXCEPT ![m] = "done"]
      /\ queue' = Append(queue, m) /\ accepted' = Append(accepted, m)
      /\ UNCHANGED <<complete, promise, cancelled, task, written, network, link, pc, late>>
  BY DEF Add
<1>2. TypeOK'
  BY <1>1 DEF IInv, TypeOK, network, link
<1>3. ToSet(queue') = ToSet(queue) \cup {m}
  BY <1>1, ElementsOfAppend DEF IInv, TypeOK
<1>4. ~Places(m) /\ m \notin ToSet(written) /\ promise[m] = "pending"
  BY <1>1 DEF IInv, PlacesSound
<1>5. \A i, j \in 1 .. Len(queue') : queue'[i] = queue'[j] => i = j
  <2>1. \A i \in 1 .. Len(queue) : queue'[i] = queue[i] /\ queue[i] # m
    BY <1>1, <1>4 DEF IInv, TypeOK, Places, ToSet
  <2>2. Len(queue') = Len(queue) + 1 /\ queue'[Len(queue) + 1] = m /\ Len(queue) \in Nat
    BY <1>1 DEF IInv, TypeOK
  <2>3. QED
    BY <2>1, <2>2 DEF IInv, PlacesSound
<1>6. PlacesSound'
  BY <1>1, <1>3, <1>4, <1>5 DEF IInv, TypeOK, PlacesSound, Places
<1>7. OrderSound'
  <2>1. /\ written \in Seq(Messages) /\ queue \in Seq(Messages)
        /\ InTransit \in Seq(Messages)
    BY DEF IInv, TypeOK, InTransit
  <2>2. ASSUME NEW rest \in Seq(Messages), accepted = written \o rest
        PROVE  accepted' = written \o Append(rest, m) /\ Append(rest, m) \in Seq(Messages)
    <3>1. /\ Append(written \o rest, m) = written \o Append(rest, m)
          /\ Append(rest, m) \in Seq(Messages)
      BY <2>1, AppendConcat, Zenon
    <3>2. QED
      BY <1>1, <2>2, <3>1
  <2>3. ASSUME Sending PROVE accepted' = written \o (InTransit \o queue')
    <3>1. /\ Append(InTransit \o queue, m) = InTransit \o Append(queue, m)
          /\ InTransit \o queue \in Seq(Messages)
      BY <2>1, AppendConcat, Zenon
    <3>2. accepted = written \o (InTransit \o queue)
      BY <2>3 DEF IInv, OrderSound
    <3>3. Append(written \o (InTransit \o queue), m) = written \o Append(InTransit \o queue, m)
      BY <2>1, <3>1, AppendConcat, Zenon
    <3>4. QED
      BY <1>1, <3>1, <3>2, <3>3, Zenon
  <2>4. InTransit' = InTransit /\ Sending' = Sending /\ written' = written
    BY <1>1 DEF InTransit, Sending
  <2>5. QED
    BY <2>2, <2>3, <2>4 DEF IInv, OrderSound
<1>8. JoinsSound' /\ LinkSound' /\ AnswersAreTrue'
  BY <1>1 DEF IInv, JoinsSound, HasEnded, LinkSound, link, AnswersAreTrue
<1>9. QED
  BY <1>2, <1>6, <1>7, <1>8 DEF IInv

LEMMA SendMessageStep ==
  ASSUME IInv, NEW m \in Messages, SendMessage(m)
  PROVE  IInv'
<1>1. /\ caller[m] = "idle" /\ promise[m] = "none"
      /\ UNCHANGED <<queue, complete, cancelled, task, accepted, written, network, link, pc, late>>
      /\ \/ promise' = promise /\ caller' = [caller EXCEPT ![m] = "done"]
         \/ /\ promise' = [promise EXCEPT ![m] = "pending"]
            /\ caller' = [caller EXCEPT ![m] = "adding"]
  BY DEF SendMessage, IInv, PlacesSound
<1>2. TypeOK'
  BY <1>1 DEF IInv, TypeOK, network, link
<1>3. OrderSound' /\ JoinsSound' /\ LinkSound'
  BY <1>1 DEF IInv, OrderSound, InTransit, Sending, JoinsSound, HasEnded, LinkSound, link
<1>4. PlacesSound'
  BY <1>1 DEF IInv, TypeOK, PlacesSound, Places
<1>5. AnswersAreTrue'
  BY <1>1 DEF IInv, TypeOK, AnswersAreTrue
<1>6. QED
  BY <1>2, <1>3, <1>4, <1>5 DEF IInv

LEMMA CancelStep ==
  ASSUME IInv, NEW m \in Messages, Cancel(m)
  PROVE  IInv'
<1>1. /\ caller[m] = "done" /\ promise[m] = "pending"
      /\ promise' = [promise EXCEPT ![m] = "false"]
      /\ cancelled' = cancelled \cup {m}
      /\ UNCHANGED <<queue, complete, caller, task, accepted, written, network, link, pc, late>>
  BY DEF Cancel, Resolve, IInv, TypeOK
<1>2. TypeOK'
  BY <1>1 DEF IInv, TypeOK, network, link
<1>3. OrderSound' /\ JoinsSound' /\ LinkSound'
  BY <1>1 DEF IInv, OrderSound, InTransit, Sending, JoinsSound, HasEnded, LinkSound, link
<1>4. PlacesSound'
  BY <1>1 DEF IInv, TypeOK, PlacesSound, Places
<1>5. AnswersAreTrue'
  BY <1>1 DEF IInv, TypeOK, AnswersAreTrue
<1>6. QED
  BY <1>2, <1>3, <1>4, <1>5 DEF IInv

-------------------------------------------------------------------------------
(* The steps of the sender that move messages. *)

LEMMA TakeStep ==
  ASSUME IInv, Take
  PROVE  IInv'
<1>1. CASE queue = <<>>
  <2>1. /\ pc["sender"] \in {"take", "retake"}
        /\ \/ pc' = [pc EXCEPT !["sender"] = "heartbeat"]
           \/ pc' = [pc EXCEPT !["sender"] = "wait"]
        /\ UNCHANGED <<outgoing, network, link, late>>
    BY <1>1 DEF Take, Goto, outgoing
  <2>2. Aside
    BY <2>1 DEF IInv, TypeOK, Threads, Aside, Sending
  <2>3. TypeOK' /\ JoinsSound' /\ LinkSound'
    BY <2>1 DEF IInv, TypeOK, Threads, SenderPlaces, outgoing, network, link,
                JoinsSound, HasEnded, LinkSound
  <2>4. QED
    BY <2>2, <2>3, AsideStep DEF IInv
<1>2. CASE queue # <<>>
  <2>1. /\ pc["sender"] \in {"take", "retake"}
        /\ pc' = [pc EXCEPT !["sender"] = "write"]
        /\ task' = <<Head(queue)>> /\ queue' = Tail(queue)
        /\ UNCHANGED <<complete, caller, promise, cancelled, accepted, written, network, link,
                       late>>
    BY <1>2 DEF Take, Goto, TakeFront
  <2>2. /\ Head(queue) \in Messages /\ Tail(queue) \in Seq(Messages)
        /\ queue = <<Head(queue)>> \o Tail(queue)
        /\ ToSet(queue) = {Head(queue)} \cup ToSet(Tail(queue))
        /\ ToSet(task') = {Head(queue)}
    BY <1>2, <2>1, ElementsOfTail DEF IInv, TypeOK
  <2>3. /\ pc'["sender"] = "write" /\ pc'["owner"] = pc["owner"]
        /\ pc'["receiver"] = pc["receiver"] /\ pc["sender"] \in {"take", "retake"}
        /\ \A thread \in Threads : (pc'[thread] = "raising") = (pc[thread] = "raising")
    BY <2>1 DEF IInv, TypeOK, Threads
  <2>4. TypeOK'
    BY <2>1, <2>2, <2>3 DEF IInv, TypeOK, Threads, SenderPlaces, network, link
  <2>5. OrderSound'
    <3>1. InTransit = <<>> /\ <<>> \o queue = queue
      BY <2>3 DEF IInv, TypeOK, InTransit
    <3>2. InTransit' \o queue' = queue
      BY <2>1, <2>2, <2>3 DEF InTransit
    <3>3. Sending' => Sending
      BY <2>3 DEF Sending
    <3>4. QED
      BY <2>1, <3>1, <3>2, <3>3 DEF IInv, OrderSound
  <2>6. PlacesSound'
    <3>1. \A i \in 1 .. Len(queue') : queue'[i] = queue[i + 1] /\ i + 1 \in 1 .. Len(queue)
      BY <1>2, <2>1 DEF IInv, TypeOK
    <3>2. \A i, j \in 1 .. Len(queue') : queue'[i] = queue'[j] => i = j
      BY <3>1 DEF IInv, PlacesSound
    <3>3. Head(queue) \notin ToSet(queue')
      <4>1. Head(queue) = queue[1] /\ 1 \in 1 .. Len(queue)
        BY <1>2 DEF IInv, TypeOK
      <4>2. DOMAIN queue' = 1 .. Len(queue')
        BY <2>1, <2>2
      <4>3. \A i \in 1 .. Len(queue') : queue'[i] # Head(queue)
        BY <3>1, <4>1 DEF IInv, PlacesSound
      <4>4. QED
        BY <4>2, <4>3 DEF ToSet
    <3>4. \A m : Places(m)' => Places(m)
      BY <2>1, <2>2 DEF Places
    <3>5. QED
      BY <2>1, <2>2, <2>3, <3>2, <3>3, <3>4 DEF IInv, PlacesSound
  <2>7. JoinsSound' /\ LinkSound' /\ AnswersAreTrue'
    BY <2>1, <2>3 DEF IInv, JoinsSound, HasEnded, LinkSound, link, AnswersAreTrue
  <2>8. QED
    BY <2>4, <2>5, <2>6, <2>7 DEF IInv
<1>3. QED
  BY <1>1, <1>2

LEMMA WriteStep ==
  ASSUME IInv, Write
  PROVE  IInv'
<1>1. /\ pc["sender"] = "write" /\ pc' = [pc EXCEPT !["sender"] = "finish"]
      /\ written' = written \o task
      /\ peer' \in {peer, "resetting"}
      /\ UNCHANGED <<queue, complete, caller, promise, cancelled, task, accepted,
                     socketOpen, inbox, arrived, link, late>>
  BY DEF Write, ToPeer, Goto
<1>2. /\ pc'["sender"] = "finish" /\ pc'["owner"] = pc["owner"]
      /\ pc'["receiver"] = pc["receiver"]
      /\ \A thread \in Threads : (pc'[thread] = "raising") = (pc[thread] = "raising")
  BY <1>1 DEF IInv, TypeOK, Threads
<1>3. /\ written \in Seq(Messages) /\ task \in Seq(Messages) /\ queue \in Seq(Messages)
      /\ written' \in Seq(Messages)
  BY <1>1 DEF IInv, TypeOK
<1>4. ToSet(written') = ToSet(written) \cup ToSet(task)
  BY <1>1, <1>3, ElementsOfConcat
<1>5. TypeOK'
  BY <1>1, <1>2, <1>3 DEF IInv, TypeOK, Threads, SenderPlaces, link
<1>6. OrderSound'
  <2>1. Sending
    BY <1>1 DEF IInv, TypeOK, JoinsSound, HasEnded, Sending, OwnerPlaces
  <2>2. accepted = written \o (task \o queue)
    BY <1>1, <2>1 DEF IInv, OrderSound, InTransit
  <2>3. written \o (task \o queue) = (written \o task) \o queue
    BY <1>3, ConcatAssociative
  <2>4. InTransit' = <<>> /\ <<>> \o queue = queue
    BY <1>2, <1>3 DEF InTransit
  <2>5. QED
    BY <1>1, <1>3, <2>2, <2>3, <2>4 DEF OrderSound
<1>7. PlacesSound'
  BY <1>1, <1>2, <1>4 DEF IInv, PlacesSound, Places
<1>8. AnswersAreTrue'
  <2>1. \A m \in ToSet(task) : promise[m] # "false" \/ m \in cancelled
    <3>1. ToSet(task) \subseteq Messages
      BY <1>3 DEF ToSet
    <3>2. QED
      BY <3>1 DEF IInv, PlacesSound, Places
  <2>2. QED
    BY <1>1, <1>4, <2>1 DEF IInv, AnswersAreTrue
<1>9. JoinsSound' /\ LinkSound'
  BY <1>1, <1>2 DEF IInv, JoinsSound, HasEnded, LinkSound, link
<1>10. QED
  BY <1>5, <1>6, <1>7, <1>8, <1>9 DEF IInv

LEMMA FinishStep ==
  ASSUME IInv, Finish
  PROVE  IInv'
<1>1. /\ pc["sender"] = "finish" /\ pc' = [pc EXCEPT !["sender"] = "loop"]
      /\ task' = <<>> /\ promise' = Resolve(ToSet(task), "true")
      /\ UNCHANGED <<queue, complete, caller, cancelled, accepted, written, network, link, late>>
  BY DEF Finish, Goto
<1>2. /\ pc'["sender"] = "loop" /\ pc'["owner"] = pc["owner"]
      /\ pc'["receiver"] = pc["receiver"]
      /\ \A thread \in Threads : (pc'[thread] = "raising") = (pc[thread] = "raising")
  BY <1>1 DEF IInv, TypeOK, Threads
<1>3. TypeOK'
  BY <1>1, <1>2 DEF IInv, TypeOK, Threads, SenderPlaces, Running, network, link, Resolve
<1>4. OrderSound'
  BY <1>1, <1>2 DEF IInv, OrderSound, InTransit, Sending
<1>5. PlacesSound'
  <2>1. \A m \in Messages : Places(m)' => m \in ToSet(queue) /\ m \notin ToSet(task)
    BY <1>1, NoElements DEF IInv, PlacesSound, Places
  <2>2. \A m \in Messages : m \notin ToSet(task) => promise'[m] = promise[m]
    BY <1>1 DEF Resolve
  <2>3. \A m \in Messages : caller[m] # "done" => m \notin ToSet(task)
    BY DEF IInv, PlacesSound, Places
  <2>4. QED
    BY <1>1, <1>2, <2>1, <2>2, <2>3, NoElements DEF IInv, PlacesSound, Places
<1>6. AnswersAreTrue'
  BY <1>1 DEF IInv, PlacesSound, AnswersAreTrue, Resolve
<1>7. JoinsSound' /\ LinkSound'
  BY <1>1, <1>2 DEF IInv, JoinsSound, HasEnded, LinkSound, link
<1>8. QED
  BY <1>3, <1>4, <1>5, <1>6, <1>7 DEF IInv

LEMMA FailWriteStep ==
  ASSUME IInv, FailWrite
  PROVE  IInv'
<1>1. /\ pc["sender"] = "write" /\ pc' = [pc EXCEPT !["sender"] = "complete"]
      /\ task' = <<>> /\ promise' = Resolve(ToSet(task), "false")
      /\ UNCHANGED <<queue, complete, caller, cancelled, accepted, written, network, link, late>>
  BY DEF FailWrite, AnswerOfFailed, Drop, Goto
<1>2. /\ pc'["sender"] = "complete" /\ pc'["owner"] = pc["owner"]
      /\ pc'["receiver"] = pc["receiver"]
      /\ \A thread \in Threads : (pc'[thread] = "raising") = (pc[thread] = "raising")
  BY <1>1 DEF IInv, TypeOK, Threads
<1>3. TypeOK'
  BY <1>1, <1>2 DEF IInv, TypeOK, Threads, SenderPlaces, network, link, Resolve
<1>4. OrderSound'
  BY <1>1, <1>2 DEF IInv, OrderSound, Sending
<1>5. PlacesSound'
  <2>1. \A m \in Messages : Places(m)' => m \in ToSet(queue) /\ m \notin ToSet(task)
    BY <1>1, NoElements DEF IInv, PlacesSound, Places
  <2>2. \A m \in Messages : m \notin ToSet(task) => promise'[m] = promise[m]
    BY <1>1 DEF Resolve
  <2>3. \A m \in Messages : caller[m] # "done" => m \notin ToSet(task)
    BY DEF IInv, PlacesSound, Places
  <2>4. QED
    BY <1>1, <1>2, <2>1, <2>2, <2>3, NoElements DEF IInv, PlacesSound, Places
<1>6. AnswersAreTrue'
  BY <1>1 DEF IInv, PlacesSound, AnswersAreTrue, Resolve
<1>7. JoinsSound' /\ LinkSound'
  BY <1>1, <1>2 DEF IInv, JoinsSound, HasEnded, LinkSound, link
<1>8. QED
  BY <1>3, <1>4, <1>5, <1>6, <1>7 DEF IInv

\* Emptying the queue, by the sender that gave up or by the destructor.
LEMMA EmptyStep ==
  ASSUME IInv, pc["sender"] \notin {"write", "finish"}, pc'["sender"] \notin {"write", "finish"},
         promise' = Resolve(ToSet(queue), "false"), queue' = <<>>,
         UNCHANGED <<caller, cancelled, task, accepted, written>>
  PROVE  PlacesSound' /\ AnswersAreTrue'
<1>1. task = <<>>
  BY DEF IInv, PlacesSound
<1>2. \A m \in Messages : ~Places(m)'
  BY <1>1, NoElements DEF Places
<1>3. \A m \in Messages : caller[m] # "done" => promise'[m] = promise[m]
  BY DEF IInv, PlacesSound, Places, Resolve
<1>4. PlacesSound'
  BY <1>1, <1>2, <1>3, NoElements DEF IInv, PlacesSound
<1>5. AnswersAreTrue'
  BY DEF IInv, PlacesSound, AnswersAreTrue, Resolve
<1>6. QED
  BY <1>4, <1>5

LEMMA ClearStep ==
  ASSUME IInv, Clear
  PROVE  IInv'
<1>1. /\ pc["sender"] = "clear" /\ pc' = [pc EXCEPT !["sender"] = "disconnect"]
      /\ queue' = <<>> /\ promise' = Resolve(ToSet(queue), "false")
      /\ UNCHANGED <<complete, caller, cancelled, task, accepted, written, network, link, late>>
  BY DEF Clear, Drop, Goto
<1>2. /\ pc'["sender"] = "disconnect" /\ pc'["owner"] = pc["owner"]
      /\ pc'["receiver"] = pc["receiver"]
      /\ \A thread \in Threads : (pc'[thread] = "raising") = (pc[thread] = "raising")
  BY <1>1 DEF IInv, TypeOK, Threads
<1>3. TypeOK'
  BY <1>1, <1>2 DEF IInv, TypeOK, Threads, SenderPlaces, Running, network, link, Resolve
<1>4. OrderSound'
  BY <1>1, <1>2 DEF IInv, OrderSound, Sending
<1>5. PlacesSound' /\ AnswersAreTrue'
  BY <1>1, <1>2, EmptyStep
<1>6. JoinsSound' /\ LinkSound'
  BY <1>1, <1>2 DEF IInv, JoinsSound, HasEnded, LinkSound, link
<1>7. QED
  BY <1>3, <1>4, <1>5, <1>6 DEF IInv

LEMMA DestroyQueueStep ==
  ASSUME IInv, DestroyQueue
  PROVE  IInv'
<1>1. /\ pc["owner"] = "destroyQueue" /\ pc' = [pc EXCEPT !["owner"] = "disconnect"]
      /\ queue' = <<>> /\ promise' = Resolve(ToSet(queue), "false") /\ complete' = TRUE
      /\ UNCHANGED <<caller, cancelled, task, accepted, written, network, link, late>>
  BY DEF DestroyQueue, Drop, Goto
<1>2. /\ pc'["owner"] = "disconnect" /\ pc'["sender"] = pc["sender"]
      /\ pc'["receiver"] = pc["receiver"] /\ pc["sender"] \in {"none", "ended"}
      /\ \A thread \in Threads : (pc'[thread] = "raising") = (pc[thread] = "raising")
  BY <1>1 DEF IInv, TypeOK, JoinsSound, HasEnded, Threads
<1>3. TypeOK'
  BY <1>1, <1>2 DEF IInv, TypeOK, Threads, OwnerPlaces, network, link, Resolve
<1>4. OrderSound'
  BY <1>1, <1>2 DEF IInv, OrderSound, Sending
<1>5. PlacesSound' /\ AnswersAreTrue'
  BY <1>1, <1>2, EmptyStep
<1>6. JoinsSound' /\ LinkSound'
  BY <1>1, <1>2 DEF IInv, JoinsSound, HasEnded, LinkSound, link
<1>7. QED
  BY <1>3, <1>4, <1>5, <1>6 DEF IInv

LEMMA CompleteStep ==
  ASSUME IInv, Complete
  PROVE  IInv'
<1>1. /\ pc["sender"] = "complete" /\ pc' = [pc EXCEPT !["sender"] = "clear"]
      /\ complete' = TRUE
      /\ UNCHANGED <<queue, caller, promise, cancelled, task, accepted, written, network, link,
                     late>>
  BY DEF Complete, Goto
<1>2. /\ pc'["sender"] = "clear" /\ pc'["owner"] = pc["owner"]
      /\ pc'["receiver"] = pc["receiver"]
      /\ \A thread \in Threads : (pc'[thread] = "raising") = (pc[thread] = "raising")
  BY <1>1 DEF IInv, TypeOK, Threads
<1>3. TypeOK'
  BY <1>1, <1>2 DEF IInv, TypeOK, Threads, SenderPlaces, network, link
<1>4. OrderSound'
  BY <1>1, <1>2 DEF IInv, OrderSound, Sending
<1>5. PlacesSound' /\ AnswersAreTrue'
  BY <1>1, <1>2 DEF IInv, PlacesSound, Places, AnswersAreTrue
<1>6. JoinsSound' /\ LinkSound'
  BY <1>1, <1>2 DEF IInv, JoinsSound, HasEnded, LinkSound, link
<1>7. QED
  BY <1>3, <1>4, <1>5, <1>6 DEF IInv

-------------------------------------------------------------------------------
(* The steps that concern no message, thread by thread. *)

\* A step of one thread to another place, for instance of a loop.
Walks(thread, from, to) ==
  /\ pc[thread] = from /\ pc' = [pc EXCEPT ![thread] = to]
  /\ UNCHANGED <<outgoing, link>>
  /\ from # "raising" /\ to # "raising"

NetworkSound ==
  /\ socketOpen \in BOOLEAN /\ peer \in {"up", "closed", "resetting", "broken"}
  /\ inbox \in Seq({"message", "heartbeat", "garbage"}) /\ arrived \in 0 .. MaxReceived

LEMMA SenderWalk ==
  ASSUME IInv, NEW from \in SenderPlaces, NEW to \in SenderPlaces \ {"none", "start"},
         Walks("sender", from, to), from \notin {"none", "write", "finish", "ended"},
         to \notin {"write", "finish"},
         to \in {"loop", "take", "wait", "retake", "heartbeat"} =>
           from \in {"start", "loop", "take", "wait", "retake", "heartbeat"},
         UNCHANGED late, NetworkSound'
  PROVE  IInv'
<1>1. /\ pc'["sender"] = to /\ pc["sender"] = from
      /\ pc'["owner"] = pc["owner"] /\ pc'["receiver"] = pc["receiver"]
      /\ \A thread \in Threads : (pc'[thread] = "raising") = (pc[thread] = "raising")
  BY DEF IInv, TypeOK, Threads, Walks
<1>2. TypeOK'
  BY <1>1 DEF IInv, TypeOK, Walks, outgoing, link, NetworkSound, Threads
<1>3. JoinsSound' /\ LinkSound'
  BY <1>1 DEF IInv, JoinsSound, HasEnded, LinkSound, Walks, link
<1>4. Sending' => Sending
  BY <1>1 DEF Sending, SenderPlaces, Running
<1>5. Aside
  BY <1>1, <1>4 DEF Aside, Walks
<1>6. QED
  BY <1>2, <1>3, <1>5, AsideStep DEF IInv

LEMMA ReceiverWalk ==
  ASSUME IInv, NEW from \in ReceiverPlaces, NEW to \in ReceiverPlaces \ {"none"},
         Walks("receiver", from, to), from \notin {"none", "ended"},
         late' <= 1, late' \in Nat, connected => late' = 0,
         to \in {"read", "handle"} => late' = 0, NetworkSound'
  PROVE  IInv'
<1>1. /\ pc'["receiver"] = to /\ pc["receiver"] = from
      /\ pc'["owner"] = pc["owner"] /\ pc'["sender"] = pc["sender"]
      /\ \A thread \in Threads : (pc'[thread] = "raising") = (pc[thread] = "raising")
  BY DEF IInv, TypeOK, Threads, Walks
<1>2. TypeOK'
  BY <1>1 DEF IInv, TypeOK, Walks, outgoing, link, NetworkSound, Threads
<1>3. JoinsSound' /\ LinkSound'
  BY <1>1 DEF IInv, JoinsSound, HasEnded, LinkSound, Walks, link
<1>4. Aside
  BY <1>1 DEF Aside, Walks, Sending
<1>5. QED
  BY <1>2, <1>3, <1>4, AsideStep DEF IInv

OwnerWalks ==
  {<<"created", "joinReceiver">>, <<"opened", "joinReceiver">>, <<"joinReceiver", "joinSender">>,
   <<"joinSender", "destroyQueue">>, <<"disconnect", "lock">>, <<"disconnect", "ended">>,
   <<"lock", "ended">>}

LEMMA OwnerWalk ==
  ASSUME IInv, NEW from, NEW to, Walks("owner", from, to), <<from, to>> \in OwnerWalks,
         to = "joinSender" => HasEnded("receiver"),
         to = "destroyQueue" => HasEnded("sender"),
         to = "ended" => ~connected,
         UNCHANGED late, NetworkSound'
  PROVE  IInv'
<1>1. /\ pc'["owner"] = to /\ pc["owner"] = from
      /\ pc'["receiver"] = pc["receiver"] /\ pc'["sender"] = pc["sender"]
      /\ \A thread \in Threads : (pc'[thread] = "raising") = (pc[thread] = "raising")
  BY DEF IInv, TypeOK, Threads, Walks
<1>2. /\ from \in OwnerPlaces /\ to \in OwnerPlaces /\ to # "created"
      /\ (to \in {"lock", "ended"}) = (from \in {"disconnect", "lock"})
      /\ (to = "joinSender") = (from = "joinReceiver")
      /\ (to = "destroyQueue") = (from = "joinSender")
      /\ from \notin {"destroyQueue", "ended"}
      /\ to # "disconnect"
  BY DEF OwnerWalks, OwnerPlaces
<1>3. TypeOK'
  BY <1>1, <1>2 DEF IInv, TypeOK, Walks, outgoing, link, NetworkSound, Threads
<1>4. JoinsSound' /\ LinkSound'
  BY <1>1, <1>2 DEF IInv, JoinsSound, HasEnded, LinkSound, Walks, link, OwnerPlaces
<1>5. Aside
  BY <1>1, <1>2 DEF Aside, Walks, Sending, OwnerPlaces
<1>6. QED
  BY <1>3, <1>4, <1>5, AsideStep DEF IInv

LEMMA NetworkKept ==
  ASSUME IInv, UNCHANGED network
  PROVE  NetworkSound'
BY DEF IInv, TypeOK, network, NetworkSound

\* What the network does by itself.
LEMMA EnvironmentStep ==
  ASSUME IInv, UNCHANGED <<outgoing, link, pc, late>>, NetworkSound'
  PROVE  IInv'
<1>1. TypeOK'
  BY DEF IInv, TypeOK, outgoing, link, NetworkSound
<1>2. JoinsSound' /\ LinkSound'
  BY DEF IInv, JoinsSound, HasEnded, LinkSound, link
<1>3. Aside
  BY DEF Aside, Sending
<1>4. QED
  BY <1>1, <1>2, <1>3, AsideStep DEF IInv

LEMMA OpenStep ==
  ASSUME IInv, Open
  PROVE  IInv'
<1>1. /\ pc["owner"] = "created" /\ pc["sender"] = "none" /\ pc["receiver"] = "none"
      /\ pc'["owner"] = "opened" /\ pc'["sender"] = "start" /\ pc'["receiver"] = "start"
      /\ pc' \in [Threads -> {"opened", "start"}]
      /\ UNCHANGED <<outgoing, network, link, late>>
  BY DEF IInv, JoinsSound, Open, Threads
<1>2. mutex' = {thread \in Threads : pc'[thread] = "raising"}
  BY <1>1 DEF IInv, TypeOK, Threads, link
<1>3. TypeOK'
  BY <1>1, <1>2 DEF IInv, TypeOK, outgoing, link, network, SenderPlaces, ReceiverPlaces,
                    OwnerPlaces, Running
<1>4. JoinsSound' /\ LinkSound'
  BY <1>1 DEF IInv, JoinsSound, HasEnded, LinkSound, link, Threads
<1>5. Aside
  BY <1>1 DEF Aside, Sending
<1>6. QED
  BY <1>3, <1>4, <1>5, AsideStep DEF IInv

-------------------------------------------------------------------------------
(* on_disconnected, in each of the three threads. *)

LEMMA DisconnectStep ==
  ASSUME IInv, NEW thread \in Threads, Disconnect(thread)
  PROVE  IInv'
<1>1. NetworkSound' /\ UNCHANGED late
  BY NetworkKept DEF Disconnect
<1>2. PICK to \in {"lock", "ended"} :
        Walks(thread, "disconnect", to) /\ (to = "ended" => ~connected)
  BY DEF Disconnect, Goto, Walks
<1>3. CASE thread = "sender"
  BY <1>1, <1>2, <1>3, SenderWalk DEF SenderPlaces, Running
<1>4. CASE thread = "receiver"
  BY <1>1, <1>2, <1>4, ReceiverWalk DEF ReceiverPlaces, Running, IInv, LinkSound, TypeOK
<1>5. CASE thread = "owner"
  BY <1>1, <1>2, <1>5, OwnerWalk DEF OwnerWalks
<1>6. QED
  BY <1>3, <1>4, <1>5 DEF Threads

LEMMA RaiseDisconnectedStep ==
  ASSUME IInv, NEW thread \in Threads, RaiseDisconnected(thread)
  PROVE  IInv'
<1>1. NetworkSound' /\ UNCHANGED late /\ pc[thread] = "lock"
  BY NetworkKept DEF RaiseDisconnected
<1>2. CASE ~connected
  <2>1. Walks(thread, "lock", "ended")
    BY <1>2 DEF RaiseDisconnected, StillConnected, Goto, Walks
  <2>2. CASE thread = "sender"
    BY <1>1, <2>1, <2>2, SenderWalk DEF SenderPlaces, Running
  <2>3. CASE thread = "receiver"
    BY <1>1, <2>1, <2>3, ReceiverWalk DEF ReceiverPlaces, Running, IInv, LinkSound, TypeOK
  <2>4. CASE thread = "owner"
    BY <1>1, <1>2, <2>1, <2>4, OwnerWalk DEF OwnerWalks
  <2>5. QED
    BY <2>2, <2>3, <2>4 DEF Threads
<1>3. CASE connected
  <2>1. /\ mutex = {} /\ mutex' = {thread} /\ connected' = FALSE /\ raised' = raised + 1
        /\ pc' = [pc EXCEPT ![thread] = "raising"]
        /\ UNCHANGED <<outgoing, network, late>>
    BY <1>3 DEF RaiseDisconnected, StillConnected, Goto
  <2>2. /\ pc'[thread] = "raising"
        /\ \A other \in Threads : other # thread => pc'[other] = pc[other]
        /\ \A other \in Threads : pc[other] # "raising"
    BY <2>1 DEF IInv, TypeOK
  <2>3. TypeOK'
    <3>1. mutex' = {other \in Threads : pc'[other] = "raising"}
      BY <2>1, <2>2
    <3>2. raised' \in Nat
      BY <2>1 DEF IInv, TypeOK
    <3>3. /\ pc' \in [Threads -> SenderPlaces \cup ReceiverPlaces \cup OwnerPlaces]
          /\ pc'["sender"] \in SenderPlaces /\ pc'["receiver"] \in ReceiverPlaces
          /\ pc'["owner"] \in OwnerPlaces
      BY <2>1, <2>2 DEF IInv, TypeOK, Threads, SenderPlaces, ReceiverPlaces, OwnerPlaces, Running
    <3>4. QED
      BY <1>1, <2>1, <3>1, <3>2, <3>3 DEF IInv, TypeOK, outgoing, NetworkSound
  <2>4. JoinsSound'
    BY <1>1, <2>1, <2>2 DEF IInv, JoinsSound, HasEnded, Threads
  <2>5. LinkSound'
    BY <1>1, <1>3, <2>1, <2>2 DEF IInv, LinkSound, Threads
  <2>6. Aside
    BY <1>1, <2>1, <2>2 DEF Aside, Sending, Threads
  <2>7. QED
    BY <2>3, <2>4, <2>5, <2>6, AsideStep DEF IInv
<1>4. QED
  BY <1>2, <1>3

LEMMA FinishDisconnectedStep ==
  ASSUME IInv, NEW thread \in Threads, FinishDisconnected(thread)
  PROVE  IInv'
<1>1. NetworkSound' /\ UNCHANGED <<late, connected, raised, outgoing>> /\ pc[thread] = "raising"
  BY NetworkKept DEF FinishDisconnected
<1>2. mutex' = {} /\ pc' = [pc EXCEPT ![thread] = "ended"] /\ ~connected
  BY <1>1 DEF FinishDisconnected, Unlock, Goto, IInv, LinkSound
<1>3. /\ pc'[thread] = "ended"
      /\ \A other \in Threads : other # thread => pc'[other] = pc[other]
      /\ \A other \in Threads : pc'[other] # "raising"
  BY <1>1, <1>2 DEF IInv, TypeOK, LinkSound
<1>4. TypeOK'
  BY <1>1, <1>2, <1>3 DEF IInv, TypeOK, outgoing, NetworkSound, Threads, SenderPlaces,
                          ReceiverPlaces, OwnerPlaces, Running
<1>5. JoinsSound'
  BY <1>1, <1>3 DEF IInv, JoinsSound, HasEnded, Threads
<1>6. LinkSound'
  BY <1>1, <1>2, <1>3 DEF IInv, LinkSound, Threads
<1>7. Aside
  BY <1>1, <1>3 DEF Aside, Sending, Threads
<1>8. QED
  BY <1>4, <1>5, <1>6, <1>7, AsideStep DEF IInv

LEMMA OnDisconnectedStep ==
  ASSUME IInv, NEW thread \in Threads, OnDisconnected(thread)
  PROVE  IInv'
BY DisconnectStep, RaiseDisconnectedStep, FinishDisconnectedStep DEF OnDisconnected

-------------------------------------------------------------------------------

LEMMA SenderStep ==
  ASSUME IInv, SenderNext
  PROVE  IInv'
<1>1. CASE StartSender
  <2>1. PICK to \in {"loop", "complete"} : Walks("sender", "start", to)
    BY <1>1 DEF StartSender, Goto, Walks
  <2>2. UNCHANGED late /\ NetworkSound'
    BY <1>1, NetworkKept DEF StartSender
  <2>3. QED
    BY <2>1, <2>2, SenderWalk DEF SenderPlaces, Running
<1>2. CASE LoopSender
  <2>1. PICK to \in {"take", "complete"} : Walks("sender", "loop", to)
    BY <1>2 DEF LoopSender, Goto, Walks
  <2>2. UNCHANGED late /\ NetworkSound'
    BY <1>2, NetworkKept DEF LoopSender
  <2>3. QED
    BY <2>1, <2>2, SenderWalk DEF SenderPlaces, Running
<1>3. CASE Wait
  <2>1. Walks("sender", "wait", "retake")
    BY <1>3 DEF Wait, Goto, Walks
  <2>2. UNCHANGED late /\ NetworkSound'
    BY <1>3, NetworkKept DEF Wait
  <2>3. QED
    BY <2>1, <2>2, SenderWalk DEF SenderPlaces, Running
<1>4. CASE Heartbeat
  <2>1. PICK to \in {"loop", "complete"} : Walks("sender", "heartbeat", to)
    BY <1>4 DEF Heartbeat, Beat, Goto, Walks
  <2>2. peer' \in {peer, "resetting"} /\ UNCHANGED <<socketOpen, inbox, arrived, late>>
    BY <1>4 DEF Heartbeat, Beat, ToPeer
  <2>3. NetworkSound'
    BY <2>2 DEF IInv, TypeOK, NetworkSound
  <2>4. QED
    BY <2>1, <2>2, <2>3, SenderWalk DEF SenderPlaces, Running
<1>5. QED
  BY <1>1, <1>2, <1>3, <1>4, TakeStep, WriteStep, FinishStep, FailWriteStep, CompleteStep,
     ClearStep, OnDisconnectedStep DEF SenderNext, Threads

LEMMA ReceiverStep ==
  ASSUME IInv, ReceiverNext
  PROVE  IInv'
<1>1. late \in Nat /\ late <= 1 /\ (connected => late = 0)
  BY DEF IInv, TypeOK, LinkSound
<1>2. CASE StartReceiver
  <2>1. PICK to \in {"loop", "disconnect"} : Walks("receiver", "start", to)
    BY <1>2 DEF StartReceiver, Goto, Walks
  <2>2. UNCHANGED late /\ NetworkSound'
    BY <1>2, NetworkKept DEF StartReceiver
  <2>3. QED
    BY <1>1, <2>1, <2>2, ReceiverWalk DEF ReceiverPlaces, Running
<1>3. CASE LoopReceiver
  <2>1. PICK to \in {"read", "disconnect"} :
          Walks("receiver", "loop", to) /\ (to = "read" => connected)
    BY <1>3 DEF LoopReceiver, KeepsReading, Goto, Walks
  <2>2. UNCHANGED late /\ NetworkSound'
    BY <1>3, NetworkKept DEF LoopReceiver
  <2>3. QED
    BY <1>1, <2>1, <2>2, ReceiverWalk DEF ReceiverPlaces, Running
<1>4. CASE Read
  <2>1. inbox' = Tail(inbox) /\ UNCHANGED <<socketOpen, peer, arrived, late>> /\ inbox # <<>>
    BY <1>4 DEF Read
  <2>2. Head(inbox) \in {"message", "heartbeat", "garbage"}
    BY <2>1 DEF IInv, TypeOK
  <2>3. PICK to \in {"handle", "loop", "disconnect"} : Walks("receiver", "read", to)
    BY <1>4, <2>2 DEF Read, Goto, Walks
  <2>4. NetworkSound'
    BY <2>1 DEF IInv, TypeOK, NetworkSound
  <2>5. late = 0
    BY <2>3 DEF IInv, LinkSound, Walks
  <2>6. QED
    BY <2>1, <2>3, <2>4, <2>5, ReceiverWalk DEF ReceiverPlaces, Running
<1>5. CASE FailRead
  <2>1. Walks("receiver", "read", "disconnect")
    BY <1>5 DEF FailRead, Goto, Walks
  <2>2. UNCHANGED late /\ NetworkSound'
    BY <1>5, NetworkKept DEF FailRead
  <2>3. QED
    BY <1>1, <2>1, <2>2, ReceiverWalk DEF ReceiverPlaces, Running
<1>6. CASE OnReceived
  <2>1. Walks("receiver", "handle", "loop")
    BY <1>6 DEF OnReceived, Goto, Walks
  <2>2. NetworkSound'
    BY <1>6, NetworkKept DEF OnReceived
  <2>3. late' <= 1 /\ late' \in Nat /\ (connected => late' = 0)
    BY <1>6 DEF OnReceived, IInv, LinkSound, TypeOK
  <2>4. QED
    BY <2>1, <2>2, <2>3, ReceiverWalk DEF ReceiverPlaces, Running
<1>7. QED
  BY <1>2, <1>3, <1>4, <1>5, <1>6, OnDisconnectedStep DEF ReceiverNext, Threads

LEMMA OwnerStep ==
  ASSUME IInv, Open \/ Destroy \/ DestroyNext
  PROVE  IInv'
<1>1. CASE Destroy
  <2>1. /\ socketOpen' = FALSE /\ UNCHANGED <<peer, inbox, arrived, late>>
        /\ pc["owner"] \in {"created", "opened"}
        /\ Walks("owner", pc["owner"], "joinReceiver")
    BY <1>1 DEF Destroy, CloseSocket, Usable, Goto, Walks
  <2>2. NetworkSound'
    BY <2>1 DEF IInv, TypeOK, NetworkSound
  <2>3. QED
    BY <2>1, <2>2, OwnerWalk DEF OwnerWalks
<1>2. CASE JoinReceiver
  <2>1. Walks("owner", "joinReceiver", "joinSender") /\ HasEnded("receiver")
    BY <1>2 DEF JoinReceiver, Goto, Walks
  <2>2. UNCHANGED late /\ NetworkSound'
    BY <1>2, NetworkKept DEF JoinReceiver
  <2>3. QED
    BY <2>1, <2>2, OwnerWalk DEF OwnerWalks
<1>3. CASE JoinSender
  <2>1. Walks("owner", "joinSender", "destroyQueue") /\ HasEnded("sender")
    BY <1>3 DEF JoinSender, Goto, Walks
  <2>2. UNCHANGED late /\ NetworkSound'
    BY <1>3, NetworkKept DEF JoinSender
  <2>3. QED
    BY <2>1, <2>2, OwnerWalk DEF OwnerWalks
<1>4. QED
  BY <1>1, <1>2, <1>3, OpenStep, DestroyQueueStep, OnDisconnectedStep DEF DestroyNext, Threads

LEMMA NetworkStep ==
  ASSUME IInv, EnvironmentNext
  PROVE  IInv'
<1>1. ASSUME NEW what \in {"message", "heartbeat", "garbage"}, Arrive(what)
      PROVE  IInv'
  <2>1. /\ inbox' = Append(inbox, what) /\ arrived' = arrived + 1 /\ arrived < MaxReceived
        /\ UNCHANGED <<outgoing, socketOpen, peer, link, pc, late>>
    BY <1>1 DEF Arrive
  <2>2. NetworkSound'
    BY <2>1, ChannelAssumption DEF IInv, TypeOK, NetworkSound
  <2>3. QED
    BY <2>1, <2>2, EnvironmentStep
<1>2. CASE PeerCloses \/ ConnectionBreaks \/ ResetArrives
  <2>1. /\ peer' \in {"closed", "broken"}
        /\ UNCHANGED <<outgoing, socketOpen, inbox, arrived, link, pc, late>>
    BY <1>2 DEF PeerCloses, ConnectionBreaks, ResetArrives
  <2>2. NetworkSound'
    BY <2>1 DEF IInv, TypeOK, NetworkSound
  <2>3. QED
    BY <2>1, <2>2, EnvironmentStep
<1>3. QED
  BY <1>1, <1>2 DEF EnvironmentNext

LEMMA NextIInv == IInv /\ [Next]_vars => IInv'
<1>1. SUFFICES ASSUME IInv, [Next]_vars PROVE IInv'
  OBVIOUS
<1>2. CASE CallersNext
  BY <1>1, <1>2, SendMessageStep, AddStep, CancelStep DEF CallersNext
<1>3. CASE UNCHANGED vars
  <2>1. UNCHANGED <<outgoing, network, link, pc, late>>
    BY <1>3 DEF vars
  <2>2. QED
    BY <1>1, <2>1, NetworkKept, EnvironmentStep
<1>4. QED
  BY <1>1, <1>2, <1>3, SenderStep, ReceiverStep, OwnerStep, NetworkStep DEF Next

\* The invariant, in every run.
LEMMA InvariantHolds == ChannelSpec => []IInv
BY InitIInv, NextIInv, PTL DEF ChannelSpec

\* Every variable keeps its type, and the mutex is with the thread that raises.
THEOREM TypeCorrect == ChannelSpec => []TypeOK
<1>1. IInv => TypeOK
  BY DEF IInv
<1>2. QED
  BY <1>1, InvariantHolds, PTL

\* A channel writes what was added to its queue, from the first on, in that order.
THEOREM WritesInOrder == ChannelSpec => []SendsInOrder
<1>1. ASSUME IInv PROVE SendsInOrder
  <2>1. PICK rest \in Seq(Messages) : accepted = written \o rest
    BY <1>1 DEF IInv, OrderSound
  <2>2. written \in Seq(Messages)
    BY <1>1 DEF IInv, TypeOK
  <2>3. Len(written) <= Len(accepted) /\ SubSeq(accepted, 1, Len(written)) = written
    BY <2>1, <2>2
  <2>4. SubSeq(written, 1, Len(written)) = written
    BY <2>2
  <2>5. QED
    BY <2>3, <2>4 DEF SendsInOrder, IsPrefix
<1>2. QED
  BY <1>1, InvariantHolds, PTL

\* The future of a message says whether the message was written.
THEOREM FuturesTellTheTruth == ChannelSpec => []AnswersAreTrue
<1>1. IInv => AnswersAreTrue
  BY DEF IInv
<1>2. QED
  BY <1>1, InvariantHolds, PTL

\* disconnected is raised once, in one of three threads.
THEOREM OneDisconnect == ChannelSpec => []DisconnectedOnce
<1>1. IInv => DisconnectedOnce
  BY DEF IInv, LinkSound, DisconnectedOnce
<1>2. QED
  BY <1>1, InvariantHolds, PTL

\* A handler of message_received runs at most once after disconnected was raised.
THEOREM OneLateMessage == ChannelSpec => []AtMostOneLate
<1>1. IInv => AtMostOneLate
  BY DEF IInv, LinkSound, AtMostOneLate
<1>2. QED
  BY <1>1, InvariantHolds, PTL

===============================================================================
