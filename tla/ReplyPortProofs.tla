--------------------------- MODULE ReplyPortProofs ---------------------------
(***************************************************************************)
(* Reply ports over a conduit: the tasks and actors behind one keep the    *)
(* promise of an RpcReplyPort (OneShot), for any calls, values and         *)
(* settings.                                                               *)
(***************************************************************************)
EXTENDS ReplyPort, TLAPS, SequenceTheorems

USE DEF homeVars, targetVars

(* Queues, position by position: they grow at their end and shrink at      *)
(* their head.                                                             *)

(* What is left of a queue, position by position, when its head is taken. *)
LEMMA TailElements ==
  ASSUME NEW S, NEW q \in Seq(S), q # <<>>
  PROVE  /\ Tail(q) \in Seq(S)
         /\ Len(q) \in Nat /\ Len(q) > 0
         /\ DOMAIN q = 1 .. Len(q)
         /\ 1 \in DOMAIN q /\ Head(q) = q[1] /\ Head(q) \in S
         /\ Len(Tail(q)) = Len(q) - 1
         /\ DOMAIN Tail(q) = 1 .. Len(q) - 1
         /\ \A i \in DOMAIN Tail(q) : /\ i \in Nat /\ i + 1 \in DOMAIN q /\ i + 1 # 1
                                      /\ Tail(q)[i] = q[i + 1] /\ Tail(q)[i] \in S
<1>1. Len(q) \in Nat /\ DOMAIN q = 1 .. Len(q) /\ Len(q) # 0
  BY EmptySeq, LenProperties
<1>2. /\ Tail(q) \in Seq(S)
      /\ Len(Tail(q)) = Len(q) - 1
      /\ \A i \in 1 .. Len(Tail(q)) : Tail(q)[i] = q[i + 1]
  BY HeadTailProperties
<1>3. DOMAIN Tail(q) = 1 .. Len(q) - 1
  BY <1>2, LenProperties
<1>4. Head(q) = q[1] /\ 1 \in DOMAIN q /\ q[1] \in S
  BY <1>1, ElementOfSeq
<1>5. \A i \in DOMAIN Tail(q) : Tail(q)[i] \in S
  BY <1>2, <1>3, ElementOfSeq
<1>. QED
  BY <1>1, <1>2, <1>3, <1>4, <1>5

(* What is in a queue, position by position, when an element of its type   *)
(* is appended.                                                            *)
LEMMA AppendElements ==
  ASSUME NEW S, NEW q \in Seq(S), NEW e \in S
  PROVE  /\ Append(q, e) \in Seq(S)
         /\ Append(q, e) # <<>>
         /\ DOMAIN q = 1 .. Len(q)
         /\ Len(q) \in Nat
         /\ Len(Append(q, e)) = Len(q) + 1
         /\ DOMAIN Append(q, e) = 1 .. Len(q) + 1
         /\ \A i \in DOMAIN q : Append(q, e)[i] = q[i]
         /\ Append(q, e)[Len(q) + 1] = e
<1>1. Len(q) \in Nat /\ DOMAIN q = 1 .. Len(q)
  BY LenProperties
<1>2. /\ Append(q, e) \in Seq(S)
      /\ Append(q, e) # <<>>
      /\ Len(Append(q, e)) = Len(q) + 1
      /\ \A i \in 1 .. Len(q) : Append(q, e)[i] = q[i]
      /\ Append(q, e)[Len(q) + 1] = e
  BY AppendProperties
<1>3. DOMAIN Append(q, e) = 1 .. Len(q) + 1
  BY <1>2, LenProperties
<1>. QED
  BY <1>1, <1>2, <1>3

(* The same, for an element of any type. *)
LEMMA AppendPositions ==
  ASSUME NEW S, NEW q \in Seq(S), NEW e
  PROVE  /\ Append(q, e) # <<>>
         /\ Len(q) \in Nat
         /\ Len(Append(q, e)) = Len(q) + 1
         /\ DOMAIN q = 1 .. Len(q)
         /\ DOMAIN Append(q, e) = 1 .. Len(q) + 1
         /\ DOMAIN Append(q, e) = DOMAIN q \cup {Len(q) + 1}
         /\ Len(q) + 1 \notin DOMAIN q
         /\ \A i \in DOMAIN q : Append(q, e)[i] = q[i] /\ q[i] \in S
         /\ Append(q, e)[Len(q) + 1] = e
<1>1. q \in Seq(S \cup {e})
  BY LenProperties
<1>2. \A i \in DOMAIN q : q[i] \in S
  BY LenProperties, ElementOfSeq
<1>. QED
  BY <1>1, <1>2, AppendElements

(* What stands in a queue is of its type. *)
LEMMA EachElement ==
  ASSUME NEW S, NEW q \in Seq(S)
  PROVE  \A i \in DOMAIN q : q[i] \in S
BY ElementOfSeq, LenProperties

(* A queue that is not there has no positions. *)
LEMMA NoElements ==
  ASSUME NEW S
  PROVE  <<>> \in Seq(S) /\ DOMAIN <<>> = {} /\ Len(<<>>) = 0
BY EmptySeq
-----------------------------------------------------------------------------

(* What each kind of message carries. *)
LEMMA MessageShapes ==
  ASSUME NEW m \in Message
  PROVE  /\ m.type # "Close" => m.call \in Call
         /\ m.type \in {"SendMessage", "ImmaterializeMessage", "TransmitMessage"} => m.body \in Body
BY DEF Message, Frame

(* There are two sides. *)
LEMMA PeerFacts ==
  ASSUME NEW s \in Side
  PROVE  Peer(s) \in Side /\ Peer(s) # s
BY DEF Side, Peer

(* Every call has a home. *)
LEMMA HomeTyped ==
  ASSUME TypeOK, NEW c \in Call
  PROVE  Home[c] \in Side
BY ReplyPortAssumption DEF TypeOK, Setting, Home

(* The message a portal takes. *)
LEMMA HeadTyped ==
  ASSUME TypeOK, NEW s \in Side, NEW type, Takes(s, type)
  PROVE  /\ Head(mailbox[s]) \in Message
         /\ Tail(mailbox[s]) \in Seq(Message)
         /\ mailbox[s] \in Seq(Message) /\ mailbox[s] # <<>>
         /\ 1 \in DOMAIN mailbox[s] /\ mailbox[s][1] = Head(mailbox[s])
BY TailElements DEF TypeOK, Takes

(* What the steps of a mailbox and of the wire leave there. *)
LEMMA QueueSteps ==
  ASSUME TypeOK, NEW s \in Side
  PROVE  /\ \A m \in Message : Cast(s, m) => mailbox' \in [Side -> Seq(Message)]
         /\ mailbox[s] # <<>> /\ Done(s) => mailbox' \in [Side -> Seq(Message)]
         /\ \A m \in Message : mailbox[s] # <<>> /\ mailbox' = [mailbox EXCEPT ![s] = Append(Tail(@), m)]
                => mailbox' \in [Side -> Seq(Message)]
         /\ mailbox' = [mailbox EXCEPT ![s] = <<>>] => mailbox' \in [Side -> Seq(Message)]
         /\ \A f \in Frame : Writes(s, f) => wire' \in [Side -> Seq(Frame)]
<1>1. mailbox \in [Side -> Seq(Message)] /\ wire \in [Side -> Seq(Frame)] /\ Peer(s) \in Side
  BY PeerFacts DEF TypeOK
<1>2. ASSUME NEW m \in Message, Cast(s, m)
      PROVE  mailbox' \in [Side -> Seq(Message)]
  <2>1. Append(mailbox[s], m) \in Seq(Message)
    BY <1>1, AppendElements
  <2>. QED
    BY <1>1, <1>2, <2>1 DEF Cast
<1>3. ASSUME mailbox[s] # <<>>
      PROVE  Tail(mailbox[s]) \in Seq(Message)
  BY <1>1, <1>3, TailElements
<1>4. ASSUME NEW m \in Message, mailbox[s] # <<>>
      PROVE  Append(Tail(mailbox[s]), m) \in Seq(Message)
  <2>1. PICK q \in Seq(Message) : q = Tail(mailbox[s])
    BY <1>3, <1>4
  <2>2. Append(q, m) \in Seq(Message)
    BY AppendElements
  <2>. QED
    BY <2>1, <2>2
<1>5. ASSUME NEW f \in Frame, Writes(s, f)
      PROVE  wire' \in [Side -> Seq(Frame)]
  <2>1. Append(wire[Peer(s)], f) \in Seq(Frame)
    BY <1>1, AppendElements
  <2>. QED
    BY <1>1, <1>5, <2>1 DEF Writes
<1>6. <<>> \in Seq(Message)
  BY NoElements
<1>. QED
  BY <1>1, <1>2, <1>3, <1>4, <1>5, <1>6 DEF Done

(* The end of a portal. *)
LEMMA GoesDownTyped ==
  ASSUME TypeOK, NEW s \in Side, NEW how \in {"closed", "failed", "stopped"}, GoesDown(s, how),
         UNCHANGED <<setting, wire, got, rpcQueue, exposed, port, given, forwarder, answering>>,
         linkUp' \in BOOLEAN
  PROVE  TypeOK'
<1>1. mailbox' \in [Side -> Seq(Message)]
  BY QueueSteps DEF GoesDown
<1>2. /\ status' \in [Side -> {"up", "closed", "failed", "stopped"}]
      /\ caller' \in [Call -> CallerStates]
      /\ task' \in [Call -> {"none", "started", "asking", "failed", "published", "done"}]
  BY DEF TypeOK, GoesDown, Refused, CallerStates
<1>3. /\ rpcActor' \in [Call -> {"none", "running", "stopped", "killed"}]
      /\ proxy' \in [Call -> {"none", "running", "stopped"}]
      /\ registered' \subseteq Call
  BY DEF TypeOK, GoesDown
<1>. QED
  BY <1>1, <1>2, <1>3 DEF TypeOK

(* The steps of a portal with the request of a call: each hands it on. *)
LEMMA RequestStepsTyped ==
  ASSUME TypeOK, NEW s \in Side, UNCHANGED setting,
         \/ HandleImmaterializeMessage(s) \/ HandlePublishActor(s) \/ HandleTransmitMessage(s)
         \/ HandleRequest(s) \/ HandleRegisterProxy(s)
  PROVE  TypeOK'
<1>. DEFINE m == Head(mailbox[s])
<1>0. mailbox[s] # <<>> /\ m \in Message
  BY HeadTyped
  DEF HandleImmaterializeMessage, HandlePublishActor, HandleTransmitMessage, HandleRequest,
      HandleRegisterProxy, Takes
<1>1. CASE HandleImmaterializeMessage(s)
  <2>1. m.type = "ImmaterializeMessage"
    BY <1>1 DEF HandleImmaterializeMessage, Takes
  <2>2. m.call \in Call /\ m.body \in Body
    BY <1>0, <2>1, MessageShapes
  <2>3. mailbox' \in [Side -> Seq(Message)]
    BY <1>0, <1>1, QueueSteps DEF HandleImmaterializeMessage
  <2>4. /\ task' \in [Call -> {"none", "started", "asking", "failed", "published", "done"}]
        /\ answering' \in [Call -> Value \cup {None}]
    <3>1. CASE m.body = Request
      BY <1>1, <2>2, <3>1 DEF HandleImmaterializeMessage, TypeOK
    <3>2. CASE m.body # Request
      <4>1. m.body \in Value
        BY <2>2, <3>2 DEF Body
      <4>2. answering' = [answering EXCEPT ![m.call] = m.body] /\ UNCHANGED task
        BY <1>1, <3>2 DEF HandleImmaterializeMessage
      <4>. QED
        BY <2>2, <4>1, <4>2 DEF TypeOK
    <3>. QED
      BY <3>1, <3>2
  <2>. QED
    BY <1>1, <2>3, <2>4 DEF HandleImmaterializeMessage, TypeOK
<1>2. CASE HandlePublishActor(s)
  <2>1. m.call \in Call
    BY <1>0, <1>2, MessageShapes DEF HandlePublishActor, Takes
  <2>2. mailbox' \in [Side -> Seq(Message)]
    BY <1>0, <1>2, QueueSteps DEF HandlePublishActor
  <2>3. /\ task' \in [Call -> {"none", "started", "asking", "failed", "published", "done"}]
        /\ exposed' \in [Call -> {"no", "watched", "reported"}]
    BY <1>2, <2>1 DEF HandlePublishActor, Publishes, TypeOK
  <2>. QED
    BY <1>2, <2>2, <2>3 DEF HandlePublishActor, TypeOK
<1>3. CASE HandleTransmitMessage(s)
  <2>1. m.type = "TransmitMessage"
    BY <1>3 DEF HandleTransmitMessage, Takes
  <2>2. m.call \in Call /\ m.body \in Body
    BY <1>0, <2>1, MessageShapes
  <2>3. [type |-> "SendMessage", call |-> m.call, body |-> m.body] \in Frame
    BY <2>2 DEF Frame
  <2>4. mailbox' \in [Side -> Seq(Message)] /\ wire' \in [Side -> Seq(Frame)]
    BY <1>0, <1>3, <2>3, QueueSteps DEF HandleTransmitMessage
  <2>. QED
    BY <1>3, <2>4 DEF HandleTransmitMessage, TypeOK
<1>4. CASE HandleRequest(s)
  <2>1. m.call \in Call
    BY <1>0, <1>4, MessageShapes DEF HandleRequest, Takes
  <2>2. [type |-> "RegisterProxyForRemoteActor", call |-> m.call] \in Message
    BY <2>1 DEF Message
  <2>3. mailbox' \in [Side -> Seq(Message)]
    BY <1>0, <1>4, <2>2, QueueSteps DEF HandleRequest
  <2>4. /\ proxy' \in [Call -> {"none", "running", "stopped"}]
        /\ forwarder' \in [Call -> {"none", "waiting", "forwarded", "ended", "panicked"}]
        /\ port' \in [Call -> {"none", "held", "used", "dropped"}]
    BY <1>4, <2>1 DEF HandleRequest, TypeOK
  <2>. QED
    BY <1>4, <2>3, <2>4 DEF HandleRequest, TypeOK
<1>5. CASE HandleRegisterProxy(s)
  <2>1. m.call \in Call
    BY <1>0, <1>5, MessageShapes DEF HandleRegisterProxy, Takes
  <2>2. mailbox' \in [Side -> Seq(Message)]
    BY <1>0, <1>5, QueueSteps DEF HandleRegisterProxy
  <2>. QED
    BY <1>5, <2>1, <2>2 DEF HandleRegisterProxy, TypeOK
<1>. QED
  BY <1>1, <1>2, <1>3, <1>4, <1>5

(* The steps of a portal with the answer, and with the end of its actors. *)
LEMMA AnswerStepsTyped ==
  ASSUME TypeOK, NEW s \in Side, UNCHANGED setting,
         HandleAnswer(s) \/ HandleLocalActorExited(s) \/ HandleActorExited(s)
  PROVE  TypeOK'
<1>. DEFINE m == Head(mailbox[s])
<1>0. mailbox[s] # <<>> /\ m \in Message /\ m.type # "Close"
  BY HeadTyped DEF HandleAnswer, HandleLocalActorExited, HandleActorExited, Takes
<1>1. m.call \in Call
  BY <1>0, MessageShapes
<1>2. mailbox' \in [Side -> Seq(Message)]
  BY <1>0, QueueSteps DEF HandleAnswer, HandleLocalActorExited, HandleActorExited
<1>3. CASE HandleAnswer(s)
  <2>1. m.body \in Value
    BY <1>0, <1>3, MessageShapes DEF HandleAnswer, Takes, Body
  <2>2. Append(rpcQueue[m.call], m.body) \in Seq(Value)
    <3>1. PICK v \in Value, q \in Seq(Value) : v = m.body /\ q = rpcQueue[m.call]
      BY <1>1, <2>1 DEF TypeOK
    <3>2. Append(q, v) \in Seq(Value)
      BY AppendElements
    <3>. QED
      BY <3>1, <3>2
  <2>3. rpcQueue' \in [Call -> Seq(Value)]
    BY <1>1, <1>3, <2>2 DEF HandleAnswer, TypeOK
  <2>. QED
    BY <1>2, <1>3, <2>3 DEF HandleAnswer, TypeOK
<1>4. CASE HandleLocalActorExited(s)
  <2>1. [type |-> "ActorExited", call |-> m.call] \in Frame
    BY <1>1 DEF Frame
  <2>2. wire' \in [Side -> Seq(Frame)]
    BY <1>4, <2>1, QueueSteps DEF HandleLocalActorExited
  <2>. QED
    BY <1>2, <1>4, <2>2 DEF HandleLocalActorExited, TypeOK
<1>5. CASE HandleActorExited(s)
  BY <1>1, <1>2, <1>5 DEF HandleActorExited, TypeOK
<1>. QED
  BY <1>3, <1>4, <1>5

(* The ends of portals, whatever they come from. *)
LEMMA EndsTyped ==
  ASSUME TypeOK, NEW s \in Side, UNCHANGED setting,
         \/ AnswerFails(s) \/ HandleClose(s) \/ AppStopsPortal(s)
         \/ \E type \in {"TransmitMessage", "LocalActorExited"} : WriteFails(s, type)
  PROVE  TypeOK'
<1>1. linkUp' \in BOOLEAN
  BY DEF AnswerFails, HandleClose, AppStopsPortal, WriteFails, TypeOK
<1>. QED
  BY <1>1, GoesDownTyped DEF AnswerFails, HandleClose, AppStopsPortal, WriteFails

(* The receive loop, and the link. *)
LEMMA LoopsTyped ==
  ASSUME TypeOK, NEW s \in Side, UNCHANGED setting,
         ReceiveLoopReads(s) \/ ReceiveLoopEnds(s) \/ LinkBreaks
  PROVE  TypeOK'
<1>1. CASE ReceiveLoopReads(s)
  <2>1. wire[s] \in Seq(Frame) /\ wire[s] # <<>>
    BY <1>1 DEF ReceiveLoopReads, TypeOK
  <2>2. Head(wire[s]) \in Message /\ Tail(wire[s]) \in Seq(Frame)
    BY <2>1, TailElements DEF Message
  <2>3. mailbox' \in [Side -> Seq(Message)]
    BY <1>1, <2>2, QueueSteps DEF ReceiveLoopReads, Cast
  <2>. QED
    BY <1>1, <2>2, <2>3 DEF ReceiveLoopReads, TypeOK
<1>2. CASE ReceiveLoopEnds(s)
  <2>1. [type |-> "Close"] \in Message
    BY DEF Message
  <2>2. mailbox' \in [Side -> Seq(Message)]
    BY <1>2, <2>1, QueueSteps DEF ReceiveLoopEnds
  <2>3. <<>> \in Seq(Frame)
    BY NoElements
  <2>. QED
    BY <1>2, <2>2, <2>3 DEF ReceiveLoopEnds, TypeOK
<1>3. CASE LinkBreaks
  BY <1>3 DEF LinkBreaks, TypeOK
<1>. QED
  BY <1>1, <1>2, <1>3

(* The tasks around the portals; what a forwarder sends on was given. *)
LEMMA TasksTyped ==
  ASSUME TypeOK, CallsAreSound, NEW c \in Call, TaskStep(c), UNCHANGED setting
  PROVE  TypeOK'
<1>1. Home[c] \in Side /\ Peer(Home[c]) \in Side
  BY HomeTyped, PeerFacts
<1>2. CASE TaskSpawnsRpcProxy(c)
  <2>1. [type |-> "PublishActor", call |-> c] \in Message
    BY DEF Message
  <2>2. mailbox' \in [Side -> Seq(Message)]
    BY <1>1, <1>2, <2>1, QueueSteps DEF TaskSpawnsRpcProxy
  <2>3. /\ task' \in [Call -> {"none", "started", "asking", "failed", "published", "done"}]
        /\ rpcActor' \in [Call -> {"none", "running", "stopped", "killed"}]
        /\ caller' \in [Call -> CallerStates]
    <3>1. /\ \/ task' = [task EXCEPT ![c] = "asking"]
             \/ task' = [task EXCEPT ![c] = "failed"]
          /\ UNCHANGED rpcActor \/ rpcActor' = [rpcActor EXCEPT ![c] = "running"]
          /\ UNCHANGED caller \/ caller' = Refused(caller, {c})
      BY <1>2 DEF TaskSpawnsRpcProxy
    <3>2. Refused(caller, {c}) \in [Call -> CallerStates]
      BY DEF Refused, CallerStates, TypeOK
    <3>3. /\ task \in [Call -> {"none", "started", "asking", "failed", "published", "done"}]
          /\ rpcActor \in [Call -> {"none", "running", "stopped", "killed"}]
          /\ caller \in [Call -> CallerStates]
      BY DEF TypeOK
    <3>. QED
      BY <3>1, <3>2, <3>3
  <2>4. UNCHANGED <<status, linkUp, wire, got, rpcQueue, exposed, targetVars>>
    BY <1>2 DEF TaskSpawnsRpcProxy
  <2>. QED
    BY <2>2, <2>3, <2>4 DEF TypeOK
<1>3. CASE TaskTransmits(c)
  <2>1. [type |-> "TransmitMessage", call |-> c, body |-> Request] \in Message
    BY DEF Message, Body
  <2>2. mailbox' \in [Side -> Seq(Message)]
    BY <1>1, <1>3, <2>1, QueueSteps DEF TaskTransmits
  <2>. QED
    BY <1>3, <2>2 DEF TaskTransmits, TypeOK
<1>4. CASE ForwarderForwards(c)
  <2>1. given[c] \in Value
    BY <1>4 DEF ForwarderForwards, Received, CallsAreSound, CallIsSound, TypeOK
  <2>2. [type |-> "ImmaterializeMessage", call |-> c, body |-> given[c]] \in Message
    BY <2>1 DEF Message, Body
  <2>3. mailbox' \in [Side -> Seq(Message)]
    <3>1. CASE UNCHANGED mailbox
      BY <3>1 DEF TypeOK
    <3>2. PICK e \in Message :
            e = [type |-> "ImmaterializeMessage", call |-> c, body |-> given[c]]
      BY <2>2
    <3>3. UNCHANGED mailbox \/ Cast(Peer(Home[c]), e)
      BY <1>4, <3>2 DEF ForwarderForwards, ReturnAddress
    <3>. QED
      BY <1>1, <3>1, <3>3, QueueSteps
  <2>4. forwarder' \in [Call -> {"none", "waiting", "forwarded", "ended", "panicked"}]
    <3>1. \/ forwarder' = [forwarder EXCEPT ![c] = "forwarded"]
          \/ forwarder' = [forwarder EXCEPT ![c] = "panicked"]
      BY <1>4 DEF ForwarderForwards, Forwarded
    <3>. QED
      BY <3>1 DEF TypeOK
  <2>5. UNCHANGED <<status, linkUp, wire, homeVars, port, given, proxy, registered, answering>>
    BY <1>4 DEF ForwarderForwards
  <2>. QED
    BY <2>3, <2>4, <2>5 DEF TypeOK
<1>5. CASE ForwarderEnds(c)
  BY <1>5 DEF ForwarderEnds, TypeOK
<1>6. CASE AnswerTransmits(c)
  <2>1. PICK e : e = [type |-> "TransmitMessage", call |-> c, body |-> answering[c]]
    OBVIOUS
  <2>2. e \in Message
    BY <1>6, <2>1 DEF AnswerTransmits, TypeOK, Message, Body
  <2>3. Cast(Peer(Home[c]), e)
    BY <1>6, <2>1 DEF AnswerTransmits
  <2>4. mailbox' \in [Side -> Seq(Message)]
    BY <1>1, <2>2, <2>3, QueueSteps
  <2>. QED
    BY <1>6, <2>4 DEF AnswerTransmits, TypeOK
<1>7. CASE WatcherReports(c)
  <2>1. [type |-> "LocalActorExited", call |-> c] \in Message
    BY DEF Message
  <2>2. mailbox' \in [Side -> Seq(Message)]
    BY <1>1, <1>7, <2>1, QueueSteps DEF WatcherReports
  <2>. QED
    BY <1>7, <2>2 DEF WatcherReports, TypeOK
<1>. QED
  BY <1>2, <1>3, <1>4, <1>5, <1>6, <1>7 DEF TaskStep

(* Callers, targets and RpcProxyActors. *)
LEMMA CallTyped ==
  ASSUME TypeOK, NEW c \in Call, UNCHANGED setting,
         \/ RpcProxyHandles(c) \/ KillAfter(c) \/ CallerAsks(c) \/ CallerTimesOut(c)
         \/ \E v \in Value : TargetGives(c, v)
         \/ TargetDrops(c)
  PROVE  TypeOK'
<1>1. <<>> \in Seq(Value) /\ Home[c] \in Side
  BY NoElements, HomeTyped
<1>2. CASE RpcProxyHandles(c)
  <2>1. Head(rpcQueue[c]) \in Value
    BY <1>2, TailElements DEF RpcProxyHandles, TypeOK
  <2>2. caller' \in [Call -> CallerStates] /\ got' \in [Call -> Value \cup {None}]
    <3>1. \/ UNCHANGED <<caller, got>>
          \/ /\ caller' = [caller EXCEPT ![c] = "answered"]
             /\ got' = [got EXCEPT ![c] = Head(rpcQueue[c])]
      BY <1>2 DEF RpcProxyHandles
    <3>2. /\ caller \in [Call -> CallerStates] /\ "answered" \in CallerStates
          /\ got \in [Call -> Value \cup {None}]
      BY DEF TypeOK, CallerStates
    <3>. QED
      BY <2>1, <3>1, <3>2
  <2>3. /\ rpcActor' \in [Call -> {"none", "running", "stopped", "killed"}]
        /\ rpcQueue' \in [Call -> Seq(Value)]
    BY <1>1, <1>2 DEF RpcProxyHandles, TypeOK
  <2>. QED
    BY <1>2, <2>2, <2>3 DEF RpcProxyHandles, TypeOK
<1>3. CASE KillAfter(c)
  BY <1>1, <1>3 DEF KillAfter, Refused, CallerStates, TypeOK
<1>4. CASE CallerAsks(c)
  <2>1. [type |-> "ImmaterializeMessage", call |-> c, body |-> Request] \in Message
    BY DEF Message, Body
  <2>2. mailbox' \in [Side -> Seq(Message)]
    BY <1>1, <1>4, <2>1, QueueSteps DEF CallerAsks
  <2>. QED
    BY <1>4, <2>2 DEF CallerAsks, CallerStates, TypeOK
<1>5. CASE CallerTimesOut(c)
  BY <1>5 DEF CallerTimesOut, CallerStates, TypeOK
<1>6. ASSUME NEW v \in Value, TargetGives(c, v)
      PROVE  TypeOK'
  BY <1>6 DEF TargetGives, TypeOK
<1>7. CASE TargetDrops(c)
  BY <1>7 DEF TargetDrops, TypeOK
<1>. QED
  BY <1>2, <1>3, <1>4, <1>5, <1>6, <1>7

(* No step takes a variable out of its type. *)
LEMMA NextTyped ==
  ASSUME TypeOK, CallsAreSound, [Next]_vars
  PROVE  TypeOK'
<1>1. CASE UNCHANGED vars
  BY <1>1 DEF vars, TypeOK
<1>2. ASSUME NEW s \in Side, UNCHANGED setting,
             PortalStep(s) \/ ReceiveLoopReads(s) \/ ReceiveLoopEnds(s) \/ AppStopsPortal(s)
      PROVE  TypeOK'
  BY <1>2, RequestStepsTyped, AnswerStepsTyped, EndsTyped, LoopsTyped DEF PortalStep
<1>3. CASE LinkBreaks /\ UNCHANGED setting
  <2>1. "a" \in Side
    BY DEF Side
  <2>. QED
    BY <1>3, <2>1, LoopsTyped
<1>. QED
  BY <1>1, <1>2, <1>3, TasksTyped, CallTyped DEF Next, Step

(* Before any call every variable is of its type. *)
LEMMA InitTyped ==
  ASSUME Init
  PROVE  TypeOK
<1>1. <<>> \in Seq(Message) /\ <<>> \in Seq(Frame) /\ <<>> \in Seq(Value)
  BY NoElements
<1>. QED
  BY <1>1 DEF Init, TypeOK, CallerStates
-----------------------------------------------------------------------------
(* Where a call is, after a step. *)
CopiesNext(l, c) ==
  CASE l[1] = "mailbox" -> Carriers(mailbox'[l[2]], c)
    [] l[1] = "wire" -> Carriers(wire'[l[2]], c)
    [] l[1] = "task" -> IF task'[c] \in {"started", "published"} THEN {0} ELSE {}
    [] l[1] = "port" -> IF forwarder'[c] = "waiting" THEN {0} ELSE {}
    [] l[1] = "answer" -> IF answering'[c] # None THEN {0} ELSE {}
    [] l[1] = "queue" -> DOMAIN rpcQueue'[c]

MailOf(s) == <<"mailbox", s>>
WireOf(s) == <<"wire", s>>
InTask == <<"task", None>>
InPort == <<"port", None>>
InAnswer == <<"answer", None>>
InQueue == <<"queue", None>>
Nowhere == <<"nowhere", None>>
CallPlaces == {InTask, InPort, InAnswer, InQueue}

(* The places there are. *)
LEMMA Places ==
  /\ \A l \in Place : (\E s \in Side : l = MailOf(s) \/ l = WireOf(s)) \/ l \in CallPlaces
  /\ \A s \in Side : MailOf(s) \in Place /\ WireOf(s) \in Place
  /\ CallPlaces \subseteq Place /\ Nowhere \notin Place
  /\ \A s, r : /\ MailOf(r) = MailOf(s) => r = s
               /\ WireOf(r) = WireOf(s) => r = s
               /\ MailOf(r) # WireOf(s)
               /\ MailOf(s) \notin CallPlaces /\ WireOf(s) \notin CallPlaces
               /\ MailOf(s) # Nowhere /\ WireOf(s) # Nowhere
  /\ InTask # InPort /\ InTask # InAnswer /\ InTask # InQueue
  /\ InPort # InAnswer /\ InPort # InQueue /\ InAnswer # InQueue
  /\ Nowhere \notin CallPlaces
<1>1. \A l \in Place : (\E s \in Side : l = MailOf(s) \/ l = WireOf(s)) \/ l \in CallPlaces
  BY DEF Place, MailOf, WireOf, CallPlaces, InTask, InPort, InAnswer, InQueue
<1>2. \A s \in Side : MailOf(s) \in Place /\ WireOf(s) \in Place
  BY DEF Place, MailOf, WireOf
<1>3. CallPlaces \subseteq Place /\ Nowhere \notin Place
  BY DEF Place, CallPlaces, InTask, InPort, InAnswer, InQueue, Nowhere
<1>4. \A s, r : /\ MailOf(r) = MailOf(s) => r = s
                /\ WireOf(r) = WireOf(s) => r = s
                /\ MailOf(r) # WireOf(s)
                /\ MailOf(s) \notin CallPlaces /\ WireOf(s) \notin CallPlaces
                /\ MailOf(s) # Nowhere /\ WireOf(s) # Nowhere
  BY DEF MailOf, WireOf, Nowhere, CallPlaces, InTask, InPort, InAnswer, InQueue
<1>5. /\ InTask # InPort /\ InTask # InAnswer /\ InTask # InQueue
      /\ InPort # InAnswer /\ InPort # InQueue /\ InAnswer # InQueue
      /\ Nowhere \notin CallPlaces
  BY DEF CallPlaces, InTask, InPort, InAnswer, InQueue, Nowhere
<1>. QED
  BY <1>1, <1>2, <1>3, <1>4, <1>5

(* What each holds of a call, before a step and after it. *)
LEMMA PlaceHolds ==
  ASSUME NEW c
  PROVE  /\ \A s : /\ Copies(MailOf(s), c) = Carriers(mailbox[s], c)
                   /\ CopiesNext(MailOf(s), c) = Carriers(mailbox'[s], c)
                   /\ Copies(WireOf(s), c) = Carriers(wire[s], c)
                   /\ CopiesNext(WireOf(s), c) = Carriers(wire'[s], c)
         /\ Copies(InTask, c) = IF task[c] \in {"started", "published"} THEN {0} ELSE {}
         /\ CopiesNext(InTask, c) = IF task'[c] \in {"started", "published"} THEN {0} ELSE {}
         /\ Copies(InPort, c) = IF forwarder[c] = "waiting" THEN {0} ELSE {}
         /\ CopiesNext(InPort, c) = IF forwarder'[c] = "waiting" THEN {0} ELSE {}
         /\ Copies(InAnswer, c) = IF answering[c] # None THEN {0} ELSE {}
         /\ CopiesNext(InAnswer, c) = IF answering'[c] # None THEN {0} ELSE {}
         /\ Copies(InQueue, c) = DOMAIN rpcQueue[c]
         /\ CopiesNext(InQueue, c) = DOMAIN rpcQueue'[c]
<1>1. \A s : /\ Copies(MailOf(s), c) = Carriers(mailbox[s], c)
             /\ CopiesNext(MailOf(s), c) = Carriers(mailbox'[s], c)
  BY DEF Copies, CopiesNext, MailOf
<1>2. \A s : /\ Copies(WireOf(s), c) = Carriers(wire[s], c)
             /\ CopiesNext(WireOf(s), c) = Carriers(wire'[s], c)
  BY DEF Copies, CopiesNext, WireOf
<1>3. /\ Copies(InTask, c) = IF task[c] \in {"started", "published"} THEN {0} ELSE {}
      /\ CopiesNext(InTask, c) = IF task'[c] \in {"started", "published"} THEN {0} ELSE {}
  BY DEF Copies, CopiesNext, InTask
<1>4. /\ Copies(InPort, c) = IF forwarder[c] = "waiting" THEN {0} ELSE {}
      /\ CopiesNext(InPort, c) = IF forwarder'[c] = "waiting" THEN {0} ELSE {}
  BY DEF Copies, CopiesNext, InPort
<1>5. /\ Copies(InAnswer, c) = IF answering[c] # None THEN {0} ELSE {}
      /\ CopiesNext(InAnswer, c) = IF answering'[c] # None THEN {0} ELSE {}
  BY DEF Copies, CopiesNext, InAnswer
<1>6. Copies(InQueue, c) = DOMAIN rpcQueue[c] /\ CopiesNext(InQueue, c) = DOMAIN rpcQueue'[c]
  BY DEF Copies, CopiesNext, InQueue
<1>. QED
  BY <1>1, <1>2, <1>3, <1>4, <1>5, <1>6

(* What a step does to a call in a place, and to a call as a whole: it     *)
(* moves it from one place to another, takes it away, or puts it there.    *)
Fewer(S, T) == (AtMostOne(S) => AtMostOne(T)) /\ (S = {} => T = {})
FewerAt(l, c) == Fewer(Copies(l, c), CopiesNext(l, c))
LostAt(l, c) == Copies(l, c) # {} /\ (AtMostOne(Copies(l, c)) => CopiesNext(l, c) = {})
GainedAt(l, c) == Copies(l, c) = {} => AtMostOne(CopiesNext(l, c))
FewerBut(l, c) == \A j \in Place : j = l \/ FewerAt(j, c)
Moves(c, k, l) == k # l /\ LostAt(k, c) /\ GainedAt(l, c) /\ FewerBut(l, c)
StaysOnce(c) ==
  /\ caller[c] # "idle" => caller'[c] # "idle"
  /\ \/ /\ rpcActor'[c] = "stopped" => rpcActor[c] = "stopped"
        /\ FewerBut(Nowhere, c) \/ \E k, l \in Place : Moves(c, k, l)
     \/ \E l \in Place : LostAt(l, c) /\ FewerBut(l, c)
     \/ /\ caller[c] = "idle" /\ caller'[c] # "idle" /\ rpcActor'[c] # "stopped"
        /\ \E l \in Place : GainedAt(l, c) /\ FewerBut(l, c)

(* A call that stays once under a step is in one place at most after it. *)
LEMMA CopyKept ==
  ASSUME OneCopy, \A c \in Call : StaysOnce(c)
  PROVE  OneCopy'
<1>. SUFFICES ASSUME NEW c \in Call
              PROVE  /\ \A k, l \in Place : CopiesNext(k, c) # {} /\ CopiesNext(l, c) # {} => k = l
                     /\ \A l \in Place :
                          /\ AtMostOne(CopiesNext(l, c))
                          /\ CopiesNext(l, c) # {} => caller'[c] # "idle" /\ rpcActor'[c] # "stopped"
  BY DEF OneCopy, Copies, CopiesNext
<1>1. /\ \A k, l \in Place : Copies(k, c) # {} /\ Copies(l, c) # {} => k = l
      /\ \A l \in Place : /\ AtMostOne(Copies(l, c))
                          /\ Copies(l, c) # {} => caller[c] # "idle" /\ rpcActor[c] # "stopped"
  BY DEF OneCopy
<1>2. AtMostOne({}) /\ Nowhere \notin Place
  BY Places DEF AtMostOne
<1>3. CASE FewerBut(Nowhere, c) /\ (rpcActor'[c] = "stopped" => rpcActor[c] = "stopped")
           /\ (caller[c] # "idle" => caller'[c] # "idle")
  BY <1>1, <1>2, <1>3 DEF FewerBut, FewerAt, Fewer
<1>4. ASSUME NEW k \in Place, NEW l, k # l, LostAt(k, c), GainedAt(l, c), FewerBut(l, c)
      PROVE  /\ Copies(k, c) # {} /\ l \in Place => AtMostOne(CopiesNext(l, c))
             /\ \A j \in Place : j # l => CopiesNext(j, c) = {}
  <2>1. Copies(k, c) # {} /\ CopiesNext(k, c) = {}
    BY <1>1, <1>4 DEF LostAt
  <2>2. \A j \in Place : j # k => Copies(j, c) = {}
    BY <1>1, <2>1
  <2>. QED
    BY <1>4, <2>1, <2>2 DEF GainedAt, FewerBut, FewerAt, Fewer
<1>5. ASSUME NEW k \in Place, NEW l \in Place, Moves(c, k, l),
             rpcActor'[c] = "stopped" => rpcActor[c] = "stopped",
             caller[c] # "idle" => caller'[c] # "idle"
      PROVE  /\ \A i, j \in Place : CopiesNext(i, c) # {} /\ CopiesNext(j, c) # {} => i = j
             /\ \A j \in Place :
                  /\ AtMostOne(CopiesNext(j, c))
                  /\ CopiesNext(j, c) # {} => caller'[c] # "idle" /\ rpcActor'[c] # "stopped"
  <2>1. Copies(k, c) # {}
    BY <1>5 DEF Moves, LostAt
  <2>2. AtMostOne(CopiesNext(l, c)) /\ \A j \in Place : j # l => CopiesNext(j, c) = {}
    BY <1>4, <1>5, <2>1 DEF Moves
  <2>. QED
    BY <1>1, <1>2, <1>5, <2>1, <2>2
<1>6. ASSUME NEW k \in Place, LostAt(k, c), FewerBut(k, c)
      PROVE  \A j \in Place : CopiesNext(j, c) = {}
  <2>1. Copies(k, c) # {} /\ CopiesNext(k, c) = {}
    BY <1>1, <1>6 DEF LostAt
  <2>. QED
    BY <1>1, <1>6, <2>1 DEF FewerBut, FewerAt, Fewer
<1>7. ASSUME NEW l \in Place, GainedAt(l, c), FewerBut(l, c), caller[c] = "idle",
             caller'[c] # "idle", rpcActor'[c] # "stopped"
      PROVE  /\ \A i, j \in Place : CopiesNext(i, c) # {} /\ CopiesNext(j, c) # {} => i = j
             /\ \A j \in Place :
                  /\ AtMostOne(CopiesNext(j, c))
                  /\ CopiesNext(j, c) # {} => caller'[c] # "idle" /\ rpcActor'[c] # "stopped"
  <2>1. \A j \in Place : Copies(j, c) = {}
    BY <1>1, <1>7
  <2>2. AtMostOne(CopiesNext(l, c)) /\ \A j \in Place : j # l => CopiesNext(j, c) = {}
    BY <1>7, <2>1 DEF GainedAt, FewerBut, FewerAt, Fewer
  <2>. QED
    BY <1>2, <1>7, <2>2
<1>. QED
  BY <1>2, <1>3, <1>5, <1>6, <1>7 DEF StaysOnce
-----------------------------------------------------------------------------
(* A place that is left alone, or emptied, holds no more than it did. *)
LEMMA FewerSame == \A S : Fewer(S, S) /\ Fewer(S, {})
BY DEF Fewer, AtMostOne

(* Where a call stands in a queue when its head is taken, or something is  *)
(* appended.                                                               *)
LEMMA QueueCarriers ==
  ASSUME NEW S, NEW q \in Seq(S), NEW c
  PROVE  /\ q # <<>> => Fewer(Carriers(q, c), Carriers(Tail(q), c))
         /\ q # <<>> /\ Carries(Head(q), c) =>
              /\ Carriers(q, c) # {}
              /\ AtMostOne(Carriers(q, c)) => Carriers(Tail(q), c) = {}
         /\ \A e : /\ ~Carries(e, c) => Carriers(Append(q, e), c) = Carriers(q, c)
                   /\ Carriers(q, c) = {} => AtMostOne(Carriers(Append(q, e), c))
         /\ Carriers(<<>>, c) = {}
<1>1. ASSUME q # <<>>
      PROVE  /\ Fewer(Carriers(q, c), Carriers(Tail(q), c))
             /\ Carries(Head(q), c) =>
                  /\ Carriers(q, c) # {}
                  /\ AtMostOne(Carriers(q, c)) => Carriers(Tail(q), c) = {}
  <2>. DEFINE M == Carriers(q, c)
              T == Carriers(Tail(q), c)
  <2>1. /\ 1 \in DOMAIN q /\ Head(q) = q[1]
        /\ \A i \in DOMAIN Tail(q) : /\ i \in Nat /\ i + 1 \in DOMAIN q /\ i + 1 # 1
                                     /\ Tail(q)[i] = q[i + 1]
    BY <1>1, TailElements
  <2>2. \A i \in T : i \in Nat /\ i + 1 \in M /\ i + 1 # 1
    BY <2>1 DEF Carriers
  <2>3. Carries(Head(q), c) => 1 \in M
    BY <2>1 DEF Carriers
  <2>. HIDE DEF M, T
  <2>4. AtMostOne(M) => AtMostOne(T)
    BY <2>2 DEF AtMostOne
  <2>5. M = {} => T = {}
    BY <2>2
  <2>6. ASSUME Carries(Head(q), c)
        PROVE  M # {} /\ (AtMostOne(M) => T = {})
    BY <2>2, <2>3, <2>6 DEF AtMostOne
  <2>. QED
    BY <2>4, <2>5, <2>6 DEF Fewer, M, T
<1>2. ASSUME NEW e
      PROVE  /\ ~Carries(e, c) => Carriers(Append(q, e), c) = Carriers(q, c)
             /\ Carriers(q, c) = {} => AtMostOne(Carriers(Append(q, e), c))
  <2>. DEFINE a == Append(q, e)
              l == Len(q) + 1
  <2>1. /\ DOMAIN a = DOMAIN q \cup {l} /\ l \notin DOMAIN q
        /\ \A i \in DOMAIN q : a[i] = q[i]
        /\ a[l] = e
    BY AppendPositions
  <2>. HIDE DEF a, l
  <2>2. ~Carries(e, c) => Carriers(a, c) = Carriers(q, c)
    BY <2>1 DEF Carriers
  <2>3. Carriers(q, c) = {} => AtMostOne(Carriers(a, c))
    BY <2>1 DEF Carriers, AtMostOne
  <2>. QED
    BY <2>2, <2>3 DEF a
<1>3. Carriers(<<>>, c) = {}
  BY NoElements DEF Carriers
<1>. QED
  BY <1>1, <1>2, <1>3

(* Steps that put a call nowhere, or nowhere but in place l. *)
MailKept(s, c, l) ==
  \/ UNCHANGED mailbox
  \/ mailbox' = [mailbox EXCEPT ![s] = <<>>]
  \/ mailbox[s] # <<>> /\ Done(s)
  \/ \E e : ~Carries(e, c) /\ (\/ Cast(s, e)
                               \/ /\ mailbox[s] # <<>>
                                  /\ mailbox' = [mailbox EXCEPT ![s] = Append(Tail(@), e)])
  \/ l = MailOf(s) /\ \E e : Cast(s, e)
WireKept(s, c, l) ==
  \/ UNCHANGED wire
  \/ wire' = [wire EXCEPT ![s] = <<>>]
  \/ wire[s] # <<>> /\ wire' = [wire EXCEPT ![s] = Tail(@)]
  \/ \E f : ~Carries(f, c) /\ Writes(s, f)
  \/ l = WireOf(Peer(s)) /\ \E f : Writes(s, f)
CallKept(c, l) ==
  /\ l = InTask \/ (task'[c] \in {"started", "published"} => task[c] \in {"started", "published"})
  /\ l = InPort \/ (forwarder'[c] = "waiting" => forwarder[c] = "waiting")
  /\ l = InAnswer \/ (answering'[c] # None => answering[c] # None)
  /\ l = InQueue \/ rpcQueue'[c] = rpcQueue[c] \/ rpcQueue'[c] = <<>>
Spares(s, c, l) == MailKept(s, c, l) /\ WireKept(s, c, l) /\ CallKept(c, l)

(* A mailbox a step does not put a call in holds it no more often than     *)
(* before (send_message, the handlers).                                    *)
LEMMA MailSpared ==
  ASSUME TypeOK, NEW s \in Side, NEW c, NEW l, MailKept(s, c, l), NEW r \in Side
  PROVE  l = MailOf(r) \/ FewerAt(MailOf(r), c)
<1>. SUFFICES ASSUME l # MailOf(r)
              PROVE  Fewer(Carriers(mailbox[r], c), Carriers(mailbox'[r], c))
  BY PlaceHolds DEF FewerAt
<1>1. mailbox \in [Side -> Seq(Message)] /\ mailbox[r] \in Seq(Message)
  BY DEF TypeOK
<1>2. CASE mailbox'[r] = mailbox[r]
  BY <1>2, FewerSame
<1>3. CASE mailbox' = [mailbox EXCEPT ![s] = <<>>] /\ r = s
  <2>1. mailbox'[r] = <<>>
    BY <1>1, <1>3
  <2>2. Carriers(<<>>, c) = {}
    BY <1>1, QueueCarriers
  <2>. QED
    BY <2>1, <2>2, FewerSame
<1>4. CASE mailbox[s] # <<>> /\ Done(s) /\ r = s
  <2>1. mailbox'[r] = Tail(mailbox[r])
    BY <1>1, <1>4 DEF Done
  <2>. QED
    BY <1>1, <1>4, <2>1, QueueCarriers
<1>5. ASSUME NEW e, ~Carries(e, c), Cast(s, e), r = s
      PROVE  Fewer(Carriers(mailbox[r], c), Carriers(mailbox'[r], c))
  <2>1. mailbox'[r] = mailbox[r] \/ mailbox'[r] = Append(mailbox[r], e)
    BY <1>1, <1>5 DEF Cast
  <2>2. Carriers(Append(mailbox[r], e), c) = Carriers(mailbox[r], c)
    BY <1>1, <1>5, QueueCarriers
  <2>. QED
    BY <2>1, <2>2, FewerSame
<1>6. ASSUME NEW e, ~Carries(e, c), mailbox[s] # <<>>,
             mailbox' = [mailbox EXCEPT ![s] = Append(Tail(@), e)], r = s
      PROVE  Fewer(Carriers(mailbox[r], c), Carriers(mailbox'[r], c))
  <2>1. PICK rest : rest = Tail(mailbox[r])
    OBVIOUS
  <2>2. mailbox'[r] = Append(rest, e) /\ rest \in Seq(Message)
    BY <1>1, <1>6, <2>1, TailElements
  <2>3. Carriers(Append(rest, e), c) = Carriers(rest, c)
    BY <1>6, <2>2, QueueCarriers
  <2>4. Fewer(Carriers(mailbox[r], c), Carriers(Tail(mailbox[r]), c))
    BY <1>1, <1>6, QueueCarriers
  <2>. QED
    BY <2>1, <2>2, <2>3, <2>4
<1>7. r # s => mailbox'[r] = mailbox[r]
  BY <1>1 DEF MailKept, Done, Cast
<1>8. l = MailOf(s) => r # s
  OBVIOUS
<1>. QED
  BY <1>2, <1>3, <1>4, <1>5, <1>6, <1>7, <1>8 DEF MailKept

(* The same of a wire (the sinks and sources of the conduit). *)
LEMMA WireSpared ==
  ASSUME TypeOK, NEW s \in Side, NEW c, NEW l, WireKept(s, c, l), NEW r \in Side
  PROVE  l = WireOf(r) \/ FewerAt(WireOf(r), c)
<1>. SUFFICES ASSUME l # WireOf(r)
              PROVE  Fewer(Carriers(wire[r], c), Carriers(wire'[r], c))
  BY PlaceHolds DEF FewerAt
<1>1. wire \in [Side -> Seq(Frame)] /\ wire[r] \in Seq(Frame) /\ Peer(s) \in Side
  BY PeerFacts DEF TypeOK
<1>2. CASE wire'[r] = wire[r]
  BY <1>2, FewerSame
<1>3. CASE wire' = [wire EXCEPT ![s] = <<>>] /\ r = s
  <2>1. wire'[r] = <<>>
    BY <1>1, <1>3
  <2>2. Carriers(<<>>, c) = {}
    BY <1>1, QueueCarriers
  <2>. QED
    BY <2>1, <2>2, FewerSame
<1>4. CASE wire[s] # <<>> /\ wire' = [wire EXCEPT ![s] = Tail(@)] /\ r = s
  <2>1. wire'[r] = Tail(wire[r])
    BY <1>1, <1>4
  <2>. QED
    BY <1>1, <1>4, <2>1, QueueCarriers
<1>5. ASSUME NEW f, ~Carries(f, c), Writes(s, f)
      PROVE  Fewer(Carriers(wire[r], c), Carriers(wire'[r], c))
  <2>1. wire'[r] = wire[r] \/ wire'[r] = Append(wire[r], f)
    BY <1>1, <1>5 DEF Writes
  <2>2. Carriers(Append(wire[r], f), c) = Carriers(wire[r], c)
    BY <1>1, <1>5, QueueCarriers
  <2>. QED
    BY <2>1, <2>2, FewerSame
<1>6. ASSUME NEW f, Writes(s, f), l = WireOf(Peer(s))
      PROVE  wire'[r] = wire[r]
  <2>1. r # Peer(s)
    BY <1>6
  <2>. QED
    BY <1>1, <1>6, <2>1 DEF Writes
<1>7. r # s /\ (\/ wire' = [wire EXCEPT ![s] = <<>>]
                \/ wire' = [wire EXCEPT ![s] = Tail(@)]) => wire'[r] = wire[r]
  BY <1>1
<1>. QED
  BY <1>2, <1>3, <1>4, <1>5, <1>6, <1>7 DEF WireKept

(* So a call that is spared stays where it is, or is dropped.              *)
LEMMA Spared ==
  ASSUME TypeOK, NEW s \in Side, NEW c \in Call, NEW l, Spares(s, c, l)
  PROVE  FewerBut(l, c)
<1>. SUFFICES ASSUME NEW j \in Place, j # l
              PROVE  FewerAt(j, c)
  BY DEF FewerBut
<1>1. \A r \in Side : l = MailOf(r) \/ FewerAt(MailOf(r), c)
  BY MailSpared DEF Spares
<1>2. \A r \in Side : l = WireOf(r) \/ FewerAt(WireOf(r), c)
  BY WireSpared DEF Spares
<1>3. l = InTask \/ FewerAt(InTask, c)
  BY PlaceHolds DEF Spares, CallKept, FewerAt, Fewer, AtMostOne
<1>4. l = InPort \/ FewerAt(InPort, c)
  BY PlaceHolds DEF Spares, CallKept, FewerAt, Fewer, AtMostOne
<1>5. l = InAnswer \/ FewerAt(InAnswer, c)
  BY PlaceHolds DEF Spares, CallKept, FewerAt, Fewer, AtMostOne
<1>6. l = InQueue \/ FewerAt(InQueue, c)
  BY PlaceHolds, NoElements DEF Spares, CallKept, FewerAt, Fewer, AtMostOne
<1>7. (\E r \in Side : j = MailOf(r) \/ j = WireOf(r)) \/ j \in CallPlaces
  BY Places
<1>. QED
  BY <1>1, <1>2, <1>3, <1>4, <1>5, <1>6, <1>7 DEF CallPlaces

(* A call comes to a place, or leaves it. *)
LEMMA Gained ==
  ASSUME TypeOK, NEW s \in Side, NEW c \in Call
  PROVE  /\ (\E e : Cast(s, e)) => GainedAt(MailOf(s), c)
         /\ (\E f : Writes(s, f)) => GainedAt(WireOf(Peer(s)), c)
         /\ GainedAt(InTask, c) /\ GainedAt(InPort, c) /\ GainedAt(InAnswer, c)
         /\ \A b : rpcQueue'[c] = Append(rpcQueue[c], b) => GainedAt(InQueue, c)
<1>1. mailbox \in [Side -> Seq(Message)] /\ wire \in [Side -> Seq(Frame)] /\ Peer(s) \in Side
      /\ rpcQueue[c] \in Seq(Value)
  BY PeerFacts DEF TypeOK
<1>2. AtMostOne({})
  BY DEF AtMostOne
<1>3. ASSUME NEW e, Cast(s, e)
      PROVE  GainedAt(MailOf(s), c)
  <2>1. mailbox'[s] = mailbox[s] \/ mailbox'[s] = Append(mailbox[s], e)
    BY <1>1, <1>3 DEF Cast
  <2>2. mailbox[s] \in Seq(Message)
    BY <1>1
  <2>3. Carriers(mailbox[s], c) = {} => AtMostOne(Carriers(Append(mailbox[s], e), c))
    BY <2>2, QueueCarriers
  <2>. QED
    BY <1>2, <2>1, <2>3, PlaceHolds DEF GainedAt
<1>4. ASSUME NEW f, Writes(s, f)
      PROVE  GainedAt(WireOf(Peer(s)), c)
  <2>0. PICK q \in Seq(Frame) : q = wire[Peer(s)]
    BY <1>1
  <2>1. wire'[Peer(s)] = q \/ wire'[Peer(s)] = Append(q, f)
    BY <1>1, <1>4, <2>0 DEF Writes
  <2>2. Carriers(q, c) = {} => AtMostOne(Carriers(Append(q, f), c))
    BY QueueCarriers
  <2>. QED
    BY <1>2, <2>0, <2>1, <2>2, PlaceHolds DEF GainedAt
<1>5. GainedAt(InTask, c) /\ GainedAt(InPort, c) /\ GainedAt(InAnswer, c)
  BY PlaceHolds DEF GainedAt, AtMostOne
<1>6. ASSUME NEW b, rpcQueue'[c] = Append(rpcQueue[c], b)
      PROVE  GainedAt(InQueue, c)
  <2>1. PICK q \in Seq(Value) : q = rpcQueue[c]
    BY <1>1
  <2>2. DOMAIN Append(q, b) = DOMAIN q \cup {Len(q) + 1}
    BY AppendPositions
  <2>3. DOMAIN rpcQueue'[c] = DOMAIN rpcQueue[c] \cup {Len(q) + 1}
    BY <1>6, <2>1, <2>2
  <2>. QED
    BY <2>3, PlaceHolds DEF GainedAt, AtMostOne
<1>. QED
  BY <1>3, <1>4, <1>5, <1>6

(* A call is not where it was taken from any more. *)
LEMMA Lost ==
  ASSUME TypeOK, NEW s \in Side, NEW c \in Call
  PROVE  /\ /\ mailbox[s] # <<>> /\ Carries(Head(mailbox[s]), c)
            /\ \/ Done(s)
               \/ \E e : ~Carries(e, c) /\ mailbox' = [mailbox EXCEPT ![s] = Append(Tail(@), e)]
            => LostAt(MailOf(s), c)
         /\ /\ wire[s] # <<>> /\ Carries(Head(wire[s]), c)
            /\ wire' = [wire EXCEPT ![s] = Tail(@)]
            => LostAt(WireOf(s), c)
         /\ task[c] \in {"started", "published"} /\ task'[c] \notin {"started", "published"}
              => LostAt(InTask, c)
         /\ forwarder[c] = "waiting" /\ forwarder'[c] # "waiting" => LostAt(InPort, c)
         /\ answering[c] # None /\ answering'[c] = None => LostAt(InAnswer, c)
         /\ rpcQueue[c] # <<>> /\ rpcQueue'[c] = <<>> => LostAt(InQueue, c)
<1>1. mailbox \in [Side -> Seq(Message)] /\ wire \in [Side -> Seq(Frame)]
      /\ rpcQueue[c] \in Seq(Value)
  BY DEF TypeOK
<1>2. ASSUME mailbox[s] # <<>>, Carries(Head(mailbox[s]), c),
             \/ Done(s)
             \/ \E e : ~Carries(e, c) /\ mailbox' = [mailbox EXCEPT ![s] = Append(Tail(@), e)]
      PROVE  LostAt(MailOf(s), c)
  <2>1. PICK rest : rest = Tail(mailbox[s])
    OBVIOUS
  <2>2. rest \in Seq(Message)
    BY <1>1, <1>2, <2>1, TailElements
  <2>3. mailbox'[s] = rest \/ \E e : ~Carries(e, c) /\ mailbox'[s] = Append(rest, e)
    BY <1>1, <1>2, <2>1 DEF Done
  <2>4. Carriers(mailbox'[s], c) = Carriers(rest, c)
    <3>1. ASSUME NEW e, ~Carries(e, c)
          PROVE  Carriers(Append(rest, e), c) = Carriers(rest, c)
      BY <2>2, <3>1, QueueCarriers
    <3>2. CASE mailbox'[s] = rest
      BY <3>2
    <3>3. ASSUME NEW e, ~Carries(e, c), mailbox'[s] = Append(rest, e)
          PROVE  Carriers(mailbox'[s], c) = Carriers(rest, c)
      BY <3>1, <3>3
    <3>. QED
      BY <2>3, <3>2, <3>3
  <2>5. mailbox[s] \in Seq(Message)
    BY <1>1
  <2>6. Carriers(mailbox[s], c) # {} /\ (AtMostOne(Carriers(mailbox[s], c)) => Carriers(rest, c) = {})
    BY <1>2, <2>1, <2>5, QueueCarriers
  <2>. QED
    BY <2>4, <2>6, PlaceHolds DEF LostAt
<1>3. ASSUME wire[s] # <<>>, Carries(Head(wire[s]), c), wire' = [wire EXCEPT ![s] = Tail(@)]
      PROVE  LostAt(WireOf(s), c)
  <2>1. wire'[s] = Tail(wire[s]) /\ wire[s] \in Seq(Frame)
    BY <1>1, <1>3
  <2>2. Carriers(wire[s], c) # {} /\ (AtMostOne(Carriers(wire[s], c)) => Carriers(wire'[s], c) = {})
    BY <1>3, <2>1, QueueCarriers
  <2>. QED
    BY <2>2, PlaceHolds DEF LostAt
<1>4. /\ task[c] \in {"started", "published"} /\ task'[c] \notin {"started", "published"}
           => LostAt(InTask, c)
      /\ forwarder[c] = "waiting" /\ forwarder'[c] # "waiting" => LostAt(InPort, c)
      /\ answering[c] # None /\ answering'[c] = None => LostAt(InAnswer, c)
  BY PlaceHolds DEF LostAt
<1>5. ASSUME rpcQueue[c] # <<>>, rpcQueue'[c] = <<>>
      PROVE  LostAt(InQueue, c)
  <2>1. 1 \in DOMAIN rpcQueue[c] /\ DOMAIN rpcQueue'[c] = {}
    BY <1>1, <1>5, TailElements, NoElements
  <2>. QED
    BY <2>1, PlaceHolds DEF LostAt
<1>. QED
  BY <1>2, <1>3, <1>4, <1>5
-----------------------------------------------------------------------------
(* A caller does not begin again, and an RpcProxyActor has not stopped. *)
Keeps(c) ==
  /\ caller[c] # "idle" => caller'[c] # "idle"
  /\ rpcActor'[c] = "stopped" => rpcActor[c] = "stopped"

(* A call that no step of its own takes on stays where it is, or is lost. *)
LEMMA Undisturbed ==
  ASSUME TypeOK, NEW s \in Side, NEW c \in Call, Spares(s, c, Nowhere), Keeps(c)
  PROVE  StaysOnce(c)
BY Spared DEF StaysOnce, Keeps

(* A call that a step takes on is where the step puts it, and there only. *)
LEMMA MovesOn ==
  ASSUME TypeOK, NEW s \in Side, NEW c \in Call, NEW k \in Place, NEW l \in Place, k # l,
         LostAt(k, c), GainedAt(l, c), Spares(s, c, l), Keeps(c)
  PROVE  StaysOnce(c)
BY Spared DEF StaysOnce, Keeps, Moves

(* The end of a portal drops the calls it held, and takes none on. *)
LEMMA GoesDownSpares ==
  ASSUME TypeOK, NEW s \in Side, NEW how, GoesDown(s, how),
         UNCHANGED <<wire, rpcQueue, forwarder, answering>>, NEW c \in Call
  PROVE  StaysOnce(c)
<1>1. MailKept(s, c, Nowhere) /\ WireKept(s, c, Nowhere)
  BY DEF GoesDown, MailKept, WireKept
<1>2. CallKept(c, Nowhere) /\ Keeps(c)
  BY DEF GoesDown, CallKept, Keeps, Refused, TypeOK
<1>. QED
  BY <1>1, <1>2, Undisturbed DEF Spares

(* What carries no call: registrations, exits, closes. *)
LEMMA Bystanders ==
  ASSUME NEW e, e.type \in {"RegisterProxyForRemoteActor", "LocalActorExited", "ActorExited", "Close"},
         NEW c
  PROVE  ~Carries(e, c)
BY DEF Carries, CallTypes

(* The steps of a portal that carry no call. *)
LEMMA BookkeepingSpares ==
  ASSUME TypeOK, NEW s \in Side, NEW c \in Call,
         HandleRegisterProxy(s) \/ HandleLocalActorExited(s) \/ HandleActorExited(s)
  PROVE  StaysOnce(c)
<1>1. MailKept(s, c, Nowhere)
  BY DEF HandleRegisterProxy, HandleLocalActorExited, HandleActorExited, MailKept, Takes
<1>2. WireKept(s, c, Nowhere)
  <2>1. CASE HandleLocalActorExited(s)
    <3>1. PICK f : f = [type |-> "ActorExited", call |-> Head(mailbox[s]).call]
      OBVIOUS
    <3>2. Writes(s, f) /\ f.type = "ActorExited"
      BY <2>1, <3>1 DEF HandleLocalActorExited
    <3>. QED
      BY <3>2, Bystanders DEF WireKept
  <2>. QED
    BY <2>1 DEF HandleRegisterProxy, HandleActorExited, WireKept
<1>3. CallKept(c, Nowhere) /\ Keeps(c)
  BY DEF HandleRegisterProxy, HandleLocalActorExited, HandleActorExited, CallKept, Keeps
<1>. QED
  BY <1>1, <1>2, <1>3, Undisturbed DEF Spares

(* Readers that end, links that break and watchers carry no call.          *)
LEMMA OthersSpare ==
  ASSUME TypeOK, NEW s \in Side, NEW c \in Call, NEW d \in Call,
         \/ ReceiveLoopEnds(s) \/ LinkBreaks \/ WatcherReports(d)
         \/ TargetDrops(d) \/ (\E v \in Value : TargetGives(d, v)) \/ ForwarderEnds(d)
         \/ KillAfter(d) \/ CallerTimesOut(d)
  PROVE  StaysOnce(c)
<1>0. Home[d] \in Side
  BY HomeTyped
<1>1. CASE ReceiveLoopEnds(s)
  <2>1. PICK e : e = [type |-> "Close"]
    OBVIOUS
  <2>2. Cast(s, e) /\ e.type = "Close"
    BY <1>1, <2>1 DEF ReceiveLoopEnds
  <2>3. MailKept(s, c, Nowhere) /\ WireKept(s, c, Nowhere)
    BY <1>1, <2>2, Bystanders DEF ReceiveLoopEnds, MailKept, WireKept
  <2>. QED
    BY <1>1, <2>3, Undisturbed DEF ReceiveLoopEnds, CallKept, Keeps, Spares
<1>2. CASE WatcherReports(d)
  <2>1. PICK e : e = [type |-> "LocalActorExited", call |-> d]
    OBVIOUS
  <2>2. Cast(Home[d], e) /\ e.type = "LocalActorExited"
    BY <1>2, <2>1 DEF WatcherReports
  <2>3. MailKept(Home[d], c, Nowhere) /\ WireKept(Home[d], c, Nowhere)
    BY <1>2, <2>2, Bystanders DEF WatcherReports, MailKept, WireKept
  <2>. QED
    BY <1>0, <1>2, <2>3, Undisturbed DEF WatcherReports, CallKept, Keeps, Spares
<1>3. CASE \/ LinkBreaks \/ TargetDrops(d) \/ (\E v \in Value : TargetGives(d, v))
           \/ ForwarderEnds(d) \/ KillAfter(d) \/ CallerTimesOut(d)
  <2>1. MailKept(s, c, Nowhere) /\ WireKept(s, c, Nowhere)
    BY <1>3
    DEF LinkBreaks, TargetDrops, TargetGives, ForwarderEnds, KillAfter, CallerTimesOut,
        MailKept, WireKept
  <2>2. CASE LinkBreaks \/ TargetDrops(d) \/ (\E v \in Value : TargetGives(d, v))
    BY <2>1, <2>2, Undisturbed
    DEF LinkBreaks, TargetDrops, TargetGives, CallKept, Keeps, Spares
  <2>3. CASE ForwarderEnds(d)
    BY <2>1, <2>3, Undisturbed DEF ForwarderEnds, CallKept, Keeps, Spares, TypeOK
  <2>4. CASE KillAfter(d)
    BY <2>1, <2>4, Undisturbed DEF KillAfter, CallKept, Keeps, Spares, Refused, TypeOK
  <2>5. CASE CallerTimesOut(d)
    BY <2>1, <2>5, Undisturbed DEF CallerTimesOut, CallKept, Keeps, Spares, TypeOK
  <2>. QED
    BY <1>3, <2>2, <2>3, <2>4, <2>5
<1>. QED
  BY <1>1, <1>2, <1>3
-----------------------------------------------------------------------------
(* A caller's request is a message for its portal, or is refused at once.  *)
LEMMA AskMoves ==
  ASSUME TypeOK, CallsAreSound, NEW d \in Call, CallerAsks(d), NEW c \in Call
  PROVE  StaysOnce(c)
<1>. DEFINE s == Home[d]
<1>1. s \in Side /\ MailOf(s) \in Place
  BY HomeTyped, Places
<1>2. PICK e : e = [type |-> "ImmaterializeMessage", call |-> d, body |-> Request]
  OBVIOUS
<1>3. Cast(s, e)
  BY <1>2 DEF CallerAsks
<1>4. WireKept(s, c, MailOf(s)) /\ CallKept(c, MailOf(s)) /\ Keeps(c)
  BY DEF CallerAsks, WireKept, CallKept, Keeps, TypeOK
<1>5. CASE c = d
  <2>1. MailKept(s, c, MailOf(s))
    BY <1>3 DEF MailKept
  <2>2. GainedAt(MailOf(s), c) /\ FewerBut(MailOf(s), c)
    BY <1>1, <1>3, <1>4, <2>1, Gained, Spared DEF Spares
  <2>3. caller[c] = "idle" /\ caller'[c] # "idle"
    BY <1>5 DEF CallerAsks, TypeOK
  <2>4. rpcActor'[c] # "stopped"
    BY <2>3 DEF CallerAsks, CallsAreSound, CallIsSound
  <2>. QED
    BY <1>1, <2>2, <2>3, <2>4 DEF StaysOnce
<1>6. CASE c # d
  <2>1. MailKept(s, c, Nowhere)
    BY <1>2, <1>3, <1>6 DEF MailKept, Carries
  <2>2. WireKept(s, c, Nowhere) /\ CallKept(c, Nowhere)
    BY DEF CallerAsks, WireKept, CallKept
  <2>. QED
    BY <1>1, <1>4, <2>1, <2>2, Undisturbed DEF Spares
<1>. QED
  BY <1>5, <1>6

(* The tasks that serialize a request and an answer, and the forwarder:    *)
(* what they hold becomes a message of a portal.                           *)
LEMMA TasksMove ==
  ASSUME TypeOK, NEW d \in Call,
         \/ TaskSpawnsRpcProxy(d) \/ TaskTransmits(d) \/ ForwarderForwards(d) \/ AnswerTransmits(d),
         NEW c \in Call
  PROVE  StaysOnce(c)
<1>1. Home[d] \in Side /\ Peer(Home[d]) \in Side
  BY HomeTyped, PeerFacts
<1>2. /\ \A s : MailOf(s) # InTask /\ MailOf(s) # InPort /\ MailOf(s) # InAnswer
      /\ \A s \in Side : MailOf(s) \in Place
      /\ InTask \in Place /\ InPort \in Place /\ InAnswer \in Place
  BY Places DEF CallPlaces
<1>3. CASE TaskSpawnsRpcProxy(d)
  <2>. DEFINE s == Home[d]
  <2>1. PICK e : e = [type |-> "PublishActor", call |-> d]
    OBVIOUS
  <2>2. Cast(s, e)
    BY <1>3, <2>1 DEF TaskSpawnsRpcProxy
  <2>3. Keeps(c)
    BY <1>3 DEF TaskSpawnsRpcProxy, Keeps, Refused, TypeOK
  <2>4. CASE c = d
    <3>1. LostAt(InTask, c)
      <4>1. task[c] \in {"started", "published"} /\ task'[c] \notin {"started", "published"}
        BY <1>3, <2>4 DEF TaskSpawnsRpcProxy, TypeOK
      <4>. QED
        BY <1>1, <4>1, Lost
    <3>2. GainedAt(MailOf(s), c)
      BY <1>1, <2>2, Gained
    <3>3. Spares(s, c, MailOf(s))
      BY <1>3, <2>2, <2>4 DEF TaskSpawnsRpcProxy, Spares, MailKept, WireKept, CallKept, TypeOK
    <3>. QED
      BY <1>1, <1>2, <2>3, <3>1, <3>2, <3>3, MovesOn
  <2>5. CASE c # d
    <3>1. MailKept(s, c, Nowhere)
      BY <2>1, <2>2, <2>5 DEF MailKept, Carries
    <3>2. WireKept(s, c, Nowhere) /\ CallKept(c, Nowhere)
      BY <1>3, <2>5 DEF TaskSpawnsRpcProxy, WireKept, CallKept, TypeOK
    <3>. QED
      BY <1>1, <2>3, <3>1, <3>2, Undisturbed DEF Spares
  <2>. QED
    BY <2>4, <2>5
<1>4. CASE TaskTransmits(d)
  <2>. DEFINE s == Home[d]
  <2>1. PICK e : e = [type |-> "TransmitMessage", call |-> d, body |-> Request]
    OBVIOUS
  <2>2. Cast(s, e)
    BY <1>4, <2>1 DEF TaskTransmits
  <2>3. Keeps(c)
    BY <1>4 DEF TaskTransmits, Keeps
  <2>4. CASE c = d
    <3>1. LostAt(InTask, c)
      <4>1. task[c] \in {"started", "published"} /\ task'[c] \notin {"started", "published"}
        BY <1>4, <2>4 DEF TaskTransmits, TypeOK
      <4>. QED
        BY <1>1, <4>1, Lost
    <3>2. GainedAt(MailOf(s), c)
      BY <1>1, <2>2, Gained
    <3>3. Spares(s, c, MailOf(s))
      BY <1>4, <2>2, <2>4 DEF TaskTransmits, Spares, MailKept, WireKept, CallKept, TypeOK
    <3>. QED
      BY <1>1, <1>2, <2>3, <3>1, <3>2, <3>3, MovesOn
  <2>5. CASE c # d
    <3>1. MailKept(s, c, Nowhere)
      BY <2>1, <2>2, <2>5 DEF MailKept, Carries
    <3>2. WireKept(s, c, Nowhere) /\ CallKept(c, Nowhere)
      BY <1>4, <2>5 DEF TaskTransmits, WireKept, CallKept, TypeOK
    <3>. QED
      BY <1>1, <2>3, <3>1, <3>2, Undisturbed DEF Spares
  <2>. QED
    BY <2>4, <2>5
<1>5. CASE ForwarderForwards(d)
  <2>. DEFINE s == Peer(Home[d])
  <2>1. PICK e : e = [type |-> "ImmaterializeMessage", call |-> d, body |-> given[d]]
    OBVIOUS
  <2>2. Cast(s, e) \/ UNCHANGED mailbox
    BY <1>5, <2>1 DEF ForwarderForwards, ReturnAddress
  <2>3. forwarder[d] = "waiting" /\ \E x \in {"forwarded", "panicked"} : forwarder' = [forwarder EXCEPT ![d] = x]
    BY <1>5 DEF ForwarderForwards, Forwarded
  <2>4. UNCHANGED <<wire, task, rpcQueue, answering, caller, rpcActor>> /\ Keeps(c)
    BY <1>5 DEF ForwarderForwards, Keeps
  <2>5. CASE c = d
    <3>1. LostAt(InPort, c)
      <4>1. forwarder[c] = "waiting" /\ forwarder'[c] # "waiting"
        BY <2>3, <2>5 DEF TypeOK
      <4>. QED
        BY <1>1, <4>1, Lost
    <3>2. GainedAt(MailOf(s), c)
      <4>1. CASE UNCHANGED mailbox
        <5>1. CopiesNext(MailOf(s), c) = Copies(MailOf(s), c)
          BY <4>1, PlaceHolds
        <5>. QED
          BY <5>1 DEF GainedAt, AtMostOne
      <4>. QED
        BY <1>1, <2>2, <4>1, Gained
    <3>3. Spares(s, c, MailOf(s))
      BY <2>2, <2>3, <2>4, <2>5 DEF Spares, MailKept, WireKept, CallKept, TypeOK
    <3>. QED
      BY <1>1, <1>2, <2>4, <3>1, <3>2, <3>3, MovesOn
  <2>6. CASE c # d
    <3>1. MailKept(s, c, Nowhere)
      BY <2>1, <2>2, <2>6 DEF MailKept, Carries
    <3>2. WireKept(s, c, Nowhere) /\ CallKept(c, Nowhere)
      BY <2>3, <2>4, <2>6 DEF WireKept, CallKept, TypeOK
    <3>. QED
      BY <1>1, <2>4, <3>1, <3>2, Undisturbed DEF Spares
  <2>. QED
    BY <2>5, <2>6
<1>6. CASE AnswerTransmits(d)
  <2>. DEFINE s == Peer(Home[d])
  <2>1. PICK e : e = [type |-> "TransmitMessage", call |-> d, body |-> answering[d]]
    OBVIOUS
  <2>2. Cast(s, e)
    BY <1>6, <2>1 DEF AnswerTransmits
  <2>3. Keeps(c)
    BY <1>6 DEF AnswerTransmits, Keeps
  <2>4. CASE c = d
    <3>1. LostAt(InAnswer, c)
      <4>1. answering[c] # None /\ answering'[c] = None
        BY <1>6, <2>4 DEF AnswerTransmits, TypeOK
      <4>. QED
        BY <1>1, <4>1, Lost
    <3>2. GainedAt(MailOf(s), c)
      BY <1>1, <2>2, Gained
    <3>3. Spares(s, c, MailOf(s))
      BY <1>6, <2>2, <2>4 DEF AnswerTransmits, Spares, MailKept, WireKept, CallKept, TypeOK
    <3>. QED
      BY <1>1, <1>2, <2>3, <3>1, <3>2, <3>3, MovesOn
  <2>5. CASE c # d
    <3>1. MailKept(s, c, Nowhere)
      BY <2>1, <2>2, <2>5 DEF MailKept, Carries
    <3>2. WireKept(s, c, Nowhere) /\ CallKept(c, Nowhere)
      BY <1>6, <2>5 DEF AnswerTransmits, WireKept, CallKept, TypeOK
    <3>. QED
      BY <1>1, <2>3, <3>1, <3>2, Undisturbed DEF Spares
  <2>. QED
    BY <2>4, <2>5
<1>. QED
  BY <1>3, <1>4, <1>5, <1>6

(* A portal hands the message it takes to the task that serializes it, to  *)
(* the wire, to the rebuilt port, or to the RpcProxyActor.                 *)
LEMMA HandlersMove ==
  ASSUME TypeOK, NEW s \in Side,
         \/ HandleImmaterializeMessage(s) \/ HandlePublishActor(s) \/ HandleTransmitMessage(s)
         \/ HandleRequest(s) \/ HandleAnswer(s),
         NEW c \in Call
  PROVE  StaysOnce(c)
<1>. DEFINE m == Head(mailbox[s])
<1>1. /\ Peer(s) \in Side /\ mailbox[s] # <<>>
      /\ m \in Message /\ m.type \in CallTypes
  BY HeadTyped, PeerFacts
  DEF HandleImmaterializeMessage, HandlePublishActor, HandleTransmitMessage, HandleRequest,
      HandleAnswer, Takes, CallTypes
<1>2. m.call \in Call /\ (m.call = c <=> Carries(m, c))
  BY <1>1, MessageShapes DEF CallTypes, Carries
<1>3. /\ MailOf(s) \in Place /\ WireOf(Peer(s)) \in Place
      /\ InTask \in Place /\ InPort \in Place /\ InAnswer \in Place /\ InQueue \in Place
      /\ MailOf(s) # WireOf(Peer(s)) /\ MailOf(s) # InTask /\ MailOf(s) # InPort
      /\ MailOf(s) # InAnswer /\ MailOf(s) # InQueue
  BY <1>1, Places DEF CallPlaces
<1>4. Keeps(c)
  BY DEF HandleImmaterializeMessage, HandlePublishActor, HandleTransmitMessage, HandleRequest,
         HandleAnswer, Keeps
<1>5. \A l : MailKept(s, c, l)
  <2>1. CASE HandleRequest(s)
    <3>1. PICK e : e = [type |-> "RegisterProxyForRemoteActor", call |-> m.call]
      OBVIOUS
    <3>2. e.type = "RegisterProxyForRemoteActor"
      BY <3>1
    <3>3. ~Carries(e, c)
      BY <3>2, Bystanders
    <3>4. mailbox' = [mailbox EXCEPT ![s] = Append(Tail(@), e)]
      BY <2>1, <3>1 DEF HandleRequest
    <3>. QED
      BY <1>1, <3>3, <3>4 DEF MailKept
  <2>2. CASE ~HandleRequest(s)
    <3>1. Done(s)
      BY <2>2 DEF HandleImmaterializeMessage, HandlePublishActor, HandleTransmitMessage, HandleAnswer
    <3>. QED
      BY <1>1, <3>1 DEF MailKept
  <2>. QED
    BY <2>1, <2>2
<1>6. m.call = c => LostAt(MailOf(s), c)
  <2>. SUFFICES ASSUME Carries(m, c)
                PROVE  LostAt(MailOf(s), c)
    BY <1>2
  <2>1. CASE HandleRequest(s)
    <3>1. PICK e : e = [type |-> "RegisterProxyForRemoteActor", call |-> m.call]
      OBVIOUS
    <3>2. e.type = "RegisterProxyForRemoteActor"
      BY <3>1
    <3>3. ~Carries(e, c)
      BY <3>2, Bystanders
    <3>4. mailbox' = [mailbox EXCEPT ![s] = Append(Tail(@), e)]
      BY <2>1, <3>1 DEF HandleRequest
    <3>. QED
      BY <1>1, <3>3, <3>4, Lost
  <2>2. CASE ~HandleRequest(s)
    <3>1. Done(s)
      BY <2>2 DEF HandleImmaterializeMessage, HandlePublishActor, HandleTransmitMessage, HandleAnswer
    <3>. QED
      BY <1>1, <3>1, Lost
  <2>. QED
    BY <2>1, <2>2
<1>7. CASE HandleImmaterializeMessage(s)
  <2>1. \A l : WireKept(s, c, l)
    BY <1>7 DEF HandleImmaterializeMessage, WireKept
  <2>2. \/ task' = [task EXCEPT ![m.call] = "started"] /\ UNCHANGED answering
        \/ answering' = [answering EXCEPT ![m.call] = m.body] /\ UNCHANGED task
    BY <1>7 DEF HandleImmaterializeMessage
  <2>3. UNCHANGED <<forwarder, rpcQueue>>
    BY <1>7 DEF HandleImmaterializeMessage
  <2>4. CASE m.call = c
    <3>1. CASE UNCHANGED answering
      <4>1. CallKept(c, InTask)
        BY <2>3, <3>1 DEF CallKept
      <4>2. Spares(s, c, InTask)
        BY <1>5, <2>1, <4>1 DEF Spares
      <4>3. LostAt(MailOf(s), c) /\ GainedAt(InTask, c)
        BY <1>6, <2>4, Gained
      <4>. QED
        BY <1>3, <1>4, <4>2, <4>3, MovesOn
    <3>2. CASE UNCHANGED task
      <4>1. CallKept(c, InAnswer)
        BY <2>3, <3>2 DEF CallKept
      <4>2. Spares(s, c, InAnswer)
        BY <1>5, <2>1, <4>1 DEF Spares
      <4>3. LostAt(MailOf(s), c) /\ GainedAt(InAnswer, c)
        BY <1>6, <2>4, Gained
      <4>. QED
        BY <1>3, <1>4, <4>2, <4>3, MovesOn
    <3>. QED
      BY <2>2, <3>1, <3>2
  <2>5. CASE m.call # c
    <3>1. CallKept(c, Nowhere)
      BY <1>2, <2>2, <2>3, <2>5 DEF CallKept, TypeOK
    <3>. QED
      BY <1>4, <1>5, <2>1, <3>1, Undisturbed DEF Spares
  <2>. QED
    BY <2>4, <2>5
<1>8. CASE HandlePublishActor(s)
  <2>1. \A l : WireKept(s, c, l)
    BY <1>8 DEF HandlePublishActor, WireKept
  <2>2. task' = [task EXCEPT ![m.call] = "published"] /\ UNCHANGED <<forwarder, rpcQueue, answering>>
    BY <1>8 DEF HandlePublishActor
  <2>4. CASE m.call = c
    <3>1. CallKept(c, InTask)
      BY <2>2 DEF CallKept
    <3>2. Spares(s, c, InTask)
      BY <1>5, <2>1, <3>1 DEF Spares
    <3>3. LostAt(MailOf(s), c) /\ GainedAt(InTask, c)
      BY <1>6, <2>4, Gained
    <3>. QED
      BY <1>3, <1>4, <3>2, <3>3, MovesOn
  <2>5. CASE m.call # c
    <3>1. CallKept(c, Nowhere)
      BY <1>2, <2>2, <2>5 DEF CallKept, TypeOK
    <3>. QED
      BY <1>4, <1>5, <2>1, <3>1, Undisturbed DEF Spares
  <2>. QED
    BY <2>4, <2>5
<1>9. CASE HandleTransmitMessage(s)
  <2>1. PICK f : f = [type |-> "SendMessage", call |-> m.call, body |-> m.body]
    OBVIOUS
  <2>2. Writes(s, f)
    BY <1>9, <2>1 DEF HandleTransmitMessage
  <2>3. \A l : CallKept(c, l)
    BY <1>9 DEF HandleTransmitMessage, CallKept
  <2>4. CASE m.call = c
    <3>1. WireKept(s, c, WireOf(Peer(s)))
      BY <2>2 DEF WireKept
    <3>2. Spares(s, c, WireOf(Peer(s)))
      BY <1>5, <2>3, <3>1 DEF Spares
    <3>3. LostAt(MailOf(s), c) /\ GainedAt(WireOf(Peer(s)), c)
      BY <1>6, <2>2, <2>4, Gained
    <3>. QED
      BY <1>3, <1>4, <3>2, <3>3, MovesOn
  <2>5. CASE m.call # c
    <3>1. WireKept(s, c, Nowhere)
      BY <2>1, <2>2, <2>5 DEF WireKept, Carries
    <3>. QED
      BY <1>4, <1>5, <2>3, <3>1, Undisturbed DEF Spares
  <2>. QED
    BY <2>4, <2>5
<1>10. CASE HandleRequest(s)
  <2>1. \A l : WireKept(s, c, l)
    BY <1>10 DEF HandleRequest, WireKept
  <2>2. forwarder' = [forwarder EXCEPT ![m.call] = "waiting"] /\ UNCHANGED <<task, rpcQueue, answering>>
    BY <1>10 DEF HandleRequest
  <2>4. CASE m.call = c
    <3>1. CallKept(c, InPort)
      BY <2>2 DEF CallKept
    <3>2. Spares(s, c, InPort)
      BY <1>5, <2>1, <3>1 DEF Spares
    <3>3. LostAt(MailOf(s), c) /\ GainedAt(InPort, c)
      BY <1>6, <2>4, Gained
    <3>. QED
      BY <1>3, <1>4, <3>2, <3>3, MovesOn
  <2>5. CASE m.call # c
    <3>1. CallKept(c, Nowhere)
      BY <1>2, <2>2, <2>5 DEF CallKept, TypeOK
    <3>. QED
      BY <1>4, <1>5, <2>1, <3>1, Undisturbed DEF Spares
  <2>. QED
    BY <2>4, <2>5
<1>11. CASE HandleAnswer(s)
  <2>1. \A l : WireKept(s, c, l)
    BY <1>11 DEF HandleAnswer, WireKept
  <2>2. \/ rpcQueue' = rpcQueue
        \/ rpcQueue' = [rpcQueue EXCEPT ![m.call] = Append(@, m.body)]
    BY <1>11 DEF HandleAnswer
  <2>3. UNCHANGED <<task, forwarder, answering>>
    BY <1>11 DEF HandleAnswer
  <2>4. CASE rpcQueue' = rpcQueue
    <3>1. CallKept(c, Nowhere)
      BY <2>3, <2>4 DEF CallKept
    <3>. QED
      BY <1>4, <1>5, <2>1, <3>1, Undisturbed DEF Spares
  <2>5. CASE rpcQueue' = [rpcQueue EXCEPT ![m.call] = Append(@, m.body)] /\ m.call = c
    <3>1. CallKept(c, InQueue)
      BY <2>3 DEF CallKept
    <3>2. Spares(s, c, InQueue)
      BY <1>5, <2>1, <3>1 DEF Spares
    <3>3. rpcQueue'[c] = Append(rpcQueue[c], m.body)
      BY <2>5 DEF TypeOK
    <3>4. LostAt(MailOf(s), c) /\ GainedAt(InQueue, c)
      BY <1>6, <2>5, <3>3, Gained
    <3>. QED
      BY <1>3, <1>4, <3>2, <3>4, MovesOn
  <2>6. CASE rpcQueue' = [rpcQueue EXCEPT ![m.call] = Append(@, m.body)] /\ m.call # c
    <3>1. CallKept(c, Nowhere)
      BY <2>3, <2>6 DEF CallKept, TypeOK
    <3>. QED
      BY <1>4, <1>5, <2>1, <3>1, Undisturbed DEF Spares
  <2>. QED
    BY <2>2, <2>4, <2>5, <2>6
<1>. QED
  BY <1>7, <1>8, <1>9, <1>10, <1>11

(* The receive loop hands on what comes from the wire.                     *)
LEMMA ReadMoves ==
  ASSUME TypeOK, NEW s \in Side, ReceiveLoopReads(s), NEW c \in Call
  PROVE  StaysOnce(c)
<1>1. MailOf(s) \in Place /\ WireOf(s) \in Place /\ MailOf(s) # WireOf(s)
  BY Places
<1>2. PICK f : f = Head(wire[s])
  OBVIOUS
<1>3. Cast(s, f) /\ wire[s] # <<>> /\ wire' = [wire EXCEPT ![s] = Tail(@)]
  BY <1>2 DEF ReceiveLoopReads, Cast
<1>4. Keeps(c) /\ \A l : CallKept(c, l) /\ WireKept(s, c, l)
  BY <1>3 DEF ReceiveLoopReads, Keeps, CallKept, WireKept
<1>5. CASE Carries(f, c)
  <2>1. LostAt(WireOf(s), c)
    BY <1>2, <1>3, <1>5, Lost
  <2>2. GainedAt(MailOf(s), c)
    BY <1>3, Gained
  <2>3. Spares(s, c, MailOf(s))
    BY <1>3, <1>4 DEF Spares, MailKept
  <2>. QED
    BY <1>1, <1>4, <2>1, <2>2, <2>3, MovesOn
<1>6. CASE ~Carries(f, c)
  <2>1. Spares(s, c, Nowhere)
    BY <1>3, <1>4, <1>6 DEF Spares, MailKept
  <2>. QED
    BY <1>4, <2>1, Undisturbed
<1>. QED
  BY <1>5, <1>6

(* The RpcProxyActor uses its port and stops: the call is gone.            *)
LEMMA ProxyHandles ==
  ASSUME TypeOK, NEW d \in Call, RpcProxyHandles(d), NEW c \in Call
  PROVE  StaysOnce(c)
<1>1. "a" \in Side /\ InQueue \in Place
  BY Places DEF Side, CallPlaces
<1>2. \A l : MailKept("a", c, l) /\ WireKept("a", c, l)
  BY DEF RpcProxyHandles, MailKept, WireKept
<1>3. caller[c] # "idle" => caller'[c] # "idle"
  BY DEF RpcProxyHandles, TypeOK
<1>4. CASE c = d
  <2>1. rpcQueue[c] # <<>> /\ rpcQueue'[c] = <<>>
    BY <1>4 DEF RpcProxyHandles, TypeOK
  <2>2. LostAt(InQueue, c)
    BY <1>1, <2>1, Lost
  <2>3. Spares("a", c, InQueue)
    BY <1>2 DEF RpcProxyHandles, Spares, CallKept
  <2>4. FewerBut(InQueue, c)
    BY <1>1, <2>3, Spared
  <2>. QED
    BY <1>1, <1>3, <2>2, <2>4 DEF StaysOnce
<1>5. CASE c # d
  <2>1. CallKept(c, Nowhere) /\ Keeps(c)
    BY <1>3, <1>5 DEF RpcProxyHandles, CallKept, Keeps, TypeOK
  <2>. QED
    BY <1>1, <1>2, <2>1, Undisturbed DEF Spares
<1>. QED
  BY <1>4, <1>5

(* No step doubles a call.                                                 *)
LEMMA NextCopies ==
  ASSUME TypeOK, OneCopy, CallsAreSound, [Next]_vars
  PROVE  OneCopy'
<1>. SUFFICES ASSUME NEW c \in Call
              PROVE  StaysOnce(c)
  BY CopyKept
<1>0. "a" \in Side
  BY DEF Side
<1>1. CASE UNCHANGED vars
  BY <1>0, <1>1, Undisturbed DEF vars, Spares, MailKept, WireKept, CallKept, Keeps
<1>2. ASSUME NEW s \in Side, PortalStep(s)
      PROVE  StaysOnce(c)
  <2>1. CASE AnswerFails(s) \/ HandleClose(s)
             \/ \E type \in {"TransmitMessage", "LocalActorExited"} : WriteFails(s, type)
    BY <2>1, GoesDownSpares DEF AnswerFails, HandleClose, WriteFails
  <2>. QED
    BY <1>2, <2>1, HandlersMove, BookkeepingSpares DEF PortalStep
<1>3. ASSUME NEW s \in Side, AppStopsPortal(s)
      PROVE  StaysOnce(c)
  BY <1>3, GoesDownSpares DEF AppStopsPortal
<1>4. ASSUME NEW d \in Call, TaskStep(d)
      PROVE  StaysOnce(c)
  BY <1>0, <1>4, TasksMove, OthersSpare DEF TaskStep
<1>. QED
  BY <1>0, <1>1, <1>2, <1>3, <1>4, AskMoves, ReadMoves, ProxyHandles, OthersSpare DEF Next, Step
-----------------------------------------------------------------------------
(* What is known of a message and of a call after a step. *)
SoundNext(e) ==
  e.type \in CallTypes =>
    IF e.type = "PublishActor" \/ e.body = Request
    THEN /\ port'[e.call] = "none"
         /\ e.type = "ImmaterializeMessage" <=> rpcActor'[e.call] = "none"
    ELSE e.body = given'[e.call]
CallSoundNext(c) ==
  /\ caller'[c] = "idle" => rpcActor'[c] = "none"
  /\ task'[c] = "started" => rpcActor'[c] = "none" /\ port'[c] = "none"
  /\ task'[c] = "published" => rpcActor'[c] # "none" /\ port'[c] = "none"
  /\ port'[c] # "none" => rpcActor'[c] # "none"
  /\ port'[c] = "held" => forwarder'[c] = "waiting"
  /\ port'[c] = "used" <=> given'[c] # None
  /\ answering'[c] # None => answering'[c] = given'[c]
  /\ \A i \in DOMAIN rpcQueue'[c] : rpcQueue'[c][i] = given'[c]

(* What is sound after a step, message by message and call by call. *)
LEMMA NextSound ==
  /\ (\A c \in Call : CallSoundNext(c)) => CallsAreSound'
  /\ (\A s \in Side : /\ \A i \in DOMAIN mailbox'[s] : SoundNext(mailbox'[s][i])
                      /\ \A i \in DOMAIN wire'[s] : SoundNext(wire'[s][i])) => MessagesAreSound'
<1>1. (\A c \in Call : CallSoundNext(c)) => CallsAreSound'
  BY DEF CallsAreSound, CallIsSound, CallSoundNext
<1>2. (\A s \in Side : /\ \A i \in DOMAIN mailbox'[s] : SoundNext(mailbox'[s][i])
                       /\ \A i \in DOMAIN wire'[s] : SoundNext(wire'[s][i])) => MessagesAreSound'
  BY DEF MessagesAreSound, MessageIsSound, SoundNext
<1>. QED
  BY <1>1, <1>2

(* A call that is in one place is in no other. *)
LEMMA OnlyThere ==
  ASSUME OneCopy, NEW c \in Call, NEW l \in Place, Copies(l, c) # {}
  PROVE  /\ \A s \in Side : /\ l = MailOf(s) \/ Carriers(mailbox[s], c) = {}
                            /\ l = WireOf(s) \/ Carriers(wire[s], c) = {}
         /\ \A s \in Side : AtMostOne(Carriers(mailbox[s], c))
         /\ l = InTask \/ task[c] \notin {"started", "published"}
         /\ caller[c] # "idle" /\ rpcActor[c] # "stopped"
<1>1. /\ \A j \in Place : j = l \/ Copies(j, c) = {}
      /\ \A j \in Place : AtMostOne(Copies(j, c))
      /\ caller[c] # "idle" /\ rpcActor[c] # "stopped"
  BY DEF OneCopy
<1>2. /\ \A s \in Side : MailOf(s) \in Place /\ WireOf(s) \in Place
      /\ InTask \in Place
  BY Places DEF CallPlaces
<1>. QED
  BY <1>1, <1>2, PlaceHolds

(* What is known of a message depends on its own call only. *)
FactsKept(c) ==
  /\ port'[c] = port[c] /\ given'[c] = given[c]
  /\ rpcActor'[c] = "none" <=> rpcActor[c] = "none"

(* What is known of a message stays, when its call is not the one that     *)
(* changes.                                                                *)
LEMMA SoundBut ==
  ASSUME TypeOK, MessagesAreSound, NEW c, \A d \in Call : d = c \/ FactsKept(d), NEW s \in Side
  PROVE  /\ \A i \in DOMAIN mailbox[s] : Carries(mailbox[s][i], c) \/ SoundNext(mailbox[s][i])
         /\ \A i \in DOMAIN wire[s] : Carries(wire[s][i], c) \/ SoundNext(wire[s][i])
<1>1. ASSUME NEW e \in Message, MessageIsSound(e), ~Carries(e, c)
      PROVE  SoundNext(e)
  <2>1. e.type \in CallTypes => e.call \in Call /\ e.call # c
    BY <1>1, MessageShapes DEF Carries, CallTypes
  <2>. QED
    BY <1>1, <2>1 DEF MessageIsSound, SoundNext, FactsKept
<1>2. /\ \A i \in DOMAIN mailbox[s] : mailbox[s][i] \in Message
      /\ \A i \in DOMAIN wire[s] : wire[s][i] \in Message
  BY EachElement DEF TypeOK, Message
<1>. QED
  BY <1>1, <1>2 DEF MessagesAreSound

(* Messages stay sound when the new ones are, and the old ones that stay.  *)
StillSound(s) == \A i \in DOMAIN mailbox[s] : SoundNext(mailbox[s][i])
TailSound(s) == \A i \in DOMAIN mailbox[s] : i # 1 => SoundNext(mailbox[s][i])
MailSound(s) ==
  \/ (UNCHANGED mailbox \/ mailbox' = [mailbox EXCEPT ![s] = <<>>]) /\ StillSound(s)
  \/ mailbox[s] # <<>> /\ Done(s) /\ TailSound(s)
  \/ \E e : /\ SoundNext(e)
            /\ \/ Cast(s, e) /\ StillSound(s)
               \/ /\ mailbox[s] # <<>> /\ TailSound(s)
                  /\ mailbox' = [mailbox EXCEPT ![s] = Append(Tail(@), e)]
WireSound(s) ==
  /\ \A r \in Side : \A i \in DOMAIN wire[r] : SoundNext(wire[r][i])
  /\ \/ UNCHANGED wire
     \/ wire' = [wire EXCEPT ![s] = <<>>]
     \/ wire[s] # <<>> /\ wire' = [wire EXCEPT ![s] = Tail(@)]
     \/ \E f : SoundNext(f) /\ Writes(s, f)

(* A mailbox whose new message is sound is sound. *)
LEMMA MailStaysSound ==
  ASSUME TypeOK, NEW s \in Side, MailSound(s), NEW r \in Side, r = s \/ StillSound(r)
  PROVE  \A i \in DOMAIN mailbox'[r] : SoundNext(mailbox'[r][i])
<1>1. mailbox \in [Side -> Seq(Message)] /\ mailbox[r] \in Seq(Message)
  BY DEF TypeOK
<1>2. CASE mailbox'[r] = mailbox[r] /\ StillSound(r)
  BY <1>2 DEF StillSound
<1>3. r # s => mailbox'[r] = mailbox[r] /\ StillSound(r)
  BY <1>1 DEF MailSound, Done, Cast
<1>4. CASE r = s /\ mailbox' = [mailbox EXCEPT ![s] = <<>>]
  <2>1. DOMAIN mailbox'[r] = {}
    BY <1>1, <1>4, NoElements
  <2>. QED
    BY <2>1
<1>5. ASSUME mailbox[r] # <<>>, TailSound(r)
      PROVE  \A i \in DOMAIN Tail(mailbox[r]) : SoundNext(Tail(mailbox[r])[i])
  <2>1. \A i \in DOMAIN Tail(mailbox[r]) :
          i + 1 \in DOMAIN mailbox[r] /\ i + 1 # 1 /\ Tail(mailbox[r])[i] = mailbox[r][i + 1]
    BY <1>1, <1>5, TailElements
  <2>. QED
    BY <1>5, <2>1 DEF TailSound
<1>6. CASE r = s /\ mailbox[s] # <<>> /\ Done(s) /\ TailSound(s)
  <2>1. mailbox'[r] = Tail(mailbox[r])
    BY <1>1, <1>6 DEF Done
  <2>. QED
    BY <1>5, <1>6, <2>1
<1>7. ASSUME NEW q \in Seq(Message), NEW e, SoundNext(e), \A i \in DOMAIN q : SoundNext(q[i])
      PROVE  \A i \in DOMAIN Append(q, e) : SoundNext(Append(q, e)[i])
  <2>1. /\ DOMAIN Append(q, e) = DOMAIN q \cup {Len(q) + 1}
        /\ \A i \in DOMAIN q : Append(q, e)[i] = q[i]
        /\ Append(q, e)[Len(q) + 1] = e
    BY AppendPositions
  <2>. QED
    BY <1>7, <2>1
<1>8. ASSUME r = s, NEW e, SoundNext(e), Cast(s, e), StillSound(s)
      PROVE  \A i \in DOMAIN mailbox'[r] : SoundNext(mailbox'[r][i])
  <2>1. mailbox'[r] = mailbox[r] \/ mailbox'[r] = Append(mailbox[r], e)
    BY <1>1, <1>8 DEF Cast
  <2>2. \A i \in DOMAIN mailbox[r] : SoundNext(mailbox[r][i])
    BY <1>8 DEF StillSound
  <2>3. \A i \in DOMAIN Append(mailbox[r], e) : SoundNext(Append(mailbox[r], e)[i])
    BY <1>1, <1>7, <1>8, <2>2
  <2>. QED
    BY <2>1, <2>2, <2>3
<1>9. ASSUME r = s, NEW e, SoundNext(e), mailbox[s] # <<>>, TailSound(s),
             mailbox' = [mailbox EXCEPT ![s] = Append(Tail(@), e)]
      PROVE  \A i \in DOMAIN mailbox'[r] : SoundNext(mailbox'[r][i])
  <2>1. PICK q : q = Tail(mailbox[r])
    OBVIOUS
  <2>2. q \in Seq(Message) /\ mailbox'[r] = Append(q, e)
    BY <1>1, <1>9, <2>1, TailElements
  <2>3. \A i \in DOMAIN q : SoundNext(q[i])
    BY <1>5, <1>9, <2>1
  <2>. QED
    BY <1>7, <1>9, <2>2, <2>3
<1>. QED
  BY <1>2, <1>3, <1>4, <1>6, <1>8, <1>9 DEF MailSound

(* A wire whose new frame is sound is sound. *)
LEMMA WireStaysSound ==
  ASSUME TypeOK, NEW s \in Side, WireSound(s), NEW r \in Side
  PROVE  \A i \in DOMAIN wire'[r] : SoundNext(wire'[r][i])
<1>1. wire \in [Side -> Seq(Frame)] /\ wire[r] \in Seq(Frame) /\ Peer(s) \in Side
  BY PeerFacts DEF TypeOK
<1>2. \A i \in DOMAIN wire[r] : SoundNext(wire[r][i])
  BY DEF WireSound
<1>3. CASE wire'[r] = wire[r]
  BY <1>2, <1>3
<1>4. CASE wire'[r] = <<>>
  BY <1>4, NoElements
<1>5. CASE wire[r] # <<>> /\ wire'[r] = Tail(wire[r])
  <2>1. \A i \in DOMAIN Tail(wire[r]) :
          i + 1 \in DOMAIN wire[r] /\ Tail(wire[r])[i] = wire[r][i + 1]
    BY <1>1, <1>5, TailElements
  <2>. QED
    BY <1>2, <1>5, <2>1
<1>6. ASSUME NEW f, SoundNext(f), wire'[r] = Append(wire[r], f)
      PROVE  \A i \in DOMAIN wire'[r] : SoundNext(wire'[r][i])
  <2>1. PICK q \in Seq(Frame) : q = wire[r]
    BY <1>1
  <2>2. /\ DOMAIN Append(q, f) = DOMAIN q \cup {Len(q) + 1}
        /\ \A i \in DOMAIN q : Append(q, f)[i] = q[i]
        /\ Append(q, f)[Len(q) + 1] = f
    BY AppendPositions
  <2>. QED
    BY <1>2, <1>6, <2>1, <2>2
<1>7. ASSUME NEW f, Writes(s, f)
      PROVE  wire'[r] = wire[r] \/ wire'[r] = Append(wire[r], f)
  BY <1>1, <1>7 DEF Writes
<1>8. CASE wire' = [wire EXCEPT ![s] = <<>>]
  <2>1. wire'[r] = wire[r] \/ wire'[r] = <<>>
    BY <1>1, <1>8
  <2>. QED
    BY <1>3, <1>4, <2>1
<1>9. CASE wire[s] # <<>> /\ wire' = [wire EXCEPT ![s] = Tail(@)]
  <2>1. r # s => wire'[r] = wire[r]
    BY <1>1, <1>9
  <2>2. r = s => wire'[r] = Tail(wire[r]) /\ wire[r] # <<>>
    BY <1>1, <1>9
  <2>. QED
    BY <1>3, <1>5, <2>1, <2>2
<1>. QED
  BY <1>3, <1>6, <1>7, <1>8, <1>9 DEF WireSound

(* So all messages are sound after such a step. *)
LEMMA StaySound ==
  ASSUME TypeOK, NEW s \in Side, MailSound(s), WireSound(s), \A r \in Side : r = s \/ StillSound(r)
  PROVE  MessagesAreSound'
BY MailStaysSound, WireStaysSound, NextSound

(* Steps that change nothing a message depends on leave every message      *)
(* that was there sound.                                                   *)
LEMMA AllStillSound ==
  ASSUME TypeOK, MessagesAreSound, \A d \in Call : FactsKept(d)
  PROVE  /\ \A s \in Side : StillSound(s) /\ TailSound(s)
         /\ \A r \in Side : \A i \in DOMAIN wire[r] : SoundNext(wire[r][i])
<1>1. ASSUME NEW e \in Message, MessageIsSound(e)
      PROVE  SoundNext(e)
  <2>1. e.type \in CallTypes => e.call \in Call
    BY MessageShapes DEF CallTypes
  <2>. QED
    BY <1>1, <2>1 DEF MessageIsSound, SoundNext, FactsKept
<1>2. \A s \in Side : /\ \A i \in DOMAIN mailbox[s] : mailbox[s][i] \in Message
                      /\ \A i \in DOMAIN wire[s] : wire[s][i] \in Message
  BY EachElement DEF TypeOK, Message
<1>. QED
  BY <1>1, <1>2 DEF MessagesAreSound, StillSound, TailSound

(* A call that is only taken on, or given up, stays sound. *)
LEMMA CallKeptSound ==
  ASSUME CallsAreSound, NEW c \in Call, FactsKept(c),
         caller'[c] = "idle" => caller[c] = "idle",
         task'[c] \in {"started", "published"} => task'[c] = task[c],
         port'[c] = "held" => forwarder'[c] = forwarder[c],
         answering'[c] = answering[c] \/ answering'[c] = None,
         rpcQueue'[c] = rpcQueue[c] \/ rpcQueue'[c] = <<>>
  PROVE  CallSoundNext(c)
<1>1. CallIsSound(c)
  BY DEF CallsAreSound
<1>2. \A i \in DOMAIN rpcQueue'[c] : rpcQueue'[c][i] = given'[c]
  BY <1>1, NoElements DEF CallIsSound, FactsKept
<1>3. /\ caller'[c] = "idle" => rpcActor'[c] = "none"
      /\ task'[c] = "started" => rpcActor'[c] = "none" /\ port'[c] = "none"
      /\ task'[c] = "published" => rpcActor'[c] # "none" /\ port'[c] = "none"
      /\ port'[c] # "none" => rpcActor'[c] # "none"
  BY <1>1 DEF CallIsSound, FactsKept
<1>4. /\ port'[c] = "held" => forwarder'[c] = "waiting"
      /\ port'[c] = "used" <=> given'[c] # None
      /\ answering'[c] # None => answering'[c] = given'[c]
  BY <1>1 DEF CallIsSound, FactsKept
<1>. QED
  BY <1>2, <1>3, <1>4 DEF CallSoundNext

(* The end of a portal. *)
LEMMA GoesDownSound ==
  ASSUME TypeOK, MessagesAreSound, CallsAreSound, NEW s \in Side, NEW how, GoesDown(s, how),
         UNCHANGED <<wire, rpcQueue, port, given, forwarder, answering>>
  PROVE  MessagesAreSound' /\ CallsAreSound'
<1>1. \A c \in Call : FactsKept(c)
  BY DEF GoesDown, Running, FactsKept, TypeOK
<1>2. MailSound(s) /\ WireSound(s) /\ \A r \in Side : StillSound(r)
  BY <1>1, AllStillSound DEF GoesDown, MailSound, WireSound
<1>3. ASSUME NEW c \in Call
      PROVE  CallSoundNext(c)
  <2>1. /\ caller'[c] = "idle" => caller[c] = "idle"
        /\ task'[c] \in {"started", "published"} => task'[c] = task[c]
    BY DEF GoesDown, Refused, TypeOK
  <2>. QED
    BY <1>1, <2>1, CallKeptSound
<1>. QED
  BY <1>2, <1>3, StaySound, NextSound

(* What carries no call says nothing of one. *)
LEMMA BystandersSound ==
  ASSUME NEW e, e.type \in {"RegisterProxyForRemoteActor", "LocalActorExited", "ActorExited", "Close"}
  PROVE  SoundNext(e)
BY DEF SoundNext, CallTypes

(* The steps of a portal that carry no call, and the receive loop. *)
LEMMA BookkeepingSound ==
  ASSUME TypeOK, MessagesAreSound, CallsAreSound, NEW s \in Side,
         \/ HandleRegisterProxy(s) \/ HandleLocalActorExited(s) \/ HandleActorExited(s)
         \/ ReceiveLoopEnds(s) \/ ReceiveLoopReads(s) \/ LinkBreaks
  PROVE  MessagesAreSound' /\ CallsAreSound'
<1>1. UNCHANGED <<homeVars, port, given, forwarder, answering>>
  BY DEF HandleRegisterProxy, HandleLocalActorExited, HandleActorExited, ReceiveLoopEnds,
         ReceiveLoopReads, LinkBreaks
<1>2. \A c \in Call : FactsKept(c) /\ CallSoundNext(c)
  <2>1. \A c \in Call : FactsKept(c)
    BY <1>1 DEF FactsKept
  <2>. QED
    BY <1>1, <2>1, CallKeptSound
<1>3. /\ \A r \in Side : StillSound(r) /\ TailSound(r)
      /\ \A r \in Side : \A i \in DOMAIN wire[r] : SoundNext(wire[r][i])
  BY <1>2, AllStillSound
<1>4. MailSound(s)
  <2>1. CASE ReceiveLoopEnds(s)
    <3>1. PICK e : e = [type |-> "Close"]
      OBVIOUS
    <3>2. Cast(s, e) /\ SoundNext(e)
      BY <2>1, <3>1, BystandersSound DEF ReceiveLoopEnds
    <3>. QED
      BY <1>3, <3>2 DEF MailSound
  <2>2. CASE ReceiveLoopReads(s)
    <3>1. PICK f : f = Head(wire[s])
      OBVIOUS
    <3>2. Cast(s, f)
      BY <2>2, <3>1 DEF ReceiveLoopReads, Cast
    <3>3. wire[s] \in Seq(Frame) /\ wire[s] # <<>>
      BY <2>2 DEF ReceiveLoopReads, TypeOK
    <3>4. 1 \in DOMAIN wire[s] /\ f = wire[s][1]
      BY <3>1, <3>3, TailElements
    <3>. QED
      BY <1>3, <3>2, <3>4 DEF MailSound
  <2>3. CASE LinkBreaks
    BY <1>3, <2>3 DEF MailSound, LinkBreaks
  <2>4. CASE HandleRegisterProxy(s) \/ HandleLocalActorExited(s) \/ HandleActorExited(s)
    BY <1>3, <2>4
    DEF HandleRegisterProxy, HandleLocalActorExited, HandleActorExited, Takes, MailSound
  <2>. QED
    BY <2>1, <2>2, <2>3, <2>4
<1>5. WireSound(s)
  <2>1. CASE HandleLocalActorExited(s)
    <3>1. PICK f : f = [type |-> "ActorExited", call |-> Head(mailbox[s]).call]
      OBVIOUS
    <3>2. Writes(s, f) /\ SoundNext(f)
      BY <2>1, <3>1, BystandersSound DEF HandleLocalActorExited
    <3>. QED
      BY <1>3, <3>2 DEF WireSound
  <2>2. CASE ~HandleLocalActorExited(s)
    BY <1>3, <2>2
    DEF HandleRegisterProxy, HandleActorExited, ReceiveLoopEnds, ReceiveLoopReads, LinkBreaks,
        WireSound
  <2>. QED
    BY <2>1, <2>2
<1>. QED
  BY <1>2, <1>3, <1>4, <1>5, StaySound, NextSound

(* A caller asks, or gives up; the RpcProxyActor ends, and is watched.      *)
LEMMA HomeSound ==
  ASSUME TypeOK, MessagesAreSound, CallsAreSound, NEW d \in Call,
         \/ CallerAsks(d) \/ CallerTimesOut(d) \/ RpcProxyHandles(d) \/ KillAfter(d)
         \/ WatcherReports(d)
  PROVE  MessagesAreSound' /\ CallsAreSound'
<1>0. Home[d] \in Side
  BY HomeTyped
<1>1. /\ UNCHANGED <<wire, task, port, given, forwarder, answering>>
      /\ \A c \in Call : rpcQueue'[c] = rpcQueue[c] \/ rpcQueue'[c] = <<>>
      /\ \A c \in Call : caller'[c] = "idle" => caller[c] = "idle"
      /\ \A c \in Call : rpcActor'[c] = "none" <=> rpcActor[c] = "none"
  <2>1. CASE CallerAsks(d) \/ CallerTimesOut(d) \/ WatcherReports(d)
    BY <2>1 DEF CallerAsks, CallerTimesOut, WatcherReports, TypeOK
  <2>2. CASE RpcProxyHandles(d)
    BY <2>2 DEF RpcProxyHandles, TypeOK
  <2>3. CASE KillAfter(d)
    BY <2>3 DEF KillAfter, Refused, TypeOK
  <2>. QED
    BY <2>1, <2>2, <2>3
<1>2. \A c \in Call : FactsKept(c) /\ CallSoundNext(c)
  <2>1. \A c \in Call : FactsKept(c)
    BY <1>1 DEF FactsKept
  <2>. QED
    BY <1>1, <2>1, CallKeptSound
<1>3. /\ \A r \in Side : StillSound(r) /\ TailSound(r)
      /\ \A r \in Side : WireSound(r)
  BY <1>1, <1>2, AllStillSound DEF WireSound
<1>4. MailSound(Home[d])
  <2>1. CASE CallerAsks(d)
    <3>1. PICK e : e = [type |-> "ImmaterializeMessage", call |-> d, body |-> Request]
      OBVIOUS
    <3>2. Cast(Home[d], e)
      BY <2>1, <3>1 DEF CallerAsks
    <3>3. rpcActor'[d] = "none" /\ port'[d] = "none"
      BY <2>1 DEF CallerAsks, CallsAreSound, CallIsSound
    <3>4. SoundNext(e)
      BY <3>1, <3>3 DEF SoundNext
    <3>. QED
      BY <1>0, <1>3, <3>2, <3>4 DEF MailSound
  <2>2. CASE WatcherReports(d)
    <3>1. PICK e : e = [type |-> "LocalActorExited", call |-> d]
      OBVIOUS
    <3>2. Cast(Home[d], e) /\ SoundNext(e)
      BY <2>2, <3>1, BystandersSound DEF WatcherReports
    <3>. QED
      BY <1>0, <1>3, <3>2 DEF MailSound
  <2>3. CASE CallerTimesOut(d) \/ RpcProxyHandles(d) \/ KillAfter(d)
    BY <1>0, <1>3, <2>3 DEF CallerTimesOut, RpcProxyHandles, KillAfter, MailSound
  <2>. QED
    BY <2>1, <2>2, <2>3
<1>. QED
  BY <1>0, <1>2, <1>3, <1>4, StaySound, NextSound

(* What a task or a forwarder sends says of the call what holds of it.     *)
LEMMA SendersSound ==
  ASSUME TypeOK, MessagesAreSound, CallsAreSound, NEW d \in Call,
         \/ TaskTransmits(d) \/ ForwarderForwards(d) \/ ForwarderEnds(d) \/ AnswerTransmits(d)
  PROVE  MessagesAreSound' /\ CallsAreSound'
<1>0. Home[d] \in Side /\ Peer(Home[d]) \in Side
  BY HomeTyped, PeerFacts
<1>1. /\ UNCHANGED <<wire, caller, rpcActor, rpcQueue, port, given>>
      /\ \A c \in Call : task'[c] \in {"started", "published"} => task'[c] = task[c]
      /\ \A c \in Call : port[c] = "held" => forwarder'[c] = forwarder[c]
      /\ \A c \in Call : answering'[c] = answering[c] \/ answering'[c] = None
  <2>1. CASE TaskTransmits(d)
    BY <2>1 DEF TaskTransmits, TypeOK
  <2>2. CASE ForwarderForwards(d)
    <3>1. port[d] = "used" /\ \E x : forwarder' = [forwarder EXCEPT ![d] = x]
      BY <2>2 DEF ForwarderForwards, Forwarded, Received
    <3>. QED
      BY <2>2, <3>1 DEF ForwarderForwards, TypeOK
  <2>3. CASE ForwarderEnds(d)
    BY <2>3 DEF ForwarderEnds, TypeOK
  <2>4. CASE AnswerTransmits(d)
    BY <2>4 DEF AnswerTransmits, TypeOK
  <2>. QED
    BY <2>1, <2>2, <2>3, <2>4
<1>2. \A c \in Call : FactsKept(c) /\ CallSoundNext(c)
  <2>1. \A c \in Call : FactsKept(c)
    BY <1>1 DEF FactsKept
  <2>. QED
    BY <1>1, <2>1, CallKeptSound
<1>3. /\ \A r \in Side : StillSound(r) /\ TailSound(r)
      /\ \A r \in Side : WireSound(r)
  BY <1>1, <1>2, AllStillSound DEF WireSound
<1>4. CallIsSound(d) /\ UNCHANGED <<port, rpcActor, given>>
  BY <1>1 DEF CallsAreSound
<1>5. \E s \in Side : MailSound(s)
  <2>1. CASE TaskTransmits(d)
    <3>1. PICK e : e = [type |-> "TransmitMessage", call |-> d, body |-> Request]
      OBVIOUS
    <3>2. Cast(Home[d], e)
      BY <2>1, <3>1 DEF TaskTransmits
    <3>3. port'[d] = "none" /\ rpcActor'[d] # "none"
      BY <1>4, <2>1 DEF TaskTransmits, CallIsSound
    <3>4. SoundNext(e)
      BY <3>1, <3>3 DEF SoundNext
    <3>. QED
      BY <1>0, <1>3, <3>2, <3>4 DEF MailSound
  <2>2. CASE ForwarderForwards(d)
    <3>1. PICK e : e = [type |-> "ImmaterializeMessage", call |-> d, body |-> given[d]]
      OBVIOUS
    <3>2. Cast(Peer(Home[d]), e) \/ UNCHANGED mailbox
      BY <2>2, <3>1 DEF ForwarderForwards, ReturnAddress
    <3>3. given[d] \in Value
      BY <1>4, <2>2 DEF ForwarderForwards, Received, CallIsSound, TypeOK
    <3>4. given[d] # Request
      BY <3>3, ReplyPortAssumption
    <3>5. SoundNext(e)
      BY <1>4, <3>1, <3>4 DEF SoundNext
    <3>. QED
      BY <1>0, <1>3, <3>2, <3>5 DEF MailSound
  <2>3. CASE ForwarderEnds(d)
    BY <1>0, <1>3, <2>3 DEF ForwarderEnds, MailSound
  <2>4. CASE AnswerTransmits(d)
    <3>1. PICK e : e = [type |-> "TransmitMessage", call |-> d, body |-> answering[d]]
      OBVIOUS
    <3>2. Cast(Peer(Home[d]), e)
      BY <2>4, <3>1 DEF AnswerTransmits
    <3>3. answering[d] = given[d] /\ answering[d] \in Value
      BY <1>4, <2>4 DEF AnswerTransmits, CallIsSound, TypeOK
    <3>4. answering[d] # Request
      BY <3>3, ReplyPortAssumption
    <3>5. SoundNext(e)
      BY <1>4, <3>1, <3>3, <3>4 DEF SoundNext
    <3>. QED
      BY <1>0, <1>3, <3>2, <3>5 DEF MailSound
  <2>. QED
    BY <2>1, <2>2, <2>3, <2>4
<1>. QED
  BY <1>2, <1>3, <1>5, StaySound, NextSound

(* What a portal takes is sound, so is what it makes of it. *)
LEMMA HandlersSound ==
  ASSUME TypeOK, MessagesAreSound, CallsAreSound, NEW s \in Side,
         \/ HandleImmaterializeMessage(s) \/ HandlePublishActor(s) \/ HandleTransmitMessage(s)
         \/ HandleAnswer(s)
  PROVE  MessagesAreSound' /\ CallsAreSound'
<1>. DEFINE m == Head(mailbox[s])
<1>0. mailbox[s] # <<>> /\ m \in Message /\ m.type \in CallTypes /\ MessageIsSound(m)
  BY HeadTyped
  DEF HandleImmaterializeMessage, HandlePublishActor, HandleTransmitMessage, HandleAnswer, Takes,
      CallTypes, MessagesAreSound
<1>1. m.call \in Call
  BY <1>0, MessageShapes DEF CallTypes
<1>2. UNCHANGED <<caller, rpcActor, port, given, forwarder>>
  BY DEF HandleImmaterializeMessage, HandlePublishActor, HandleTransmitMessage, HandleAnswer
<1>3. \A c \in Call : FactsKept(c)
  BY <1>2 DEF FactsKept
<1>4. /\ \A r \in Side : StillSound(r) /\ TailSound(r)
      /\ \A r \in Side : \A i \in DOMAIN wire[r] : SoundNext(wire[r][i])
  BY <1>3, AllStillSound
<1>5. MailSound(s)
  BY <1>0, <1>4
  DEF HandleImmaterializeMessage, HandlePublishActor, HandleTransmitMessage, HandleAnswer, MailSound
<1>6. CASE HandleImmaterializeMessage(s)
  <2>1. WireSound(s)
    BY <1>4, <1>6 DEF HandleImmaterializeMessage, WireSound
  <2>2. ASSUME NEW c \in Call
        PROVE  CallSoundNext(c)
    <3>1. UNCHANGED rpcQueue /\ CallIsSound(c) /\ m.type = "ImmaterializeMessage"
      BY <1>6 DEF HandleImmaterializeMessage, Takes, CallsAreSound
    <3>2. CASE m.body = Request
      <4>1. task' = [task EXCEPT ![m.call] = "started"] /\ UNCHANGED answering
        BY <1>6, <3>2 DEF HandleImmaterializeMessage
      <4>2. CASE c = m.call
        <5>1. port[c] = "none" /\ rpcActor[c] = "none" /\ task'[c] = "started"
          BY <1>0, <1>1, <3>1, <3>2, <4>1, <4>2 DEF MessageIsSound, TypeOK
        <5>. QED
          BY <1>2, <3>1, <4>1, <5>1 DEF CallIsSound, CallSoundNext
      <4>3. CASE c # m.call
        <5>1. task'[c] = task[c]
          BY <1>1, <4>1, <4>3 DEF TypeOK
        <5>. QED
          BY <1>2, <1>3, <3>1, <4>1, <5>1, CallKeptSound
      <4>. QED
        BY <4>2, <4>3
    <3>3. CASE m.body # Request
      <4>1. answering' = [answering EXCEPT ![m.call] = m.body] /\ UNCHANGED task
        BY <1>6, <3>3 DEF HandleImmaterializeMessage
      <4>2. CASE c = m.call
        <5>1. answering'[c] = given[c]
          BY <1>0, <1>1, <3>1, <3>3, <4>1, <4>2 DEF MessageIsSound, TypeOK
        <5>. QED
          BY <1>2, <3>1, <4>1, <5>1 DEF CallIsSound, CallSoundNext
      <4>3. CASE c # m.call
        <5>1. answering'[c] = answering[c]
          BY <1>1, <4>1, <4>3 DEF TypeOK
        <5>. QED
          BY <1>2, <1>3, <3>1, <4>1, <5>1, CallKeptSound
      <4>. QED
        BY <4>2, <4>3
    <3>. QED
      BY <3>2, <3>3
  <2>. QED
    BY <1>4, <1>5, <2>1, <2>2, StaySound, NextSound
<1>7. CASE HandlePublishActor(s)
  <2>1. WireSound(s)
    BY <1>4, <1>7 DEF HandlePublishActor, WireSound
  <2>2. ASSUME NEW c \in Call
        PROVE  CallSoundNext(c)
    <3>1. /\ UNCHANGED <<rpcQueue, answering>> /\ CallIsSound(c) /\ m.type = "PublishActor"
          /\ task' = [task EXCEPT ![m.call] = "published"]
      BY <1>7 DEF HandlePublishActor, Takes, CallsAreSound
    <3>2. CASE c = m.call
      <4>1. port[c] = "none" /\ rpcActor[c] # "none" /\ task'[c] = "published"
        BY <1>0, <1>1, <3>1, <3>2 DEF MessageIsSound, TypeOK
      <4>. QED
        BY <1>2, <3>1, <4>1 DEF CallIsSound, CallSoundNext
    <3>3. CASE c # m.call
      <4>1. task'[c] = task[c]
        BY <1>1, <3>1, <3>3 DEF TypeOK
      <4>. QED
        BY <1>2, <1>3, <3>1, <4>1, CallKeptSound
    <3>. QED
      BY <3>2, <3>3
  <2>. QED
    BY <1>4, <1>5, <2>1, <2>2, StaySound, NextSound
<1>8. CASE HandleTransmitMessage(s)
  <2>1. PICK f : f = [type |-> "SendMessage", call |-> m.call, body |-> m.body]
    OBVIOUS
  <2>2. Writes(s, f)
    BY <1>8, <2>1 DEF HandleTransmitMessage
  <2>3. m.type = "TransmitMessage"
    BY <1>8 DEF HandleTransmitMessage, Takes
  <2>4. SoundNext(f)
    BY <1>0, <1>2, <2>1, <2>3 DEF MessageIsSound, SoundNext
  <2>5. WireSound(s)
    BY <1>4, <2>2, <2>4 DEF WireSound
  <2>6. \A c \in Call : CallSoundNext(c)
    BY <1>3, <1>8, CallKeptSound DEF HandleTransmitMessage
  <2>. QED
    BY <1>4, <1>5, <2>5, <2>6, StaySound, NextSound
<1>9. CASE HandleAnswer(s)
  <2>1. WireSound(s)
    BY <1>4, <1>9 DEF HandleAnswer, WireSound
  <2>2. /\ UNCHANGED <<task, answering>> /\ m.type = "SendMessage" /\ m.body # Request
        /\ \/ UNCHANGED rpcQueue
           \/ rpcQueue' = [rpcQueue EXCEPT ![m.call] = Append(@, m.body)]
    BY <1>9 DEF HandleAnswer, Takes
  <2>3. m.body = given[m.call]
    BY <1>0, <2>2 DEF MessageIsSound
  <2>4. ASSUME NEW c \in Call
        PROVE  CallSoundNext(c)
    <3>1. CASE rpcQueue'[c] = rpcQueue[c]
      BY <1>2, <1>3, <2>2, <3>1, CallKeptSound
    <3>2. CASE rpcQueue'[c] = Append(rpcQueue[c], given[c])
      <4>1. PICK q \in Seq(Value) : q = rpcQueue[c]
        BY DEF TypeOK
      <4>2. /\ DOMAIN Append(q, given[c]) = DOMAIN q \cup {Len(q) + 1}
            /\ \A i \in DOMAIN q : Append(q, given[c])[i] = q[i]
            /\ Append(q, given[c])[Len(q) + 1] = given[c]
        BY AppendPositions
      <4>3. CallIsSound(c)
        BY DEF CallsAreSound
      <4>4. \A i \in DOMAIN rpcQueue'[c] : rpcQueue'[c][i] = given[c]
        BY <3>2, <4>1, <4>2, <4>3 DEF CallIsSound
      <4>. QED
        BY <1>2, <2>2, <4>3, <4>4 DEF CallIsSound, CallSoundNext
    <3>3. rpcQueue'[c] = rpcQueue[c] \/ rpcQueue'[c] = Append(rpcQueue[c], given[c])
      BY <1>1, <2>2, <2>3 DEF TypeOK
    <3>. QED
      BY <3>1, <3>2, <3>3
  <2>. QED
    BY <1>4, <1>5, <2>1, <2>4, StaySound, NextSound
<1>. QED
  BY <1>6, <1>7, <1>8, <1>9

(* A step that changes what messages of a call say, when there are none.   *)
LEMMA NoneToSay ==
  ASSUME TypeOK, MessagesAreSound, NEW c \in Call, \A d \in Call : d = c \/ FactsKept(d),
         \A s \in Side : Carriers(mailbox[s], c) = {} /\ Carriers(wire[s], c) = {}
  PROVE  /\ \A s \in Side : StillSound(s)
         /\ \A r \in Side : \A i \in DOMAIN wire[r] : SoundNext(wire[r][i])
<1>1. \A s \in Side : /\ \A i \in DOMAIN mailbox[s] : ~Carries(mailbox[s][i], c)
                      /\ \A i \in DOMAIN wire[s] : ~Carries(wire[s][i], c)
  BY DEF Carriers
<1>. QED
  BY <1>1, SoundBut DEF StillSound

(* The RpcProxyActor starts while its call is in the task that starts it.  *)
LEMMA SpawnSound ==
  ASSUME TypeOK, OneCopy, MessagesAreSound, CallsAreSound, NEW d \in Call, TaskSpawnsRpcProxy(d)
  PROVE  MessagesAreSound' /\ CallsAreSound'
<1>0. Home[d] \in Side /\ InTask \in Place
  BY HomeTyped, Places DEF CallPlaces
<1>1. Copies(InTask, d) # {}
  BY PlaceHolds DEF TaskSpawnsRpcProxy
<1>2. /\ \A s \in Side : Carriers(mailbox[s], d) = {} /\ Carriers(wire[s], d) = {}
      /\ caller[d] # "idle"
  <2>1. \A s \in Side : InTask # MailOf(s) /\ InTask # WireOf(s)
    BY Places DEF CallPlaces
  <2>. QED
    BY <1>0, <1>1, <2>1, OnlyThere
<1>3. /\ CallIsSound(d) /\ rpcActor[d] = "none" /\ port[d] = "none"
      /\ UNCHANGED <<wire, rpcQueue, port, given, forwarder, answering>>
  BY DEF TaskSpawnsRpcProxy, CallsAreSound, CallIsSound
<1>4. /\ \/ rpcActor' = [rpcActor EXCEPT ![d] = "running"]
         \/ UNCHANGED rpcActor /\ ~Up(Home[d])
      /\ \A c \in Call : caller'[c] = "idle" => caller[c] = "idle"
  <2>1. UNCHANGED caller \/ caller' = Refused(caller, {d})
    BY DEF TaskSpawnsRpcProxy
  <2>2. \A c \in Call : caller'[c] = "idle" => caller[c] = "idle"
    BY <2>1 DEF Refused
  <2>. QED
    BY <2>2 DEF TaskSpawnsRpcProxy
<1>5. \A c \in Call : c = d \/ FactsKept(c)
  BY <1>3, <1>4 DEF FactsKept, TypeOK
<1>6. /\ \A s \in Side : StillSound(s)
      /\ \A r \in Side : \A i \in DOMAIN wire[r] : SoundNext(wire[r][i])
  BY <1>2, <1>5, NoneToSay
<1>7. MailSound(Home[d])
  <2>1. CASE Up(Home[d])
    <3>1. PICK e : e = [type |-> "PublishActor", call |-> d]
      OBVIOUS
    <3>2. Cast(Home[d], e)
      BY <3>1 DEF TaskSpawnsRpcProxy
    <3>3. rpcActor'[d] = "running"
      BY <1>4, <2>1 DEF TypeOK
    <3>4. SoundNext(e)
      BY <1>3, <3>1, <3>3 DEF SoundNext
    <3>. QED
      BY <1>0, <1>6, <3>2, <3>4 DEF MailSound
  <2>2. CASE ~Up(Home[d])
    <3>1. UNCHANGED mailbox
      BY <2>2 DEF TaskSpawnsRpcProxy, Cast
    <3>. QED
      BY <1>0, <1>6, <3>1 DEF MailSound
  <2>. QED
    BY <2>1, <2>2
<1>8. WireSound(Home[d])
  BY <1>3, <1>6 DEF WireSound
<1>9. ASSUME NEW c \in Call
      PROVE  CallSoundNext(c)
  <2>1. CASE c = d
    <3>1. task'[c] \notin {"started", "published"} /\ caller'[c] # "idle"
      BY <1>2, <1>4, <2>1 DEF TaskSpawnsRpcProxy, TypeOK
    <3>. QED
      BY <1>3, <2>1, <3>1 DEF CallIsSound, CallSoundNext
  <2>2. CASE c # d
    <3>1. task'[c] = task[c] /\ FactsKept(c)
      BY <1>5, <2>2 DEF TaskSpawnsRpcProxy, TypeOK
    <3>. QED
      BY <1>3, <1>4, <3>1, CallKeptSound
  <2>. QED
    BY <2>1, <2>2
<1>. QED
  BY <1>0, <1>6, <1>7, <1>8, <1>9, StaySound, NextSound

(* The port is rebuilt from the only message there is of its call.         *)
LEMMA RequestSound ==
  ASSUME TypeOK, OneCopy, MessagesAreSound, CallsAreSound, NEW s \in Side, HandleRequest(s)
  PROVE  MessagesAreSound' /\ CallsAreSound'
<1>. DEFINE m == Head(mailbox[s])
            d == m.call
<1>0. /\ mailbox[s] # <<>> /\ m \in Message /\ m.type = "SendMessage" /\ m.body = Request
      /\ MessageIsSound(m) /\ 1 \in DOMAIN mailbox[s] /\ mailbox[s][1] = m
  BY HeadTyped DEF HandleRequest, Takes, MessagesAreSound
<1>1. d \in Call /\ Carries(m, d)
  BY <1>0, MessageShapes DEF CallTypes, Carries
<1>2. /\ port[d] = "none" /\ rpcActor[d] # "none"
      /\ port' = [port EXCEPT ![d] = "held"]
      /\ forwarder' = [forwarder EXCEPT ![d] = "waiting"]
      /\ UNCHANGED <<wire, caller, task, rpcActor, rpcQueue, given, answering>>
  BY <1>0 DEF HandleRequest, MessageIsSound, CallTypes
<1>3. MailOf(s) \in Place /\ Copies(MailOf(s), d) # {}
  <2>1. 1 \in Carriers(mailbox[s], d)
    BY <1>0, <1>1 DEF Carriers
  <2>. QED
    BY <2>1, Places, PlaceHolds
<1>4. /\ \A r \in Side : /\ r = s \/ Carriers(mailbox[r], d) = {}
                         /\ Carriers(wire[r], d) = {}
      /\ AtMostOne(Carriers(mailbox[s], d))
      /\ task[d] \notin {"started", "published"} /\ caller[d] # "idle"
  <2>1. /\ \A r \in Side : /\ MailOf(s) = MailOf(r) => r = s
                           /\ MailOf(s) # WireOf(r)
        /\ MailOf(s) # InTask
    BY Places DEF CallPlaces
  <2>. QED
    BY <1>1, <1>3, <2>1, OnlyThere
<1>5. \A c \in Call : c = d \/ FactsKept(c)
  BY <1>1, <1>2 DEF FactsKept, TypeOK
<1>6. /\ \A r \in Side : r = s \/ StillSound(r)
      /\ TailSound(s)
      /\ \A r \in Side : \A i \in DOMAIN wire[r] : SoundNext(wire[r][i])
  <2>1. \A r \in Side :
          /\ \A i \in DOMAIN mailbox[r] : Carries(mailbox[r][i], d) \/ SoundNext(mailbox[r][i])
          /\ \A i \in DOMAIN wire[r] : Carries(wire[r][i], d) \/ SoundNext(wire[r][i])
    BY <1>5, SoundBut
  <2>2. \A r \in Side : /\ r = s \/ \A i \in DOMAIN mailbox[r] : ~Carries(mailbox[r][i], d)
                        /\ \A i \in DOMAIN wire[r] : ~Carries(wire[r][i], d)
    BY <1>4 DEF Carriers
  <2>3. \A i \in DOMAIN mailbox[s] : i # 1 => ~Carries(mailbox[s][i], d)
    BY <1>0, <1>1, <1>4 DEF Carriers, AtMostOne
  <2>. QED
    BY <2>1, <2>2, <2>3 DEF StillSound, TailSound
<1>7. MailSound(s) /\ WireSound(s)
  <2>1. PICK e : e = [type |-> "RegisterProxyForRemoteActor", call |-> d]
    OBVIOUS
  <2>2. mailbox' = [mailbox EXCEPT ![s] = Append(Tail(@), e)]
    BY <2>1 DEF HandleRequest
  <2>3. SoundNext(e)
    BY <2>1, BystandersSound
  <2>. QED
    BY <1>0, <1>2, <1>6, <2>2, <2>3 DEF MailSound, WireSound
<1>8. ASSUME NEW c \in Call
      PROVE  CallSoundNext(c)
  <2>0. CallIsSound(c)
    BY DEF CallsAreSound
  <2>1. CASE c = d
    <3>1. port'[c] = "held" /\ forwarder'[c] = "waiting"
      BY <1>1, <1>2, <2>1 DEF TypeOK
    <3>. QED
      BY <1>2, <1>4, <2>0, <2>1, <3>1 DEF CallIsSound, CallSoundNext
  <2>2. CASE c # d
    <3>1. forwarder'[c] = forwarder[c] /\ FactsKept(c)
      BY <1>1, <1>2, <1>5, <2>2 DEF TypeOK
    <3>. QED
      BY <1>2, <3>1, CallKeptSound
  <2>. QED
    BY <2>1, <2>2
<1>. QED
  BY <1>6, <1>7, <1>8, StaySound, NextSound

(* The target has the port only while nothing of its call is on its way.   *)
LEMMA TargetSound ==
  ASSUME TypeOK, OneCopy, MessagesAreSound, CallsAreSound, NEW d \in Call,
         TargetDrops(d) \/ \E v \in Value : TargetGives(d, v)
  PROVE  MessagesAreSound' /\ CallsAreSound'
<1>0. "a" \in Side /\ InPort \in Place
  BY Places DEF Side, CallPlaces
<1>1. /\ UNCHANGED <<mailbox, wire, caller, task, rpcActor, rpcQueue, forwarder, answering>>
      /\ port[d] = "held" /\ CallIsSound(d)
  BY DEF TargetDrops, TargetGives, CallsAreSound
<1>2. \A c \in Call : c = d \/ FactsKept(c)
  BY DEF TargetDrops, TargetGives, FactsKept, TypeOK
<1>3. \A s \in Side : Carriers(mailbox[s], d) = {} /\ Carriers(wire[s], d) = {}
  <2>1. Copies(InPort, d) # {}
    BY <1>1, PlaceHolds DEF CallIsSound
  <2>2. \A s \in Side : InPort # MailOf(s) /\ InPort # WireOf(s)
    BY Places DEF CallPlaces
  <2>. QED
    BY <1>0, <2>1, <2>2, OnlyThere
<1>4. /\ \A s \in Side : StillSound(s)
      /\ \A r \in Side : \A i \in DOMAIN wire[r] : SoundNext(wire[r][i])
  BY <1>2, <1>3, NoneToSay
<1>5. MailSound("a") /\ WireSound("a")
  BY <1>0, <1>1, <1>4 DEF MailSound, WireSound
<1>6. ASSUME NEW c \in Call
      PROVE  CallSoundNext(c)
  <2>1. CASE c = d
    <3>1. given[d] = None /\ answering[d] = None
      BY <1>1 DEF CallIsSound
    <3>2. DOMAIN rpcQueue[d] = {}
      <4>1. \A i \in DOMAIN rpcQueue[d] : rpcQueue[d][i] \in Value
        BY EachElement DEF TypeOK
      <4>. QED
        BY <1>1, <3>1, <4>1, ReplyPortAssumption DEF CallIsSound
    <3>3. port'[d] # "none" /\ port'[d] # "held" /\ (port'[d] = "used" <=> given'[d] # None)
      <4>1. CASE TargetDrops(d)
        BY <3>1, <4>1 DEF TargetDrops, TypeOK
      <4>2. ASSUME NEW v \in Value, TargetGives(d, v)
            PROVE  port'[d] = "used" /\ given'[d] # None
        BY <4>2, ReplyPortAssumption DEF TargetGives, TypeOK
      <4>. QED
        BY <4>1, <4>2
    <3>. QED
      BY <1>1, <2>1, <3>1, <3>2, <3>3 DEF CallIsSound, CallSoundNext
  <2>2. CASE c # d
    BY <1>1, <1>2, <2>2, CallKeptSound
  <2>. QED
    BY <2>1, <2>2
<1>. QED
  BY <1>0, <1>4, <1>5, <1>6, StaySound, NextSound

(* No step makes a message or a call say what does not hold.               *)
LEMMA NextStaysSound ==
  ASSUME TypeOK, OneCopy, MessagesAreSound, CallsAreSound, [Next]_vars
  PROVE  MessagesAreSound' /\ CallsAreSound'
<1>0. "a" \in Side
  BY DEF Side
<1>1. CASE UNCHANGED vars
  <2>1. \A c \in Call : FactsKept(c) /\ CallSoundNext(c)
    <3>1. \A c \in Call : FactsKept(c)
      BY <1>1 DEF vars, FactsKept
    <3>. QED
      BY <1>1, <3>1, CallKeptSound DEF vars
  <2>2. MailSound("a") /\ WireSound("a") /\ \A r \in Side : StillSound(r)
    BY <1>0, <1>1, <2>1, AllStillSound DEF vars, MailSound, WireSound
  <2>. QED
    BY <1>0, <2>1, <2>2, StaySound, NextSound
<1>2. ASSUME NEW s \in Side, PortalStep(s)
      PROVE  MessagesAreSound' /\ CallsAreSound'
  <2>1. CASE AnswerFails(s) \/ HandleClose(s)
             \/ \E type \in {"TransmitMessage", "LocalActorExited"} : WriteFails(s, type)
    BY <2>1, GoesDownSound DEF AnswerFails, HandleClose, WriteFails
  <2>. QED
    BY <1>2, <2>1, HandlersSound, RequestSound, BookkeepingSound DEF PortalStep
<1>3. ASSUME NEW s \in Side, AppStopsPortal(s)
      PROVE  MessagesAreSound' /\ CallsAreSound'
  BY <1>3, GoesDownSound DEF AppStopsPortal
<1>4. ASSUME NEW d \in Call, TaskStep(d)
      PROVE  MessagesAreSound' /\ CallsAreSound'
  BY <1>4, SpawnSound, SendersSound, HomeSound DEF TaskStep
<1>. QED
  BY <1>0, <1>1, <1>2, <1>3, <1>4, BookkeepingSound, HomeSound, TargetSound DEF Next, Step
-----------------------------------------------------------------------------
(* The causes for which a portal goes down, after a step. *)
CauseNext ==
  \/ ~linkUp'
  \/ \E t \in Side : status'[t] = "stopped"
  \/ \E t \in Side : \E c \in Call : Home[c] = t /\ rpcActor'[c] = "killed" /\ given'[c] # None

(* A cause after a step, spelled out. *)
LEMMA NextCause ==
  ASSUME UNCHANGED setting, CauseNext
  PROVE  EndCause'
BY DEF CauseNext, EndCause, LateAnswer, At, Home

(* A cause stays: links do not come back, portals do not start again,      *)
(* killed actors stay killed and what was given stays given.               *)
LEMMA CauseStays ==
  ASSUME TypeOK, CallsAreSound, [Next]_vars, EndCause
  PROVE  EndCause'
<1>1. CASE UNCHANGED vars
  BY <1>1 DEF vars, EndCause, LateAnswer, At, Home
<1>2. ASSUME Next
      PROVE  /\ linkUp' = linkUp \/ ~linkUp'
             /\ \A t \in Side : status[t] = "stopped" => status'[t] = "stopped"
             /\ \A c \in Call : rpcActor[c] = "killed" => rpcActor'[c] = "killed"
             /\ \A c \in Call : given[c] # None => given'[c] # None
  <2>1. ASSUME NEW s \in Side, NEW how, Up(s), GoesDown(s, how), UNCHANGED <<linkUp, given>>
        PROVE  /\ linkUp' = linkUp \/ ~linkUp'
               /\ \A t \in Side : status[t] = "stopped" => status'[t] = "stopped"
               /\ \A c \in Call : rpcActor[c] = "killed" => rpcActor'[c] = "killed"
               /\ \A c \in Call : given[c] # None => given'[c] # None
    BY <2>1 DEF Up, GoesDown, Running, TypeOK
  <2>2. ASSUME NEW s \in Side,
               \/ AnswerFails(s) \/ HandleClose(s) \/ AppStopsPortal(s)
               \/ \E type \in {"TransmitMessage", "LocalActorExited"} : WriteFails(s, type)
        PROVE  \E how : Up(s) /\ GoesDown(s, how) /\ UNCHANGED <<linkUp, given>>
    BY <2>2 DEF AnswerFails, HandleClose, AppStopsPortal, WriteFails, Takes
  <2>3. ASSUME NEW s \in Side,
               \/ HandleImmaterializeMessage(s) \/ HandlePublishActor(s) \/ HandleTransmitMessage(s)
               \/ HandleRequest(s) \/ HandleRegisterProxy(s) \/ HandleAnswer(s)
               \/ HandleLocalActorExited(s) \/ HandleActorExited(s)
               \/ ReceiveLoopReads(s) \/ ReceiveLoopEnds(s)
        PROVE  UNCHANGED <<linkUp, status, rpcActor, given>>
    BY <2>3
    DEF HandleImmaterializeMessage, HandlePublishActor, HandleTransmitMessage, HandleRequest,
        HandleRegisterProxy, HandleAnswer, HandleLocalActorExited, HandleActorExited,
        ReceiveLoopReads, ReceiveLoopEnds
  <2>4. ASSUME NEW c \in Call,
               \/ TaskTransmits(c) \/ ForwarderForwards(c) \/ ForwarderEnds(c) \/ AnswerTransmits(c)
               \/ WatcherReports(c) \/ CallerAsks(c) \/ CallerTimesOut(c) \/ TargetDrops(c)
        PROVE  UNCHANGED <<linkUp, status, rpcActor, given>>
    BY <2>4
    DEF TaskTransmits, ForwarderForwards, ForwarderEnds, AnswerTransmits, WatcherReports,
        CallerAsks, CallerTimesOut, TargetDrops
  <2>5. ASSUME NEW c \in Call, TaskSpawnsRpcProxy(c) \/ RpcProxyHandles(c) \/ KillAfter(c)
        PROVE  /\ UNCHANGED <<linkUp, status, given>>
               /\ \A d \in Call : rpcActor[d] = "killed" => rpcActor'[d] = "killed"
    <3>1. CASE TaskSpawnsRpcProxy(c)
      <4>1. rpcActor[c] = "none"
        BY <3>1 DEF TaskSpawnsRpcProxy, CallsAreSound, CallIsSound
      <4>2. UNCHANGED rpcActor \/ rpcActor' = [rpcActor EXCEPT ![c] = "running"]
        BY <3>1 DEF TaskSpawnsRpcProxy
      <4>. QED
        BY <3>1, <4>1, <4>2 DEF TaskSpawnsRpcProxy, TypeOK
    <3>2. CASE RpcProxyHandles(c)
      BY <3>2 DEF RpcProxyHandles, TypeOK
    <3>3. CASE KillAfter(c)
      BY <3>3 DEF KillAfter, TypeOK
    <3>. QED
      BY <2>5, <3>1, <3>2, <3>3
  <2>6. ASSUME NEW c \in Call, NEW v \in Value, TargetGives(c, v)
        PROVE  /\ UNCHANGED <<linkUp, status, rpcActor>>
               /\ \A d \in Call : given[d] # None => given'[d] # None
    BY <2>6, ReplyPortAssumption DEF TargetGives, TypeOK
  <2>7. CASE LinkBreaks
    BY <2>7 DEF LinkBreaks
  <2>. QED
    BY <1>2, <2>1, <2>2, <2>3, <2>4, <2>5, <2>6, <2>7 DEF Next, Step, PortalStep, TaskStep
<1>3. CASE Next
  <2>1. UNCHANGED setting
    BY <1>3 DEF Next
  <2>2. CauseNext
    BY <1>2, <1>3 DEF EndCause, LateAnswer, At, CauseNext
  <2>. QED
    BY <2>1, <2>2, NextCause
<1>. QED
  BY <1>1, <1>3

(* Nobody closes a portal but its receive loop.                            *)
NoClose(s) == \A i \in DOMAIN mailbox[s] : mailbox[s][i].type # "Close"
NoCloseNext(s) == \A i \in DOMAIN mailbox'[s] : mailbox'[s][i].type # "Close"
OpenStep(s) ==
  \/ UNCHANGED mailbox \/ mailbox' = [mailbox EXCEPT ![s] = <<>>]
  \/ mailbox[s] # <<>> /\ Done(s)
  \/ \E e : /\ e.type # "Close"
            /\ \/ Cast(s, e)
               \/ mailbox[s] # <<>> /\ mailbox' = [mailbox EXCEPT ![s] = Append(Tail(@), e)]

(* Steps that cast no Close leave none in a mailbox. *)
LEMMA NoCloseStays ==
  ASSUME TypeOK, NEW s \in Side, OpenStep(s), NEW r \in Side, NoClose(r)
  PROVE  NoCloseNext(r)
<1>1. mailbox \in [Side -> Seq(Message)] /\ mailbox[r] \in Seq(Message)
  BY DEF TypeOK
<1>2. CASE mailbox'[r] = mailbox[r]
  BY <1>2 DEF NoClose, NoCloseNext
<1>3. r # s => mailbox'[r] = mailbox[r]
  BY <1>1 DEF OpenStep, Done, Cast
<1>4. CASE r = s /\ mailbox' = [mailbox EXCEPT ![s] = <<>>]
  <2>1. DOMAIN mailbox'[r] = {}
    BY <1>1, <1>4, NoElements
  <2>. QED
    BY <2>1 DEF NoCloseNext
<1>5. ASSUME mailbox[r] # <<>>
      PROVE  /\ Tail(mailbox[r]) \in Seq(Message)
             /\ \A i \in DOMAIN Tail(mailbox[r]) : Tail(mailbox[r])[i].type # "Close"
  <2>1. /\ Tail(mailbox[r]) \in Seq(Message)
        /\ \A i \in DOMAIN Tail(mailbox[r]) :
             i + 1 \in DOMAIN mailbox[r] /\ Tail(mailbox[r])[i] = mailbox[r][i + 1]
    BY <1>1, <1>5, TailElements
  <2>. QED
    BY <2>1 DEF NoClose
<1>6. CASE r = s /\ mailbox[s] # <<>> /\ Done(s)
  <2>1. mailbox'[r] = Tail(mailbox[r])
    BY <1>1, <1>6 DEF Done
  <2>. QED
    BY <1>5, <1>6, <2>1 DEF NoCloseNext
<1>7. ASSUME NEW q \in Seq(Message), NEW e, e.type # "Close", \A i \in DOMAIN q : q[i].type # "Close"
      PROVE  \A i \in DOMAIN Append(q, e) : Append(q, e)[i].type # "Close"
  <2>1. /\ DOMAIN Append(q, e) = DOMAIN q \cup {Len(q) + 1}
        /\ \A i \in DOMAIN q : Append(q, e)[i] = q[i]
        /\ Append(q, e)[Len(q) + 1] = e
    BY AppendPositions
  <2>. QED
    BY <1>7, <2>1
<1>8. ASSUME r = s, NEW e, e.type # "Close", Cast(s, e)
      PROVE  NoCloseNext(r)
  <2>1. mailbox'[r] = mailbox[r] \/ mailbox'[r] = Append(mailbox[r], e)
    BY <1>1, <1>8 DEF Cast
  <2>2. \A i \in DOMAIN Append(mailbox[r], e) : Append(mailbox[r], e)[i].type # "Close"
    BY <1>1, <1>7, <1>8 DEF NoClose
  <2>. QED
    BY <1>2, <2>1, <2>2 DEF NoCloseNext
<1>9. ASSUME r = s, NEW e, e.type # "Close", mailbox[s] # <<>>,
             mailbox' = [mailbox EXCEPT ![s] = Append(Tail(@), e)]
      PROVE  NoCloseNext(r)
  <2>1. PICK q : q = Tail(mailbox[r])
    OBVIOUS
  <2>2. q \in Seq(Message) /\ mailbox'[r] = Append(q, e) /\ \A i \in DOMAIN q : q[i].type # "Close"
    BY <1>1, <1>5, <1>9, <2>1
  <2>. QED
    BY <1>7, <1>9, <2>2 DEF NoCloseNext
<1>. QED
  BY <1>2, <1>3, <1>4, <1>6, <1>8, <1>9 DEF OpenStep

(* An answer that comes to an RpcProxyActor that has ended comes too late. *)
LEMMA FailureIsLate ==
  ASSUME TypeOK, OneCopy, MessagesAreSound, CallsAreSound, NEW s \in Side, AnswerFails(s)
  PROVE  EndCause
<1>. DEFINE m == Head(mailbox[s])
            d == m.call
<1>0. /\ m \in Message /\ m.type = "SendMessage" /\ m.body # Request /\ rpcActor[d] # "running"
      /\ MessageIsSound(m) /\ 1 \in DOMAIN mailbox[s] /\ mailbox[s][1] = m
  BY HeadTyped DEF AnswerFails, Takes, MessagesAreSound
<1>1. d \in Call /\ Carries(m, d) /\ m.body \in Value
  BY <1>0, MessageShapes DEF CallTypes, Carries, Body
<1>2. given[d] # None /\ CallIsSound(d)
  BY <1>0, <1>1, ReplyPortAssumption DEF MessageIsSound, CallTypes, CallsAreSound
<1>3. rpcActor[d] # "none"
  BY <1>2 DEF CallIsSound
<1>4. rpcActor[d] # "stopped"
  <2>1. 1 \in Carriers(mailbox[s], d)
    BY <1>0, <1>1 DEF Carriers
  <2>2. MailOf(s) \in Place /\ Copies(MailOf(s), d) # {}
    BY <2>1, Places, PlaceHolds
  <2>. QED
    BY <1>1, <2>2, OnlyThere
<1>5. rpcActor[d] = "killed"
  BY <1>0, <1>1, <1>3, <1>4 DEF TypeOK
<1>6. Home[d] \in Side
  BY <1>1, HomeTyped
<1>. QED
  BY <1>1, <1>2, <1>5, <1>6 DEF EndCause, LateAnswer, At

(* Nothing goes down, and nothing is to be closed, while there is no cause. *)
LEMMA CausedSteps ==
  ASSUME TypeOK, OneCopy, MessagesAreSound, CallsAreSound, EndsHaveCause, ~EndCause,
         NEW s \in Side,
         \/ AnswerFails(s) \/ HandleClose(s) \/ ReceiveLoopEnds(s)
         \/ \E type \in {"TransmitMessage", "LocalActorExited"} : WriteFails(s, type)
  PROVE  FALSE
<1>1. \A r \in Side : Up(r) /\ ~CloseIsDue(r)
  BY DEF EndsHaveCause
<1>2. linkUp /\ Connected(s)
  BY <1>1, PeerFacts DEF EndCause, Connected
<1>3. ~AnswerFails(s)
  BY FailureIsLate
<1>4. ~HandleClose(s)
  <2>1. SUFFICES ASSUME HandleClose(s)
                 PROVE  FALSE
    OBVIOUS
  <2>2. 1 \in DOMAIN mailbox[s] /\ mailbox[s][1].type = "Close"
    BY <2>1, HeadTyped DEF HandleClose, Takes
  <2>. QED
    BY <1>1, <2>2 DEF CloseIsDue
<1>. QED
  BY <1>2, <1>3, <1>4 DEF ReceiveLoopEnds, WriteFails

(* What the other steps leave in the mailboxes closes nothing. *)
LEMMA OpenSteps ==
  ASSUME TypeOK, NEW s \in Side,
         \/ HandleImmaterializeMessage(s) \/ HandlePublishActor(s) \/ HandleTransmitMessage(s)
         \/ HandleRequest(s) \/ HandleRegisterProxy(s) \/ HandleAnswer(s)
         \/ HandleLocalActorExited(s) \/ HandleActorExited(s) \/ ReceiveLoopReads(s)
  PROVE  UNCHANGED status /\ OpenStep(s)
<1>1. CASE \/ HandleImmaterializeMessage(s) \/ HandlePublishActor(s) \/ HandleTransmitMessage(s)
           \/ HandleRegisterProxy(s) \/ HandleAnswer(s)
           \/ HandleLocalActorExited(s) \/ HandleActorExited(s)
  BY <1>1
  DEF HandleImmaterializeMessage, HandlePublishActor, HandleTransmitMessage, HandleRegisterProxy,
      HandleAnswer, HandleLocalActorExited, HandleActorExited, Takes, OpenStep
<1>2. CASE HandleRequest(s)
  <2>1. PICK e : e = [type |-> "RegisterProxyForRemoteActor", call |-> Head(mailbox[s]).call]
    OBVIOUS
  <2>2. e.type # "Close" /\ mailbox' = [mailbox EXCEPT ![s] = Append(Tail(@), e)]
    BY <1>2, <2>1 DEF HandleRequest
  <2>. QED
    BY <1>2, <2>2 DEF HandleRequest, Takes, OpenStep
<1>3. CASE ReceiveLoopReads(s)
  <2>1. PICK f : f = Head(wire[s])
    OBVIOUS
  <2>2. wire[s] \in Seq(Frame) /\ wire[s] # <<>>
    BY <1>3 DEF ReceiveLoopReads, TypeOK
  <2>3. f \in Frame
    BY <2>1, <2>2, TailElements
  <2>4. f.type # "Close"
    BY <2>3 DEF Frame
  <2>5. Cast(s, f)
    BY <1>3, <2>1 DEF ReceiveLoopReads, Cast
  <2>. QED
    BY <1>3, <2>4, <2>5 DEF ReceiveLoopReads, OpenStep
<1>. QED
  BY <1>1, <1>2, <1>3

(* Tasks, callers, targets and RpcProxyActors close no portal either. *)
LEMMA OpenTasks ==
  ASSUME TypeOK, NEW d \in Call,
         \/ TaskStep(d) \/ RpcProxyHandles(d) \/ KillAfter(d) \/ CallerAsks(d) \/ CallerTimesOut(d)
         \/ (\E v \in Value : TargetGives(d, v)) \/ TargetDrops(d)
  PROVE  UNCHANGED status /\ \E s \in Side : OpenStep(s)
<1>0. Home[d] \in Side /\ Peer(Home[d]) \in Side
  BY HomeTyped, PeerFacts
<1>1. CASE TaskSpawnsRpcProxy(d)
  <2>1. PICK e : e = [type |-> "PublishActor", call |-> d]
    OBVIOUS
  <2>2. Cast(Home[d], e) /\ e.type # "Close"
    BY <1>1, <2>1 DEF TaskSpawnsRpcProxy
  <2>. QED
    BY <1>0, <1>1, <2>2 DEF TaskSpawnsRpcProxy, OpenStep
<1>2. CASE TaskTransmits(d)
  <2>1. PICK e : e = [type |-> "TransmitMessage", call |-> d, body |-> Request]
    OBVIOUS
  <2>2. Cast(Home[d], e) /\ e.type # "Close"
    BY <1>2, <2>1 DEF TaskTransmits
  <2>. QED
    BY <1>0, <1>2, <2>2 DEF TaskTransmits, OpenStep
<1>3. CASE ForwarderForwards(d)
  <2>1. PICK e : e = [type |-> "ImmaterializeMessage", call |-> d, body |-> given[d]]
    OBVIOUS
  <2>2. (Cast(Peer(Home[d]), e) \/ UNCHANGED mailbox) /\ e.type # "Close"
    BY <1>3, <2>1 DEF ForwarderForwards, ReturnAddress
  <2>. QED
    BY <1>0, <1>3, <2>2 DEF ForwarderForwards, OpenStep
<1>4. CASE AnswerTransmits(d)
  <2>1. PICK e : e = [type |-> "TransmitMessage", call |-> d, body |-> answering[d]]
    OBVIOUS
  <2>2. Cast(Peer(Home[d]), e) /\ e.type # "Close"
    BY <1>4, <2>1 DEF AnswerTransmits
  <2>. QED
    BY <1>0, <1>4, <2>2 DEF AnswerTransmits, OpenStep
<1>5. CASE WatcherReports(d)
  <2>1. PICK e : e = [type |-> "LocalActorExited", call |-> d]
    OBVIOUS
  <2>2. Cast(Home[d], e) /\ e.type # "Close"
    BY <1>5, <2>1 DEF WatcherReports
  <2>. QED
    BY <1>0, <1>5, <2>2 DEF WatcherReports, OpenStep
<1>6. CASE CallerAsks(d)
  <2>1. PICK e : e = [type |-> "ImmaterializeMessage", call |-> d, body |-> Request]
    OBVIOUS
  <2>2. Cast(Home[d], e) /\ e.type # "Close"
    BY <1>6, <2>1 DEF CallerAsks
  <2>. QED
    BY <1>0, <1>6, <2>2 DEF CallerAsks, OpenStep
<1>7. CASE \/ ForwarderEnds(d) \/ RpcProxyHandles(d) \/ KillAfter(d) \/ CallerTimesOut(d)
           \/ (\E v \in Value : TargetGives(d, v)) \/ TargetDrops(d)
  <2>1. UNCHANGED <<status, mailbox>>
    BY <1>7 DEF ForwarderEnds, RpcProxyHandles, KillAfter, CallerTimesOut, TargetGives, TargetDrops
  <2>. QED
    BY <1>0, <2>1 DEF OpenStep
<1>. QED
  BY <1>1, <1>2, <1>3, <1>4, <1>5, <1>6, <1>7 DEF TaskStep

(* So every end of a portal has a cause. *)
LEMMA NextEnds ==
  ASSUME TypeOK, OneCopy, MessagesAreSound, CallsAreSound, EndsHaveCause, [Next]_vars
  PROVE  EndsHaveCause'
<1>0. "a" \in Side
  BY DEF Side
<1>1. CASE EndCause
  BY <1>1, CauseStays DEF EndsHaveCause
<1>2. CASE ~EndCause
  <2>1. \A r \in Side : Up(r) /\ NoClose(r)
    BY <1>2 DEF EndsHaveCause, CloseIsDue, NoClose
  <2>2. ASSUME UNCHANGED status, NEW s \in Side, OpenStep(s)
        PROVE  EndsHaveCause'
    <3>1. \A r \in Side : NoCloseNext(r)
      BY <2>1, <2>2, NoCloseStays
    <3>. QED
      BY <2>1, <2>2, <3>1 DEF EndsHaveCause, Up, CloseIsDue, NoCloseNext
  <2>3. CASE UNCHANGED vars
    BY <1>0, <2>2, <2>3 DEF vars, OpenStep
  <2>4. ASSUME NEW s \in Side, PortalStep(s) \/ ReceiveLoopReads(s) \/ ReceiveLoopEnds(s)
        PROVE  EndsHaveCause'
    BY <1>2, <2>2, <2>4, CausedSteps, OpenSteps DEF PortalStep
  <2>5. ASSUME NEW s \in Side, AppStopsPortal(s)
        PROVE  EndsHaveCause'
    <3>1. status'[s] = "stopped"
      BY <2>5 DEF AppStopsPortal, GoesDown, TypeOK
    <3>. QED
      BY <3>1 DEF EndsHaveCause, EndCause
  <2>6. CASE LinkBreaks
    BY <2>6 DEF LinkBreaks, EndsHaveCause, EndCause
  <2>. QED
    BY <2>2, <2>3, <2>4, <2>5, <2>6, OpenTasks DEF Next, Step
<1>. QED
  BY <1>1, <1>2
-----------------------------------------------------------------------------
(* The inductive invariant: a call is one thing in one place, what is      *)
(* known of it there holds, and ends have a cause.                         *)
ReplyPortInv ==
  TypeOK /\ OneCopy /\ MessagesAreSound /\ CallsAreSound /\ EndsHaveCause

(* The invariant holds before any call. *)
LEMMA InitInv ==
  ASSUME Init
  PROVE  ReplyPortInv
<1>1. TypeOK
  BY InitTyped
<1>2. \A s \in Side : DOMAIN mailbox[s] = {} /\ DOMAIN wire[s] = {}
  BY NoElements DEF Init
<1>3. \A c \in Call : \A l \in Place : Copies(l, c) = {}
  <2>. SUFFICES ASSUME NEW c \in Call, NEW l \in Place
                PROVE  Copies(l, c) = {}
    OBVIOUS
  <2>0. \A s \in Side : Carriers(mailbox[s], c) = {} /\ Carriers(wire[s], c) = {}
    BY <1>2 DEF Carriers
  <2>1. \A s \in Side : Copies(MailOf(s), c) = {} /\ Copies(WireOf(s), c) = {}
    BY <2>0, PlaceHolds
  <2>2. /\ Copies(InTask, c) = {} /\ Copies(InPort, c) = {} /\ Copies(InAnswer, c) = {}
        /\ Copies(InQueue, c) = {}
    BY PlaceHolds, NoElements DEF Init
  <2>. QED
    BY <2>1, <2>2, Places DEF CallPlaces
<1>4. OneCopy
  BY <1>3 DEF OneCopy, AtMostOne
<1>5. MessagesAreSound
  BY <1>2 DEF MessagesAreSound
<1>6. CallsAreSound
  BY NoElements DEF Init, CallsAreSound, CallIsSound
<1>7. EndsHaveCause
  BY <1>2 DEF Init, EndsHaveCause, CloseIsDue, Up
<1>. QED
  BY <1>1, <1>4, <1>5, <1>6, <1>7 DEF ReplyPortInv

(* No step of a reply port breaks it. *)
THEOREM ReplyPortInvariant == Spec => []ReplyPortInv
<1>1. ReplyPortInv /\ [Next]_vars => ReplyPortInv'
  BY NextTyped, NextCopies, NextStaysSound, NextEnds DEF ReplyPortInv
<1>. QED
  BY <1>1, InitInv, PTL DEF Spec

(* Every variable keeps to its type: a forwarder never sends what is not a *)
(* value (rpc_reply_port_from_actor_ref).                                  *)
THEOREM TypeCorrect == Spec => []TypeOK
<1>1. ReplyPortInv => TypeOK
  BY DEF ReplyPortInv
<1>. QED
  BY <1>1, ReplyPortInvariant, PTL

(* Portals outlive answers: an answer fails the portal it comes to (the    *)
(* `?` of rematerialize) only when kill_after came first.                  *)
THEOREM AnswersAreHarmless == Spec => []PortalsOutliveAnswers
<1>1. ReplyPortInv => PortalsOutliveAnswers
  BY DEF ReplyPortInv, EndsHaveCause, EndCause, Up, PortalsOutliveAnswers
<1>. QED
  BY <1>1, ReplyPortInvariant, PTL
-----------------------------------------------------------------------------
(* A step that is none of the abstract port, and one that refuses callers. *)
LEMMA Stutters ==
  ASSUME UNCHANGED <<caller, got, given>>
  PROVE  [Abstract!Next]_(Abstract!vars)
BY DEF Abstract!vars

(* Callers that are refused or give up together are one step of the        *)
(* abstract port.                                                          *)
LEMMA RefusalErrs ==
  ASSUME TypeOK, NEW C \in SUBSET Call, NEW error \in {"refused", "timedout"},
         \A c \in C : caller[c] = "waiting",
         caller' = [c \in Call |-> IF c \in C THEN error ELSE caller[c]], UNCHANGED <<got, given>>
  PROVE  [Abstract!Next]_(Abstract!vars)
<1>1. CASE C = {}
  <2>1. caller' = caller
    BY <1>1 DEF TypeOK
  <2>. QED
    BY <2>1, Stutters
<1>2. CASE C # {}
  <2>1. Abstract!Errs(C, error)
    BY <1>2 DEF Abstract!Errs
  <2>. QED
    BY <2>1 DEF Abstract!Next
<1>. QED
  BY <1>1, <1>2

(* A dropped port (Refused) refuses those of its callers that wait. *)
LEMMA Refusals ==
  ASSUME TypeOK, NEW C, caller' = Refused(caller, C), UNCHANGED <<got, given>>
  PROVE  [Abstract!Next]_(Abstract!vars)
<1>. DEFINE W == {c \in Call : c \in C /\ caller[c] = "waiting"}
<1>1. W \in SUBSET Call /\ \A c \in W : caller[c] = "waiting"
  OBVIOUS
<1>2. caller' = [c \in Call |-> IF c \in W THEN "refused" ELSE caller[c]]
  BY DEF Refused
<1>. HIDE DEF W
<1>. QED
  BY <1>1, <1>2, RefusalErrs

(* Each step of the chain is one of the port it stands for, or none.       *)
LEMMA StepsOfAPort ==
  ASSUME ReplyPortInv, [Next]_vars
  PROVE  [Abstract!Next]_(Abstract!vars)
<1>0. TypeOK /\ \A c \in Call : CallIsSound(c)
  BY DEF ReplyPortInv, CallsAreSound
<1>1. CASE UNCHANGED vars
  BY <1>1, Stutters DEF vars
<1>2. ASSUME NEW s \in Side, NEW how, GoesDown(s, how), UNCHANGED <<got, given>>
      PROVE  [Abstract!Next]_(Abstract!vars)
  BY <1>0, <1>2, Refusals DEF GoesDown
<1>3. ASSUME NEW s \in Side,
             PortalStep(s) \/ ReceiveLoopReads(s) \/ ReceiveLoopEnds(s) \/ AppStopsPortal(s)
      PROVE  [Abstract!Next]_(Abstract!vars)
  <2>1. CASE \/ AnswerFails(s) \/ HandleClose(s) \/ AppStopsPortal(s)
             \/ \E type \in {"TransmitMessage", "LocalActorExited"} : WriteFails(s, type)
    BY <1>2, <2>1 DEF AnswerFails, HandleClose, AppStopsPortal, WriteFails
  <2>2. CASE \/ HandleImmaterializeMessage(s) \/ HandlePublishActor(s) \/ HandleTransmitMessage(s)
             \/ HandleRequest(s) \/ HandleRegisterProxy(s) \/ HandleAnswer(s)
             \/ HandleLocalActorExited(s) \/ HandleActorExited(s)
             \/ ReceiveLoopReads(s) \/ ReceiveLoopEnds(s)
    <3>1. UNCHANGED <<caller, got, given>>
      BY <2>2
      DEF HandleImmaterializeMessage, HandlePublishActor, HandleTransmitMessage, HandleRequest,
          HandleRegisterProxy, HandleAnswer, HandleLocalActorExited, HandleActorExited,
          ReceiveLoopReads, ReceiveLoopEnds
    <3>. QED
      BY <3>1, Stutters
  <2>. QED
    BY <1>3, <2>1, <2>2 DEF PortalStep
<1>4. ASSUME NEW c \in Call, CallerAsks(c)
      PROVE  [Abstract!Next]_(Abstract!vars)
  <2>1. Abstract!Asks(c)
    BY <1>4 DEF CallerAsks, Abstract!Asks
  <2>. QED
    BY <2>1 DEF Abstract!Next
<1>5. ASSUME NEW c \in Call, NEW v \in Value, TargetGives(c, v)
      PROVE  [Abstract!Next]_(Abstract!vars)
  <2>1. CallIsSound(c) /\ given[c] = None
    BY <1>0, <1>5 DEF TargetGives, CallIsSound
  <2>2. caller[c] # "idle"
    BY <1>5, <2>1 DEF TargetGives, CallIsSound
  <2>3. Abstract!Gives(c, v)
    BY <1>5, <2>1, <2>2 DEF TargetGives, Abstract!Gives
  <2>. QED
    BY <2>3 DEF Abstract!Next
<1>6. ASSUME NEW c \in Call, RpcProxyHandles(c)
      PROVE  [Abstract!Next]_(Abstract!vars)
  <2>1. CASE caller[c] = "waiting"
    <3>1. rpcQueue[c] \in Seq(Value) /\ rpcQueue[c] # <<>>
      BY <1>0, <1>6 DEF RpcProxyHandles, TypeOK
    <3>2. /\ 1 \in DOMAIN rpcQueue[c] /\ Head(rpcQueue[c]) = rpcQueue[c][1]
          /\ Head(rpcQueue[c]) \in Value
      BY <3>1, TailElements
    <3>3. Head(rpcQueue[c]) = given[c] /\ given[c] # None
      BY <1>0, <3>2, ReplyPortAssumption DEF CallIsSound
    <3>4. Abstract!Answers(c)
      BY <1>6, <2>1, <3>3 DEF RpcProxyHandles, Abstract!Answers
    <3>. QED
      BY <3>4 DEF Abstract!Next
  <2>2. CASE caller[c] # "waiting"
    BY <1>6, <2>2, Stutters DEF RpcProxyHandles
  <2>. QED
    BY <2>1, <2>2
<1>7. ASSUME NEW c \in Call, KillAfter(c)
      PROVE  [Abstract!Next]_(Abstract!vars)
  BY <1>0, <1>7, Refusals DEF KillAfter
<1>8. ASSUME NEW c \in Call, CallerTimesOut(c)
      PROVE  [Abstract!Next]_(Abstract!vars)
  <2>1. {c} \in SUBSET Call /\ \A d \in {c} : caller[d] = "waiting"
    BY <1>8 DEF CallerTimesOut
  <2>2. caller' = [d \in Call |-> IF d \in {c} THEN "timedout" ELSE caller[d]]
    BY <1>0, <1>8 DEF CallerTimesOut, TypeOK
  <2>3. UNCHANGED <<got, given>>
    BY <1>8 DEF CallerTimesOut
  <2>. QED
    BY <1>0, <2>1, <2>2, <2>3, RefusalErrs
<1>9. ASSUME NEW c \in Call, TaskStep(c) \/ TargetDrops(c)
      PROVE  [Abstract!Next]_(Abstract!vars)
  <2>1. CASE TaskSpawnsRpcProxy(c)
    <3>1. (UNCHANGED caller \/ caller' = Refused(caller, {c})) /\ UNCHANGED <<got, given>>
      BY <2>1 DEF TaskSpawnsRpcProxy
    <3>. QED
      BY <1>0, <3>1, Refusals, Stutters
  <2>2. CASE ~TaskSpawnsRpcProxy(c)
    <3>1. UNCHANGED <<caller, got, given>>
      BY <1>9, <2>2
      DEF TaskStep, TaskTransmits, ForwarderForwards, ForwarderEnds, AnswerTransmits,
          WatcherReports, TargetDrops
    <3>. QED
      BY <3>1, Stutters
  <2>. QED
    BY <2>1, <2>2
<1>10. CASE LinkBreaks
  BY <1>10, Stutters DEF LinkBreaks
<1>. QED
  BY <1>1, <1>3, <1>4, <1>5, <1>6, <1>7, <1>8, <1>9, <1>10 DEF Next, Step

(* Whatever breaks, stops or is killed between a caller and its target,    *)
(* the chain of tasks and actors behind its port keeps the promise of a    *)
(* reply port: at most one answer, the one the target gave for this call.  *)
THEOREM ChainIsAPort == Spec => ImplementsOneShot
<1>1. Init => Abstract!Init
  BY DEF Init, Abstract!Init
<1>. QED
  BY <1>1, StepsOfAPort, ReplyPortInvariant, PTL DEF Spec, ImplementsOneShot, Abstract!Spec
=============================================================================
