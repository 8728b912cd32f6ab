---------------------------- MODULE PortalProofs ----------------------------
(***************************************************************************)
(* Two portals, for any number of actors, names, askers and messages: type *)
(* correctness, their opening, the tasks that ask them, and what their     *)
(* ids, names and messages mean on both sides.  TypeOK alone is not        *)
(* inductive: a serialization task takes what it sends from the closure    *)
(* that a proxy handed over, so the invariant also says that the closure   *)
(* is there (SendsAreOwned).                                               *)
(***************************************************************************)
EXTENDS Portal, TLAPS, SequenceTheorems, FiniteSetTheorems

USE DEF portalVars, registryVars, requestVars, conduitVars, historyVars

(* Queues, position by position: they grow at their end and shrink at      *)
(* their head.                                                             *)

(* What is left of a queue, position by position, when its head is taken. *)
LEMMA TailElements ==
  ASSUME NEW S, NEW q \in Seq(S), q # <<>>
  PROVE  /\ Tail(q) \in Seq(S)
         /\ Len(q) \in Nat /\ Len(q) > 0
         /\ DOMAIN q = 1 .. Len(q)
         /\ 1 \in DOMAIN q /\ Head(q) = q[1] /\ Head(q) \in S
         /\ Len(Tail(q)) = Len(q) - 1
         /\ DOMAIN Tail(q) = 1 .. Len(q) - 1
         /\ \A i \in DOMAIN Tail(q) : /\ i \in Nat /\ i + 1 \in DOMAIN q /\ i + 1 # 1
                                      /\ Tail(q)[i] = q[i + 1] /\ Tail(q)[i] \in S
<1>1. Len(q) \in Nat /\ DOMAIN q = 1 .. Len(q) /\ Len(q) # 0
  BY EmptySeq, LenProperties
<1>2. /\ Tail(q) \in Seq(S)
      /\ Len(Tail(q)) = Len(q) - 1
      /\ \A i \in 1 .. Len(Tail(q)) : Tail(q)[i] = q[i + 1]
  BY HeadTailProperties
<1>3. DOMAIN Tail(q) = 1 .. Len(q) - 1
  BY <1>2, LenProperties
<1>4. Head(q) = q[1] /\ 1 \in DOMAIN q /\ q[1] \in S
  BY <1>1, ElementOfSeq
<1>5. \A i \in DOMAIN Tail(q) : Tail(q)[i] \in S
  BY <1>2, <1>3, ElementOfSeq
<1>. QED
  BY <1>1, <1>2, <1>3, <1>4, <1>5

(* What is in a queue, position by position, when an element of its type   *)
(* is appended.                                                            *)
LEMMA AppendElements ==
  ASSUME NEW S, NEW q \in Seq(S), NEW e \in S
  PROVE  /\ Append(q, e) \in Seq(S)
         /\ Append(q, e) # <<>>
         /\ DOMAIN q = 1 .. Len(q)
         /\ Len(q) \in Nat
         /\ Len(Append(q, e)) = Len(q) + 1
         /\ DOMAIN Append(q, e) = 1 .. Len(q) + 1
         /\ \A i \in DOMAIN q : Append(q, e)[i] = q[i]
         /\ Append(q, e)[Len(q) + 1] = e
<1>1. Len(q) \in Nat /\ DOMAIN q = 1 .. Len(q)
  BY LenProperties
<1>2. /\ Append(q, e) \in Seq(S)
      /\ Append(q, e) # <<>>
      /\ Len(Append(q, e)) = Len(q) + 1
      /\ \A i \in 1 .. Len(q) : Append(q, e)[i] = q[i]
      /\ Append(q, e)[Len(q) + 1] = e
  BY AppendProperties
<1>3. DOMAIN Append(q, e) = 1 .. Len(q) + 1
  BY <1>2, LenProperties
<1>. QED
  BY <1>1, <1>2, <1>3

(* The same, for an element of any type. *)
LEMMA AppendPositions ==
  ASSUME NEW S, NEW q \in Seq(S), NEW e
  PROVE  /\ Append(q, e) # <<>>
         /\ Len(q) \in Nat
         /\ Len(Append(q, e)) = Len(q) + 1
         /\ DOMAIN q = 1 .. Len(q)
         /\ DOMAIN Append(q, e) = 1 .. Len(q) + 1
         /\ DOMAIN Append(q, e) = DOMAIN q \cup {Len(q) + 1}
         /\ Len(q) + 1 \notin DOMAIN q
         /\ \A i \in DOMAIN q : Append(q, e)[i] = q[i] /\ q[i] \in S
         /\ Append(q, e)[Len(q) + 1] = e
<1>1. q \in Seq(S \cup {e})
  BY LenProperties
<1>2. \A i \in DOMAIN q : q[i] \in S
  BY LenProperties, ElementOfSeq
<1>. QED
  BY <1>1, <1>2, AppendElements

(* What stands in a queue is of its type. *)
LEMMA EachElement ==
  ASSUME NEW S, NEW q \in Seq(S)
  PROVE  \A i \in DOMAIN q : q[i] \in S
BY ElementOfSeq, LenProperties

(* A queue that is not there has no positions. *)
LEMMA NoElements ==
  ASSUME NEW S
  PROVE  <<>> \in Seq(S) /\ DOMAIN <<>> = {} /\ Len(<<>>) = 0
BY EmptySeq
-----------------------------------------------------------------------------

(* The other side is a side, not this one, and its other side is this one. *)
LEMMA PeerFacts ==
  ASSUME NEW s \in Side
  PROVE  Peer(s) \in Side /\ Peer(s) # s /\ Peer(Peer(s)) = s
BY DEF Side, Peer

(* A hash map of the program stays one when an entry is inserted or        *)
(* removed.                                                                *)
LEMMA MapsAreTyped ==
  ASSUME NEW K, NEW V, NEW f, IsMap(f, K, V)
  PROVE  /\ \A k \in K, v \in V : IsMap(Insert(f, k, v), K, V)
         /\ \A k : IsMap(Remove(f, k), K, V)
         /\ \A k \in DOMAIN f : k \in K /\ f[k] \in V
         /\ IsMap(NoEntries, K, V)
BY DEF IsMap, Insert, Remove, ImageOf, NoEntries

(* A family of maps, one per portal, stays one when a portal changes its   *)
(* own.                                                                    *)
LEMMA MapPerSideUpdate ==
  ASSUME NEW K, NEW V, NEW v, MapPerSide(v, K, V), NEW s \in Side
  PROVE  /\ IsMap(v[s], K, V)
         /\ \A f : IsMap(f, K, V) => MapPerSide([v EXCEPT ![s] = f], K, V)
BY DEF MapPerSide

(* What each kind of message in a portal's mailbox carries                 *)
(* (PortalActorMessage, portal.rs).                                        *)
LEMMA MessageShapes ==
  ASSUME NEW m \in PortalActorMessage
  PROVE  /\ m.type = "Handshake" => m \in Handshakes
         /\ m.type = "RequestActorByName" => m.id \in Nat /\ m.name \in Name
         /\ m.type = "ResponseActorByName" => m.id \in Nat /\ m.response \in RemoteActorId \cup {None}
         /\ m.type = "SendMessage" => m.target \in RemoteActorId /\ m.payload \in Payload
         /\ m.type = "ActorExited" => m.target \in RemoteActorId
         /\ m.type = "PublishNamedActor" => m.name \in Name /\ m.actor \in Actor /\ m.port \in Asker \cup {None}
         /\ m.type = "PublishActor" => m.actor \in Actor /\ m.msg \in Msg
         /\ m.type = "QueryNamedRemoteActor" => m.name \in Name /\ m.port \in Asker
         /\ m.type = "WaitForHandshake" => m.port \in Asker
         /\ m.type = "ImmaterializeMessage" => m.msg \in Msg
         /\ m.type = "TransmitMessage" => m.target \in RemoteActorId /\ m.payload \in Payload
         /\ m.type = "RegisterProxy" => m.target \in RemoteActorId /\ m.proxy \in Proxy
         /\ m.type = "LocalActorExited" => m.actor \in Actor
BY DEF PortalActorMessage, ConduitMessage, LocalMessage, Handshakes, Contents

(* Taking a message off a mailbox and casting one to a portal keep the     *)
(* mailboxes typed.                                                        *)
LEMMA MailboxSteps ==
  ASSUME mailbox \in [Side -> Seq(PortalActorMessage)], NEW s \in Side
  PROVE  /\ mailbox[s] # <<>> => Head(mailbox[s]) \in PortalActorMessage
         /\ mailbox[s] # <<>> /\ Done(s) => mailbox' \in [Side -> Seq(PortalActorMessage)]
         /\ \A m \in PortalActorMessage :
              /\ Cast(s, m) => mailbox' \in [Side -> Seq(PortalActorMessage)]
              /\ mailbox[s] # <<>> /\ DoneThenCast(s, m) 
                   => mailbox' \in [Side -> Seq(PortalActorMessage)]
<1>1. mailbox[s] \in Seq(PortalActorMessage)
  OBVIOUS
<1>2. mailbox[s] # <<>> => /\ Head(mailbox[s]) \in PortalActorMessage
                           /\ Tail(mailbox[s]) \in Seq(PortalActorMessage)
  BY <1>1, HeadTailProperties
<1>3. \A m \in PortalActorMessage :
         /\ Append(mailbox[s], m) \in Seq(PortalActorMessage)
         /\ mailbox[s] # <<>> => Append(Tail(mailbox[s]), m) \in Seq(PortalActorMessage)
  BY <1>1, <1>2, AppendProperties
<1>4. \A q \in Seq(PortalActorMessage) :
         [mailbox EXCEPT ![s] = q] \in [Side -> Seq(PortalActorMessage)]
  OBVIOUS
<1>. QED
  BY <1>2, <1>3, <1>4 DEF Done, Cast, DoneThenCast

(* A frame written to the sink keeps the streams typed. *)
LEMMA WireSteps ==
  ASSUME wire \in [Side -> Seq(ConduitMessage)], NEW s \in Side, NEW m \in ConduitMessage, Sends(s, m)
  PROVE  wire' \in [Side -> Seq(ConduitMessage)]
BY AppendProperties DEF Sends

(* What a portal sends as the id of an actor is a RemoteActorId, also of   *)
(* one nobody published.                                                   *)
LEMMA RemoteIdTyped ==
  ASSUME TypeOK, NEW s \in Side, NEW id \in OpaqueActorId
  PROVE  RemoteId(s, id) \in RemoteActorId
BY DEF TypeOK, RemoteId, RemoteActorId

(* Answering an asking task changes its answer only, to one of those there *)
(* may be.                                                                 *)
LEMMA RepliesTyped ==
  ASSUME TypeOK, NEW s \in Side, NEW q \in Asker, NEW got \in RemoteActorId \cup {None},
         Replies(s, q, got)
  PROVE  asker' \in [Side -> [Asker -> AskerState]]
<1>1. asker[s][q] \in AskerState /\ asker \in [Side -> [Asker -> AskerState]]
  BY DEF TypeOK
<1>2. [asker[s][q] EXCEPT !.state = "answered", !.got = got] \in AskerState
  BY <1>1 DEF AskerState, AskerStates
<1>3. asker' = [asker EXCEPT ![s] = [asker[s] EXCEPT ![q] =
                  [asker[s][q] EXCEPT !.state = "answered", !.got = got]]]
  BY <1>1 DEF Replies
<1>. QED
  BY <1>1, <1>2, <1>3

(* Dropping reply ports leaves the askers typed. *)
LEMMA RefusedTyped ==
  ASSUME NEW f \in [Asker -> AskerState], NEW Q
  PROVE  Refused(f, Q) \in [Asker -> AskerState]
BY DEF Refused, AskerState, AskerStates

(* publish_actor returns an id and leaves published_actors a map from ids  *)
(* to actors.                                                              *)
LEMMA PublishActorTyped ==
  ASSUME TypeOK, NEW s \in Side, NEW a \in Actor, NEW id \in OpaqueActorId, PublishActor(s, a, id)
  PROVE  /\ MapPerSide(published, OpaqueActorId, Actor)'
         /\ watched' \in [Side -> SUBSET Actor]
<1>1. CASE UNCHANGED <<published, watched>>
  BY <1>1 DEF TypeOK
<1>2. CASE /\ published' = [published EXCEPT ![s] = Insert(@, id, a)]
           /\ watched' = [watched EXCEPT ![s] = @ \cup {a}]
  <2>1. IsMap(Insert(published[s], id, a), OpaqueActorId, Actor)
    BY MapPerSideUpdate, MapsAreTyped DEF TypeOK
  <2>2. MapPerSide([published EXCEPT ![s] = Insert(published[s], id, a)], OpaqueActorId, Actor)
    BY <2>1, MapPerSideUpdate DEF TypeOK
  <2>. QED
    BY <1>2, <2>2 DEF TypeOK
<1>. QED
  BY <1>1, <1>2 DEF PublishActor

(* The end of a portal, with its mailbox, its proxies, its ports and its   *)
(* sink, keeps the types.                                                  *)
LEMMA GoesDownTyped ==
  ASSUME TypeOK, NEW s \in Side, NEW why \in Exits,
         GoesDown(s, why)
  PROVE  TypeOK'
<1>1. asker' \in [Side -> [Asker -> AskerState]]
  BY RefusedTyped DEF TypeOK, GoesDown
<1>2. task' \in [Side -> [Msg -> TaskState]]
  <2>1. Abandoned(task[s]) \in [Msg -> TaskState]
    <3>1. task[s] \in [Msg -> TaskState]
      BY DEF TypeOK
    <3>2. \A m \in Msg : [task[s][m] EXCEPT !.state = "done"] \in TaskState
      BY <3>1 DEF TaskState
    <3>. QED
      BY <3>1, <3>2 DEF Abandoned
  <2>. QED
    BY <2>1 DEF TypeOK, GoesDown
<1>3. proxy' \in [Side -> [Proxy -> ProxyState]]
  <2>1. Stopped(proxy[s]) \in [Proxy -> ProxyState]
    <3>1. proxy[s] \in [Proxy -> ProxyState]
      BY DEF TypeOK
    <3>2. \A p \in Proxy : [proxy[s][p] EXCEPT !.state = "stopped"] \in ProxyState
      BY <3>1 DEF ProxyState
    <3>. QED
      BY <3>1, <3>2 DEF Stopped
  <2>. QED
    BY <2>1 DEF TypeOK, GoesDown
<1>4. MapPerSide(proxies, RemoteActorId, Proxy)'
  <2>1. MapPerSide([proxies EXCEPT ![s] = NoEntries], RemoteActorId, Proxy)
    BY MapPerSideUpdate, MapsAreTyped DEF TypeOK
  <2>. QED
    BY <2>1 DEF GoesDown
<1>5. MapPerSide(openRequests, Nat, Asker)'
  <2>1. MapPerSide([openRequests EXCEPT ![s] = NoEntries], Nat, Asker)
    BY MapPerSideUpdate, MapsAreTyped DEF TypeOK
  <2>. QED
    BY <2>1 DEF GoesDown
<1>6. /\ status' \in [Side -> {"idle", "opening", "open", "down"}]
      /\ exit' \in [Side -> Exits \cup {None}]
      /\ waiting' \in [Side -> Seq(Asker)]
      /\ mailbox' \in [Side -> Seq(PortalActorMessage)]
  BY DEF TypeOK, GoesDown
<1>. QED
  BY <1>1, <1>2, <1>3, <1>4, <1>5, <1>6
  DEF TypeOK, GoesDown
-----------------------------------------------------------------------------
(* A setting draws its introductions' contributions from Contribution. *)
LEMMA SettingContributions ==
  ASSUME TypeOK
  PROVE  setting.contributions \subseteq Contribution
<1>1. setting \in Setting
  BY PortalAssumption DEF TypeOK
<1>. QED
  BY <1>1 DEF Setting

(* Starting a portal (pre_start), with its introduction written, keeps the *)
(* types.                                                                  *)
LEMMA ConnectTyped ==
  ASSUME TypeOK, NEW s \in Side, Connect(s)
  PROVE  TypeOK'
<1>1. PICK c \in Contribution :
        /\ contribution' = [contribution EXCEPT ![s] = c]
        /\ Sends(s, [type |-> "Handshake", contribution |-> c])
  BY SettingContributions DEF Connect, SendsIntroduction, Introduction
<1>2. wire' \in [Side -> Seq(ConduitMessage)]
  <2>1. [type |-> "Handshake", contribution |-> c] \in ConduitMessage
    BY DEF ConduitMessage, Handshakes
  <2>. QED
    BY <1>1, <2>1, WireSteps DEF TypeOK
<1>3. contribution' \in [Side -> ConduitID]
  BY <1>1, PortalAssumption DEF TypeOK, ConduitID
<1>. QED
  BY <1>2, <1>3 DEF TypeOK, Connect, SendsIntroduction, Introduction

(* A portal that does not start keeps the types. *)
LEMMA ConnectFailsTyped ==
  ASSUME TypeOK, NEW s \in Side, ConnectFails(s)
  PROVE  TypeOK'
BY DEF TypeOK, ConnectFails, Exits

(* The receive loop casting what it reads keeps the types. *)
LEMMA ReceiveLoopReadsTyped ==
  ASSUME TypeOK, NEW s \in Side, ReceiveLoopReads(s)
  PROVE  TypeOK'
<1>1. Peer(s) \in Side /\ wire[Peer(s)] \in Seq(ConduitMessage) /\ wire[Peer(s)] # <<>>
  BY PeerFacts DEF TypeOK, ReceiveLoopReads
<1>2. Head(wire[Peer(s)]) \in ConduitMessage /\ Tail(wire[Peer(s)]) \in Seq(ConduitMessage)
  BY <1>1, HeadTailProperties
<1>3. wire' \in [Side -> Seq(ConduitMessage)]
  <2>1. /\ wire \in [Side -> Seq(ConduitMessage)]
        /\ <<>> \in Seq(ConduitMessage)
    BY DEF TypeOK
  <2>2. \/ wire' = [wire EXCEPT ![Peer(s)] = Tail(@)]
        \/ wire' = [wire EXCEPT ![Peer(s)] = <<>>]
    BY DEF ReceiveLoopReads
  <2>. QED
    BY <1>1, <1>2, <2>1, <2>2
<1>4. mailbox' \in [Side -> Seq(PortalActorMessage)]
  BY <1>2, MailboxSteps DEF TypeOK, ReceiveLoopReads, PortalActorMessage
<1>5. loop' \in [Side -> {"idle", "running", "done"}]
  <2>1. loop' = loop \/ loop' = [loop EXCEPT ![s] = "done"]
    BY DEF ReceiveLoopReads
  <2>. QED
    BY <2>1 DEF TypeOK
<1>. QED
  BY <1>3, <1>4, <1>5 DEF TypeOK, ReceiveLoopReads

(* The receive loop casting Close at the end of the source keeps the       *)
(* types.                                                                  *)
LEMMA ReceiveLoopEndsTyped ==
  ASSUME TypeOK, NEW s \in Side, ReceiveLoopEnds(s)
  PROVE  TypeOK'
<1>1. [type |-> "Close"] \in PortalActorMessage
  BY DEF PortalActorMessage, LocalMessage
<1>2. mailbox' \in [Side -> Seq(PortalActorMessage)]
  BY <1>1, MailboxSteps DEF TypeOK, ReceiveLoopEnds, CastsClose
<1>3. /\ wire' \in [Side -> Seq(ConduitMessage)]
      /\ loop' \in [Side -> {"idle", "running", "done"}]
  BY PeerFacts DEF TypeOK, ReceiveLoopEnds
<1>. QED
  BY <1>2, <1>3 DEF TypeOK, ReceiveLoopEnds

(* The handler of Handshake, which opens the portal, keeps the types. *)
LEMMA HandleHandshakeTyped ==
  ASSUME TypeOK, NEW s \in Side, HandleHandshake(s)
  PROVE  TypeOK'
<1>1. /\ Head(mailbox[s]) \in Handshakes
      /\ mailbox' \in [Side -> Seq(PortalActorMessage)]
  BY MessageShapes, MailboxSteps DEF TypeOK, HandleHandshake, TellsWaiting, Takes
<1>2. channel' \in [Side -> ConduitID]
  <2>1. Head(mailbox[s]).contribution \in ConduitID
    BY <1>1 DEF Handshakes, ConduitID
  <2>2. XorArrays(contribution[s], Head(mailbox[s]).contribution) \in ConduitID
    BY <2>1 DEF TypeOK, ConduitID, XorArrays
  <2>. QED
    BY <2>2 DEF TypeOK, HandleHandshake, TellsWaiting
<1>3. asker' \in [Side -> [Asker -> AskerState]]
  <2>1. asker[s] \in [Asker -> AskerState] /\ asker \in [Side -> [Asker -> AskerState]]
    BY DEF TypeOK
  <2>2. \A q \in Asker : [asker[s][q] EXCEPT !.state = "answered"] \in AskerState
    BY <2>1, Zenon DEF AskerState, AskerStates
  <2>. DEFINE woken == [q \in Asker |-> IF q \in ImageOf(waiting[s]) /\ Waits(s, q)
                                       THEN [asker[s][q] EXCEPT !.state = "answered"]
                                       ELSE asker[s][q]]
  <2>3. asker' = [asker EXCEPT ![s] = woken]
    BY DEF HandleHandshake, TellsWaiting
  <2>4. woken \in [Asker -> AskerState]
    BY <2>1, <2>2
  <2>. QED
    BY <2>1, <2>3, <2>4
<1>. QED
  BY <1>1, <1>2, <1>3 DEF TypeOK, HandleHandshake, TellsWaiting

(* The handler of Close keeps the types. *)
LEMMA HandleCloseTyped ==
  ASSUME TypeOK, NEW s \in Side, HandleClose(s)
  PROVE  TypeOK'
BY GoesDownTyped DEF HandleClose, Exits

(* A handler that returns an error keeps the types. *)
LEMMA PortalFailsTyped ==
  ASSUME TypeOK, NEW s \in Side, PortalFails(s)
  PROVE  TypeOK'
BY GoesDownTyped DEF PortalFails, Exits

(* A stop of the portal keeps the types. *)
LEMMA AppStopsPortalTyped ==
  ASSUME TypeOK, NEW s \in Side, AppStopsPortal(s)
  PROVE  TypeOK'
BY GoesDownTyped DEF AppStopsPortal, Exits

(* The handler of RequestActorByName, which may publish an actor the nexus *)
(* knows, keeps the types.                                                 *)
LEMMA HandleRequestActorByNameTyped ==
  ASSUME TypeOK, NEW s \in Side, HandleRequestActorByName(s)
  PROVE  TypeOK'
<1>. DEFINE m == Head(mailbox[s])
            Response(r) == [type |-> "ResponseActorByName", id |-> m.id, response |-> r]
<1>1. /\ m.id \in Nat /\ m.name \in Name
      /\ mailbox' \in [Side -> Seq(PortalActorMessage)]
  BY MessageShapes, MailboxSteps DEF TypeOK, HandleRequestActorByName, TakesWhenOpen, Takes
<1>2. \A r \in RemoteActorId \cup {None} :
        Sends(s, Response(r)) => wire' \in [Side -> Seq(ConduitMessage)]
  <2>1. \A r \in RemoteActorId \cup {None} : Response(r) \in ConduitMessage
    BY <1>1 DEF ConduitMessage, Contents
  <2>. QED
    BY <2>1, WireSteps DEF TypeOK
<1>3. CASE /\ m.name \in DOMAIN named[s]
           /\ Sends(s, Response(RemoteId(s, named[s][m.name])))
           /\ UNCHANGED <<published, watched>>
  <2>1. named[s][m.name] \in OpaqueActorId
    BY <1>3, MapPerSideUpdate, MapsAreTyped DEF TypeOK
  <2>2. RemoteId(s, named[s][m.name]) \in RemoteActorId
    BY <2>1, RemoteIdTyped
  <2>3. wire' \in [Side -> Seq(ConduitMessage)]
    BY <1>2, <1>3, <2>2
  <2>. QED
    BY <1>1, <1>3, <2>3 DEF TypeOK, HandleRequestActorByName
<1>4. CASE \E id \in OpaqueActorId : 
             /\ m.name \in DOMAIN nexusNamed[s]
             /\ PublishActor(s, nexusNamed[s][m.name], id)
             /\ Sends(s, Response(RemoteId(s, id)))
  <2>1. PICK id \in OpaqueActorId : /\ m.name \in DOMAIN nexusNamed[s]
                                    /\ PublishActor(s, nexusNamed[s][m.name], id)
                                    /\ Sends(s, Response(RemoteId(s, id)))
    BY <1>4
  <2>2. nexusNamed[s][m.name] \in Actor
    BY <2>1, MapPerSideUpdate, MapsAreTyped DEF TypeOK
  <2>3. /\ MapPerSide(published, OpaqueActorId, Actor)'
        /\ watched' \in [Side -> SUBSET Actor]
    BY <2>1, <2>2, PublishActorTyped
  <2>4. wire' \in [Side -> Seq(ConduitMessage)]
    BY <1>2, <2>1, RemoteIdTyped
  <2>. QED
    BY <1>1, <2>3, <2>4 DEF TypeOK, HandleRequestActorByName
<1>5. CASE Sends(s, Response(None)) /\ UNCHANGED <<published, watched>>
  <2>1. wire' \in [Side -> Seq(ConduitMessage)]
    BY <1>2, <1>5
  <2>. QED
    BY <1>1, <1>5, <2>1 DEF TypeOK, HandleRequestActorByName
<1>. QED
  BY <1>3, <1>4, <1>5 DEF HandleRequestActorByName, NexusKnows

(* The handler of ResponseActorByName, which answers the request of that   *)
(* number, keeps the types.                                                *)
LEMMA HandleResponseActorByNameTyped ==
  ASSUME TypeOK, NEW s \in Side, HandleResponseActorByName(s)
  PROVE  TypeOK'
<1>. DEFINE m == Head(mailbox[s])
<1>1. /\ m.response \in RemoteActorId \cup {None}
      /\ mailbox' \in [Side -> Seq(PortalActorMessage)]
  BY MessageShapes, MailboxSteps DEF TypeOK, HandleResponseActorByName, TakesWhenOpen, Takes
<1>2. CASE m.id \in DOMAIN openRequests[s]
  <2>1. openRequests[s][m.id] \in Asker
    BY <1>2, MapPerSideUpdate, MapsAreTyped DEF TypeOK
  <2>2. asker' \in [Side -> [Asker -> AskerState]]
    BY <1>1, <1>2, <2>1, RepliesTyped DEF HandleResponseActorByName
  <2>3. IsMap(Remove(openRequests[s], m.id), Nat, Asker)
    BY MapPerSideUpdate, MapsAreTyped DEF TypeOK
  <2>4. MapPerSide([openRequests EXCEPT ![s] = Remove(openRequests[s], m.id)], Nat, Asker)
    BY <2>3, MapPerSideUpdate DEF TypeOK
  <2>. QED
    BY <1>1, <1>2, <2>2, <2>4 DEF TypeOK, HandleResponseActorByName
<1>3. CASE m.id \notin DOMAIN openRequests[s]
  BY <1>1, <1>3 DEF TypeOK, HandleResponseActorByName
<1>. QED
  BY <1>2, <1>3

(* The handler of SendMessage, which delivers and may start a proxy for    *)
(* the reference inside, keeps the types.                                  *)
LEMMA HandleSendMessageTyped ==
  ASSUME TypeOK, NEW s \in Side, HandleSendMessage(s)
  PROVE  TypeOK'
<1>. DEFINE m == Head(mailbox[s])
            a == published[s][m.target.id]
<1>1. m.payload \in Payload /\ mailbox[s] # <<>>
  BY MessageShapes, MailboxSteps, Zenon DEF TypeOK, HandleSendMessage, TakesWhenOpen, Takes
<1>2. m.payload.msg \in Msg /\ m.payload.msg \in Proxy /\ m.payload.ref \in RemoteActorId \cup {None}
  BY <1>1 DEF Payload, Proxy
<1>3. mailbox' \in [Side -> Seq(PortalActorMessage)]
  <2>1. m.payload.ref # None =>
          [type |-> "RegisterProxy", target |-> m.payload.ref, proxy |-> m.payload.msg]
            \in PortalActorMessage
    BY <1>2 DEF PortalActorMessage, LocalMessage
  <2>. QED
    BY <1>1, <2>1, MailboxSteps, Zenon DEF TypeOK, HandleSendMessage
<1>4. CASE m.target.id \in DOMAIN published[s]
  <2>1. a \in Actor
    BY <1>4, MapPerSideUpdate, MapsAreTyped DEF TypeOK
  <2>2. inbox[s][a] \in Seq(Payload) /\ Append(inbox[s][a], m.payload) \in Seq(Payload)
    BY <1>1, <2>1, AppendProperties DEF TypeOK
  <2>3. inbox' \in [Side -> [Actor -> Seq(Payload)]]
    <3>1. inbox' = [inbox EXCEPT ![s][a] = Append(@, m.payload)]
      BY <1>4, Zenon DEF HandleSendMessage
    <3>. QED
      BY <2>1, <2>2, <3>1, Zenon DEF TypeOK
  <2>4. proxy' \in [Side -> [Proxy -> ProxyState]]
    <3>1. m.payload.ref # None => 
            [state |-> "running", target |-> m.payload.ref] \in ProxyState
      BY <1>2 DEF ProxyState
    <3>2. \/ proxy' = proxy
          \/ /\ m.payload.ref # None
             /\ proxy' = [proxy EXCEPT ![s][m.payload.msg] =
                            [state |-> "running", target |-> m.payload.ref]]
      BY <1>4, Zenon DEF HandleSendMessage
    <3>3. proxy \in [Side -> [Proxy -> ProxyState]]
      BY DEF TypeOK
    <3>. QED
      BY <1>2, <3>1, <3>2, <3>3
  <2>. QED
    BY <1>3, <2>3, <2>4, Zenon DEF TypeOK, HandleSendMessage
<1>5. CASE m.target.id \notin DOMAIN published[s]
  BY <1>3, <1>5 DEF TypeOK, HandleSendMessage
<1>. QED
  BY <1>4, <1>5

(* The handler of ActorExited, which stops the registered proxy, keeps the *)
(* types.                                                                  *)
LEMMA HandleActorExitedTyped ==
  ASSUME TypeOK, NEW s \in Side, HandleActorExited(s)
  PROVE  TypeOK'
<1>. DEFINE m == Head(mailbox[s])
            p == proxies[s][m.target]
<1>1. mailbox' \in [Side -> Seq(PortalActorMessage)]
  BY MailboxSteps DEF TypeOK, HandleActorExited, TakesWhenOpen, Takes
<1>2. CASE m.target \in DOMAIN proxies[s]
  <2>1. p \in Proxy /\ IsMap(Remove(proxies[s], m.target), RemoteActorId, Proxy)
    BY <1>2, MapPerSideUpdate, MapsAreTyped DEF TypeOK
  <2>2. MapPerSide([proxies EXCEPT ![s] = Remove(proxies[s], m.target)], RemoteActorId, Proxy)
    BY <2>1, MapPerSideUpdate DEF TypeOK
  <2>3. proxy' \in [Side -> [Proxy -> ProxyState]]
    <3>1. proxy[s][p] \in ProxyState /\ proxy \in [Side -> [Proxy -> ProxyState]]
      BY <2>1 DEF TypeOK
    <3>2. [proxy[s][p] EXCEPT !.state = "stopped"] \in ProxyState
      BY <3>1 DEF ProxyState
    <3>3. proxy' = [proxy EXCEPT ![s] = [proxy[s] EXCEPT ![p] =
                      [proxy[s][p] EXCEPT !.state = "stopped"]]]
      BY <1>2, <3>1 DEF HandleActorExited
    <3>. QED
      BY <2>1, <3>1, <3>2, <3>3
  <2>. QED
    BY <1>1, <1>2, <2>2, <2>3 DEF TypeOK, HandleActorExited
<1>3. CASE m.target \notin DOMAIN proxies[s]
  BY <1>1, <1>3 DEF TypeOK, HandleActorExited
<1>. QED
  BY <1>2, <1>3

(* The handler of WaitForHandshake, which answers or remembers the port,   *)
(* keeps the types.                                                        *)
LEMMA HandleWaitForHandshakeTyped ==
  ASSUME TypeOK, NEW s \in Side, HandleWaitForHandshake(s)
  PROVE  TypeOK'
<1>. DEFINE q == Head(mailbox[s]).port
<1>1. /\ q \in Asker
      /\ mailbox' \in [Side -> Seq(PortalActorMessage)]
  BY MessageShapes, MailboxSteps DEF TypeOK, HandleWaitForHandshake, Takes
<1>2. waiting' \in [Side -> Seq(Asker)]
  <2>. waiting \in [Side -> Seq(Asker)]
    BY DEF TypeOK
  <2>1. Append(waiting[s], q) \in Seq(Asker)
    BY <1>1, AppendProperties
  <2>2. waiting' = waiting \/ waiting' = [waiting EXCEPT ![s] = Append(@, q)]
    BY DEF HandleWaitForHandshake
  <2>. QED
    BY <2>1, <2>2
<1>3. asker' \in [Side -> [Asker -> AskerState]]
  BY <1>1, RepliesTyped DEF TypeOK, HandleWaitForHandshake
<1>. QED
  BY <1>1, <1>2, <1>3 DEF TypeOK, HandleWaitForHandshake

(* The handler of PublishNamedActor keeps the types. *)
LEMMA HandlePublishNamedActorTyped ==
  ASSUME TypeOK, NEW s \in Side, HandlePublishNamedActor(s)
  PROVE  TypeOK'
<1>. DEFINE m == Head(mailbox[s])
<1>1. /\ m.name \in Name /\ m.actor \in Actor /\ m.port \in Asker \cup {None}
      /\ mailbox' \in [Side -> Seq(PortalActorMessage)]
  BY MessageShapes, MailboxSteps DEF TypeOK, HandlePublishNamedActor, Takes
<1>2. PICK id \in OpaqueActorId :
        /\ PublishActor(s, m.actor, id)
        /\ named' = [named EXCEPT ![s] = Insert(@, m.name, id)]
        /\ IF m.port = None
           THEN UNCHANGED asker
           ELSE /\ Waits(s, m.port)
                /\ Replies(s, m.port, IF status[s] = "open" THEN RemoteId(s, id) ELSE None)
  BY DEF HandlePublishNamedActor
<1>3. /\ MapPerSide(published, OpaqueActorId, Actor)'
      /\ watched' \in [Side -> SUBSET Actor]
  BY <1>1, <1>2, PublishActorTyped
<1>4. MapPerSide(named, Name, OpaqueActorId)'
  <2>1. IsMap(Insert(named[s], m.name, id), Name, OpaqueActorId)
    BY <1>1, MapPerSideUpdate, MapsAreTyped DEF TypeOK
  <2>2. MapPerSide([named EXCEPT ![s] = Insert(named[s], m.name, id)], Name, OpaqueActorId)
    BY <2>1, MapPerSideUpdate DEF TypeOK
  <2>. QED
    BY <1>2, <2>2
<1>5. asker' \in [Side -> [Asker -> AskerState]]
  <2>1. RemoteId(s, id) \in RemoteActorId
    BY RemoteIdTyped
  <2>2. CASE m.port = None
    BY <1>2, <2>2 DEF TypeOK
  <2>3. CASE m.port # None
    BY <1>1, <1>2, <2>1, <2>3, RepliesTyped
  <2>. QED
    BY <2>2, <2>3
<1>. QED
  BY <1>1, <1>3, <1>4, <1>5 DEF TypeOK, HandlePublishNamedActor

(* The handler of PublishActor, which answers a serialization task, keeps  *)
(* the types.                                                              *)
LEMMA HandlePublishActorTyped ==
  ASSUME TypeOK, NEW s \in Side, HandlePublishActor(s)
  PROVE  TypeOK'
<1>. DEFINE m == Head(mailbox[s])
<1>1. /\ m.actor \in Actor /\ m.msg \in Msg
      /\ mailbox' \in [Side -> Seq(PortalActorMessage)]
  BY MessageShapes, MailboxSteps DEF TypeOK, HandlePublishActor, TakesWhenOpen, Takes
<1>2. PICK id \in OpaqueActorId :
        /\ PublishActor(s, m.actor, id)
        /\ task' = [task EXCEPT ![s][m.msg] = [state |-> "encoded", id |-> RemoteId(s, id)]]
  BY DEF HandlePublishActor
<1>3. /\ MapPerSide(published, OpaqueActorId, Actor)'
      /\ watched' \in [Side -> SUBSET Actor]
  BY <1>1, <1>2, PublishActorTyped
<1>4. task' \in [Side -> [Msg -> TaskState]]
  <2>1. [state |-> "encoded", id |-> RemoteId(s, id)] \in TaskState
    BY RemoteIdTyped DEF TaskState
  <2>. QED
    BY <1>1, <1>2, <2>1 DEF TypeOK
<1>. QED
  BY <1>1, <1>3, <1>4 DEF TypeOK, HandlePublishActor

(* The handler of QueryNamedRemoteActor, which numbers the request, keeps  *)
(* the types.                                                              *)
LEMMA HandleQueryNamedRemoteActorTyped ==
  ASSUME TypeOK, NEW s \in Side, HandleQueryNamedRemoteActor(s)
  PROVE  TypeOK'
<1>. DEFINE m == Head(mailbox[s])
<1>1. /\ m.name \in Name /\ m.port \in Asker
      /\ mailbox' \in [Side -> Seq(PortalActorMessage)]
  BY MessageShapes, MailboxSteps DEF TypeOK, HandleQueryNamedRemoteActor, Takes
<1>2. /\ nextRequest \in [Side -> Nat] /\ nextRequest[s] \in Nat
      /\ MapPerSide(openRequests, Nat, Asker)
  BY DEF TypeOK
<1>3. CASE status[s] = "open"
  <2>1. [type |-> "RequestActorByName", id |-> nextRequest[s], name |-> m.name] \in ConduitMessage
    BY <1>1, <1>2 DEF ConduitMessage, Contents
  <2>2. wire' \in [Side -> Seq(ConduitMessage)]
    BY <1>3, <2>1, WireSteps DEF TypeOK, HandleQueryNamedRemoteActor
  <2>3. MapPerSide(openRequests, Nat, Asker)'
    <3>1. IsMap(Insert(openRequests[s], nextRequest[s], m.port), Nat, Asker)
      <4>1. IsMap(openRequests[s], Nat, Asker)
        BY <1>2, MapPerSideUpdate
      <4>. HIDE DEF m
      <4>2. \A k \in Nat, v \in Asker : IsMap(Insert(openRequests[s], k, v), Nat, Asker)
        BY <4>1, MapsAreTyped
      <4>. QED
        BY <1>1, <1>2, <4>2
    <3>2. MapPerSide([openRequests EXCEPT ![s] =
                        Insert(openRequests[s], nextRequest[s], m.port)], Nat, Asker)
      BY <3>1, MapPerSideUpdate DEF TypeOK
    <3>. QED
      BY <1>3, <3>2 DEF HandleQueryNamedRemoteActor
  <2>4. nextRequest' \in [Side -> Nat]
    BY <1>2, <1>3 DEF HandleQueryNamedRemoteActor, TakesRequestId
  <2>5. asker' = asker
    BY <1>3 DEF HandleQueryNamedRemoteActor
  <2>. QED
    BY <1>1, <2>2, <2>3, <2>4, <2>5 DEF TypeOK, HandleQueryNamedRemoteActor
<1>4. CASE status[s] = "opening"
  <2>1. Refused(asker[s], {m.port}) \in [Asker -> AskerState]
    BY RefusedTyped DEF TypeOK
  <2>2. asker' \in [Side -> [Asker -> AskerState]]
    BY <1>4, <2>1 DEF TypeOK, HandleQueryNamedRemoteActor
  <2>. QED
    BY <1>1, <1>4, <2>2 DEF TypeOK, HandleQueryNamedRemoteActor
<1>. QED
  BY <1>3, <1>4 DEF HandleQueryNamedRemoteActor, Takes, Live

(* The handler of ImmaterializeMessage, which starts a serialization task, *)
(* keeps the types.                                                        *)
LEMMA HandleImmaterializeMessageTyped ==
  ASSUME TypeOK, NEW s \in Side, HandleImmaterializeMessage(s)
  PROVE  TypeOK'
<1>1. /\ Head(mailbox[s]).msg \in Msg
      /\ mailbox' \in [Side -> Seq(PortalActorMessage)]
  BY MessageShapes, MailboxSteps DEF TypeOK, HandleImmaterializeMessage, TakesWhenOpen, Takes
<1>2. task' \in [Side -> [Msg -> TaskState]]
  BY <1>1 DEF TypeOK, HandleImmaterializeMessage, TaskState
<1>. QED
  BY <1>1, <1>2 DEF TypeOK, HandleImmaterializeMessage

(* The handler of TransmitMessage keeps the types. *)
LEMMA HandleTransmitMessageTyped ==
  ASSUME TypeOK, NEW s \in Side, HandleTransmitMessage(s)
  PROVE  TypeOK'
<1>. DEFINE m == Head(mailbox[s])
<1>1. /\ m.target \in RemoteActorId /\ m.payload \in Payload
      /\ mailbox' \in [Side -> Seq(PortalActorMessage)]
  BY MessageShapes, MailboxSteps DEF TypeOK, HandleTransmitMessage, TakesWhenOpen, Takes
<1>2. wire' \in [Side -> Seq(ConduitMessage)]
  <2>1. [type |-> "SendMessage", target |-> m.target, payload |-> m.payload] \in ConduitMessage
    BY <1>1 DEF ConduitMessage, Contents
  <2>. QED
    BY <2>1, WireSteps DEF TypeOK, HandleTransmitMessage
<1>. QED
  BY <1>1, <1>2 DEF TypeOK, HandleTransmitMessage

(* The handler of RegisterProxyForRemoteActor keeps the types. *)
LEMMA HandleRegisterProxyTyped ==
  ASSUME TypeOK, NEW s \in Side, HandleRegisterProxy(s)
  PROVE  TypeOK'
<1>. DEFINE m == Head(mailbox[s])
<1>1. /\ m.target \in RemoteActorId /\ m.proxy \in Proxy
      /\ mailbox' \in [Side -> Seq(PortalActorMessage)]
  BY MessageShapes, MailboxSteps DEF TypeOK, HandleRegisterProxy, TakesWhenOpen, Takes
<1>2. MapPerSide([proxies EXCEPT ![s] = Insert(proxies[s], m.target, m.proxy)],
                 RemoteActorId, Proxy)
  <2>1. IsMap(Insert(proxies[s], m.target, m.proxy), RemoteActorId, Proxy)
    BY <1>1, MapPerSideUpdate, MapsAreTyped DEF TypeOK
  <2>. QED
    BY <2>1, MapPerSideUpdate DEF TypeOK
<1>. QED
  BY <1>1, <1>2 DEF TypeOK, HandleRegisterProxy

(* The handler of LocalActorExited keeps the types. *)
LEMMA HandleLocalActorExitedTyped ==
  ASSUME TypeOK, NEW s \in Side, HandleLocalActorExited(s)
  PROVE  TypeOK'
<1>1. mailbox' \in [Side -> Seq(PortalActorMessage)]
  BY MailboxSteps DEF TypeOK, HandleLocalActorExited, Takes
<1>2. wire' \in [Side -> Seq(ConduitMessage)]
  <2>1. CASE UNCHANGED wire
    BY <2>1 DEF TypeOK
  <2>2. CASE \E id \in DOMAIN published[s] :
               Sends(s, [type |-> "ActorExited", target |-> RemoteId(s, id)])
    <3>1. PICK id \in DOMAIN published[s] :
            Sends(s, [type |-> "ActorExited", target |-> RemoteId(s, id)])
      BY <2>2
    <3>2. id \in OpaqueActorId
      BY MapPerSideUpdate, MapsAreTyped DEF TypeOK
    <3>3. [type |-> "ActorExited", target |-> RemoteId(s, id)] \in ConduitMessage
      BY <3>2, RemoteIdTyped DEF ConduitMessage, Contents
    <3>. QED
      BY <3>1, <3>3, WireSteps DEF TypeOK
  <2>. QED
    BY <2>1, <2>2 DEF HandleLocalActorExited, IdsOf
<1>. QED
  BY <1>1, <1>2 DEF TypeOK, HandleLocalActorExited
-----------------------------------------------------------------------------
(* The task that watches a published actor keeps the types. *)
LEMMA WatcherReportsTyped ==
  ASSUME TypeOK, NEW s \in Side, NEW a \in Actor, WatcherReports(s, a)
  PROVE  TypeOK'
<1>1. [type |-> "LocalActorExited", actor |-> a] \in PortalActorMessage
  BY DEF PortalActorMessage, LocalMessage
<1>2. mailbox' \in [Side -> Seq(PortalActorMessage)]
  BY <1>1, MailboxSteps DEF TypeOK, WatcherReports
<1>. QED
  BY <1>2 DEF TypeOK, WatcherReports

(* A serialization task at work has been handed a message of some target   *)
(* and reference.                                                          *)
LEMMA ClosureTyped ==
  ASSUME TypeOK, SendsAreOwned, NEW s \in Side, NEW m \in Msg,
         task[s][m].state \in {"encoding", "encoded"}
  PROVE  sent[s][m].target \in RemoteActorId /\ sent[s][m].ref \in Actor \cup {None}
<1>. DEFINE Closure == [target : RemoteActorId, ref : Actor \cup {None}]
<1>1. m \in DOMAIN sent[s]
  BY DEF SendsAreOwned, TasksHaveClosures
<1>2. sent[s][m] \in Closure
  <2>1. MapPerSide(sent, Msg, Closure)
    BY DEF TypeOK
  <2>. HIDE DEF Closure
  <2>2. IsMap(sent[s], Msg, Closure)
    BY <2>1, MapPerSideUpdate
  <2>. QED
    BY <1>1, <2>2, MapsAreTyped
<1>. QED
  BY <1>2

(* The state of one serialization task may change without the others. *)
LEMMA TaskStateUpdate ==
  ASSUME TypeOK, NEW s \in Side, NEW m \in Msg, NEW st \in {"asking", "done"},
         task' = [task EXCEPT ![s][m].state = st]
  PROVE  task' \in [Side -> [Msg -> TaskState]]
<1>1. task \in [Side -> [Msg -> TaskState]] /\ task[s][m] \in TaskState
  BY DEF TypeOK
<1>2. [task[s][m] EXCEPT !.state = st] \in TaskState
  BY <1>1 DEF TaskState
<1>3. task' = [task EXCEPT ![s] = [task[s] EXCEPT ![m] = [task[s][m] EXCEPT !.state = st]]]
  BY <1>1
<1>. QED
  BY <1>1, <1>2, <1>3

(* A serialization task asking for the id of a reference keeps the types. *)
LEMMA TaskAsksToPublishTyped ==
  ASSUME TypeOK, SendsAreOwned, NEW s \in Side, NEW m \in Msg, TaskAsksToPublish(s, m)
  PROVE  TypeOK'
<1>1. sent[s][m].ref \in Actor
  BY ClosureTyped DEF TaskAsksToPublish
<1>2. [type |-> "PublishActor", actor |-> sent[s][m].ref, msg |-> m] \in PortalActorMessage
  BY <1>1 DEF PortalActorMessage, LocalMessage
<1>3. mailbox' \in [Side -> Seq(PortalActorMessage)]
  BY <1>2, MailboxSteps DEF TypeOK, TaskAsksToPublish
<1>4. task' \in [Side -> [Msg -> TaskState]]
  BY TaskStateUpdate DEF TaskAsksToPublish
<1>. QED
  BY <1>3, <1>4 DEF TypeOK, TaskAsksToPublish

(* A serialization task handing the bytes to its portal keeps the types. *)
LEMMA TaskTransmitsTyped ==
  ASSUME TypeOK, SendsAreOwned, NEW s \in Side, NEW m \in Msg, TaskTransmits(s, m)
  PROVE  TypeOK'
<1>1. sent[s][m].target \in RemoteActorId
  BY ClosureTyped DEF TaskTransmits
<1>2. [type |-> "TransmitMessage", target |-> sent[s][m].target,
       payload |-> [msg |-> m, ref |-> task[s][m].id]] \in PortalActorMessage
  <2>1. task[s][m].id \in RemoteActorId \cup {None}
    BY DEF TypeOK, TaskState
  <2>. QED
    BY <1>1, <2>1 DEF PortalActorMessage, LocalMessage, Payload
<1>3. mailbox' \in [Side -> Seq(PortalActorMessage)]
  BY <1>2, MailboxSteps DEF TypeOK, TaskTransmits
<1>4. task' \in [Side -> [Msg -> TaskState]]
  BY TaskStateUpdate DEF TaskTransmits
<1>. QED
  BY <1>3, <1>4 DEF TypeOK, TaskTransmits
-----------------------------------------------------------------------------
(* A task that begins to ask keeps the types. *)
LEMMA BeginsToWaitTyped ==
  ASSUME TypeOK, NEW s \in Side, NEW q \in Asker, NEW wants \in Wants, NEW known \in BOOLEAN,
         BeginsToWait(s, q, wants, known)
  PROVE  asker' \in [Side -> [Asker -> AskerState]]
<1>1. [state |-> "waiting", wants |-> wants, known |-> known, got |-> None] \in AskerState
  BY DEF AskerState, AskerStates
<1>. QED
  BY <1>1 DEF TypeOK, BeginsToWait

(* A publication on the nexus keeps the types. *)
LEMMA AppOffersOnNexusTyped ==
  ASSUME TypeOK, NEW s \in Side, NEW n \in Name, NEW a \in Actor, AppOffersOnNexus(s, n, a)
  PROVE  TypeOK'
<1>1. MapPerSide([nexusNamed EXCEPT ![s] = Insert(nexusNamed[s], n, a)], Name, Actor)
  <2>1. IsMap(Insert(nexusNamed[s], n, a), Name, Actor)
    BY MapPerSideUpdate, MapsAreTyped DEF TypeOK
  <2>. QED
    BY <2>1, MapPerSideUpdate DEF TypeOK
<1>2. offered' \in [Side -> SUBSET (Name \X Actor \X {"portal", "nexus"})]
  <2>1. <<n, a, "nexus">> \in Name \X Actor \X {"portal", "nexus"}
    OBVIOUS
  <2>2. /\ offered' = [offered EXCEPT ![s] = offered[s] \cup {<<n, a, "nexus">>}]
        /\ offered \in [Side -> SUBSET (Name \X Actor \X {"portal", "nexus"})]
    BY DEF TypeOK, AppOffersOnNexus
  <2>. QED
    BY <2>1, <2>2
<1>. QED
  BY <1>1, <1>2 DEF TypeOK, AppOffersOnNexus

(* A publication on a portal keeps the types. *)
LEMMA AppOffersTyped ==
  ASSUME TypeOK, NEW s \in Side, NEW n \in Name, NEW a \in Actor, AppOffers(s, n, a)
  PROVE  TypeOK'
<1>1. offered' \in [Side -> SUBSET (Name \X Actor \X {"portal", "nexus"})]
  <2>1. <<n, a, "portal">> \in Name \X Actor \X {"portal", "nexus"}
    OBVIOUS
  <2>2. /\ offered' = [offered EXCEPT ![s] = offered[s] \cup {<<n, a, "portal">>}]
        /\ offered \in [Side -> SUBSET (Name \X Actor \X {"portal", "nexus"})]
    BY DEF TypeOK, AppOffers
  <2>. QED
    BY <2>1, <2>2
<1>2. \A q \in Asker \cup {None} :
        [type |-> "PublishNamedActor", name |-> n, actor |-> a, port |-> q] \in PortalActorMessage
  BY DEF PortalActorMessage, LocalMessage
<1>3. CASE /\ Cast(s, [type |-> "PublishNamedActor", name |-> n, actor |-> a, port |-> None])
           /\ UNCHANGED asker
  <2>1. mailbox' \in [Side -> Seq(PortalActorMessage)]
    BY <1>2, <1>3, MailboxSteps DEF TypeOK
  <2>. QED
    BY <1>1, <1>3, <2>1 DEF TypeOK, AppOffers
<1>4. CASE \E q \in Asker :
             /\ BeginsToWait(s, q, "publication", FALSE)
             /\ Cast(s, [type |-> "PublishNamedActor", name |-> n, actor |-> a, port |-> q])
  <2>1. mailbox' \in [Side -> Seq(PortalActorMessage)]
    BY <1>2, <1>4, MailboxSteps DEF TypeOK
  <2>2. asker' \in [Side -> [Asker -> AskerState]]
    BY <1>4, BeginsToWaitTyped DEF Wants
  <2>. QED
    BY <1>1, <2>1, <2>2 DEF TypeOK, AppOffers
<1>. QED
  BY <1>3, <1>4 DEF AppOffers

(* An ask for the handshake keeps the types. *)
LEMMA AppWaitsForHandshakeTyped ==
  ASSUME TypeOK, NEW s \in Side, NEW q \in Asker, AppWaitsForHandshake(s, q)
  PROVE  TypeOK'
<1>1. [type |-> "WaitForHandshake", port |-> q] \in PortalActorMessage
  BY DEF PortalActorMessage, LocalMessage
<1>2. mailbox' \in [Side -> Seq(PortalActorMessage)]
  BY <1>1, MailboxSteps DEF TypeOK, AppWaitsForHandshake
<1>3. asker' \in [Side -> [Asker -> AskerState]]
  BY BeginsToWaitTyped DEF Wants, AppWaitsForHandshake
<1>. QED
  BY <1>2, <1>3 DEF TypeOK, AppWaitsForHandshake

(* An ask for a name keeps the types. *)
LEMMA AppQueriesTyped ==
  ASSUME TypeOK, NEW s \in Side, NEW q \in Asker, NEW n \in Name, AppQueries(s, q, n)
  PROVE  TypeOK'
<1>1. [type |-> "QueryNamedRemoteActor", name |-> n, port |-> q] \in PortalActorMessage
  BY DEF PortalActorMessage, LocalMessage
<1>2. mailbox' \in [Side -> Seq(PortalActorMessage)]
  BY <1>1, MailboxSteps DEF TypeOK, AppQueries
<1>3. asker' \in [Side -> [Asker -> AskerState]]
  <2>. DEFINE known == n \in DOMAIN named[Peer(s)] \cup DOMAIN nexusNamed[Peer(s)]
  <2>1. known \in BOOLEAN /\ n \in Wants
    BY DEF Wants
  <2>2. BeginsToWait(s, q, n, known)
    BY Zenon DEF AppQueries
  <2>. HIDE DEF known
  <2>. QED
    BY <2>1, <2>2, BeginsToWaitTyped
<1>. QED
  BY <1>2, <1>3 DEF TypeOK, AppQueries

(* An application starting a proxy keeps the types. *)
LEMMA AppInstantiatesProxyTyped ==
  ASSUME TypeOK, NEW s \in Side, NEW q \in Asker, AppInstantiatesProxy(s, q)
  PROVE  TypeOK'
<1>1. asker[s][q].got \in RemoteActorId /\ q \in Proxy
  <2>1. asker[s][q] \in AskerState
    BY DEF TypeOK
  <2>. QED
    BY <2>1 DEF AskerState, AppInstantiatesProxy, Proxy
<1>2. [type |-> "RegisterProxy", target |-> asker[s][q].got, proxy |-> q] \in PortalActorMessage
  BY <1>1 DEF PortalActorMessage, LocalMessage
<1>3. mailbox' \in [Side -> Seq(PortalActorMessage)]
  BY <1>2, MailboxSteps DEF TypeOK, AppInstantiatesProxy
<1>4. proxy' \in [Side -> [Proxy -> ProxyState]]
  <2>1. [state |-> "running", target |-> asker[s][q].got] \in ProxyState
    BY <1>1 DEF ProxyState
  <2>. QED
    BY <1>1, <2>1 DEF TypeOK, AppInstantiatesProxy
<1>. QED
  BY <1>3, <1>4 DEF TypeOK, AppInstantiatesProxy

(* A message given to a proxy, with its reference, keeps the types. *)
LEMMA AppSendsTyped ==
  ASSUME TypeOK, SendsAreOwned, NEW s \in Side, NEW p \in Proxy, NEW m \in Msg,
         NEW ref \in Actor \cup {None}, AppSends(s, p, m, ref)
  PROVE  TypeOK'
<1>. DEFINE Closure == [target : RemoteActorId, ref : Actor \cup {None}]
            closure == [target |-> proxy[s][p].target, ref |-> ref]
<1>1. closure \in Closure
  <2>1. proxy[s][p] \in ProxyState /\ proxy[s][p].target # None
    BY DEF TypeOK, SendsAreOwned, ProxiesRunWithPortal, AppSends
  <2>. QED
    BY <2>1 DEF ProxyState
<1>2. mailbox' \in [Side -> Seq(PortalActorMessage)]
  <2>1. [type |-> "ImmaterializeMessage", msg |-> m] \in PortalActorMessage
    BY DEF PortalActorMessage, LocalMessage
  <2>. QED
    BY <2>1, MailboxSteps DEF TypeOK, AppSends
<1>3. MapPerSide(sent, Msg, Closure)'
  <2>1. MapPerSide(sent, Msg, Closure) /\ sent' = [sent EXCEPT ![s] = Insert(sent[s], m, closure)]
    BY DEF TypeOK, AppSends
  <2>. HIDE DEF Closure, closure
  <2>2. IsMap(Insert(sent[s], m, closure), Msg, Closure)
    BY <1>1, <2>1, MapPerSideUpdate, MapsAreTyped
  <2>3. MapPerSide([sent EXCEPT ![s] = Insert(sent[s], m, closure)], Msg, Closure)
    BY <2>1, <2>2, MapPerSideUpdate
  <2>. QED
    BY <2>1, <2>3 DEF Closure
<1>. QED
  BY <1>2, <1>3 DEF TypeOK, AppSends

(* The timeout of an ask keeps the types. *)
LEMMA AskTimesOutTyped ==
  ASSUME TypeOK, NEW s \in Side, NEW q \in Asker, AskTimesOut(s, q)
  PROVE  TypeOK'
<1>1. asker \in [Side -> [Asker -> AskerState]] /\ asker[s][q] \in AskerState
  BY DEF TypeOK
<1>2. [asker[s][q] EXCEPT !.state = "timedout"] \in AskerState
  BY <1>1 DEF AskerState, AskerStates
<1>3. asker' = [asker EXCEPT ![s] = [asker[s] EXCEPT ![q] =
                  [asker[s][q] EXCEPT !.state = "timedout"]]]
  BY <1>1 DEF AskTimesOut
<1>4. asker' \in [Side -> [Asker -> AskerState]]
  BY <1>1, <1>2, <1>3
<1>. QED
  BY <1>4 DEF TypeOK, AskTimesOut

(* The end of an application actor keeps the types. *)
LEMMA ActorExitsTyped ==
  ASSUME TypeOK, NEW s \in Side, NEW a \in Actor, ActorExits(s, a)
  PROVE  TypeOK'
BY DEF TypeOK, ActorExits

(* A broken link keeps the types. *)
LEMMA LinkBreaksTyped ==
  ASSUME TypeOK, LinkBreaks
  PROVE  TypeOK'
BY DEF TypeOK, LinkBreaks

(* The state before anything is connected is typed. *)
LEMMA InitTyped ==
  ASSUME Init
  PROVE  TypeOK
<1>1. \A K, V : MapPerSide([s \in Side |-> NoEntries], K, V)
  BY DEF MapPerSide, IsMap, NoEntries
<1>2. IdleAsker \in AskerState /\ NoProxy \in ProxyState /\ NoTask \in TaskState
  BY DEF IdleAsker, AskerState, AskerStates, NoProxy, ProxyState, NoTask, TaskState
<1>3. {} \in ConduitID
  BY DEF ConduitID
<1>4. /\ MapPerSide(published, OpaqueActorId, Actor)
      /\ MapPerSide(named, Name, OpaqueActorId)
      /\ MapPerSide(proxies, RemoteActorId, Proxy)
      /\ MapPerSide(openRequests, Nat, Asker)
      /\ MapPerSide(nexusNamed, Name, Actor)
      /\ MapPerSide(sent, Msg, [target : RemoteActorId, ref : Actor \cup {None}])
  BY <1>1 DEF Init
<1>. QED
  BY <1>2, <1>3, <1>4 DEF Init, TypeOK
-----------------------------------------------------------------------------
(* Every step keeps the types, given that tasks and requests have their    *)
(* closures (SendsAreOwned).                                               *)
LEMMA NextTyped ==
  ASSUME TypeOK, SendsAreOwned, [Next]_vars
  PROVE  TypeOK'
<1>1. CASE UNCHANGED vars
  BY <1>1 DEF TypeOK, vars, MapPerSide
<1>2. ASSUME NEW s \in Side, Handle(s)
      PROVE  TypeOK'
  BY <1>2, HandleHandshakeTyped, HandleCloseTyped, HandleRequestActorByNameTyped,
     HandleResponseActorByNameTyped, HandleSendMessageTyped, HandleActorExitedTyped,
     HandleWaitForHandshakeTyped, HandlePublishNamedActorTyped, HandlePublishActorTyped,
     HandleQueryNamedRemoteActorTyped, HandleImmaterializeMessageTyped,
     HandleTransmitMessageTyped, HandleRegisterProxyTyped, HandleLocalActorExitedTyped,
     PortalFailsTyped DEF Handle
<1>3. ASSUME NEW s \in Side, ReceiveLoop(s)
      PROVE  TypeOK'
  BY <1>3, ReceiveLoopReadsTyped, ReceiveLoopEndsTyped DEF ReceiveLoop
<1>4. ASSUME NEW s \in Side, NEW m \in Msg, SerializationTask(s, m)
      PROVE  TypeOK'
  BY <1>4, TaskAsksToPublishTyped, TaskTransmitsTyped DEF SerializationTask
<1>5. ASSUME NEW s \in Side, Application(s)
      PROVE  TypeOK'
  BY <1>5, ConnectTyped, ConnectFailsTyped, AppOffersOnNexusTyped, AppOffersTyped,
     AppWaitsForHandshakeTyped, AppInstantiatesProxyTyped, AppQueriesTyped, AppSendsTyped
  DEF Application
<1>6. CASE Environment
  BY <1>6, AskTimesOutTyped, ActorExitsTyped, AppStopsPortalTyped, LinkBreaksTyped
  DEF Environment
<1>. QED
  BY <1>1, <1>2, <1>3, <1>4, <1>5, <1>6, WatcherReportsTyped DEF Next
-----------------------------------------------------------------------------
RequestTypes == {"ImmaterializeMessage", "PublishActor"}
NoNewRequest ==
  \A r \in Side : \A i \in DOMAIN mailbox'[r] :
    mailbox'[r][i].type \in RequestTypes
      => \E j \in DOMAIN mailbox[r] : mailbox'[r][i] = mailbox[r][j]

(* Casting anything but a serialization request, taking a message, and     *)
(* dropping a mailbox add no serialization request to a mailbox.           *)
LEMMA NoNewRequests ==
  ASSUME TypeOK, NEW s \in Side
  PROVE  /\ UNCHANGED mailbox => NoNewRequest
         /\ mailbox' = [mailbox EXCEPT ![s] = <<>>] => NoNewRequest
         /\ mailbox[s] # <<>> /\ Done(s) => NoNewRequest
         /\ \A e \in PortalActorMessage :
              e.type \notin RequestTypes
                => /\ Cast(s, e) => NoNewRequest
                   /\ mailbox[s] # <<>> /\ DoneThenCast(s, e) => NoNewRequest
<1>. DEFINE From(q) == \A i \in DOMAIN q : q[i].type \in RequestTypes
                         => \E j \in DOMAIN mailbox[s] : q[i] = mailbox[s][j]
<1>1. mailbox \in [Side -> Seq(PortalActorMessage)] /\ mailbox[s] \in Seq(PortalActorMessage)
  BY DEF TypeOK
<1>2. \A q : mailbox' = [mailbox EXCEPT ![s] = q] /\ From(q) => NoNewRequest
  BY <1>1 DEF NoNewRequest
<1>3. mailbox[s] # <<>> => Tail(mailbox[s]) \in Seq(PortalActorMessage) /\ From(Tail(mailbox[s]))
  BY <1>1, TailElements
<1>4. \A q \in Seq(PortalActorMessage), e \in PortalActorMessage :
        From(q) /\ e.type \notin RequestTypes => From(Append(q, e))
  <2>. SUFFICES ASSUME NEW q \in Seq(PortalActorMessage), NEW e \in PortalActorMessage,
                       From(q), e.type \notin RequestTypes,
                       NEW i \in DOMAIN Append(q, e), Append(q, e)[i].type \in RequestTypes
                PROVE  \E j \in DOMAIN mailbox[s] : Append(q, e)[i] = mailbox[s][j]
    OBVIOUS
  <2>1. i \in DOMAIN q /\ Append(q, e)[i] = q[i]
    BY AppendElements
  <2>. QED
    BY <2>1
<1>5. From(<<>>) /\ From(mailbox[s])
  OBVIOUS
<1>6. UNCHANGED mailbox => NoNewRequest
  BY DEF NoNewRequest
<1>. HIDE DEF From
<1>. QED
  BY <1>1, <1>2, <1>3, <1>4, <1>5, <1>6 DEF Done, Cast, DoneThenCast

(* A step that neither adds such a request nor touches the tasks, the      *)
(* proxies and the status of the portals keeps the ownership.              *)
LEMMA OwnershipFrame ==
  ASSUME SendsAreOwned, UNCHANGED <<status, proxy, task, sent>>, NoNewRequest
  PROVE  SendsAreOwned'
<1>1. RequestsHaveClosures'
  <2>. SUFFICES ASSUME NEW r \in Side, NEW i \in DOMAIN mailbox'[r],
                       mailbox'[r][i].type \in RequestTypes
                PROVE  mailbox'[r][i].msg \in DOMAIN sent'[r]
    BY DEF RequestsHaveClosures, RequestTypes
  <2>. QED
    BY DEF SendsAreOwned, RequestsHaveClosures, RequestTypes, NoNewRequest
<1>2. TasksHaveClosures'
  BY DEF SendsAreOwned, TasksHaveClosures
<1>3. ProxiesRunWithPortal'
  BY DEF SendsAreOwned, ProxiesRunWithPortal, Live
<1>. QED
  BY <1>1, <1>2, <1>3 DEF SendsAreOwned

(* The end of a portal takes the proxies linked to it along, and its       *)
(* requests with the mailbox.                                              *)
LEMMA GoesDownOwned ==
  ASSUME TypeOK, SendsAreOwned, NEW s \in Side, NEW why, Live(s), GoesDown(s, why)
  PROVE  SendsAreOwned'
<1>1. NoNewRequest
  BY NoNewRequests DEF GoesDown
<1>2. RequestsHaveClosures'
  BY <1>1 DEF SendsAreOwned, RequestsHaveClosures, RequestTypes, NoNewRequest, GoesDown
<1>3. TasksHaveClosures'
  <2>. SUFFICES ASSUME NEW r \in Side, NEW m \in Msg,
                       task'[r][m].state \in {"encoding", "asking", "encoded"}
                PROVE  m \in DOMAIN sent[r]
    BY DEF TasksHaveClosures, GoesDown
  <2>1. /\ task \in [Side -> [Msg -> TaskState]]
        /\ task' = [task EXCEPT ![s] = Abandoned(@)]
    BY DEF TypeOK, GoesDown
  <2>2. task'[r][m].state # "done"
    OBVIOUS
  <2>3. task'[r][m] = task[r][m]
    <3>1. CASE r # s
      BY <2>1, <3>1
    <3>2. CASE r = s
      <4>1. task'[s][m] = Abandoned(task[s])[m]
        BY <2>1
      <4>2. task[s][m] \in TaskState
        BY <2>1
      <4>3. [task[s][m] EXCEPT !.state = "done"].state = "done"
        BY <4>2 DEF TaskState
      <4>. QED
        BY <2>2, <3>2, <4>1, <4>3 DEF Abandoned
    <3>. QED
      BY <3>1, <3>2
  <2>. QED
    BY <2>3 DEF SendsAreOwned, TasksHaveClosures
<1>4. ProxiesRunWithPortal'
  <2>. SUFFICES ASSUME NEW r \in Side, NEW p \in Proxy, proxy'[r][p].state = "running"
                PROVE  (Live(r) /\ proxy[r][p].target # None)' 
    BY DEF ProxiesRunWithPortal
  <2>1. /\ proxy \in [Side -> [Proxy -> ProxyState]]
        /\ proxy' = [proxy EXCEPT ![s] = Stopped(@)]
        /\ status' = [status EXCEPT ![s] = "down"]
        /\ status \in [Side -> {"idle", "opening", "open", "down"}]
    BY DEF TypeOK, GoesDown
  <2>2. r # s
    <3>. SUFFICES ASSUME r = s
                  PROVE  FALSE
      OBVIOUS
    <3>1. proxy'[s][p] = Stopped(proxy[s])[p] /\ proxy[s][p] \in ProxyState
      BY <2>1
    <3>2. [proxy[s][p] EXCEPT !.state = "stopped"].state = "stopped"
      BY <3>1 DEF ProxyState
    <3>. QED
      BY <3>1, <3>2 DEF Stopped
  <2>3. proxy'[r] = proxy[r] /\ status'[r] = status[r]
    BY <2>1, <2>2
  <2>. QED
    BY <2>3 DEF SendsAreOwned, ProxiesRunWithPortal, Live
<1>. QED
  BY <1>2, <1>3, <1>4 DEF SendsAreOwned

(* The handlers that neither start tasks nor proxies keep the ownership. *)
LEMMA HandlersOwned ==
  ASSUME TypeOK, SendsAreOwned, NEW s \in Side,
         \/ HandleRequestActorByName(s)
         \/ HandleResponseActorByName(s)
         \/ HandleWaitForHandshake(s)
         \/ HandlePublishNamedActor(s)
         \/ HandleQueryNamedRemoteActor(s)
         \/ HandleTransmitMessage(s)
         \/ HandleRegisterProxy(s)
         \/ HandleLocalActorExited(s)
  PROVE  SendsAreOwned'
<1>1. Done(s) /\ mailbox[s] # <<>> /\ UNCHANGED <<status, proxy, task, sent>>
  BY DEF HandleRequestActorByName, HandleResponseActorByName, HandleWaitForHandshake,
         HandlePublishNamedActor, HandleQueryNamedRemoteActor, HandleTransmitMessage,
         HandleRegisterProxy, HandleLocalActorExited, TakesWhenOpen, Takes
<1>. QED
  BY <1>1, NoNewRequests, OwnershipFrame

(* Connecting and opening a portal keeps the ownership: no portal that was *)
(* up goes down.                                                           *)
LEMMA StatusOwned ==
  ASSUME TypeOK, SendsAreOwned, NEW s \in Side,
         Connect(s) \/ ConnectFails(s) \/ HandleHandshake(s)
  PROVE  SendsAreOwned'
<1>1. /\ UNCHANGED <<proxy, task, sent>>
      /\ \A r \in Side : Live(r) => Live(r)'
  BY DEF TypeOK, Connect, SendsIntroduction, Introduction, ConnectFails, HandleHandshake, TellsWaiting, Live
<1>2. NoNewRequest
  BY NoNewRequests DEF Connect, SendsIntroduction, Introduction, ConnectFails, HandleHandshake, TellsWaiting, Takes
<1>3. RequestsHaveClosures'
  BY <1>1, <1>2 DEF SendsAreOwned, RequestsHaveClosures, RequestTypes, NoNewRequest
<1>. QED
  BY <1>1, <1>3 DEF SendsAreOwned, TasksHaveClosures, ProxiesRunWithPortal

(* A handler or task that starts a proxy has its portal running;           *)
(* ActorExited only stops one.                                             *)
LEMMA ProxiesOwned ==
  ASSUME TypeOK, SendsAreOwned, NEW s \in Side,
         \/ HandleSendMessage(s)
         \/ HandleActorExited(s)
         \/ \E q \in Asker : AppInstantiatesProxy(s, q)
  PROVE  SendsAreOwned'
<1>1. /\ UNCHANGED <<status, task, sent>>
      /\ Live(s)
      /\ proxy \in [Side -> [Proxy -> ProxyState]]
  BY Zenon DEF TypeOK, HandleSendMessage, HandleActorExited, AppInstantiatesProxy, TakesWhenOpen, Takes
<1>2. NoNewRequest /\ ProxiesRunWithPortal'
  <2>1. CASE HandleSendMessage(s)
    <3>. DEFINE m == Head(mailbox[s])
                e == [type |-> "RegisterProxy", target |-> m.payload.ref, proxy |-> m.payload.msg]
    <3>1. mailbox[s] # <<>> /\ m.payload \in Payload
      BY <2>1, MessageShapes, MailboxSteps, Zenon DEF TypeOK, HandleSendMessage, TakesWhenOpen, Takes
    <3>2. m.payload.ref # None => e \in PortalActorMessage /\ e.type \notin RequestTypes
      BY <3>1 DEF PortalActorMessage, LocalMessage, Payload, Proxy, RequestTypes
    <3>3. NoNewRequest
      BY <2>1, <3>1, <3>2, NoNewRequests, Zenon DEF HandleSendMessage
    <3>4. \/ proxy' = proxy
          \/ /\ m.payload.ref # None
             /\ proxy' = [proxy EXCEPT ![s][m.payload.msg] =
                            [state |-> "running", target |-> m.payload.ref]]
      BY <2>1, Zenon DEF HandleSendMessage
    <3>. HIDE DEF m
    <3>5. ProxiesRunWithPortal'
      BY <1>1, <3>4 DEF SendsAreOwned, ProxiesRunWithPortal, Live
    <3>. QED
      BY <3>3, <3>5
  <2>2. CASE HandleActorExited(s)
    <3>1. NoNewRequest
      BY <2>2, NoNewRequests, Zenon DEF HandleActorExited, TakesWhenOpen, Takes
    <3>. DEFINE t == Head(mailbox[s]).target
                p == proxies[s][t]
    <3>2. t \in DOMAIN proxies[s] => p \in Proxy
      BY MapPerSideUpdate, MapsAreTyped DEF TypeOK
    <3>3. \A r \in Side, k \in Proxy : proxy'[r][k] = proxy[r][k] \/ proxy'[r][k].state = "stopped"
      <4>1. CASE t \notin DOMAIN proxies[s]
        BY <2>2, <4>1 DEF HandleActorExited
      <4>2. CASE t \in DOMAIN proxies[s]
        <5>1. proxy[s][p] \in ProxyState
          BY <1>1, <3>2, <4>2
        <5>2. [proxy[s][p] EXCEPT !.state = "stopped"].state = "stopped"
          BY <5>1 DEF ProxyState
        <5>3. proxy' = [proxy EXCEPT ![s] = [proxy[s] EXCEPT ![p] =
                          [proxy[s][p] EXCEPT !.state = "stopped"]]]
          BY <1>1, <2>2, <4>2, <5>1, Zenon DEF HandleActorExited
        <5>. QED
          BY <1>1, <3>2, <4>2, <5>2, <5>3
      <4>. QED
        BY <4>1, <4>2
    <3>4. ProxiesRunWithPortal'
      BY <1>1, <3>3 DEF SendsAreOwned, ProxiesRunWithPortal, Live
    <3>. QED
      BY <3>1, <3>4
  <2>3. CASE \E q \in Asker : AppInstantiatesProxy(s, q)
    <3>1. PICK q \in Asker : AppInstantiatesProxy(s, q)
      BY <2>3
    <3>. DEFINE e == [type |-> "RegisterProxy", target |-> asker[s][q].got, proxy |-> q]
    <3>2. e \in PortalActorMessage /\ e.type \notin RequestTypes
      <4>1. asker[s][q] \in AskerState
        BY DEF TypeOK
      <4>. QED
        BY <3>1, <4>1 DEF AskerState, AppInstantiatesProxy, Proxy, PortalActorMessage,
                          LocalMessage, RequestTypes
    <3>3. NoNewRequest
      BY <3>1, <3>2, NoNewRequests DEF AppInstantiatesProxy
    <3>4. ProxiesRunWithPortal'
      BY <1>1, <3>1 DEF SendsAreOwned, ProxiesRunWithPortal, Live, AppInstantiatesProxy
    <3>. QED
      BY <3>3, <3>4
  <2>. QED
    BY <2>1, <2>2, <2>3
<1>3. RequestsHaveClosures'
  BY <1>1, <1>2 DEF SendsAreOwned, RequestsHaveClosures, RequestTypes, NoNewRequest
<1>. QED
  BY <1>1, <1>2, <1>3 DEF SendsAreOwned, TasksHaveClosures

(* A serialization task advances only on a message that was handed to a    *)
(* proxy.                                                                  *)
LEMMA TasksOwned ==
  ASSUME TypeOK, SendsAreOwned, NEW s \in Side,
         \/ HandlePublishActor(s)
         \/ HandleImmaterializeMessage(s)
         \/ \E m \in Msg : SerializationTask(s, m)
  PROVE  SendsAreOwned'
<1>1. /\ UNCHANGED <<status, proxy, sent>>
      /\ task \in [Side -> [Msg -> TaskState]]
  BY DEF TypeOK, HandlePublishActor, HandleImmaterializeMessage, SerializationTask,
         TaskAsksToPublish, TaskTransmits
<1>2. PICK m \in Msg : /\ m \in DOMAIN sent[s]
                       /\ \A r \in Side, k \in Msg : <<r, k>> # <<s, m>> => task'[r][k] = task[r][k]
  <2>1. CASE HandlePublishActor(s) \/ HandleImmaterializeMessage(s)
    <3>. DEFINE h == Head(mailbox[s])
    <3>1. /\ mailbox[s] # <<>>
          /\ h.type \in {"PublishActor", "ImmaterializeMessage"}
          /\ h \in PortalActorMessage
          /\ h = mailbox[s][1] /\ 1 \in DOMAIN mailbox[s]
      BY <2>1, HeadTailProperties, TailElements, EmptySeq, LenProperties
      DEF TypeOK, HandlePublishActor, HandleImmaterializeMessage, TakesWhenOpen, Takes
    <3>2. h.msg \in Msg /\ h.msg \in DOMAIN sent[s]
      BY <3>1, MessageShapes DEF SendsAreOwned, RequestsHaveClosures
    <3>3. \E v : task' = [task EXCEPT ![s][h.msg] = v]
      BY <2>1 DEF HandlePublishActor, HandleImmaterializeMessage
    <3>. HIDE DEF h
    <3>. QED
      BY <1>1, <3>2, <3>3
  <2>2. ASSUME NEW m \in Msg, SerializationTask(s, m)
        PROVE  /\ m \in DOMAIN sent[s]
               /\ \A r \in Side, k \in Msg : <<r, k>> # <<s, m>> => task'[r][k] = task[r][k]
    <3>1. \E st : task' = [task EXCEPT ![s][m].state = st]
      BY <2>2 DEF SerializationTask, TaskAsksToPublish, TaskTransmits
    <3>2. m \in DOMAIN sent[s]
      BY <2>2 DEF SerializationTask, TaskAsksToPublish, TaskTransmits, SendsAreOwned, TasksHaveClosures
    <3>. QED
      BY <1>1, <3>1, <3>2
  <2>. QED
    BY <2>1, <2>2
<1>3. TasksHaveClosures'
  BY <1>1, <1>2 DEF SendsAreOwned, TasksHaveClosures
<1>4. RequestsHaveClosures'
  <2>1. CASE HandlePublishActor(s) \/ HandleImmaterializeMessage(s)
    <3>1. NoNewRequest
      BY <2>1, NoNewRequests DEF HandlePublishActor, HandleImmaterializeMessage, TakesWhenOpen, Takes
    <3>. QED
      BY <1>1, <3>1 DEF SendsAreOwned, RequestsHaveClosures, RequestTypes, NoNewRequest
  <2>2. ASSUME NEW k \in Msg, TaskAsksToPublish(s, k)
        PROVE  RequestsHaveClosures'
    <3>. DEFINE e == [type |-> "PublishActor", actor |-> sent[s][k].ref, msg |-> k]
    <3>1. k \in DOMAIN sent[s] /\ e \in PortalActorMessage
      <4>1. sent[s][k].ref \in Actor
        BY <2>2, ClosureTyped DEF TaskAsksToPublish
      <4>. QED
        BY <2>2, <4>1 DEF TaskAsksToPublish, SendsAreOwned, TasksHaveClosures, PortalActorMessage,
                          LocalMessage
    <3>2. UNCHANGED mailbox \/ Cast(s, e)
      BY <2>2 DEF TaskAsksToPublish
    <3>3. mailbox \in [Side -> Seq(PortalActorMessage)]
      BY DEF TypeOK
    <3>4. \A r \in Side : \A i \in DOMAIN mailbox'[r] :
             \/ i \in DOMAIN mailbox[r] /\ mailbox'[r][i] = mailbox[r][i]
             \/ r = s /\ mailbox'[r][i] = e
      <4>. HIDE DEF e
      <4>1. CASE UNCHANGED mailbox
        BY <4>1
      <4>2. CASE Cast(s, e)
        BY <3>1, <3>3, <4>2, AppendElements DEF Cast
      <4>. QED
        BY <3>2, <4>1, <4>2
    <3>5. e.msg = k
      OBVIOUS
    <3>. HIDE DEF e
    <3>. QED
      BY <1>1, <3>1, <3>4, <3>5 DEF SendsAreOwned, RequestsHaveClosures
  <2>3. ASSUME NEW k \in Msg, TaskTransmits(s, k)
        PROVE  RequestsHaveClosures'
    <3>. DEFINE e == [type |-> "TransmitMessage", target |-> sent[s][k].target,
                      payload |-> [msg |-> k, ref |-> task[s][k].id]]
    <3>1. e \in PortalActorMessage /\ e.type \notin RequestTypes
      <4>1. sent[s][k].target \in RemoteActorId
        BY <2>3, ClosureTyped DEF TaskTransmits
      <4>2. task[s][k].id \in RemoteActorId \cup {None}
        BY <1>1 DEF TaskState
      <4>. QED
        BY <4>1, <4>2 DEF PortalActorMessage, LocalMessage, Payload, RequestTypes
    <3>2. NoNewRequest
      BY <2>3, <3>1, NoNewRequests DEF TaskTransmits
    <3>. QED
      BY <1>1, <3>2 DEF SendsAreOwned, RequestsHaveClosures, RequestTypes, NoNewRequest
  <2>. QED
    BY <2>1, <2>2, <2>3 DEF SerializationTask
<1>. QED
  BY <1>1, <1>3, <1>4 DEF SendsAreOwned, ProxiesRunWithPortal, Live

(* A proxy that takes a message hands it over, closure included, before    *)
(* the request is queued.                                                  *)
LEMMA AppSendsOwned ==
  ASSUME TypeOK, SendsAreOwned, NEW s \in Side, NEW p \in Proxy, NEW m \in Msg, NEW ref,
         AppSends(s, p, m, ref)
  PROVE  SendsAreOwned'
<1>. DEFINE e == [type |-> "ImmaterializeMessage", msg |-> m]
<1>1. /\ UNCHANGED <<status, proxy, task>>
      /\ mailbox \in [Side -> Seq(PortalActorMessage)]
      /\ Cast(s, e)
      /\ e \in PortalActorMessage
  BY DEF TypeOK, AppSends, PortalActorMessage, LocalMessage
<1>2. \A r \in Side : DOMAIN sent[r] \subseteq DOMAIN sent'[r] /\ (r = s => m \in DOMAIN sent'[r])
  BY DEF TypeOK, MapPerSide, AppSends, Insert
<1>3. e.msg = m
  OBVIOUS
<1>. HIDE DEF e
<1>4. \A r \in Side : \A i \in DOMAIN mailbox'[r] :
         \/ i \in DOMAIN mailbox[r] /\ mailbox'[r][i] = mailbox[r][i]
         \/ r = s /\ mailbox'[r][i] = e
  BY <1>1, AppendElements DEF Cast
<1>. QED
  BY <1>1, <1>2, <1>3, <1>4
  DEF SendsAreOwned, TasksHaveClosures, RequestsHaveClosures, ProxiesRunWithPortal, Live

(* The receive loop, the watchers and the applications cast no             *)
(* serialization request.                                                  *)
LEMMA CastsOwned ==
  ASSUME TypeOK, SendsAreOwned, NEW s \in Side,
         \/ ReceiveLoop(s)
         \/ \E a \in Actor : WatcherReports(s, a)
         \/ \E n \in Name, a \in Actor : AppOffersOnNexus(s, n, a) \/ AppOffers(s, n, a)
         \/ \E q \in Asker : AppWaitsForHandshake(s, q)
         \/ \E q \in Asker, n \in Name : AppQueries(s, q, n)
  PROVE  SendsAreOwned'
<1>1. UNCHANGED <<status, proxy, task, sent>>
  BY DEF ReceiveLoop, ReceiveLoopReads, ReceiveLoopEnds, WatcherReports, AppOffersOnNexus,
         AppOffers, AppWaitsForHandshake, AppQueries
<1>. SUFFICES NoNewRequest
  BY <1>1, OwnershipFrame
<1>2. CASE ReceiveLoopReads(s)
  <2>1. wire[Peer(s)] \in Seq(ConduitMessage) /\ wire[Peer(s)] # <<>>
    BY <1>2, PeerFacts DEF TypeOK, ReceiveLoopReads
  <2>2. Head(wire[Peer(s)]) \in ConduitMessage
    BY <2>1, HeadTailProperties
  <2>3. /\ Head(wire[Peer(s)]) \in PortalActorMessage
        /\ Head(wire[Peer(s)]).type \notin RequestTypes
    BY <2>2 DEF ConduitMessage, Handshakes, Contents, PortalActorMessage, RequestTypes
  <2>. QED
    BY <1>2, <2>3, NoNewRequests DEF ReceiveLoopReads
<1>3. CASE ReceiveLoopEnds(s)
  <2>1. [type |-> "Close"] \in PortalActorMessage /\ [type |-> "Close"].type \notin RequestTypes
    BY DEF PortalActorMessage, LocalMessage, RequestTypes
  <2>. QED
    BY <1>3, <2>1, NoNewRequests DEF ReceiveLoopEnds, CastsClose
<1>4. ASSUME NEW a \in Actor, WatcherReports(s, a)
      PROVE  NoNewRequest
  <2>. DEFINE e == [type |-> "LocalActorExited", actor |-> a]
  <2>1. e \in PortalActorMessage /\ e.type \notin RequestTypes
    BY DEF PortalActorMessage, LocalMessage, RequestTypes
  <2>. QED
    BY <1>4, <2>1, NoNewRequests DEF WatcherReports
<1>5. ASSUME NEW n \in Name, NEW a \in Actor, AppOffers(s, n, a)
      PROVE  NoNewRequest
  <2>. DEFINE e(q) == [type |-> "PublishNamedActor", name |-> n, actor |-> a, port |-> q]
  <2>1. \A q \in Asker \cup {None} : e(q) \in PortalActorMessage /\ e(q).type \notin RequestTypes
    BY DEF PortalActorMessage, LocalMessage, RequestTypes
  <2>2. PICK q \in Asker \cup {None} : Cast(s, e(q))
    BY <1>5 DEF AppOffers
  <2>. QED
    BY <2>1, <2>2, NoNewRequests
<1>6. ASSUME NEW n \in Name, NEW a \in Actor, AppOffersOnNexus(s, n, a)
      PROVE  NoNewRequest
  BY <1>6, NoNewRequests DEF AppOffersOnNexus
<1>7. ASSUME NEW q \in Asker, AppWaitsForHandshake(s, q)
      PROVE  NoNewRequest
  <2>. DEFINE e == [type |-> "WaitForHandshake", port |-> q]
  <2>1. e \in PortalActorMessage /\ e.type \notin RequestTypes
    BY DEF PortalActorMessage, LocalMessage, RequestTypes
  <2>. QED
    BY <1>7, <2>1, NoNewRequests DEF AppWaitsForHandshake
<1>8. ASSUME NEW q \in Asker, NEW n \in Name, AppQueries(s, q, n)
      PROVE  NoNewRequest
  <2>. DEFINE e == [type |-> "QueryNamedRemoteActor", name |-> n, port |-> q]
  <2>1. e \in PortalActorMessage /\ e.type \notin RequestTypes
    BY DEF PortalActorMessage, LocalMessage, RequestTypes
  <2>. QED
    BY <1>8, <2>1, NoNewRequests DEF AppQueries
<1>. QED
  BY <1>2, <1>3, <1>4, <1>5, <1>6, <1>7, <1>8 DEF ReceiveLoop

(* Every step keeps the ownership. *)
LEMMA NextOwned ==
  ASSUME TypeOK, SendsAreOwned, [Next]_vars
  PROVE  SendsAreOwned'
<1>1. CASE UNCHANGED <<status, proxy, task, sent, mailbox>>
  BY <1>1, OwnershipFrame DEF NoNewRequest
<1>2. ASSUME NEW s \in Side, Handle(s)
      PROVE  SendsAreOwned'
  <2>1. CASE HandleClose(s) \/ PortalFails(s)
    BY <2>1, GoesDownOwned DEF HandleClose, PortalFails
  <2>2. CASE HandlePublishActor(s) \/ HandleImmaterializeMessage(s)
    BY <2>2, TasksOwned
  <2>3. CASE HandleSendMessage(s) \/ HandleActorExited(s)
    BY <2>3, ProxiesOwned
  <2>. QED
    BY <1>2, <2>1, <2>2, <2>3, HandlersOwned, StatusOwned DEF Handle
<1>3. ASSUME NEW s \in Side, Application(s)
      PROVE  SendsAreOwned'
  <2>1. CASE Connect(s) \/ ConnectFails(s)
    BY <2>1, StatusOwned
  <2>2. CASE \E q \in Asker : AppInstantiatesProxy(s, q)
    BY <2>2, ProxiesOwned
  <2>3. CASE \E p \in Proxy, m \in Msg, ref \in Actor \cup {None} : AppSends(s, p, m, ref)
    BY <2>3, AppSendsOwned
  <2>. QED
    BY <1>3, <2>1, <2>2, <2>3, CastsOwned DEF Application
<1>4. CASE Environment
  <2>1. ASSUME NEW s \in Side, AppStopsPortal(s)
        PROVE  SendsAreOwned'
    BY <2>1, GoesDownOwned DEF AppStopsPortal
  <2>2. CASE \/ \E s \in Side, q \in Asker : AskTimesOut(s, q)
             \/ \E s \in Side, a \in Actor : ActorExits(s, a)
             \/ LinkBreaks
    BY <1>1, <2>2 DEF AskTimesOut, ActorExits, LinkBreaks
  <2>. QED
    BY <1>4, <2>1, <2>2 DEF Environment
<1>5. CASE UNCHANGED vars
  BY <1>1, <1>5 DEF vars
<1>. QED
  BY <1>2, <1>3, <1>4, <1>5, CastsOwned, TasksOwned DEF Next

(* Before anything is connected there is nothing to own. *)
LEMMA InitOwned ==
  ASSUME Init
  PROVE  SendsAreOwned
BY DEF Init, SendsAreOwned, TasksHaveClosures, RequestsHaveClosures, ProxiesRunWithPortal,
       NoTask, NoProxy

(* Every variable of the two portals, of the conduit between them and of   *)
(* the tasks around them stays in its type, whatever the numbers of actors, *)
(* names, ids, tasks and messages.  The message a serialization task sends *)
(* is typed only because the task's message was handed to a proxy, hence   *)
(* SendsAreOwned in the invariant.                                         *)
THEOREM TypeCorrect == Spec => []TypeOK
<1>1. Init => TypeOK /\ SendsAreOwned
  BY InitTyped, InitOwned
<1>2. TypeOK /\ SendsAreOwned /\ [Next]_vars => (TypeOK /\ SendsAreOwned)'
  BY NextTyped, NextOwned
<1>. QED
  BY <1>1, <1>2, PTL DEF Spec

(* The state of a serialization task, the requests it has queued and every *)
(* running proxy belong together: no request is about a message nobody     *)
(* sent, and no proxy runs without its portal.                             *)
THEOREM OwnershipCorrect == Spec => []SendsAreOwned
<1>1. Init => TypeOK /\ SendsAreOwned
  BY InitTyped, InitOwned
<1>2. TypeOK /\ SendsAreOwned /\ [Next]_vars => (TypeOK /\ SendsAreOwned)'
  BY NextTyped, NextOwned
<1>. QED
  BY <1>1, <1>2, PTL DEF Spec
-----------------------------------------------------------------------------
(* The opening of the two portals: they never trip each other's protocol   *)
(* checks, and they agree on the id of their conduit.                      *)

Local(e) == e.type \notin ContentTypes \cup {"Handshake"}
Introduces(q, c) == \A i \in DOMAIN q : q[i].type = "Handshake" => q[i].contribution = c

(* Taking the head off a mailbox or a stream keeps the introduction in front. *)
LEMMA TailKeeps ==
  ASSUME NEW S, NEW q \in Seq(S), q # <<>>
  PROVE  /\ OnlyLocal(q) => OnlyLocal(Tail(q)) /\ Local(Head(q))
         /\ NoIntroduction(q) => NoIntroduction(Tail(q)) /\ Head(q).type # "Handshake"
         /\ LedByIntroduction(q) /\ Head(q).type # "Handshake"
              => LedByIntroduction(Tail(q)) /\ Local(Head(q))
         /\ LedByIntroduction(q) /\ Head(q).type = "Handshake" => NoIntroduction(Tail(q))
         /\ \A c : Introduces(q, c) => Introduces(Tail(q), c)
<1>1. /\ DOMAIN q = 1 .. Len(q) /\ Len(q) \in Nat /\ 1 \in DOMAIN q
      /\ DOMAIN Tail(q) = 1 .. Len(q) - 1
      /\ \A i \in DOMAIN Tail(q) : i + 1 \in DOMAIN q /\ Tail(q)[i] = q[i + 1]
      /\ Head(q) = q[1]
  BY TailElements, HeadTailProperties, EmptySeq, LenProperties
<1>2. OnlyLocal(q) => OnlyLocal(Tail(q)) /\ Local(Head(q))
  BY <1>1 DEF OnlyLocal, Local
<1>3. NoIntroduction(q) => NoIntroduction(Tail(q)) /\ Head(q).type # "Handshake"
  BY <1>1 DEF NoIntroduction
<1>4. \A c : Introduces(q, c) => Introduces(Tail(q), c)
  BY <1>1 DEF Introduces
<1>5. ASSUME NEW k \in DOMAIN q,
             q[k].type = "Handshake",
             \A i \in DOMAIN q : /\ i # k => q[i].type # "Handshake"
                                 /\ i < k => q[i].type \notin ContentTypes
      PROVE  /\ Head(q).type # "Handshake" => LedByIntroduction(Tail(q)) /\ Local(Head(q))
             /\ Head(q).type = "Handshake" => NoIntroduction(Tail(q))
  <2>1. CASE Head(q).type = "Handshake"
    BY <1>1, <1>5, <2>1 DEF NoIntroduction
  <2>2. CASE Head(q).type # "Handshake"
    <3>1. /\ k - 1 \in DOMAIN Tail(q) /\ Tail(q)[k - 1] = q[k]
          /\ k # 1 /\ k \in Nat
      BY <1>1, <1>5, <2>2
    <3>2. \A i \in DOMAIN Tail(q) : /\ i # k - 1 => Tail(q)[i].type # "Handshake"
                                    /\ i < k - 1 => Tail(q)[i].type \notin ContentTypes
      <4>. SUFFICES ASSUME NEW i \in DOMAIN Tail(q)
                    PROVE  /\ i # k - 1 => q[i + 1].type # "Handshake"
                           /\ i < k - 1 => q[i + 1].type \notin ContentTypes
        BY <1>1
      <4>1. i + 1 \in DOMAIN q /\ i \in Nat
        BY <1>1
      <4>. QED
        BY <1>5, <3>1, <4>1
    <3>3. Local(Head(q))
      BY <1>1, <1>5, <2>2, <3>1 DEF Local
    <3>. QED
      BY <1>5, <2>2, <3>1, <3>2, <3>3 DEF LedByIntroduction
  <2>. QED
    BY <2>1, <2>2
<1>. QED
  BY <1>2, <1>3, <1>4, <1>5 DEF LedByIntroduction

(* So does appending what is not an introduction; appending one to a        *)
(* mailbox with only local messages puts it in front of every frame.        *)
LEMMA AppendKeeps ==
  ASSUME NEW S, NEW q \in Seq(S), NEW e
  PROVE  /\ e.type # "Handshake" => /\ NoIntroduction(q) => NoIntroduction(Append(q, e))
                                    /\ LedByIntroduction(q) => LedByIntroduction(Append(q, e))
                                    /\ \A c : Introduces(q, c) => Introduces(Append(q, e), c)
         /\ Local(e) => (OnlyLocal(q) => OnlyLocal(Append(q, e)))
         /\ e.type = "Handshake" =>
              /\ OnlyLocal(q) => LedByIntroduction(Append(q, e))
              /\ Introduces(q, e.contribution) => Introduces(Append(q, e), e.contribution)
<1>1. /\ Len(q) \in Nat
      /\ DOMAIN q = 1 .. Len(q)
      /\ DOMAIN Append(q, e) = 1 .. Len(q) + 1
      /\ \A i \in DOMAIN q : Append(q, e)[i] = q[i]
      /\ Append(q, e)[Len(q) + 1] = e
  BY AppendPositions
<1>2. ASSUME e.type # "Handshake"
      PROVE  /\ NoIntroduction(q) => NoIntroduction(Append(q, e))
             /\ \A c : Introduces(q, c) => Introduces(Append(q, e), c)
  BY <1>1, <1>2 DEF NoIntroduction, Introduces
<1>3. ASSUME e.type # "Handshake", LedByIntroduction(q)
      PROVE  LedByIntroduction(Append(q, e))
  <2>1. PICK k \in DOMAIN q :
          /\ q[k].type = "Handshake"
          /\ \A i \in DOMAIN q : /\ i # k => q[i].type # "Handshake"
                                 /\ i < k => q[i].type \notin ContentTypes
    BY <1>3 DEF LedByIntroduction
  <2>2. k \in DOMAIN Append(q, e) /\ Append(q, e)[k].type = "Handshake"
    BY <1>1, <2>1
  <2>3. \A i \in DOMAIN Append(q, e) : /\ i # k => Append(q, e)[i].type # "Handshake"
                                       /\ i < k => Append(q, e)[i].type \notin ContentTypes
    BY <1>1, <1>3, <2>1
  <2>. QED
    BY <2>2, <2>3 DEF LedByIntroduction
<1>4. Local(e) => (OnlyLocal(q) => OnlyLocal(Append(q, e)))
  BY <1>1 DEF Local, OnlyLocal
<1>5. ASSUME e.type = "Handshake", OnlyLocal(q)
      PROVE  LedByIntroduction(Append(q, e))
  <2>1. Len(q) + 1 \in DOMAIN Append(q, e)
    BY <1>1
  <2>2. \A i \in DOMAIN Append(q, e) :
          /\ i # Len(q) + 1 => Append(q, e)[i].type # "Handshake"
          /\ i < Len(q) + 1 => Append(q, e)[i].type \notin ContentTypes
    BY <1>1, <1>5 DEF OnlyLocal
  <2>. QED
    BY <1>1, <1>5, <2>1, <2>2 DEF LedByIntroduction
<1>6. e.type = "Handshake" /\ Introduces(q, e.contribution) => Introduces(Append(q, e), e.contribution)
  BY <1>1 DEF Introduces
<1>. QED
  BY <1>2, <1>3, <1>4, <1>5, <1>6
-----------------------------------------------------------------------------
HandshakeInv == OneIntroductionFirst /\ ContributionsAgree /\ NoProtocolViolation

(* ContributionsAgree, with the streams seen as wholes. *)
Agrees(s) ==
  /\ Introduces(wire[s], contribution[s])
  /\ Introduces(mailbox[s], contribution[Peer(s)])
  /\ status[s] = "open" => channel[s] = XorArrays(contribution[s], contribution[Peer(s)])

(* ContributionsAgree is about each side by itself. *)
LEMMA AgreesEach ==
  /\ ContributionsAgree <=> \A s \in Side : Agrees(s)
  /\ ContributionsAgree' <=> \A s \in Side : Agrees(s)'
BY DEF ContributionsAgree, Agrees, Introduces

(* OneIntroductionFirst, for one side. *)
Introduced(s) ==
  /\ ~Live(s) => mailbox[s] = <<>>
  /\ status[s] = "idle" => wire[s] = <<>> /\ loop[s] = "idle" /\ IntroductionUnread(s)
  /\ status[s] = "opening" => IntroductionUnread(s) \/ IntroductionInMailbox(s)
  /\ status[s] = "open" => IntroductionHandled(s)

(* OneIntroductionFirst is about each side by itself. *)
LEMMA IntroducedEach ==
  /\ OneIntroductionFirst <=> \A s \in Side : Introduced(s)
  /\ OneIntroductionFirst' <=> \A s \in Side : Introduced(s)'
BY DEF OneIntroductionFirst, Introduced

(* A step of portal s, or of a task of its side, that leaves the handshake *)
(* alone: at most it takes a message other than an introduction from the   *)
(* mailbox, puts a local one in, and, when open, sends a content frame.    *)
Quiet(s) ==
  /\ UNCHANGED <<portalVars, conduitVars>>
  /\ \/ UNCHANGED mailbox
     \/ Live(s) /\ \E e : Local(e) /\ Cast(s, e)
     \/ /\ mailbox[s] # <<>>
        /\ Head(mailbox[s]).type # "Handshake"
        /\ Done(s) \/ \E e : Local(e) /\ DoneThenCast(s, e)
  /\ \/ UNCHANGED wire
     \/ status[s] = "open" /\ \E m : m.type \in ContentTypes /\ Sends(s, m)

(* A quiet step leaves what a mailbox holds of introductions as it was. *)
LEMMA QuietMailbox ==
  ASSUME TypeOK, NEW s \in Side, Quiet(s)
  PROVE  /\ \A r \in Side : r # s => mailbox'[r] = mailbox[r]
         /\ OnlyLocal(mailbox[s]) => OnlyLocal(mailbox'[s])
         /\ NoIntroduction(mailbox[s]) => NoIntroduction(mailbox'[s])
         /\ LedByIntroduction(mailbox[s]) => LedByIntroduction(mailbox'[s])
         /\ \A c : Introduces(mailbox[s], c) => Introduces(mailbox'[s], c)
         /\ ~Live(s) /\ mailbox[s] = <<>> => mailbox'[s] = <<>>
<1>. DEFINE q == mailbox[s]
<1>1. q \in Seq(PortalActorMessage) /\ mailbox \in [Side -> Seq(PortalActorMessage)]
  BY DEF TypeOK
<1>2. q # <<>> => Tail(q) \in Seq(PortalActorMessage)
  BY <1>1, TailElements
<1>3. CASE UNCHANGED mailbox
  BY <1>3
<1>4. CASE Live(s) /\ \E e : Local(e) /\ Cast(s, e)
  <2>1. PICK e : Local(e) /\ mailbox' = [mailbox EXCEPT ![s] = Append(q, e)]
    BY <1>4 DEF Cast
  <2>2. e.type # "Handshake"
    BY <2>1 DEF Local
  <2>3. mailbox'[s] = Append(q, e) /\ \A r \in Side : r # s => mailbox'[r] = mailbox[r]
    BY <1>1, <2>1
  <2>. HIDE DEF q
  <2>. QED
    BY <1>1, <1>4, <2>1, <2>2, <2>3, AppendKeeps DEF q
<1>5. CASE q # <<>> /\ Head(q).type # "Handshake" /\ Done(s)
  <2>1. mailbox'[s] = Tail(q) /\ \A r \in Side : r # s => mailbox'[r] = mailbox[r]
    BY <1>1, <1>5 DEF Done
  <2>. QED
    BY <1>1, <1>5, <2>1, TailKeeps
<1>6. CASE q # <<>> /\ Head(q).type # "Handshake" /\ \E e : Local(e) /\ DoneThenCast(s, e)
  <2>1. PICK e : Local(e) /\ mailbox' = [mailbox EXCEPT ![s] = Append(Tail(q), e)]
    BY <1>6 DEF DoneThenCast
  <2>2. e.type # "Handshake"
    BY <2>1 DEF Local
  <2>3. mailbox'[s] = Append(Tail(q), e) /\ \A r \in Side : r # s => mailbox'[r] = mailbox[r]
    BY <1>1, <2>1
  <2>4. /\ OnlyLocal(q) => OnlyLocal(Tail(q))
        /\ NoIntroduction(q) => NoIntroduction(Tail(q))
        /\ LedByIntroduction(q) => LedByIntroduction(Tail(q))
        /\ \A c : Introduces(q, c) => Introduces(Tail(q), c)
    BY <1>1, <1>6, TailKeeps
  <2>5. Tail(q) \in Seq(PortalActorMessage)
    BY <1>2, <1>6
  <2>6. /\ OnlyLocal(Tail(q)) => OnlyLocal(Append(Tail(q), e))
        /\ NoIntroduction(Tail(q)) => NoIntroduction(Append(Tail(q), e))
        /\ LedByIntroduction(Tail(q)) => LedByIntroduction(Append(Tail(q), e))
        /\ \A c : Introduces(Tail(q), c) => Introduces(Append(Tail(q), e), c)
    BY <2>1, <2>2, <2>5, AppendKeeps
  <2>. QED
    BY <1>6, <2>3, <2>4, <2>6
<1>. QED
  BY <1>3, <1>4, <1>5, <1>6 DEF Quiet

(* A quiet step leaves what a stream holds of introductions as it was. *)
LEMMA QuietWire ==
  ASSUME TypeOK, NEW s \in Side, Quiet(s)
  PROVE  /\ \A r \in Side : r # s => wire'[r] = wire[r]
         /\ status[s] # "open" \/ ~SourceOpen(Peer(s)) => wire'[s] = wire[s]
         /\ NoIntroduction(wire[s]) => NoIntroduction(wire'[s])
         /\ \A c : Introduces(wire[s], c) => Introduces(wire'[s], c)
         /\ wire[s] # <<>>
              => /\ wire'[s] # <<>>
                 /\ Head(wire'[s]) = Head(wire[s])
                 /\ NoIntroduction(Tail(wire[s])) => NoIntroduction(Tail(wire'[s]))
<1>. DEFINE q == wire[s]
<1>1. q \in Seq(ConduitMessage) /\ wire \in [Side -> Seq(ConduitMessage)]
  BY DEF TypeOK
<1>2. CASE UNCHANGED wire
  BY <1>2
<1>3. CASE /\ status[s] = "open"
           /\ SourceOpen(Peer(s))
           /\ \E m : m.type \in ContentTypes /\ Sends(s, m)
  <2>1. PICK m : m.type \in ContentTypes /\ wire' = [wire EXCEPT ![s] = Append(q, m)]
    BY <1>3 DEF Sends
  <2>2. m.type # "Handshake"
    BY <2>1 DEF ContentTypes
  <2>3. wire'[s] = Append(q, m) /\ \A r \in Side : r # s => wire'[r] = wire[r]
    BY <1>1, <2>1
  <2>4. /\ NoIntroduction(q) => NoIntroduction(Append(q, m))
        /\ \A c : Introduces(q, c) => Introduces(Append(q, m), c)
    BY <1>1, <2>2, AppendKeeps
  <2>5. q # <<>> => /\ Append(q, m) # <<>>
                    /\ Head(Append(q, m)) = Head(q)
                    /\ Tail(Append(q, m)) = Append(Tail(q), m)
    <3>1. q \in Seq(ConduitMessage \cup {m}) /\ m \in ConduitMessage \cup {m}
      BY <1>1, LenProperties
    <3>. QED
      BY <3>1, HeadTailAppend, AppendProperties
  <2>6. q # <<>> /\ NoIntroduction(Tail(q)) => NoIntroduction(Append(Tail(q), m))
    <3>1. q # <<>> => Tail(q) \in Seq(ConduitMessage)
      BY <1>1, TailElements
    <3>. QED
      BY <2>2, <3>1, AppendKeeps
  <2>. QED
    BY <1>3, <2>3, <2>4, <2>5, <2>6
<1>. QED
  BY <1>2, <1>3 DEF Quiet, Sends

(* A quiet step keeps the handshake invariant, as only what it leaves      *)
(* alone is in there.                                                      *)
LEMMA QuietKeeps ==
  ASSUME TypeOK, HandshakeInv, NEW s \in Side, Quiet(s)
  PROVE  HandshakeInv'
<1>1. UNCHANGED <<portalVars, conduitVars>>
  BY DEF Quiet
<1>2. \A r \in Side : SourceOpen(r)' = SourceOpen(r) /\ Live(r)' = Live(r)
  BY <1>1 DEF SourceOpen, Live
<1>3. \A r \in Side : Introduced(r) /\ Agrees(r)
  BY IntroducedEach, AgreesEach DEF HandshakeInv
<1>4. \A r \in Side : Peer(r) \in Side /\ Peer(r) # r /\ Peer(Peer(r)) = r
  BY PeerFacts
<1>5. Introduced(s)' /\ Agrees(s)'
  <2>1. wire'[Peer(s)] = wire[Peer(s)]
    BY <1>4, QuietWire
  <2>2. Introduced(s)'
    BY <1>1, <1>2, <1>3, <2>1, QuietMailbox, QuietWire
    DEF Introduced, IntroductionUnread, IntroductionInMailbox, IntroductionHandled
  <2>. QED
    BY <1>1, <1>3, <2>2, QuietMailbox, QuietWire DEF Agrees
<1>6. ASSUME NEW r \in Side, r = Peer(s)
      PROVE  Introduced(r)' /\ Agrees(r)'
  <2>1. Peer(r) = s /\ r # s /\ mailbox'[r] = mailbox[r] /\ wire'[r] = wire[r]
    BY <1>4, <1>6, QuietMailbox, QuietWire
  <2>2. IntroductionUnread(r) => IntroductionUnread(r)'
    <3>. SUFFICES ASSUME IntroductionUnread(r)
                  PROVE  IntroductionUnread(r)'
      OBVIOUS
    <3>1. CASE wire[s] = <<>>
      BY <1>1, <1>2, <1>6, <2>1, <3>1, QuietWire DEF IntroductionUnread
    <3>2. CASE wire[s] # <<>>
      BY <1>1, <2>1, <3>2, QuietWire DEF IntroductionUnread
    <3>. QED
      BY <3>1, <3>2
  <2>3. /\ IntroductionInMailbox(r) => IntroductionInMailbox(r)'
        /\ IntroductionHandled(r) => IntroductionHandled(r)'
    BY <1>1, <2>1, QuietWire DEF IntroductionInMailbox, IntroductionHandled
  <2>4. Introduced(r)'
    BY <1>1, <1>2, <1>3, <2>1, <2>2, <2>3 DEF Introduced
  <2>. QED
    BY <1>1, <1>3, <2>1, <2>4, QuietWire DEF Agrees
<1>7. \A r \in Side : Introduced(r)' /\ Agrees(r)'
  BY <1>5, <1>6 DEF Side, Peer
<1>8. (OneIntroductionFirst /\ ContributionsAgree)'
  BY <1>7, IntroducedEach, AgreesEach
<1>9. NoProtocolViolation'
  BY <1>1 DEF HandshakeInv, NoProtocolViolation
<1>. QED
  BY <1>8, <1>9 DEF HandshakeInv
-----------------------------------------------------------------------------
(* To show the invariant after a step it is enough to look at the side     *)
(* that acts and at its peer.                                              *)
LEMMA EachSide ==
  ASSUME NEW s \in Side,
         Introduced(s)' /\ Agrees(s)',
         Introduced(Peer(s))' /\ Agrees(Peer(s))',
         NoProtocolViolation'
  PROVE  HandshakeInv'
<1>1. \A r \in Side : r = s \/ r = Peer(s)
  BY DEF Side, Peer
<1>2. \A r \in Side : Introduced(r)' /\ Agrees(r)'
  <2>. SUFFICES ASSUME NEW r \in Side PROVE Introduced(r)' /\ Agrees(r)'
    OBVIOUS
  <2>1. CASE r = s
    BY <2>1
  <2>2. CASE r = Peer(s)
    BY <2>2
  <2>. QED
    BY <1>1, <2>1, <2>2
<1>. QED
  BY <1>2, IntroducedEach, AgreesEach DEF HandshakeInv

(* Starting a portal keeps the handshake invariant: the introduction is    *)
(* the first frame on a stream that was empty.                             *)
LEMMA ConnectKeeps ==
  ASSUME TypeOK, HandshakeInv, NEW s \in Side, Connect(s)
  PROVE  HandshakeInv'
<1>. DEFINE r == Peer(s)
<1>1. r \in Side /\ r # s /\ Peer(r) = s
  BY PeerFacts
<1>2. Introduced(s) /\ Introduced(r) /\ Agrees(s) /\ Agrees(r)
  BY <1>1, IntroducedEach, AgreesEach DEF HandshakeInv
<1>3. PICK c \in Contribution :
        /\ contribution' = [contribution EXCEPT ![s] = c]
        /\ Sends(s, [type |-> "Handshake", contribution |-> c])
  BY SettingContributions DEF Connect, SendsIntroduction, Introduction
<1>. DEFINE h == [type |-> "Handshake", contribution |-> c]
<1>4. /\ UNCHANGED <<exit, channel, mailbox, linkUp>>
      /\ status[s] = "idle" /\ status'[s] = "opening" /\ status'[r] = status[r]
      /\ loop'[s] = "running" /\ loop'[r] = loop[r]
      /\ contribution'[s] = c /\ contribution'[r] = contribution[r]
  BY <1>1, <1>3 DEF TypeOK, Connect, SendsIntroduction, Introduction
<1>5. /\ wire[s] = <<>> /\ mailbox[s] = <<>> /\ loop[s] = "idle"
      /\ IntroductionUnread(s)
      /\ status[r] \in {"idle", "opening"} => IntroductionUnread(r)
      /\ status[r] # "open"
  BY <1>1, <1>2, <1>4 DEF Introduced, IntroductionInMailbox, IntroductionHandled, Live
<1>6. /\ wire'[r] = wire[r]
      /\ SourceOpen(r) => wire'[s] = <<h>>
      /\ ~SourceOpen(r) => wire'[s] = <<>>
  BY <1>1, <1>3, <1>5 DEF Sends, TypeOK
<1>7. /\ <<h>> # <<>> /\ Head(<<h>>) = h /\ Tail(<<h>>) = <<>>
      /\ h.type = "Handshake" /\ h.contribution = c
      /\ Introduces(<<h>>, c) /\ Introduces(<<>>, c) /\ Introduces(<<>>, contribution[r])
      /\ NoIntroduction(<<>>)
  BY DEF Introduces, NoIntroduction
<1>. HIDE DEF h
<1>8. /\ SourceOpen(r)' = SourceOpen(r)
      /\ SourceOpen(s)' = SourceOpen(s)
  BY <1>1, <1>4, <1>5 DEF SourceOpen
<1>9. Introduced(s)'
  BY <1>1, <1>4, <1>5, <1>6, <1>8 DEF Introduced, IntroductionUnread, Live
<1>10. Introduced(r)'
  <2>1. status[r] \in {"idle", "opening"} => IntroductionUnread(r)'
    BY <1>1, <1>4, <1>5, <1>6, <1>7, <1>8 DEF IntroductionUnread
  <2>. QED
    BY <1>1, <1>2, <1>4, <1>5, <1>6, <2>1 DEF Introduced, Live
<1>11. Agrees(s)'
  BY <1>1, <1>4, <1>5, <1>6, <1>7 DEF Agrees
<1>12. Agrees(r)'
  <2>1. \A d : Introduces(mailbox[r], d)
    <3>1. OnlyLocal(mailbox[r])
      <4>1. CASE status[r] = "down"
        BY <1>2, <4>1 DEF Introduced, Live, OnlyLocal
      <4>. QED
        BY <1>1, <1>5, <4>1 DEF TypeOK, IntroductionUnread
    <3>. QED
      BY <3>1 DEF OnlyLocal, Introduces
  <2>. QED
    BY <1>1, <1>2, <1>4, <1>5, <1>6, <2>1 DEF Agrees
<1>. QED
  BY <1>4, <1>9, <1>10, <1>11, <1>12, EachSide DEF HandshakeInv, NoProtocolViolation

(* A portal that does not start keeps the handshake invariant. *)
LEMMA ConnectFailsKeeps ==
  ASSUME TypeOK, HandshakeInv, NEW s \in Side, ConnectFails(s)
  PROVE  HandshakeInv'
<1>. DEFINE r == Peer(s)
<1>1. r \in Side /\ r # s /\ Peer(r) = s
  BY PeerFacts
<1>2. Introduced(s) /\ Introduced(r) /\ Agrees(s) /\ Agrees(r)
  BY <1>1, IntroducedEach, AgreesEach DEF HandshakeInv
<1>3. /\ UNCHANGED <<contribution, channel, mailbox, wire, linkUp>>
      /\ status[s] = "idle" /\ status'[s] = "down" /\ status'[r] = status[r]
      /\ loop'[r] = loop[r]
      /\ ~SourceOpen(r)
      /\ exit'[s] = "failed" /\ exit'[r] = exit[r]
  BY <1>1 DEF TypeOK, ConnectFails
<1>4. wire[s] = <<>> /\ mailbox[s] = <<>> /\ ~SourceOpen(r)'
  BY <1>2, <1>3 DEF Introduced, Live, SourceOpen
<1>5. Introduced(s)'
  BY <1>3, <1>4 DEF Introduced, Live
<1>6. Introduced(r)'
  BY <1>1, <1>2, <1>3, <1>4
  DEF Introduced, IntroductionUnread, IntroductionInMailbox, IntroductionHandled, Live
<1>7. Agrees(s)' /\ Agrees(r)'
  BY <1>1, <1>2, <1>3 DEF Agrees
<1>8. NoProtocolViolation'
  BY <1>1, <1>3 DEF HandshakeInv, NoProtocolViolation, Side, Peer
<1>. QED
  BY <1>5, <1>6, <1>7, <1>8, EachSide

(* The receive loop keeps the handshake invariant: the introduction goes   *)
(* from the head of the stream to a mailbox of local messages.             *)
LEMMA ReceiveLoopReadsKeeps ==
  ASSUME TypeOK, HandshakeInv, NEW s \in Side, ReceiveLoopReads(s)
  PROVE  HandshakeInv'
<1>. DEFINE r == Peer(s)
            h == Head(wire[r])
<1>1. r \in Side /\ r # s /\ Peer(r) = s
  BY PeerFacts
<1>2. Introduced(s) /\ Introduced(r) /\ Agrees(s) /\ Agrees(r)
  BY <1>1, IntroducedEach, AgreesEach DEF HandshakeInv
<1>3. /\ UNCHANGED <<portalVars, linkUp>>
      /\ loop[s] = "running" /\ loop'[r] = loop[r]
      /\ wire[r] # <<>> /\ wire[r] \in Seq(ConduitMessage) /\ mailbox[s] \in Seq(PortalActorMessage)
      /\ wire'[s] = wire[s] /\ mailbox'[r] = mailbox[r]
  BY <1>1 DEF TypeOK, ReceiveLoopReads, Cast
<1>4. status[s] # "idle" /\ status[r] # "idle"
  BY <1>2, <1>3 DEF Introduced
<1>5. SourceOpen(r)' = SourceOpen(r)
  BY <1>3 DEF SourceOpen
<1>6. Introduced(r)' /\ Agrees(r)'
  <2>1. wire'[r] = Tail(wire[r]) \/ wire'[r] = <<>>
    <3>1. \/ wire' = [wire EXCEPT ![r] = Tail(wire[r])]
          \/ wire' = [wire EXCEPT ![r] = <<>>]
      BY DEF ReceiveLoopReads
    <3>. QED
      BY <1>1, <3>1 DEF TypeOK
  <2>2. \A c : Introduces(wire[r], c) => Introduces(wire'[r], c)
    <3>1. \A c : Introduces(<<>>, c)
      BY DEF Introduces
    <3>2. \A c : Introduces(wire[r], c) => Introduces(Tail(wire[r]), c)
      BY <1>3, TailKeeps
    <3>. QED
      BY <2>1, <3>1, <3>2
  <2>. QED
    BY <1>1, <1>2, <1>3, <1>4, <1>5, <2>2
    DEF Introduced, IntroductionUnread, IntroductionInMailbox, IntroductionHandled, Live, Agrees
<1>7. Introduced(s)' /\ Agrees(s)'
  <2>1. CASE ~Live(s)
    <3>1. mailbox'[s] = mailbox[s]
      BY <2>1 DEF ReceiveLoopReads
    <3>. QED
      BY <1>1, <1>2, <1>3, <1>4, <2>1, <3>1 DEF Introduced, Live, Agrees
  <2>2. CASE Live(s)
    <3>1. /\ mailbox'[s] = Append(mailbox[s], h)
          /\ wire'[r] = Tail(wire[r])
      BY <1>1, <2>2 DEF TypeOK, ReceiveLoopReads, Cast
    <3>2. Introduces(Append(mailbox[s], h), contribution[r])
      <4>1. Introduces(mailbox[s], contribution[r])
        BY <1>2 DEF Agrees
      <4>2. h.type = "Handshake" => h.contribution = contribution[r]
        <5>1. 1 \in DOMAIN wire[r] /\ wire[r][1] = h
          BY <1>3, LenProperties, EmptySeq, HeadTailProperties
        <5>. QED
          BY <1>2, <5>1 DEF Agrees, Introduces
      <4>. QED
        BY <1>3, <4>1, <4>2, AppendKeeps
    <3>3. CASE status[s] = "opening" /\ IntroductionUnread(s)
      <4>1. h.type = "Handshake" /\ NoIntroduction(Tail(wire[r])) /\ OnlyLocal(mailbox[s])
        BY <1>3, <3>3 DEF IntroductionUnread
      <4>2. LedByIntroduction(Append(mailbox[s], h))
        BY <1>3, <4>1, AppendKeeps
      <4>. QED
        BY <1>2, <1>3, <1>4, <2>2, <3>1, <3>2, <3>3, <4>1, <4>2
        DEF Introduced, IntroductionInMailbox, Live, Agrees
    <3>4. CASE status[s] = "opening" /\ IntroductionInMailbox(s)
      <4>1. /\ h.type # "Handshake" /\ NoIntroduction(Tail(wire[r]))
            /\ LedByIntroduction(mailbox[s])
        BY <1>3, <3>4, TailKeeps DEF IntroductionInMailbox
      <4>2. LedByIntroduction(Append(mailbox[s], h))
        BY <1>3, <4>1, AppendKeeps
      <4>. QED
        BY <1>2, <1>3, <1>4, <2>2, <3>1, <3>2, <3>4, <4>1, <4>2
        DEF Introduced, IntroductionInMailbox, Live, Agrees
    <3>5. CASE status[s] = "open"
      <4>1. /\ h.type # "Handshake" /\ NoIntroduction(Tail(wire[r]))
            /\ NoIntroduction(mailbox[s])
        BY <1>2, <1>3, <3>5, TailKeeps DEF Introduced, IntroductionHandled
      <4>2. NoIntroduction(Append(mailbox[s], h))
        BY <1>3, <4>1, AppendKeeps
      <4>. QED
        BY <1>2, <1>3, <1>4, <2>2, <3>1, <3>2, <3>5, <4>1, <4>2
        DEF Introduced, IntroductionHandled, Live, Agrees
    <3>. QED
      BY <1>2, <2>2, <3>3, <3>4, <3>5 DEF Live, Introduced
  <2>. QED
    BY <2>1, <2>2
<1>. QED
  BY <1>3, <1>6, <1>7, EachSide DEF HandshakeInv, NoProtocolViolation

(* The end of the source keeps the handshake invariant: Close is a local   *)
(* message.                                                                *)
LEMMA ReceiveLoopEndsKeeps ==
  ASSUME TypeOK, HandshakeInv, NEW s \in Side, ReceiveLoopEnds(s)
  PROVE  HandshakeInv'
<1>. DEFINE r == Peer(s)
            e == [type |-> "Close"]
<1>1. r \in Side /\ r # s /\ Peer(r) = s
  BY PeerFacts
<1>2. Introduced(s) /\ Introduced(r) /\ Agrees(s) /\ Agrees(r)
  BY <1>1, IntroducedEach, AgreesEach DEF HandshakeInv
<1>3. /\ UNCHANGED <<portalVars, linkUp>>
      /\ loop[s] = "running" /\ loop'[s] = "done" /\ loop'[r] = loop[r]
      /\ wire'[r] = <<>> /\ wire'[s] = wire[s] /\ mailbox'[r] = mailbox[r]
      /\ mailbox[s] \in Seq(PortalActorMessage)
      /\ mailbox'[s] = IF Live(s) THEN Append(mailbox[s], e) ELSE mailbox[s]
  BY <1>1 DEF TypeOK, ReceiveLoopEnds, CastsClose, Cast
<1>4. status[s] # "idle"
  BY <1>2, <1>3 DEF Introduced
<1>5. SourceOpen(r)' = SourceOpen(r) /\ ~SourceOpen(s)'
  BY <1>3 DEF SourceOpen
<1>6. NoIntroduction(<<>>) /\ \A c : Introduces(<<>>, c)
  BY DEF NoIntroduction, Introduces
<1>7. Introduced(r)' /\ Agrees(r)'
  BY <1>1, <1>2, <1>3, <1>5, <1>6
  DEF Introduced, IntroductionUnread, IntroductionInMailbox, IntroductionHandled, Live, Agrees
<1>8. /\ OnlyLocal(mailbox[s]) => OnlyLocal(mailbox'[s])
      /\ NoIntroduction(mailbox[s]) => NoIntroduction(mailbox'[s])
      /\ LedByIntroduction(mailbox[s]) => LedByIntroduction(mailbox'[s])
      /\ \A c : Introduces(mailbox[s], c) => Introduces(mailbox'[s], c)
  <2>1. Local(e) /\ e.type # "Handshake"
    BY DEF Local, ContentTypes
  <2>. HIDE DEF e
  <2>. QED
    BY <1>3, <2>1, AppendKeeps
<1>9. Introduced(s)' /\ Agrees(s)'
  <2>1. Introduced(s)'
    BY <1>2, <1>3, <1>4, <1>5, <1>6, <1>8
    DEF Introduced, IntroductionUnread, IntroductionInMailbox, IntroductionHandled, Live
  <2>. QED
    BY <1>2, <1>3, <1>8, <2>1 DEF Agrees
<1>. QED
  BY <1>3, <1>7, <1>9, EachSide DEF HandshakeInv, NoProtocolViolation

(* The handler of Handshake keeps the handshake invariant: nothing is left *)
(* of the introduction, and the ids agree by the symmetry of XorArrays.    *)
LEMMA HandleHandshakeKeeps ==
  ASSUME TypeOK, HandshakeInv, NEW s \in Side, HandleHandshake(s)
  PROVE  HandshakeInv'
<1>. DEFINE r == Peer(s)
<1>1. r \in Side /\ r # s /\ Peer(r) = s
  BY PeerFacts
<1>2. Introduced(s) /\ Introduced(r) /\ Agrees(s) /\ Agrees(r)
  BY <1>1, IntroducedEach, AgreesEach DEF HandshakeInv
<1>3. /\ UNCHANGED <<exit, contribution, wire, conduitVars>>
      /\ status[s] = "opening" /\ status'[s] = "open" /\ status'[r] = status[r]
      /\ mailbox[s] # <<>> /\ mailbox[s] \in Seq(PortalActorMessage)
      /\ mailbox'[s] = Tail(mailbox[s]) /\ mailbox'[r] = mailbox[r]
      /\ Head(mailbox[s]).type = "Handshake"
      /\ channel'[s] = XorArrays(contribution[s], Head(mailbox[s]).contribution)
      /\ channel'[r] = channel[r]
  BY <1>1 DEF TypeOK, HandleHandshake, TellsWaiting, Takes, Done
<1>4. IntroductionInMailbox(s)
  <2>1. ~Local(Head(mailbox[s]))
    BY <1>3 DEF Local
  <2>2. ~OnlyLocal(mailbox[s])
    BY <1>3, <2>1, TailKeeps
  <2>. QED
    BY <1>2, <1>3, <2>2 DEF Introduced, IntroductionUnread
<1>5. Head(mailbox[s]).contribution = contribution[r]
  <2>1. 1 \in DOMAIN mailbox[s] /\ mailbox[s][1] = Head(mailbox[s])
    BY <1>3, LenProperties, EmptySeq, HeadTailProperties
  <2>. QED
    BY <1>2, <1>3, <2>1 DEF Agrees, Introduces
<1>6. NoIntroduction(mailbox'[s]) /\ \A c : Introduces(mailbox[s], c) => Introduces(mailbox'[s], c)
  BY <1>3, <1>4, TailKeeps DEF IntroductionInMailbox
<1>7. Introduced(s)' /\ Agrees(s)'
  BY <1>1, <1>2, <1>3, <1>4, <1>5, <1>6
  DEF Introduced, IntroductionInMailbox, IntroductionHandled, Live, Agrees
<1>8. Introduced(r)' /\ Agrees(r)'
  BY <1>1, <1>2, <1>3
  DEF Introduced, IntroductionUnread, IntroductionInMailbox, IntroductionHandled, Live, Agrees,
      SourceOpen
<1>. QED
  BY <1>3, <1>7, <1>8, EachSide DEF HandshakeInv, NoProtocolViolation

(* The end of a portal, for any cause but a protocol violation, keeps the  *)
(* handshake invariant.                                                    *)
LEMMA GoesDownKeeps ==
  ASSUME TypeOK, HandshakeInv, NEW s \in Side, NEW why, why # "protocol", Live(s), GoesDown(s, why)
  PROVE  HandshakeInv'
<1>. DEFINE r == Peer(s)
<1>1. r \in Side /\ r # s /\ Peer(r) = s
  BY PeerFacts
<1>2. Introduced(s) /\ Introduced(r) /\ Agrees(s) /\ Agrees(r)
  BY <1>1, IntroducedEach, AgreesEach DEF HandshakeInv
<1>3. /\ UNCHANGED <<contribution, channel, wire, conduitVars>>
      /\ status[s] # "idle" /\ status'[s] = "down" /\ status'[r] = status[r]
      /\ mailbox'[s] = <<>> /\ mailbox'[r] = mailbox[r]
      /\ exit'[s] = why /\ exit'[r] = exit[r]
  BY <1>1 DEF TypeOK, GoesDown, Live
<1>4. \A c : Introduces(<<>>, c)
  BY DEF Introduces
<1>5. Introduced(s)' /\ Agrees(s)'
  BY <1>2, <1>3, <1>4 DEF Introduced, Live, Agrees
<1>6. Introduced(r)' /\ Agrees(r)'
  BY <1>1, <1>2, <1>3
  DEF Introduced, IntroductionUnread, IntroductionInMailbox, IntroductionHandled, Live, Agrees,
      SourceOpen
<1>7. NoProtocolViolation'
  BY <1>1, <1>3 DEF HandshakeInv, NoProtocolViolation, Side, Peer
<1>. QED
  BY <1>5, <1>6, <1>7, EachSide

(* A broken link keeps the handshake invariant: it loses frames from the   *)
(* end of a stream only.                                                   *)
LEMMA LinkBreaksKeeps ==
  ASSUME TypeOK, HandshakeInv, LinkBreaks
  PROVE  HandshakeInv'
<1>1. /\ UNCHANGED <<portalVars, mailbox, wire, loop>>
      /\ linkUp' = FALSE
  BY DEF LinkBreaks
<1>2. \A s \in Side : Introduced(s) /\ Agrees(s)
  BY IntroducedEach, AgreesEach DEF HandshakeInv
<1>3. \A s \in Side : Introduced(s)' /\ Agrees(s)'
  BY <1>1, <1>2
  DEF Introduced, IntroductionUnread, IntroductionInMailbox, IntroductionHandled, Live, Agrees,
      SourceOpen
<1>. QED
  BY <1>1, <1>3, IntroducedEach, AgreesEach DEF HandshakeInv, NoProtocolViolation
-----------------------------------------------------------------------------
(* Every other step of a side is quiet. *)

(* The handlers that only answer, remember, publish or write a content     *)
(* frame are quiet.                                                        *)
LEMMA QuietHandlers ==
  ASSUME NEW s \in Side,
         \/ HandleRequestActorByName(s)
         \/ HandleResponseActorByName(s)
         \/ HandleActorExited(s)
         \/ HandleWaitForHandshake(s)
         \/ HandlePublishNamedActor(s)
         \/ HandlePublishActor(s)
         \/ HandleQueryNamedRemoteActor(s)
         \/ HandleImmaterializeMessage(s)
         \/ HandleTransmitMessage(s)
         \/ HandleRegisterProxy(s)
         \/ HandleLocalActorExited(s)
  PROVE  Quiet(s)
<1>1. /\ UNCHANGED <<portalVars, conduitVars>>
      /\ mailbox[s] # <<>> /\ Head(mailbox[s]).type # "Handshake" /\ Done(s)
  BY Zenon DEF HandleRequestActorByName, HandleResponseActorByName, HandleActorExited,
         HandleWaitForHandshake, HandlePublishNamedActor, HandlePublishActor,
         HandleQueryNamedRemoteActor, HandleImmaterializeMessage, HandleTransmitMessage,
         HandleRegisterProxy, HandleLocalActorExited, TakesWhenOpen, Takes
<1>. DEFINE SendsContent == status[s] = "open" /\ \E m : m.type \in ContentTypes /\ Sends(s, m)
<1>2. CASE HandleRequestActorByName(s)
  <2>1. PICK r : Sends(s, [type |-> "ResponseActorByName", id |-> Head(mailbox[s]).id, response |-> r])
    BY <1>2 DEF HandleRequestActorByName
  <2>2. SendsContent
    BY <1>2, <2>1 DEF HandleRequestActorByName, TakesWhenOpen, ContentTypes
  <2>. QED
    BY <1>1, <2>2 DEF Quiet
<1>3. CASE HandleQueryNamedRemoteActor(s)
  <2>1. \/ UNCHANGED wire
        \/ /\ status[s] = "open"
           /\ Sends(s, [type |-> "RequestActorByName", id |-> nextRequest[s],
                        name |-> Head(mailbox[s]).name])
    BY <1>3 DEF HandleQueryNamedRemoteActor
  <2>2. UNCHANGED wire \/ SendsContent
    BY <2>1 DEF ContentTypes
  <2>. QED
    BY <1>1, <2>2 DEF Quiet
<1>4. CASE HandleTransmitMessage(s)
  <2>1. /\ status[s] = "open"
        /\ Sends(s, [type |-> "SendMessage", target |-> Head(mailbox[s]).target,
                     payload |-> Head(mailbox[s]).payload])
    BY <1>4 DEF HandleTransmitMessage, TakesWhenOpen
  <2>2. SendsContent
    BY <2>1 DEF ContentTypes
  <2>. QED
    BY <1>1, <2>2 DEF Quiet
<1>5. CASE HandleLocalActorExited(s)
  <2>1. \/ UNCHANGED wire
        \/ /\ status[s] = "open"
           /\ \E id : Sends(s, [type |-> "ActorExited", target |-> RemoteId(s, id)])
    BY <1>5 DEF HandleLocalActorExited, IdsOf
  <2>2. \A id : [type |-> "ActorExited", target |-> RemoteId(s, id)].type \in ContentTypes
    BY DEF ContentTypes
  <2>3. UNCHANGED wire \/ SendsContent
    BY <2>1, <2>2
  <2>. QED
    BY <1>1, <2>3 DEF Quiet
<1>6. CASE UNCHANGED wire
  BY <1>1, <1>6 DEF Quiet
<1>. QED
  BY <1>2, <1>3, <1>4, <1>5, <1>6, Zenon
  DEF HandleResponseActorByName, HandleActorExited, HandleWaitForHandshake,
      HandlePublishNamedActor, HandlePublishActor, HandleImmaterializeMessage,
      HandleRegisterProxy

(* Delivering a message, with the registration of a proxy for the          *)
(* reference in it, is quiet.                                              *)
LEMMA QuietDelivery ==
  ASSUME NEW s \in Side, HandleSendMessage(s)
  PROVE  Quiet(s)
<1>1. /\ UNCHANGED <<portalVars, conduitVars, wire>>
      /\ mailbox[s] # <<>> /\ Head(mailbox[s]).type # "Handshake"
  BY Zenon DEF HandleSendMessage, TakesWhenOpen, Takes
<1>2. Done(s) \/ \E t, p : DoneThenCast(s, [type |-> "RegisterProxy", target |-> t, proxy |-> p])
  BY Zenon DEF HandleSendMessage
<1>3. \A t, p : Local([type |-> "RegisterProxy", target |-> t, proxy |-> p])
  BY DEF Local, ContentTypes
<1>. QED
  BY <1>1, <1>2, <1>3, Zenon DEF Quiet

(* What the watchers, the serialization tasks and the applications cast is *)
(* local: they are quiet.                                                  *)
LEMMA QuietTasks ==
  ASSUME SendsAreOwned, NEW s \in Side,
         \/ \E a \in Actor : WatcherReports(s, a)
         \/ \E m \in Msg : SerializationTask(s, m)
         \/ \E n \in Name, a \in Actor : AppOffersOnNexus(s, n, a) \/ AppOffers(s, n, a)
         \/ \E q \in Asker : AppWaitsForHandshake(s, q) \/ AppInstantiatesProxy(s, q)
         \/ \E q \in Asker, n \in Name : AppQueries(s, q, n)
         \/ \E p \in Proxy, m \in Msg, ref \in Actor \cup {None} : AppSends(s, p, m, ref)
  PROVE  Quiet(s)
<1>. DEFINE CastsLocal == Live(s) /\ \E e : Local(e) /\ Cast(s, e)
<1>1. UNCHANGED <<portalVars, conduitVars, wire>>
  BY DEF WatcherReports, SerializationTask, TaskAsksToPublish, TaskTransmits, AppOffersOnNexus,
         AppOffers, AppWaitsForHandshake, AppInstantiatesProxy, AppQueries, AppSends
<1>. SUFFICES UNCHANGED mailbox \/ CastsLocal
  BY <1>1 DEF Quiet
<1>2. ASSUME NEW a \in Actor, WatcherReports(s, a)
      PROVE  UNCHANGED mailbox \/ CastsLocal
  BY <1>2 DEF WatcherReports, Local, ContentTypes
<1>3. ASSUME NEW m \in Msg, SerializationTask(s, m)
      PROVE  UNCHANGED mailbox \/ CastsLocal
  BY <1>3 DEF SerializationTask, TaskAsksToPublish, TaskTransmits, Local, ContentTypes
<1>4. ASSUME NEW n \in Name, NEW a \in Actor, AppOffersOnNexus(s, n, a) \/ AppOffers(s, n, a)
      PROVE  UNCHANGED mailbox \/ CastsLocal
  BY <1>4 DEF AppOffersOnNexus, AppOffers, Local, ContentTypes
<1>5. ASSUME NEW q \in Asker, AppWaitsForHandshake(s, q) \/ AppInstantiatesProxy(s, q)
      PROVE  UNCHANGED mailbox \/ CastsLocal
  BY <1>5 DEF AppWaitsForHandshake, AppInstantiatesProxy, Local, ContentTypes
<1>6. ASSUME NEW q \in Asker, NEW n \in Name, AppQueries(s, q, n)
      PROVE  UNCHANGED mailbox \/ CastsLocal
  BY <1>6 DEF AppQueries, Local, ContentTypes
<1>7. ASSUME NEW p \in Proxy, NEW m \in Msg, NEW ref, AppSends(s, p, m, ref)
      PROVE  UNCHANGED mailbox \/ CastsLocal
  <2>1. Live(s)
    BY <1>7 DEF AppSends, SendsAreOwned, ProxiesRunWithPortal
  <2>. QED
    BY <1>7, <2>1 DEF AppSends, Local, ContentTypes
<1>. QED
  BY <1>2, <1>3, <1>4, <1>5, <1>6, <1>7

(* The two branches of handle that stop the portal are never taken. *)
LEMMA NothingViolates ==
  ASSUME TypeOK, HandshakeInv, NEW s \in Side, Live(s), mailbox[s] # <<>>
  PROVE  ~Violates(s, Head(mailbox[s]))
<1>1. Introduced(s) /\ mailbox[s] \in Seq(PortalActorMessage)
  BY IntroducedEach DEF HandshakeInv, TypeOK
<1>2. CASE status[s] = "open"
  BY <1>1, <1>2, TailKeeps DEF Introduced, IntroductionHandled, Violates
<1>3. CASE status[s] = "opening"
  <2>1. OnlyLocal(mailbox[s]) \/ LedByIntroduction(mailbox[s])
    BY <1>1, <1>3 DEF Introduced, IntroductionUnread, IntroductionInMailbox
  <2>2. Local(Head(mailbox[s])) \/ Head(mailbox[s]).type = "Handshake"
    BY <1>1, <2>1, TailKeeps
  <2>. QED
    BY <1>3, <2>2 DEF Violates, Local, ContentTypes
<1>. QED
  BY <1>2, <1>3 DEF Live

(* Every step keeps the handshake invariant. *)
LEMMA NextKeepsHandshake ==
  ASSUME TypeOK, SendsAreOwned, HandshakeInv, [Next]_vars
  PROVE  HandshakeInv'
<1>1. CASE UNCHANGED <<portalVars, conduitVars, mailbox, wire>>
  <2>1. \A s \in Side : Quiet(s)
    BY <1>1 DEF Quiet
  <2>2. "a" \in Side
    BY DEF Side
  <2>. QED
    BY <2>1, <2>2, QuietKeeps
<1>2. ASSUME NEW s \in Side, Handle(s)
      PROVE  HandshakeInv'
  <2>1. CASE HandleHandshake(s)
    BY <2>1, HandleHandshakeKeeps
  <2>2. CASE HandleClose(s)
    BY <2>2, NothingViolates, GoesDownKeeps DEF HandleClose
  <2>3. CASE PortalFails(s)
    BY <2>3, GoesDownKeeps DEF PortalFails
  <2>4. CASE HandleSendMessage(s)
    BY <2>4, QuietDelivery, QuietKeeps
  <2>. QED
    BY <1>2, <2>1, <2>2, <2>3, <2>4, QuietHandlers, QuietKeeps DEF Handle
<1>3. ASSUME NEW s \in Side, ReceiveLoop(s)
      PROVE  HandshakeInv'
  BY <1>3, ReceiveLoopReadsKeeps, ReceiveLoopEndsKeeps DEF ReceiveLoop
<1>4. ASSUME NEW s \in Side, Application(s)
      PROVE  HandshakeInv'
  <2>1. CASE Connect(s) \/ ConnectFails(s)
    BY <2>1, ConnectKeeps, ConnectFailsKeeps
  <2>. QED
    BY <1>4, <2>1, QuietTasks, QuietKeeps DEF Application
<1>5. CASE Environment
  <2>1. ASSUME NEW s \in Side, AppStopsPortal(s)
        PROVE  HandshakeInv'
    BY <2>1, GoesDownKeeps DEF AppStopsPortal
  <2>2. CASE \/ \E s \in Side, q \in Asker : AskTimesOut(s, q)
             \/ \E s \in Side, a \in Actor : ActorExits(s, a)
    BY <1>1, <2>2 DEF AskTimesOut, ActorExits
  <2>. QED
    BY <1>5, <2>1, <2>2, LinkBreaksKeeps DEF Environment
<1>6. CASE UNCHANGED vars
  BY <1>1, <1>6 DEF vars
<1>. QED
  BY <1>2, <1>3, <1>4, <1>5, <1>6, QuietTasks, QuietKeeps DEF Next

(* Before anything is connected both streams and mailboxes are empty. *)
LEMMA InitIntroduced ==
  ASSUME Init
  PROVE  HandshakeInv
<1>1. OnlyLocal(<<>>)
  BY DEF OnlyLocal
<1>2. OneIntroductionFirst
  BY <1>1, PeerFacts DEF Init, OneIntroductionFirst, IntroductionUnread, Live
<1>3. ContributionsAgree
  BY DEF Init, ContributionsAgree
<1>4. NoProtocolViolation
  BY PortalAssumption DEF Init, NoProtocolViolation, Exits
<1>. QED
  BY <1>2, <1>3, <1>4 DEF HandshakeInv

(* The invariant of the handshake holds in every reachable state, beside   *)
(* the types and the ownership.                                            *)
LEMMA HandshakeInvariant == Spec => [](TypeOK /\ SendsAreOwned /\ HandshakeInv)
<1>1. Init => TypeOK /\ SendsAreOwned /\ HandshakeInv
  BY InitTyped, InitOwned, InitIntroduced
<1>2. TypeOK /\ SendsAreOwned /\ HandshakeInv /\ [Next]_vars
        => (TypeOK /\ SendsAreOwned /\ HandshakeInv)'
  BY NextTyped, NextOwned, NextKeepsHandshake
<1>. QED
  BY <1>1, <1>2, PTL DEF Spec

(* Neither portal ever stops with a protocol violation: the introduction   *)
(* of the peer comes before its other frames and comes once, whatever the  *)
(* applications, the tasks, the receive loops and the link do.             *)
THEOREM NeverAViolation == Spec => []NoProtocolViolation
<1>1. TypeOK /\ SendsAreOwned /\ HandshakeInv => NoProtocolViolation
  BY DEF HandshakeInv
<1>. QED
  BY <1>1, HandshakeInvariant, PTL

(* The invariant behind it: where the one introduction of each stream is.  *)
THEOREM IntroductionComesFirst == Spec => []OneIntroductionFirst
<1>1. TypeOK /\ SendsAreOwned /\ HandshakeInv => OneIntroductionFirst
  BY DEF HandshakeInv
<1>. QED
  BY <1>1, HandshakeInvariant, PTL

(* Two open portals have computed the same conduit id: RemoteActorId's     *)
(* connection_key means the same on both sides.                            *)
THEOREM OneChannelId == Spec => []ChannelAgreement
<1>1. TypeOK /\ SendsAreOwned /\ HandshakeInv => ChannelAgreement
  <2>. SUFFICES ASSUME HandshakeInv, NEW s \in Side, NEW r \in Side,
                       status[s] = "open", status[r] = "open"
                PROVE  channel[s] = channel[r]
    BY DEF ChannelAgreement
  <2>1. CASE r = s
    BY <2>1
  <2>2. CASE r = Peer(s)
    <3>1. /\ channel[s] = XorArrays(contribution[s], contribution[r])
          /\ channel[r] = XorArrays(contribution[r], contribution[s])
      BY <2>2, PeerFacts DEF HandshakeInv, ContributionsAgree
    <3>. QED
      BY <3>1 DEF XorArrays
  <2>. QED
    BY <2>1, <2>2 DEF Side, Peer
<1>. QED
  BY <1>1, HandshakeInvariant, PTL
-----------------------------------------------------------------------------
(* The tasks that ask a portal: none is forgotten, and no portal goes down *)
(* on its own account.                                                     *)

IsPortOf(e, q) == e.type \in PortTypes /\ e.port = q

(* A place may have moved, within what holds the port. *)
Same(S, T) == (AtMostOne(S) => AtMostOne(T)) /\ (S = {} <=> T = {})

(* Taking the head off a mailbox drops the port in it, if it has one, and  *)
(* moves the others.                                                       *)
LEMMA TailPlaces ==
  ASSUME NEW S, NEW box \in Seq(S), box # <<>>, NEW q
  PROVE  /\ ~IsPortOf(Head(box), q) => Same(MailboxPlaces(box, q), MailboxPlaces(Tail(box), q))
         /\ IsPortOf(Head(box), q) =>
              /\ MailboxPlaces(box, q) # {}
              /\ AtMostOne(MailboxPlaces(box, q)) => MailboxPlaces(Tail(box), q) = {}
<1>. DEFINE M == MailboxPlaces(box, q)
            T == MailboxPlaces(Tail(box), q)
<1>1. /\ DOMAIN box = 1 .. Len(box) /\ Len(box) \in Nat
      /\ 1 \in DOMAIN box /\ Head(box) = box[1]
      /\ DOMAIN Tail(box) = 1 .. Len(box) - 1
      /\ \A i \in DOMAIN Tail(box) : i \in Nat /\ Tail(box)[i] = box[i + 1]
  BY TailElements
<1>2. \A i \in DOMAIN box : i # 1 => i - 1 \in DOMAIN Tail(box) /\ (i - 1) + 1 = i
  BY <1>1
<1>3. \A i \in T : i \in Nat /\ i + 1 \in M /\ i + 1 # 1
  BY <1>1 DEF MailboxPlaces
<1>4. \A i \in M : i # 1 => i - 1 \in T
  BY <1>1, <1>2 DEF MailboxPlaces
<1>5. 1 \in M <=> IsPortOf(Head(box), q)
  BY <1>1 DEF MailboxPlaces, IsPortOf
<1>6. AtMostOne(M) => AtMostOne(T)
  BY <1>3 DEF AtMostOne
<1>. HIDE DEF M, T
<1>7. ASSUME ~IsPortOf(Head(box), q)
      PROVE  Same(M, T)
  <2>1. M = {} <=> T = {}
    BY <1>3, <1>4, <1>5, <1>7
  <2>. QED
    BY <1>6, <2>1 DEF Same
<1>8. ASSUME IsPortOf(Head(box), q)
      PROVE  M # {} /\ (AtMostOne(M) => T = {})
  BY <1>3, <1>5, <1>8 DEF AtMostOne
<1>. QED
  BY <1>7, <1>8 DEF M, T

(* A message appended to a mailbox adds the port it has, if any. *)
LEMMA AppendPlaces ==
  ASSUME NEW S, NEW box \in Seq(S), NEW e, NEW q
  PROVE  /\ ~IsPortOf(e, q) => MailboxPlaces(Append(box, e), q) = MailboxPlaces(box, q)
         /\ IsPortOf(e, q) /\ MailboxPlaces(box, q) = {} =>
              /\ MailboxPlaces(Append(box, e), q) # {}
              /\ AtMostOne(MailboxPlaces(Append(box, e), q))
<1>1. /\ DOMAIN Append(box, e) = DOMAIN box \cup {Len(box) + 1}
      /\ Len(box) + 1 \notin DOMAIN box
      /\ \A i \in DOMAIN box : Append(box, e)[i] = box[i]
      /\ Append(box, e)[Len(box) + 1] = e
  BY AppendPositions
<1>2. ASSUME ~IsPortOf(e, q)
      PROVE  MailboxPlaces(Append(box, e), q) = MailboxPlaces(box, q)
  BY <1>1, <1>2 DEF MailboxPlaces, IsPortOf
<1>3. ASSUME IsPortOf(e, q), MailboxPlaces(box, q) = {}
      PROVE  MailboxPlaces(Append(box, e), q) = {Len(box) + 1}
  BY <1>1, <1>3 DEF MailboxPlaces, IsPortOf
<1>. QED
  BY <1>2, <1>3 DEF AtMostOne

(* The port of one task more in the queue of those that wait for the       *)
(* handshake.                                                              *)
LEMMA WaitingPlaces ==
  ASSUME NEW box \in Seq(Asker), NEW e \in Asker, NEW q \in Asker
  PROVE  /\ q # e => PlacesOf(Append(box, e), q) = PlacesOf(box, q)
         /\ q = e /\ PlacesOf(box, q) = {} =>
              PlacesOf(Append(box, e), q) # {} /\ AtMostOne(PlacesOf(Append(box, e), q))
<1>1. /\ DOMAIN Append(box, e) = DOMAIN box \cup {Len(box) + 1}
      /\ Len(box) + 1 \notin DOMAIN box
      /\ \A i \in DOMAIN box : Append(box, e)[i] = box[i]
      /\ Append(box, e)[Len(box) + 1] = e
  BY AppendPositions
<1>2. ASSUME q # e
      PROVE  PlacesOf(Append(box, e), q) = PlacesOf(box, q)
  BY <1>1, <1>2 DEF PlacesOf
<1>3. ASSUME q = e, PlacesOf(box, q) = {}
      PROVE  PlacesOf(Append(box, e), q) = {Len(box) + 1}
  BY <1>1, <1>3 DEF PlacesOf
<1>. QED
  BY <1>2, <1>3 DEF AtMostOne

(* The same for the map of the requests that are open, where the new one   *)
(* has a number of its own; and answering one frees its port only.         *)
LEMMA RequestPortPlaces ==
  ASSUME NEW f, NEW k, NEW e, NEW q
  PROVE  /\ k \notin DOMAIN f =>
              /\ q # e => PlacesOf(Insert(f, k, e), q) = PlacesOf(f, q)
              /\ q = e /\ PlacesOf(f, q) = {} => PlacesOf(Insert(f, k, e), q) = {k}
         /\ k \in DOMAIN f =>
              /\ q # f[k] => PlacesOf(Remove(f, k), q) = PlacesOf(f, q)
              /\ q = f[k] /\ AtMostOne(PlacesOf(f, q)) =>
                   PlacesOf(f, q) # {} /\ PlacesOf(Remove(f, k), q) = {}
<1>1. ASSUME k \notin DOMAIN f, q # e
      PROVE  PlacesOf(Insert(f, k, e), q) = PlacesOf(f, q)
  BY <1>1 DEF PlacesOf, Insert
<1>2. ASSUME k \notin DOMAIN f, q = e, PlacesOf(f, q) = {}
      PROVE  PlacesOf(Insert(f, k, e), q) = {k}
  BY <1>2 DEF PlacesOf, Insert
<1>3. ASSUME k \in DOMAIN f, q # f[k]
      PROVE  PlacesOf(Remove(f, k), q) = PlacesOf(f, q)
  BY <1>3 DEF PlacesOf, Remove
<1>4. ASSUME k \in DOMAIN f, q = f[k], AtMostOne(PlacesOf(f, q))
      PROVE  PlacesOf(f, q) # {} /\ PlacesOf(Remove(f, k), q) = {}
  BY <1>4 DEF PlacesOf, Remove, AtMostOne
<1>. QED
  BY <1>1, <1>2, <1>3, <1>4
-----------------------------------------------------------------------------
(* A portal that takes its next message lets go of the port in it. *)
LEMMA DonePlaces ==
  ASSUME TypeOK, NEW s \in Side, mailbox[s] # <<>>, Done(s)
  PROVE  /\ \A r \in Side : r # s => mailbox'[r] = mailbox[r]
         /\ \A q \in Asker :
              LET M == MailboxPlaces(mailbox[s], q)
              IN /\ ~IsPortOf(Head(mailbox[s]), q) => Same(M, MailboxPlaces(mailbox'[s], q))
                 /\ IsPortOf(Head(mailbox[s]), q) =>
                      /\ M # {}
                      /\ AtMostOne(M) => MailboxPlaces(mailbox'[s], q) = {}
<1>1. mailbox[s] \in Seq(PortalActorMessage) /\ mailbox \in [Side -> Seq(PortalActorMessage)]
  BY DEF TypeOK
<1>2. mailbox'[s] = Tail(mailbox[s]) /\ \A r \in Side : r # s => mailbox'[r] = mailbox[r]
  BY <1>1 DEF Done
<1>. QED
  BY <1>1, <1>2, TailPlaces

(* A message cast to a portal brings the port in it. *)
LEMMA CastPlaces ==
  ASSUME TypeOK, NEW s \in Side, NEW e, Cast(s, e)
  PROVE  /\ \A r \in Side : r # s => mailbox'[r] = mailbox[r]
         /\ \A q \in Asker :
              LET M == MailboxPlaces(mailbox[s], q)
              IN /\ ~IsPortOf(e, q) => MailboxPlaces(mailbox'[s], q) = M
                 /\ IsPortOf(e, q) /\ M = {} =>
                      /\ MailboxPlaces(mailbox'[s], q) # {}
                      /\ AtMostOne(MailboxPlaces(mailbox'[s], q))
<1>1. mailbox[s] \in Seq(PortalActorMessage) /\ mailbox \in [Side -> Seq(PortalActorMessage)]
  BY DEF TypeOK
<1>2. mailbox'[s] = Append(mailbox[s], e) /\ \A r \in Side : r # s => mailbox'[r] = mailbox[r]
  BY <1>1 DEF Cast
<1>. QED
  BY <1>1, <1>2, AppendPlaces

(* No portal goes down. *)
StillLive == \A r \in Side : Live(r) => status'[r] \in {"opening", "open"}

(* A step of portal s, or of a task of its side, that leaves the asking    *)
(* tasks and their ports alone.                                            *)
Unrelated(s) ==
  /\ UNCHANGED <<requestVars, asker>>
  /\ StillLive
  /\ \/ UNCHANGED mailbox
     \/ \E e : e.type \notin PortTypes /\ Cast(s, e)
     \/ /\ mailbox[s] # <<>>
        /\ Head(mailbox[s]).type \notin PortTypes
        /\ Done(s) \/ \E e : e.type \notin PortTypes /\ DoneThenCast(s, e)

(* Such a step leaves every port in its mailbox.                           *)
LEMMA UnrelatedPlaces ==
  ASSUME TypeOK, NEW s \in Side, Unrelated(s), NEW r \in Side, NEW q \in Asker
  PROVE  Same(MailboxPlaces(mailbox[r], q), MailboxPlaces(mailbox'[r], q))
<1>1. CASE UNCHANGED mailbox
  BY <1>1 DEF Same
<1>2. CASE \E e : e.type \notin PortTypes /\ Cast(s, e)
  <2>1. PICK e : e.type \notin PortTypes /\ Cast(s, e)
    BY <1>2
  <2>2. ~IsPortOf(e, q)
    BY <2>1 DEF IsPortOf
  <2>. QED
    BY <2>1, <2>2, CastPlaces DEF Same
<1>3. CASE mailbox[s] # <<>> /\ Head(mailbox[s]).type \notin PortTypes /\ Done(s)
  <2>1. ~IsPortOf(Head(mailbox[s]), q)
    BY <1>3 DEF IsPortOf
  <2>. QED
    BY <1>3, <2>1, DonePlaces DEF Same
<1>4. CASE /\ mailbox[s] # <<>> /\ Head(mailbox[s]).type \notin PortTypes
           /\ \E e : e.type \notin PortTypes /\ DoneThenCast(s, e)
  <2>1. mailbox[s] \in Seq(PortalActorMessage) /\ mailbox \in [Side -> Seq(PortalActorMessage)]
    BY DEF TypeOK
  <2>2. PICK e : e.type \notin PortTypes /\ mailbox' = [mailbox EXCEPT ![s] = Append(Tail(@), e)]
    BY <1>4 DEF DoneThenCast
  <2>3. ~IsPortOf(Head(mailbox[s]), q) /\ ~IsPortOf(e, q)
    BY <1>4, <2>2 DEF IsPortOf
  <2>4. CASE r = s
    <3>1. mailbox'[s] = Append(Tail(mailbox[s]), e) /\ Tail(mailbox[s]) \in Seq(PortalActorMessage)
      BY <1>4, <2>1, <2>2, TailElements
    <3>. DEFINE rest == Tail(mailbox[s])
    <3>2. mailbox'[s] = Append(rest, e) /\ rest \in Seq(PortalActorMessage)
      BY <3>1
    <3>. HIDE DEF rest
    <3>3. MailboxPlaces(Append(rest, e), q) = MailboxPlaces(rest, q)
      BY <2>3, <3>2, AppendPlaces
    <3>4. Same(MailboxPlaces(mailbox[s], q), MailboxPlaces(rest, q))
      BY <1>4, <2>1, <2>3, TailPlaces DEF rest
    <3>. QED
      BY <2>4, <3>2, <3>3, <3>4
  <2>5. CASE r # s
    BY <2>1, <2>2, <2>5 DEF Same
  <2>. QED
    BY <2>4, <2>5
<1>. QED
  BY <1>1, <1>2, <1>3, <1>4 DEF Unrelated

(* A step that leaves the asking tasks and their ports alone leaves them   *)
(* owned.                                                                  *)
LEMMA UnrelatedKeeps ==
  ASSUME TypeOK, PortsAreOwnedOnce, NEW s \in Side, Unrelated(s)
  PROVE  PortsAreOwnedOnce'
<1>. SUFFICES ASSUME NEW r \in Side, NEW q \in Asker
              PROVE  OwnedOnce(r, q)'
  BY DEF PortsAreOwnedOnce
<1>1. OwnedOnce(r, q)
  BY DEF PortsAreOwnedOnce
<1>2. Same(MailboxPlaces(mailbox[r], q), MailboxPlaces(mailbox'[r], q))
  BY UnrelatedPlaces
<1>3. /\ openRequests' = openRequests /\ waiting' = waiting /\ asker' = asker
      /\ Live(r) => Live(r)'
  BY DEF Unrelated, StillLive, Live
<1>. QED
  BY <1>1, <1>2, <1>3 DEF OwnedOnce, Same, Waits, Live

(* To show that ports are owned after a step of one side that concerns one *)
(* task, look at that task only.                                           *)
LEMMA OnlyTask ==
  ASSUME PortsAreOwnedOnce, NEW s \in Side, NEW q \in Asker,
         OwnedOnce(s, q)',
         StillLive,
         \A r \in Side, p \in Asker :
           r # s \/ p # q =>
             /\ Same(MailboxPlaces(mailbox[r], p), MailboxPlaces(mailbox'[r], p))
             /\ Same(PlacesOf(openRequests[r], p), PlacesOf(openRequests'[r], p))
             /\ Same(PlacesOf(waiting[r], p), PlacesOf(waiting'[r], p))
             /\ asker'[r][p] = asker[r][p]
  PROVE  PortsAreOwnedOnce'
<1>. SUFFICES ASSUME NEW r \in Side, NEW p \in Asker, r # s \/ p # q
              PROVE  OwnedOnce(r, p)'
  BY DEF PortsAreOwnedOnce
<1>1. OwnedOnce(r, p)
  BY DEF PortsAreOwnedOnce
<1>2. /\ Same(MailboxPlaces(mailbox[r], p), MailboxPlaces(mailbox'[r], p))
      /\ Same(PlacesOf(openRequests[r], p), PlacesOf(openRequests'[r], p))
      /\ Same(PlacesOf(waiting[r], p), PlacesOf(waiting'[r], p))
      /\ asker'[r][p] = asker[r][p]
  OBVIOUS
<1>3. Live(r) => Live(r)'
  BY DEF StillLive, Live
<1>. QED
  BY <1>1, <1>2, <1>3 DEF OwnedOnce, Same, Waits
-----------------------------------------------------------------------------
(* An answer changes the task it goes to, and nothing of what it asked.    *)
LEMMA RepliesEffect ==
  ASSUME TypeOK, NEW s \in Side, NEW q \in Asker, NEW got, Replies(s, q, got)
  PROVE  /\ asker'[s][q].state = "answered"
         /\ asker'[s][q].got = got
         /\ asker'[s][q].wants = asker[s][q].wants
         /\ asker'[s][q].known = asker[s][q].known
         /\ \A r \in Side, p \in Asker : r # s \/ p # q => asker'[r][p] = asker[r][p]
<1>1. asker \in [Side -> [Asker -> AskerState]] /\ asker[s] \in [Asker -> AskerState]
      /\ asker[s][q] \in AskerState
  BY DEF TypeOK
<1>2. asker' = [asker EXCEPT ![s] = [asker[s] EXCEPT ![q] =
                  [asker[s][q] EXCEPT !.state = "answered", !.got = got]]]
  BY DEF Replies
<1>3. asker'[s][q] = [asker[s][q] EXCEPT !.state = "answered", !.got = got]
  BY <1>1, <1>2
<1>4. \A r \in Side, p \in Asker : r # s \/ p # q => asker'[r][p] = asker[r][p]
  BY <1>1, <1>2
<1>. QED
  BY <1>1, <1>3, <1>4 DEF AskerState

(* A task that begins to wait had not asked before. *)
LEMMA BeginsEffect ==
  ASSUME TypeOK, NEW s \in Side, NEW q \in Asker, NEW wants, NEW known,
         MayAsk(s, q), BeginsToWait(s, q, wants, known)
  PROVE  /\ asker[s][q] = IdleAsker /\ asker[s][q].state = "idle"
         /\ asker'[s][q].state = "waiting" /\ asker'[s][q].wants = wants
         /\ asker'[s][q].known = known /\ asker'[s][q].got = None
         /\ \A r \in Side, p \in Asker : r # s \/ p # q => asker'[r][p] = asker[r][p]
<1>1. asker \in [Side -> [Asker -> AskerState]] /\ asker[s] \in [Asker -> AskerState]
  BY DEF TypeOK
<1>. QED
  BY <1>1 DEF MayAsk, BeginsToWait, IdleAsker

(* Dropping ports wakes the tasks that wait for them, and touches no other *)
(* answer.                                                                 *)
Refuses(s, Q) == asker' = [asker EXCEPT ![s] = Refused(@, Q)]

(* What the dropped reply ports of a portal do to its askers, and to no    *)
(* other.                                                                  *)
LEMMA RefusedEffect ==
  ASSUME TypeOK, NEW s \in Side, NEW Q, Refuses(s, Q)
  PROVE  /\ \A q \in Asker : q \in Q /\ Waits(s, q) => asker'[s][q].state = "refused"
         /\ \A q \in Asker : q \notin Q \/ ~Waits(s, q) => asker'[s][q] = asker[s][q]
         /\ \A q \in Asker : /\ asker'[s][q].wants = asker[s][q].wants
                             /\ asker'[s][q].known = asker[s][q].known
                             /\ asker'[s][q].got = asker[s][q].got
         /\ \A r \in Side : r # s => asker'[r] = asker[r]
<1>1. /\ asker \in [Side -> [Asker -> AskerState]]
      /\ \A q \in Asker : asker[s][q] \in AskerState
  BY DEF TypeOK
<1>2. asker'[s] = Refused(asker[s], Q) /\ \A r \in Side : r # s => asker'[r] = asker[r]
  BY <1>1 DEF Refuses
<1>3. \A q \in Asker :
        asker'[s][q] = IF q \in Q /\ Waits(s, q)
                       THEN [asker[s][q] EXCEPT !.state = "refused"] ELSE asker[s][q]
  BY <1>2 DEF Refused, Waits
<1>. QED
  BY <1>1, <1>2, <1>3 DEF AskerState

(* When a portal goes down every port it held is dropped, and no task      *)
(* waits any more.                                                         *)
LEMMA GoesDownPorts ==
  ASSUME TypeOK, PortsAreOwnedOnce, NEW s \in Side, NEW why, GoesDown(s, why)
  PROVE  PortsAreOwnedOnce'
<1>. SUFFICES ASSUME NEW r \in Side, NEW q \in Asker
              PROVE  OwnedOnce(r, q)'
  BY DEF PortsAreOwnedOnce
<1>1. OwnedOnce(r, q)
  BY DEF PortsAreOwnedOnce
<1>2. CASE r # s
  <2>1. /\ mailbox'[r] = mailbox[r] /\ openRequests'[r] = openRequests[r]
        /\ waiting'[r] = waiting[r] /\ asker'[r] = asker[r] /\ status'[r] = status[r]
    BY <1>2 DEF GoesDown, TypeOK, MapPerSide
  <2>. QED
    BY <1>1, <2>1 DEF OwnedOnce, Waits, Live
<1>3. CASE r = s
  <2>1. mailbox'[s] = <<>> /\ openRequests'[s] = NoEntries /\ waiting'[s] = <<>>
    BY DEF GoesDown, TypeOK, MapPerSide
  <2>2. /\ MailboxPlaces(mailbox'[s], q) = {}
        /\ PlacesOf(openRequests'[s], q) = {}
        /\ PlacesOf(waiting'[s], q) = {}
    <3>1. DOMAIN <<>> = {} /\ DOMAIN NoEntries = {}
      BY NoElements DEF NoEntries
    <3>. QED
      BY <2>1, <3>1 DEF MailboxPlaces, PlacesOf
  <2>3. ASSUME Waits(s, q)
        PROVE  q \in PortsHeld(s)
    <3>1. MailboxPlaces(mailbox[s], q) # {} => q \in MailboxPorts(s)
      BY DEF MailboxPlaces, MailboxPorts
    <3>2. /\ PlacesOf(openRequests[s], q) # {} => q \in ImageOf(openRequests[s])
          /\ PlacesOf(waiting[s], q) # {} => q \in ImageOf(waiting[s])
      BY DEF PlacesOf, ImageOf
    <3>. QED
      BY <1>1, <1>3, <2>3, <3>1, <3>2 DEF OwnedOnce, PortsHeld
  <2>4. ~Waits(s, q)'
    <3>1. Refuses(s, PortsHeld(s))
      BY DEF GoesDown, Refuses
    <3>2. Waits(s, q) => asker'[s][q].state = "refused"
      BY <2>3, <3>1, RefusedEffect
    <3>3. ~Waits(s, q) => asker'[s][q] = asker[s][q]
      BY <3>1, RefusedEffect
    <3>. QED
      BY <3>2, <3>3 DEF Waits
  <2>. QED
    BY <1>3, <2>2, <2>4 DEF OwnedOnce, AtMostOne
<1>. QED
  BY <1>2, <1>3

(* The first introduction: whoever waited for the handshake is told, and   *)
(* who gave up is ignored.                                                 *)
LEMMA HandleHandshakePorts ==
  ASSUME TypeOK, PortsAreOwnedOnce, NEW s \in Side, HandleHandshake(s)
  PROVE  PortsAreOwnedOnce'
<1>1. mailbox[s] # <<>> /\ Head(mailbox[s]).type = "Handshake" /\ Done(s) /\ Live(s)
  BY DEF HandleHandshake, Takes
<1>2. /\ waiting' = [waiting EXCEPT ![s] = <<>>]
      /\ asker' = [asker EXCEPT ![s] =
                     [q \in Asker |-> IF q \in ImageOf(waiting[s]) /\ Waits(s, q)
                                      THEN [@[q] EXCEPT !.state = "answered"] ELSE @[q]]]
  BY DEF HandleHandshake, TellsWaiting
<1>. SUFFICES ASSUME NEW r \in Side, NEW q \in Asker
              PROVE  OwnedOnce(r, q)'
  BY DEF PortsAreOwnedOnce
<1>3. OwnedOnce(r, q) /\ openRequests' = openRequests
  BY DEF PortsAreOwnedOnce, HandleHandshake
<1>4. CASE r # s
  <2>1. /\ mailbox'[r] = mailbox[r] /\ waiting'[r] = waiting[r]
        /\ asker'[r] = asker[r] /\ status'[r] = status[r]
    BY <1>1, <1>2, <1>4, DonePlaces DEF HandleHandshake, TypeOK
  <2>. QED
    BY <1>3, <2>1 DEF OwnedOnce, Waits, Live
<1>5. CASE r = s
  <2>1. Same(MailboxPlaces(mailbox[s], q), MailboxPlaces(mailbox'[s], q))
    <3>1. ~IsPortOf(Head(mailbox[s]), q)
      BY <1>1 DEF IsPortOf, PortTypes
    <3>. QED
      BY <1>1, <3>1, DonePlaces
  <2>2. PlacesOf(waiting'[s], q) = {}
    BY <1>2, NoElements DEF PlacesOf, TypeOK
  <2>3. q \in ImageOf(waiting[s]) <=> PlacesOf(waiting[s], q) # {}
    BY DEF ImageOf, PlacesOf
  <2>4. asker'[s][q] = IF q \in ImageOf(waiting[s]) /\ Waits(s, q)
                       THEN [asker[s][q] EXCEPT !.state = "answered"] ELSE asker[s][q]
    BY <1>2 DEF TypeOK
  <2>5. CASE q \in ImageOf(waiting[s]) /\ Waits(s, q)
    <3>1. asker'[s][q].state = "answered"
      BY <2>4, <2>5 DEF TypeOK, AskerState
    <3>2. MailboxPlaces(mailbox[s], q) = {} /\ PlacesOf(openRequests[s], q) = {}
      BY <1>3, <1>5, <2>3, <2>5 DEF OwnedOnce
    <3>. QED
      BY <1>3, <1>5, <2>1, <2>2, <3>1, <3>2 DEF OwnedOnce, Same, Waits, AtMostOne
  <2>6. CASE ~(q \in ImageOf(waiting[s]) /\ Waits(s, q))
    <3>1. asker'[s][q] = asker[s][q] /\ Live(s)'
      BY <2>4, <2>6 DEF HandleHandshake, Live, TypeOK
    <3>. QED
      BY <1>3, <1>5, <2>1, <2>2, <2>3, <2>6, <3>1 DEF OwnedOnce, Same, Waits, AtMostOne
  <2>. QED
    BY <2>5, <2>6
<1>. QED
  BY <1>4, <1>5

(* The port in the message a portal takes is in its mailbox only. *)
LEMMA HeadPort ==
  ASSUME TypeOK, PortsAreOwnedOnce, NEW s \in Side, NEW q \in Asker,
         mailbox[s] # <<>>, Done(s), IsPortOf(Head(mailbox[s]), q)
  PROVE  /\ MailboxPlaces(mailbox'[s], q) = {}
         /\ PlacesOf(openRequests[s], q) = {}
         /\ PlacesOf(waiting[s], q) = {}
         /\ asker[s][q].state \in {"waiting", "timedout"}
         /\ \A r \in Side, p \in Asker :
              r # s \/ p # q => Same(MailboxPlaces(mailbox[r], p), MailboxPlaces(mailbox'[r], p))
<1>1. OwnedOnce(s, q)
  BY DEF PortsAreOwnedOnce
<1>2. MailboxPlaces(mailbox[s], q) # {} /\ MailboxPlaces(mailbox'[s], q) = {}
  BY <1>1, DonePlaces DEF OwnedOnce
<1>3. ASSUME NEW r \in Side, NEW p \in Asker, r # s \/ p # q
      PROVE  Same(MailboxPlaces(mailbox[r], p), MailboxPlaces(mailbox'[r], p))
  <2>1. CASE r # s
    BY <2>1, DonePlaces DEF Same
  <2>2. CASE r = s
    <3>1. ~IsPortOf(Head(mailbox[s]), p)
      BY <1>3, <2>2 DEF IsPortOf
    <3>. QED
      BY <2>2, <3>1, DonePlaces
  <2>. QED
    BY <2>1, <2>2
<1>. QED
  BY <1>1, <1>2, <1>3 DEF OwnedOnce

(* A response frees the port of the request it answers. *)
LEMMA HandleResponsePorts ==
  ASSUME TypeOK, PortsAreOwnedOnce, NEW s \in Side, HandleResponseActorByName(s)
  PROVE  PortsAreOwnedOnce'
<1>. DEFINE m == Head(mailbox[s])
<1>1. /\ mailbox[s] # <<>> /\ m.type = "ResponseActorByName" /\ Done(s)
      /\ UNCHANGED <<status, waiting>>
  BY DEF HandleResponseActorByName, TakesWhenOpen, Takes
<1>2. m.type \notin PortTypes
  BY <1>1 DEF PortTypes
<1>3. CASE m.id \notin DOMAIN openRequests[s]
  <2>1. Unrelated(s)
    BY <1>1, <1>2, <1>3 DEF Unrelated, StillLive, HandleResponseActorByName, Live
  <2>. QED
    BY <2>1, UnrelatedKeeps
<1>4. CASE m.id \in DOMAIN openRequests[s]
  <2>1. PICK q \in Asker : q = openRequests[s][m.id]
    BY <1>4, MapPerSideUpdate, MapsAreTyped DEF TypeOK
  <2>2. /\ Replies(s, q, m.response)
        /\ openRequests' = [openRequests EXCEPT ![s] = Remove(@, m.id)]
    BY <1>4, <2>1 DEF HandleResponseActorByName
  <2>3. openRequests'[s] = Remove(openRequests[s], m.id)
        /\ \A r \in Side : r # s => openRequests'[r] = openRequests[r]
    BY <2>2 DEF TypeOK, MapPerSide
  <2>4. OwnedOnce(s, q) /\ AtMostOne(PlacesOf(openRequests[s], q))
    BY <2>1 DEF PortsAreOwnedOnce, OwnedOnce
  <2>. DEFINE f == openRequests[s]
              k == m.id
  <2>20. openRequests'[s] = Remove(f, k) /\ k \in DOMAIN f /\ q = f[k]
         /\ AtMostOne(PlacesOf(f, q))
    BY <1>4, <2>1, <2>3, <2>4
  <2>. HIDE DEF k, f
  <2>5. PlacesOf(openRequests[s], q) # {} /\ PlacesOf(openRequests'[s], q) = {}
    <3>1. PlacesOf(f, q) # {} /\ PlacesOf(Remove(f, k), q) = {}
      BY <2>20, RequestPortPlaces
    <3>. QED
      BY <2>20, <3>1 DEF f
  <2>6. \A p \in Asker : p # q => PlacesOf(openRequests'[s], p) = PlacesOf(openRequests[s], p)
    <3>1. \A p \in Asker : p # q => PlacesOf(Remove(f, k), p) = PlacesOf(f, p)
      BY <2>20, RequestPortPlaces
    <3>. QED
      BY <2>20, <3>1 DEF f
  <2>7. \A r \in Side, p \in Asker :
          Same(MailboxPlaces(mailbox[r], p), MailboxPlaces(mailbox'[r], p))
    <3>1. \A p \in Asker : ~IsPortOf(m, p)
      BY <1>2 DEF IsPortOf
    <3>. QED
      BY <1>1, <3>1, DonePlaces DEF Same
  <2>. HIDE DEF m
  <2>8. asker'[s][q].state = "answered"
        /\ \A r \in Side, p \in Asker : r # s \/ p # q => asker'[r][p] = asker[r][p]
    BY <2>1, <2>2, RepliesEffect
  <2>9. OwnedOnce(s, q)'
    <3>1. MailboxPlaces(mailbox[s], q) = {} /\ PlacesOf(waiting[s], q) = {}
      BY <2>4, <2>5 DEF OwnedOnce
    <3>2. MailboxPlaces(mailbox'[s], q) = {} /\ PlacesOf(waiting'[s], q) = {}
      BY <1>1, <2>1, <2>7, <3>1 DEF Same
    <3>. QED
      BY <2>5, <2>8, <3>2 DEF OwnedOnce, Waits, AtMostOne, StillLive, Live
  <2>10. \A r \in Side, p \in Asker :
           r # s \/ p # q =>
             /\ Same(MailboxPlaces(mailbox[r], p), MailboxPlaces(mailbox'[r], p))
             /\ Same(PlacesOf(openRequests[r], p), PlacesOf(openRequests'[r], p))
             /\ Same(PlacesOf(waiting[r], p), PlacesOf(waiting'[r], p))
             /\ asker'[r][p] = asker[r][p]
    BY <1>1, <2>3, <2>6, <2>7, <2>8 DEF Same
  <2>11. StillLive
    BY <1>1 DEF StillLive, Live
  <2>. QED
    BY <2>1, <2>9, <2>10, <2>11, OnlyTask
<1>. QED
  BY <1>3, <1>4

(* The port of a task that waits for the handshake moves to the queue of   *)
(* those, or is answered.                                                  *)
LEMMA HandleWaitPorts ==
  ASSUME TypeOK, PortsAreOwnedOnce, NEW s \in Side, HandleWaitForHandshake(s)
  PROVE  PortsAreOwnedOnce'
<1>1. /\ mailbox[s] # <<>> /\ Head(mailbox[s]).type = "WaitForHandshake" /\ Done(s)
      /\ UNCHANGED <<status, openRequests>> /\ Live(s)
  BY DEF HandleWaitForHandshake, Takes
<1>2. PICK q \in Asker : q = Head(mailbox[s]).port
  BY <1>1, MailboxSteps, MessageShapes DEF TypeOK
<1>3. IsPortOf(Head(mailbox[s]), q)
  BY <1>1, <1>2 DEF IsPortOf, PortTypes
<1>4. /\ MailboxPlaces(mailbox'[s], q) = {}
      /\ PlacesOf(openRequests[s], q) = {}
      /\ PlacesOf(waiting[s], q) = {}
      /\ asker[s][q].state \in {"waiting", "timedout"}
      /\ \A r \in Side, p \in Asker :
           r # s \/ p # q => Same(MailboxPlaces(mailbox[r], p), MailboxPlaces(mailbox'[r], p))
  BY <1>1, <1>2, <1>3, HeadPort
<1>5. StillLive
  BY <1>1 DEF StillLive, Live
<1>6. CASE waiting' = [waiting EXCEPT ![s] = Append(@, q)] /\ UNCHANGED asker
  <2>1. /\ waiting'[s] = Append(waiting[s], q) /\ waiting[s] \in Seq(Asker)
        /\ \A r \in Side : r # s => waiting'[r] = waiting[r]
    BY <1>6 DEF TypeOK
  <2>2. PlacesOf(waiting'[s], q) # {} /\ AtMostOne(PlacesOf(waiting'[s], q))
    BY <1>2, <1>4, <2>1, WaitingPlaces
  <2>3. OwnedOnce(s, q)'
    BY <1>1, <1>4, <1>5, <1>6, <2>2 DEF OwnedOnce, Waits, AtMostOne, StillLive, Live
  <2>4. \A r \in Side, p \in Asker :
          r # s \/ p # q => PlacesOf(waiting'[r], p) = PlacesOf(waiting[r], p)
    <3>1. ASSUME NEW p \in Asker, p # q
          PROVE  PlacesOf(waiting'[s], p) = PlacesOf(waiting[s], p)
      BY <1>2, <2>1, <3>1, WaitingPlaces
    <3>. QED
      BY <2>1, <3>1
  <2>5. \A r \in Side, p \in Asker :
          r # s \/ p # q =>
            /\ Same(MailboxPlaces(mailbox[r], p), MailboxPlaces(mailbox'[r], p))
            /\ Same(PlacesOf(openRequests[r], p), PlacesOf(openRequests'[r], p))
            /\ Same(PlacesOf(waiting[r], p), PlacesOf(waiting'[r], p))
            /\ asker'[r][p] = asker[r][p]
    BY <1>1, <1>4, <1>6, <2>4 DEF Same
  <2>. QED
    BY <1>2, <1>5, <2>3, <2>5, OnlyTask
<1>7. CASE Replies(s, q, None) /\ UNCHANGED waiting
  <2>1. asker'[s][q].state = "answered"
        /\ \A r \in Side, p \in Asker : r # s \/ p # q => asker'[r][p] = asker[r][p]
    BY <1>2, <1>7, RepliesEffect
  <2>2. OwnedOnce(s, q)'
    BY <1>1, <1>4, <1>7, <2>1 DEF OwnedOnce, Waits, AtMostOne, StillLive, Live
  <2>3. \A r \in Side, p \in Asker :
          r # s \/ p # q =>
            /\ Same(MailboxPlaces(mailbox[r], p), MailboxPlaces(mailbox'[r], p))
            /\ Same(PlacesOf(openRequests[r], p), PlacesOf(openRequests'[r], p))
            /\ Same(PlacesOf(waiting[r], p), PlacesOf(waiting'[r], p))
            /\ asker'[r][p] = asker[r][p]
    BY <1>1, <1>4, <1>7, <2>1 DEF Same
  <2>. QED
    BY <1>2, <1>5, <2>2, <2>3, OnlyTask
<1>. QED
  BY <1>2, <1>6, <1>7 DEF HandleWaitForHandshake

(* The port in a publication is answered. *)
LEMMA HandlePublishNamedPorts ==
  ASSUME TypeOK, PortsAreOwnedOnce, NEW s \in Side, HandlePublishNamedActor(s)
  PROVE  PortsAreOwnedOnce'
<1>. DEFINE m == Head(mailbox[s])
<1>1. /\ mailbox[s] # <<>> /\ m.type = "PublishNamedActor" /\ Done(s)
      /\ UNCHANGED <<status, openRequests, waiting>> /\ Live(s)
  BY DEF HandlePublishNamedActor, Takes
<1>2. PICK q \in Asker \cup {None} : q = m.port
  BY <1>1, MailboxSteps, MessageShapes DEF TypeOK
<1>3. StillLive
  BY <1>1 DEF StillLive, Live
<1>4. CASE q = None
  <2>1. UNCHANGED asker
    BY <1>2, <1>4 DEF HandlePublishNamedActor
  <2>2. \A p \in Asker : ~IsPortOf(m, p)
    BY <1>2, <1>4, PortalAssumption DEF IsPortOf
  <2>3. \A r \in Side, p \in Asker :
          Same(MailboxPlaces(mailbox[r], p), MailboxPlaces(mailbox'[r], p))
    BY <1>1, <2>2, DonePlaces DEF Same
  <2>. SUFFICES ASSUME NEW r \in Side, NEW p \in Asker
                PROVE  OwnedOnce(r, p)'
    BY DEF PortsAreOwnedOnce
  <2>4. OwnedOnce(r, p) /\ Same(MailboxPlaces(mailbox[r], p), MailboxPlaces(mailbox'[r], p))
    BY <2>3 DEF PortsAreOwnedOnce
  <2>. QED
    BY <1>1, <2>1, <2>4 DEF OwnedOnce, Same, Waits, Live
<1>5. CASE q # None
  <2>1. PICK got : Replies(s, q, got)
    BY <1>2, <1>5 DEF HandlePublishNamedActor
  <2>2. q \in Asker /\ IsPortOf(m, q)
    BY <1>1, <1>2, <1>5 DEF IsPortOf, PortTypes
  <2>3. /\ MailboxPlaces(mailbox'[s], q) = {}
        /\ PlacesOf(openRequests[s], q) = {}
        /\ PlacesOf(waiting[s], q) = {}
        /\ \A r \in Side, p \in Asker :
             r # s \/ p # q => Same(MailboxPlaces(mailbox[r], p), MailboxPlaces(mailbox'[r], p))
    BY <1>1, <2>2, HeadPort
  <2>. HIDE DEF m
  <2>4. asker'[s][q].state = "answered"
        /\ \A r \in Side, p \in Asker : r # s \/ p # q => asker'[r][p] = asker[r][p]
    BY <2>1, <2>2, RepliesEffect
  <2>5. OwnedOnce(s, q)'
    BY <1>1, <2>3, <2>4 DEF OwnedOnce, Waits, AtMostOne, StillLive, Live
  <2>6. \A r \in Side, p \in Asker :
          r # s \/ p # q =>
            /\ Same(MailboxPlaces(mailbox[r], p), MailboxPlaces(mailbox'[r], p))
            /\ Same(PlacesOf(openRequests[r], p), PlacesOf(openRequests'[r], p))
            /\ Same(PlacesOf(waiting[r], p), PlacesOf(waiting'[r], p))
            /\ asker'[r][p] = asker[r][p]
    BY <1>1, <2>3, <2>4 DEF Same
  <2>. QED
    BY <1>3, <2>2, <2>5, <2>6, OnlyTask
<1>. QED
  BY <1>4, <1>5

(* A query that goes out moves its port to open_requests, under a number   *)
(* no open request has; one that comes too early wakes its task.           *)
LEMMA HandleQueryPorts ==
  ASSUME TypeOK, PortsAreOwnedOnce, RequestsAreNumbered, NEW s \in Side,
         HandleQueryNamedRemoteActor(s)
  PROVE  PortsAreOwnedOnce'
<1>1. /\ mailbox[s] # <<>> /\ Head(mailbox[s]).type = "QueryNamedRemoteActor" /\ Done(s)
      /\ UNCHANGED <<status, waiting>> /\ Live(s)
  BY DEF HandleQueryNamedRemoteActor, Takes
<1>2. PICK q \in Asker : q = Head(mailbox[s]).port
  BY <1>1, MailboxSteps, MessageShapes DEF TypeOK
<1>3. IsPortOf(Head(mailbox[s]), q)
  BY <1>1, <1>2 DEF IsPortOf, PortTypes
<1>4. \/ /\ openRequests' = [openRequests EXCEPT ![s] = Insert(@, nextRequest[s], q)]
         /\ UNCHANGED asker
      \/ Refuses(s, {q}) /\ UNCHANGED openRequests
  BY <1>2 DEF HandleQueryNamedRemoteActor, Refuses
<1>5. /\ MailboxPlaces(mailbox'[s], q) = {}
      /\ PlacesOf(openRequests[s], q) = {}
      /\ PlacesOf(waiting[s], q) = {}
      /\ asker[s][q].state \in {"waiting", "timedout"}
      /\ \A r \in Side, p \in Asker :
           r # s \/ p # q => Same(MailboxPlaces(mailbox[r], p), MailboxPlaces(mailbox'[r], p))
  BY <1>1, <1>2, <1>3, HeadPort
<1>6. StillLive
  BY <1>1 DEF StillLive, Live
<1>7. CASE /\ openRequests' = [openRequests EXCEPT ![s] = Insert(@, nextRequest[s], q)]
           /\ UNCHANGED asker
  <2>1. /\ openRequests'[s] = Insert(openRequests[s], nextRequest[s], q)
        /\ \A r \in Side : r # s => openRequests'[r] = openRequests[r]
    BY <1>7 DEF TypeOK, MapPerSide
  <2>2. nextRequest[s] \notin DOMAIN openRequests[s]
    BY DEF RequestsAreNumbered, TypeOK
  <2>3. PlacesOf(openRequests'[s], q) = {nextRequest[s]}
    BY <1>5, <2>1, <2>2, RequestPortPlaces
  <2>4. OwnedOnce(s, q)'
    BY <1>1, <1>5, <1>6, <1>7, <2>3 DEF OwnedOnce, Waits, AtMostOne, StillLive, Live
  <2>5. \A r \in Side, p \in Asker :
          r # s \/ p # q => PlacesOf(openRequests'[r], p) = PlacesOf(openRequests[r], p)
    BY <1>2, <2>1, <2>2, RequestPortPlaces
  <2>6. \A r \in Side, p \in Asker :
          r # s \/ p # q =>
            /\ Same(MailboxPlaces(mailbox[r], p), MailboxPlaces(mailbox'[r], p))
            /\ Same(PlacesOf(openRequests[r], p), PlacesOf(openRequests'[r], p))
            /\ Same(PlacesOf(waiting[r], p), PlacesOf(waiting'[r], p))
            /\ asker'[r][p] = asker[r][p]
    BY <1>1, <1>5, <1>7, <2>5 DEF Same
  <2>. QED
    BY <1>2, <1>6, <2>4, <2>6, OnlyTask
<1>8. CASE Refuses(s, {q}) /\ UNCHANGED openRequests
  <2>1. /\ ~(asker'[s][q].state = "waiting")
        /\ \A r \in Side, p \in Asker : r # s \/ p # q => asker'[r][p] = asker[r][p]
    <3>1. /\ q \in {q} /\ \A p \in Asker : p # q => p \notin {q}
          /\ asker[s][q].state = "waiting" => asker'[s][q].state = "refused"
          /\ asker[s][q].state # "waiting" => asker'[s][q] = asker[s][q]
      BY <1>2, <1>8, RefusedEffect DEF Waits
    <3>2. /\ \A p \in Asker : p # q => asker'[s][p] = asker[s][p]
          /\ \A r \in Side : r # s => asker'[r] = asker[r]
      BY <1>8, <3>1, RefusedEffect
    <3>. QED
      BY <1>2, <3>1, <3>2
  <2>2. OwnedOnce(s, q)'
    BY <1>1, <1>5, <1>8, <2>1 DEF OwnedOnce, Waits, AtMostOne, StillLive, Live
  <2>3. \A r \in Side, p \in Asker :
          r # s \/ p # q =>
            /\ Same(MailboxPlaces(mailbox[r], p), MailboxPlaces(mailbox'[r], p))
            /\ Same(PlacesOf(openRequests[r], p), PlacesOf(openRequests'[r], p))
            /\ Same(PlacesOf(waiting[r], p), PlacesOf(waiting'[r], p))
            /\ asker'[r][p] = asker[r][p]
    BY <1>1, <1>5, <1>8, <2>1 DEF Same
  <2>. QED
    BY <1>2, <1>6, <2>2, <2>3, OnlyTask
<1>. QED
  BY <1>4, <1>7, <1>8

(* ask(): the port goes into the mailbox of a running portal, and its task *)
(* begins to wait.                                                         *)
LEMMA AsksPorts ==
  ASSUME TypeOK, PortsAreOwnedOnce, NEW s \in Side, NEW q \in Asker, NEW wants, NEW known, NEW e,
         Live(s), MayAsk(s, q), BeginsToWait(s, q, wants, known),
         IsPortOf(e, q), Cast(s, e), UNCHANGED <<status, requestVars>>
  PROVE  PortsAreOwnedOnce'
<1>1. asker[s][q].state = "idle"
  BY BeginsEffect
<1>2. /\ MailboxPlaces(mailbox[s], q) = {}
      /\ PlacesOf(openRequests[s], q) = {}
      /\ PlacesOf(waiting[s], q) = {}
  BY <1>1 DEF PortsAreOwnedOnce, OwnedOnce
<1>3. /\ asker'[s][q].state = "waiting"
      /\ \A r \in Side, p \in Asker : r # s \/ p # q => asker'[r][p] = asker[r][p]
  BY BeginsEffect
<1>4. MailboxPlaces(mailbox'[s], q) # {} /\ AtMostOne(MailboxPlaces(mailbox'[s], q))
  BY <1>2, CastPlaces
<1>5. StillLive
  BY DEF StillLive, Live
<1>6. OwnedOnce(s, q)'
  BY <1>2, <1>3, <1>4, <1>5 DEF OwnedOnce, Waits, AtMostOne, StillLive, Live
<1>7. \A r \in Side, p \in Asker :
        r # s \/ p # q => MailboxPlaces(mailbox'[r], p) = MailboxPlaces(mailbox[r], p)
  <2>. SUFFICES ASSUME NEW r \in Side, NEW p \in Asker, r # s \/ p # q
                PROVE  MailboxPlaces(mailbox'[r], p) = MailboxPlaces(mailbox[r], p)
    OBVIOUS
  <2>1. CASE r # s
    BY <2>1, CastPlaces
  <2>2. CASE r = s
    <3>1. ~IsPortOf(e, p)
      BY <2>2 DEF IsPortOf
    <3>. QED
      BY <2>2, <3>1, CastPlaces
  <2>. QED
    BY <2>1, <2>2
<1>8. \A r \in Side, p \in Asker :
        r # s \/ p # q =>
          /\ Same(MailboxPlaces(mailbox[r], p), MailboxPlaces(mailbox'[r], p))
          /\ Same(PlacesOf(openRequests[r], p), PlacesOf(openRequests'[r], p))
          /\ Same(PlacesOf(waiting[r], p), PlacesOf(waiting'[r], p))
          /\ asker'[r][p] = asker[r][p]
  BY <1>3, <1>7 DEF Same
<1>. QED
  BY <1>5, <1>6, <1>8, OnlyTask

(* A task that gives up leaves its port where it is. *)
LEMMA AskTimesOutPorts ==
  ASSUME TypeOK, PortsAreOwnedOnce, NEW s \in Side, NEW q \in Asker, AskTimesOut(s, q)
  PROVE  PortsAreOwnedOnce'
<1>1. asker \in [Side -> [Asker -> AskerState]] /\ asker[s] \in [Asker -> AskerState]
      /\ asker[s][q] \in AskerState
  BY DEF TypeOK
<1>2. /\ asker'[s][q].state = "timedout"
      /\ \A r \in Side, p \in Asker : r # s \/ p # q => asker'[r][p] = asker[r][p]
  BY <1>1 DEF AskTimesOut, AskerState
<1>3. UNCHANGED <<status, mailbox, requestVars>>
  BY DEF AskTimesOut
<1>. SUFFICES ASSUME NEW r \in Side, NEW p \in Asker
              PROVE  OwnedOnce(r, p)'
  BY DEF PortsAreOwnedOnce
<1>4. OwnedOnce(r, p)
  BY DEF PortsAreOwnedOnce
<1>5. CASE r = s /\ p = q
  BY <1>2, <1>3, <1>4, <1>5 DEF OwnedOnce, Waits
<1>6. CASE r # s \/ p # q
  BY <1>2, <1>3, <1>4, <1>6 DEF OwnedOnce, Waits, Live
<1>. QED
  BY <1>5, <1>6
-----------------------------------------------------------------------------
(* What the receive loop reads has no port in it. *)
LEMMA FramesHaveNoPort ==
  ASSUME NEW m \in ConduitMessage
  PROVE  m.type \notin PortTypes
BY DEF ConduitMessage, Handshakes, Contents, PortTypes

(* Of the steps of a portal, these leave the asking tasks and their ports  *)
(* alone.                                                                  *)
LEMMA HandlersUnrelated ==
  ASSUME TypeOK, NEW s \in Side,
         \/ HandleRequestActorByName(s) \/ HandleSendMessage(s) \/ HandleActorExited(s)
         \/ HandlePublishActor(s) \/ HandleImmaterializeMessage(s) \/ HandleTransmitMessage(s)
         \/ HandleRegisterProxy(s) \/ HandleLocalActorExited(s)
  PROVE  Unrelated(s)
<1>1. CASE \/ HandleRequestActorByName(s) \/ HandleActorExited(s)
           \/ HandlePublishActor(s) \/ HandleImmaterializeMessage(s) \/ HandleTransmitMessage(s)
           \/ HandleRegisterProxy(s) \/ HandleLocalActorExited(s)
  <2>1. UNCHANGED <<status, requestVars, asker>> /\ Done(s)
    BY <1>1, Zenon DEF HandleRequestActorByName, HandleActorExited, HandlePublishActor,
                HandleImmaterializeMessage, HandleTransmitMessage, HandleRegisterProxy,
                HandleLocalActorExited
  <2>2. mailbox[s] # <<>> /\ Head(mailbox[s]).type \notin PortTypes
    BY <1>1, Zenon DEF HandleRequestActorByName, HandleActorExited, HandlePublishActor,
                HandleImmaterializeMessage, HandleTransmitMessage, HandleRegisterProxy,
                HandleLocalActorExited, TakesWhenOpen, Takes, PortTypes
  <2>. QED
    BY <2>1, <2>2 DEF Unrelated, StillLive, Live
<1>2. CASE HandleSendMessage(s)
  <2>1. UNCHANGED <<status, requestVars, asker>>
    BY <1>2, Zenon DEF HandleSendMessage
  <2>2. mailbox[s] # <<>> /\ Head(mailbox[s]).type \notin PortTypes
    BY <1>2, Zenon DEF HandleSendMessage, TakesWhenOpen, Takes, PortTypes
  <2>3. Done(s) \/ \E e : e.type \notin PortTypes /\ DoneThenCast(s, e)
    BY <1>2, Zenon DEF HandleSendMessage, PortTypes
  <2>. QED
    BY <2>1, <2>2, <2>3 DEF Unrelated, StillLive, Live
<1>. QED
  BY <1>1, <1>2

(* So do these, of the tasks and the loop around a portal. *)
LEMMA TasksUnrelated ==
  ASSUME TypeOK, NEW s \in Side,
         \/ Connect(s) \/ ConnectFails(s) \/ ReceiveLoop(s)
         \/ \E a \in Actor : WatcherReports(s, a) \/ ActorExits(s, a)
         \/ \E m \in Msg : SerializationTask(s, m)
         \/ LinkBreaks
  PROVE  Unrelated(s)
<1>1. CASE Connect(s) \/ ConnectFails(s)
  BY <1>1 DEF Connect, ConnectFails, Unrelated, StillLive, Live, TypeOK
<1>2. CASE ReceiveLoopReads(s)
  <2>1. UNCHANGED <<status, requestVars, asker>>
    BY <1>2 DEF ReceiveLoopReads
  <2>2. wire[Peer(s)] \in Seq(ConduitMessage) /\ wire[Peer(s)] # <<>>
    BY <1>2, PeerFacts DEF ReceiveLoopReads, TypeOK
  <2>3. Head(wire[Peer(s)]).type \notin PortTypes
    BY <2>2, TailElements, FramesHaveNoPort
  <2>. QED
    BY <1>2, <2>1, <2>3 DEF ReceiveLoopReads, Unrelated, StillLive, Live
<1>3. CASE ReceiveLoopEnds(s)
  BY <1>3 DEF ReceiveLoopEnds, CastsClose, Unrelated, StillLive, Live, PortTypes
<1>4. ASSUME NEW a \in Actor, WatcherReports(s, a) \/ ActorExits(s, a)
      PROVE  Unrelated(s)
  BY <1>4 DEF WatcherReports, ActorExits, Unrelated, StillLive, Live, PortTypes
<1>5. ASSUME NEW m \in Msg, SerializationTask(s, m)
      PROVE  Unrelated(s)
  BY <1>5 DEF SerializationTask, TaskAsksToPublish, TaskTransmits, Unrelated, StillLive, Live, PortTypes
<1>6. CASE LinkBreaks
  BY <1>6 DEF LinkBreaks, Unrelated, StillLive, Live
<1>. QED
  BY <1>1, <1>2, <1>3, <1>4, <1>5, <1>6 DEF ReceiveLoop

(* And these, of the application. *)
LEMMA ApplicationUnrelated ==
  ASSUME TypeOK, NEW s \in Side,
         \/ \E n \in Name, a \in Actor : AppOffersOnNexus(s, n, a)
         \/ \E q \in Asker : AppInstantiatesProxy(s, q)
         \/ \E p \in Proxy, m \in Msg, ref \in Actor \cup {None} : AppSends(s, p, m, ref)
  PROVE  Unrelated(s)
<1>1. ASSUME NEW n \in Name, NEW a \in Actor, AppOffersOnNexus(s, n, a)
      PROVE  Unrelated(s)
  BY <1>1 DEF AppOffersOnNexus, Unrelated, StillLive, Live
<1>2. ASSUME NEW q \in Asker, AppInstantiatesProxy(s, q)
      PROVE  Unrelated(s)
  BY <1>2 DEF AppInstantiatesProxy, Unrelated, StillLive, Live, PortTypes
<1>3. ASSUME NEW p \in Proxy, NEW m \in Msg, NEW ref \in Actor \cup {None}, AppSends(s, p, m, ref)
      PROVE  Unrelated(s)
  BY <1>3 DEF AppSends, Unrelated, StillLive, Live, PortTypes
<1>. QED
  BY <1>1, <1>2, <1>3

(* Offering an actor on a portal, with or without a port for the answer. *)
LEMMA AppOffersPorts ==
  ASSUME TypeOK, PortsAreOwnedOnce, NEW s \in Side, NEW n \in Name, NEW a \in Actor,
         AppOffers(s, n, a)
  PROVE  PortsAreOwnedOnce'
<1>. DEFINE e(q) == [type |-> "PublishNamedActor", name |-> n, actor |-> a, port |-> q]
<1>1. Live(s) /\ UNCHANGED <<status, requestVars>>
  BY DEF AppOffers
<1>2. CASE Cast(s, e(None)) /\ UNCHANGED asker
  <2>1. \A q \in Asker : ~IsPortOf(e(None), q)
    BY PortalAssumption DEF IsPortOf
  <2>2. \A r \in Side, q \in Asker : MailboxPlaces(mailbox'[r], q) = MailboxPlaces(mailbox[r], q)
    BY <1>2, <2>1, CastPlaces
  <2>. SUFFICES ASSUME NEW r \in Side, NEW q \in Asker
                PROVE  OwnedOnce(r, q)'
    BY DEF PortsAreOwnedOnce
  <2>3. OwnedOnce(r, q) /\ MailboxPlaces(mailbox'[r], q) = MailboxPlaces(mailbox[r], q)
    BY <2>2 DEF PortsAreOwnedOnce
  <2>. QED
    BY <1>1, <1>2, <2>3 DEF OwnedOnce, Waits, Live
<1>3. ASSUME NEW q \in Asker, MayAsk(s, q), BeginsToWait(s, q, "publication", FALSE),
             Cast(s, e(q))
      PROVE  PortsAreOwnedOnce'
  <2>1. IsPortOf(e(q), q)
    BY DEF IsPortOf, PortTypes
  <2>. QED
    BY <1>1, <1>3, <2>1, AsksPorts
<1>. QED
  BY <1>2, <1>3 DEF AppOffers

(* Waiting for the handshake, and asking for a name. *)
LEMMA AppAsksPorts ==
  ASSUME TypeOK, PortsAreOwnedOnce, NEW s \in Side, NEW q \in Asker,
         AppWaitsForHandshake(s, q) \/ \E n \in Name : AppQueries(s, q, n)
  PROVE  PortsAreOwnedOnce'
<1>1. CASE AppWaitsForHandshake(s, q)
  <2>1. IsPortOf([type |-> "WaitForHandshake", port |-> q], q)
    BY DEF IsPortOf, PortTypes
  <2>. QED
    BY <1>1, <2>1, AsksPorts DEF AppWaitsForHandshake
<1>2. ASSUME NEW n \in Name, AppQueries(s, q, n)
      PROVE  PortsAreOwnedOnce'
  <2>1. IsPortOf([type |-> "QueryNamedRemoteActor", name |-> n, port |-> q], q)
    BY DEF IsPortOf, PortTypes
  <2>. QED
    BY <1>2, <2>1, AsksPorts DEF AppQueries
<1>. QED
  BY <1>1, <1>2
-----------------------------------------------------------------------------
(* Request ids go up, past those of all open requests. *)
LEMMA NumbersKept ==
  ASSUME TypeOK, RequestsAreNumbered, NEW s \in Side,
         \/ UNCHANGED <<nextRequest, openRequests>>
         \/ HandleResponseActorByName(s)
         \/ HandleQueryNamedRemoteActor(s)
         \/ \E why : GoesDown(s, why)
  PROVE  RequestsAreNumbered'
<1>. SUFFICES ASSUME NEW r \in Side, NEW k \in DOMAIN openRequests'[r]
              PROVE  k < nextRequest'[r]
  BY DEF RequestsAreNumbered
<1>1. /\ nextRequest \in [Side -> Nat] /\ openRequests = [x \in Side |-> openRequests[x]]
      /\ \A x \in Side : DOMAIN openRequests[x] \subseteq Nat
  BY DEF TypeOK, MapPerSide, IsMap
<1>2. CASE UNCHANGED <<nextRequest, openRequests>>
  BY <1>2 DEF RequestsAreNumbered
<1>3. CASE HandleResponseActorByName(s) \/ \E why : GoesDown(s, why)
  <2>1. nextRequest' = nextRequest /\ k \in DOMAIN openRequests[r]
    BY <1>1, <1>3 DEF HandleResponseActorByName, GoesDown, Remove, NoEntries
  <2>. QED
    BY <2>1 DEF RequestsAreNumbered
<1>4. CASE HandleQueryNamedRemoteActor(s)
  <2>1. CASE UNCHANGED <<nextRequest, openRequests>>
    BY <2>1 DEF RequestsAreNumbered
  <2>2. CASE /\ nextRequest' = [nextRequest EXCEPT ![s] = @ + 1]
             /\ \E q : openRequests' = [openRequests EXCEPT ![s] = Insert(@, nextRequest[s], q)]
    <3>1. k \in DOMAIN openRequests[r] \/ (r = s /\ k = nextRequest[s])
      BY <1>1, <2>2 DEF Insert
    <3>. QED
      BY <1>1, <2>2, <3>1 DEF RequestsAreNumbered
  <2>. QED
    BY <1>4, <2>1, <2>2 DEF HandleQueryNamedRemoteActor, TakesRequestId
<1>. QED
  BY <1>2, <1>3, <1>4

(* Every step keeps each port in one place, and its task waiting for what  *)
(* is there.                                                               *)
LEMMA NextPorts ==
  ASSUME TypeOK, PortsAreOwnedOnce, RequestsAreNumbered, [Next]_vars
  PROVE  PortsAreOwnedOnce' /\ RequestsAreNumbered'
<1>1. CASE UNCHANGED vars
  BY <1>1 DEF vars, PortsAreOwnedOnce, OwnedOnce, RequestsAreNumbered, Waits, Live
<1>2. ASSUME NEW s \in Side, Unrelated(s)
      PROVE  PortsAreOwnedOnce' /\ RequestsAreNumbered'
  <2>1. UNCHANGED <<nextRequest, openRequests>>
    BY <1>2 DEF Unrelated
  <2>. QED
    BY <1>2, <2>1, UnrelatedKeeps, NumbersKept
<1>3. ASSUME NEW s \in Side, Handle(s)
      PROVE  PortsAreOwnedOnce' /\ RequestsAreNumbered'
  <2>1. CASE HandleHandshake(s)
    <3>1. UNCHANGED <<nextRequest, openRequests>>
      BY <2>1 DEF HandleHandshake
    <3>. QED
      BY <2>1, <3>1, HandleHandshakePorts, NumbersKept
  <2>2. CASE HandleClose(s) \/ PortalFails(s)
    <3>1. \E why : GoesDown(s, why)
      BY <2>2 DEF HandleClose, PortalFails
    <3>. QED
      BY <3>1, GoesDownPorts, NumbersKept
  <2>3. CASE HandleResponseActorByName(s)
    BY <2>3, HandleResponsePorts, NumbersKept
  <2>4. CASE HandleWaitForHandshake(s)
    <3>1. UNCHANGED <<nextRequest, openRequests>>
      BY <2>4 DEF HandleWaitForHandshake
    <3>. QED
      BY <2>4, <3>1, HandleWaitPorts, NumbersKept
  <2>5. CASE HandlePublishNamedActor(s)
    <3>1. UNCHANGED <<nextRequest, openRequests>>
      BY <2>5 DEF HandlePublishNamedActor
    <3>. QED
      BY <2>5, <3>1, HandlePublishNamedPorts, NumbersKept
  <2>6. CASE HandleQueryNamedRemoteActor(s)
    BY <2>6, HandleQueryPorts, NumbersKept
  <2>7. CASE \/ HandleRequestActorByName(s) \/ HandleSendMessage(s) \/ HandleActorExited(s)
             \/ HandlePublishActor(s) \/ HandleImmaterializeMessage(s) \/ HandleTransmitMessage(s)
             \/ HandleRegisterProxy(s) \/ HandleLocalActorExited(s)
    BY <1>2, <2>7, HandlersUnrelated
  <2>. QED
    BY <1>3, <2>1, <2>2, <2>3, <2>4, <2>5, <2>6, <2>7 DEF Handle
<1>4. ASSUME NEW s \in Side,
             \/ ReceiveLoop(s)
             \/ \E a \in Actor : WatcherReports(s, a)
             \/ \E m \in Msg : SerializationTask(s, m)
      PROVE  PortsAreOwnedOnce' /\ RequestsAreNumbered'
  BY <1>2, <1>4, TasksUnrelated
<1>5. ASSUME NEW s \in Side, Application(s)
      PROVE  PortsAreOwnedOnce' /\ RequestsAreNumbered'
  <2>1. CASE Connect(s) \/ ConnectFails(s)
    BY <1>2, <2>1, TasksUnrelated
  <2>2. ASSUME NEW n \in Name, NEW a \in Actor, AppOffers(s, n, a)
        PROVE  PortsAreOwnedOnce' /\ RequestsAreNumbered'
    <3>1. UNCHANGED <<nextRequest, openRequests>>
      BY <2>2 DEF AppOffers
    <3>. QED
      BY <2>2, <3>1, AppOffersPorts, NumbersKept
  <2>3. ASSUME NEW q \in Asker, AppWaitsForHandshake(s, q) \/ \E n \in Name : AppQueries(s, q, n)
        PROVE  PortsAreOwnedOnce' /\ RequestsAreNumbered'
    <3>1. UNCHANGED <<nextRequest, openRequests>>
      BY <2>3 DEF AppWaitsForHandshake, AppQueries
    <3>. QED
      BY <2>3, <3>1, AppAsksPorts, NumbersKept
  <2>4. CASE \/ \E n \in Name, a \in Actor : AppOffersOnNexus(s, n, a)
             \/ \E q \in Asker : AppInstantiatesProxy(s, q)
             \/ \E p \in Proxy, m \in Msg, ref \in Actor \cup {None} : AppSends(s, p, m, ref)
    BY <1>2, <2>4, ApplicationUnrelated
  <2>. QED
    BY <1>5, <2>1, <2>2, <2>3, <2>4 DEF Application
<1>6. CASE Environment
  <2>1. ASSUME NEW s \in Side, NEW q \in Asker, AskTimesOut(s, q)
        PROVE  PortsAreOwnedOnce' /\ RequestsAreNumbered'
    <3>1. UNCHANGED <<nextRequest, openRequests>>
      BY <2>1 DEF AskTimesOut
    <3>. QED
      BY <2>1, <3>1, AskTimesOutPorts, NumbersKept
  <2>2. ASSUME NEW s \in Side, AppStopsPortal(s)
        PROVE  PortsAreOwnedOnce' /\ RequestsAreNumbered'
    <3>1. GoesDown(s, "stopped")
      BY <2>2 DEF AppStopsPortal
    <3>. QED
      BY <3>1, GoesDownPorts, NumbersKept
  <2>3. ASSUME NEW s \in Side, NEW a \in Actor, ActorExits(s, a)
        PROVE  PortsAreOwnedOnce' /\ RequestsAreNumbered'
    BY <1>2, <2>3, TasksUnrelated
  <2>4. CASE LinkBreaks
    <3>1. "a" \in Side
      BY DEF Side
    <3>. QED
      BY <1>2, <2>4, <3>1, TasksUnrelated
  <2>. QED
    BY <1>6, <2>1, <2>2, <2>3, <2>4 DEF Environment
<1>. QED
  BY <1>1, <1>3, <1>4, <1>5, <1>6 DEF Next
-----------------------------------------------------------------------------
(* What the two sides never take back: a portal stays down, an             *)
(* introduction and a conduit id stand, and a broken link stays broken.    *)
LifeGoesOn ==
  /\ linkUp' => linkUp
  /\ \A s \in Side :
       /\ status[s] = "down" => status'[s] = "down" /\ exit'[s] = exit[s]
       /\ status[s] # "idle" => status'[s] # "idle" /\ contribution'[s] = contribution[s]
       /\ status[s] \in {"open", "down"} =>
            status'[s] \in {"open", "down"} /\ channel'[s] = channel[s]

(* Publications, offers, and messages handed over stand; actors only end.  *)
RegistryGrows ==
  \A s \in Side :
    /\ \A id \in DOMAIN published[s] :
         id \in DOMAIN published'[s] /\ published'[s][id] = published[s][id]
    /\ alive'[s] \subseteq alive[s]
    /\ DOMAIN named[s] \subseteq DOMAIN named'[s]
    /\ DOMAIN nexusNamed[s] \subseteq DOMAIN nexusNamed'[s]
    /\ offered[s] \subseteq offered'[s]
    /\ \A m \in DOMAIN sent[s] : m \in DOMAIN sent'[s] /\ sent'[s][m] = sent[s][m]

(* Who has asked keeps its question, and gives up for good; request ids    *)
(* are used once.                                                          *)
RequestsGoOn ==
  \A s \in Side :
    /\ \A q \in Asker :
         /\ asker[s][q].state = "timedout" => asker'[s][q].state = "timedout"
         /\ asker[s][q] # IdleAsker => /\ asker'[s][q].wants = asker[s][q].wants
                                       /\ asker'[s][q].known = asker[s][q].known
    /\ nextRequest[s] <= nextRequest'[s]
    /\ \A k \in DOMAIN openRequests'[s] :
         \/ k \in DOMAIN openRequests[s] /\ openRequests'[s][k] = openRequests[s][k]
         \/ k >= nextRequest[s]

Grows == LifeGoesOn /\ RegistryGrows /\ RequestsGoOn

(* A portal that goes down takes nothing back either. *)
LEMMA GoesDownGrows ==
  ASSUME TypeOK, NEW s \in Side, NEW why, GoesDown(s, why), Live(s)
  PROVE  Grows
<1>1. LifeGoesOn
  BY DEF GoesDown, LifeGoesOn, Live, TypeOK
<1>2. RegistryGrows
  BY DEF GoesDown, RegistryGrows
<1>3. RequestsGoOn
  <2>1. /\ Refuses(s, PortsHeld(s))
        /\ openRequests' = [openRequests EXCEPT ![s] = NoEntries]
        /\ nextRequest' = nextRequest
    BY DEF GoesDown, Refuses
  <2>2. \A r \in Side, q \in Asker :
          /\ asker[r][q].state = "timedout" => asker'[r][q].state = "timedout"
          /\ asker'[r][q].wants = asker[r][q].wants /\ asker'[r][q].known = asker[r][q].known
    BY <2>1, RefusedEffect DEF Waits
  <2>3. \A r \in Side : \A k \in DOMAIN openRequests'[r] :
          k \in DOMAIN openRequests[r] /\ openRequests'[r][k] = openRequests[r][k]
    BY <2>1 DEF NoEntries, TypeOK, MapPerSide
  <2>. QED
    BY <2>1, <2>2, <2>3 DEF RequestsGoOn, TypeOK
<1>. QED
  BY <1>1, <1>2, <1>3 DEF Grows

(* publish_actor leaves what is published. *)
LEMMA PublishActorGrows ==
  ASSUME TypeOK, NEW s \in Side, NEW a, NEW id, PublishActor(s, a, id)
  PROVE  /\ \A r \in Side : \A i \in DOMAIN published[r] :
              i \in DOMAIN published'[r] /\ published'[r][i] = published[r][i]
         /\ id \in DOMAIN published'[s] /\ published'[s][id] = a
         /\ \A r \in Side : r # s => published'[r] = published[r]
         /\ \A i \in DOMAIN published'[s] : i \in DOMAIN published[s] \/ i = id
<1>1. published = [r \in Side |-> published[r]]
  BY DEF TypeOK, MapPerSide
<1>2. CASE UNCHANGED published /\ id \in DOMAIN published[s] /\ published[s][id] = a
  BY <1>2
<1>3. CASE id \in FreshIds /\ published' = [published EXCEPT ![s] = Insert(@, id, a)]
  <2>1. /\ published'[s] = Insert(published[s], id, a)
        /\ \A r \in Side : r # s => published'[r] = published[r]
    BY <1>1, <1>3
  <2>2. id \notin DOMAIN published[s]
    BY <1>3 DEF FreshIds
  <2>3. \A i \in DOMAIN published[s] :
          i \in DOMAIN published'[s] /\ published'[s][i] = published[s][i]
    BY <2>1, <2>2 DEF Insert
  <2>4. id \in DOMAIN published'[s] /\ published'[s][id] = a
    BY <2>1 DEF Insert
  <2>5. \A i \in DOMAIN published'[s] : i \in DOMAIN published[s] \/ i = id
    BY <2>1 DEF Insert
  <2>. QED
    BY <2>1, <2>3, <2>4, <2>5
<1>. QED
  BY <1>2, <1>3 DEF PublishActor

(* No step makes a portal that is down run again, or takes an introduction *)
(* back.                                                                   *)
LEMMA NextLife ==
  ASSUME TypeOK, [Next]_vars
  PROVE  LifeGoesOn
<1>1. CASE UNCHANGED <<portalVars, linkUp>>
  BY <1>1 DEF LifeGoesOn
<1>2. ASSUME NEW s \in Side, Handle(s)
      PROVE  LifeGoesOn
  <2>1. CASE HandleHandshake(s)
    BY <2>1 DEF HandleHandshake, LifeGoesOn, TypeOK
  <2>2. CASE HandleClose(s) \/ PortalFails(s)
    BY <2>2, GoesDownGrows DEF HandleClose, PortalFails, Grows
  <2>3. CASE ~(HandleHandshake(s) \/ HandleClose(s) \/ PortalFails(s))
    BY <1>1, <1>2, <2>3, Zenon
    DEF Handle, HandleRequestActorByName, HandleResponseActorByName, HandleSendMessage,
        HandleActorExited, HandleWaitForHandshake, HandlePublishNamedActor, HandlePublishActor,
        HandleQueryNamedRemoteActor, HandleImmaterializeMessage, HandleTransmitMessage,
        HandleRegisterProxy, HandleLocalActorExited
  <2>. QED
    BY <2>1, <2>2, <2>3
<1>3. ASSUME NEW s \in Side,
             \/ ReceiveLoop(s)
             \/ \E a \in Actor : WatcherReports(s, a)
             \/ \E m \in Msg : SerializationTask(s, m)
      PROVE  LifeGoesOn
  BY <1>1, <1>3
  DEF ReceiveLoop, ReceiveLoopReads, ReceiveLoopEnds, WatcherReports, SerializationTask,
      TaskAsksToPublish, TaskTransmits
<1>4. ASSUME NEW s \in Side, Connect(s) \/ ConnectFails(s)
      PROVE  LifeGoesOn
  <2>1. CASE Connect(s)
    <3>1. /\ status[s] = "idle" /\ status' = [status EXCEPT ![s] = "opening"]
          /\ \E c : contribution' = [contribution EXCEPT ![s] = c]
          /\ UNCHANGED <<exit, channel, linkUp>>
      BY <2>1 DEF Connect, SendsIntroduction
    <3>. QED
      BY <3>1 DEF LifeGoesOn, TypeOK
  <2>2. CASE ConnectFails(s)
    BY <2>2 DEF ConnectFails, LifeGoesOn, TypeOK
  <2>. QED
    BY <1>4, <2>1, <2>2
<1>5. ASSUME NEW s \in Side, Application(s), ~Connect(s), ~ConnectFails(s)
      PROVE  LifeGoesOn
  BY <1>1, <1>5
  DEF Application, AppOffersOnNexus, AppOffers, AppWaitsForHandshake, AppInstantiatesProxy,
      AppQueries, AppSends
<1>6. CASE Environment
  <2>1. ASSUME NEW s \in Side, AppStopsPortal(s)
        PROVE  LifeGoesOn
    BY <2>1, GoesDownGrows DEF AppStopsPortal, Grows
  <2>2. CASE LinkBreaks
    BY <2>2 DEF LinkBreaks, LifeGoesOn
  <2>. QED
    BY <1>1, <1>6, <2>1, <2>2 DEF Environment, AskTimesOut, ActorExits
<1>. QED
  BY <1>1, <1>2, <1>3, <1>4, <1>5, <1>6 DEF Next, vars

(* No step takes a publication, an offer or a message back. *)
LEMMA NextRegistry ==
  ASSUME TypeOK, [Next]_vars
  PROVE  RegistryGrows
<1>. DEFINE registered == <<published, named, alive, nexusNamed, offered, sent>>
<1>1. CASE UNCHANGED registered
  BY <1>1 DEF RegistryGrows
<1>2. ASSUME NEW s \in Side, NEW a, NEW id, PublishActor(s, a, id),
             UNCHANGED <<named, alive, nexusNamed, offered, sent>>
      PROVE  RegistryGrows
  BY <1>2, PublishActorGrows DEF RegistryGrows
<1>3. ASSUME NEW s \in Side, Handle(s)
      PROVE  RegistryGrows
  <2>1. CASE HandleRequestActorByName(s) \/ HandlePublishActor(s)
    BY <1>1, <1>2, <2>1 DEF HandleRequestActorByName, HandlePublishActor
  <2>2. CASE HandlePublishNamedActor(s)
    <3>1. PICK a, id, n : /\ PublishActor(s, a, id)
                          /\ named' = [named EXCEPT ![s] = Insert(@, n, id)]
      BY <2>2 DEF HandlePublishNamedActor
    <3>2. \A r \in Side : DOMAIN named[r] \subseteq DOMAIN named'[r]
      BY <3>1 DEF TypeOK, MapPerSide, Insert
    <3>3. UNCHANGED <<alive, nexusNamed, offered, sent>>
      BY <2>2 DEF HandlePublishNamedActor
    <3>. QED
      BY <3>1, <3>2, <3>3, PublishActorGrows DEF RegistryGrows
  <2>3. CASE HandleClose(s) \/ PortalFails(s)
    BY <1>1, <2>3 DEF HandleClose, PortalFails, GoesDown
  <2>4. CASE \/ HandleHandshake(s) \/ HandleResponseActorByName(s) \/ HandleSendMessage(s)
             \/ HandleActorExited(s) \/ HandleWaitForHandshake(s)
             \/ HandleQueryNamedRemoteActor(s) \/ HandleImmaterializeMessage(s)
             \/ HandleTransmitMessage(s) \/ HandleRegisterProxy(s) \/ HandleLocalActorExited(s)
    BY <1>1, <2>4, Zenon
    DEF HandleHandshake, HandleResponseActorByName, HandleSendMessage,
        HandleActorExited, HandleWaitForHandshake,
        HandleQueryNamedRemoteActor, HandleImmaterializeMessage, HandleTransmitMessage,
        HandleRegisterProxy, HandleLocalActorExited
  <2>. QED
    BY <1>3, <2>1, <2>2, <2>3, <2>4 DEF Handle
<1>4. ASSUME NEW s \in Side,
             \/ ReceiveLoop(s)
             \/ \E a \in Actor : WatcherReports(s, a)
             \/ \E m \in Msg : SerializationTask(s, m)
             \/ Connect(s) \/ ConnectFails(s)
      PROVE  RegistryGrows
  BY <1>1, <1>4
  DEF ReceiveLoop, ReceiveLoopReads, ReceiveLoopEnds, WatcherReports, SerializationTask,
      TaskAsksToPublish, TaskTransmits, Connect, ConnectFails
<1>5. ASSUME NEW s \in Side, NEW n \in Name, NEW a \in Actor,
             AppOffersOnNexus(s, n, a) \/ AppOffers(s, n, a)
      PROVE  RegistryGrows
  <2>1. \A r \in Side : offered[r] \subseteq offered'[r]
    <3>1. \E o : offered' = [offered EXCEPT ![s] = @ \cup {o}]
      BY <1>5 DEF AppOffersOnNexus, AppOffers
    <3>. QED
      BY <3>1 DEF TypeOK
  <2>2. \A r \in Side : DOMAIN nexusNamed[r] \subseteq DOMAIN nexusNamed'[r]
    <3>1. \/ UNCHANGED nexusNamed
          \/ nexusNamed' = [nexusNamed EXCEPT ![s] = Insert(@, n, a)]
      BY <1>5 DEF AppOffersOnNexus, AppOffers
    <3>2. nexusNamed = [r \in Side |-> nexusNamed[r]]
      BY DEF TypeOK, MapPerSide
    <3>3. ASSUME nexusNamed' = [nexusNamed EXCEPT ![s] = Insert(@, n, a)], NEW r \in Side
          PROVE  nexusNamed'[r] = IF r = s THEN Insert(nexusNamed[s], n, a) ELSE nexusNamed[r]
      BY <3>2, <3>3
    <3>4. DOMAIN nexusNamed[s] \subseteq DOMAIN Insert(nexusNamed[s], n, a)
      BY DEF Insert
    <3>. QED
      BY <3>1, <3>3, <3>4
  <2>3. UNCHANGED <<published, named, alive, sent>>
    BY <1>5 DEF AppOffersOnNexus, AppOffers
  <2>. QED
    BY <2>1, <2>2, <2>3 DEF RegistryGrows
<1>6. ASSUME NEW s \in Side, NEW q \in Asker,
             \/ AppWaitsForHandshake(s, q) \/ AppInstantiatesProxy(s, q)
             \/ \E n \in Name : AppQueries(s, q, n)
      PROVE  RegistryGrows
  BY <1>1, <1>6 DEF AppWaitsForHandshake, AppInstantiatesProxy, AppQueries
<1>7. ASSUME NEW s \in Side, NEW p \in Proxy, NEW m \in Msg, NEW ref \in Actor \cup {None},
             AppSends(s, p, m, ref)
      PROVE  RegistryGrows
  <2>1. m \notin DOMAIN sent[s]
    BY <1>7 DEF AppSends, MessagesSent
  <2>2. PICK c : sent' = [sent EXCEPT ![s] = Insert(@, m, c)]
    BY <1>7 DEF AppSends
  <2>3. \A r \in Side : \A k \in DOMAIN sent[r] :
          k \in DOMAIN sent'[r] /\ sent'[r][k] = sent[r][k]
    BY <2>1, <2>2 DEF TypeOK, MapPerSide, Insert
  <2>4. UNCHANGED <<published, named, alive, nexusNamed, offered>>
    BY <1>7 DEF AppSends
  <2>. QED
    BY <2>3, <2>4 DEF RegistryGrows
<1>8. CASE Environment
  <2>1. ASSUME NEW s \in Side, NEW a \in Actor, ActorExits(s, a)
        PROVE  RegistryGrows
    BY <2>1 DEF ActorExits, RegistryGrows, TypeOK
  <2>. QED
    BY <1>1, <1>8, <2>1 DEF Environment, AskTimesOut, AppStopsPortal, GoesDown, LinkBreaks
<1>. QED
  BY <1>1, <1>3, <1>4, <1>5, <1>6, <1>7, <1>8 DEF Next, vars, Application

(* No step changes what a task has asked, revives one that gave up, or     *)
(* uses a request id again.                                                *)
LEMMA NextRequests ==
  ASSUME TypeOK, [Next]_vars
  PROVE  RequestsGoOn
<1>. DEFINE Asked(r, q) ==
              /\ asker[r][q].state = "timedout" => asker'[r][q].state = "timedout"
              /\ asker[r][q] # IdleAsker => /\ asker'[r][q].wants = asker[r][q].wants
                                            /\ asker'[r][q].known = asker[r][q].known
<1>0. nextRequest \in [Side -> Nat] /\ openRequests = [r \in Side |-> openRequests[r]]
  BY DEF TypeOK, MapPerSide
<1>1. CASE UNCHANGED <<asker, nextRequest, openRequests>>
  BY <1>0, <1>1 DEF RequestsGoOn
<1>2. ASSUME UNCHANGED <<nextRequest, openRequests>>, \A r \in Side, q \in Asker : Asked(r, q)
      PROVE  RequestsGoOn
  BY <1>0, <1>2 DEF RequestsGoOn
<1>3. ASSUME NEW s \in Side, NEW q \in Asker, NEW got, Waits(s, q), Replies(s, q, got)
      PROVE  \A r \in Side, p \in Asker : Asked(r, p)
  BY <1>3, RepliesEffect DEF Waits
<1>4. ASSUME NEW s \in Side, NEW q \in Asker, NEW wants, NEW known,
             MayAsk(s, q), BeginsToWait(s, q, wants, known)
      PROVE  \A r \in Side, p \in Asker : Asked(r, p)
  BY <1>4, BeginsEffect
<1>5. ASSUME NEW s \in Side, NEW Q, Refuses(s, Q)
      PROVE  \A r \in Side, p \in Asker : Asked(r, p)
  BY <1>5, RefusedEffect DEF Waits
<1>6. ASSUME NEW s \in Side, Handle(s)
      PROVE  RequestsGoOn
  <2>1. CASE HandleHandshake(s)
    <3>1. /\ asker' = [asker EXCEPT ![s] =
                     [q \in Asker |-> IF q \in ImageOf(waiting[s]) /\ Waits(s, q)
                                      THEN [@[q] EXCEPT !.state = "answered"] ELSE @[q]]]
          /\ UNCHANGED <<nextRequest, openRequests>>
      BY <2>1 DEF HandleHandshake, TellsWaiting
    <3>2. \A r \in Side, q \in Asker :
            \/ asker'[r][q] = asker[r][q]
            \/ Waits(r, q) /\ asker'[r][q] = [asker[r][q] EXCEPT !.state = "answered"]
      BY <3>1 DEF TypeOK
    <3>3. ASSUME NEW r \in Side, NEW q \in Asker
          PROVE  Asked(r, q)
      <4>1. asker[r][q] \in AskerState
        BY DEF TypeOK
      <4>2. CASE asker'[r][q] = asker[r][q]
        BY <4>2
      <4>3. CASE Waits(r, q) /\ asker'[r][q] = [asker[r][q] EXCEPT !.state = "answered"]
        BY <4>1, <4>3 DEF AskerState, Waits
      <4>. QED
        BY <3>2, <4>2, <4>3
    <3>. QED
      BY <1>2, <3>1, <3>3
  <2>2. CASE HandleClose(s) \/ PortalFails(s)
    BY <2>2, GoesDownGrows DEF HandleClose, PortalFails, Grows
  <2>3. CASE HandleResponseActorByName(s)
    <3>. DEFINE m == Head(mailbox[s])
    <3>1. nextRequest' = nextRequest
      BY <2>3 DEF HandleResponseActorByName
    <3>2. CASE m.id \notin DOMAIN openRequests[s]
      BY <1>1, <2>3, <3>1, <3>2 DEF HandleResponseActorByName
    <3>3. CASE m.id \in DOMAIN openRequests[s]
      <4>1. openRequests[s][m.id] \in Asker
        BY <3>3, MapPerSideUpdate, MapsAreTyped DEF TypeOK
      <4>2. \A r \in Side, p \in Asker : Asked(r, p)
        BY <1>3, <2>3, <3>3, <4>1 DEF HandleResponseActorByName
      <4>3. openRequests' = [openRequests EXCEPT ![s] = Remove(@, m.id)]
        BY <2>3, <3>3 DEF HandleResponseActorByName
      <4>4. \A r \in Side : \A k \in DOMAIN openRequests'[r] :
              k \in DOMAIN openRequests[r] /\ openRequests'[r][k] = openRequests[r][k]
        BY <1>0, <4>3 DEF Remove
      <4>. QED
        BY <1>0, <3>1, <4>2, <4>4 DEF RequestsGoOn
    <3>. QED
      BY <3>2, <3>3
  <2>4. CASE HandleWaitForHandshake(s)
    <3>1. Head(mailbox[s]).port \in Asker /\ UNCHANGED <<nextRequest, openRequests>>
      BY <2>4, MailboxSteps, MessageShapes DEF TypeOK, HandleWaitForHandshake, Takes
    <3>. QED
      BY <1>1, <1>2, <1>3, <2>4, <3>1 DEF HandleWaitForHandshake
  <2>5. CASE HandlePublishNamedActor(s)
    <3>1. Head(mailbox[s]).port \in Asker \cup {None} /\ UNCHANGED <<nextRequest, openRequests>>
      BY <2>5, MailboxSteps, MessageShapes DEF TypeOK, HandlePublishNamedActor, Takes
    <3>2. \/ UNCHANGED asker
          \/ \E q \in Asker : \E got : Waits(s, q) /\ Replies(s, q, got)
      BY <2>5, <3>1 DEF HandlePublishNamedActor
    <3>. QED
      BY <1>1, <1>2, <1>3, <3>1, <3>2
  <2>6. CASE HandleQueryNamedRemoteActor(s)
    <3>1. CASE UNCHANGED <<nextRequest, openRequests>>
      <4>1. UNCHANGED asker \/ Refuses(s, {Head(mailbox[s]).port})
        BY <2>6 DEF HandleQueryNamedRemoteActor, Refuses
      <4>. QED
        BY <1>1, <1>2, <1>5, <3>1, <4>1
    <3>2. CASE /\ nextRequest' = [nextRequest EXCEPT ![s] = @ + 1]
               /\ \E q : openRequests' = [openRequests EXCEPT ![s] = Insert(@, nextRequest[s], q)]
               /\ UNCHANGED asker
      <4>1. \A r \in Side : nextRequest[r] \in Nat /\ nextRequest[r] <= nextRequest'[r]
        BY <1>0, <3>2
      <4>2. \A r \in Side : \A k \in DOMAIN openRequests'[r] :
              \/ k \in DOMAIN openRequests[r] /\ openRequests'[r][k] = openRequests[r][k]
              \/ k >= nextRequest[r]
        BY <1>0, <3>2 DEF Insert
      <4>. QED
        BY <3>2, <4>1, <4>2 DEF RequestsGoOn
    <3>. QED
      BY <2>6, <3>1, <3>2 DEF HandleQueryNamedRemoteActor, TakesRequestId
  <2>7. CASE \/ HandleRequestActorByName(s) \/ HandleSendMessage(s) \/ HandleActorExited(s)
             \/ HandlePublishActor(s) \/ HandleImmaterializeMessage(s) \/ HandleTransmitMessage(s)
             \/ HandleRegisterProxy(s) \/ HandleLocalActorExited(s)
    BY <1>1, <2>7, HandlersUnrelated DEF Unrelated
  <2>. QED
    BY <1>6, <2>1, <2>2, <2>3, <2>4, <2>5, <2>6, <2>7 DEF Handle
<1>7. ASSUME NEW s \in Side,
             \/ Connect(s) \/ ConnectFails(s) \/ ReceiveLoop(s)
             \/ \E a \in Actor : WatcherReports(s, a) \/ ActorExits(s, a)
             \/ \E m \in Msg : SerializationTask(s, m)
      PROVE  RequestsGoOn
  BY <1>1, <1>7, TasksUnrelated DEF Unrelated
<1>8. ASSUME NEW s \in Side,
             \/ \E n \in Name, a \in Actor : AppOffersOnNexus(s, n, a)
             \/ \E q \in Asker : AppInstantiatesProxy(s, q)
             \/ \E p \in Proxy, m \in Msg, ref \in Actor \cup {None} : AppSends(s, p, m, ref)
      PROVE  RequestsGoOn
  BY <1>1, <1>8, ApplicationUnrelated DEF Unrelated
<1>9. ASSUME NEW s \in Side,
             \/ \E n \in Name, a \in Actor : AppOffers(s, n, a)
             \/ \E q \in Asker : AppWaitsForHandshake(s, q)
             \/ \E q \in Asker, n \in Name : AppQueries(s, q, n)
      PROVE  RequestsGoOn
  <2>1. UNCHANGED <<nextRequest, openRequests>>
    BY <1>9 DEF AppOffers, AppWaitsForHandshake, AppQueries
  <2>2. \/ UNCHANGED asker
        \/ \E q \in Asker : \E wants, known : MayAsk(s, q) /\ BeginsToWait(s, q, wants, known)
    BY <1>9 DEF AppOffers, AppWaitsForHandshake, AppQueries
  <2>. QED
    BY <1>1, <1>2, <1>4, <2>1, <2>2
<1>10. ASSUME NEW s \in Side, NEW q \in Asker, AskTimesOut(s, q)
       PROVE  RequestsGoOn
  <2>1. \A r \in Side, p \in Asker :
          asker'[r][p] = asker[r][p] \/ asker'[r][p] = [asker[r][p] EXCEPT !.state = "timedout"]
    BY <1>10 DEF AskTimesOut, TypeOK
  <2>2. ASSUME NEW r \in Side, NEW p \in Asker
        PROVE  Asked(r, p)
    <3>1. asker[r][p] \in AskerState
      BY DEF TypeOK
    <3>2. CASE asker'[r][p] = asker[r][p]
      BY <3>2
    <3>3. CASE asker'[r][p] = [asker[r][p] EXCEPT !.state = "timedout"]
      BY <3>1, <3>3 DEF AskerState
    <3>. QED
      BY <2>1, <3>2, <3>3
  <2>. QED
    BY <1>2, <1>10, <2>2 DEF AskTimesOut
<1>11. CASE LinkBreaks \/ \E s \in Side : AppStopsPortal(s)
  BY <1>1, <1>11, GoesDownGrows DEF LinkBreaks, AppStopsPortal, Grows
<1>. QED
  BY <1>1, <1>6, <1>7, <1>8, <1>9, <1>10, <1>11 DEF Next, vars, Application, Environment

(* What a step never takes back. *)
LEMMA NextGrows ==
  ASSUME TypeOK, [Next]_vars
  PROVE  Grows
BY NextLife, NextRegistry, NextRequests DEF Grows
-----------------------------------------------------------------------------
(* What is in a queue when its head is taken, or something is appended. *)
LEMMA QueueImages ==
  ASSUME NEW S, NEW q \in Seq(S)
  PROVE  /\ q # <<>> => /\ ImageOf(Tail(q)) \subseteq ImageOf(q)
                        /\ Head(q) \in ImageOf(q)
                        /\ Tail(q) \in Seq(S)
         /\ \A e : ImageOf(Append(q, e)) = ImageOf(q) \cup {e}
         /\ ImageOf(<<>>) = {}
         /\ ImageOf(q) \subseteq S
<1>1. q # <<>> => /\ ImageOf(Tail(q)) \subseteq ImageOf(q) /\ Head(q) \in ImageOf(q)
                  /\ Tail(q) \in Seq(S)
  BY TailElements DEF ImageOf
<1>2. ASSUME NEW e
      PROVE  ImageOf(Append(q, e)) = ImageOf(q) \cup {e}
  <2>1. /\ DOMAIN Append(q, e) = DOMAIN q \cup {Len(q) + 1}
        /\ Len(q) + 1 \notin DOMAIN q
        /\ \A i \in DOMAIN q : Append(q, e)[i] = q[i]
        /\ Append(q, e)[Len(q) + 1] = e
    BY AppendPositions
  <2>. DEFINE a == Append(q, e)
              l == Len(q) + 1
  <2>2. /\ DOMAIN a = DOMAIN q \cup {l}
        /\ \A i \in DOMAIN q : a[i] = q[i]
        /\ a[l] = e
    BY <2>1
  <2>. HIDE DEF a, l
  <2>3. ImageOf(a) = ImageOf(q) \cup {e}
    BY <2>2 DEF ImageOf
  <2>. QED
    BY <2>3 DEF a
<1>3. ImageOf(<<>>) = {}
  BY NoElements DEF ImageOf
<1>4. ImageOf(q) \subseteq S
  BY EachElement DEF ImageOf
<1>. QED
  BY <1>1, <1>2, <1>3, <1>4

(* What is in the mailboxes after a portal has taken a message, or one has *)
(* been cast to it.                                                        *)
LEMMA MailImages ==
  ASSUME TypeOK, NEW s \in Side
  PROVE  /\ mailbox[s] # <<>> => Head(mailbox[s]) \in ImageOf(mailbox[s])
         /\ mailbox[s] # <<>> /\ Done(s) =>
              \A r \in Side : ImageOf(mailbox'[r]) \subseteq ImageOf(mailbox[r])
         /\ \A e : Cast(s, e) => /\ ImageOf(mailbox'[s]) = ImageOf(mailbox[s]) \cup {e}
                                 /\ \A r \in Side : r # s => mailbox'[r] = mailbox[r]
         /\ \A e : mailbox[s] # <<>> /\ DoneThenCast(s, e) =>
              /\ ImageOf(mailbox'[s]) \subseteq ImageOf(mailbox[s]) \cup {e}
              /\ \A r \in Side : r # s => mailbox'[r] = mailbox[r]
<1>1. mailbox \in [Side -> Seq(PortalActorMessage)] /\ mailbox[s] \in Seq(PortalActorMessage)
  BY DEF TypeOK
<1>2. mailbox[s] # <<>> => Head(mailbox[s]) \in ImageOf(mailbox[s])
  BY <1>1, QueueImages
<1>3. ASSUME mailbox[s] # <<>>, Done(s)
      PROVE  \A r \in Side : ImageOf(mailbox'[r]) \subseteq ImageOf(mailbox[r])
  <2>1. mailbox'[s] = Tail(mailbox[s]) /\ \A r \in Side : r # s => mailbox'[r] = mailbox[r]
    BY <1>1, <1>3 DEF Done
  <2>. QED
    BY <1>1, <1>3, <2>1, QueueImages
<1>4. ASSUME NEW e, Cast(s, e)
      PROVE  /\ ImageOf(mailbox'[s]) = ImageOf(mailbox[s]) \cup {e}
             /\ \A r \in Side : r # s => mailbox'[r] = mailbox[r]
  <2>1. mailbox'[s] = Append(mailbox[s], e) /\ \A r \in Side : r # s => mailbox'[r] = mailbox[r]
    BY <1>1, <1>4 DEF Cast
  <2>. QED
    BY <1>1, <2>1, QueueImages
<1>5. ASSUME NEW e, mailbox[s] # <<>>, DoneThenCast(s, e)
      PROVE  /\ ImageOf(mailbox'[s]) \subseteq ImageOf(mailbox[s]) \cup {e}
             /\ \A r \in Side : r # s => mailbox'[r] = mailbox[r]
  <2>. DEFINE rest == Tail(mailbox[s])
  <2>1. mailbox'[s] = Append(rest, e) /\ \A r \in Side : r # s => mailbox'[r] = mailbox[r]
    BY <1>1, <1>5 DEF DoneThenCast
  <2>2. rest \in Seq(PortalActorMessage) /\ ImageOf(rest) \subseteq ImageOf(mailbox[s])
    BY <1>1, <1>5, QueueImages
  <2>. HIDE DEF rest
  <2>3. ImageOf(Append(rest, e)) = ImageOf(rest) \cup {e}
    BY <2>2, QueueImages
  <2>. QED
    BY <2>1, <2>2, <2>3
<1>. QED
  BY <1>2, <1>3, <1>4, <1>5

(* CloseIsDue, with the mailbox seen as a whole. *)
LEMMA CloseInMail ==
  ASSUME NEW s \in Side
  PROVE  /\ CloseIsDue(s) <=> \E e \in ImageOf(mailbox[s]) : e.type = "Close"
         /\ CloseIsDue(s)' <=> \E e \in ImageOf(mailbox'[s]) : e.type = "Close"
BY DEF CloseIsDue, ImageOf

(* A step that leaves portals and loops running, and casts no Close. *)
Harmless(s) ==
  /\ \A r \in Side : /\ status'[r] = "down" => status[r] = "down"
                     /\ loop'[r] = "done" => loop[r] = "done"
  /\ UNCHANGED exit
  /\ \/ UNCHANGED mailbox
     \/ \E e : e.type # "Close" /\ Cast(s, e)
     \/ mailbox[s] # <<>> /\ (Done(s) \/ \E e : e.type # "Close" /\ DoneThenCast(s, e))

(* What was the cause of an end stays one. *)
LEMMA CauseStays ==
  ASSUME TypeOK, EndsHaveCause, Grows, HasCause
  PROVE  HasCause'
<1>1. LifeGoesOn /\ RegistryGrows /\ RequestsGoOn
  BY DEF Grows
<1>2. CASE ~linkUp
  BY <1>1, <1>2 DEF LifeGoesOn, HasCause, TypeOK
<1>3. ASSUME NEW s \in Side, exit[s] # None
      PROVE  exit'[s] = exit[s]
  BY <1>1, <1>3 DEF LifeGoesOn, EndsHaveCause
<1>4. ASSUME NEW s \in Side, exit[s] = "stopped"
      PROVE  HasCause'
  BY <1>3, <1>4, PortalAssumption DEF HasCause, Exits
<1>5. ASSUME NEW s \in Side, exit[s] = "failed",
             GaveUp(s) \/ ~(ImageOf(published[s]) \subseteq alive[s])
      PROVE  HasCause'
  <2>1. exit'[s] = "failed"
    BY <1>3, <1>5, PortalAssumption DEF Exits
  <2>2. GaveUp(s) => GaveUp(s)'
    BY <1>1 DEF GaveUp, RequestsGoOn
  <2>3. ~(ImageOf(published[s]) \subseteq alive[s])
          => ~(ImageOf(published'[s]) \subseteq alive'[s])
    BY <1>1 DEF RegistryGrows, ImageOf
  <2>. QED
    BY <1>5, <2>1, <2>2, <2>3 DEF HasCause
<1>. QED
  BY <1>2, <1>4, <1>5 DEF HasCause

(* To show that an end has a cause after a step, look at what the step     *)
(* ends.                                                                   *)
LEMMA EndsKept ==
  ASSUME TypeOK, EndsHaveCause, Grows,
         \A r \in Side : /\ status'[r] = "down" => status[r] = "down" \/ HasCause'
                         /\ loop'[r] = "done" => loop[r] = "done" \/ HasCause'
                         /\ CloseIsDue(r)' => CloseIsDue(r) \/ HasCause'
                         /\ status'[r] # "down" => exit'[r] = exit[r]
  PROVE  EndsHaveCause'
<1>. SUFFICES ASSUME NEW r \in Side
              PROVE  /\ status'[r] = "down" \/ loop'[r] = "done" \/ CloseIsDue(r)' => HasCause'
                     /\ status'[r] # "down" => exit'[r] = None
  BY DEF EndsHaveCause
<1>1. HasCause => HasCause'
  BY CauseStays
<1>2. status[r] = "down" \/ loop[r] = "done" \/ CloseIsDue(r) => HasCause
  BY DEF EndsHaveCause
<1>3. status'[r] # "down" => status[r] # "down"
  BY DEF Grows, LifeGoesOn
<1>4. status'[r] # "down" => exit'[r] = None
  BY <1>3 DEF EndsHaveCause
<1>. QED
  BY <1>1, <1>2, <1>4

(* A harmless step ends nothing. *)
LEMMA HarmlessKeeps ==
  ASSUME TypeOK, EndsHaveCause, Grows, NEW s \in Side, Harmless(s)
  PROVE  EndsHaveCause'
<1>1. ASSUME NEW r \in Side, CloseIsDue(r)'
      PROVE  CloseIsDue(r)
  <2>1. PICK e \in ImageOf(mailbox'[r]) : e.type = "Close"
    BY <1>1, CloseInMail
  <2>2. e \in ImageOf(mailbox[r])
    <3>1. CASE UNCHANGED mailbox
      BY <3>1
    <3>2. ASSUME NEW f, f.type # "Close", Cast(s, f)
          PROVE  e \in ImageOf(mailbox[r])
      BY <2>1, <3>2, MailImages
    <3>3. CASE mailbox[s] # <<>> /\ Done(s)
      BY <3>3, MailImages
    <3>4. ASSUME NEW f, f.type # "Close", mailbox[s] # <<>>, DoneThenCast(s, f)
          PROVE  e \in ImageOf(mailbox[r])
      BY <2>1, <3>4, MailImages
    <3>. QED
      BY <3>1, <3>2, <3>3, <3>4 DEF Harmless
  <2>. QED
    BY <2>1, <2>2, CloseInMail
<1>. QED
  BY <1>1, EndsKept DEF Harmless

(* Most handlers end nothing. *)
LEMMA HandlersHarmless ==
  ASSUME TypeOK, NEW s \in Side, Handle(s), ~HandleClose(s), ~PortalFails(s)
  PROVE  Harmless(s)
<1>1. CASE HandleHandshake(s)
  <2>1. mailbox[s] # <<>> /\ Done(s) /\ UNCHANGED <<loop, exit>>
    BY <1>1 DEF HandleHandshake, Takes
  <2>2. \A r \in Side : status'[r] = "down" => status[r] = "down"
    BY <1>1 DEF HandleHandshake, TypeOK
  <2>. QED
    BY <2>1, <2>2 DEF Harmless
<1>2. CASE HandleSendMessage(s)
  <2>1. mailbox[s] # <<>> /\ UNCHANGED <<loop, exit, status>>
    BY <1>2, Zenon DEF HandleSendMessage, TakesWhenOpen, Takes
  <2>2. Done(s) \/ \E e : e.type # "Close" /\ DoneThenCast(s, e)
    BY <1>2, Zenon DEF HandleSendMessage
  <2>. QED
    BY <2>1, <2>2 DEF Harmless
<1>3. CASE \/ HandleRequestActorByName(s) \/ HandleResponseActorByName(s) \/ HandleActorExited(s)
           \/ HandleWaitForHandshake(s) \/ HandlePublishNamedActor(s) \/ HandlePublishActor(s)
           \/ HandleQueryNamedRemoteActor(s) \/ HandleImmaterializeMessage(s)
           \/ HandleTransmitMessage(s) \/ HandleRegisterProxy(s) \/ HandleLocalActorExited(s)
  <2>1. UNCHANGED <<loop, exit, status>> /\ Done(s)
    BY <1>3, Zenon DEF HandleRequestActorByName, HandleResponseActorByName, HandleActorExited,
                HandleWaitForHandshake, HandlePublishNamedActor, HandlePublishActor,
                HandleQueryNamedRemoteActor, HandleImmaterializeMessage,
                HandleTransmitMessage, HandleRegisterProxy, HandleLocalActorExited
  <2>2. mailbox[s] # <<>>
    BY <1>3, Zenon DEF HandleRequestActorByName, HandleResponseActorByName, HandleActorExited,
                HandleWaitForHandshake, HandlePublishNamedActor, HandlePublishActor,
                HandleQueryNamedRemoteActor, HandleImmaterializeMessage,
                HandleTransmitMessage, HandleRegisterProxy, HandleLocalActorExited,
                TakesWhenOpen, Takes
  <2>. QED
    BY <2>1, <2>2 DEF Harmless
<1>. QED
  BY <1>1, <1>2, <1>3 DEF Handle

(* So do the tasks around a portal, its application, and the loop that     *)
(* feeds it, as long as it runs.                                           *)
LEMMA OthersHarmless ==
  ASSUME TypeOK, NEW s \in Side,
         \/ ReceiveLoopReads(s) /\ Live(s)
         \/ \E a \in Actor : WatcherReports(s, a) \/ ActorExits(s, a)
         \/ \E m \in Msg : SerializationTask(s, m)
         \/ Application(s) /\ ~ConnectFails(s)
         \/ \E q \in Asker : AskTimesOut(s, q)
         \/ LinkBreaks
  PROVE  Harmless(s)
<1>1. CASE ReceiveLoopReads(s) /\ Live(s)
  <2>1. wire[Peer(s)] \in Seq(ConduitMessage) /\ wire[Peer(s)] # <<>>
    BY <1>1, PeerFacts DEF ReceiveLoopReads, TypeOK
  <2>2. Head(wire[Peer(s)]).type # "Close"
    BY <2>1, TailElements DEF ConduitMessage, Handshakes, Contents
  <2>. QED
    BY <1>1, <2>2 DEF ReceiveLoopReads, Harmless
<1>2. ASSUME NEW a \in Actor, WatcherReports(s, a) \/ ActorExits(s, a)
      PROVE  Harmless(s)
  BY <1>2 DEF WatcherReports, ActorExits, Harmless
<1>3. ASSUME NEW m \in Msg, SerializationTask(s, m)
      PROVE  Harmless(s)
  BY <1>3 DEF SerializationTask, TaskAsksToPublish, TaskTransmits, Harmless
<1>4. CASE Connect(s)
  BY <1>4 DEF Connect, Harmless, TypeOK
<1>5. CASE Application(s) /\ ~ConnectFails(s) /\ ~Connect(s)
  <2>1. UNCHANGED <<status, exit, loop>>
    BY <1>5 DEF Application, AppOffersOnNexus, AppOffers, AppWaitsForHandshake,
                AppInstantiatesProxy, AppQueries, AppSends
  <2>2. UNCHANGED mailbox \/ \E e : e.type # "Close" /\ Cast(s, e)
    BY <1>5 DEF Application, AppOffersOnNexus, AppOffers, AppWaitsForHandshake,
                AppInstantiatesProxy, AppQueries, AppSends
  <2>. QED
    BY <2>1, <2>2 DEF Harmless
<1>6. CASE LinkBreaks \/ \E q \in Asker : AskTimesOut(s, q)
  BY <1>6 DEF LinkBreaks, AskTimesOut, Harmless
<1>. QED
  BY <1>1, <1>2, <1>3, <1>4, <1>5, <1>6

(* A portal goes down: its side says why, and the mailbox is dropped. *)
LEMMA GoesDownWithCause ==
  ASSUME TypeOK, EndsHaveCause, Grows, NEW s \in Side, NEW why, GoesDown(s, why), HasCause'
  PROVE  EndsHaveCause'
<1>1. status' = [status EXCEPT ![s] = "down"] /\ exit' = [exit EXCEPT ![s] = why]
  BY DEF GoesDown
<1>2. \A r \in Side : status'[r] # "down" => exit'[r] = exit[r]
  BY <1>1 DEF TypeOK
<1>. QED
  BY <1>2, EndsKept

(* A portal whose handler fails cannot write, replies to a task that gave  *)
(* up, or delivers to an actor that has ended.                             *)
LEMMA PortalFailsCause ==
  ASSUME TypeOK, PortsAreOwnedOnce, EndsHaveCause, NEW s \in Side, PortalFails(s), Grows
  PROVE  HasCause'
<1>. DEFINE m == Head(mailbox[s])
<1>1. GoesDown(s, "failed") /\ Live(s) /\ mailbox[s] # <<>>
  BY DEF PortalFails
<1>2. /\ exit'[s] = "failed" /\ published' = published /\ alive' = alive
      /\ Refuses(s, PortsHeld(s))
  BY <1>1 DEF GoesDown, TypeOK, Refuses
<1>3. m \in PortalActorMessage
  BY <1>1, MailboxSteps DEF TypeOK
<1>4. CASE ~SourceOpen(Peer(s))
  <2>1. ~linkUp \/ loop[Peer(s)] = "done"
    BY <1>4 DEF SourceOpen
  <2>2. HasCause
    BY <2>1, PeerFacts DEF EndsHaveCause, HasCause
  <2>. QED
    BY <2>2, CauseStays
<1>5. ASSUME NEW q \in RepliesTo(s, m), ~Waits(s, q)
      PROVE  HasCause'
  <2>1. q \in Asker /\ asker[s][q].state \in {"waiting", "timedout"}
    <3>1. CASE /\ m.type = "ResponseActorByName" /\ m.id \in DOMAIN openRequests[s]
               /\ q = openRequests[s][m.id]
      <4>1. q \in Asker
        BY <3>1, MapPerSideUpdate, MapsAreTyped DEF TypeOK
      <4>2. m.id \in PlacesOf(openRequests[s], q)
        BY <3>1 DEF PlacesOf
      <4>. QED
        BY <4>1, <4>2 DEF PortsAreOwnedOnce, OwnedOnce
    <3>2. CASE m.type \in {"PublishNamedActor", "WaitForHandshake"} /\ q = m.port /\ q # None
      <4>1. q \in Asker
        BY <1>3, <3>2, MessageShapes
      <4>2. mailbox[s] \in Seq(PortalActorMessage)
        BY DEF TypeOK
      <4>3. 1 \in DOMAIN mailbox[s] /\ mailbox[s][1] = m
        BY <1>1, <4>2, TailElements
      <4>4. 1 \in MailboxPlaces(mailbox[s], q)
        BY <3>2, <4>3 DEF MailboxPlaces, PortTypes
      <4>. QED
        BY <4>1, <4>4 DEF PortsAreOwnedOnce, OwnedOnce
    <3>. QED
      BY <1>5, <3>1, <3>2, PortalAssumption DEF RepliesTo
  <2>2. asker[s][q].state = "timedout"
    BY <1>5, <2>1 DEF Waits
  <2>3. asker'[s][q].state = "timedout"
    <3>1. asker'[s][q] = asker[s][q]
      BY <1>2, <1>5, <2>1, RefusedEffect
    <3>. QED
      BY <2>2, <3>1
  <2>. QED
    BY <1>2, <2>1, <2>3 DEF HasCause, GaveUp
<1>6. ASSUME NEW a \in DeliversTo(s, m), a \notin alive[s]
      PROVE  HasCause'
  <2>1. a \in ImageOf(published[s])
    BY <1>6 DEF DeliversTo, ImageOf
  <2>2. ~(ImageOf(published'[s]) \subseteq alive'[s])
    BY <1>2, <1>6, <2>1
  <2>. QED
    BY <1>2, <2>2 DEF HasCause
<1>7. \/ ~SourceOpen(Peer(s))
      \/ \E q \in RepliesTo(s, m) : ~Waits(s, q)
      \/ \E a \in DeliversTo(s, m) : a \notin alive[s]
  BY DEF PortalFails
<1>. QED
  BY <1>4, <1>5, <1>6, <1>7

(* A portal that closes was told that the stream ended: two portals never  *)
(* violate each other's protocol.                                          *)
LEMMA HandleCloseCause ==
  ASSUME TypeOK, NoProtocolViolation', EndsHaveCause, NEW s \in Side, HandleClose(s), Grows
  PROVE  HasCause'
<1>1. mailbox[s] # <<>>
      /\ GoesDown(s, IF Head(mailbox[s]).type = "Close" THEN "closed" ELSE "protocol")
  BY DEF HandleClose
<1>2. Head(mailbox[s]).type = "Close"
  <2>1. Head(mailbox[s]).type # "Close" => exit'[s] = "protocol"
    BY <1>1 DEF GoesDown, TypeOK
  <2>. QED
    BY <2>1 DEF NoProtocolViolation
<1>3. CloseIsDue(s)
  BY <1>1, <1>2, MailImages, CloseInMail
<1>4. HasCause
  BY <1>3 DEF EndsHaveCause
<1>. QED
  BY <1>4, CauseStays

(* A receive loop ends after the portal it feeds, after the peer's portal, *)
(* or with the link; so does the attempt to connect to what has ended.     *)
LEMMA LoopEndsCause ==
  ASSUME TypeOK, OneIntroductionFirst, EndsHaveCause, NEW s \in Side,
         \/ ReceiveLoopReads(s) /\ ~Live(s)
         \/ ReceiveLoopEnds(s)
         \/ ConnectFails(s)
  PROVE  /\ HasCause
         /\ \A r \in Side : status'[r] # "down" => exit'[r] = exit[r]
<1>1. CASE ReceiveLoopReads(s) /\ ~Live(s)
  <2>1. status[s] # "idle"
    BY <1>1 DEF ReceiveLoopReads, OneIntroductionFirst
  <2>2. status[s] = "down"
    BY <1>1, <2>1 DEF Live, TypeOK
  <2>3. UNCHANGED exit
    BY <1>1 DEF ReceiveLoopReads
  <2>. QED
    BY <2>2, <2>3 DEF EndsHaveCause
<1>2. CASE ReceiveLoopEnds(s)
  <2>1. ~linkUp \/ status[Peer(s)] = "down"
    BY <1>2 DEF ReceiveLoopEnds, SinkDropped
  <2>2. UNCHANGED exit
    BY <1>2 DEF ReceiveLoopEnds
  <2>3. HasCause
    BY <2>1, PeerFacts DEF EndsHaveCause, HasCause
  <2>. QED
    BY <2>2, <2>3
<1>3. CASE ConnectFails(s)
  <2>1. ~linkUp \/ loop[Peer(s)] = "done"
    BY <1>3 DEF ConnectFails, SourceOpen
  <2>2. HasCause
    BY <2>1, PeerFacts DEF EndsHaveCause, HasCause
  <2>3. \A r \in Side : status'[r] # "down" => exit'[r] = exit[r]
    BY <1>3 DEF ConnectFails, TypeOK
  <2>. QED
    BY <2>2, <2>3
<1>. QED
  BY <1>1, <1>2, <1>3

(* Whatever ends in a step has a cause. *)
LEMMA NextEnds ==
  ASSUME TypeOK, HandshakeInv, HandshakeInv', PortsAreOwnedOnce, EndsHaveCause, [Next]_vars
  PROVE  EndsHaveCause'
<1>1. Grows
  BY NextGrows
<1>2. CASE UNCHANGED vars
  BY <1>1, <1>2, EndsKept DEF vars, CloseIsDue
<1>3. ASSUME NEW s \in Side, Harmless(s)
      PROVE  EndsHaveCause'
  BY <1>1, <1>3, HarmlessKeeps
<1>4. ASSUME NEW s \in Side, Handle(s)
      PROVE  EndsHaveCause'
  <2>1. CASE HandleClose(s)
    <3>1. NoProtocolViolation'
      BY DEF HandshakeInv
    <3>2. HasCause'
      BY <1>1, <2>1, <3>1, HandleCloseCause
    <3>. QED
      BY <1>1, <2>1, <3>2, GoesDownWithCause DEF HandleClose
  <2>2. CASE PortalFails(s)
    <3>1. HasCause'
      BY <1>1, <2>2, PortalFailsCause
    <3>. QED
      BY <1>1, <2>2, <3>1, GoesDownWithCause DEF PortalFails
  <2>. QED
    BY <1>3, <1>4, <2>1, <2>2, HandlersHarmless
<1>5. ASSUME NEW s \in Side,
             \/ ReceiveLoopReads(s) /\ ~Live(s)
             \/ ReceiveLoopEnds(s)
             \/ ConnectFails(s)
      PROVE  EndsHaveCause'
  <2>1. OneIntroductionFirst
    BY DEF HandshakeInv
  <2>2. HasCause'
    BY <1>1, <1>5, <2>1, LoopEndsCause, CauseStays
  <2>3. \A r \in Side : status'[r] # "down" => exit'[r] = exit[r]
    BY <1>5, <2>1, LoopEndsCause
  <2>. QED
    BY <1>1, <2>2, <2>3, EndsKept
<1>6. ASSUME NEW s \in Side, AppStopsPortal(s)
      PROVE  EndsHaveCause'
  <2>1. GoesDown(s, "stopped")
    BY <1>6 DEF AppStopsPortal
  <2>2. exit'[s] = "stopped"
    BY <2>1 DEF GoesDown, TypeOK
  <2>3. HasCause'
    BY <2>2 DEF HasCause
  <2>. QED
    BY <1>1, <2>1, <2>3, GoesDownWithCause
<1>7. ASSUME NEW s \in Side,
             \/ ReceiveLoop(s)
             \/ \E a \in Actor : WatcherReports(s, a) \/ ActorExits(s, a)
             \/ \E m \in Msg : SerializationTask(s, m)
             \/ Application(s)
             \/ \E q \in Asker : AskTimesOut(s, q)
      PROVE  EndsHaveCause'
  BY <1>3, <1>5, <1>7, OthersHarmless DEF ReceiveLoop
<1>8. CASE LinkBreaks
  <2>1. "a" \in Side
    BY DEF Side
  <2>. QED
    BY <1>3, <1>8, <2>1, OthersHarmless
<1>. QED
  BY <1>2, <1>4, <1>6, <1>7, <1>8 DEF Next, Environment
-----------------------------------------------------------------------------
(* Before anything is connected, nothing is asked and nothing has ended. *)
LEMMA InitRequests ==
  ASSUME Init
  PROVE  PortsAreOwnedOnce /\ RequestsAreNumbered /\ EndsHaveCause
<1>1. \A q : MailboxPlaces(<<>>, q) = {} /\ PlacesOf(<<>>, q) = {} /\ PlacesOf(NoEntries, q) = {}
  BY NoElements DEF MailboxPlaces, PlacesOf, NoEntries
<1>2. PortsAreOwnedOnce
  BY <1>1 DEF Init, PortsAreOwnedOnce, OwnedOnce, AtMostOne, Waits, IdleAsker
<1>3. RequestsAreNumbered
  BY DEF Init, RequestsAreNumbered, NoEntries
<1>4. EndsHaveCause
  BY NoElements DEF Init, EndsHaveCause, CloseIsDue
<1>. QED
  BY <1>2, <1>3, <1>4

(* The invariant of the asking tasks, beside those it rests on. *)
RequestInv ==
  /\ TypeOK /\ SendsAreOwned /\ HandshakeInv
  /\ PortsAreOwnedOnce /\ RequestsAreNumbered /\ EndsHaveCause

(* No step of either side, of the tasks around it or of its environment    *)
(* forgets a task that asks, or ends anything without a cause.             *)
LEMMA RequestInvariant == Spec => []RequestInv
<1>1. Init => RequestInv
  BY InitTyped, InitOwned, InitIntroduced, InitRequests DEF RequestInv
<1>2. RequestInv /\ [Next]_vars => RequestInv'
  BY NextTyped, NextOwned, NextKeepsHandshake, NextPorts, NextEnds DEF RequestInv
<1>. QED
  BY <1>1, <1>2, PTL DEF Spec

(* One place holds the port of a task that waits: ports are moved between  *)
(* the mailbox, open_requests and waiting_for_handshake, never copied and  *)
(* never lost without the task's being told.                               *)
LEMMA OnePortPlace ==
  ASSUME RequestInv, NEW s \in Side, NEW q \in Asker, Waits(s, q)
  PROVE  Live(s) /\ Cardinality(PortPlaces(s, q)) = 1
<1>1. OwnedOnce(s, q)
  BY DEF RequestInv, PortsAreOwnedOnce
<1>. DEFINE M == MailboxPlaces(mailbox[s], q)
            R == PlacesOf(openRequests[s], q)
            W == PlacesOf(waiting[s], q)
<1>2. /\ AtMostOne(M) /\ AtMostOne(R) /\ AtMostOne(W)
      /\ \/ M # {} /\ R = {} /\ W = {}
         \/ M = {} /\ R # {} /\ W = {}
         \/ M = {} /\ R = {} /\ W # {}
  BY <1>1 DEF OwnedOnce
<1>3. PortPlaces(s, q) = {<<"mailbox", i>> : i \in M} \cup {<<"request", i>> : i \in R}
                           \cup {<<"waiting", i>> : i \in W}
  BY DEF PortPlaces
<1>. HIDE DEF M, R, W
<1>4. PICK x : PortPlaces(s, q) = {x}
  <2>1. CASE M # {} /\ R = {} /\ W = {}
    <3>1. PICK i : M = {i}
      BY <1>2, <2>1 DEF AtMostOne
    <3>2. PortPlaces(s, q) = {<<"mailbox", i>>}
      BY <1>3, <2>1, <3>1, Zenon
    <3>. QED
      BY <3>2
  <2>2. CASE M = {} /\ R # {} /\ W = {}
    <3>1. PICK i : R = {i}
      BY <1>2, <2>2 DEF AtMostOne
    <3>2. PortPlaces(s, q) = {<<"request", i>>}
      BY <1>3, <2>2, <3>1, Zenon
    <3>. QED
      BY <3>2
  <2>3. CASE M = {} /\ R = {} /\ W # {}
    <3>1. PICK i : W = {i}
      BY <1>2, <2>3 DEF AtMostOne
    <3>2. PortPlaces(s, q) = {<<"waiting", i>>}
      BY <1>3, <2>3, <3>1, Zenon
    <3>. QED
      BY <3>2
  <2>. QED
    BY <1>2, <2>1, <2>2, <2>3
<1>. QED
  BY <1>1, <1>4, FS_Singleton DEF OwnedOnce

(* A portal that is down has a cause: the link, a stop by an application,  *)
(* a task that gave up, or a published actor that ended.                   *)
THEOREM ShutdownsHaveCause == Spec => []NoSpontaneousShutdown
<1>1. RequestInv => NoSpontaneousShutdown
  BY DEF RequestInv, EndsHaveCause, NoSpontaneousShutdown
<1>. QED
  BY <1>1, RequestInvariant, PTL

(* What no step takes back: a portal that went down stays down for the     *)
(* reason it gave, no id or message loses its actor, no actor returns, no  *)
(* task that gave up is revived, and no request id is used again.          *)
THEOREM NothingIsTakenBack == Spec => [][Grows]_vars
<1>1. RequestInv /\ [Next]_vars => [Grows]_vars
  BY NextGrows DEF RequestInv
<1>. QED
  BY <1>1, RequestInvariant, PTL DEF Spec
-----------------------------------------------------------------------------
(* Ids, names and messages between two portals: what crosses the conduit   *)
(* means the same on both sides, and arrives once.                         *)

(* Means, Conveys and so on, of the state after a step and a value that    *)
(* may come from either state.                                             *)
MeansNext(s, rid) ==
  /\ \A r \in Side : status'[r] # "idle"
  /\ rid.key = ConduitKey'
  /\ rid.side = s
  /\ rid.id \in DOMAIN published'[s]
ConveysNext(s, target, payload) ==
  /\ payload.msg \in DOMAIN sent'[s]
  /\ target = sent'[s][payload.msg].target
  /\ IF sent'[s][payload.msg].ref = None
     THEN payload.ref = None
     ELSE /\ payload.ref # None
          /\ MeansNext(s, payload.ref)
          /\ published'[s][payload.ref.id] = sent'[s][payload.msg].ref
OfferedNext(s, n, a) == \E where \in {"portal", "nexus"} : <<n, a, where>> \in offered'[s]
IsAnswerNext(s, q, rid) ==
  /\ asker'[s][q].known => rid # None
  /\ rid # None => /\ MeansNext(Peer(s), rid)
                   /\ OfferedNext(Peer(s), asker'[s][q].wants, published'[Peer(s)][rid.id])
RequestNext(s, m) ==
  /\ m.id < nextRequest'[s]
  /\ m.id \in DOMAIN openRequests'[s] => asker'[s][openRequests'[s][m.id]].wants = m.name
ResponseNext(s, m) ==
  /\ m.id < nextRequest'[Peer(s)]
  /\ m.response # None => MeansNext(s, m.response)
  /\ m.id \in DOMAIN openRequests'[Peer(s)]
       => IsAnswerNext(Peer(s), openRequests'[Peer(s)][m.id], m.response)
FrameNext(s, m) ==
  /\ m.type = "RequestActorByName" => RequestNext(s, m)
  /\ m.type = "ResponseActorByName" => ResponseNext(s, m)
  /\ m.type = "SendMessage" => MeansNext(Peer(s), m.target) /\ ConveysNext(s, m.target, m.payload)
  /\ m.type = "ActorExited" =>
       MeansNext(s, m.target) /\ published'[s][m.target.id] \notin alive'[s]
MailNext(s, m) ==
  /\ m.type = "PublishNamedActor" =>
       /\ <<m.name, m.actor, "portal">> \in offered'[s]
       /\ m.port # None => asker'[s][m.port].wants = "publication"
  /\ m.type = "QueryNamedRemoteActor" => asker'[s][m.port].wants = m.name
  /\ m.type = "WaitForHandshake" => asker'[s][m.port].wants = "handshake"
  /\ m.type = "PublishActor" => m.msg \in DOMAIN sent'[s] /\ sent'[s][m.msg].ref = m.actor
  /\ m.type = "TransmitMessage" => ConveysNext(s, m.target, m.payload)
  /\ m.type = "RegisterProxy" =>
       /\ m.target # None /\ MeansNext(Peer(s), m.target)
       /\ proxy'[s][m.proxy].target = m.target
  /\ m.type = "LocalActorExited" => m.actor \notin alive'[s]

(* An id means what it meant: nothing is unpublished, and an introduction  *)
(* is not taken back.                                                      *)
LEMMA MeansStays ==
  ASSUME LifeGoesOn, RegistryGrows, NEW s \in Side, NEW rid, Means(s, rid)
  PROVE  MeansNext(s, rid) /\ published'[s][rid.id] = published[s][rid.id]
<1>1. "a" \in Side /\ "b" \in Side
  BY DEF Side
<1>2. ConduitKey' = ConduitKey
  BY <1>1 DEF ConduitKey, Means, LifeGoesOn
<1>. QED
  BY <1>2 DEF Means, MeansNext, LifeGoesOn, RegistryGrows

(* What is sent of a message conveys it as before. *)
LEMMA ConveysStays ==
  ASSUME LifeGoesOn, RegistryGrows, NEW s \in Side, NEW target, NEW payload,
         Conveys(s, target, payload)
  PROVE  ConveysNext(s, target, payload)
<1>1. /\ payload.msg \in DOMAIN sent'[s]
      /\ sent'[s][payload.msg] = sent[s][payload.msg]
  BY DEF Conveys, RegistryGrows
<1>. QED
  BY <1>1, MeansStays DEF Conveys, ConveysNext

(* An offer stands. *)
LEMMA OfferedStays ==
  ASSUME RegistryGrows, NEW s \in Side, NEW n, NEW a, Offered(s, n, a)
  PROVE  OfferedNext(s, n, a)
BY DEF RegistryGrows, Offered, OfferedNext

(* An answer to a task stays one. *)
LEMMA AnswerStays ==
  ASSUME Grows, NEW s \in Side, NEW q \in Asker, asker[s][q] # IdleAsker,
         NEW rid, IsAnswer(s, q, rid)
  PROVE  IsAnswerNext(s, q, rid)
<1>1. Peer(s) \in Side /\ LifeGoesOn /\ RegistryGrows
  BY PeerFacts DEF Grows
<1>2. asker'[s][q].wants = asker[s][q].wants /\ asker'[s][q].known = asker[s][q].known
  BY DEF Grows, RequestsGoOn
<1>. QED
  BY <1>1, <1>2, MeansStays, OfferedStays DEF IsAnswer, IsAnswerNext

(* A portal whose port a task waits for knows a task that has asked.       *)
LEMMA OwnersAsked ==
  ASSUME TypeOK, PortsAreOwnedOnce, NEW s \in Side
  PROVE  /\ \A k \in DOMAIN openRequests[s] :
              openRequests[s][k] \in Asker /\ asker[s][openRequests[s][k]] # IdleAsker
         /\ \A i \in DOMAIN waiting[s] :
              waiting[s][i] \in Asker /\ asker[s][waiting[s][i]] # IdleAsker
         /\ \A e \in ImageOf(mailbox[s]) :
              e.type \in PortTypes /\ e.port \in Asker => asker[s][e.port] # IdleAsker
<1>1. ASSUME NEW q \in Asker, MailboxPlaces(mailbox[s], q) # {} \/ PlacesOf(openRequests[s], q) # {}
                              \/ PlacesOf(waiting[s], q) # {}
      PROVE  asker[s][q] # IdleAsker
  BY <1>1 DEF PortsAreOwnedOnce, OwnedOnce, IdleAsker
<1>2. ASSUME NEW k \in DOMAIN openRequests[s]
      PROVE  openRequests[s][k] \in Asker /\ asker[s][openRequests[s][k]] # IdleAsker
  <2>1. openRequests[s][k] \in Asker
    BY MapPerSideUpdate, MapsAreTyped DEF TypeOK
  <2>2. PlacesOf(openRequests[s], openRequests[s][k]) # {}
    BY DEF PlacesOf
  <2>. QED
    BY <1>1, <2>1, <2>2
<1>3. ASSUME NEW i \in DOMAIN waiting[s]
      PROVE  waiting[s][i] \in Asker /\ asker[s][waiting[s][i]] # IdleAsker
  <2>1. waiting[s] \in Seq(Asker)
    BY DEF TypeOK
  <2>2. waiting[s][i] \in Asker
    BY <2>1, EachElement
  <2>3. PlacesOf(waiting[s], waiting[s][i]) # {}
    BY DEF PlacesOf
  <2>. QED
    BY <1>1, <2>2, <2>3
<1>4. ASSUME NEW e \in ImageOf(mailbox[s]), e.type \in PortTypes, e.port \in Asker
      PROVE  asker[s][e.port] # IdleAsker
  <2>1. MailboxPlaces(mailbox[s], e.port) # {}
    BY <1>4 DEF ImageOf, MailboxPlaces
  <2>. QED
    BY <1>1, <1>4, <2>1
<1>. QED
  BY <1>2, <1>3, <1>4

(* A frame under way stays sound: its request id is not used again.        *)
LEMMA FrameStays ==
  ASSUME TypeOK, TypeOK', PortsAreOwnedOnce, Grows, NEW s \in Side,
         NEW m \in PortalActorMessage, FrameIsSound(s, m)
  PROVE  FrameNext(s, m)
<1>1. Peer(s) \in Side /\ LifeGoesOn /\ RegistryGrows /\ RequestsGoOn
  BY PeerFacts DEF Grows
<1>2. nextRequest \in [Side -> Nat]
      /\ \A r \in Side : /\ nextRequest'[r] \in Nat /\ nextRequest[r] \in Nat
                         /\ nextRequest[r] <= nextRequest'[r]
  BY <1>1 DEF RequestsGoOn, TypeOK
<1>3. CASE m.type = "RequestActorByName"
  <2>1. m.id \in Nat /\ m.id < nextRequest[s] /\ RequestIsSound(s, m)
    BY <1>3, MessageShapes DEF FrameIsSound, RequestIsSound
  <2>2. m.id < nextRequest'[s]
    BY <1>2, <2>1
  <2>3. ASSUME m.id \in DOMAIN openRequests'[s]
        PROVE  asker'[s][openRequests'[s][m.id]].wants = m.name
    <3>1. m.id \in DOMAIN openRequests[s] /\ openRequests'[s][m.id] = openRequests[s][m.id]
      BY <1>1, <1>2, <2>1, <2>3 DEF RequestsGoOn
    <3>2. asker'[s][openRequests[s][m.id]].wants = asker[s][openRequests[s][m.id]].wants
      BY <1>1, <3>1, OwnersAsked DEF RequestsGoOn
    <3>. QED
      BY <2>1, <3>1, <3>2 DEF RequestIsSound
  <2>. QED
    BY <1>3, <2>2, <2>3 DEF FrameNext, RequestNext
<1>4. CASE m.type = "ResponseActorByName"
  <2>. DEFINE r == Peer(s)
  <2>1. m.id \in Nat /\ m.id < nextRequest[r] /\ ResponseIsSound(s, m)
    BY <1>4, MessageShapes DEF FrameIsSound, ResponseIsSound
  <2>2. m.id < nextRequest'[r]
    BY <1>1, <1>2, <2>1
  <2>3. m.response # None => MeansNext(s, m.response)
    BY <1>1, <2>1, MeansStays DEF ResponseIsSound
  <2>4. ASSUME m.id \in DOMAIN openRequests'[r]
        PROVE  IsAnswerNext(r, openRequests'[r][m.id], m.response)
    <3>1. m.id \in DOMAIN openRequests[r] /\ openRequests'[r][m.id] = openRequests[r][m.id]
      BY <1>1, <1>2, <2>1, <2>4 DEF RequestsGoOn
    <3>2. openRequests[r][m.id] \in Asker /\ asker[r][openRequests[r][m.id]] # IdleAsker
      BY <1>1, <3>1, OwnersAsked
    <3>3. IsAnswer(r, openRequests[r][m.id], m.response)
      BY <2>1, <3>1 DEF ResponseIsSound
    <3>. QED
      BY <1>1, <3>1, <3>2, <3>3, AnswerStays
  <2>. QED
    BY <1>4, <2>2, <2>3, <2>4 DEF FrameNext, ResponseNext
<1>5. CASE m.type = "SendMessage"
  BY <1>1, <1>5, MeansStays, ConveysStays DEF FrameIsSound, FrameNext
<1>6. CASE m.type = "ActorExited"
  <2>1. Means(s, m.target) /\ published[s][m.target.id] \notin alive[s]
    BY <1>6 DEF FrameIsSound
  <2>2. MeansNext(s, m.target) /\ published'[s][m.target.id] = published[s][m.target.id]
    BY <1>1, <2>1, MeansStays
  <2>. QED
    BY <1>1, <1>6, <2>1, <2>2 DEF FrameNext, RegistryGrows
<1>. QED
  BY <1>3, <1>4, <1>5, <1>6 DEF FrameNext

(* A proxy that was made stands for the same id from then on. *)
TargetsStand ==
  \A s \in Side, p \in Proxy :
    proxy[s][p].target # None => proxy'[s][p].target = proxy[s][p].target

(* What waits in a mailbox stays sound. *)
LEMMA MailStays ==
  ASSUME TypeOK, PortsAreOwnedOnce, Grows, TargetsStand, NEW s \in Side,
         NEW m \in ImageOf(mailbox[s]), MailIsSound(s, m)
  PROVE  MailNext(s, m)
<1>1. Peer(s) \in Side /\ LifeGoesOn /\ RegistryGrows /\ RequestsGoOn
  BY PeerFacts DEF Grows
<1>2. m \in PortalActorMessage
  BY QueueImages DEF TypeOK
<1>3. ASSUME m.type \in PortTypes, m.port \in Asker
      PROVE  asker'[s][m.port].wants = asker[s][m.port].wants
  BY <1>1, <1>3, OwnersAsked DEF RequestsGoOn
<1>4. CASE m.type \in PortTypes
  <2>1. m.port \in Asker \cup {None} /\ (m.type # "PublishNamedActor" => m.port \in Asker)
    BY <1>2, <1>4, MessageShapes DEF PortTypes
  <2>2. offered[s] \subseteq offered'[s]
    BY <1>1 DEF RegistryGrows
  <2>. QED
    BY <1>3, <1>4, <2>1, <2>2 DEF MailIsSound, MailNext, PortTypes
<1>5. CASE m.type = "PublishActor"
  BY <1>1, <1>5 DEF MailIsSound, MailNext, RegistryGrows
<1>6. CASE m.type = "TransmitMessage"
  BY <1>1, <1>6, ConveysStays DEF MailIsSound, MailNext
<1>7. CASE m.type = "RegisterProxy"
  <2>1. m.proxy \in Proxy
    BY <1>2, <1>7, MessageShapes
  <2>2. m.target # None /\ Means(Peer(s), m.target) /\ proxy[s][m.proxy].target = m.target
    BY <1>7 DEF MailIsSound
  <2>3. proxy'[s][m.proxy].target = m.target
    BY <2>1, <2>2 DEF TargetsStand
  <2>4. MeansNext(Peer(s), m.target)
    BY <1>1, <2>2, MeansStays
  <2>. QED
    BY <1>7, <2>2, <2>3, <2>4 DEF MailNext
<1>8. CASE m.type = "LocalActorExited"
  BY <1>1, <1>8 DEF MailIsSound, MailNext, RegistryGrows
<1>. QED
  BY <1>4, <1>5, <1>6, <1>7, <1>8 DEF MailNext, PortTypes

(* The two kinds of messages, those that cross the conduit and those that  *)
(* do not.                                                                 *)
IsFrame(e) == e.type \in ContentTypes \cup {"Handshake"}

(* What a portal is cast by its own tasks is no frame, and says nothing as *)
(* one; and the other way round.                                           *)
LEMMA Kinds ==
  ASSUME NEW s \in Side, NEW e
  PROVE  /\ IsFrame(e) => MailIsSound(s, e) /\ MailNext(s, e)
         /\ ~IsFrame(e) => FrameIsSound(s, e) /\ FrameNext(s, e)
<1>1. IsFrame(e) => MailIsSound(s, e) /\ MailNext(s, e)
  BY DEF IsFrame, ContentTypes, MailIsSound, MailNext
<1>2. ~IsFrame(e) => FrameIsSound(s, e) /\ FrameNext(s, e)
  BY DEF IsFrame, ContentTypes, FrameIsSound, FrameNext
<1>. QED
  BY <1>1, <1>2

(* TrafficIsSound, with the queues seen as wholes. *)
LEMMA TrafficEach ==
  /\ TrafficIsSound <=>
       \A s \in Side :
         /\ \A f \in ImageOf(wire[s]) : FrameIsSound(s, f)
         /\ \A e \in ImageOf(mailbox[s]) : FrameIsSound(Peer(s), e) /\ MailIsSound(s, e)
  /\ TrafficIsSound' <=>
       \A s \in Side :
         /\ \A f \in ImageOf(wire'[s]) : FrameNext(s, f)
         /\ \A e \in ImageOf(mailbox'[s]) : FrameNext(Peer(s), e) /\ MailNext(s, e)
<1>1. TrafficIsSound <=>
        \A s \in Side :
          /\ \A f \in ImageOf(wire[s]) : FrameIsSound(s, f)
          /\ \A e \in ImageOf(mailbox[s]) : FrameIsSound(Peer(s), e) /\ MailIsSound(s, e)
  BY DEF TrafficIsSound, ImageOf
<1>2. TrafficIsSound' <=>
        \A s \in Side :
          /\ \A i \in DOMAIN wire'[s] : FrameNext(s, wire'[s][i])
          /\ \A i \in DOMAIN mailbox'[s] :
               FrameNext(Peer(s), mailbox'[s][i]) /\ MailNext(s, mailbox'[s][i])
  BY DEF TrafficIsSound, FrameIsSound, FrameNext, RequestIsSound, RequestNext,
         ResponseIsSound, ResponseNext, IsAnswer, IsAnswerNext, MailIsSound, MailNext,
         Conveys, ConveysNext, Means, MeansNext, Offered, OfferedNext
<1>3. (\A s \in Side :
          /\ \A i \in DOMAIN wire'[s] : FrameNext(s, wire'[s][i])
          /\ \A i \in DOMAIN mailbox'[s] :
               FrameNext(Peer(s), mailbox'[s][i]) /\ MailNext(s, mailbox'[s][i]))
      <=> \A s \in Side :
            /\ \A f \in ImageOf(wire'[s]) : FrameNext(s, f)
            /\ \A e \in ImageOf(mailbox'[s]) : FrameNext(Peer(s), e) /\ MailNext(s, e)
  BY DEF ImageOf
<1>. QED
  BY <1>1, <1>2, <1>3

(* Traffic stays sound if what a step adds to it is.                       *)
LEMMA TrafficKept ==
  ASSUME TypeOK, TypeOK', PortsAreOwnedOnce, TrafficIsSound, Grows, TargetsStand,
         \A r \in Side : \A f \in ImageOf(wire'[r]) : f \in ImageOf(wire[r]) \/ FrameNext(r, f),
         \A r \in Side : \A e \in ImageOf(mailbox'[r]) :
           \/ e \in ImageOf(mailbox[r])
           \/ e \in ImageOf(wire[Peer(r)])
           \/ ~IsFrame(e) /\ MailNext(r, e)
  PROVE  TrafficIsSound'
<1>1. ASSUME NEW r \in Side
      PROVE  /\ ImageOf(wire[r]) \subseteq PortalActorMessage
             /\ ImageOf(mailbox[r]) \subseteq PortalActorMessage
             /\ \A f \in ImageOf(wire[r]) : IsFrame(f)
  <2>1. wire[r] \in Seq(ConduitMessage) /\ mailbox[r] \in Seq(PortalActorMessage)
    BY DEF TypeOK
  <2>2. ImageOf(wire[r]) \subseteq ConduitMessage /\ ImageOf(mailbox[r]) \subseteq PortalActorMessage
    BY <2>1, QueueImages
  <2>3. \A f \in ConduitMessage : IsFrame(f) /\ f \in PortalActorMessage
    BY DEF ConduitMessage, Handshakes, Contents, IsFrame, ContentTypes, PortalActorMessage
  <2>. QED
    BY <2>2, <2>3
<1>2. ASSUME NEW r \in Side, NEW f \in ImageOf(wire'[r])
      PROVE  FrameNext(r, f)
  BY <1>1, <1>2, FrameStays, TrafficEach
<1>3. ASSUME NEW r \in Side, NEW e \in ImageOf(mailbox'[r])
      PROVE  FrameNext(Peer(r), e) /\ MailNext(r, e)
  <2>0. Peer(r) \in Side
    BY PeerFacts
  <2>1. CASE e \in ImageOf(mailbox[r])
    <3>1. FrameIsSound(Peer(r), e) /\ MailIsSound(r, e) /\ e \in PortalActorMessage
      BY <1>1, <2>1, TrafficEach
    <3>. QED
      BY <2>0, <2>1, <3>1, FrameStays, MailStays
  <2>2. CASE e \in ImageOf(wire[Peer(r)])
    <3>1. FrameIsSound(Peer(r), e) /\ IsFrame(e) /\ e \in PortalActorMessage
      BY <1>1, <2>0, <2>2, TrafficEach
    <3>. QED
      BY <2>0, <3>1, FrameStays, Kinds
  <2>3. CASE ~IsFrame(e) /\ MailNext(r, e)
    BY <2>0, <2>3, Kinds
  <2>. QED
    BY <2>1, <2>2, <2>3
<1>. QED
  BY <1>2, <1>3, TrafficEach

(* What a step of side s may add to the mailboxes and the wires. *)
BoxSound(s) ==
  \/ UNCHANGED mailbox
  \/ mailbox' = [mailbox EXCEPT ![s] = <<>>]
  \/ mailbox[s] # <<>> /\ Done(s)
  \/ \E e : /\ e \in ImageOf(wire[Peer(s)]) \/ (~IsFrame(e) /\ MailNext(s, e))
            /\ Cast(s, e) \/ (mailbox[s] # <<>> /\ DoneThenCast(s, e))
WireSound(s) ==
  \/ UNCHANGED wire
  \/ \E f : FrameNext(s, f) /\ Sends(s, f)
  \/ wire[Peer(s)] # <<>> /\ wire' = [wire EXCEPT ![Peer(s)] = Tail(@)]
  \/ wire' = [wire EXCEPT ![Peer(s)] = <<>>]

(* What is in mailboxes and on wires stays sound when what a step puts     *)
(* there is.                                                               *)
LEMMA TrafficStep ==
  ASSUME TypeOK, TypeOK', PortsAreOwnedOnce, TrafficIsSound, Grows, TargetsStand,
         NEW s \in Side, BoxSound(s), WireSound(s)
  PROVE  TrafficIsSound'
<1>1. ASSUME NEW r \in Side
      PROVE  wire[r] \in Seq(ConduitMessage)
  BY DEF TypeOK
<1>2. ASSUME NEW r \in Side, NEW f \in ImageOf(wire'[r])
      PROVE  f \in ImageOf(wire[r]) \/ FrameNext(r, f)
  <2>1. CASE UNCHANGED wire
    BY <1>2, <2>1
  <2>2. ASSUME NEW g, FrameNext(s, g), Sends(s, g)
        PROVE  f \in ImageOf(wire[r]) \/ FrameNext(r, f)
    <3>1. wire'[r] = wire[r] \/ (r = s /\ wire'[r] = Append(wire[r], g))
      BY <2>2 DEF Sends, TypeOK
    <3>2. ImageOf(Append(wire[r], g)) = ImageOf(wire[r]) \cup {g}
      BY <1>1, QueueImages
    <3>. QED
      BY <1>2, <2>2, <3>1, <3>2
  <2>3. CASE wire[Peer(s)] # <<>> /\ wire' = [wire EXCEPT ![Peer(s)] = Tail(@)]
    <3>1. wire'[r] = wire[r] \/ (wire[r] # <<>> /\ wire'[r] = Tail(wire[r]))
      BY <2>3, PeerFacts DEF TypeOK
    <3>. QED
      BY <1>1, <1>2, <3>1, QueueImages
  <2>4. CASE wire' = [wire EXCEPT ![Peer(s)] = <<>>]
    <3>1. wire'[r] = wire[r] \/ wire'[r] = <<>>
      BY <2>4, PeerFacts DEF TypeOK
    <3>. QED
      BY <1>1, <1>2, <3>1, QueueImages
  <2>. QED
    BY <2>1, <2>2, <2>3, <2>4 DEF WireSound
<1>3. ASSUME NEW r \in Side, NEW e \in ImageOf(mailbox'[r])
      PROVE  \/ e \in ImageOf(mailbox[r])
             \/ e \in ImageOf(wire[Peer(r)])
             \/ ~IsFrame(e) /\ MailNext(r, e)
  <2>1. CASE UNCHANGED mailbox
    BY <1>3, <2>1
  <2>2. CASE mailbox' = [mailbox EXCEPT ![s] = <<>>]
    <3>1. mailbox'[r] = mailbox[r] \/ mailbox'[r] = <<>>
      BY <2>2 DEF TypeOK
    <3>. QED
      BY <1>1, <1>3, <3>1, QueueImages
  <2>3. CASE mailbox[s] # <<>> /\ Done(s)
    BY <1>3, <2>3, MailImages
  <2>4. ASSUME NEW g, Cast(s, g) \/ (mailbox[s] # <<>> /\ DoneThenCast(s, g))
        PROVE  e \in ImageOf(mailbox[r]) \/ (r = s /\ e = g)
    <3>1. r # s => mailbox'[r] = mailbox[r]
      BY <2>4, MailImages
    <3>2. ImageOf(mailbox'[s]) \subseteq ImageOf(mailbox[s]) \cup {g}
      BY <2>4, MailImages
    <3>. QED
      BY <1>3, <3>1, <3>2
  <2>. QED
    BY <2>1, <2>2, <2>3, <2>4 DEF BoxSound
<1>. QED
  BY <1>2, <1>3, TrafficKept

(* An open portal and its peer have combined the same two contributions:   *)
(* the ids it makes mean something on both sides.                          *)
LEMMA OpenKey ==
  ASSUME TypeOK, HandshakeInv, NEW s \in Side, status[s] = "open"
  PROVE  (\A r \in Side : status[r] # "idle") /\ channel[s] = ConduitKey
<1>1. status[Peer(s)] # "idle"
  BY DEF HandshakeInv, OneIntroductionFirst, IntroductionHandled
<1>2. \A r \in Side : r = s \/ r = Peer(s)
  BY DEF Side, Peer
<1>3. channel[s] = XorArrays(contribution[s], contribution[Peer(s)])
  BY DEF HandshakeInv, ContributionsAgree
<1>4. channel[s] = ConduitKey
  BY <1>3 DEF ConduitKey, XorArrays, Side, Peer
<1>. QED
  BY <1>1, <1>2, <1>4

(* The id a portal gives an actor it publishes stands for that actor. *)
LEMMA OwnIdMeans ==
  ASSUME TypeOK, HandshakeInv, LifeGoesOn, NEW s \in Side, status[s] = "open",
         NEW id, id \in DOMAIN published'[s]
  PROVE  MeansNext(s, RemoteId(s, id)) /\ RemoteId(s, id).id = id
<1>1. (\A r \in Side : status[r] # "idle") /\ channel[s] = ConduitKey
  BY OpenKey
<1>2. (\A r \in Side : status'[r] # "idle") /\ ConduitKey' = ConduitKey
  BY <1>1 DEF LifeGoesOn, ConduitKey, Side
<1>. QED
  BY <1>1, <1>2 DEF MeansNext, RemoteId

(* What the handler at hand reads in the message it takes. *)
LEMMA HeadIsSound ==
  ASSUME TypeOK, TrafficIsSound, NEW s \in Side, mailbox[s] # <<>>
  PROVE  /\ Head(mailbox[s]) \in ImageOf(mailbox[s])
         /\ Head(mailbox[s]) \in PortalActorMessage
         /\ FrameIsSound(Peer(s), Head(mailbox[s]))
         /\ MailIsSound(s, Head(mailbox[s]))
<1>1. Head(mailbox[s]) \in ImageOf(mailbox[s]) /\ Head(mailbox[s]) \in PortalActorMessage
  BY MailImages, MailboxSteps DEF TypeOK
<1>. QED
  BY <1>1, TrafficEach
-----------------------------------------------------------------------------
(* The answer to a request for a name is the id of an actor offered under  *)
(* it, and there is one if the name was known when the question was asked. *)
LEMMA RequestAnswered ==
  ASSUME TypeOK, TypeOK', HandshakeInv, PortsAreOwnedOnce, NamesAreSound, TrafficIsSound,
         AskersAreSound, Grows, NEW s \in Side, HandleRequestActorByName(s)
  PROVE  WireSound(s)
<1>. DEFINE r == Peer(s)
            m == Head(mailbox[s])
            Response(rid) == [type |-> "ResponseActorByName", id |-> m.id, response |-> rid]
<1>0. r \in Side /\ Peer(r) = s /\ LifeGoesOn /\ RegistryGrows /\ RequestsGoOn
  BY PeerFacts DEF Grows
<1>1. /\ mailbox[s] # <<>> /\ m.type = "RequestActorByName" /\ status[s] = "open"
      /\ UNCHANGED <<asker, openRequests, nextRequest, offered, nexusNamed, named>>
  BY DEF HandleRequestActorByName, TakesWhenOpen, Takes
<1>2. RequestIsSound(r, m) /\ m \in PortalActorMessage
  BY <1>1, HeadIsSound DEF FrameIsSound
<1>3. m.name \in Name
  BY <1>1, <1>2, MessageShapes
<1>4. ASSUME NEW rid, Sends(s, Response(rid)),
             rid # None => /\ MeansNext(s, rid)
                           /\ Offered(s, m.name, published'[s][rid.id]),
             rid = None => m.name \notin DOMAIN named[s] \cup DOMAIN nexusNamed[s]
      PROVE  WireSound(s)
  <2>1. Response(rid).id = m.id /\ Response(rid).response = rid
        /\ Response(rid).type = "ResponseActorByName"
    OBVIOUS
  <2>2. m.id < nextRequest'[r]
    BY <1>1, <1>2 DEF RequestIsSound
  <2>3. ASSUME m.id \in DOMAIN openRequests'[r]
        PROVE  IsAnswerNext(r, openRequests'[r][m.id], rid)
    <3>1. PICK q \in Asker : q = openRequests'[r][m.id] /\ asker'[r][q] = asker[r][q]
      BY <1>0, <1>1, <2>3, OwnersAsked
    <3>2. asker[r][q].wants = m.name
      BY <1>1, <1>2, <2>3, <3>1 DEF RequestIsSound
    <3>3. asker[r][q].known => m.name \in DOMAIN named[s] \cup DOMAIN nexusNamed[s]
      BY <1>0, <3>2 DEF AskersAreSound
    <3>4. rid # None => OfferedNext(s, m.name, published'[s][rid.id])
      BY <1>0, <1>4, OfferedStays
    <3>5. rid # None => MeansNext(Peer(r), rid) /\ OfferedNext(Peer(r), m.name, published'[Peer(r)][rid.id])
      BY <1>0, <1>4, <3>4
    <3>. QED
      BY <1>4, <3>1, <3>2, <3>3, <3>5 DEF IsAnswerNext
  <2>4. ResponseNext(s, Response(rid))
    BY <1>4, <2>1, <2>2, <2>3 DEF ResponseNext
  <2>5. FrameNext(s, Response(rid))
    BY <2>1, <2>4 DEF FrameNext
  <2>. QED
    BY <1>4, <2>5 DEF WireSound
<1>5. CASE m.name \in DOMAIN named[s] /\ Sends(s, Response(RemoteId(s, named[s][m.name])))
  <2>. DEFINE id == named[s][m.name]
  <2>1. id \in DOMAIN published[s] /\ Offered(s, m.name, published[s][id])
    BY <1>5 DEF NamesAreSound
  <2>2. id \in DOMAIN published'[s] /\ published'[s][id] = published[s][id]
    BY <1>0, <2>1 DEF RegistryGrows
  <2>3. MeansNext(s, RemoteId(s, id)) /\ RemoteId(s, id).id = id
    BY <1>0, <1>1, <2>2, OwnIdMeans
  <2>4. RemoteId(s, id) # None
    <3>1. id \in OpaqueActorId
      BY <1>5, MapPerSideUpdate, MapsAreTyped DEF TypeOK
    <3>. QED
      BY <3>1, RemoteIdTyped, NoneAssumption
  <2>. QED
    BY <1>4, <1>5, <2>1, <2>2, <2>3, <2>4, Zenon
<1>6. ASSUME NEW id \in OpaqueActorId, m.name \in DOMAIN nexusNamed[s],
             PublishActor(s, nexusNamed[s][m.name], id), Sends(s, Response(RemoteId(s, id)))
      PROVE  WireSound(s)
  <2>1. id \in DOMAIN published'[s] /\ published'[s][id] = nexusNamed[s][m.name]
    BY <1>6, PublishActorGrows
  <2>2. Offered(s, m.name, published'[s][id])
    BY <1>6, <2>1 DEF NamesAreSound
  <2>3. MeansNext(s, RemoteId(s, id)) /\ RemoteId(s, id).id = id
    BY <1>0, <1>1, <2>1, OwnIdMeans
  <2>4. RemoteId(s, id) # None
    BY RemoteIdTyped, NoneAssumption
  <2>. QED
    BY <1>4, <1>6, <2>2, <2>3, <2>4
<1>7. CASE m.name \notin DOMAIN named[s] \cup DOMAIN nexusNamed[s] /\ Sends(s, Response(None))
  BY <1>4, <1>7
<1>. QED
  BY <1>5, <1>6, <1>7 DEF HandleRequestActorByName, NexusKnows

(* A request for a name is registered under an id of its own before it is  *)
(* sent.                                                                   *)
LEMMA RequestSent ==
  ASSUME TypeOK, TypeOK', TrafficIsSound, NEW s \in Side, HandleQueryNamedRemoteActor(s)
  PROVE  WireSound(s)
<1>. DEFINE m == Head(mailbox[s])
            k == nextRequest[s]
            f == [type |-> "RequestActorByName", id |-> k, name |-> m.name]
<1>1. CASE UNCHANGED wire
  BY <1>1 DEF WireSound
<1>2. CASE /\ nextRequest' = [nextRequest EXCEPT ![s] = @ + 1]
           /\ openRequests' = [openRequests EXCEPT ![s] = Insert(@, k, m.port)]
           /\ Sends(s, f)
           /\ UNCHANGED asker
  <2>1. mailbox[s] # <<>> /\ m.type = "QueryNamedRemoteActor"
    BY DEF HandleQueryNamedRemoteActor, Takes
  <2>2. asker[s][m.port].wants = m.name
    BY <2>1, HeadIsSound DEF MailIsSound
  <2>3. k \in Nat /\ nextRequest'[s] = k + 1
    BY <1>2 DEF TypeOK
  <2>4. openRequests'[s] = Insert(openRequests[s], k, m.port)
    BY <1>2 DEF TypeOK, MapPerSide
  <2>5. openRequests'[s][k] = m.port
    BY <2>4 DEF Insert
  <2>6. f.type = "RequestActorByName" /\ f.id = k /\ f.name = m.name
    OBVIOUS
  <2>7. RequestNext(s, f)
    BY <1>2, <2>2, <2>3, <2>5, <2>6 DEF RequestNext
  <2>8. FrameNext(s, f)
    BY <2>6, <2>7 DEF FrameNext
  <2>. QED
    BY <1>2, <2>8 DEF WireSound
<1>. QED
  BY <1>1, <1>2 DEF HandleQueryNamedRemoteActor, TakesRequestId

(* What the serialization task has encoded goes to the actor it was meant  *)
(* for.                                                                    *)
LEMMA MessageTransmitted ==
  ASSUME TypeOK, TypeOK', TrafficIsSound, ClosuresAreSound, Grows,
         NEW s \in Side, HandleTransmitMessage(s)
  PROVE  WireSound(s)
<1>. DEFINE m == Head(mailbox[s])
            f == [type |-> "SendMessage", target |-> m.target, payload |-> m.payload]
<1>1. mailbox[s] # <<>> /\ m.type = "TransmitMessage" /\ Sends(s, f)
  BY DEF HandleTransmitMessage, TakesWhenOpen, Takes
<1>2. Conveys(s, m.target, m.payload)
  BY <1>1, HeadIsSound DEF MailIsSound
<1>3. Means(Peer(s), m.target)
  BY <1>2 DEF Conveys, ClosuresAreSound
<1>4. MeansNext(Peer(s), m.target) /\ ConveysNext(s, m.target, m.payload)
  BY <1>2, <1>3, PeerFacts, MeansStays, ConveysStays DEF Grows
<1>5. FrameNext(s, f)
  BY <1>4 DEF FrameNext
<1>. QED
  BY <1>1, <1>5 DEF WireSound

(* The peer hears of the end of an actor that did end. *)
LEMMA ExitReported ==
  ASSUME TypeOK, TypeOK', HandshakeInv, TrafficIsSound, Grows,
         NEW s \in Side, HandleLocalActorExited(s)
  PROVE  WireSound(s)
<1>. DEFINE m == Head(mailbox[s])
            Exited(id) == [type |-> "ActorExited", target |-> RemoteId(s, id)]
<1>1. mailbox[s] # <<>> /\ m.type = "LocalActorExited" /\ UNCHANGED <<published, alive>>
  BY DEF HandleLocalActorExited, Takes
<1>2. m.actor \notin alive[s]
  BY <1>1, HeadIsSound DEF MailIsSound
<1>3. CASE UNCHANGED wire
  BY <1>3 DEF WireSound
<1>4. ASSUME NEW id \in IdsOf(s, m.actor), status[s] = "open", Sends(s, Exited(id))
      PROVE  WireSound(s)
  <2>1. id \in DOMAIN published'[s] /\ published'[s][id] = m.actor
    BY <1>1, <1>4 DEF IdsOf
  <2>2. MeansNext(s, RemoteId(s, id)) /\ RemoteId(s, id).id = id
    BY <1>4, <2>1, OwnIdMeans DEF Grows
  <2>3. Exited(id).type = "ActorExited" /\ Exited(id).target = RemoteId(s, id)
    OBVIOUS
  <2>4. published'[s][RemoteId(s, id).id] \notin alive'[s]
    BY <1>1, <1>2, <2>1, <2>2
  <2>5. FrameNext(s, Exited(id))
    BY <2>2, <2>3, <2>4 DEF FrameNext
  <2>. QED
    BY <1>4, <2>5 DEF WireSound
<1>. QED
  BY <1>3, <1>4 DEF HandleLocalActorExited

(* The introduction means nothing yet. *)
LEMMA IntroductionSent ==
  ASSUME NEW s \in Side, Connect(s)
  PROVE  WireSound(s) /\ BoxSound(s)
<1>1. PICK c : Sends(s, [type |-> "Handshake", contribution |-> c])
  BY DEF Connect, SendsIntroduction, Introduction
<1>2. FrameNext(s, [type |-> "Handshake", contribution |-> c])
  BY DEF FrameNext
<1>3. UNCHANGED mailbox
  BY DEF Connect
<1>. QED
  BY <1>1, <1>2, <1>3 DEF WireSound, BoxSound

(* Every handler adds sound frames to its wire, and to its mailbox at most *)
(* the proxy it made.                                                      *)
LEMMA HandlerTraffic ==
  ASSUME TypeOK, TypeOK', HandshakeInv, PortsAreOwnedOnce, NamesAreSound, TrafficIsSound,
         AskersAreSound, ClosuresAreSound, Grows, NEW s \in Side, Handle(s)
  PROVE  WireSound(s) /\ BoxSound(s)
<1>1. CASE HandleSendMessage(s)
  <2>. DEFINE m == Head(mailbox[s])
              ref == m.payload.ref
              e == [type |-> "RegisterProxy", target |-> ref, proxy |-> m.payload.msg]
  <2>1. mailbox[s] # <<>> /\ m.type = "SendMessage" /\ UNCHANGED wire
    BY <1>1, Zenon DEF HandleSendMessage, TakesWhenOpen, Takes
  <2>2. WireSound(s)
    BY <2>1 DEF WireSound
  <2>3. CASE Done(s)
    BY <2>1, <2>2, <2>3 DEF BoxSound
  <2>4. CASE /\ ref # None /\ DoneThenCast(s, e)
             /\ proxy' = [proxy EXCEPT ![s][m.payload.msg] = [state |-> "running", target |-> ref]]
    <3>1. FrameIsSound(Peer(s), m) /\ m \in PortalActorMessage
      BY <2>1, HeadIsSound
    <3>2. Conveys(Peer(s), m.target, m.payload) /\ m.payload \in Payload
      BY <2>1, <3>1, MessageShapes DEF FrameIsSound
    <3>3. Means(Peer(s), ref)
      BY <2>4, <3>2 DEF Conveys
    <3>4. MeansNext(Peer(s), ref)
      BY <3>3, PeerFacts, MeansStays DEF Grows
    <3>5. m.payload.msg \in Proxy
      BY <3>2 DEF Payload, Proxy
    <3>6. proxy'[s][m.payload.msg].target = ref
      BY <2>4, <3>5 DEF TypeOK
    <3>7. e.type = "RegisterProxy" /\ e.target = ref /\ e.proxy = m.payload.msg
      OBVIOUS
    <3>8. MailNext(s, e) /\ ~IsFrame(e)
      BY <2>4, <3>4, <3>6, <3>7 DEF MailNext, IsFrame, ContentTypes
    <3>. QED
      BY <2>1, <2>2, <2>4, <3>8 DEF BoxSound
  <2>. QED
    BY <1>1, <2>3, <2>4, Zenon DEF HandleSendMessage
<1>2. CASE HandleClose(s) \/ PortalFails(s)
  BY <1>2 DEF HandleClose, PortalFails, GoesDown, WireSound, BoxSound
<1>3. CASE \/ HandleRequestActorByName(s) \/ HandleQueryNamedRemoteActor(s)
           \/ HandleTransmitMessage(s) \/ HandleLocalActorExited(s)
  <2>1. mailbox[s] # <<>> /\ Done(s)
    BY <1>3 DEF HandleRequestActorByName, HandleQueryNamedRemoteActor, HandleTransmitMessage,
                HandleLocalActorExited, TakesWhenOpen, Takes
  <2>. QED
    BY <1>3, <2>1, RequestAnswered, RequestSent, MessageTransmitted, ExitReported DEF BoxSound
<1>4. CASE \/ HandleHandshake(s) \/ HandleResponseActorByName(s) \/ HandleActorExited(s)
           \/ HandleWaitForHandshake(s) \/ HandlePublishNamedActor(s) \/ HandlePublishActor(s)
           \/ HandleImmaterializeMessage(s) \/ HandleRegisterProxy(s)
  <2>1. mailbox[s] # <<>> /\ Done(s) /\ UNCHANGED wire
    BY <1>4, Zenon DEF HandleHandshake, HandleResponseActorByName, HandleActorExited,
                HandleWaitForHandshake, HandlePublishNamedActor, HandlePublishActor,
                HandleImmaterializeMessage, HandleRegisterProxy, TakesWhenOpen, Takes
  <2>. QED
    BY <2>1 DEF WireSound, BoxSound
<1>. QED
  BY <1>1, <1>2, <1>3, <1>4 DEF Handle

(* A message of the side itself, cast to its portal. *)
LEMMA CastIsSound ==
  ASSUME NEW s \in Side, NEW e, ~IsFrame(e), MailNext(s, e), UNCHANGED wire,
         Cast(s, e) \/ UNCHANGED mailbox
  PROVE  WireSound(s) /\ BoxSound(s)
BY DEF WireSound, BoxSound

(* The tasks around a portal tell it what is so. *)
LEMMA TaskTraffic ==
  ASSUME TypeOK, TypeOK', SendsAreOwned, TrafficIsSound, ClosuresAreSound, Grows,
         NEW s \in Side,
         \/ ReceiveLoop(s)
         \/ \E a \in Actor : WatcherReports(s, a)
         \/ \E m \in Msg : SerializationTask(s, m)
  PROVE  WireSound(s) /\ BoxSound(s)
<1>1. CASE ReceiveLoopReads(s)
  <2>1. wire[Peer(s)] \in Seq(ConduitMessage) /\ wire[Peer(s)] # <<>>
    BY <1>1, PeerFacts DEF ReceiveLoopReads, TypeOK
  <2>2. Head(wire[Peer(s)]) \in ImageOf(wire[Peer(s)])
    BY <2>1, QueueImages
  <2>3. WireSound(s)
    BY <1>1, <2>1 DEF ReceiveLoopReads, WireSound
  <2>4. UNCHANGED mailbox \/ Cast(s, Head(wire[Peer(s)]))
    BY <1>1 DEF ReceiveLoopReads
  <2>. QED
    BY <2>2, <2>3, <2>4 DEF BoxSound
<1>2. CASE ReceiveLoopEnds(s)
  <2>. DEFINE e == [type |-> "Close"]
  <2>1. ~IsFrame(e) /\ MailNext(s, e)
    BY DEF IsFrame, ContentTypes, MailNext
  <2>2. WireSound(s)
    BY <1>2 DEF ReceiveLoopEnds, WireSound
  <2>3. UNCHANGED mailbox \/ Cast(s, e)
    BY <1>2 DEF ReceiveLoopEnds, CastsClose
  <2>. QED
    BY <2>1, <2>2, <2>3 DEF BoxSound
<1>3. ASSUME NEW a \in Actor, WatcherReports(s, a)
      PROVE  WireSound(s) /\ BoxSound(s)
  <2>. DEFINE e == [type |-> "LocalActorExited", actor |-> a]
  <2>1. a \notin alive'[s] /\ UNCHANGED wire /\ (Cast(s, e) \/ UNCHANGED mailbox)
    BY <1>3 DEF WatcherReports, SeenToEnd
  <2>2. e.type = "LocalActorExited" /\ e.actor = a
    OBVIOUS
  <2>3. ~IsFrame(e) /\ MailNext(s, e)
    BY <2>1, <2>2 DEF IsFrame, ContentTypes, MailNext
  <2>. QED
    BY <2>1, <2>3, CastIsSound
<1>4. ASSUME NEW m \in Msg, TaskAsksToPublish(s, m)
      PROVE  WireSound(s) /\ BoxSound(s)
  <2>. DEFINE e == [type |-> "PublishActor", actor |-> sent[s][m].ref, msg |-> m]
  <2>1. /\ task[s][m].state = "encoding" /\ UNCHANGED <<wire, sent>>
        /\ Cast(s, e) \/ UNCHANGED mailbox
    BY <1>4 DEF TaskAsksToPublish
  <2>2. m \in DOMAIN sent[s]
    BY <2>1 DEF SendsAreOwned, TasksHaveClosures
  <2>3. e.type = "PublishActor" /\ e.actor = sent[s][m].ref /\ e.msg = m
    OBVIOUS
  <2>4. ~IsFrame(e) /\ MailNext(s, e)
    BY <2>1, <2>2, <2>3 DEF IsFrame, ContentTypes, MailNext
  <2>. QED
    BY <2>1, <2>4, CastIsSound
<1>5. ASSUME NEW m \in Msg, TaskTransmits(s, m)
      PROVE  WireSound(s) /\ BoxSound(s)
  <2>. DEFINE p == [msg |-> m, ref |-> task[s][m].id]
              e == [type |-> "TransmitMessage", target |-> sent[s][m].target, payload |-> p]
  <2>1. UNCHANGED wire /\ (Cast(s, e) \/ UNCHANGED mailbox)
    BY <1>5 DEF TaskTransmits
  <2>2. Conveys(s, sent[s][m].target, p)
    <3>1. CASE task[s][m].state = "encoding" /\ sent[s][m].ref = None
      <4>1. m \in DOMAIN sent[s]
        BY <3>1 DEF SendsAreOwned, TasksHaveClosures
      <4>2. task[s][m].id = None
        BY <3>1 DEF ClosuresAreSound
      <4>. QED
        BY <3>1, <4>1, <4>2 DEF Conveys
    <3>2. CASE task[s][m].state = "encoded"
      BY <3>2 DEF ClosuresAreSound
    <3>. QED
      BY <1>5, <3>1, <3>2 DEF TaskTransmits
  <2>3. e.type = "TransmitMessage" /\ e.target = sent[s][m].target /\ e.payload = p
    OBVIOUS
  <2>4. ConveysNext(s, sent[s][m].target, p)
    BY <2>2, ConveysStays DEF Grows
  <2>. HIDE DEF p
  <2>5. ~IsFrame(e) /\ MailNext(s, e)
    BY <2>3, <2>4 DEF IsFrame, ContentTypes, MailNext
  <2>. QED
    BY <2>1, <2>5, CastIsSound
<1>. QED
  BY <1>1, <1>2, <1>3, <1>4, <1>5 DEF ReceiveLoop, SerializationTask

(* So does the application. *)
LEMMA ApplicationTraffic ==
  ASSUME TypeOK, TypeOK', AskersAreSound, Grows, NEW s \in Side, Application(s)
  PROVE  WireSound(s) /\ BoxSound(s)
<1>1. CASE Connect(s)
  BY <1>1, IntroductionSent
<1>2. CASE ConnectFails(s)
  BY <1>2 DEF ConnectFails, WireSound, BoxSound
<1>3. ASSUME NEW n \in Name, NEW a \in Actor, AppOffersOnNexus(s, n, a)
      PROVE  WireSound(s) /\ BoxSound(s)
  BY <1>3 DEF AppOffersOnNexus, WireSound, BoxSound
<1>4. ASSUME NEW n \in Name, NEW a \in Actor, AppOffers(s, n, a)
      PROVE  WireSound(s) /\ BoxSound(s)
  <2>. DEFINE e(q) == [type |-> "PublishNamedActor", name |-> n, actor |-> a, port |-> q]
  <2>1. <<n, a, "portal">> \in offered'[s] /\ UNCHANGED wire
    BY <1>4 DEF AppOffers, TypeOK
  <2>2. \A q : /\ e(q).type = "PublishNamedActor" /\ e(q).name = n
               /\ e(q).actor = a /\ e(q).port = q
    OBVIOUS
  <2>3. ASSUME NEW q, q # None => asker'[s][q].wants = "publication", Cast(s, e(q))
        PROVE  WireSound(s) /\ BoxSound(s)
    <3>1. ~IsFrame(e(q)) /\ MailNext(s, e(q))
      BY <2>1, <2>2, <2>3 DEF IsFrame, ContentTypes, MailNext
    <3>. QED
      BY <2>1, <2>3, <3>1, CastIsSound
  <2>4. CASE Cast(s, e(None))
    BY <2>3, <2>4
  <2>5. ASSUME NEW q \in Asker, MayAsk(s, q), BeginsToWait(s, q, "publication", FALSE), Cast(s, e(q))
        PROVE  WireSound(s) /\ BoxSound(s)
    <3>1. asker'[s][q].wants = "publication"
      BY <2>5 DEF BeginsToWait, TypeOK
    <3>. QED
      BY <2>3, <2>5, <3>1
  <2>. QED
    BY <1>4, <2>4, <2>5 DEF AppOffers
<1>5. ASSUME NEW q \in Asker, AppWaitsForHandshake(s, q)
      PROVE  WireSound(s) /\ BoxSound(s)
  <2>. DEFINE e == [type |-> "WaitForHandshake", port |-> q]
  <2>1. UNCHANGED wire /\ Cast(s, e) /\ asker'[s][q].wants = "handshake"
    BY <1>5 DEF AppWaitsForHandshake, BeginsToWait, TypeOK
  <2>2. ~IsFrame(e) /\ MailNext(s, e)
    BY <2>1 DEF IsFrame, ContentTypes, MailNext
  <2>. QED
    BY <2>1, <2>2, CastIsSound
<1>6. ASSUME NEW q \in Asker, NEW n \in Name, AppQueries(s, q, n)
      PROVE  WireSound(s) /\ BoxSound(s)
  <2>. DEFINE e == [type |-> "QueryNamedRemoteActor", name |-> n, port |-> q]
  <2>1. UNCHANGED wire /\ Cast(s, e) /\ asker'[s][q].wants = n
    BY <1>6, BeginsEffect DEF AppQueries
  <2>2. e.type = "QueryNamedRemoteActor" /\ e.name = n /\ e.port = q
    OBVIOUS
  <2>3. ~IsFrame(e) /\ MailNext(s, e)
    BY <2>1, <2>2 DEF IsFrame, ContentTypes, MailNext
  <2>. QED
    BY <2>1, <2>3, CastIsSound
<1>7. ASSUME NEW q \in Asker, AppInstantiatesProxy(s, q)
      PROVE  WireSound(s) /\ BoxSound(s)
  <2>. DEFINE t == asker[s][q].got
              e == [type |-> "RegisterProxy", target |-> t, proxy |-> q]
  <2>1. /\ UNCHANGED wire /\ Cast(s, e) /\ t # None
        /\ proxy' = [proxy EXCEPT ![s][q] = [state |-> "running", target |-> t]]
        /\ asker[s][q].state = "answered" /\ asker[s][q].wants \in Name
    BY <1>7 DEF AppInstantiatesProxy
  <2>2. IsAnswer(s, q, t)
    BY <2>1 DEF AskersAreSound
  <2>3. MeansNext(Peer(s), t)
    BY <2>1, <2>2, PeerFacts, MeansStays DEF IsAnswer, Grows
  <2>4. q \in Proxy
    BY DEF Proxy
  <2>5. proxy'[s][q].target = t
    BY <2>1, <2>4 DEF TypeOK
  <2>6. e.type = "RegisterProxy" /\ e.target = t /\ e.proxy = q
    OBVIOUS
  <2>7. ~IsFrame(e) /\ MailNext(s, e)
    BY <2>1, <2>3, <2>5, <2>6 DEF IsFrame, ContentTypes, MailNext
  <2>. QED
    BY <2>1, <2>7, CastIsSound
<1>8. ASSUME NEW p \in Proxy, NEW m \in Msg, NEW ref \in Actor \cup {None}, AppSends(s, p, m, ref)
      PROVE  WireSound(s) /\ BoxSound(s)
  <2>. DEFINE e == [type |-> "ImmaterializeMessage", msg |-> m]
  <2>1. UNCHANGED wire /\ Cast(s, e)
    BY <1>8 DEF AppSends
  <2>2. ~IsFrame(e) /\ MailNext(s, e)
    BY DEF IsFrame, ContentTypes, MailNext
  <2>. QED
    BY <2>1, <2>2, CastIsSound
<1>. QED
  BY <1>1, <1>2, <1>3, <1>4, <1>5, <1>6, <1>7, <1>8 DEF Application

(* Whatever a side does, what is under way means what it says. *)
LEMMA NextTraffic ==
  ASSUME TypeOK, TypeOK', SendsAreOwned, HandshakeInv, PortsAreOwnedOnce, NamesAreSound,
         TrafficIsSound, AskersAreSound, ClosuresAreSound, Grows, TargetsStand, [Next]_vars
  PROVE  TrafficIsSound'
<1>1. ASSUME UNCHANGED <<mailbox, wire>>
      PROVE  TrafficIsSound'
  <2>1. "a" \in Side
    BY DEF Side
  <2>. QED
    BY <1>1, <2>1, TrafficStep DEF BoxSound, WireSound
<1>2. ASSUME NEW s \in Side, Handle(s)
      PROVE  TrafficIsSound'
  BY <1>2, HandlerTraffic, TrafficStep
<1>3. ASSUME NEW s \in Side,
             \/ ReceiveLoop(s)
             \/ \E a \in Actor : WatcherReports(s, a)
             \/ \E m \in Msg : SerializationTask(s, m)
             \/ Application(s)
      PROVE  TrafficIsSound'
  BY <1>3, TaskTraffic, ApplicationTraffic, TrafficStep
<1>4. CASE Environment
  <2>1. ASSUME NEW s \in Side, AppStopsPortal(s)
        PROVE  TrafficIsSound'
    <3>1. BoxSound(s) /\ WireSound(s)
      BY <2>1 DEF AppStopsPortal, GoesDown, BoxSound, WireSound
    <3>. QED
      BY <3>1, TrafficStep
  <2>. QED
    BY <1>1, <1>4, <2>1 DEF Environment, AskTimesOut, ActorExits, LinkBreaks
<1>. QED
  BY <1>1, <1>2, <1>3, <1>4 DEF Next, vars
-----------------------------------------------------------------------------
(* What a proxy that a step makes stands for. *)
ProxyNext(s, p) ==
  LET t == proxy'[s][p].target
  IN /\ proxy'[s][p].state # "none" /\ t # None
     /\ MeansNext(Peer(s), t)
     /\ p \in Msg => /\ p \in DOMAIN sent'[Peer(s)]
                     /\ published'[Peer(s)][t.id] = sent'[Peer(s)][p].ref

(* Two ids that mean the same actor on a side are one id: publish_actor    *)
(* does not give an actor a second one.                                    *)
LEMMA OneIdMeans ==
  ASSUME OneIdPerActor, NEW s \in Side, NEW t \in RemoteActorId, NEW u \in RemoteActorId,
         Means(s, t), Means(s, u), published[s][t.id] = published[s][u.id]
  PROVE  t = u
<1>1. t.id = u.id /\ t.key = u.key /\ t.side = u.side
  BY DEF OneIdPerActor, Means
<1>. QED
  BY <1>1 DEF RemoteActorId

(* A handler stops a proxy, or makes one that stands for what it always    *)
(* stood for.                                                              *)
LEMMA ReceivedProxy ==
  ASSUME TypeOK, TrafficIsSound, ProxiesAreSound, OneIdPerActor, Grows,
         NEW s \in Side, HandleSendMessage(s)
  PROVE  /\ \A r \in Side, p \in Proxy : proxy'[r][p] = proxy[r][p] \/ ProxyNext(r, p)
         /\ TargetsStand
<1>. DEFINE m == Head(mailbox[s])
            ref == m.payload.ref
            p == m.payload.msg
<1>1. mailbox[s] # <<>> /\ m.type = "SendMessage"
  BY Zenon DEF HandleSendMessage, TakesWhenOpen, Takes
<1>2. FrameIsSound(Peer(s), m) /\ m \in PortalActorMessage
  BY <1>1, HeadIsSound
<1>3. Conveys(Peer(s), m.target, m.payload) /\ m.payload \in Payload
  BY <1>1, <1>2, MessageShapes DEF FrameIsSound
<1>4. CASE UNCHANGED proxy
  BY <1>4 DEF TargetsStand
<1>5. CASE ref # None /\ proxy' = [proxy EXCEPT ![s][p] = [state |-> "running", target |-> ref]]
  <2>1. /\ Means(Peer(s), ref) /\ p \in DOMAIN sent[Peer(s)]
        /\ published[Peer(s)][ref.id] = sent[Peer(s)][p].ref
    BY <1>3, <1>5 DEF Conveys
  <2>2. /\ MeansNext(Peer(s), ref)
        /\ published'[Peer(s)][ref.id] = published[Peer(s)][ref.id]
        /\ p \in DOMAIN sent'[Peer(s)] /\ sent'[Peer(s)][p] = sent[Peer(s)][p]
    BY <2>1, PeerFacts, MeansStays DEF Grows, RegistryGrows
  <2>3. p \in Msg /\ p \in Proxy /\ ref \in RemoteActorId
    BY <1>3, <1>5 DEF Payload, Proxy
  <2>4. /\ proxy'[s][p].state = "running" /\ proxy'[s][p].target = ref
        /\ \A r \in Side, q \in Proxy : r # s \/ q # p => proxy'[r][q] = proxy[r][q]
    BY <1>5, <2>3 DEF TypeOK
  <2>5. ProxyNext(s, p)
    BY <1>5, <2>1, <2>2, <2>4, Zenon DEF ProxyNext
  <2>6. ASSUME proxy[s][p].target # None
        PROVE  proxy[s][p].target = ref
    <3>1. proxy[s][p].target \in RemoteActorId
      BY <2>3, <2>6 DEF TypeOK, ProxyState
    <3>2. /\ Means(Peer(s), proxy[s][p].target)
          /\ published[Peer(s)][proxy[s][p].target.id] = sent[Peer(s)][p].ref
      BY <2>3, <2>6, Zenon DEF ProxiesAreSound
    <3>. QED
      BY <2>1, <2>3, <3>1, <3>2, PeerFacts, OneIdMeans, Zenon
  <2>. QED
    BY <2>3, <2>4, <2>5, <2>6 DEF TargetsStand
<1>. QED
  BY <1>4, <1>5, Zenon DEF HandleSendMessage

(* A proxy made from an answer stands for what was answered. *)
LEMMA InstantiatedProxy ==
  ASSUME TypeOK, AskersAreSound, ProxiesAreSound, Grows,
         NEW s \in Side, NEW q \in Asker, AppInstantiatesProxy(s, q)
  PROVE  /\ \A r \in Side, p \in Proxy : proxy'[r][p] = proxy[r][p] \/ ProxyNext(r, p)
         /\ TargetsStand
<1>. DEFINE t == asker[s][q].got
<1>1. /\ t # None /\ proxy[s][q].state = "none"
      /\ proxy' = [proxy EXCEPT ![s][q] = [state |-> "running", target |-> t]]
      /\ asker[s][q].state = "answered" /\ asker[s][q].wants \in Name
  BY DEF AppInstantiatesProxy
<1>2. IsAnswer(s, q, t)
  BY <1>1 DEF AskersAreSound
<1>3. MeansNext(Peer(s), t)
  BY <1>1, <1>2, PeerFacts, MeansStays DEF IsAnswer, Grows
<1>4. q \in Proxy /\ q \notin Msg
  BY PortalAssumption DEF Proxy
<1>5. /\ proxy'[s][q].state = "running" /\ proxy'[s][q].target = t
      /\ \A r \in Side, p \in Proxy : r # s \/ p # q => proxy'[r][p] = proxy[r][p]
  BY <1>1, <1>4 DEF TypeOK
<1>6. ProxyNext(s, q)
  BY <1>1, <1>3, <1>4, <1>5 DEF ProxyNext
<1>7. proxy[s][q].target = None
  BY <1>1, <1>4 DEF ProxiesAreSound
<1>. QED
  BY <1>4, <1>5, <1>6, <1>7 DEF TargetsStand

(* Stopping a proxy keeps what it stands for. *)
StopsOnly ==
  \A s \in Side, p \in Proxy :
    \/ proxy'[s][p] = proxy[s][p]
    \/ /\ proxy[s][p].state # "none" /\ proxy'[s][p].state = "stopped"
       /\ proxy'[s][p].target = proxy[s][p].target

(* A proxy that is stopped keeps its target, and no other one changes. *)
LEMMA ProxyStops ==
  ASSUME TypeOK, SendsAreOwned, ProxiesAreSound, NEW s \in Side,
         HandleActorExited(s) \/ \E why : GoesDown(s, why)
  PROVE  StopsOnly
<1>1. proxy \in [Side -> [Proxy -> ProxyState]]
  BY DEF TypeOK
<1>2. CASE HandleActorExited(s)
  <2>. DEFINE m == Head(mailbox[s])
              p == proxies[s][m.target]
  <2>1. CASE UNCHANGED proxy
    BY <2>1 DEF StopsOnly
  <2>2. CASE m.target \in DOMAIN proxies[s] /\ proxy' = [proxy EXCEPT ![s][p].state = "stopped"]
    <3>1. p \in Proxy
      BY <2>2, MapPerSideUpdate, MapsAreTyped DEF TypeOK
    <3>2. proxy[s][p].target = m.target /\ m.target # None
      BY <2>2, Zenon DEF ProxiesAreSound
    <3>3. proxy[s][p].state # "none"
      BY <3>1, <3>2 DEF ProxiesAreSound
    <3>4. proxy'[s][p].state = "stopped" /\ proxy'[s][p].target = proxy[s][p].target
      <4>1. proxy[s][p] \in ProxyState
        BY <1>1, <3>1
      <4>2. proxy'[s][p] = [proxy[s][p] EXCEPT !.state = "stopped"]
        BY <1>1, <2>2, <3>1
      <4>. QED
        BY <4>1, <4>2, Zenon DEF ProxyState
    <3>5. \A r \in Side, q \in Proxy : r # s \/ q # p => proxy'[r][q] = proxy[r][q]
      BY <1>1, <2>2, <3>1
    <3>. QED
      BY <3>1, <3>3, <3>4, <3>5, Zenon DEF StopsOnly
  <2>. QED
    BY <1>2, <2>1, <2>2, Zenon DEF HandleActorExited
<1>3. CASE \E why : GoesDown(s, why)
  <2>1. proxy' = [proxy EXCEPT ![s] = Stopped(@)]
    BY <1>3 DEF GoesDown
  <2>2. ASSUME NEW r \in Side, NEW p \in Proxy
        PROVE  \/ proxy'[r][p] = proxy[r][p]
               \/ /\ proxy[r][p].state # "none" /\ proxy'[r][p].state = "stopped"
                  /\ proxy'[r][p].target = proxy[r][p].target
    <3>1. proxy[r][p] \in ProxyState
      BY <1>1
    <3>2. \/ proxy'[r][p] = proxy[r][p]
          \/ /\ proxy[r][p].state = "running"
             /\ proxy'[r][p] = [proxy[r][p] EXCEPT !.state = "stopped"]
      BY <1>1, <2>1 DEF Stopped
    <3>. QED
      BY <3>1, <3>2 DEF ProxyState
  <2>. QED
    BY <2>2 DEF StopsOnly
<1>. QED
  BY <1>2, <1>3

(* Proxies are sound after a step that makes sound ones, stops some, and   *)
(* registers them for what they stand for.                                 *)
LEMMA ProxiesKept ==
  ASSUME TypeOK, ProxiesAreSound, Grows, TargetsStand,
         StopsOnly \/ \A r \in Side, p \in Proxy : proxy'[r][p] = proxy[r][p] \/ ProxyNext(r, p),
         \A r \in Side : \A t \in DOMAIN proxies'[r] :
           \/ t \in DOMAIN proxies[r] /\ proxies'[r][t] = proxies[r][t]
           \/ t # None /\ proxy'[r][proxies'[r][t]].target = t
  PROVE  ProxiesAreSound'
<1>1. ASSUME NEW r \in Side, NEW p \in Proxy, proxy[r][p].target # None
      PROVE  /\ MeansNext(Peer(r), proxy[r][p].target)
             /\ p \in Msg => /\ p \in DOMAIN sent'[Peer(r)]
                             /\ published'[Peer(r)][proxy[r][p].target.id] = sent'[Peer(r)][p].ref
  <2>1. /\ Means(Peer(r), proxy[r][p].target)
        /\ p \in Msg => /\ p \in DOMAIN sent[Peer(r)]
                        /\ published[Peer(r)][proxy[r][p].target.id] = sent[Peer(r)][p].ref
    BY <1>1 DEF ProxiesAreSound
  <2>2. /\ MeansNext(Peer(r), proxy[r][p].target)
        /\ published'[Peer(r)][proxy[r][p].target.id] = published[Peer(r)][proxy[r][p].target.id]
    BY <2>1, PeerFacts, MeansStays DEF Grows
  <2>3. p \in DOMAIN sent[Peer(r)] => p \in DOMAIN sent'[Peer(r)] /\ sent'[Peer(r)][p] = sent[Peer(r)][p]
    BY PeerFacts DEF Grows, RegistryGrows
  <2>. QED
    BY <2>1, <2>2, <2>3
<1>2. ASSUME NEW r \in Side, NEW p \in Proxy
      PROVE  /\ proxy'[r][p].state = "none" <=> proxy'[r][p].target = None
             /\ proxy'[r][p].target # None => ProxyNext(r, p)
  <2>1. proxy[r][p].state = "none" <=> proxy[r][p].target = None
    BY DEF ProxiesAreSound
  <2>2. CASE ProxyNext(r, p)
    BY <2>2 DEF ProxyNext
  <2>3. CASE proxy'[r][p] = proxy[r][p]
    BY <1>1, <2>1, <2>3 DEF ProxyNext
  <2>4. CASE /\ proxy[r][p].state # "none" /\ proxy'[r][p].state = "stopped"
             /\ proxy'[r][p].target = proxy[r][p].target
    BY <1>1, <2>1, <2>4 DEF ProxyNext
  <2>. QED
    BY <2>2, <2>3, <2>4 DEF StopsOnly
<1>3. ASSUME NEW r \in Side, NEW t \in DOMAIN proxies'[r]
      PROVE  t # None /\ proxy'[r][proxies'[r][t]].target = t
  <2>1. ASSUME t \in DOMAIN proxies[r], proxies'[r][t] = proxies[r][t]
        PROVE  t # None /\ proxy'[r][proxies'[r][t]].target = t
    <3>1. proxies[r][t] \in Proxy
      BY <2>1, MapPerSideUpdate, MapsAreTyped DEF TypeOK
    <3>2. t # None /\ proxy[r][proxies[r][t]].target = t
      BY <2>1 DEF ProxiesAreSound
    <3>. QED
      BY <2>1, <3>1, <3>2 DEF TargetsStand
  <2>. QED
    BY <1>3, <2>1
<1>. QED
  BY <1>2, <1>3 DEF ProxiesAreSound, ProxyNext, Means, MeansNext

(* No step changes what a proxy stands for, or makes one that stands for   *)
(* nothing.                                                                *)
LEMMA NextProxies ==
  ASSUME TypeOK, SendsAreOwned, TrafficIsSound, AskersAreSound, ProxiesAreSound, OneIdPerActor,
         Grows, [Next]_vars
  PROVE  TargetsStand /\ ProxiesAreSound'
<1>0. proxies = [r \in Side |-> proxies[r]]
  BY DEF TypeOK, MapPerSide
<1>1. ASSUME UNCHANGED <<proxy, proxies>>
      PROVE  TargetsStand /\ ProxiesAreSound'
  <2>1. TargetsStand /\ StopsOnly
    BY <1>1 DEF TargetsStand, StopsOnly
  <2>. QED
    BY <1>1, <2>1, ProxiesKept
<1>2. StopsOnly => TargetsStand
  BY DEF StopsOnly, TargetsStand
<1>3. ASSUME NEW s \in Side, NEW why, GoesDown(s, why)
      PROVE  TargetsStand /\ ProxiesAreSound'
  <2>1. StopsOnly
    BY <1>3, ProxyStops
  <2>2. proxies' = [proxies EXCEPT ![s] = NoEntries]
    BY <1>3 DEF GoesDown
  <2>3. \A r \in Side : \A t \in DOMAIN proxies'[r] :
          t \in DOMAIN proxies[r] /\ proxies'[r][t] = proxies[r][t]
    BY <1>0, <2>2 DEF NoEntries
  <2>. QED
    BY <1>2, <2>1, <2>3, ProxiesKept
<1>4. ASSUME NEW s \in Side, HandleSendMessage(s)
      PROVE  TargetsStand /\ ProxiesAreSound'
  <2>1. UNCHANGED proxies
    BY <1>4, Zenon DEF HandleSendMessage
  <2>. QED
    BY <1>4, <2>1, ReceivedProxy, ProxiesKept
<1>5. ASSUME NEW s \in Side, HandleActorExited(s)
      PROVE  TargetsStand /\ ProxiesAreSound'
  <2>1. StopsOnly
    BY <1>5, ProxyStops
  <2>2. \/ UNCHANGED proxies
        \/ proxies' = [proxies EXCEPT ![s] = Remove(@, Head(mailbox[s]).target)]
    BY <1>5, Zenon DEF HandleActorExited
  <2>3. \A r \in Side : \A t \in DOMAIN proxies'[r] :
          t \in DOMAIN proxies[r] /\ proxies'[r][t] = proxies[r][t]
    BY <1>0, <2>2 DEF Remove
  <2>. QED
    BY <1>2, <2>1, <2>3, ProxiesKept
<1>6. ASSUME NEW s \in Side, HandleRegisterProxy(s)
      PROVE  TargetsStand /\ ProxiesAreSound'
  <2>. DEFINE m == Head(mailbox[s])
  <2>1. /\ mailbox[s] # <<>> /\ m.type = "RegisterProxy" /\ UNCHANGED proxy
        /\ proxies' = [proxies EXCEPT ![s] = Insert(@, m.target, m.proxy)]
    BY <1>6 DEF HandleRegisterProxy, TakesWhenOpen, Takes
  <2>2. m.target # None /\ proxy'[s][m.proxy].target = m.target
    BY <2>1, HeadIsSound DEF MailIsSound
  <2>3. ASSUME NEW r \in Side, NEW t \in DOMAIN proxies'[r]
        PROVE  \/ t \in DOMAIN proxies[r] /\ proxies'[r][t] = proxies[r][t]
               \/ t # None /\ proxy'[r][proxies'[r][t]].target = t
    <3>1. proxies'[r] = IF r = s THEN Insert(proxies[s], m.target, m.proxy) ELSE proxies[r]
      BY <1>0, <2>1
    <3>2. \/ t \in DOMAIN proxies[r] /\ proxies'[r][t] = proxies[r][t]
          \/ r = s /\ t = m.target /\ proxies'[r][t] = m.proxy
      BY <2>3, <3>1 DEF Insert
    <3>. QED
      BY <2>2, <3>2
  <2>4. StopsOnly
    BY <2>1 DEF StopsOnly
  <2>. QED
    BY <1>2, <2>3, <2>4, ProxiesKept
<1>7. ASSUME NEW s \in Side, NEW q \in Asker, AppInstantiatesProxy(s, q)
      PROVE  TargetsStand /\ ProxiesAreSound'
  <2>1. UNCHANGED proxies
    BY <1>7 DEF AppInstantiatesProxy
  <2>. QED
    BY <1>7, <2>1, InstantiatedProxy, ProxiesKept
<1>8. ASSUME NEW s \in Side, Handle(s)
      PROVE  TargetsStand /\ ProxiesAreSound'
  <2>1. CASE HandleClose(s) \/ PortalFails(s)
    BY <1>3, <2>1 DEF HandleClose, PortalFails
  <2>2. CASE \/ HandleHandshake(s) \/ HandleRequestActorByName(s) \/ HandleResponseActorByName(s)
             \/ HandleWaitForHandshake(s) \/ HandlePublishNamedActor(s) \/ HandlePublishActor(s)
             \/ HandleQueryNamedRemoteActor(s) \/ HandleImmaterializeMessage(s)
             \/ HandleTransmitMessage(s) \/ HandleLocalActorExited(s)
    BY <1>1, <2>2
    DEF HandleHandshake, HandleRequestActorByName, HandleResponseActorByName,
        HandleWaitForHandshake, HandlePublishNamedActor, HandlePublishActor,
        HandleQueryNamedRemoteActor, HandleImmaterializeMessage, HandleTransmitMessage,
        HandleLocalActorExited
  <2>. QED
    BY <1>4, <1>5, <1>6, <1>8, <2>1, <2>2 DEF Handle
<1>9. ASSUME NEW s \in Side,
             \/ ReceiveLoop(s)
             \/ \E a \in Actor : WatcherReports(s, a)
             \/ \E m \in Msg : SerializationTask(s, m)
      PROVE  TargetsStand /\ ProxiesAreSound'
  BY <1>1, <1>9 DEF ReceiveLoop, ReceiveLoopReads, ReceiveLoopEnds, WatcherReports,
                    SerializationTask, TaskAsksToPublish, TaskTransmits
<1>10. ASSUME NEW s \in Side, Application(s), \A q \in Asker : ~AppInstantiatesProxy(s, q)
       PROVE  TargetsStand /\ ProxiesAreSound'
  BY <1>1, <1>10 DEF Application, Connect, ConnectFails, AppOffersOnNexus, AppOffers,
                     AppWaitsForHandshake, AppQueries, AppSends
<1>11. CASE Environment
  BY <1>1, <1>3, <1>11 DEF Environment, AskTimesOut, ActorExits, AppStopsPortal, LinkBreaks
<1>. QED
  BY <1>1, <1>7, <1>8, <1>9, <1>10, <1>11 DEF Next, vars

(* publish_actor gives an actor one id. *)
LEMMA PublishActorOnce ==
  ASSUME TypeOK, OneIdPerActor, NEW s \in Side, NEW a, NEW id, PublishActor(s, a, id)
  PROVE  OneIdPerActor'
<1>1. CASE UNCHANGED published
  BY <1>1 DEF OneIdPerActor
<1>2. CASE /\ a \notin ImageOf(published[s])
           /\ id \in FreshIds
           /\ published' = [published EXCEPT ![s] = Insert(@, id, a)]
  <2>1. /\ published'[s] = Insert(published[s], id, a)
        /\ \A r \in Side : r # s => published'[r] = published[r]
    BY <1>2 DEF TypeOK, MapPerSide
  <2>2. \A i \in DOMAIN published[s] : published[s][i] # a
    BY <1>2 DEF ImageOf
  <2>3. ASSUME NEW i \in DOMAIN published'[s], NEW j \in DOMAIN published'[s],
               published'[s][i] = published'[s][j]
        PROVE  i = j
    <3>1. DOMAIN published'[s] = DOMAIN published[s] \cup {id}
      BY <2>1 DEF Insert
    <3>2. /\ i = id \/ (i \in DOMAIN published[s] /\ published'[s][i] = published[s][i])
          /\ j = id \/ (j \in DOMAIN published[s] /\ published'[s][j] = published[s][j])
          /\ published'[s][id] = a
      BY <2>1, <3>1 DEF Insert
    <3>. QED
      BY <2>2, <2>3, <3>2 DEF OneIdPerActor
  <2>4. ASSUME NEW r \in Side, r # s, NEW i \in DOMAIN published'[r], NEW j \in DOMAIN published'[r],
               published'[r][i] = published'[r][j]
        PROVE  i = j
    BY <2>1, <2>4 DEF OneIdPerActor
  <2>. QED
    BY <2>3, <2>4 DEF OneIdPerActor
<1>. QED
  BY <1>1, <1>2 DEF PublishActor

(* Only the handlers that publish touch published_actors. *)
LEMMA NextOneId ==
  ASSUME TypeOK, OneIdPerActor, [Next]_vars
  PROVE  OneIdPerActor'
<1>1. CASE UNCHANGED published
  BY <1>1 DEF OneIdPerActor
<1>2. ASSUME NEW s \in Side, Handle(s)
      PROVE  OneIdPerActor'
  <2>1. CASE HandleRequestActorByName(s) \/ HandlePublishActor(s) \/ HandlePublishNamedActor(s)
    BY <1>1, <2>1, PublishActorOnce, Zenon
    DEF HandleRequestActorByName, HandlePublishActor, HandlePublishNamedActor
  <2>2. CASE ~(HandleRequestActorByName(s) \/ HandlePublishActor(s) \/ HandlePublishNamedActor(s))
    BY <1>1, <1>2, <2>2, Zenon
    DEF Handle, HandleHandshake, HandleClose, PortalFails, GoesDown, HandleResponseActorByName,
        HandleSendMessage, HandleActorExited, HandleWaitForHandshake,
        HandleQueryNamedRemoteActor, HandleImmaterializeMessage, HandleTransmitMessage,
        HandleRegisterProxy, HandleLocalActorExited
  <2>. QED
    BY <2>1, <2>2
<1>3. ASSUME NEW s \in Side,
             \/ ReceiveLoop(s)
             \/ \E a \in Actor : WatcherReports(s, a)
             \/ \E m \in Msg : SerializationTask(s, m)
             \/ Application(s)
      PROVE  OneIdPerActor'
  BY <1>1, <1>3 DEF ReceiveLoop, ReceiveLoopReads, ReceiveLoopEnds, WatcherReports,
                    SerializationTask, TaskAsksToPublish, TaskTransmits,
                    Application, Connect, ConnectFails, AppOffersOnNexus, AppOffers,
                    AppWaitsForHandshake, AppInstantiatesProxy, AppQueries, AppSends
<1>4. CASE Environment
  BY <1>1, <1>4 DEF Environment, AskTimesOut, ActorExits, AppStopsPortal, GoesDown, LinkBreaks
<1>. QED
  BY <1>1, <1>2, <1>3, <1>4 DEF Next, vars

(* Names keep standing for actors offered under them. *)
LEMMA NamesKept ==
  ASSUME NamesAreSound, RegistryGrows,
         \A r \in Side : \A n \in DOMAIN named'[r] :
           \/ n \in DOMAIN named[r] /\ named'[r][n] = named[r][n]
           \/ /\ named'[r][n] \in DOMAIN published'[r]
              /\ OfferedNext(r, n, published'[r][named'[r][n]]),
         \A r \in Side : \A n \in DOMAIN nexusNamed'[r] :
           \/ n \in DOMAIN nexusNamed[r] /\ nexusNamed'[r][n] = nexusNamed[r][n]
           \/ OfferedNext(r, n, nexusNamed'[r][n])
  PROVE  NamesAreSound'
<1>1. ASSUME NEW r \in Side, NEW n \in DOMAIN named'[r]
      PROVE  /\ named'[r][n] \in DOMAIN published'[r]
             /\ OfferedNext(r, n, published'[r][named'[r][n]])
  <2>1. ASSUME n \in DOMAIN named[r], named'[r][n] = named[r][n]
        PROVE  /\ named'[r][n] \in DOMAIN published'[r]
               /\ OfferedNext(r, n, published'[r][named'[r][n]])
    <3>1. named[r][n] \in DOMAIN published[r] /\ Offered(r, n, published[r][named[r][n]])
      BY <2>1 DEF NamesAreSound
    <3>2. /\ named[r][n] \in DOMAIN published'[r]
          /\ published'[r][named[r][n]] = published[r][named[r][n]]
      BY <3>1 DEF RegistryGrows
    <3>. QED
      BY <2>1, <3>1, <3>2, OfferedStays
  <2>. QED
    BY <1>1, <2>1
<1>2. ASSUME NEW r \in Side, NEW n \in DOMAIN nexusNamed'[r]
      PROVE  OfferedNext(r, n, nexusNamed'[r][n])
  BY <1>2, OfferedStays DEF NamesAreSound
<1>. QED
  BY <1>1, <1>2 DEF NamesAreSound, Offered, OfferedNext

(* PublishNamedActor and the nexus name what the application offered. *)
LEMMA NextNames ==
  ASSUME TypeOK, NamesAreSound, TrafficIsSound, Grows, [Next]_vars
  PROVE  NamesAreSound'
<1>0. RegistryGrows /\ named = [r \in Side |-> named[r]]
      /\ nexusNamed = [r \in Side |-> nexusNamed[r]]
  BY DEF Grows, TypeOK, MapPerSide
<1>1. CASE UNCHANGED <<named, nexusNamed>>
  BY <1>0, <1>1, NamesKept
<1>2. ASSUME NEW s \in Side, HandlePublishNamedActor(s)
      PROVE  NamesAreSound'
  <2>. DEFINE m == Head(mailbox[s])
  <2>1. /\ mailbox[s] # <<>> /\ m.type = "PublishNamedActor" /\ UNCHANGED <<offered, nexusNamed>>
    BY <1>2 DEF HandlePublishNamedActor, Takes
  <2>2. PICK id : /\ PublishActor(s, m.actor, id)
                  /\ named' = [named EXCEPT ![s] = Insert(@, m.name, id)]
    BY <1>2 DEF HandlePublishNamedActor
  <2>3. id \in DOMAIN published'[s] /\ published'[s][id] = m.actor
    BY <2>2, PublishActorGrows
  <2>4. OfferedNext(s, m.name, m.actor)
    BY <2>1, HeadIsSound DEF MailIsSound, OfferedNext
  <2>5. ASSUME NEW r \in Side, NEW n \in DOMAIN named'[r]
        PROVE  \/ n \in DOMAIN named[r] /\ named'[r][n] = named[r][n]
               \/ /\ named'[r][n] \in DOMAIN published'[r]
                  /\ OfferedNext(r, n, published'[r][named'[r][n]])
    <3>1. named'[r] = IF r = s THEN Insert(named[s], m.name, id) ELSE named[r]
      BY <1>0, <2>2
    <3>2. \/ n \in DOMAIN named[r] /\ named'[r][n] = named[r][n]
          \/ r = s /\ n = m.name /\ named'[r][n] = id
      BY <2>5, <3>1 DEF Insert
    <3>. QED
      BY <2>3, <2>4, <3>2
  <2>. QED
    BY <1>0, <2>1, <2>5, NamesKept
<1>3. ASSUME NEW s \in Side, NEW n \in Name, NEW a \in Actor, AppOffersOnNexus(s, n, a)
      PROVE  NamesAreSound'
  <2>1. /\ offered' = [offered EXCEPT ![s] = @ \cup {<<n, a, "nexus">>}]
        /\ nexusNamed' = [nexusNamed EXCEPT ![s] = Insert(@, n, a)]
        /\ UNCHANGED named
    BY <1>3 DEF AppOffersOnNexus
  <2>2. <<n, a, "nexus">> \in offered'[s]
    BY <2>1 DEF TypeOK
  <2>3. OfferedNext(s, n, a)
    BY <2>2 DEF OfferedNext
  <2>4. ASSUME NEW r \in Side, NEW k \in DOMAIN nexusNamed'[r]
        PROVE  \/ k \in DOMAIN nexusNamed[r] /\ nexusNamed'[r][k] = nexusNamed[r][k]
               \/ OfferedNext(r, k, nexusNamed'[r][k])
    <3>1. nexusNamed'[r] = IF r = s THEN Insert(nexusNamed[s], n, a) ELSE nexusNamed[r]
      BY <1>0, <2>1
    <3>2. \/ k \in DOMAIN nexusNamed[r] /\ nexusNamed'[r][k] = nexusNamed[r][k]
          \/ r = s /\ k = n /\ nexusNamed'[r][k] = a
      BY <2>4, <3>1 DEF Insert
    <3>. QED
      BY <2>3, <3>2
  <2>. QED
    BY <1>0, <2>1, <2>4, NamesKept
<1>4. ASSUME NEW s \in Side, Handle(s), ~HandlePublishNamedActor(s)
      PROVE  NamesAreSound'
  BY <1>1, <1>4, Zenon
  DEF Handle, HandleHandshake, HandleClose, PortalFails, GoesDown, HandleRequestActorByName,
      HandleResponseActorByName, HandleSendMessage, HandleActorExited, HandleWaitForHandshake,
      HandlePublishActor, HandleQueryNamedRemoteActor, HandleImmaterializeMessage,
      HandleTransmitMessage, HandleRegisterProxy, HandleLocalActorExited
<1>5. ASSUME NEW s \in Side,
             \/ ReceiveLoop(s)
             \/ \E a \in Actor : WatcherReports(s, a)
             \/ \E m \in Msg : SerializationTask(s, m)
      PROVE  NamesAreSound'
  BY <1>1, <1>5 DEF ReceiveLoop, ReceiveLoopReads, ReceiveLoopEnds, WatcherReports,
                    SerializationTask, TaskAsksToPublish, TaskTransmits
<1>6. ASSUME NEW s \in Side, Application(s),
             \A n \in Name, a \in Actor : ~AppOffersOnNexus(s, n, a)
      PROVE  NamesAreSound'
  BY <1>1, <1>6 DEF Application, Connect, ConnectFails, AppOffers, AppWaitsForHandshake,
                    AppInstantiatesProxy, AppQueries, AppSends
<1>7. CASE Environment
  BY <1>1, <1>7 DEF Environment, AskTimesOut, ActorExits, AppStopsPortal, GoesDown, LinkBreaks
<1>. QED
  BY <1>1, <1>2, <1>3, <1>4, <1>5, <1>6, <1>7 DEF Next, vars

(* What a task has encoded after a step is what it was handed.             *)
TaskNext(s, m) ==
  /\ task'[s][m].state = "encoding" => task'[s][m].id = None
  /\ task'[s][m].state = "encoded" =>
       ConveysNext(s, sent'[s][m].target, [msg |-> m, ref |-> task'[s][m].id])

(* What waits to be serialized stays what was sent, under steps that only  *)
(* add to it.                                                              *)
LEMMA ClosuresKept ==
  ASSUME ClosuresAreSound, Grows,
         \A r \in Side, m \in Msg : task'[r][m] = task[r][m] \/ TaskNext(r, m),
         \A r \in Side : \A m \in DOMAIN sent'[r] :
           m \in DOMAIN sent[r] \/ MeansNext(Peer(r), sent'[r][m].target)
  PROVE  ClosuresAreSound'
<1>1. LifeGoesOn /\ RegistryGrows
  BY DEF Grows
<1>2. ASSUME NEW r \in Side, NEW m \in DOMAIN sent'[r]
      PROVE  MeansNext(Peer(r), sent'[r][m].target)
  <2>1. CASE m \in DOMAIN sent[r]
    <3>1. sent'[r][m] = sent[r][m] /\ Means(Peer(r), sent[r][m].target)
      BY <1>1, <2>1 DEF RegistryGrows, ClosuresAreSound
    <3>. QED
      BY <1>1, <3>1, PeerFacts, MeansStays
  <2>. QED
    BY <1>2, <2>1
<1>3. ASSUME NEW r \in Side, NEW m \in Msg
      PROVE  TaskNext(r, m)
  <2>1. CASE task'[r][m] = task[r][m]
    <3>. DEFINE p == [msg |-> m, ref |-> task[r][m].id]
    <3>1. task[r][m].state = "encoding" => task[r][m].id = None
      BY DEF ClosuresAreSound
    <3>2. ASSUME task[r][m].state = "encoded"
          PROVE  ConveysNext(r, sent'[r][m].target, p)
      <4>1. Conveys(r, sent[r][m].target, p)
        BY <3>2 DEF ClosuresAreSound
      <4>2. m \in DOMAIN sent[r]
        BY <4>1 DEF Conveys
      <4>3. sent'[r][m] = sent[r][m]
        BY <1>1, <4>2 DEF RegistryGrows
      <4>. QED
        BY <1>1, <4>1, <4>3, ConveysStays
    <3>. QED
      BY <2>1, <3>1, <3>2 DEF TaskNext
  <2>. QED
    BY <1>3, <2>1
<1>. QED
  BY <1>2, <1>3 DEF ClosuresAreSound, TaskNext, Conveys, ConveysNext, Means, MeansNext

(* A task's id of an embedded actor is the one publish_actor returned for  *)
(* that actor.                                                             *)
LEMMA PublishActorClosure ==
  ASSUME TypeOK, HandshakeInv, TrafficIsSound, ClosuresAreSound, Grows,
         NEW s \in Side, HandlePublishActor(s)
  PROVE  ClosuresAreSound'
<1>. DEFINE m == Head(mailbox[s])
<1>1. /\ mailbox[s] # <<>> /\ m.type = "PublishActor" /\ status[s] = "open" /\ UNCHANGED sent
  BY DEF HandlePublishActor, TakesWhenOpen, Takes
<1>2. /\ m.msg \in DOMAIN sent[s] /\ sent[s][m.msg].ref = m.actor
      /\ m.msg \in Msg /\ m.actor \in Actor
  BY <1>1, HeadIsSound, MessageShapes DEF MailIsSound
<1>3. PICK id \in OpaqueActorId :
        /\ PublishActor(s, m.actor, id)
        /\ task' = [task EXCEPT ![s][m.msg] = [state |-> "encoded", id |-> RemoteId(s, id)]]
  BY DEF HandlePublishActor
<1>4. id \in DOMAIN published'[s] /\ published'[s][id] = m.actor
  BY <1>3, PublishActorGrows
<1>5. MeansNext(s, RemoteId(s, id)) /\ RemoteId(s, id).id = id
  BY <1>1, <1>4, OwnIdMeans DEF Grows
<1>6. RemoteId(s, id) # None
  BY <1>3, RemoteIdTyped, NoneAssumption
<1>7. /\ task'[s][m.msg].state = "encoded" /\ task'[s][m.msg].id = RemoteId(s, id)
      /\ \A r \in Side, n \in Msg : r # s \/ n # m.msg => task'[r][n] = task[r][n]
  BY <1>2, <1>3 DEF TypeOK
<1>8. m.actor # None
  BY <1>2, PortalAssumption
<1>9. PICK msg, rid : msg = m.msg /\ rid = RemoteId(s, id)
  OBVIOUS
<1>10. ConveysNext(s, sent'[s][msg].target, [msg |-> msg, ref |-> rid])
  BY <1>1, <1>2, <1>4, <1>5, <1>6, <1>8, <1>9 DEF ConveysNext
<1>11. TaskNext(s, msg)
  BY <1>7, <1>9, <1>10 DEF TaskNext
<1>. QED
  BY <1>1, <1>2, <1>7, <1>9, <1>11, ClosuresKept

(* Every message still goes where it was sent, with what was put in it.    *)
LEMMA NextClosures ==
  ASSUME TypeOK, SendsAreOwned, HandshakeInv, TrafficIsSound, ProxiesAreSound,
         ClosuresAreSound, Grows, [Next]_vars
  PROVE  ClosuresAreSound'
<1>1. CASE UNCHANGED <<task, sent>>
  BY <1>1, ClosuresKept
<1>2. ASSUME UNCHANGED sent, \A r \in Side, m \in Msg : task'[r][m] = task[r][m] \/ TaskNext(r, m)
      PROVE  ClosuresAreSound'
  BY <1>2, ClosuresKept
<1>3. ASSUME NEW s \in Side, NEW why, GoesDown(s, why)
      PROVE  ClosuresAreSound'
  <2>1. task' = [task EXCEPT ![s] = Abandoned(@)] /\ UNCHANGED sent
    BY <1>3 DEF GoesDown
  <2>2. ASSUME NEW r \in Side, NEW m \in Msg
        PROVE  task'[r][m] = task[r][m] \/ TaskNext(r, m)
    <3>1. \/ task'[r][m] = task[r][m]
          \/ task'[r][m] = [task[r][m] EXCEPT !.state = "done"]
      BY <2>1 DEF Abandoned, TypeOK
    <3>2. task[r][m] \in TaskState
      BY DEF TypeOK
    <3>3. task'[r][m] = task[r][m] \/ task'[r][m].state = "done"
      BY <3>1, <3>2 DEF TaskState
    <3>. QED
      BY <3>3 DEF TaskNext
  <2>. QED
    BY <1>2, <2>1, <2>2
<1>4. ASSUME NEW s \in Side, HandleImmaterializeMessage(s)
      PROVE  ClosuresAreSound'
  <2>. DEFINE m == Head(mailbox[s])
  <2>1. /\ mailbox[s] # <<>> /\ m.type = "ImmaterializeMessage" /\ UNCHANGED sent
        /\ task' = [task EXCEPT ![s][m.msg] = [state |-> "encoding", id |-> None]]
    BY <1>4 DEF HandleImmaterializeMessage, TakesWhenOpen, Takes
  <2>2. m.msg \in Msg
    BY <2>1, HeadIsSound, MessageShapes
  <2>3. /\ task'[s][m.msg].state = "encoding" /\ task'[s][m.msg].id = None
        /\ \A r \in Side, n \in Msg : r # s \/ n # m.msg => task'[r][n] = task[r][n]
    BY <2>1, <2>2 DEF TypeOK
  <2>4. PICK msg : msg = m.msg
    OBVIOUS
  <2>5. TaskNext(s, msg)
    BY <2>3, <2>4 DEF TaskNext
  <2>. QED
    BY <1>2, <2>1, <2>3, <2>4, <2>5
<1>5. ASSUME NEW s \in Side, NEW m \in Msg, SerializationTask(s, m)
      PROVE  ClosuresAreSound'
  <2>0. UNCHANGED sent
    BY <1>5 DEF SerializationTask, TaskAsksToPublish, TaskTransmits
  <2>1. PICK st \in {"asking", "done"} : task' = [task EXCEPT ![s][m].state = st]
    BY <1>5 DEF SerializationTask, TaskAsksToPublish, TaskTransmits
  <2>2. ASSUME NEW r \in Side, NEW n \in Msg
        PROVE  task'[r][n] = task[r][n] \/ TaskNext(r, n)
    <3>1. task[r][n] \in TaskState /\ task \in [Side -> [Msg -> TaskState]]
      BY DEF TypeOK
    <3>2. \/ task'[r][n] = task[r][n]
          \/ task'[r][n] = [task[r][n] EXCEPT !.state = st]
      <4>1. task' = [task EXCEPT ![s] = [task[s] EXCEPT ![m] = [task[s][m] EXCEPT !.state = st]]]
        BY <2>1
      <4>. QED
        BY <3>1, <4>1
    <3>3. task'[r][n] = task[r][n] \/ task'[r][n].state \in {"asking", "done"}
      BY <3>1, <3>2 DEF TaskState
    <3>. QED
      BY <3>3 DEF TaskNext
  <2>. QED
    BY <1>2, <2>0, <2>2
<1>6. ASSUME NEW s \in Side, NEW p \in Proxy, NEW m \in Msg, NEW ref \in Actor \cup {None},
             AppSends(s, p, m, ref)
      PROVE  ClosuresAreSound'
  <2>. DEFINE t == proxy[s][p].target
              c == [target |-> t, ref |-> ref]
  <2>1. /\ proxy[s][p].state = "running" /\ UNCHANGED task
        /\ sent' = [sent EXCEPT ![s] = Insert(@, m, c)]
    BY <1>6 DEF AppSends
  <2>2. t # None
    BY <2>1 DEF SendsAreOwned, ProxiesRunWithPortal
  <2>3. Means(Peer(s), t)
    BY <2>2 DEF ProxiesAreSound
  <2>4. MeansNext(Peer(s), t)
    BY <2>3, PeerFacts, MeansStays DEF Grows
  <2>5. ASSUME NEW r \in Side, NEW n \in DOMAIN sent'[r]
        PROVE  n \in DOMAIN sent[r] \/ MeansNext(Peer(r), sent'[r][n].target)
    <3>1. sent = [q \in Side |-> sent[q]]
      BY DEF TypeOK, MapPerSide
    <3>2. sent'[r] = IF r = s THEN Insert(sent[s], m, c) ELSE sent[r]
      BY <2>1, <3>1
    <3>3. n \in DOMAIN sent[r] \/ (r = s /\ sent'[r][n] = c)
      BY <2>5, <3>2 DEF Insert
    <3>. QED
      BY <2>4, <3>3
  <2>. QED
    BY <2>1, <2>5, ClosuresKept
<1>7. ASSUME NEW s \in Side, Handle(s)
      PROVE  ClosuresAreSound'
  <2>1. CASE HandleClose(s) \/ PortalFails(s)
    BY <1>3, <2>1 DEF HandleClose, PortalFails
  <2>2. CASE \/ HandleHandshake(s) \/ HandleRequestActorByName(s) \/ HandleResponseActorByName(s)
             \/ HandleSendMessage(s) \/ HandleActorExited(s) \/ HandleWaitForHandshake(s)
             \/ HandlePublishNamedActor(s) \/ HandleQueryNamedRemoteActor(s)
             \/ HandleTransmitMessage(s) \/ HandleRegisterProxy(s) \/ HandleLocalActorExited(s)
    BY <1>1, <2>2, Zenon
    DEF HandleHandshake, HandleRequestActorByName, HandleResponseActorByName,
        HandleSendMessage, HandleActorExited, HandleWaitForHandshake, HandlePublishNamedActor,
        HandleQueryNamedRemoteActor, HandleTransmitMessage, HandleRegisterProxy,
        HandleLocalActorExited
  <2>. QED
    BY <1>4, <1>7, <2>1, <2>2, PublishActorClosure DEF Handle
<1>8. ASSUME NEW s \in Side, ReceiveLoop(s) \/ \E a \in Actor : WatcherReports(s, a)
      PROVE  ClosuresAreSound'
  BY <1>1, <1>8 DEF ReceiveLoop, ReceiveLoopReads, ReceiveLoopEnds, WatcherReports
<1>9. ASSUME NEW s \in Side, Application(s),
             \A p \in Proxy, m \in Msg, ref \in Actor \cup {None} : ~AppSends(s, p, m, ref)
      PROVE  ClosuresAreSound'
  BY <1>1, <1>9 DEF Application, Connect, ConnectFails, AppOffersOnNexus, AppOffers,
                    AppWaitsForHandshake, AppInstantiatesProxy, AppQueries
<1>10. CASE Environment
  BY <1>1, <1>3, <1>10 DEF Environment, AskTimesOut, ActorExits, AppStopsPortal, LinkBreaks
<1>. QED
  BY <1>1, <1>5, <1>6, <1>7, <1>8, <1>9, <1>10 DEF Next, vars
-----------------------------------------------------------------------------
(* What a step may make of task q of side r, and of the ports its portal   *)
(* holds.                                                                  *)
AskerNext(r, q) ==
  /\ asker'[r][q].known =>
       asker'[r][q].wants \in Name \cap (DOMAIN named'[Peer(r)] \cup DOMAIN nexusNamed'[Peer(r)])
  /\ asker'[r][q].state = "answered" /\ asker'[r][q].wants \in Name =>
       /\ IsAnswerNext(r, q, asker'[r][q].got)
       /\ status'[r] \in {"open", "down"}
       /\ asker'[r][q].got # None => asker'[r][q].got.key = channel'[r]
PortsNext(r) ==
  /\ \A k \in DOMAIN openRequests'[r] :
       \/ k \in DOMAIN openRequests[r] /\ openRequests'[r][k] = openRequests[r][k]
       \/ LET q == openRequests'[r][k]
          IN q \in Asker /\ asker[r][q] # IdleAsker /\ asker[r][q].wants \in Name
  /\ \A q \in ImageOf(waiting'[r]) :
       \/ q \in ImageOf(waiting[r])
       \/ q \in Asker /\ asker[r][q] # IdleAsker /\ asker[r][q].wants = "handshake"

(* A task that gets no answer to a name keeps what it knows. *)
LEMMA AskerStays ==
  ASSUME AskersAreSound, Grows, NEW r \in Side, NEW q \in Asker,
         asker'[r][q].wants = asker[r][q].wants, asker'[r][q].known = asker[r][q].known,
         \/ asker'[r][q] = asker[r][q]
         \/ asker'[r][q].state # "answered"
         \/ asker[r][q].wants \notin Name
  PROVE  AskerNext(r, q)
<1>0. Peer(r) \in Side /\ LifeGoesOn /\ RegistryGrows
  BY PeerFacts DEF Grows
<1>1. asker'[r][q].known =>
        asker'[r][q].wants \in Name \cap (DOMAIN named'[Peer(r)] \cup DOMAIN nexusNamed'[Peer(r)])
  BY <1>0 DEF AskersAreSound, RegistryGrows
<1>2. ASSUME asker'[r][q].state = "answered", asker'[r][q].wants \in Name
      PROVE  /\ IsAnswerNext(r, q, asker'[r][q].got)
             /\ status'[r] \in {"open", "down"}
             /\ asker'[r][q].got # None => asker'[r][q].got.key = channel'[r]
  <2>1. asker'[r][q] = asker[r][q]
    BY <1>2
  <2>2. /\ IsAnswer(r, q, asker[r][q].got)
        /\ status[r] \in {"open", "down"}
        /\ asker[r][q].got # None => asker[r][q].got.key = channel[r]
    BY <1>2, <2>1 DEF AskersAreSound
  <2>3. asker[r][q] # IdleAsker
    BY <1>2, <2>1 DEF IdleAsker
  <2>. QED
    BY <1>0, <2>1, <2>2, <2>3, AnswerStays DEF LifeGoesOn
<1>. QED
  BY <1>1, <1>2 DEF AskerNext

(* What tasks ask and were answered stays sound. *)
LEMMA AskersKept ==
  ASSUME TypeOK, PortsAreOwnedOnce, AskersAreSound, Grows,
         \A r \in Side, q \in Asker : asker'[r][q] = asker[r][q] \/ AskerNext(r, q),
         UNCHANGED <<openRequests, waiting>> \/ \A r \in Side : PortsNext(r)
  PROVE  AskersAreSound'
<1>0. RequestsGoOn
  BY DEF Grows
<1>1. ASSUME NEW r \in Side, NEW q \in Asker
      PROVE  AskerNext(r, q)
  BY <1>1, AskerStays
<1>2. ASSUME NEW r \in Side
      PROVE  PortsNext(r)
  BY <1>2 DEF PortsNext
<1>3. ASSUME NEW r \in Side, NEW k \in DOMAIN openRequests'[r]
      PROVE  asker'[r][openRequests'[r][k]].wants \in Name
  <2>1. PICK q \in Asker : /\ q = openRequests'[r][k] /\ asker[r][q] # IdleAsker
                           /\ asker[r][q].wants \in Name
    BY <1>2, <1>3, OwnersAsked DEF PortsNext, AskersAreSound
  <2>. QED
    BY <1>0, <2>1 DEF RequestsGoOn
<1>4. ASSUME NEW r \in Side, NEW i \in DOMAIN waiting'[r]
      PROVE  asker'[r][waiting'[r][i]].wants = "handshake"
  <2>1. waiting'[r][i] \in ImageOf(waiting'[r])
    BY DEF ImageOf
  <2>2. ASSUME waiting'[r][i] \in ImageOf(waiting[r])
        PROVE  \E q \in Asker : /\ q = waiting'[r][i] /\ asker[r][q] # IdleAsker
                                /\ asker[r][q].wants = "handshake"
    <3>1. PICK j \in DOMAIN waiting[r] : waiting'[r][i] = waiting[r][j]
      BY <2>2 DEF ImageOf
    <3>. QED
      BY <3>1, OwnersAsked DEF AskersAreSound
  <2>3. PICK q \in Asker : /\ q = waiting'[r][i] /\ asker[r][q] # IdleAsker
                           /\ asker[r][q].wants = "handshake"
    BY <1>2, <2>1, <2>2 DEF PortsNext
  <2>. QED
    BY <1>0, <2>3 DEF RequestsGoOn
<1>. QED
  BY <1>1, <1>3, <1>4
  DEF AskersAreSound, AskerNext, IsAnswer, IsAnswerNext, Means, MeansNext, Offered, OfferedNext

(* The port in a message of the mailbox belongs to a task that asked. *)
LEMMA HeadAsked ==
  ASSUME TypeOK, PortsAreOwnedOnce, TrafficIsSound, NEW s \in Side, mailbox[s] # <<>>,
         Head(mailbox[s]).type \in PortTypes, Head(mailbox[s]).port # None
  PROVE  /\ Head(mailbox[s]).port \in Asker
         /\ asker[s][Head(mailbox[s]).port] # IdleAsker
         /\ asker[s][Head(mailbox[s]).port].wants =
              IF Head(mailbox[s]).type = "QueryNamedRemoteActor" THEN Head(mailbox[s]).name
              ELSE IF Head(mailbox[s]).type = "WaitForHandshake" THEN "handshake"
              ELSE "publication"
<1>. DEFINE m == Head(mailbox[s])
<1>1. m \in ImageOf(mailbox[s]) /\ m \in PortalActorMessage /\ MailIsSound(s, m)
  BY HeadIsSound
<1>2. m.port \in Asker
  BY <1>1, MessageShapes DEF PortTypes
<1>3. asker[s][m.port] # IdleAsker
  BY <1>1, <1>2, OwnersAsked
<1>. QED
  BY <1>1, <1>2, <1>3 DEF MailIsSound, PortTypes

(* The tasks that waited for the handshake are told of it. *)
LEMMA HandleHandshakeAskers ==
  ASSUME TypeOK, PortsAreOwnedOnce, AskersAreSound, Grows, NEW s \in Side, HandleHandshake(s)
  PROVE  AskersAreSound'
<1>1. /\ waiting' = [waiting EXCEPT ![s] = <<>>] /\ UNCHANGED openRequests
      /\ asker' = [asker EXCEPT ![s] =
                     [q \in Asker |-> IF q \in ImageOf(waiting[s]) /\ Waits(s, q)
                                      THEN [@[q] EXCEPT !.state = "answered"] ELSE @[q]]]
  BY DEF HandleHandshake, TellsWaiting
<1>2. ASSUME NEW r \in Side, NEW q \in Asker
      PROVE  asker'[r][q] = asker[r][q] \/ AskerNext(r, q)
  <2>1. asker[r][q] \in AskerState
    BY DEF TypeOK
  <2>2. \/ asker'[r][q] = asker[r][q]
        \/ /\ r = s /\ q \in ImageOf(waiting[s])
           /\ asker'[r][q] = [asker[r][q] EXCEPT !.state = "answered"]
    BY <1>1 DEF TypeOK
  <2>3. ASSUME q \in ImageOf(waiting[r]), asker'[r][q] = [asker[r][q] EXCEPT !.state = "answered"]
        PROVE  AskerNext(r, q)
    <3>1. asker[r][q].wants = "handshake"
      BY <2>3 DEF AskersAreSound, ImageOf
    <3>2. asker'[r][q].wants = asker[r][q].wants /\ asker'[r][q].known = asker[r][q].known
      BY <2>1, <2>3 DEF AskerState
    <3>. QED
      BY <3>1, <3>2, PortalAssumption, AskerStays
  <2>. QED
    BY <2>2, <2>3
<1>3. ASSUME NEW r \in Side
      PROVE  PortsNext(r)
  <2>1. waiting'[r] = waiting[r] \/ waiting'[r] = <<>>
    BY <1>1 DEF TypeOK
  <2>2. ImageOf(<<>>) = {}
    BY NoElements DEF ImageOf
  <2>. QED
    BY <1>1, <2>1, <2>2 DEF PortsNext
<1>. QED
  BY <1>2, <1>3, AskersKept

(* A response goes to the task that asked for the name.                    *)
LEMMA HandleResponseAskers ==
  ASSUME TypeOK, HandshakeInv, PortsAreOwnedOnce, TrafficIsSound, AskersAreSound, Grows,
         NEW s \in Side, HandleResponseActorByName(s)
  PROVE  AskersAreSound'
<1>. DEFINE m == Head(mailbox[s])
<1>1. /\ mailbox[s] # <<>> /\ m.type = "ResponseActorByName" /\ status[s] = "open"
      /\ UNCHANGED <<waiting, status, channel>>
  BY DEF HandleResponseActorByName, TakesWhenOpen, Takes
<1>2. CASE UNCHANGED <<asker, openRequests>>
  BY <1>1, <1>2, AskersKept
<1>3. ASSUME NEW q \in Asker, m.id \in DOMAIN openRequests[s], q = openRequests[s][m.id],
             Replies(s, q, m.response),
             openRequests' = [openRequests EXCEPT ![s] = Remove(@, m.id)]
      PROVE  AskersAreSound'
  <2>1. ResponseIsSound(Peer(s), m)
    BY <1>1, HeadIsSound DEF FrameIsSound
  <2>2. IsAnswer(s, q, m.response)
    BY <1>3, <2>1, PeerFacts DEF ResponseIsSound
  <2>3. /\ asker'[s][q].state = "answered" /\ asker'[s][q].got = m.response
        /\ asker'[s][q].wants = asker[s][q].wants
        /\ asker'[s][q].known = asker[s][q].known
        /\ \A r \in Side, p \in Asker : r # s \/ p # q => asker'[r][p] = asker[r][p]
    <3>1. PICK got : got = m.response /\ Replies(s, q, got)
      BY <1>3
    <3>. QED
      BY <3>1, RepliesEffect
  <2>4. IsAnswerNext(s, q, m.response)
    <3>1. asker[s][q] # IdleAsker
      BY <1>3, OwnersAsked
    <3>. QED
      BY <2>2, <3>1, AnswerStays
  <2>5. m.response # None => m.response.key = channel'[s]
    BY <1>1, <2>2, OpenKey DEF IsAnswer, Means
  <2>6. AskerNext(s, q)
    <3>1. asker'[s][q].known =>
            asker'[s][q].wants \in Name \cap (DOMAIN named'[Peer(s)] \cup DOMAIN nexusNamed'[Peer(s)])
      BY <2>3, PeerFacts DEF AskersAreSound, Grows, RegistryGrows
    <3>. QED
      BY <1>1, <2>3, <2>4, <2>5, <3>1 DEF AskerNext
  <2>7. ASSUME NEW r \in Side
        PROVE  PortsNext(r)
    <3>1. openRequests = [p \in Side |-> openRequests[p]]
      BY DEF TypeOK, MapPerSide
    <3>2. openRequests'[r] = IF r = s THEN Remove(openRequests[s], m.id) ELSE openRequests[r]
      BY <1>3, <3>1
    <3>. QED
      BY <1>1, <3>2 DEF PortsNext, Remove
  <2>. QED
    BY <2>3, <2>6, <2>7, AskersKept
<1>4. m.id \in DOMAIN openRequests[s] => openRequests[s][m.id] \in Asker
  BY OwnersAsked
<1>. QED
  BY <1>2, <1>3, <1>4 DEF HandleResponseActorByName

(* Waiting for the handshake, or for a publication, says nothing of names. *)
LEMMA HandlePortsAskers ==
  ASSUME TypeOK, PortsAreOwnedOnce, TrafficIsSound, AskersAreSound, Grows, NEW s \in Side,
         HandleWaitForHandshake(s) \/ HandlePublishNamedActor(s)
  PROVE  AskersAreSound'
<1>. DEFINE m == Head(mailbox[s])
<1>1. ASSUME NEW q \in Asker, NEW got, Replies(s, q, got), asker[s][q].wants \notin Name,
             UNCHANGED <<openRequests, waiting>>
      PROVE  AskersAreSound'
  <2>1. /\ asker'[s][q].wants = asker[s][q].wants /\ asker'[s][q].known = asker[s][q].known
        /\ \A r \in Side, p \in Asker : r # s \/ p # q => asker'[r][p] = asker[r][p]
    BY <1>1, RepliesEffect
  <2>2. AskerNext(s, q)
    BY <1>1, <2>1, AskerStays
  <2>. QED
    BY <1>1, <2>1, <2>2, AskersKept
<1>2. CASE HandleWaitForHandshake(s)
  <2>1. mailbox[s] # <<>> /\ m.type = "WaitForHandshake" /\ UNCHANGED openRequests
    BY <1>2 DEF HandleWaitForHandshake, Takes
  <2>2. m.port # None
    BY <2>1, HeadIsSound, MessageShapes, PortalAssumption
  <2>3. m.port \in Asker /\ asker[s][m.port] # IdleAsker /\ asker[s][m.port].wants = "handshake"
    BY <2>1, <2>2, HeadAsked DEF PortTypes
  <2>4. CASE Replies(s, m.port, None) /\ UNCHANGED waiting
    BY <1>1, <2>1, <2>3, <2>4, PortalAssumption
  <2>5. CASE waiting' = [waiting EXCEPT ![s] = Append(@, m.port)] /\ UNCHANGED asker
    <3>1. waiting \in [Side -> Seq(Asker)]
      BY DEF TypeOK
    <3>2. ImageOf(Append(waiting[s], m.port)) = ImageOf(waiting[s]) \cup {m.port}
      BY <3>1, QueueImages
    <3>3. ASSUME NEW r \in Side
          PROVE  PortsNext(r)
      <4>1. waiting'[r] = IF r = s THEN Append(waiting[s], m.port) ELSE waiting[r]
        BY <2>5, <3>1
      <4>2. \A q \in ImageOf(waiting'[r]) : q \in ImageOf(waiting[r]) \/ (r = s /\ q = m.port)
        BY <3>2, <4>1
      <4>. QED
        BY <2>1, <2>3, <4>2 DEF PortsNext
    <3>. QED
      BY <2>5, <3>3, AskersKept
  <2>. QED
    BY <1>2, <2>4, <2>5 DEF HandleWaitForHandshake
<1>3. CASE HandlePublishNamedActor(s)
  <2>1. /\ mailbox[s] # <<>> /\ m.type = "PublishNamedActor" /\ UNCHANGED <<openRequests, waiting>>
    BY <1>3 DEF HandlePublishNamedActor, Takes
  <2>2. CASE UNCHANGED asker
    BY <2>1, <2>2, AskersKept
  <2>3. ASSUME NEW got, m.port # None, Replies(s, m.port, got)
        PROVE  AskersAreSound'
    <3>1. m.port \in Asker /\ asker[s][m.port].wants = "publication"
      BY <2>1, <2>3, HeadAsked DEF PortTypes
    <3>. QED
      BY <1>1, <2>1, <2>3, <3>1, PortalAssumption
  <2>4. UNCHANGED asker \/ \E got : m.port # None /\ Replies(s, m.port, got)
    BY <1>3 DEF HandlePublishNamedActor
  <2>. QED
    BY <2>2, <2>3, <2>4
<1>. QED
  BY <1>2, <1>3

(* Ports that are dropped give no answer. *)
LEMMA RefusesAskers ==
  ASSUME TypeOK, PortsAreOwnedOnce, AskersAreSound, Grows, NEW s \in Side, NEW Q, Refuses(s, Q),
         UNCHANGED <<openRequests, waiting>> \/ \A r \in Side : PortsNext(r)
  PROVE  AskersAreSound'
<1>1. ASSUME NEW q \in Asker
      PROVE  asker'[s][q] = asker[s][q] \/ AskerNext(s, q)
  <2>1. /\ asker'[s][q] = asker[s][q] \/ asker'[s][q].state = "refused"
        /\ asker'[s][q].wants = asker[s][q].wants /\ asker'[s][q].known = asker[s][q].known
    BY RefusedEffect
  <2>. QED
    BY <2>1, AskerStays
<1>2. \A r \in Side : r # s => asker'[r] = asker[r]
  BY RefusedEffect
<1>. QED
  BY <1>1, <1>2, AskersKept

(* A portal that goes down refuses its askers, and answers none. *)
LEMMA GoesDownAskers ==
  ASSUME TypeOK, PortsAreOwnedOnce, AskersAreSound, Grows, NEW s \in Side, NEW why,
         GoesDown(s, why)
  PROVE  AskersAreSound'
<1>1. /\ Refuses(s, PortsHeld(s))
      /\ openRequests' = [openRequests EXCEPT ![s] = NoEntries]
      /\ waiting' = [waiting EXCEPT ![s] = <<>>]
  BY DEF GoesDown, Refuses
<1>2. ASSUME NEW r \in Side
      PROVE  PortsNext(r)
  <2>1. openRequests = [p \in Side |-> openRequests[p]] /\ waiting = [p \in Side |-> waiting[p]]
    BY DEF TypeOK, MapPerSide
  <2>2. openRequests'[r] = openRequests[r] \/ openRequests'[r] = NoEntries
    BY <1>1, <2>1
  <2>3. waiting'[r] = waiting[r] \/ waiting'[r] = <<>>
    BY <1>1, <2>1
  <2>4. ImageOf(<<>>) = {}
    BY NoElements DEF ImageOf
  <2>. QED
    BY <2>2, <2>3, <2>4 DEF PortsNext, NoEntries
<1>. QED
  BY <1>1, <1>2, RefusesAskers

(* A question to the peer is open under the port of the task that asks it. *)
LEMMA HandleQueryAskers ==
  ASSUME TypeOK, PortsAreOwnedOnce, TrafficIsSound, AskersAreSound, Grows, NEW s \in Side,
         HandleQueryNamedRemoteActor(s)
  PROVE  AskersAreSound'
<1>. DEFINE m == Head(mailbox[s])
<1>1. mailbox[s] # <<>> /\ m.type = "QueryNamedRemoteActor" /\ UNCHANGED waiting
  BY DEF HandleQueryNamedRemoteActor, Takes
<1>2. m.port \in Asker /\ m.name \in Name
  BY <1>1, HeadIsSound, MessageShapes
<1>3. asker[s][m.port] # IdleAsker /\ asker[s][m.port].wants = m.name
  <2>1. m.port # None
    BY <1>2, PortalAssumption
  <2>. QED
    BY <1>1, <2>1, HeadAsked DEF PortTypes
<1>4. CASE openRequests' = [openRequests EXCEPT ![s] = Insert(@, nextRequest[s], m.port)]
           /\ UNCHANGED asker
  <2>1. ASSUME NEW r \in Side
        PROVE  PortsNext(r)
    <3>1. openRequests = [p \in Side |-> openRequests[p]]
      BY DEF TypeOK, MapPerSide
    <3>2. openRequests'[r] = IF r = s THEN Insert(openRequests[s], nextRequest[s], m.port)
                             ELSE openRequests[r]
      BY <1>4, <3>1
    <3>3. \A k \in DOMAIN openRequests'[r] :
            \/ k \in DOMAIN openRequests[r] /\ openRequests'[r][k] = openRequests[r][k]
            \/ r = s /\ openRequests'[r][k] = m.port
      BY <3>2 DEF Insert
    <3>. QED
      BY <1>1, <1>2, <1>3, <3>3 DEF PortsNext
  <2>. QED
    BY <1>4, <2>1, AskersKept
<1>5. CASE asker' = [asker EXCEPT ![s] = Refused(@, {m.port})] /\ UNCHANGED openRequests
  BY <1>1, <1>5, RefusesAskers DEF Refuses
<1>. QED
  BY <1>4, <1>5 DEF HandleQueryNamedRemoteActor

(* A task that begins to wait, and one that gives up, have no answer.      *)
LEMMA AsksAskers ==
  ASSUME TypeOK, PortsAreOwnedOnce, AskersAreSound, Grows, NEW s \in Side, NEW q \in Asker,
         NEW wants, NEW known, MayAsk(s, q), BeginsToWait(s, q, wants, known),
         known => wants \in Name \cap (DOMAIN named[Peer(s)] \cup DOMAIN nexusNamed[Peer(s)]),
         UNCHANGED <<openRequests, waiting>>
  PROVE  AskersAreSound'
<1>1. /\ asker'[s][q].state = "waiting" /\ asker'[s][q].wants = wants
      /\ asker'[s][q].known = known
      /\ \A r \in Side, p \in Asker : r # s \/ p # q => asker'[r][p] = asker[r][p]
  BY BeginsEffect
<1>2. AskerNext(s, q)
  BY <1>1, PeerFacts DEF AskerNext, Grows, RegistryGrows
<1>. QED
  BY <1>1, <1>2, AskersKept

(* An ask that times out is not answered any more. *)
LEMMA AskTimesOutAskers ==
  ASSUME TypeOK, PortsAreOwnedOnce, AskersAreSound, Grows, NEW s \in Side, NEW q \in Asker,
         AskTimesOut(s, q)
  PROVE  AskersAreSound'
<1>1. asker \in [Side -> [Asker -> AskerState]] /\ asker[s][q] \in AskerState
  BY DEF TypeOK
<1>2. /\ asker'[s][q].state = "timedout" /\ asker'[s][q].wants = asker[s][q].wants
      /\ asker'[s][q].known = asker[s][q].known
      /\ \A r \in Side, p \in Asker : r # s \/ p # q => asker'[r][p] = asker[r][p]
  BY <1>1 DEF AskTimesOut, AskerState
<1>3. AskerNext(s, q) /\ UNCHANGED <<openRequests, waiting>>
  BY <1>2, AskerStays DEF AskTimesOut
<1>. QED
  BY <1>2, <1>3, AskersKept

(* No step answers a task with anything but what it asked for. *)
LEMMA NextAskers ==
  ASSUME TypeOK, HandshakeInv, PortsAreOwnedOnce, TrafficIsSound, AskersAreSound, Grows,
         [Next]_vars
  PROVE  AskersAreSound'
<1>1. CASE UNCHANGED <<asker, openRequests, waiting>>
  BY <1>1, AskersKept
<1>2. ASSUME NEW s \in Side, Handle(s)
      PROVE  AskersAreSound'
  <2>1. CASE HandleClose(s) \/ PortalFails(s)
    BY <2>1, GoesDownAskers DEF HandleClose, PortalFails
  <2>2. CASE \/ HandleRequestActorByName(s) \/ HandleSendMessage(s) \/ HandleActorExited(s)
             \/ HandlePublishActor(s) \/ HandleImmaterializeMessage(s)
             \/ HandleTransmitMessage(s) \/ HandleRegisterProxy(s) \/ HandleLocalActorExited(s)
    BY <1>1, <2>2, Zenon
    DEF HandleRequestActorByName, HandleSendMessage, HandleActorExited, HandlePublishActor,
        HandleImmaterializeMessage, HandleTransmitMessage, HandleRegisterProxy,
        HandleLocalActorExited
  <2>. QED
    BY <1>2, <2>1, <2>2, HandleHandshakeAskers, HandleResponseAskers, HandlePortsAskers,
       HandleQueryAskers DEF Handle
<1>3. ASSUME NEW s \in Side,
             \/ ReceiveLoop(s)
             \/ \E a \in Actor : WatcherReports(s, a)
             \/ \E m \in Msg : SerializationTask(s, m)
      PROVE  AskersAreSound'
  BY <1>1, <1>3 DEF ReceiveLoop, ReceiveLoopReads, ReceiveLoopEnds, WatcherReports,
                    SerializationTask, TaskAsksToPublish, TaskTransmits
<1>4. ASSUME NEW s \in Side, Application(s)
      PROVE  AskersAreSound'
  <2>1. CASE UNCHANGED <<asker, openRequests, waiting>>
    BY <1>1, <2>1
  <2>2. ASSUME NEW n \in Name, NEW a \in Actor, AppOffers(s, n, a)
        PROVE  AskersAreSound'
    <3>1. UNCHANGED <<openRequests, waiting>>
      BY <2>2 DEF AppOffers
    <3>2. ASSUME NEW q \in Asker, MayAsk(s, q), BeginsToWait(s, q, "publication", FALSE)
          PROVE  AskersAreSound'
      BY <3>1, <3>2, AsksAskers
    <3>. QED
      BY <1>1, <2>2, <3>1, <3>2 DEF AppOffers
  <2>3. ASSUME NEW q \in Asker, AppWaitsForHandshake(s, q)
        PROVE  AskersAreSound'
    <3>1. /\ UNCHANGED <<openRequests, waiting>>
          /\ MayAsk(s, q) /\ BeginsToWait(s, q, "handshake", FALSE)
      BY <2>3 DEF AppWaitsForHandshake
    <3>. QED
      BY <3>1, AsksAskers
  <2>4. ASSUME NEW q \in Asker, NEW n \in Name, AppQueries(s, q, n)
        PROVE  AskersAreSound'
    <3>. DEFINE known == n \in DOMAIN named[Peer(s)] \cup DOMAIN nexusNamed[Peer(s)]
    <3>1. /\ UNCHANGED <<openRequests, waiting>>
          /\ MayAsk(s, q) /\ BeginsToWait(s, q, n, known)
      BY <2>4 DEF AppQueries
    <3>2. known => n \in Name \cap (DOMAIN named[Peer(s)] \cup DOMAIN nexusNamed[Peer(s)])
      OBVIOUS
    <3>. HIDE DEF known
    <3>. QED
      BY <3>1, <3>2, AsksAskers
  <2>. QED
    BY <1>4, <2>1, <2>2, <2>3, <2>4
    DEF Application, Connect, ConnectFails, AppOffersOnNexus, AppInstantiatesProxy, AppSends
<1>5. CASE Environment
  BY <1>1, <1>5, GoesDownAskers, AskTimesOutAskers
  DEF Environment, ActorExits, AppStopsPortal, LinkBreaks
<1>. QED
  BY <1>1, <1>2, <1>3, <1>4, <1>5 DEF Next, vars
-----------------------------------------------------------------------------
(* What actor a of side s has received was sent to it. *)
ReceivedNext(s, a, payload) ==
  LET target == sent'[Peer(s)][payload.msg].target
  IN ConveysNext(Peer(s), target, payload) /\ MeansNext(s, target) /\ published'[s][target.id] = a

(* What an actor received as it was sent stays so. *)
LEMMA ReceivedStays ==
  ASSUME Grows, NEW s \in Side, NEW a, NEW target, NEW payload,
         Conveys(Peer(s), target, payload), Means(s, target), published[s][target.id] = a
  PROVE  ReceivedNext(s, a, payload)
<1>1. LifeGoesOn /\ RegistryGrows /\ Peer(s) \in Side
  BY PeerFacts DEF Grows
<1>2. ConveysNext(Peer(s), target, payload)
  BY <1>1, ConveysStays
<1>3. target = sent'[Peer(s)][payload.msg].target
  BY <1>2 DEF ConveysNext
<1>4. MeansNext(s, target) /\ published'[s][target.id] = published[s][target.id]
  BY <1>1, MeansStays
<1>. QED
  BY <1>2, <1>3, <1>4 DEF ReceivedNext

(* A message handed to an actor was meant for it, and what it refers to is *)
(* what the sender put in.                                                 *)
LEMMA NextReceived ==
  ASSUME TypeOK, TrafficIsSound, ReceivedAsSent, Grows, [Next]_vars
  PROVE  ReceivedAsSent'
<1>1. ASSUME NEW r \in Side, NEW a \in Actor, NEW i \in DOMAIN inbox[r][a]
      PROVE  ReceivedNext(r, a, inbox[r][a][i])
  BY <1>1, ReceivedStays DEF ReceivedAsSent
<1>2. ASSUME \A r \in Side, a \in Actor : \A i \in DOMAIN inbox'[r][a] :
               ReceivedNext(r, a, inbox'[r][a][i])
      PROVE  ReceivedAsSent'
  BY <1>2, Zenon DEF ReceivedAsSent, ReceivedNext, Conveys, ConveysNext, Means, MeansNext
<1>3. CASE UNCHANGED inbox
  BY <1>1, <1>2, <1>3
<1>4. ASSUME NEW s \in Side, HandleSendMessage(s)
      PROVE  ReceivedAsSent'
  <2>. DEFINE m == Head(mailbox[s])
  <2>1. mailbox[s] # <<>> /\ m.type = "SendMessage"
    BY <1>4, Zenon DEF HandleSendMessage, TakesWhenOpen, Takes
  <2>2. Means(s, m.target) /\ Conveys(Peer(s), m.target, m.payload)
    BY <2>1, HeadIsSound, PeerFacts DEF FrameIsSound
  <2>3. ASSUME NEW b, b = published[s][m.target.id], b \in Actor,
               inbox' = [inbox EXCEPT ![s][b] = Append(@, m.payload)]
        PROVE  ReceivedAsSent'
    <3>1. ReceivedNext(s, b, m.payload)
      BY <2>2, <2>3, ReceivedStays, Zenon
    <3>2. inbox \in [Side -> [Actor -> Seq(Payload)]] /\ inbox[s][b] \in Seq(Payload)
      BY <2>3, Zenon DEF TypeOK
    <3>3. PICK p : p = m.payload
      OBVIOUS
    <3>4. /\ inbox'[s][b] = Append(inbox[s][b], p)
          /\ \A r \in Side, a \in Actor : r # s \/ a # b => inbox'[r][a] = inbox[r][a]
      BY <2>3, <3>2, <3>3, Zenon
    <3>5. \A i \in DOMAIN inbox'[s][b] :
            \/ i \in DOMAIN inbox[s][b] /\ inbox'[s][b][i] = inbox[s][b][i]
            \/ inbox'[s][b][i] = p
      BY <3>2, <3>4, AppendPositions
    <3>6. \A i \in DOMAIN inbox'[s][b] : ReceivedNext(s, b, inbox'[s][b][i])
      BY <1>1, <2>3, <3>1, <3>3, <3>5, Zenon
    <3>. QED
      BY <1>1, <1>2, <3>4, <3>6, Zenon
  <2>4. m.target.id \in DOMAIN published[s] => published[s][m.target.id] \in Actor
    BY MapPerSideUpdate, MapsAreTyped DEF TypeOK
  <2>. QED
    BY <1>3, <1>4, <2>3, <2>4, Zenon DEF HandleSendMessage
<1>5. ASSUME NEW s \in Side, Handle(s), ~HandleSendMessage(s)
      PROVE  ReceivedAsSent'
  BY <1>3, <1>5, Zenon
  DEF Handle, HandleHandshake, HandleClose, PortalFails, GoesDown, HandleRequestActorByName,
      HandleResponseActorByName, HandleActorExited, HandleWaitForHandshake,
      HandlePublishNamedActor, HandlePublishActor, HandleQueryNamedRemoteActor,
      HandleImmaterializeMessage, HandleTransmitMessage, HandleRegisterProxy,
      HandleLocalActorExited
<1>6. ASSUME NEW s \in Side,
             \/ ReceiveLoop(s)
             \/ \E a \in Actor : WatcherReports(s, a)
             \/ \E m \in Msg : SerializationTask(s, m)
             \/ Application(s)
      PROVE  ReceivedAsSent'
  BY <1>3, <1>6 DEF ReceiveLoop, ReceiveLoopReads, ReceiveLoopEnds, WatcherReports,
                    SerializationTask, TaskAsksToPublish, TaskTransmits,
                    Application, Connect, ConnectFails, AppOffersOnNexus, AppOffers,
                    AppWaitsForHandshake, AppInstantiatesProxy, AppQueries, AppSends
<1>7. CASE Environment
  BY <1>3, <1>7 DEF Environment, AskTimesOut, ActorExits, AppStopsPortal, GoesDown, LinkBreaks
<1>. QED
  BY <1>3, <1>4, <1>5, <1>6, <1>7 DEF Next, vars

(* A proxy that has stopped under a running portal outlived its actor.     *)
OutlivedNext(s, p) ==
  proxy'[s][p].state = "stopped" /\ status'[s] \in {"opening", "open"}
    => published'[Peer(s)][proxy'[s][p].target.id] \notin alive'[Peer(s)]

(* A proxy that stopped after its actor stays behind a dead one. *)
LEMMA OutlivedStays ==
  ASSUME TypeOK, ProxiesAreSound, ProxyOutlivedByActorOnly, Grows, NEW s \in Side, NEW p \in Proxy,
         proxy'[s][p] = proxy[s][p]
  PROVE  OutlivedNext(s, p)
<1>. SUFFICES ASSUME proxy[s][p].state = "stopped", status'[s] \in {"opening", "open"}
              PROVE  published'[Peer(s)][proxy[s][p].target.id] \notin alive'[Peer(s)]
  BY DEF OutlivedNext
<1>1. Means(Peer(s), proxy[s][p].target)
  BY DEF ProxiesAreSound
<1>2. Live(s)
  BY <1>1 DEF Means, Live, Grows, LifeGoesOn, TypeOK
<1>3. published[Peer(s)][proxy[s][p].target.id] \notin alive[Peer(s)]
  BY <1>2 DEF ProxyOutlivedByActorOnly
<1>4. published'[Peer(s)][proxy[s][p].target.id] = published[Peer(s)][proxy[s][p].target.id]
  BY <1>1, PeerFacts, MeansStays DEF Grows
<1>. QED
  BY <1>3, <1>4, PeerFacts DEF Grows, RegistryGrows

(* Proxies are stopped by ActorExited alone, which a portal sends of an    *)
(* actor that has ended, and by the end of their portal.                   *)
LEMMA NextOutlived ==
  ASSUME TypeOK, TrafficIsSound, ProxiesAreSound, ProxyOutlivedByActorOnly, Grows, [Next]_vars
  PROVE  ProxyOutlivedByActorOnly'
<1>1. ASSUME \A r \in Side, p \in Proxy : proxy'[r][p] = proxy[r][p] \/ OutlivedNext(r, p)
      PROVE  ProxyOutlivedByActorOnly'
  BY <1>1, OutlivedStays DEF ProxyOutlivedByActorOnly, OutlivedNext, Live
<1>2. CASE UNCHANGED proxy
  BY <1>1, <1>2
<1>3. ASSUME NEW s \in Side, NEW why, GoesDown(s, why)
      PROVE  ProxyOutlivedByActorOnly'
  <2>1. status'[s] = "down" /\ proxy' = [proxy EXCEPT ![s] = Stopped(@)]
    BY <1>3 DEF GoesDown, TypeOK
  <2>2. \A p \in Proxy : OutlivedNext(s, p)
    BY <2>1 DEF OutlivedNext
  <2>3. \A r \in Side : r # s => proxy'[r] = proxy[r]
    BY <2>1 DEF TypeOK
  <2>. QED
    BY <1>1, <2>2, <2>3
<1>4. ASSUME NEW s \in Side, NEW p \in Proxy, NEW t,
             proxy' = [proxy EXCEPT ![s][p] = [state |-> "running", target |-> t]]
      PROVE  ProxyOutlivedByActorOnly'
  <2>1. /\ proxy'[s][p].state = "running"
        /\ \A r \in Side, q \in Proxy : r # s \/ q # p => proxy'[r][q] = proxy[r][q]
    BY <1>4 DEF TypeOK
  <2>2. OutlivedNext(s, p)
    BY <2>1 DEF OutlivedNext
  <2>. QED
    BY <1>1, <2>1, <2>2
<1>5. ASSUME NEW s \in Side, HandleActorExited(s)
      PROVE  ProxyOutlivedByActorOnly'
  <2>. DEFINE m == Head(mailbox[s])
              p == proxies[s][m.target]
  <2>1. mailbox[s] # <<>> /\ m.type = "ActorExited" /\ UNCHANGED <<published, alive>>
    BY <1>5, Zenon DEF HandleActorExited, TakesWhenOpen, Takes
  <2>2. CASE m.target \in DOMAIN proxies[s] /\ proxy' = [proxy EXCEPT ![s][p].state = "stopped"]
    <3>1. p \in Proxy /\ proxy[s][p].target = m.target
      BY <2>2, MapPerSideUpdate, MapsAreTyped DEF TypeOK, ProxiesAreSound
    <3>2. published[Peer(s)][m.target.id] \notin alive[Peer(s)]
      BY <2>1, HeadIsSound DEF FrameIsSound
    <3>3. proxy \in [Side -> [Proxy -> ProxyState]] /\ proxy[s][p] \in ProxyState
      BY <3>1 DEF TypeOK
    <3>4. proxy'[s][p] = [proxy[s][p] EXCEPT !.state = "stopped"]
          /\ \A r \in Side, q \in Proxy : r # s \/ q # p => proxy'[r][q] = proxy[r][q]
      BY <2>2, <3>1, <3>3, Zenon
    <3>5. proxy'[s][p].target = m.target
      BY <3>1, <3>3, <3>4, Zenon DEF ProxyState
    <3>6. OutlivedNext(s, p)
      BY <2>1, <3>2, <3>5 DEF OutlivedNext
    <3>. QED
      BY <1>1, <3>1, <3>4, <3>6, Zenon
  <2>. QED
    BY <1>2, <1>5, <2>2, Zenon DEF HandleActorExited
<1>6. ASSUME NEW s \in Side, HandleSendMessage(s)
      PROVE  ProxyOutlivedByActorOnly'
  <2>. DEFINE m == Head(mailbox[s])
  <2>1. m \in PortalActorMessage /\ m.type = "SendMessage"
    BY <1>6, HeadIsSound, Zenon DEF HandleSendMessage, TakesWhenOpen, Takes
  <2>2. m.payload.msg \in Proxy
    BY <2>1, MessageShapes DEF Payload, Proxy
  <2>3. UNCHANGED proxy \/ proxy' = [proxy EXCEPT ![s][m.payload.msg] =
                                       [state |-> "running", target |-> m.payload.ref]]
    BY <1>6, Zenon DEF HandleSendMessage
  <2>. QED
    BY <1>2, <1>4, <2>2, <2>3, Zenon
<1>7. ASSUME NEW s \in Side, NEW q \in Asker, AppInstantiatesProxy(s, q)
      PROVE  ProxyOutlivedByActorOnly'
  <2>1. q \in Proxy
    BY DEF Proxy
  <2>. QED
    BY <1>4, <1>7, <2>1 DEF AppInstantiatesProxy
<1>8. ASSUME NEW s \in Side, Handle(s)
      PROVE  ProxyOutlivedByActorOnly'
  <2>1. CASE HandleClose(s) \/ PortalFails(s)
    BY <1>3, <2>1 DEF HandleClose, PortalFails
  <2>2. CASE \/ HandleHandshake(s) \/ HandleRequestActorByName(s) \/ HandleResponseActorByName(s)
             \/ HandleWaitForHandshake(s) \/ HandlePublishNamedActor(s) \/ HandlePublishActor(s)
             \/ HandleQueryNamedRemoteActor(s) \/ HandleImmaterializeMessage(s)
             \/ HandleTransmitMessage(s) \/ HandleRegisterProxy(s) \/ HandleLocalActorExited(s)
    BY <1>2, <2>2
    DEF HandleHandshake, HandleRequestActorByName, HandleResponseActorByName,
        HandleWaitForHandshake, HandlePublishNamedActor, HandlePublishActor,
        HandleQueryNamedRemoteActor, HandleImmaterializeMessage, HandleTransmitMessage,
        HandleRegisterProxy, HandleLocalActorExited
  <2>. QED
    BY <1>5, <1>6, <1>8, <2>1, <2>2 DEF Handle
<1>9. ASSUME NEW s \in Side,
             \/ ReceiveLoop(s)
             \/ \E a \in Actor : WatcherReports(s, a)
             \/ \E m \in Msg : SerializationTask(s, m)
      PROVE  ProxyOutlivedByActorOnly'
  BY <1>2, <1>9 DEF ReceiveLoop, ReceiveLoopReads, ReceiveLoopEnds, WatcherReports,
                    SerializationTask, TaskAsksToPublish, TaskTransmits
<1>10. ASSUME NEW s \in Side, Application(s), \A q \in Asker : ~AppInstantiatesProxy(s, q)
       PROVE  ProxyOutlivedByActorOnly'
  BY <1>2, <1>10 DEF Application, Connect, ConnectFails, AppOffersOnNexus, AppOffers,
                     AppWaitsForHandshake, AppQueries, AppSends
<1>11. CASE Environment
  BY <1>2, <1>3, <1>11 DEF Environment, AskTimesOut, ActorExits, AppStopsPortal, LinkBreaks
<1>. QED
  BY <1>2, <1>7, <1>8, <1>9, <1>10, <1>11 DEF Next, vars
-----------------------------------------------------------------------------
(* The invariant of what crosses the conduit, beside those it rests on. *)
ReferenceInv ==
  /\ RequestInv /\ OneIdPerActor
  /\ NamesAreSound /\ TrafficIsSound /\ AskersAreSound /\ ProxiesAreSound /\ ClosuresAreSound
  /\ ReceivedAsSent /\ ProxyOutlivedByActorOnly

(* Before anything is connected there is nothing to be sound.              *)
LEMMA InitReferences ==
  ASSUME Init
  PROVE  ReferenceInv
<1>0. "a" \in Side /\ "b" \in Side
  BY DEF Side
<1>1. RequestInv
  BY InitTyped, InitOwned, InitIntroduced, InitRequests DEF RequestInv
<1>2. OneIdPerActor /\ NamesAreSound
  BY DEF Init, OneIdPerActor, NamesAreSound, NoEntries
<1>3. TrafficIsSound
  BY NoElements DEF Init, TrafficIsSound
<1>4. AskersAreSound
  BY NoElements DEF Init, AskersAreSound, NoEntries, IdleAsker
<1>5. ProxiesAreSound /\ ProxyOutlivedByActorOnly
  BY DEF Init, ProxiesAreSound, ProxyOutlivedByActorOnly, NoEntries, NoProxy
<1>6. ClosuresAreSound
  BY DEF Init, ClosuresAreSound, NoEntries, NoTask
<1>7. ReceivedAsSent
  BY NoElements DEF Init, ReceivedAsSent
<1>. QED
  BY <1>1, <1>2, <1>3, <1>4, <1>5, <1>6, <1>7 DEF ReferenceInv

(* No step of either side makes anything that crosses the conduit mean     *)
(* something else.                                                         *)
LEMMA ReferenceInvariant == Spec => []ReferenceInv
<1>1. Init => ReferenceInv
  BY InitReferences
<1>2. ASSUME ReferenceInv, [Next]_vars
      PROVE  ReferenceInv'
  <2>1. RequestInv' /\ TypeOK' /\ Grows
    BY <1>2, NextTyped, NextOwned, NextKeepsHandshake, NextPorts, NextEnds, NextGrows
    DEF ReferenceInv, RequestInv
  <2>2. TargetsStand /\ ProxiesAreSound'
    BY <1>2, <2>1, NextProxies DEF ReferenceInv, RequestInv
  <2>3. OneIdPerActor' /\ NamesAreSound'
    BY <1>2, <2>1, NextOneId, NextNames DEF ReferenceInv, RequestInv
  <2>4. TrafficIsSound'
    BY <1>2, <2>1, <2>2, NextTraffic DEF ReferenceInv, RequestInv
  <2>5. AskersAreSound' /\ ClosuresAreSound'
    BY <1>2, <2>1, NextAskers, NextClosures DEF ReferenceInv, RequestInv
  <2>6. ReceivedAsSent' /\ ProxyOutlivedByActorOnly'
    BY <1>2, <2>1, NextReceived, NextOutlived DEF ReferenceInv, RequestInv
  <2>. QED
    BY <2>1, <2>2, <2>3, <2>4, <2>5, <2>6 DEF ReferenceInv
<1>. QED
  BY <1>1, <1>2, PTL DEF Spec

(* What means an actor of a side stands for one, with the key of whichever *)
(* portal is open.                                                         *)
LEMMA MeantIdsStand ==
  ASSUME TypeOK, HandshakeInv, NEW s \in Side, NEW rid, Means(s, rid)
  PROVE  StandsFor(s, rid)
BY OpenKey DEF Means, StandsFor

(* So do the ids in a message that is sound, on the wire or in a mailbox.  *)
LEMMA SentIdsStand ==
  ASSUME TypeOK, HandshakeInv, NEW s \in Side, NEW e, FrameIsSound(s, e), e.type \in ContentTypes
  PROVE  IdsStand(s, e)
<1>1. ASSUME NEW rid \in OwnIds(e)
      PROVE  Means(s, rid)
  BY <1>1 DEF OwnIds, FrameIsSound, ResponseIsSound, Conveys, ContentTypes
<1>2. ASSUME NEW rid \in PeersIds(e)
      PROVE  Means(Peer(s), rid)
  BY <1>2 DEF PeersIds, FrameIsSound, ContentTypes
<1>. QED
  BY <1>1, <1>2, PeerFacts, MeantIdsStand DEF IdsStand

(* And what was cast to a portal on its own side.                          *)
LEMMA MailedIdsStand ==
  ASSUME TypeOK, HandshakeInv, ClosuresAreSound, NEW s \in Side, NEW e, MailIsSound(s, e),
         e.type \notin ContentTypes
  PROVE  IdsStand(s, e)
<1>1. ASSUME NEW rid \in OwnIds(e)
      PROVE  Means(s, rid)
  BY <1>1 DEF OwnIds, MailIsSound, Conveys, ContentTypes
<1>2. ASSUME NEW rid \in PeersIds(e)
      PROVE  Means(Peer(s), rid)
  BY <1>2 DEF PeersIds, MailIsSound, Conveys, ContentTypes, ClosuresAreSound
<1>. QED
  BY <1>1, <1>2, PeerFacts, MeantIdsStand DEF IdsStand

(* publish_actor gives an actor one id, and every id that is used has been *)
(* given to an actor by its side: those that proxies, names and            *)
(* serialization tasks hold, and those in the messages on the wire and in  *)
(* the mailboxes.  The branches of the portal that look up an id find it.  *)
THEOREM IdsStandForActors == Spec => []IdsAreSound
<1>1. ASSUME ReferenceInv
      PROVE  IdsAreSound
  <2>. USE <1>1 DEF ReferenceInv, RequestInv
  <2>1. ASSUME NEW s \in Side, NEW p \in Proxy, proxy[s][p].target # None
        PROVE  StandsFor(Peer(s), proxy[s][p].target)
    BY <2>1, PeerFacts, MeantIdsStand DEF ProxiesAreSound
  <2>2. ASSUME NEW s \in Side, NEW n \in DOMAIN named[s]
        PROVE  named[s][n] \in DOMAIN published[s]
    BY DEF NamesAreSound
  <2>3. ASSUME NEW s \in Side, NEW m \in Msg, task[s][m].state = "encoded", task[s][m].id # None
        PROVE  StandsFor(s, task[s][m].id)
    <3>1. Conveys(s, sent[s][m].target, [msg |-> m, ref |-> task[s][m].id])
      BY <2>3 DEF ClosuresAreSound
    <3>2. Means(s, task[s][m].id)
      BY <2>3, <3>1 DEF Conveys
    <3>. QED
      BY <3>2, MeantIdsStand
  <2>4. ASSUME NEW s \in Side, NEW i \in DOMAIN wire[s]
        PROVE  IdsStand(s, wire[s][i])
    <3>1. FrameIsSound(s, wire[s][i])
      BY DEF TrafficIsSound
    <3>2. wire[s][i] \in ConduitMessage
      BY EachElement DEF TypeOK
    <3>3. CASE wire[s][i].type \notin ContentTypes
      BY <3>2, <3>3 DEF ConduitMessage, Contents, Handshakes, ContentTypes, IdsStand, OwnIds, PeersIds
    <3>. QED
      BY <3>1, <3>3, SentIdsStand
  <2>5. ASSUME NEW s \in Side, NEW i \in DOMAIN mailbox[s]
        PROVE  IdsStand(IF mailbox[s][i].type \in ContentTypes THEN Peer(s) ELSE s, mailbox[s][i])
    <3>1. FrameIsSound(Peer(s), mailbox[s][i]) /\ MailIsSound(s, mailbox[s][i])
      BY DEF TrafficIsSound
    <3>. QED
      BY <3>1, PeerFacts, SentIdsStand, MailedIdsStand
  <2>. QED
    BY <2>1, <2>2, <2>3, <2>4, <2>5 DEF IdsAreSound, NoDanglingId
<1>. QED
  BY <1>1, ReferenceInvariant, PTL

(* However requests and responses interleave, a query is answered with an  *)
(* actor that the other side offered under the name it asked for.          *)
THEOREM QueriesAreAnswered == Spec => []AnswersTheQuestion
<1>1. ReferenceInv => AnswersTheQuestion
  BY PeerFacts DEF ReferenceInv, AnswersTheQuestion, AskersAreSound, IsAnswer, Means
<1>. QED
  BY <1>1, ReferenceInvariant, PTL

(* A name that the peer knew when the query was made, from its portal or   *)
(* its nexus, is found when the query is answered.                         *)
THEOREM KnownNamesAreFound == Spec => []PublishedNamesAreFound
<1>1. ReferenceInv => PublishedNamesAreFound
  BY DEF ReferenceInv, PublishedNamesAreFound, AskersAreSound, IsAnswer
<1>. QED
  BY <1>1, ReferenceInvariant, PTL

(* While its portal runs, a proxy is stopped only after the actor it       *)
(* stands for has ended.                                                   *)
THEOREM ProxiesStopWithActor == Spec => []ProxyOutlivedByActorOnly
<1>1. ReferenceInv => ProxyOutlivedByActorOnly
  BY DEF ReferenceInv
<1>. QED
  BY <1>1, ReferenceInvariant, PTL

(* What an actor receives was sent to a proxy of that actor, and the       *)
(* reference in it means the actor the sender put in.                      *)
THEOREM MessagesMeanTheSame == Spec => []ReceivedAsSent
<1>1. ReferenceInv => ReceivedAsSent
  BY DEF ReferenceInv
<1>. QED
  BY <1>1, ReferenceInvariant, PTL
-----------------------------------------------------------------------------
(* The way of a message from the proxy it is handed to, through the        *)
(* serialization task, the mailbox and the wire, to one actor, once.       *)

(* Copies, of the state after a step. *)
CopiesNext(l, m) ==
  LET s == l[2]
  IN CASE l[1] = "mailbox" -> Carriers(mailbox'[s], m)
       [] l[1] = "wire" -> Carriers(wire'[s], m)
       [] l[1] = "task" -> IF IsEncoded(task'[s][m].state) THEN {0} ELSE {}
       [] l[1] = "inbox" -> Arrivals(inbox'[s][l[3]], m)

MailOf(s) == <<"mailbox", s, None>>
WireOf(s) == <<"wire", s, None>>
TaskOf(s) == <<"task", s, None>>
InboxOf(s, a) == <<"inbox", s, a>>

(* The places there are, and what each holds of a message. *)
LEMMA Places ==
  /\ \A l \in Place : \E s \in Side : \/ l = MailOf(s) \/ l = WireOf(s) \/ l = TaskOf(s)
                                      \/ \E a \in Actor : l = InboxOf(s, a)
  /\ \A s \in Side : MailOf(s) \in Place /\ WireOf(s) \in Place /\ TaskOf(s) \in Place
  /\ \A s \in Side, a \in Actor : InboxOf(s, a) \in Place
  /\ \A s, r \in Side : /\ MailOf(r) = MailOf(s) => r = s
                        /\ WireOf(r) = WireOf(s) => r = s
                        /\ TaskOf(r) = TaskOf(s) => r = s
                        /\ MailOf(r) # TaskOf(s) /\ MailOf(r) # WireOf(s) /\ WireOf(r) # TaskOf(s)
  /\ \A s, r \in Side, a, b \in Actor :
       /\ MailOf(r) # InboxOf(s, a) /\ WireOf(r) # InboxOf(s, a) /\ TaskOf(r) # InboxOf(s, a)
       /\ InboxOf(s, a) = InboxOf(r, b) => r = s /\ a = b
<1>1. \A l \in Place : \E s \in Side : \/ l = MailOf(s) \/ l = WireOf(s) \/ l = TaskOf(s)
                                       \/ \E a \in Actor : l = InboxOf(s, a)
  BY DEF Place, MailOf, WireOf, TaskOf, InboxOf
<1>2. \A s \in Side : MailOf(s) \in Place /\ WireOf(s) \in Place /\ TaskOf(s) \in Place
  BY DEF Place, MailOf, WireOf, TaskOf
<1>3. \A s \in Side, a \in Actor : InboxOf(s, a) \in Place
  BY DEF Place, InboxOf
<1>4. \A s, r \in Side : /\ MailOf(r) = MailOf(s) => r = s
                         /\ WireOf(r) = WireOf(s) => r = s
                         /\ TaskOf(r) = TaskOf(s) => r = s
                         /\ MailOf(r) # TaskOf(s) /\ MailOf(r) # WireOf(s) /\ WireOf(r) # TaskOf(s)
  BY DEF MailOf, WireOf, TaskOf
<1>5. \A s, r \in Side, a, b \in Actor :
        /\ MailOf(r) # InboxOf(s, a) /\ WireOf(r) # InboxOf(s, a) /\ TaskOf(r) # InboxOf(s, a)
        /\ InboxOf(s, a) = InboxOf(r, b) => r = s /\ a = b
  BY DEF MailOf, WireOf, TaskOf, InboxOf
<1>. QED
  BY <1>1, <1>2, <1>3, <1>4, <1>5

(* What each holds of a message, before a step and after it. *)
LEMMA PlaceHolds ==
  ASSUME NEW m
  PROVE  /\ \A s \in Side :
              /\ Copies(MailOf(s), m) = Carriers(mailbox[s], m)
              /\ CopiesNext(MailOf(s), m) = Carriers(mailbox'[s], m)
              /\ Copies(WireOf(s), m) = Carriers(wire[s], m)
              /\ CopiesNext(WireOf(s), m) = Carriers(wire'[s], m)
              /\ Copies(TaskOf(s), m) = IF IsEncoded(task[s][m].state) THEN {0} ELSE {}
              /\ CopiesNext(TaskOf(s), m) = IF IsEncoded(task'[s][m].state) THEN {0} ELSE {}
         /\ \A s \in Side, a \in Actor :
              /\ Copies(InboxOf(s, a), m) = Arrivals(inbox[s][a], m)
              /\ CopiesNext(InboxOf(s, a), m) = Arrivals(inbox'[s][a], m)
<1>1. \A s \in Side : /\ Copies(MailOf(s), m) = Carriers(mailbox[s], m)
                      /\ CopiesNext(MailOf(s), m) = Carriers(mailbox'[s], m)
  BY DEF Copies, CopiesNext, MailOf
<1>2. \A s \in Side : /\ Copies(WireOf(s), m) = Carriers(wire[s], m)
                      /\ CopiesNext(WireOf(s), m) = Carriers(wire'[s], m)
  BY DEF Copies, CopiesNext, WireOf
<1>3. \A s \in Side : /\ Copies(TaskOf(s), m) = IF IsEncoded(task[s][m].state) THEN {0} ELSE {}
                      /\ CopiesNext(TaskOf(s), m) = IF IsEncoded(task'[s][m].state) THEN {0} ELSE {}
  BY DEF Copies, CopiesNext, TaskOf
<1>4. \A s \in Side, a \in Actor : /\ Copies(InboxOf(s, a), m) = Arrivals(inbox[s][a], m)
                                   /\ CopiesNext(InboxOf(s, a), m) = Arrivals(inbox'[s][a], m)
  BY DEF Copies, CopiesNext, InboxOf
<1>. QED
  BY <1>1, <1>2, <1>3, <1>4

(* What a step does to the copies of a message in a place: it adds none,   *)
(* it takes the only one away, or it puts one where there was none.        *)
Fewer(S, T) == (AtMostOne(S) => AtMostOne(T)) /\ (S = {} => T = {})
FewerAt(l, m) == Fewer(Copies(l, m), CopiesNext(l, m))
LostAt(l, m) ==
  Copies(l, m) # {} /\ (AtMostOne(Copies(l, m)) => CopiesNext(l, m) = {})
GainedAt(l, m) == Copies(l, m) = {} => AtMostOne(CopiesNext(l, m))
Moved(m, k, l) ==
  /\ k # l /\ LostAt(k, m) /\ GainedAt(l, m)
  /\ \A j \in Place : j = k \/ j = l \/ FewerAt(j, m)
Handed(m, l) ==
  /\ m \notin MessagesSent /\ GainedAt(l, m)
  /\ \A j \in Place : j = l \/ FewerAt(j, m)

(* A message that moves from place to place is in one of them.             *)
LEMMA CopyKept ==
  ASSUME OneCopy,
         \A m \in Msg : /\ m \in MessagesSent => m \in MessagesSent'
                        /\ \/ \A l \in Place : FewerAt(l, m)
                           \/ \E k, l \in Place : Moved(m, k, l)
                           \/ m \in MessagesSent' /\ \E l \in Place : Handed(m, l)
  PROVE  OneCopy'
<1>. SUFFICES ASSUME NEW m \in Msg
              PROVE  /\ \A k, l \in Place : CopiesNext(k, m) # {} /\ CopiesNext(l, m) # {} => k = l
                     /\ \A l \in Place : /\ AtMostOne(CopiesNext(l, m))
                                         /\ CopiesNext(l, m) # {} => m \in MessagesSent'
  BY DEF OneCopy, Copies, CopiesNext
<1>1. /\ \A k, l \in Place : Copies(k, m) # {} /\ Copies(l, m) # {} => k = l
      /\ \A l \in Place : AtMostOne(Copies(l, m)) /\ (Copies(l, m) # {} => m \in MessagesSent)
  BY DEF OneCopy
<1>2. m \in MessagesSent => m \in MessagesSent'
  OBVIOUS
<1>3. AtMostOne({})
  BY DEF AtMostOne
<1>4. CASE \A l \in Place : FewerAt(l, m)
  BY <1>1, <1>2, <1>4 DEF FewerAt, Fewer
<1>5. ASSUME NEW k \in Place, NEW l \in Place, Moved(m, k, l)
      PROVE  /\ \A i, j \in Place : CopiesNext(i, m) # {} /\ CopiesNext(j, m) # {} => i = j
             /\ \A j \in Place : /\ AtMostOne(CopiesNext(j, m))
                                 /\ CopiesNext(j, m) # {} => m \in MessagesSent'
  <2>1. Copies(k, m) # {} /\ m \in MessagesSent' /\ CopiesNext(k, m) = {}
    BY <1>1, <1>2, <1>5 DEF Moved, LostAt
  <2>2. \A j \in Place : j # k => Copies(j, m) = {}
    BY <1>1, <2>1
  <2>3. AtMostOne(CopiesNext(l, m))
    BY <1>5, <2>2 DEF Moved, GainedAt
  <2>4. \A j \in Place : j # l => CopiesNext(j, m) = {}
    BY <1>5, <2>1, <2>2 DEF Moved, FewerAt, Fewer
  <2>. QED
    BY <1>3, <2>1, <2>3, <2>4
<1>6. ASSUME NEW l \in Place, Handed(m, l), m \in MessagesSent'
      PROVE  /\ \A i, j \in Place : CopiesNext(i, m) # {} /\ CopiesNext(j, m) # {} => i = j
             /\ \A j \in Place : /\ AtMostOne(CopiesNext(j, m))
                                 /\ CopiesNext(j, m) # {} => m \in MessagesSent'
  <2>1. \A j \in Place : Copies(j, m) = {}
    BY <1>1, <1>6 DEF Handed
  <2>2. AtMostOne(CopiesNext(l, m)) /\ \A j \in Place : j # l => CopiesNext(j, m) = {}
    BY <1>6, <2>1 DEF Handed, GainedAt, FewerAt, Fewer
  <2>. QED
    BY <1>3, <1>6, <2>2
<1>. QED
  BY <1>4, <1>5, <1>6
-----------------------------------------------------------------------------
(* Where a message stands in a queue when its head is taken, or something  *)
(* is appended.                                                            *)
LEMMA QueueCarriers ==
  ASSUME NEW S, NEW q \in Seq(S), NEW m
  PROVE  /\ q # <<>> => Fewer(Carriers(q, m), Carriers(Tail(q), m))
         /\ q # <<>> /\ Carries(Head(q), m) =>
              /\ Carriers(q, m) # {}
              /\ AtMostOne(Carriers(q, m)) => Carriers(Tail(q), m) = {}
         /\ \A e : /\ ~Carries(e, m) => Carriers(Append(q, e), m) = Carriers(q, m)
                   /\ Carriers(q, m) = {} => AtMostOne(Carriers(Append(q, e), m))
         /\ Carriers(<<>>, m) = {}
<1>1. ASSUME q # <<>>
      PROVE  /\ Fewer(Carriers(q, m), Carriers(Tail(q), m))
             /\ Carries(Head(q), m) =>
                  /\ Carriers(q, m) # {}
                  /\ AtMostOne(Carriers(q, m)) => Carriers(Tail(q), m) = {}
  <2>. DEFINE M == Carriers(q, m)
              T == Carriers(Tail(q), m)
  <2>1. /\ 1 \in DOMAIN q /\ Head(q) = q[1]
        /\ \A i \in DOMAIN Tail(q) : /\ i \in Nat /\ i + 1 \in DOMAIN q /\ i + 1 # 1
                                     /\ Tail(q)[i] = q[i + 1]
    BY <1>1, TailElements
  <2>2. \A i \in T : i \in Nat /\ i + 1 \in M /\ i + 1 # 1
    BY <2>1 DEF Carriers
  <2>3. Carries(Head(q), m) => 1 \in M
    BY <2>1 DEF Carriers
  <2>. HIDE DEF M, T
  <2>4. AtMostOne(M) => AtMostOne(T)
    BY <2>2 DEF AtMostOne
  <2>5. M = {} => T = {}
    BY <2>2
  <2>6. ASSUME Carries(Head(q), m)
        PROVE  M # {} /\ (AtMostOne(M) => T = {})
    BY <2>2, <2>3, <2>6 DEF AtMostOne
  <2>. QED
    BY <2>4, <2>5, <2>6 DEF Fewer, M, T
<1>2. ASSUME NEW e
      PROVE  /\ ~Carries(e, m) => Carriers(Append(q, e), m) = Carriers(q, m)
             /\ Carriers(q, m) = {} => AtMostOne(Carriers(Append(q, e), m))
  <2>. DEFINE a == Append(q, e)
              l == Len(q) + 1
  <2>1. /\ DOMAIN a = DOMAIN q \cup {l} /\ l \notin DOMAIN q
        /\ \A i \in DOMAIN q : a[i] = q[i]
        /\ a[l] = e
    BY AppendPositions
  <2>. HIDE DEF a, l
  <2>2. ~Carries(e, m) => Carriers(a, m) = Carriers(q, m)
    BY <2>1 DEF Carriers
  <2>3. Carriers(q, m) = {} => AtMostOne(Carriers(a, m))
    BY <2>1 DEF Carriers, AtMostOne
  <2>. QED
    BY <2>2, <2>3 DEF a
<1>3. Carriers(<<>>, m) = {}
  BY NoElements DEF Carriers
<1>. QED
  BY <1>1, <1>2, <1>3

(* What an actor receives is the end of its inbox. *)
LEMMA InboxArrivals ==
  ASSUME NEW S, NEW q \in Seq(S), NEW m, NEW p
  PROVE  /\ p.msg # m => Arrivals(Append(q, p), m) = Arrivals(q, m)
         /\ Arrivals(q, m) = {} => AtMostOne(Arrivals(Append(q, p), m))
<1>. DEFINE a == Append(q, p)
            l == Len(q) + 1
<1>1. /\ DOMAIN a = DOMAIN q \cup {l} /\ l \notin DOMAIN q
      /\ \A i \in DOMAIN q : a[i] = q[i]
      /\ a[l] = p
  BY AppendPositions
<1>. HIDE DEF a, l
<1>2. p.msg # m => Arrivals(a, m) = Arrivals(q, m)
  BY <1>1 DEF Arrivals
<1>3. Arrivals(q, m) = {} => AtMostOne(Arrivals(a, m))
  BY <1>1 DEF Arrivals, AtMostOne
<1>. QED
  BY <1>2, <1>3 DEF a

(* Steps that put no copy of message m anywhere. *)
MailDrops(s, m) ==
  \/ UNCHANGED mailbox
  \/ mailbox' = [mailbox EXCEPT ![s] = <<>>]
  \/ mailbox[s] # <<>> /\ Done(s)
  \/ \E e : ~Carries(e, m) /\ (Cast(s, e) \/ (mailbox[s] # <<>> /\ DoneThenCast(s, e)))
WireDrops(s, m) ==
  \/ UNCHANGED wire
  \/ \E f : ~Carries(f, m) /\ Sends(s, f)
  \/ wire[Peer(s)] # <<>> /\ wire' = [wire EXCEPT ![Peer(s)] = Tail(@)]
  \/ wire' = [wire EXCEPT ![Peer(s)] = <<>>]
TaskDrops(m) ==
  \A r \in Side : IsEncoded(task'[r][m].state) => IsEncoded(task[r][m].state)
InboxDrops(m) ==
  \A r \in Side, a \in Actor :
    \/ inbox'[r][a] = inbox[r][a]
    \/ \E p : p.msg # m /\ inbox'[r][a] = Append(inbox[r][a], p)

(* A place that is left alone, or emptied, holds no more than it did. *)
LEMMA FewerSame == \A S : Fewer(S, S) /\ Fewer(S, {})
BY DEF Fewer, AtMostOne

(* A queue a message is not put in holds it no more often than before. *)
LEMMA QueueFewer ==
  ASSUME NEW S, NEW q \in Seq(S), NEW m, NEW p,
         \/ p = q
         \/ p = <<>>
         \/ q # <<>> /\ p = Tail(q)
         \/ \E e : ~Carries(e, m) /\ p = Append(q, e)
  PROVE  Fewer(Carriers(q, m), Carriers(p, m))
<1>1. CASE p = <<>>
  <2>1. Carriers(p, m) = {}
    BY <1>1, QueueCarriers
  <2>. QED
    BY <2>1, FewerSame
<1>2. CASE q # <<>> /\ p = Tail(q)
  BY <1>2, QueueCarriers
<1>3. ASSUME NEW e, ~Carries(e, m), p = Append(q, e)
      PROVE  Fewer(Carriers(q, m), Carriers(p, m))
  <2>1. Carriers(p, m) = Carriers(q, m)
    BY <1>3, QueueCarriers
  <2>. QED
    BY <2>1, FewerSame
<1>. QED
  BY <1>1, <1>2, <1>3, FewerSame

(* The same of the mailboxes of the portals (portal.rs)... *)
LEMMA MailFewer ==
  ASSUME TypeOK, NEW s \in Side, NEW m, MailDrops(s, m), NEW r \in Side
  PROVE  FewerAt(MailOf(r), m)
<1>. SUFFICES Fewer(Carriers(mailbox[r], m), Carriers(mailbox'[r], m))
  BY PlaceHolds DEF FewerAt
<1>1. mailbox \in [Side -> Seq(PortalActorMessage)] /\ mailbox[r] \in Seq(PortalActorMessage)
      /\ mailbox[s] \in Seq(PortalActorMessage)
  BY DEF TypeOK
<1>2. CASE mailbox'[r] = mailbox[r]
  BY <1>2, FewerSame
<1>3. CASE mailbox' = [mailbox EXCEPT ![s] = <<>>] /\ r = s
  <2>1. mailbox'[r] = <<>>
    BY <1>1, <1>3
  <2>. QED
    BY <1>1, <2>1, QueueFewer
<1>4. CASE mailbox[s] # <<>> /\ Done(s) /\ r = s
  <2>1. mailbox'[r] = Tail(mailbox[r])
    BY <1>1, <1>4 DEF Done
  <2>. QED
    BY <1>1, <1>4, <2>1, QueueCarriers
<1>5. ASSUME NEW e, ~Carries(e, m), Cast(s, e), r = s
      PROVE  Fewer(Carriers(mailbox[r], m), Carriers(mailbox'[r], m))
  <2>1. mailbox'[r] = Append(mailbox[r], e)
    BY <1>1, <1>5 DEF Cast
  <2>. QED
    BY <1>1, <1>5, <2>1, QueueCarriers, FewerSame
<1>6. ASSUME NEW e, ~Carries(e, m), mailbox[s] # <<>>, DoneThenCast(s, e), r = s
      PROVE  Fewer(Carriers(mailbox[r], m), Carriers(mailbox'[r], m))
  <2>1. PICK rest : rest = Tail(mailbox[r])
    OBVIOUS
  <2>2. mailbox'[r] = Append(rest, e) /\ rest \in Seq(PortalActorMessage)
    BY <1>1, <1>6, <2>1, TailElements DEF DoneThenCast
  <2>3. Carriers(mailbox'[r], m) = Carriers(rest, m)
    BY <1>6, <2>2, QueueCarriers
  <2>. QED
    BY <1>1, <1>6, <2>1, <2>3, QueueCarriers
<1>7. r # s /\ ~UNCHANGED mailbox => mailbox'[r] = mailbox[r]
  BY <1>1 DEF MailDrops, Done, Cast, DoneThenCast
<1>. QED
  BY <1>2, <1>3, <1>4, <1>5, <1>6, <1>7 DEF MailDrops

(* ... of the frames on the conduit ... *)
LEMMA WireFewer ==
  ASSUME TypeOK, NEW s \in Side, NEW m, WireDrops(s, m), NEW r \in Side
  PROVE  FewerAt(WireOf(r), m)
<1>. SUFFICES Fewer(Carriers(wire[r], m), Carriers(wire'[r], m))
  BY PlaceHolds DEF FewerAt
<1>1. wire \in [Side -> Seq(ConduitMessage)] /\ wire[r] \in Seq(ConduitMessage)
      /\ Peer(s) \in Side
  BY PeerFacts DEF TypeOK
<1>2. CASE wire'[r] = wire[r]
  BY <1>2, FewerSame
<1>3. ASSUME NEW f, ~Carries(f, m), Sends(s, f)
      PROVE  Fewer(Carriers(wire[r], m), Carriers(wire'[r], m))
  <2>1. wire'[r] = wire[r] \/ wire'[r] = Append(wire[r], f)
    BY <1>1, <1>3 DEF Sends
  <2>. QED
    BY <1>1, <1>3, <2>1, QueueFewer
<1>4. CASE wire[Peer(s)] # <<>> /\ wire' = [wire EXCEPT ![Peer(s)] = Tail(@)]
  <2>1. wire'[r] = wire[r] \/ (wire[r] # <<>> /\ wire'[r] = Tail(wire[r]))
    BY <1>1, <1>4
  <2>. QED
    BY <1>1, <2>1, QueueFewer
<1>5. CASE wire' = [wire EXCEPT ![Peer(s)] = <<>>]
  <2>1. wire'[r] = wire[r] \/ wire'[r] = <<>>
    BY <1>1, <1>5
  <2>. QED
    BY <1>1, <2>1, QueueFewer
<1>. QED
  BY <1>2, <1>3, <1>4, <1>5 DEF WireDrops

(* ... of the tasks of ImmaterializeMessage ... *)
LEMMA TaskFewer ==
  ASSUME NEW m, TaskDrops(m), NEW r \in Side
  PROVE  FewerAt(TaskOf(r), m)
BY PlaceHolds DEF FewerAt, Fewer, TaskDrops, AtMostOne

(* ... and of what the local actors have received. *)
LEMMA InboxFewer ==
  ASSUME TypeOK, NEW m, InboxDrops(m), NEW r \in Side, NEW a \in Actor
  PROVE  FewerAt(InboxOf(r, a), m)
<1>1. inbox[r][a] \in Seq(Payload)
  BY DEF TypeOK
<1>2. ASSUME NEW p, p.msg # m, inbox'[r][a] = Append(inbox[r][a], p)
      PROVE  Arrivals(inbox'[r][a], m) = Arrivals(inbox[r][a], m)
  <2>1. PICK q \in Seq(Payload) : q = inbox[r][a]
    BY <1>1
  <2>2. Arrivals(Append(q, p), m) = Arrivals(q, m)
    BY <1>2, InboxArrivals
  <2>. QED
    BY <1>2, <2>1, <2>2
<1>3. Fewer(Arrivals(inbox[r][a], m), Arrivals(inbox'[r][a], m))
  BY <1>2, FewerSame DEF InboxDrops
<1>. QED
  BY <1>3, PlaceHolds DEF FewerAt

(* A step that puts no copy anywhere leaves no more than there were. *)
Drops(s, m) == MailDrops(s, m) /\ WireDrops(s, m) /\ TaskDrops(m) /\ InboxDrops(m)

(* So a step that hands the message to nobody leaves it once at most. *)
LEMMA DropsFewer ==
  ASSUME TypeOK, NEW s \in Side, NEW m, Drops(s, m)
  PROVE  \A l \in Place : FewerAt(l, m)
<1>1. ASSUME NEW r \in Side
      PROVE  FewerAt(MailOf(r), m) /\ FewerAt(WireOf(r), m) /\ FewerAt(TaskOf(r), m)
  BY MailFewer, WireFewer, TaskFewer DEF Drops
<1>2. ASSUME NEW r \in Side, NEW a \in Actor
      PROVE  FewerAt(InboxOf(r, a), m)
  BY InboxFewer DEF Drops
<1>3. ASSUME NEW l \in Place
      PROVE  FewerAt(l, m)
  <2>1. PICK r \in Side : \/ l = MailOf(r) \/ l = WireOf(r) \/ l = TaskOf(r)
                         \/ \E a \in Actor : l = InboxOf(r, a)
    BY <1>3, Places
  <2>. QED
    BY <1>1, <1>2, <2>1
<1>. QED
  BY <1>3

(* The portal takes the message off its mailbox, or gets it there.         *)
LEMMA MailLost ==
  ASSUME TypeOK, NEW s \in Side, NEW m, mailbox[s] # <<>>, Carries(Head(mailbox[s]), m),
         Done(s) \/ \E e : ~Carries(e, m) /\ DoneThenCast(s, e)
  PROVE  LostAt(MailOf(s), m)
<1>1. mailbox[s] \in Seq(PortalActorMessage) /\ mailbox \in [Side -> Seq(PortalActorMessage)]
  BY DEF TypeOK
<1>2. PICK rest : rest = Tail(mailbox[s])
  OBVIOUS
<1>3. rest \in Seq(PortalActorMessage)
  BY <1>1, <1>2, TailElements
<1>4. mailbox'[s] = rest \/ \E e : ~Carries(e, m) /\ mailbox'[s] = Append(rest, e)
  BY <1>1, <1>2 DEF Done, DoneThenCast
<1>5. Fewer(Carriers(rest, m), Carriers(mailbox'[s], m))
  BY <1>3, <1>4, QueueFewer
<1>6. Carriers(mailbox[s], m) # {} /\ (AtMostOne(Carriers(mailbox[s], m)) => Carriers(rest, m) = {})
  BY <1>1, <1>2, QueueCarriers, Zenon
<1>. QED
  BY <1>5, <1>6, PlaceHolds DEF LostAt, Fewer

(* A message handed to a portal (send_message) is in its mailbox once. *)
LEMMA MailGained ==
  ASSUME TypeOK, NEW s \in Side, NEW m, NEW e, Cast(s, e)
  PROVE  /\ GainedAt(MailOf(s), m)
         /\ \A r \in Side : r # s => FewerAt(MailOf(r), m)
<1>1. mailbox[s] \in Seq(PortalActorMessage)
      /\ mailbox'[s] = Append(mailbox[s], e) /\ \A r \in Side : r # s => mailbox'[r] = mailbox[r]
  BY DEF TypeOK, Cast
<1>2. Carriers(mailbox[s], m) = {} => AtMostOne(Carriers(mailbox'[s], m))
  BY <1>1, QueueCarriers
<1>3. GainedAt(MailOf(s), m)
  BY <1>2, PlaceHolds DEF GainedAt
<1>4. ASSUME NEW r \in Side, r # s
      PROVE  FewerAt(MailOf(r), m)
  <2>1. Fewer(Carriers(mailbox[r], m), Carriers(mailbox'[r], m))
    BY <1>1, <1>4, FewerSame
  <2>. QED
    BY <2>1, PlaceHolds DEF FewerAt
<1>. QED
  BY <1>3, <1>4

(* The receive loop takes the message off the wire, or the portal puts it  *)
(* there.                                                                  *)
LEMMA WireLost ==
  ASSUME TypeOK, NEW s \in Side, NEW m, wire[s] # <<>>, Carries(Head(wire[s]), m),
         wire' = [wire EXCEPT ![s] = Tail(@)]
  PROVE  LostAt(WireOf(s), m)
<1>1. wire[s] \in Seq(ConduitMessage) /\ wire'[s] = Tail(wire[s])
  BY DEF TypeOK
<1>2. Carriers(wire[s], m) # {} /\ (AtMostOne(Carriers(wire[s], m)) => Carriers(wire'[s], m) = {})
  BY <1>1, QueueCarriers
<1>. QED
  BY <1>2, PlaceHolds DEF LostAt

(* The same, of what a portal writes to the wire. *)
LEMMA WireGained ==
  ASSUME TypeOK, NEW s \in Side, NEW m, NEW f, Sends(s, f)
  PROVE  /\ GainedAt(WireOf(s), m)
         /\ \A r \in Side : r # s => FewerAt(WireOf(r), m)
<1>1. wire[s] \in Seq(ConduitMessage)
      /\ (wire'[s] = Append(wire[s], f) \/ wire'[s] = wire[s])
      /\ \A r \in Side : r # s => wire'[r] = wire[r]
  BY DEF TypeOK, Sends
<1>2. AtMostOne({})
  BY DEF AtMostOne
<1>3. Carriers(wire[s], m) = {} => AtMostOne(Carriers(wire'[s], m))
  <2>1. Carriers(wire[s], m) = {} => AtMostOne(Carriers(Append(wire[s], f), m))
    BY <1>1, QueueCarriers
  <2>. QED
    BY <1>1, <1>2, <2>1
<1>4. GainedAt(WireOf(s), m)
  BY <1>3, PlaceHolds DEF GainedAt
<1>5. ASSUME NEW r \in Side, r # s
      PROVE  FewerAt(WireOf(r), m)
  <2>1. Fewer(Carriers(wire[r], m), Carriers(wire'[r], m))
    BY <1>1, <1>5, FewerSame
  <2>. QED
    BY <2>1, PlaceHolds DEF FewerAt
<1>. QED
  BY <1>4, <1>5

(* A serialization task ends, or goes on with the message. *)
LEMMA TaskLost ==
  ASSUME NEW s \in Side, NEW m, IsEncoded(task[s][m].state), ~IsEncoded(task'[s][m].state)
  PROVE  LostAt(TaskOf(s), m)
BY PlaceHolds DEF LostAt

(* A message in a task is there once. *)
LEMMA TaskGained ==
  ASSUME NEW s \in Side, NEW m
  PROVE  GainedAt(TaskOf(s), m)
BY PlaceHolds DEF GainedAt, AtMostOne

(* An actor receives the message. *)
LEMMA InboxGained ==
  ASSUME TypeOK, NEW s \in Side, NEW a \in Actor, NEW m, NEW p,
         inbox' = [inbox EXCEPT ![s][a] = Append(@, p)]
  PROVE  /\ GainedAt(InboxOf(s, a), m)
         /\ \A r \in Side, b \in Actor : r # s \/ b # a => FewerAt(InboxOf(r, b), m)
<1>1. inbox[s][a] \in Seq(Payload) /\ inbox'[s][a] = Append(inbox[s][a], p)
      /\ \A r \in Side, b \in Actor : r # s \/ b # a => inbox'[r][b] = inbox[r][b]
  BY DEF TypeOK
<1>2. Arrivals(inbox[s][a], m) = {} => AtMostOne(Arrivals(inbox'[s][a], m))
  BY <1>1, InboxArrivals
<1>3. GainedAt(InboxOf(s, a), m)
  BY <1>2, PlaceHolds DEF GainedAt
<1>4. ASSUME NEW r \in Side, NEW b \in Actor, r # s \/ b # a
      PROVE  FewerAt(InboxOf(r, b), m)
  <2>1. Fewer(Arrivals(inbox[r][b], m), Arrivals(inbox'[r][b], m))
    BY <1>1, <1>4, FewerSame
  <2>. QED
    BY <2>1, PlaceHolds DEF FewerAt
<1>. QED
  BY <1>3, <1>4

(* A step that puts a copy in one place puts none in the others.           *)
ReachesMail(s, m) ==
  (\E e : Cast(s, e)) /\ WireDrops(s, m) /\ TaskDrops(m) /\ InboxDrops(m)
ReachesWire(s, m) ==
  (\E f : Sends(s, f)) /\ MailDrops(s, m) /\ TaskDrops(m) /\ InboxDrops(m)
ReachesTask(s, m) ==
  /\ MailDrops(s, m) /\ WireDrops(s, m) /\ InboxDrops(m)
  /\ \A r \in Side : r # s => task'[r][m] = task[r][m]
ReachesInbox(s, a, m) ==
  /\ MailDrops(s, m) /\ WireDrops(s, m) /\ TaskDrops(m)
  /\ \E p : inbox' = [inbox EXCEPT ![s][a] = Append(@, p)]
FewerElsewhere(l, m) == GainedAt(l, m) /\ \A j \in Place : j = l \/ FewerAt(j, m)

(* A step that casts the message puts it in one mailbox, nowhere else. *)
LEMMA MailReached ==
  ASSUME TypeOK, NEW s \in Side, NEW m, ReachesMail(s, m)
  PROVE  FewerElsewhere(MailOf(s), m)
<1>1. PICK e : Cast(s, e)
  BY DEF ReachesMail
<1>2. GainedAt(MailOf(s), m) /\ \A r \in Side : r # s => FewerAt(MailOf(r), m)
  BY <1>1, MailGained
<1>3. \A r \in Side : FewerAt(WireOf(r), m) /\ FewerAt(TaskOf(r), m)
  BY WireFewer, TaskFewer DEF ReachesMail
<1>4. \A r \in Side, a \in Actor : FewerAt(InboxOf(r, a), m)
  BY InboxFewer DEF ReachesMail
<1>5. ASSUME NEW l \in Place
      PROVE  l = MailOf(s) \/ FewerAt(l, m)
  <2>1. PICK r \in Side : \/ l = MailOf(r) \/ l = WireOf(r) \/ l = TaskOf(r)
                          \/ \E a \in Actor : l = InboxOf(r, a)
    BY <1>5, Places
  <2>. QED
    BY <1>2, <1>3, <1>4, <2>1
<1>. QED
  BY <1>2, <1>5 DEF FewerElsewhere

(* A step that writes it puts it on one wire, nowhere else. *)
LEMMA WireReached ==
  ASSUME TypeOK, NEW s \in Side, NEW m, ReachesWire(s, m)
  PROVE  FewerElsewhere(WireOf(s), m)
<1>1. PICK f : Sends(s, f)
  BY DEF ReachesWire
<1>2. GainedAt(WireOf(s), m) /\ \A r \in Side : r # s => FewerAt(WireOf(r), m)
  BY <1>1, WireGained
<1>3. \A r \in Side : FewerAt(MailOf(r), m) /\ FewerAt(TaskOf(r), m)
  BY MailFewer, TaskFewer DEF ReachesWire
<1>4. \A r \in Side, a \in Actor : FewerAt(InboxOf(r, a), m)
  BY InboxFewer DEF ReachesWire
<1>5. ASSUME NEW l \in Place
      PROVE  l = WireOf(s) \/ FewerAt(l, m)
  <2>1. PICK r \in Side : \/ l = MailOf(r) \/ l = WireOf(r) \/ l = TaskOf(r)
                          \/ \E a \in Actor : l = InboxOf(r, a)
    BY <1>5, Places
  <2>. QED
    BY <1>2, <1>3, <1>4, <2>1
<1>. QED
  BY <1>2, <1>5 DEF FewerElsewhere

(* A portal that spawns its task puts it there, nowhere else. *)
LEMMA TaskReached ==
  ASSUME TypeOK, NEW s \in Side, NEW m, ReachesTask(s, m)
  PROVE  FewerElsewhere(TaskOf(s), m)
<1>1. \A r \in Side : FewerAt(MailOf(r), m) /\ FewerAt(WireOf(r), m)
  BY MailFewer, WireFewer DEF ReachesTask
<1>2. ASSUME NEW r \in Side, r # s
      PROVE  FewerAt(TaskOf(r), m)
  BY <1>2, PlaceHolds DEF FewerAt, Fewer, ReachesTask
<1>3. \A r \in Side, a \in Actor : FewerAt(InboxOf(r, a), m)
  BY InboxFewer DEF ReachesTask
<1>4. ASSUME NEW l \in Place
      PROVE  l = TaskOf(s) \/ FewerAt(l, m)
  <2>1. PICK r \in Side : \/ l = MailOf(r) \/ l = WireOf(r) \/ l = TaskOf(r)
                          \/ \E a \in Actor : l = InboxOf(r, a)
    BY <1>4, Places
  <2>. QED
    BY <1>1, <1>2, <1>3, <2>1
<1>. QED
  BY <1>4, TaskGained DEF FewerElsewhere

(* A step that delivers it puts it in one inbox, nowhere else. *)
LEMMA InboxReached ==
  ASSUME TypeOK, NEW s \in Side, NEW a \in Actor, NEW m, ReachesInbox(s, a, m)
  PROVE  FewerElsewhere(InboxOf(s, a), m)
<1>1. \A r \in Side : FewerAt(MailOf(r), m) /\ FewerAt(WireOf(r), m) /\ FewerAt(TaskOf(r), m)
  BY MailFewer, WireFewer, TaskFewer DEF ReachesInbox
<1>2. GainedAt(InboxOf(s, a), m)
      /\ \A r \in Side, b \in Actor : r # s \/ b # a => FewerAt(InboxOf(r, b), m)
  BY InboxGained DEF ReachesInbox
<1>3. ASSUME NEW l \in Place
      PROVE  l = InboxOf(s, a) \/ FewerAt(l, m)
  <2>1. PICK r \in Side : \/ l = MailOf(r) \/ l = WireOf(r) \/ l = TaskOf(r)
                          \/ \E b \in Actor : l = InboxOf(r, b)
    BY <1>3, Places
  <2>. QED
    BY <1>1, <1>2, <2>1
<1>. QED
  BY <1>2, <1>3 DEF FewerElsewhere
-----------------------------------------------------------------------------
(* The steps of a message on its way.                                      *)
StaysOnce(m) ==
  \/ \A l \in Place : FewerAt(l, m)
  \/ \E k, l \in Place : Moved(m, k, l)
  \/ m \in MessagesSent' /\ \E l \in Place : Handed(m, l)

(* A message that is taken from one place and put in another is once. *)
LEMMA MovesOn ==
  ASSUME NEW m, NEW k \in Place, NEW l \in Place, k # l, LostAt(k, m), FewerElsewhere(l, m)
  PROVE  StaysOnce(m)
<1>1. Moved(m, k, l)
  BY DEF Moved, FewerElsewhere
<1>. QED
  BY <1>1 DEF StaysOnce

(* ImmaterializeMessage: from the mailbox to a task of its own. *)
LEMMA HandleImmaterializeCopies ==
  ASSUME TypeOK, NEW s \in Side, HandleImmaterializeMessage(s), NEW m \in Msg
  PROVE  StaysOnce(m)
<1>. DEFINE h == Head(mailbox[s])
<1>1. /\ mailbox[s] # <<>> /\ h.type = "ImmaterializeMessage" /\ Done(s)
      /\ task' = [task EXCEPT ![s][h.msg] = [state |-> "encoding", id |-> None]]
      /\ UNCHANGED <<wire, inbox>>
  BY DEF HandleImmaterializeMessage, TakesWhenOpen, Takes
<1>2. MailDrops(s, m) /\ WireDrops(s, m) /\ InboxDrops(m)
  BY <1>1 DEF MailDrops, WireDrops, InboxDrops
<1>3. task \in [Side -> [Msg -> TaskState]]
  BY DEF TypeOK
<1>4. CASE h.msg = m
  <2>1. ReachesTask(s, m)
    BY <1>1, <1>2, <1>3 DEF ReachesTask
  <2>2. LostAt(MailOf(s), m)
    BY <1>1, <1>4, MailLost DEF Carries
  <2>. QED
    BY <2>1, <2>2, TaskReached, MovesOn, Places
<1>5. CASE h.msg # m
  <2>1. TaskDrops(m)
    BY <1>1, <1>3, <1>5 DEF TaskDrops
  <2>. QED
    BY <1>2, <2>1, DropsFewer DEF Drops, StaysOnce
<1>. QED
  BY <1>4, <1>5

(* PublishActor: its task may go on. *)
LEMMA HandlePublishActorCopies ==
  ASSUME TypeOK, NEW s \in Side, HandlePublishActor(s), NEW m \in Msg
  PROVE  StaysOnce(m)
<1>. DEFINE h == Head(mailbox[s])
<1>1. /\ mailbox[s] # <<>> /\ h.type = "PublishActor" /\ Done(s)
      /\ \E i : task' = [task EXCEPT ![s][h.msg] = [state |-> "encoded", id |-> i]]
      /\ UNCHANGED <<wire, inbox>>
  BY DEF HandlePublishActor, TakesWhenOpen, Takes
<1>2. MailDrops(s, m) /\ WireDrops(s, m) /\ InboxDrops(m)
  BY <1>1 DEF MailDrops, WireDrops, InboxDrops
<1>3. task \in [Side -> [Msg -> TaskState]]
  BY DEF TypeOK
<1>4. CASE h.msg = m
  <2>1. ReachesTask(s, m)
    BY <1>1, <1>2, <1>3 DEF ReachesTask
  <2>2. LostAt(MailOf(s), m)
    BY <1>1, <1>4, MailLost DEF Carries
  <2>. QED
    BY <2>1, <2>2, TaskReached, MovesOn, Places
<1>5. CASE h.msg # m
  <2>1. TaskDrops(m)
    BY <1>1, <1>3, <1>5 DEF TaskDrops
  <2>. QED
    BY <1>2, <2>1, DropsFewer DEF Drops, StaysOnce
<1>. QED
  BY <1>4, <1>5

(* A serialization task puts its message back into the mailbox, to publish *)
(* an actor or to be transmitted, if the portal still runs.                *)
LEMMA TaskCopies ==
  ASSUME TypeOK, NEW s \in Side, NEW t \in Msg, TaskAsksToPublish(s, t) \/ TaskTransmits(s, t),
         NEW m \in Msg
  PROVE  StaysOnce(m)
<1>1. /\ IsEncoded(task[s][t].state) /\ UNCHANGED <<wire, inbox>>
      /\ \E d \in {"asking", "done"} : task' = [task EXCEPT ![s][t].state = d]
      /\ UNCHANGED mailbox \/ \E e : Cast(s, e) /\ (m # t => ~Carries(e, m))
  BY DEF TaskAsksToPublish, TaskTransmits, IsEncoded, Carries
<1>2. WireDrops(s, m) /\ InboxDrops(m)
  BY <1>1 DEF WireDrops, InboxDrops
<1>3. task \in [Side -> [Msg -> TaskState]]
  BY DEF TypeOK
<1>4. /\ ~IsEncoded(task'[s][t].state)
      /\ \A r \in Side, n \in Msg : r # s \/ n # t => task'[r][n] = task[r][n]
  BY <1>1, <1>3 DEF IsEncoded, TaskState
<1>5. TaskDrops(m)
  BY <1>1, <1>4 DEF TaskDrops
<1>6. CASE UNCHANGED mailbox \/ m # t
  <2>1. MailDrops(s, m)
    BY <1>1, <1>6 DEF MailDrops
  <2>. QED
    BY <1>2, <1>5, <2>1, DropsFewer DEF Drops, StaysOnce
<1>7. CASE m = t /\ \E e : Cast(s, e)
  <2>1. ReachesMail(s, m)
    BY <1>2, <1>5, <1>7 DEF ReachesMail
  <2>2. LostAt(TaskOf(s), m)
    BY <1>1, <1>4, <1>7, TaskLost
  <2>. QED
    BY <2>1, <2>2, MailReached, MovesOn, Places
<1>. QED
  BY <1>1, <1>6, <1>7

(* TransmitMessage: from the mailbox to the wire. *)
LEMMA HandleTransmitCopies ==
  ASSUME TypeOK, NEW s \in Side, HandleTransmitMessage(s), NEW m \in Msg
  PROVE  StaysOnce(m)
<1>. DEFINE h == Head(mailbox[s])
            f == [type |-> "SendMessage", target |-> h.target, payload |-> h.payload]
<1>1. /\ mailbox[s] # <<>> /\ h.type = "TransmitMessage" /\ Done(s)
      /\ Sends(s, f) /\ UNCHANGED <<task, inbox>>
  BY DEF HandleTransmitMessage, TakesWhenOpen, Takes
<1>2. MailDrops(s, m) /\ TaskDrops(m) /\ InboxDrops(m)
  BY <1>1 DEF MailDrops, TaskDrops, InboxDrops
<1>3. CASE h.payload.msg = m
  <2>1. ReachesWire(s, m)
    BY <1>1, <1>2 DEF ReachesWire
  <2>2. LostAt(MailOf(s), m)
    BY <1>1, <1>3, MailLost DEF Carries
  <2>. QED
    BY <2>1, <2>2, WireReached, MovesOn, Places
<1>4. CASE h.payload.msg # m
  <2>1. WireDrops(s, m)
    BY <1>1, <1>4 DEF WireDrops, Carries
  <2>. QED
    BY <1>2, <2>1, DropsFewer DEF Drops, StaysOnce
<1>. QED
  BY <1>3, <1>4

(* The receive loop: from the wire to the mailbox of the peer. *)
LEMMA ReceiveLoopCopies ==
  ASSUME TypeOK, NEW s \in Side, ReceiveLoopReads(s), NEW m \in Msg
  PROVE  StaysOnce(m)
<1>. DEFINE f == Head(wire[Peer(s)])
<1>1. wire[Peer(s)] # <<>> /\ UNCHANGED <<task, inbox>> /\ Peer(s) \in Side
  BY PeerFacts DEF ReceiveLoopReads
<1>2. TaskDrops(m) /\ InboxDrops(m)
  BY <1>1 DEF TaskDrops, InboxDrops
<1>3. CASE Live(s)
  <2>1. Cast(s, f) /\ wire' = [wire EXCEPT ![Peer(s)] = Tail(@)]
    BY <1>3 DEF ReceiveLoopReads
  <2>2. WireDrops(s, m)
    BY <1>1, <2>1 DEF WireDrops
  <2>3. CASE Carries(f, m)
    <3>1. LostAt(WireOf(Peer(s)), m)
      BY <1>1, <2>1, <2>3, WireLost
    <3>2. ReachesMail(s, m)
      BY <1>2, <2>1, <2>2 DEF ReachesMail
    <3>. QED
      BY <1>1, <3>1, <3>2, MailReached, MovesOn, Places
  <2>4. CASE ~Carries(f, m)
    <3>1. MailDrops(s, m)
      BY <2>1, <2>4 DEF MailDrops
    <3>. QED
      BY <1>2, <2>2, <3>1, DropsFewer DEF Drops, StaysOnce
  <2>. QED
    BY <2>3, <2>4
<1>4. CASE ~Live(s)
  <2>1. MailDrops(s, m) /\ WireDrops(s, m)
    BY <1>4 DEF ReceiveLoopReads, MailDrops, WireDrops
  <2>. QED
    BY <1>2, <2>1, DropsFewer DEF Drops, StaysOnce
<1>. QED
  BY <1>3, <1>4

(* SendMessage: from the mailbox to the actor it is for. *)
LEMMA HandleSendCopies ==
  ASSUME TypeOK, NEW s \in Side, HandleSendMessage(s), NEW m \in Msg
  PROVE  StaysOnce(m)
<1>. DEFINE h == Head(mailbox[s])
<1>1. /\ mailbox[s] # <<>> /\ h.type = "SendMessage" /\ UNCHANGED <<task, wire>>
      /\ Done(s) \/ \E e : ~Carries(e, m) /\ DoneThenCast(s, e)
      /\ \/ UNCHANGED inbox
         \/ inbox' = [inbox EXCEPT ![s][published[s][h.target.id]] = Append(@, h.payload)]
      /\ inbox' # inbox => h.target.id \in DOMAIN published[s]
  BY Zenon DEF HandleSendMessage, TakesWhenOpen, Takes, Carries
<1>2. MailDrops(s, m) /\ TaskDrops(m) /\ WireDrops(s, m)
  BY <1>1, Zenon DEF MailDrops, TaskDrops, WireDrops
<1>3. CASE UNCHANGED inbox
  BY <1>2, <1>3, DropsFewer DEF Drops, InboxDrops, StaysOnce
<1>4. ASSUME NEW a \in Actor, inbox' = [inbox EXCEPT ![s][a] = Append(@, h.payload)]
      PROVE  StaysOnce(m)
  <2>1. CASE h.payload.msg = m
    <3>1. ReachesInbox(s, a, m)
      BY <1>2, <1>4, Zenon DEF ReachesInbox
    <3>2. LostAt(MailOf(s), m)
      BY <1>1, <2>1, MailLost, Zenon DEF Carries
    <3>. QED
      BY <3>1, <3>2, InboxReached, MovesOn, Places
  <2>2. CASE h.payload.msg # m
    <3>1. inbox \in [Side -> [Actor -> Seq(Payload)]]
      BY DEF TypeOK
    <3>2. InboxDrops(m)
      BY <1>4, <2>2, <3>1 DEF InboxDrops
    <3>. QED
      BY <1>2, <3>2, DropsFewer DEF Drops, StaysOnce
  <2>. QED
    BY <2>1, <2>2
<1>5. \A i \in DOMAIN published[s] : published[s][i] \in Actor
  BY DEF TypeOK, MapPerSide, IsMap
<1>6. inbox' # inbox => published[s][h.target.id] \in Actor
  BY <1>1, <1>5, Zenon
<1>. QED
  BY <1>1, <1>3, <1>4, <1>6, Zenon

(* A proxy passes a message to its portal: the first copy there is.        *)
LEMMA AppSendsCopies ==
  ASSUME TypeOK, NEW s \in Side, NEW p \in Proxy, NEW t \in Msg, NEW ref,
         AppSends(s, p, t, ref), NEW m \in Msg
  PROVE  StaysOnce(m)
<1>1. /\ t \notin MessagesSent /\ Cast(s, [type |-> "ImmaterializeMessage", msg |-> t])
      /\ sent' = [sent EXCEPT ![s] = Insert(@, t, [target |-> proxy[s][p].target, ref |-> ref])]
      /\ UNCHANGED <<wire, task, inbox>>
  BY DEF AppSends
<1>2. TaskDrops(m) /\ InboxDrops(m) /\ WireDrops(s, m)
  BY <1>1 DEF TaskDrops, InboxDrops, WireDrops
<1>3. CASE m = t
  <2>1. ReachesMail(s, m)
    BY <1>1, <1>2 DEF ReachesMail
  <2>2. m \in DOMAIN sent'[s]
    BY <1>1, <1>3, MapsAreTyped DEF Insert, TypeOK, MapPerSide
  <2>3. FewerElsewhere(MailOf(s), m) /\ MailOf(s) \in Place
    BY <2>1, MailReached, Places
  <2>4. Handed(m, MailOf(s))
    BY <1>1, <1>3, <2>3 DEF Handed, FewerElsewhere
  <2>5. m \in MessagesSent'
    BY <2>2 DEF MessagesSent
  <2>. QED
    BY <2>3, <2>4, <2>5 DEF StaysOnce
<1>4. CASE m # t
  <2>1. MailDrops(s, m)
    BY <1>1, <1>4 DEF MailDrops, Carries
  <2>. QED
    BY <1>2, <2>1, DropsFewer DEF Drops, StaysOnce
<1>. QED
  BY <1>3, <1>4
-----------------------------------------------------------------------------
(* A portal that goes down drops its mailbox, and the tasks that wait for  *)
(* an id from it give up.                                                  *)
LEMMA GoesDownCopies ==
  ASSUME TypeOK, NEW s \in Side, NEW why, GoesDown(s, why), NEW m \in Msg
  PROVE  StaysOnce(m)
<1>1. /\ mailbox' = [mailbox EXCEPT ![s] = <<>>]
      /\ task' = [task EXCEPT ![s] = Abandoned(@)]
      /\ UNCHANGED <<wire, inbox>>
  BY DEF GoesDown
<1>2. task \in [Side -> [Msg -> TaskState]]
  BY DEF TypeOK
<1>3. \A r \in Side : task'[r] = task[r] \/ task'[r] = Abandoned(task[r])
  BY <1>1, <1>2
<1>4. ASSUME NEW r \in Side
      PROVE  IsEncoded(task'[r][m].state) => IsEncoded(task[r][m].state)
  <2>1. task'[r][m] = task[r][m] \/ task'[r][m] = [task[r][m] EXCEPT !.state = "done"]
    BY <1>3 DEF Abandoned
  <2>2. task[r][m] \in TaskState
    BY <1>2
  <2>. QED
    BY <2>1, <2>2 DEF IsEncoded, TaskState
<1>5. MailDrops(s, m) /\ WireDrops(s, m) /\ TaskDrops(m) /\ InboxDrops(m)
  BY <1>1, <1>4 DEF MailDrops, WireDrops, TaskDrops, InboxDrops
<1>. QED
  BY <1>5, DropsFewer DEF Drops, StaysOnce

(* The other handlers of a portal take what is at the head of its mailbox  *)
(* and put no message anywhere.                                            *)
LEMMA HandlersCopies ==
  ASSUME TypeOK, NEW s \in Side, Handle(s), ~HandleImmaterializeMessage(s),
         ~HandlePublishActor(s), ~HandleTransmitMessage(s), ~HandleSendMessage(s),
         NEW m \in Msg
  PROVE  StaysOnce(m)
<1>1. CASE \/ HandleHandshake(s) \/ HandleRequestActorByName(s) \/ HandleResponseActorByName(s)
           \/ HandleActorExited(s) \/ HandleWaitForHandshake(s) \/ HandlePublishNamedActor(s)
           \/ HandleQueryNamedRemoteActor(s) \/ HandleRegisterProxy(s) \/ HandleLocalActorExited(s)
  <2>1. mailbox[s] # <<>> /\ Done(s) /\ UNCHANGED <<task, inbox>>
    BY <1>1, Zenon
    DEF HandleHandshake, HandleRequestActorByName, HandleResponseActorByName, HandleActorExited,
        HandleWaitForHandshake, HandlePublishNamedActor, HandleQueryNamedRemoteActor,
        HandleRegisterProxy, HandleLocalActorExited, Takes, TakesWhenOpen
  <2>2. MailDrops(s, m) /\ TaskDrops(m) /\ InboxDrops(m)
    BY <2>1 DEF MailDrops, TaskDrops, InboxDrops
  <2>3. UNCHANGED wire \/ \E f : ~Carries(f, m) /\ Sends(s, f)
    BY <1>1, Zenon
    DEF HandleHandshake, HandleRequestActorByName, HandleResponseActorByName, HandleActorExited,
        HandleWaitForHandshake, HandlePublishNamedActor, HandleQueryNamedRemoteActor,
        HandleRegisterProxy, HandleLocalActorExited, Carries
  <2>4. WireDrops(s, m)
    BY <2>3 DEF WireDrops
  <2>. QED
    BY <2>2, <2>4, DropsFewer DEF Drops, StaysOnce
<1>2. CASE HandleClose(s) \/ PortalFails(s)
  <2>1. PICK why : GoesDown(s, why)
    BY <1>2 DEF HandleClose, PortalFails
  <2>. QED
    BY <2>1, GoesDownCopies
<1>. QED
  BY <1>1, <1>2 DEF Handle

(* The end of the receive loop, watching tasks and the application carry   *)
(* no message that was handed to a proxy.                                  *)
LEMMA OthersCopies ==
  ASSUME TypeOK, NEW s \in Side,
         \/ ReceiveLoopEnds(s) \/ Connect(s) \/ ConnectFails(s) \/ LinkBreaks
         \/ \E a \in Actor : WatcherReports(s, a) \/ ActorExits(s, a)
         \/ \E n \in Name, a \in Actor : AppOffersOnNexus(s, n, a) \/ AppOffers(s, n, a)
         \/ \E q \in Asker : \/ AppWaitsForHandshake(s, q) \/ AppInstantiatesProxy(s, q)
                             \/ AskTimesOut(s, q)
         \/ \E q \in Asker, n \in Name : AppQueries(s, q, n),
         NEW m \in Msg
  PROVE  StaysOnce(m)
<1>1. UNCHANGED <<task, inbox>>
  BY DEF ReceiveLoopEnds, Connect, ConnectFails, LinkBreaks, WatcherReports, ActorExits,
         AppOffersOnNexus, AppOffers, AppWaitsForHandshake, AppInstantiatesProxy, AskTimesOut,
         AppQueries
<1>2. UNCHANGED mailbox \/ \E e : ~Carries(e, m) /\ Cast(s, e)
  BY DEF ReceiveLoopEnds, CastsClose, Connect, ConnectFails, LinkBreaks, WatcherReports,
         ActorExits, AppOffersOnNexus, AppOffers, AppWaitsForHandshake, AppInstantiatesProxy,
         AskTimesOut, AppQueries, Carries
<1>3. \/ UNCHANGED wire
      \/ wire' = [wire EXCEPT ![Peer(s)] = <<>>]
      \/ \E f : ~Carries(f, m) /\ Sends(s, f)
  BY DEF ReceiveLoopEnds, Connect, SendsIntroduction, Introduction, ConnectFails, LinkBreaks,
         WatcherReports, ActorExits, AppOffersOnNexus, AppOffers, AppWaitsForHandshake,
         AppInstantiatesProxy, AskTimesOut, AppQueries, Carries
<1>4. MailDrops(s, m) /\ WireDrops(s, m) /\ TaskDrops(m) /\ InboxDrops(m)
  BY <1>1, <1>2, <1>3 DEF MailDrops, WireDrops, TaskDrops, InboxDrops
<1>. QED
  BY <1>4, DropsFewer DEF Drops, StaysOnce

(* Every step moves the one copy of a message on, or drops it. *)
LEMMA NextCopies ==
  ASSUME TypeOK, OneCopy, [Next]_vars
  PROVE  OneCopy'
<1>1. ASSUME NEW m \in Msg
      PROVE  m \in MessagesSent => m \in MessagesSent'
  BY NextRegistry DEF RegistryGrows, MessagesSent
<1>2. ASSUME \A m \in Msg : StaysOnce(m)
      PROVE  OneCopy'
  BY <1>1, <1>2, CopyKept DEF StaysOnce
<1>3. ASSUME NEW s \in Side, Handle(s)
      PROVE  \A m \in Msg : StaysOnce(m)
  BY <1>3, HandlersCopies, HandleImmaterializeCopies, HandlePublishActorCopies,
     HandleTransmitCopies, HandleSendCopies
<1>4. ASSUME NEW s \in Side, NEW t \in Msg, SerializationTask(s, t)
      PROVE  \A m \in Msg : StaysOnce(m)
  BY <1>4, TaskCopies DEF SerializationTask
<1>5. ASSUME NEW s \in Side, ReceiveLoop(s)
      PROVE  \A m \in Msg : StaysOnce(m)
  BY <1>5, ReceiveLoopCopies, OthersCopies DEF ReceiveLoop
<1>6. ASSUME NEW s \in Side, Application(s)
      PROVE  \A m \in Msg : StaysOnce(m)
  <2>1. ASSUME NEW p \in Proxy, NEW t \in Msg, NEW ref \in Actor \cup {None}, AppSends(s, p, t, ref)
        PROVE  \A m \in Msg : StaysOnce(m)
    BY <2>1, AppSendsCopies
  <2>. QED
    BY <1>6, <2>1, OthersCopies DEF Application
<1>7. ASSUME NEW s \in Side, NEW a \in Actor, WatcherReports(s, a)
      PROVE  \A m \in Msg : StaysOnce(m)
  BY <1>7, OthersCopies
<1>8. CASE Environment
  <2>1. ASSUME NEW s \in Side, AppStopsPortal(s)
        PROVE  \A m \in Msg : StaysOnce(m)
    BY <2>1, GoesDownCopies DEF AppStopsPortal
  <2>2. ASSUME LinkBreaks
        PROVE  \A m \in Msg : StaysOnce(m)
    <3>1. "a" \in Side
      BY DEF Side
    <3>. QED
      BY <2>2, <3>1, OthersCopies
  <2>. QED
    BY <1>2, <1>8, <2>1, <2>2, OthersCopies DEF Environment
<1>9. CASE UNCHANGED vars
  <2>1. "a" \in Side
    BY DEF Side
  <2>2. \A m \in Msg : Drops("a", m)
    BY <1>9 DEF vars, Drops, MailDrops, WireDrops, TaskDrops, InboxDrops
  <2>3. \A m \in Msg : StaysOnce(m)
    BY <2>1, <2>2, DropsFewer DEF StaysOnce
  <2>. QED
    BY <1>2, <2>3
<1>. QED
  BY <1>2, <1>3, <1>4, <1>5, <1>6, <1>7, <1>8, <1>9 DEF Next

(* Before anything is sent no message is anywhere. *)
LEMMA InitCopies ==
  ASSUME Init
  PROVE  OneCopy
<1>. SUFFICES ASSUME NEW m \in Msg, NEW l \in Place
              PROVE  Copies(l, m) = {}
  BY DEF OneCopy, AtMostOne
<1>1. PICK s \in Side : \/ l = MailOf(s) \/ l = WireOf(s) \/ l = TaskOf(s)
                        \/ \E a \in Actor : l = InboxOf(s, a)
  BY Places
<1>2. /\ mailbox[s] = <<>> /\ wire[s] = <<>> /\ ~IsEncoded(task[s][m].state)
      /\ \A a \in Actor : inbox[s][a] = <<>>
  BY DEF Init, IsEncoded, NoTask
<1>3. Carriers(<<>>, m) = {} /\ Arrivals(<<>>, m) = {}
  BY NoElements DEF Carriers, Arrivals
<1>. QED
  BY <1>1, <1>2, <1>3, PlaceHolds
-----------------------------------------------------------------------------
(* A message that was handed to a proxy is under way once, until an actor  *)
(* receives it: no interleaving of the portals, the receive loops and the  *)
(* serialization tasks doubles it.                                         *)
THEOREM MessagesAreNotDoubled == Spec => []OneCopy
<1>1. TypeOK /\ OneCopy /\ [Next]_vars => OneCopy'
  BY NextCopies
<1>. QED
  BY <1>1, InitCopies, TypeCorrect, PTL DEF Spec

(* What an actor receives was sent to a proxy of that actor, once, and the *)
(* reference in it means the actor the sender put in.                      *)
THEOREM DeliveredOnce == Spec => []DeliveredAsSent
<1>1. ASSUME TypeOK, ReceivedAsSent, OneCopy
      PROVE  DeliveredAsSent
  <2>. SUFFICES ASSUME NEW s \in Side, NEW a \in Actor, NEW i \in DOMAIN inbox[s][a],
                       NEW m, m = inbox[s][a][i].msg, NEW ref, ref = inbox[s][a][i].ref,
                       NEW r, r = Peer(s)
                PROVE  /\ m \in DOMAIN sent[r]
                       /\ published[s][sent[r][m].target.id] = a
                       /\ IF sent[r][m].ref = None THEN ref = None
                          ELSE /\ ref # None
                               /\ ref.side = r
                               /\ published[r][ref.id] = sent[r][m].ref
                       /\ \A b \in Actor : \A j \in DOMAIN inbox[s][b] :
                            inbox[s][b][j].msg = m => b = a /\ j = i
    BY SMTT(30) DEF DeliveredAsSent
  <2>1. Conveys(r, sent[r][m].target, inbox[s][a][i])
        /\ published[s][sent[r][m].target.id] = a
    BY <1>1, Zenon DEF ReceivedAsSent
  <2>2. /\ m \in DOMAIN sent[r]
        /\ IF sent[r][m].ref = None THEN ref = None
           ELSE ref # None /\ ref.side = r /\ published[r][ref.id] = sent[r][m].ref
    BY <2>1 DEF Conveys, Means
  <2>3. m \in Msg
    <3>1. inbox[s][a] \in Seq(Payload)
      BY <1>1 DEF TypeOK
    <3>2. inbox[s][a][i] \in Payload
      BY <3>1
    <3>. QED
      BY <3>2 DEF Payload
  <2>4. ASSUME NEW b \in Actor, NEW j \in DOMAIN inbox[s][b], inbox[s][b][j].msg = m
        PROVE  b = a /\ j = i
    <3>1. i \in Arrivals(inbox[s][a], m) /\ j \in Arrivals(inbox[s][b], m)
      BY <2>4 DEF Arrivals
    <3>2. i \in Copies(InboxOf(s, a), m) /\ j \in Copies(InboxOf(s, b), m)
      BY <3>1, PlaceHolds
    <3>3. InboxOf(s, a) = InboxOf(s, b)
      BY <1>1, <2>3, <3>2, Places DEF OneCopy
    <3>4. a = b
      BY <3>3, Places
    <3>5. AtMostOne(Copies(InboxOf(s, a), m))
      BY <1>1, <2>3, Places DEF OneCopy
    <3>. QED
      BY <3>2, <3>4, <3>5 DEF AtMostOne
  <2>. QED
    BY <2>1, <2>2, <2>4, Zenon
<1>. QED
  BY <1>1, MessagesAreNotDoubled, MessagesMeanTheSame, TypeCorrect, PTL
-----------------------------------------------------------------------------
(* The requests of the serialization tasks, in the mailbox of the portal   *)
(* that gives the ids.                                                     *)
IsRequest(e, m) == e.type = "PublishActor" /\ e.msg = m
Requests(q, m) == {i \in DOMAIN q : IsRequest(q[i], m)}

(* A request stays in a queue until it is the head that is taken. *)
LEMMA QueueRequests ==
  ASSUME NEW S, NEW q \in Seq(S), NEW m
  PROVE  /\ \A e : IsRequest(e, m) \/ Requests(q, m) # {} => Requests(Append(q, e), m) # {}
         /\ q # <<>> /\ ~IsRequest(Head(q), m) /\ Requests(q, m) # {} =>
              /\ Requests(Tail(q), m) # {}
              /\ \A e : Requests(Append(Tail(q), e), m) # {}
<1>1. ASSUME NEW p \in Seq(S), NEW e, IsRequest(e, m) \/ Requests(p, m) # {}
      PROVE  Requests(Append(p, e), m) # {}
  <2>. DEFINE a == Append(p, e)
              l == Len(p) + 1
  <2>1. /\ DOMAIN a = DOMAIN p \cup {l} /\ l \notin DOMAIN p
        /\ \A i \in DOMAIN p : a[i] = p[i]
        /\ a[l] = e
    BY AppendPositions
  <2>. HIDE DEF a, l
  <2>2. Requests(a, m) # {}
    BY <1>1, <2>1 DEF Requests
  <2>. QED
    BY <2>2 DEF a
<1>2. ASSUME q # <<>>, ~IsRequest(Head(q), m), Requests(q, m) # {}
      PROVE  Tail(q) \in Seq(S) /\ Requests(Tail(q), m) # {}
  <2>. DEFINE T == Tail(q)
  <2>1. /\ T \in Seq(S) /\ Head(q) = q[1]
        /\ \A i \in DOMAIN q : i # 1 => i - 1 \in DOMAIN T /\ T[i - 1] = q[i]
    BY <1>2, HeadTailProperties DEF T
  <2>. HIDE DEF T
  <2>2. PICK i \in DOMAIN q : IsRequest(q[i], m)
    BY <1>2 DEF Requests
  <2>3. i # 1
    BY <1>2, <2>1, <2>2
  <2>4. Requests(T, m) # {}
    BY <2>1, <2>2, <2>3 DEF Requests
  <2>. QED
    BY <2>1, <2>4 DEF T
<1>. QED
  BY <1>1, <1>2

(* What a task that asks relies on, after a step. *)
StillAsks(r, m) ==
  task'[r][m].state = "asking"
    => status'[r] \in {"opening", "open"} /\ Requests(mailbox'[r], m) # {}

(* It goes on relying on it when its portal runs on, and takes another     *)
(* message or gets one more.                                               *)
LeavesRequest(r, m) ==
  /\ task'[r][m].state = "asking" => task[r][m].state = "asking"
  /\ Live(r) => status'[r] \in {"opening", "open"}
  /\ \/ mailbox'[r] = mailbox[r]
     \/ \E e : mailbox'[r] = Append(mailbox[r], e)
     \/ /\ mailbox[r] # <<>> /\ ~IsRequest(Head(mailbox[r]), m)
        /\ \/ mailbox'[r] = Tail(mailbox[r])
           \/ \E e : mailbox'[r] = Append(Tail(mailbox[r]), e)

(* What leaves its request leaves it asking. *)
LEMMA RequestLeft ==
  ASSUME TypeOK, AsksAreUnderWay, NEW r \in Side, NEW m \in Msg, LeavesRequest(r, m)
  PROVE  StillAsks(r, m)
<1>. SUFFICES ASSUME task[r][m].state = "asking"
              PROVE  status'[r] \in {"opening", "open"} /\ Requests(mailbox'[r], m) # {}
  BY DEF LeavesRequest, StillAsks
<1>1. Live(r) /\ Requests(mailbox[r], m) # {}
  BY DEF AsksAreUnderWay, RequestPlaces, Requests, IsRequest
<1>2. mailbox[r] \in Seq(PortalActorMessage)
  BY DEF TypeOK
<1>. QED
  BY <1>1, <1>2, QueueRequests DEF LeavesRequest

(* A handler that takes another message, and every other step that leaves  *)
(* the serialization tasks alone, leaves their requests.                   *)
LEMMA QuietRequests ==
  ASSUME TypeOK, AsksAreUnderWay, NEW s \in Side, UNCHANGED task,
         \A r \in Side : Live(r) => status'[r] \in {"opening", "open"},
         \/ UNCHANGED mailbox
         \/ \E e : Cast(s, e)
         \/ /\ mailbox[s] # <<>> /\ Head(mailbox[s]).type # "PublishActor"
            /\ Done(s) \/ \E e : DoneThenCast(s, e)
  PROVE  \A r \in Side, m \in Msg : StillAsks(r, m)
<1>. SUFFICES ASSUME NEW r \in Side, NEW m \in Msg
              PROVE  LeavesRequest(r, m)
  BY RequestLeft
<1>1. mailbox \in [Side -> Seq(PortalActorMessage)]
  BY DEF TypeOK
<1>2. r # s => mailbox'[r] = mailbox[r]
  BY <1>1 DEF Cast, Done, DoneThenCast
<1>3. \/ mailbox'[s] = mailbox[s]
      \/ \E e : mailbox'[s] = Append(mailbox[s], e)
      \/ /\ mailbox[s] # <<>> /\ ~IsRequest(Head(mailbox[s]), m)
         /\ \/ mailbox'[s] = Tail(mailbox[s])
            \/ \E e : mailbox'[s] = Append(Tail(mailbox[s]), e)
  BY <1>1 DEF Cast, Done, DoneThenCast, IsRequest
<1>. QED
  BY <1>2, <1>3 DEF LeavesRequest

(* A portal that goes down takes the requests with it, and the tasks that  *)
(* rely on them give up.                                                   *)
LEMMA GoesDownRequests ==
  ASSUME TypeOK, AsksAreUnderWay, NEW s \in Side, NEW why, GoesDown(s, why)
  PROVE  \A r \in Side, m \in Msg : StillAsks(r, m)
<1>. SUFFICES ASSUME NEW r \in Side, NEW m \in Msg
              PROVE  StillAsks(r, m)
  OBVIOUS
<1>1. /\ mailbox' = [mailbox EXCEPT ![s] = <<>>] /\ status' = [status EXCEPT ![s] = "down"]
      /\ task' = [task EXCEPT ![s] = Abandoned(@)]
  BY DEF GoesDown
<1>2. CASE r = s
  <2>1. task'[r][m] = Abandoned(task[r])[m] /\ task[r][m] \in TaskState
    BY <1>1, <1>2 DEF TypeOK
  <2>2. task'[r][m].state # "asking"
    BY <2>1 DEF Abandoned, TaskState
  <2>. QED
    BY <2>2 DEF StillAsks
<1>3. CASE r # s
  <2>1. task'[r] = task[r] /\ mailbox'[r] = mailbox[r] /\ status'[r] = status[r]
    BY <1>1, <1>3 DEF TypeOK
  <2>2. LeavesRequest(r, m)
    BY <2>1 DEF LeavesRequest, Live
  <2>. QED
    BY <2>2, RequestLeft
<1>. QED
  BY <1>2, <1>3

(* The portal answers a request, or spawns a task that has not asked yet. *)
LEMMA TaskHandlerRequests ==
  ASSUME TypeOK, AsksAreUnderWay, NEW s \in Side,
         HandleImmaterializeMessage(s) \/ HandlePublishActor(s)
  PROVE  \A r \in Side, m \in Msg : StillAsks(r, m)
<1>. SUFFICES ASSUME NEW r \in Side, NEW m \in Msg
              PROVE  StillAsks(r, m)
  OBVIOUS
<1>. DEFINE h == Head(mailbox[s])
<1>1. /\ mailbox[s] # <<>> /\ h.type \in {"ImmaterializeMessage", "PublishActor"}
      /\ Done(s) /\ UNCHANGED status
      /\ \E st \in {"encoding", "encoded"} : \E i : task' = [task EXCEPT ![s][h.msg] = [state |-> st, id |-> i]]
  BY DEF HandleImmaterializeMessage, HandlePublishActor, TakesWhenOpen, Takes, portalVars
<1>2. /\ mailbox \in [Side -> Seq(PortalActorMessage)]
      /\ task \in [Side -> [Msg -> TaskState]]
  BY DEF TypeOK
<1>3. CASE r = s /\ m = h.msg
  <2>1. task'[r][m].state # "asking"
    BY <1>1, <1>2, <1>3
  <2>. QED
    BY <2>1 DEF StillAsks
<1>4. CASE ~(r = s /\ m = h.msg)
  <2>1. task'[r][m] = task[r][m]
    BY <1>1, <1>2, <1>4
  <2>2. \/ mailbox'[r] = mailbox[r]
        \/ mailbox[r] # <<>> /\ ~IsRequest(Head(mailbox[r]), m) /\ mailbox'[r] = Tail(mailbox[r])
    BY <1>1, <1>2, <1>4 DEF Done, IsRequest
  <2>3. LeavesRequest(r, m)
    BY <1>1, <2>1, <2>2 DEF LeavesRequest, Live
  <2>. QED
    BY <2>3, RequestLeft
<1>. QED
  BY <1>3, <1>4

(* A task asks a portal that runs, or gives up; it is done when its        *)
(* message is transmitted.                                                 *)
LEMMA TaskRequests ==
  ASSUME TypeOK, AsksAreUnderWay, NEW s \in Side, NEW t \in Msg, SerializationTask(s, t)
  PROVE  \A r \in Side, m \in Msg : StillAsks(r, m)
<1>. SUFFICES ASSUME NEW r \in Side, NEW m \in Msg
              PROVE  StillAsks(r, m)
  OBVIOUS
<1>1. /\ UNCHANGED status
      /\ UNCHANGED mailbox \/ \E e : Cast(s, e)
      /\ \E d \in {"asking", "done"} :
           /\ task' = [task EXCEPT ![s][t].state = d]
           /\ d = "asking" => Live(s) /\ \E e : IsRequest(e, t) /\ Cast(s, e)
  BY DEF SerializationTask, TaskAsksToPublish, TaskTransmits, IsRequest, portalVars
<1>2. /\ mailbox \in [Side -> Seq(PortalActorMessage)] /\ mailbox[s] \in Seq(PortalActorMessage)
      /\ task \in [Side -> [Msg -> TaskState]]
  BY DEF TypeOK
<1>3. CASE r = s /\ m = t
  <2>1. ASSUME NEW e, IsRequest(e, t), Cast(s, e), Live(s)
        PROVE  StillAsks(r, m)
    <3>1. mailbox'[s] = Append(mailbox[s], e)
      BY <1>2, <2>1 DEF Cast
    <3>2. Requests(mailbox'[s], t) # {}
      BY <1>2, <2>1, <3>1, QueueRequests
    <3>. QED
      BY <1>1, <1>3, <2>1, <3>2 DEF StillAsks, Live
  <2>2. CASE task' = [task EXCEPT ![s][t].state = "done"]
    <3>1. task'[r][m].state = "done"
      BY <1>2, <1>3, <2>2 DEF TaskState
    <3>. QED
      BY <3>1 DEF StillAsks
  <2>. QED
    BY <1>1, <2>1, <2>2
<1>4. CASE ~(r = s /\ m = t)
  <2>1. task'[r][m] = task[r][m]
    BY <1>1, <1>2, <1>4
  <2>2. mailbox'[r] = mailbox[r] \/ \E e : mailbox'[r] = Append(mailbox[r], e)
    BY <1>1, <1>2 DEF Cast
  <2>3. LeavesRequest(r, m)
    BY <1>1, <2>1, <2>2 DEF LeavesRequest, Live
  <2>. QED
    BY <2>3, RequestLeft
<1>. QED
  BY <1>3, <1>4

(* The other handlers of a portal take another message. *)
LEMMA HandlersRequests ==
  ASSUME TypeOK, AsksAreUnderWay, NEW s \in Side, Handle(s)
  PROVE  \A r \in Side, m \in Msg : StillAsks(r, m)
<1>1. CASE HandleImmaterializeMessage(s) \/ HandlePublishActor(s)
  BY <1>1, TaskHandlerRequests
<1>2. CASE HandleClose(s) \/ PortalFails(s)
  <2>1. PICK why : GoesDown(s, why)
    BY <1>2 DEF HandleClose, PortalFails
  <2>. QED
    BY <2>1, GoesDownRequests
<1>3. CASE \/ HandleHandshake(s) \/ HandleRequestActorByName(s) \/ HandleResponseActorByName(s)
           \/ HandleActorExited(s) \/ HandleWaitForHandshake(s) \/ HandlePublishNamedActor(s)
           \/ HandleQueryNamedRemoteActor(s) \/ HandleRegisterProxy(s) \/ HandleLocalActorExited(s)
           \/ HandleTransmitMessage(s) \/ HandleSendMessage(s)
  <2>1. /\ mailbox[s] # <<>> /\ Head(mailbox[s]).type # "PublishActor" /\ UNCHANGED task
        /\ Done(s) \/ \E e : DoneThenCast(s, e)
    BY <1>3, Zenon
    DEF HandleHandshake, HandleRequestActorByName, HandleResponseActorByName, HandleActorExited,
        HandleWaitForHandshake, HandlePublishNamedActor, HandleQueryNamedRemoteActor,
        HandleRegisterProxy, HandleLocalActorExited, HandleTransmitMessage, HandleSendMessage,
        Takes, TakesWhenOpen
  <2>2. UNCHANGED status \/ status' = [status EXCEPT ![s] = "open"]
    BY <1>3
    DEF HandleHandshake, HandleRequestActorByName, HandleResponseActorByName, HandleActorExited,
        HandleWaitForHandshake, HandlePublishNamedActor, HandleQueryNamedRemoteActor,
        HandleRegisterProxy, HandleLocalActorExited, HandleTransmitMessage, HandleSendMessage,
        portalVars
  <2>3. \A r \in Side : Live(r) => status'[r] \in {"opening", "open"}
    BY <2>2 DEF TypeOK, Live
  <2>. QED
    BY <2>1, <2>3, QuietRequests
<1>. QED
  BY <1>1, <1>2, <1>3 DEF Handle

(* The receive loop, the watching tasks, the application and the           *)
(* environment cast messages of other kinds.                               *)
LEMMA OthersRequests ==
  ASSUME TypeOK, AsksAreUnderWay, NEW s \in Side,
         \/ ReceiveLoop(s) \/ Application(s) \/ LinkBreaks
         \/ \E a \in Actor : WatcherReports(s, a) \/ ActorExits(s, a)
         \/ \E q \in Asker : AskTimesOut(s, q)
  PROVE  \A r \in Side, m \in Msg : StillAsks(r, m)
<1>1. UNCHANGED task /\ (UNCHANGED mailbox \/ \E e : Cast(s, e))
  BY DEF ReceiveLoop, ReceiveLoopReads, ReceiveLoopEnds, CastsClose, Application, Connect,
         ConnectFails, LinkBreaks, WatcherReports, ActorExits, AppOffersOnNexus, AppOffers,
         AppWaitsForHandshake, AppInstantiatesProxy, AskTimesOut, AppQueries, AppSends
<1>2. \/ UNCHANGED status
      \/ status[s] = "idle" /\ \E st : status' = [status EXCEPT ![s] = st]
  BY DEF ReceiveLoop, ReceiveLoopReads, ReceiveLoopEnds, Application, Connect,
         ConnectFails, LinkBreaks, WatcherReports, ActorExits, AppOffersOnNexus, AppOffers,
         AppWaitsForHandshake, AppInstantiatesProxy, AskTimesOut, AppQueries, AppSends, portalVars
<1>3. \A r \in Side : Live(r) => status'[r] \in {"opening", "open"}
  BY <1>2 DEF TypeOK, Live
<1>. QED
  BY <1>1, <1>3, QuietRequests

(* A serialization task that waits for an id has its request in the        *)
(* mailbox of a running portal, whatever happens around it.                *)
LEMMA RequestsAreUnderWay == Spec => []AsksAreUnderWay
<1>1. Init => AsksAreUnderWay
  BY DEF Init, NoTask, AsksAreUnderWay
<1>2. ASSUME TypeOK, AsksAreUnderWay, [Next]_vars
      PROVE  AsksAreUnderWay'
  <2>1. ASSUME \A r \in Side, m \in Msg : StillAsks(r, m)
        PROVE  AsksAreUnderWay'
    BY <2>1 DEF StillAsks, AsksAreUnderWay, Live, RequestPlaces, Requests, IsRequest
  <2>2. "a" \in Side
    BY DEF Side
  <2>3. CASE Environment
    <3>1. ASSUME NEW s \in Side, AppStopsPortal(s)
          PROVE  \A r \in Side, m \in Msg : StillAsks(r, m)
      BY <1>2, <3>1, GoesDownRequests DEF AppStopsPortal
    <3>. QED
      BY <1>2, <2>1, <2>2, <2>3, <3>1, OthersRequests DEF Environment
  <2>4. CASE UNCHANGED vars
    BY <1>2, <2>4 DEF vars, portalVars, AsksAreUnderWay, Live, RequestPlaces
  <2>. QED
    BY <1>2, <2>1, <2>3, <2>4, HandlersRequests, TaskRequests, OthersRequests DEF Next
<1>. QED
  BY <1>1, <1>2, TypeCorrect, PTL DEF Spec

(* Who waits is not forgotten: one place of a running portal holds the     *)
(* port of an asking task, and the mailbox of a running portal holds the   *)
(* one request of a serialization task that waits for an id.               *)
THEOREM WaitsAreOwned == Spec => []EveryWaitIsOwned
<1>1. ASSUME RequestInv, OneCopy, AsksAreUnderWay
      PROVE  EveryWaitIsOwned
  <2>1. ASSUME NEW s \in Side, NEW m \in Msg, task[s][m].state = "asking"
        PROVE  Live(s) /\ Cardinality(RequestPlaces(s, m)) = 1
    <3>1. Live(s) /\ RequestPlaces(s, m) # {}
      BY <1>1, <2>1 DEF AsksAreUnderWay
    <3>2. AtMostOne(Carriers(mailbox[s], m))
      <4>1. MailOf(s) \in Place /\ Copies(MailOf(s), m) = Carriers(mailbox[s], m)
        BY Places, PlaceHolds
      <4>. QED
        BY <1>1, <4>1 DEF OneCopy
    <3>3. RequestPlaces(s, m) \subseteq Carriers(mailbox[s], m)
      BY DEF RequestPlaces, Carriers, Carries
    <3>4. PICK i : i \in RequestPlaces(s, m)
      BY <3>1
    <3>5. \A j \in RequestPlaces(s, m) : j = i
      BY <3>2, <3>3, <3>4 DEF AtMostOne
    <3>6. RequestPlaces(s, m) = {i}
      BY <3>4, <3>5
    <3>. QED
      BY <3>1, <3>6, FS_Singleton
  <2>. QED
    BY <1>1, <2>1, OnePortPlace DEF EveryWaitIsOwned
<1>. QED
  BY <1>1, RequestInvariant, MessagesAreNotDoubled, RequestsAreUnderWay, PTL
=============================================================================
