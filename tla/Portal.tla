------------------------------- MODULE Portal -------------------------------
(***************************************************************************)
(* Two PortalActors joined by a conduit (ractor_wormhole/src/portal.rs and *)
(* conduit/mod.rs), with everything that races with them on either side:   *)
(* the receive loop that feeds a portal's mailbox, the application tasks   *)
(* that ask it, the tasks it spawns to serialize a message, the tasks that *)
(* watch published actors, and the proxies of the peer's actors.           *)
(*                                                                         *)
(* A portal handles one message of its mailbox at a time, so each handler  *)
(* is one action.  An await inside a handler does not let another handler  *)
(* of the same portal run.  Everything else interleaves.                   *)
(***************************************************************************)
EXTENDS Integers, Sequences, FiniteSets

CONSTANTS
  Actor,         \* the actors an application may expose (each side has a copy)
  Name,          \* names under which they are published
  OpaqueActorId, \* uuids: drawn fresh by publish_actor
  Asker,         \* tasks that wait on an RpcReplyPort of their portal
  Msg,           \* messages the application sends through proxies
  Contribution,  \* values of Introduction.channel_id_contribution (sets of bits)
  Settings,      \* what the two applications do, and over what transport
  None           \* no value

Side == {"a", "b"}
Peer(s) == IF s = "a" THEN "b" ELSE "a"

FaultKinds == {"timeout", "break", "stop", "exit"}
AskKinds == {"query", "handshake", "publication"}
Exits == {"closed", "protocol", "failed", "stopped"}

(* A unix socket's halves each end their own direction; those of SSH and   *)
(* WebSockets share a stream, which ends with the second of them.          *)
HalvesKinds == {"owned", "shared"}

(* Bounds of a setting: the names used, publications per side, and asks    *)
(* and messages of both sides together.                                    *)
Setting ==
  [server : SUBSET Side,         \* sides whose application publishes actors
   client : SUBSET Side,         \* sides whose application queries and sends
   asks : SUBSET AskKinds,       \* what applications ask their portals
   faults : SUBSET FaultKinds,   \* what the environment may do
   halves : HalvesKinds,
   contributions : SUBSET Contribution,
   names : SUBSET Name, offers : Nat, asking : Nat, messages : Nat]

ASSUME PortalAssumption ==
  /\ None \notin Actor \cup Name \cup OpaqueActorId \cup Asker \cup Msg \cup Exits
  /\ {"handshake", "publication"} \cap Name = {} /\ Asker \cap Msg = {}
  /\ Contribution \subseteq SUBSET Nat
  /\ Settings \subseteq Setting
-----------------------------------------------------------------------------
VARIABLES
  (* PortalActorState, and where the actor is in its life *)
  status,        \* "idle", "opening", "open" (channel_state), or "down"
  exit,          \* why it went down, out of Exits
  contribution,  \* self_introduction.channel_id_contribution
  channel,       \* channel_id, once the portal has opened
  published,     \* published_actors: OpaqueActorId -> Actor
  named,         \* named_actors: Name -> OpaqueActorId
  proxies,       \* proxies_for_remote_actors: RemoteActorId -> Proxy
  nextRequest,   \* next_request_id
  openRequests,  \* open_requests: request id -> Asker
  waiting,       \* waiting_for_handshake
  mailbox,       \* the PortalActorMessages that wait for the portal
  (* the conduit, and the setting it is used in *)
  setting,       \* never changes
  wire,          \* wire[s]: ConduitMessages sent by s, not yet read by its peer
  loop,          \* receive_loop of a side: "idle", "running" or "done"
  linkUp,        \* FALSE once the transport has failed
  (* the tasks and actors around a portal *)
  alive,         \* the application actors that run
  watched,       \* the published actors a spawned task still waits for
  nexusNamed,    \* named_actors of the side's nexus: Name -> Actor
  asker,         \* what each asking task waits for, or got
  proxy,         \* each proxy's state and the RemoteActorId it stands for
  task,          \* serialization tasks: Msg -> their state
  sent,          \* the closure of each message sent: its target and embedded actor
  (* history *)
  offered,       \* every publication the application made
  inbox          \* inbox[s][a]: what actor a has been sent by its portal

portalVars == <<status, exit, contribution, channel>>
registryVars == <<published, named, watched>>
requestVars == <<nextRequest, openRequests, waiting>>
conduitVars == <<setting, loop, linkUp>>
historyVars == <<offered, sent>>
vars == <<portalVars, registryVars, proxies, requestVars, mailbox, wire,
          conduitVars, alive, nexusNamed, asker, proxy, task, historyVars, inbox>>
-----------------------------------------------------------------------------
(* HashMaps *)
IsMap(f, K, V) == DOMAIN f \subseteq K /\ f \in [DOMAIN f -> V]
MapPerSide(v, K, V) ==
  /\ v = [s \in Side |-> v[s]]
  /\ \A s \in Side : IsMap(v[s], K, V)
Insert(f, k, v) == [x \in DOMAIN f \cup {k} |-> IF x = k THEN v ELSE f[x]]
Remove(f, k) == [x \in DOMAIN f \ {k} |-> f[x]]
NoEntries == [x \in {} |-> x]
ImageOf(f) == {f[x] : x \in DOMAIN f}

(* xor_arrays, on the sets of bits that are 1.  Mutant: and-not. *)
AndNotArrays(a, b) == a \ b
XorArrays(a, b) == (a \ b) \cup (b \ a)
ConduitID == SUBSET UNION Contribution

RemoteActorId == [key : ConduitID, side : Side, id : OpaqueActorId]
ASSUME NoneAssumption == None \notin RemoteActorId
(* Mutants: the bare uuid; the id of the other side. *)
OnlyUuid(s, id) == id
OtherSidesId(s, id) == [key |-> channel[s], side |-> Peer(s), id |-> id]
RemoteId(s, id) == [key |-> channel[s], side |-> s, id |-> id]

(* A proxy is named after what it was made from: the answer of an asking   *)
(* task, or the reference embedded in a message that was received.         *)
Proxy == Asker \cup Msg

Payload == [msg : Msg, ref : RemoteActorId \cup {None}]

(* ConduitMessage and CrossPortalMessage: what travels on the wire *)
Handshakes == [type : {"Handshake"}, contribution : Contribution]
Contents ==
       [type : {"RequestActorByName"}, id : Nat, name : Name]
  \cup [type : {"ResponseActorByName"}, id : Nat, response : RemoteActorId \cup {None}]
  \cup [type : {"SendMessage"}, target : RemoteActorId, payload : Payload]
  \cup [type : {"ActorExited"}, target : RemoteActorId]
ContentTypes == {"RequestActorByName", "ResponseActorByName", "SendMessage", "ActorExited"}
ConduitMessage == Handshakes \cup Contents

(* PortalActorMessage: what a mailbox holds *)
LocalMessage ==
       [type : {"Close"}]
  \cup [type : {"PublishNamedActor"}, name : Name, actor : Actor, port : Asker \cup {None}]
  \cup [type : {"PublishActor"}, actor : Actor, msg : Msg]
  \cup [type : {"QueryNamedRemoteActor"}, name : Name, port : Asker]
  \cup [type : {"WaitForHandshake"}, port : Asker]
  \cup [type : {"ImmaterializeMessage"}, msg : Msg]
  \cup [type : {"TransmitMessage"}, target : RemoteActorId, payload : Payload]
  \cup [type : {"RegisterProxy"}, target : RemoteActorId, proxy : Proxy]
  \cup [type : {"LocalActorExited"}, actor : Actor]
PortalActorMessage == ConduitMessage \cup LocalMessage

Live(s) == status[s] \in {"opening", "open"}
(* Short names for parts of the setting *)
Server == setting.server
Client == setting.client
Asks == setting.asks
Faults == setting.faults
Halves == setting.halves

(* The portal owns the sink and the receive loop the source. *)
SinkDropped(s) == status[s] = "down" /\ (Halves = "shared" => loop[s] = "done")
SourceOpen(s) == loop[s] # "done" /\ linkUp
-----------------------------------------------------------------------------
(* Asking tasks.  `known` records whether the peer knew the name when asked. *)
AskerStates == {"idle", "waiting", "answered", "refused", "timedout"}
Wants == Name \cup {"handshake", "publication"}
AskerState == [state : AskerStates, wants : Wants \cup {None}, known : BOOLEAN,
               got : RemoteActorId \cup {None}]
IdleAsker == [state |-> "idle", wants |-> None, known |-> FALSE, got |-> None]

Waits(s, q) == asker[s][q].state = "waiting"

(* RpcReplyPort::send on the port of task q *)
Replies(s, q, got) ==
  asker' = [asker EXCEPT ![s][q].state = "answered", ![s][q].got = got]

(* Ports dropped without a reply wake their tasks with an error.           *)
Refused(f, Q) ==
  [q \in Asker |-> IF q \in Q /\ f[q].state = "waiting"
                   THEN [f[q] EXCEPT !.state = "refused"] ELSE f[q]]

(* The reply ports a portal owns: in its mailbox, its map, its queue.      *)
(* Mutant: those in the mailbox are overlooked.                            *)
PortTypes == {"QueryNamedRemoteActor", "WaitForHandshake", "PublishNamedActor"}
MailboxPorts(s) ==
  {mailbox[s][i].port : i \in {j \in DOMAIN mailbox[s] : mailbox[s][j].type \in PortTypes}}
PortsInState(s) == ImageOf(openRequests[s]) \cup ImageOf(waiting[s])
PortsHeld(s) == MailboxPorts(s) \cup ImageOf(openRequests[s]) \cup ImageOf(waiting[s])

ProxyState == [state : {"none", "running", "stopped"}, target : RemoteActorId \cup {None}]
NoProxy == [state |-> "none", target |-> None]
Stopped(f) == [p \in Proxy |-> IF f[p].state = "running"
                               THEN [f[p] EXCEPT !.state = "stopped"] ELSE f[p]]

(* The task ImmaterializeMessage spawns for a message. *)
TaskState == [state : {"none", "encoding", "asking", "encoded", "done"},
              id : RemoteActorId \cup {None}]
NoTask == [state |-> "none", id |-> None]
Abandoned(f) == [m \in Msg |-> IF f[m].state = "asking"
                               THEN [f[m] EXCEPT !.state = "done"] ELSE f[m]]
-----------------------------------------------------------------------------
Init ==
  /\ status = [s \in Side |-> "idle"]
  /\ exit = [s \in Side |-> None]
  /\ contribution = [s \in Side |-> {}]
  /\ channel = [s \in Side |-> {}]
  /\ published = [s \in Side |-> NoEntries]
  /\ named = [s \in Side |-> NoEntries]
  /\ proxies = [s \in Side |-> NoEntries]
  /\ nextRequest = [s \in Side |-> 1]
  /\ openRequests = [s \in Side |-> NoEntries]
  /\ waiting = [s \in Side |-> <<>>]
  /\ mailbox = [s \in Side |-> <<>>]
  /\ wire = [s \in Side |-> <<>>]
  /\ loop = [s \in Side |-> "idle"]
  /\ setting \in Settings
  /\ linkUp = TRUE
  /\ alive = [s \in Side |-> Actor]
  /\ watched = [s \in Side |-> {}]
  /\ nexusNamed = [s \in Side |-> NoEntries]
  /\ asker = [s \in Side |-> [q \in Asker |-> IdleAsker]]
  /\ proxy = [s \in Side |-> [p \in Proxy |-> NoProxy]]
  /\ task = [s \in Side |-> [m \in Msg |-> NoTask]]
  /\ offered = [s \in Side |-> {}]
  /\ sent = [s \in Side |-> NoEntries]
  /\ inbox = [s \in Side |-> [a \in Actor |-> <<>>]]
-----------------------------------------------------------------------------
(* Steps that handlers share *)

Takes(s, type) ==
  /\ Live(s)
  /\ mailbox[s] # <<>>
  /\ Head(mailbox[s]).type = type

TakesWhenOpen(s, type) == Takes(s, type) /\ status[s] = "open"

Done(s) == mailbox' = [mailbox EXCEPT ![s] = Tail(@)]
DoneThenCast(s, m) == mailbox' = [mailbox EXCEPT ![s] = Append(Tail(@), m)]
Cast(s, m) == mailbox' = [mailbox EXCEPT ![s] = Append(@, m)]

(* A frame written after the peer dropped its end is lost, or its error    *)
(* fails the portal (PortalFails).                                         *)
Sends(s, m) ==
  wire' = IF SourceOpen(Peer(s)) THEN [wire EXCEPT ![s] = Append(@, m)] ELSE wire

(* The portal actor ends: its state and mailbox are dropped with the reply *)
(* ports in them, and its linked children, the proxies, are terminated.    *)
GoesDown(s, why) ==
  /\ status' = [status EXCEPT ![s] = "down"]
  /\ exit' = [exit EXCEPT ![s] = why]
  /\ asker' = [asker EXCEPT ![s] = Refused(@, PortsHeld(s))]
  /\ task' = [task EXCEPT ![s] = Abandoned(@)]
  /\ proxy' = [proxy EXCEPT ![s] = Stopped(@)]
  /\ proxies' = [proxies EXCEPT ![s] = NoEntries]
  /\ openRequests' = [openRequests EXCEPT ![s] = NoEntries]
  /\ waiting' = [waiting EXCEPT ![s] = <<>>]
  /\ mailbox' = [mailbox EXCEPT ![s] = <<>>]
  /\ UNCHANGED <<contribution, channel, registryVars, nextRequest, wire,
                 conduitVars, alive, nexusNamed, historyVars, inbox>>

(* publish_actor: the id an actor already has, or a fresh one and a task   *)
(* that waits for the actor's end.  Mutant: every call draws a new id.     *)
FreshIds == OpaqueActorId \ UNION {DOMAIN published[s] : s \in Side}
PublishActorAgain(s, a, id) ==
  /\ id \in FreshIds
  /\ published' = [published EXCEPT ![s] = Insert(@, id, a)]
  /\ watched' = [watched EXCEPT ![s] = @ \cup {a}]
PublishActor(s, a, id) ==
  \/ /\ id \in DOMAIN published[s]
     /\ published[s][id] = a
     /\ UNCHANGED <<published, watched>>
  \/ /\ a \notin ImageOf(published[s])
     /\ id \in FreshIds
     /\ published' = [published EXCEPT ![s] = Insert(@, id, a)]
     /\ watched' = [watched EXCEPT ![s] = @ \cup {a}]
-----------------------------------------------------------------------------
(* The conduit *)

(* from_sink_source: the nexus spawns the portal, whose pre_start sends    *)
(* the introduction, and the receive loop starts.                          *)
(* Mutant: it is sent again.                                               *)
Introduction(c) == [type |-> "Handshake", contribution |-> c]
SendsIntroductionTwice(s, c) ==
  /\ contribution' = [contribution EXCEPT ![s] = c]
  /\ wire' = [wire EXCEPT ![s] = Append(Append(@, Introduction(c)), Introduction(c))]
SendsIntroduction(s, c) ==
  /\ contribution' = [contribution EXCEPT ![s] = c]
  /\ Sends(s, Introduction(c))
Connect(s) ==
  /\ status[s] = "idle"
  /\ \E c \in setting.contributions : SendsIntroduction(s, c)
  /\ status' = [status EXCEPT ![s] = "opening"]
  /\ loop' = [loop EXCEPT ![s] = "running"]
  /\ UNCHANGED <<exit, channel, registryVars, proxies, requestVars, mailbox, setting, linkUp,
                 alive, nexusNamed, asker, proxy, task, historyVars, inbox>>

(* The send in pre_start fails. *)
ConnectFails(s) ==
  /\ status[s] = "idle"
  /\ ~SourceOpen(Peer(s))
  /\ status' = [status EXCEPT ![s] = "down"]
  /\ exit' = [exit EXCEPT ![s] = "failed"]
  /\ loop' = [loop EXCEPT ![s] = "done"]
  /\ UNCHANGED <<contribution, channel, registryVars, proxies, requestVars, mailbox,
                 wire, setting, linkUp, alive, nexusNamed, asker, proxy, task, historyVars, inbox>>

(* receive_loop: one message is cast to the portal, or the cast fails. *)
ReceiveLoopReads(s) ==
  /\ loop[s] = "running"
  /\ wire[Peer(s)] # <<>>
  /\ IF Live(s)
     THEN /\ Cast(s, Head(wire[Peer(s)]))
          /\ wire' = [wire EXCEPT ![Peer(s)] = Tail(@)]
          /\ UNCHANGED loop
     ELSE /\ loop' = [loop EXCEPT ![s] = "done"]
          /\ wire' = [wire EXCEPT ![Peer(s)] = <<>>]
          /\ UNCHANGED mailbox
  /\ UNCHANGED <<portalVars, registryVars, proxies, requestVars, setting, linkUp, alive,
                 nexusNamed, asker, proxy, task, historyVars, inbox>>

(* The loop's last cast.  Mutant: the portal is not told. *)
CastsNothing(s) == UNCHANGED mailbox
CastsClose(s) == IF Live(s) THEN Cast(s, [type |-> "Close"]) ELSE UNCHANGED mailbox

(* receive_loop: the stream ended, or failed with frames still in flight. *)
ReceiveLoopEnds(s) ==
  /\ loop[s] = "running"
  /\ linkUp => wire[Peer(s)] = <<>> /\ SinkDropped(Peer(s))
  /\ loop' = [loop EXCEPT ![s] = "done"]
  /\ wire' = [wire EXCEPT ![Peer(s)] = <<>>]
  /\ CastsClose(s)
  /\ UNCHANGED <<portalVars, registryVars, proxies, requestVars, setting, linkUp, alive,
                 nexusNamed, asker, proxy, task, historyVars, inbox>>
-----------------------------------------------------------------------------
(* PortalActor::handle, one action per message *)

(* Handshake while opening: the portal opens and its waiters are woken;    *)
(* one that timed out meanwhile is ignored.  Mutant: they are left.        *)
LeavesWaiting(s) == UNCHANGED <<asker, waiting>>
TellsWaiting(s) ==
  /\ asker' = [asker EXCEPT ![s] =
                 [q \in Asker |-> IF q \in ImageOf(waiting[s]) /\ Waits(s, q)
                                  THEN [@[q] EXCEPT !.state = "answered"] ELSE @[q]]]
  /\ waiting' = [waiting EXCEPT ![s] = <<>>]
HandleHandshake(s) ==
  /\ Takes(s, "Handshake")
  /\ status[s] = "opening"
  /\ channel' = [channel EXCEPT ![s] =
                   XorArrays(contribution[s], Head(mailbox[s]).contribution)]
  /\ status' = [status EXCEPT ![s] = "open"]
  /\ TellsWaiting(s)
  /\ Done(s)
  /\ UNCHANGED <<exit, contribution, registryVars, proxies, nextRequest, openRequests, wire,
                 conduitVars, alive, nexusNamed, proxy, task, historyVars, inbox>>

(* Close, and the two protocol violations: the portal stops itself.        *)
(* Mutant: the first introduction counts as a violation.                   *)
ViolatesAlways(s, m) ==
  \/ m.type = "Handshake"
  \/ m.type \in ContentTypes /\ status[s] = "opening"
Violates(s, m) ==
  \/ m.type = "Handshake" /\ status[s] = "open"
  \/ m.type \in ContentTypes /\ status[s] = "opening"

HandleClose(s) ==
  /\ Live(s)
  /\ mailbox[s] # <<>>
  /\ Head(mailbox[s]).type # "Close" => Violates(s, Head(mailbox[s]))
  /\ GoesDown(s, IF Head(mailbox[s]).type = "Close" THEN "closed" ELSE "protocol")

(* NexusActor's QueryNamedActor.  Mutant: the nexus is not asked. *)
NexusKnowsNothing(s, n) == FALSE
NexusKnows(s, n) == n \in DOMAIN nexusNamed[s]

(* Content(RequestActorByName): the portal's own names first, then those of *)
(* the nexus, whose actor is published on the way.                          *)
HandleRequestActorByName(s) ==
  /\ TakesWhenOpen(s, "RequestActorByName")
  /\ LET m == Head(mailbox[s])
         Responds(r) == Sends(s, [type |-> "ResponseActorByName", id |-> m.id, response |-> r])
     IN \/ /\ m.name \in DOMAIN named[s]
           /\ Responds(RemoteId(s, named[s][m.name]))
           /\ UNCHANGED <<published, watched>>
        \/ /\ m.name \notin DOMAIN named[s] /\ NexusKnows(s, m.name)
           /\ \E id \in OpaqueActorId : /\ PublishActor(s, nexusNamed[s][m.name], id)
                                        /\ Responds(RemoteId(s, id))
        \/ /\ m.name \notin DOMAIN named[s] /\ ~NexusKnows(s, m.name)
           /\ Responds(None)
           /\ UNCHANGED <<published, watched>>
  /\ Done(s)
  /\ UNCHANGED <<portalVars, named, proxies, requestVars, conduitVars, alive,
                 nexusNamed, asker, proxy, task, historyVars, inbox>>

(* Content(ResponseActorByName): an unknown request id is only logged. *)
HandleResponseActorByName(s) ==
  /\ TakesWhenOpen(s, "ResponseActorByName")
  /\ LET m == Head(mailbox[s])
     IN IF m.id \in DOMAIN openRequests[s]
        THEN /\ Waits(s, openRequests[s][m.id])
             /\ Replies(s, openRequests[s][m.id], m.response)
             /\ openRequests' = [openRequests EXCEPT ![s] = Remove(@, m.id)]
        ELSE UNCHANGED <<asker, openRequests>>
  /\ Done(s)
  /\ UNCHANGED <<portalVars, registryVars, proxies, nextRequest, waiting, wire, conduitVars,
                 alive, nexusNamed, proxy, task, historyVars, inbox>>

(* Content(SendMessage): rematerialize, which makes and registers a proxy  *)
(* for an embedded reference, then hands the message to the local actor.   *)
(* An unknown id is only logged.                                           *)
HandleSendMessage(s) ==
  /\ TakesWhenOpen(s, "SendMessage")
  /\ LET m == Head(mailbox[s])
         ref == m.payload.ref
     IN IF m.target.id \in DOMAIN published[s]
        THEN LET a == published[s][m.target.id]
             IN /\ a \in alive[s]
                /\ inbox' = [inbox EXCEPT ![s][a] = Append(@, m.payload)]
                /\ IF ref = None
                   THEN Done(s) /\ UNCHANGED proxy
                   ELSE /\ proxy' = [proxy EXCEPT ![s][m.payload.msg] =
                                       [state |-> "running", target |-> ref]]
                        /\ DoneThenCast(s, [type |-> "RegisterProxy", target |-> ref,
                                            proxy |-> m.payload.msg])
        ELSE Done(s) /\ UNCHANGED <<inbox, proxy>>
  /\ UNCHANGED <<portalVars, registryVars, proxies, requestVars, wire, conduitVars,
                 alive, nexusNamed, asker, task, historyVars>>

(* Content(ActorExited): the proxy registered for the id is stopped. *)
HandleActorExited(s) ==
  /\ TakesWhenOpen(s, "ActorExited")
  /\ LET m == Head(mailbox[s])
     IN IF m.target \in DOMAIN proxies[s]
        THEN /\ proxies' = [proxies EXCEPT ![s] = Remove(@, m.target)]
             /\ proxy' = [proxy EXCEPT ![s][proxies[s][m.target]].state = "stopped"]
        ELSE UNCHANGED <<proxies, proxy>>
  /\ Done(s)
  /\ UNCHANGED <<portalVars, registryVars, requestVars, wire, conduitVars, alive,
                 nexusNamed, asker, task, historyVars, inbox>>

HandleWaitForHandshake(s) ==
  /\ Takes(s, "WaitForHandshake")
  /\ LET q == Head(mailbox[s]).port
     IN \/ /\ status[s] = "opening"
           /\ waiting' = [waiting EXCEPT ![s] = Append(@, q)]
           /\ UNCHANGED asker
        \/ /\ status[s] = "open"
           /\ Waits(s, q)
           /\ Replies(s, q, None)
           /\ UNCHANGED waiting
  /\ Done(s)
  /\ UNCHANGED <<portalVars, registryVars, proxies, nextRequest, openRequests, wire,
                 conduitVars, alive, nexusNamed, proxy, task, historyVars, inbox>>

(* PublishNamedActor: a name that was taken is overwritten. *)
HandlePublishNamedActor(s) ==
  /\ Takes(s, "PublishNamedActor")
  /\ LET m == Head(mailbox[s])
     IN \E id \in OpaqueActorId :
          /\ PublishActor(s, m.actor, id)
          /\ named' = [named EXCEPT ![s] = Insert(@, m.name, id)]
          /\ IF m.port = None
             THEN UNCHANGED asker
             ELSE /\ Waits(s, m.port)
                  /\ Replies(s, m.port, IF status[s] = "open" THEN RemoteId(s, id) ELSE None)
  /\ Done(s)
  /\ UNCHANGED <<portalVars, proxies, requestVars, wire, conduitVars, alive, nexusNamed,
                 proxy, task, historyVars, inbox>>

(* PublishActor with a port: the id goes to the serialization task.  Before *)
(* the handshake the port is dropped.                                       *)
HandlePublishActor(s) ==
  /\ TakesWhenOpen(s, "PublishActor")
  /\ LET m == Head(mailbox[s])
     IN \E id \in OpaqueActorId :
          /\ PublishActor(s, m.actor, id)
          /\ task' = [task EXCEPT ![s][m.msg] =
                        [state |-> "encoded", id |-> RemoteId(s, id)]]
  /\ Done(s)
  /\ UNCHANGED <<portalVars, named, proxies, requestVars, wire, conduitVars, alive,
                 nexusNamed, asker, proxy, historyVars, inbox>>

(* next_request_id += 1.  Mutant: the id is used again. *)
KeepsRequestId(s) == UNCHANGED nextRequest
TakesRequestId(s) == nextRequest' = [nextRequest EXCEPT ![s] = @ + 1]

(* QueryNamedRemoteActor: the port waits in open_requests for the peer's   *)
(* response; before the handshake it is dropped.                           *)
HandleQueryNamedRemoteActor(s) ==
  /\ Takes(s, "QueryNamedRemoteActor")
  /\ LET m == Head(mailbox[s])
     IN \/ /\ status[s] = "open"
           /\ TakesRequestId(s)
           /\ openRequests' = [openRequests EXCEPT ![s] = Insert(@, nextRequest[s], m.port)]
           /\ Sends(s, [type |-> "RequestActorByName", id |-> nextRequest[s], name |-> m.name])
           /\ UNCHANGED asker
        \/ /\ status[s] = "opening"
           /\ asker' = [asker EXCEPT ![s] = Refused(@, {m.port})]
           /\ UNCHANGED <<nextRequest, openRequests, wire>>
  /\ Done(s)
  /\ UNCHANGED <<portalVars, registryVars, proxies, waiting, conduitVars, alive, nexusNamed,
                 proxy, task, historyVars, inbox>>

(* ImmaterializeMessage: the serialization runs in a task of its own. *)
HandleImmaterializeMessage(s) ==
  /\ TakesWhenOpen(s, "ImmaterializeMessage")
  /\ task' = [task EXCEPT ![s][Head(mailbox[s]).msg] = [state |-> "encoding", id |-> None]]
  /\ Done(s)
  /\ UNCHANGED <<portalVars, registryVars, proxies, requestVars, wire, conduitVars, alive,
                 nexusNamed, asker, proxy, historyVars, inbox>>

HandleTransmitMessage(s) ==
  /\ TakesWhenOpen(s, "TransmitMessage")
  /\ LET m == Head(mailbox[s])
     IN Sends(s, [type |-> "SendMessage", target |-> m.target, payload |-> m.payload])
  /\ Done(s)
  /\ UNCHANGED <<portalVars, registryVars, proxies, requestVars, conduitVars, alive,
                 nexusNamed, asker, proxy, task, historyVars, inbox>>

(* RegisterProxyForRemoteActor: a proxy registered earlier for the same id *)
(* is overwritten.                                                         *)
HandleRegisterProxy(s) ==
  /\ TakesWhenOpen(s, "RegisterProxy")
  /\ LET m == Head(mailbox[s])
     IN proxies' = [proxies EXCEPT ![s] = Insert(@, m.target, m.proxy)]
  /\ Done(s)
  /\ UNCHANGED <<portalVars, registryVars, requestVars, wire, conduitVars, alive,
                 nexusNamed, asker, proxy, task, historyVars, inbox>>

(* LocalActorExited: the peer is told, unless the portal is still opening. *)
(* Mutant: of some published actor.                                        *)
AnyIds(s, a) == DOMAIN published[s]
IdsOf(s, a) == {id \in DOMAIN published[s] : published[s][id] = a}
HandleLocalActorExited(s) ==
  /\ Takes(s, "LocalActorExited")
  /\ LET a == Head(mailbox[s]).actor
     IN IF status[s] = "open" /\ IdsOf(s, a) # {}
        THEN \E id \in IdsOf(s, a) :
               Sends(s, [type |-> "ActorExited", target |-> RemoteId(s, id)])
        ELSE UNCHANGED wire
  /\ Done(s)
  /\ UNCHANGED <<portalVars, registryVars, proxies, requestVars, conduitVars, alive,
                 nexusNamed, asker, proxy, task, historyVars, inbox>>

(* The `?` of a handler: it returns Err and the portal actor fails, when a *)
(* frame cannot be sent, the task behind a reply port has given up, or the *)
(* local target of a message has stopped.                                  *)
WritesFrame(s, m) ==
  \/ /\ status[s] = "open"
     /\ m.type \in {"RequestActorByName", "QueryNamedRemoteActor", "TransmitMessage"}
  \/ /\ status[s] = "open"
     /\ m.type = "LocalActorExited"
     /\ m.actor \in ImageOf(published[s])

RepliesTo(s, m) ==
  IF m.type = "ResponseActorByName" /\ status[s] = "open" /\ m.id \in DOMAIN openRequests[s]
  THEN {openRequests[s][m.id]}
  ELSE IF m.type = "PublishNamedActor" \/ (m.type = "WaitForHandshake" /\ status[s] = "open")
  THEN {m.port} \ {None}
  ELSE {}

DeliversTo(s, m) ==
  IF m.type = "SendMessage" /\ status[s] = "open" /\ m.target.id \in DOMAIN published[s]
  THEN {published[s][m.target.id]} ELSE {}

PortalFails(s) ==
  /\ Live(s)
  /\ mailbox[s] # <<>>
  /\ LET m == Head(mailbox[s])
     IN \/ WritesFrame(s, m) /\ ~SourceOpen(Peer(s))
        \/ \E q \in RepliesTo(s, m) : ~Waits(s, q)
        \/ DeliversTo(s, m) \cap (Actor \ alive[s]) # {}
  /\ GoesDown(s, "failed")
-----------------------------------------------------------------------------
(* The tasks around a portal *)

(* The published actors whose end a watching task has seen.                *)
(* Mutant: it never returns.                                               *)
NeverSeen(s) == {}
SeenToEnd(s) == watched[s] \ alive[s]

(* publish_actor's task: the actor has ended, the portal is told. *)
WatcherReports(s, a) ==
  /\ a \in SeenToEnd(s)
  /\ watched' = [watched EXCEPT ![s] = @ \ {a}]
  /\ IF Live(s) THEN Cast(s, [type |-> "LocalActorExited", actor |-> a]) ELSE UNCHANGED mailbox
  /\ UNCHANGED <<portalVars, published, named, proxies, requestVars, wire, conduitVars, alive,
                 nexusNamed, asker, proxy, task, historyVars, inbox>>

(* The serialization task.  immaterialize_actor_ref asks the portal to     *)
(* publish an embedded actor and goes on when the id arrives.              *)
TaskAsksToPublish(s, m) ==
  /\ task[s][m].state = "encoding"
  /\ sent[s][m].ref # None
  /\ task' = [task EXCEPT ![s][m].state = IF Live(s) THEN "asking" ELSE "done"]
  /\ IF Live(s)
     THEN Cast(s, [type |-> "PublishActor", actor |-> sent[s][m].ref, msg |-> m])
     ELSE UNCHANGED mailbox
  /\ UNCHANGED <<portalVars, registryVars, proxies, requestVars, wire, conduitVars, alive,
                 nexusNamed, asker, proxy, historyVars, inbox>>

TaskTransmits(s, m) ==
  /\ \/ task[s][m].state = "encoding" /\ sent[s][m].ref = None
     \/ task[s][m].state = "encoded"
  /\ task' = [task EXCEPT ![s][m].state = "done"]
  /\ IF Live(s)
     THEN Cast(s, [type |-> "TransmitMessage", target |-> sent[s][m].target,
                   payload |-> [msg |-> m, ref |-> task[s][m].id]])
     ELSE UNCHANGED mailbox
  /\ UNCHANGED <<portalVars, registryVars, proxies, requestVars, wire, conduitVars, alive,
                 nexusNamed, asker, proxy, historyVars, inbox>>
-----------------------------------------------------------------------------
(* The application *)

(* Nexus::publish_named_actor *)
AppOffersOnNexus(s, n, a) ==
  /\ s \in Server
  /\ n \in setting.names
  /\ <<n, a, "nexus">> \notin offered[s]
  /\ Cardinality(offered[s]) < setting.offers
  /\ offered' = [offered EXCEPT ![s] = @ \cup {<<n, a, "nexus">>}]
  /\ nexusNamed' = [nexusNamed EXCEPT ![s] = Insert(@, n, a)]
  /\ UNCHANGED <<portalVars, registryVars, proxies, requestVars, mailbox, wire, conduitVars,
                 alive, asker, proxy, task, sent, inbox>>

(* Asking the portal: ask() sends the message with a port, then waits. *)
MayAsk(s, q) ==
  /\ asker[s][q] = IdleAsker
  /\ Cardinality({r \in Side \X Asker : asker[r[1]][r[2]] # IdleAsker}) < setting.asking
BeginsToWait(s, q, wants, known) ==
  asker' = [asker EXCEPT ![s][q] =
              [state |-> "waiting", wants |-> wants, known |-> known, got |-> None]]

(* Portal::publish_named_actor, which takes no reply, and the same message *)
(* with a reply port.                                                      *)
AppOffers(s, n, a) ==
  /\ s \in Server
  /\ n \in setting.names
  /\ Live(s)
  /\ <<n, a, "portal">> \notin offered[s]
  /\ Cardinality(offered[s]) < setting.offers
  /\ offered' = [offered EXCEPT ![s] = @ \cup {<<n, a, "portal">>}]
  /\ \/ /\ Cast(s, [type |-> "PublishNamedActor", name |-> n, actor |-> a, port |-> None])
        /\ UNCHANGED asker
     \/ \E q \in Asker :
          /\ "publication" \in Asks
          /\ MayAsk(s, q)
          /\ BeginsToWait(s, q, "publication", FALSE)
          /\ Cast(s, [type |-> "PublishNamedActor", name |-> n, actor |-> a, port |-> q])
  /\ UNCHANGED <<portalVars, registryVars, proxies, requestVars, wire, conduitVars, alive,
                 nexusNamed, proxy, task, sent, inbox>>

AppWaitsForHandshake(s, q) ==
  /\ "handshake" \in Asks
  /\ Live(s)
  /\ MayAsk(s, q)
  /\ BeginsToWait(s, q, "handshake", FALSE)
  /\ Cast(s, [type |-> "WaitForHandshake", port |-> q])
  /\ UNCHANGED <<portalVars, registryVars, proxies, requestVars, wire, conduitVars, alive,
                 nexusNamed, proxy, task, historyVars, inbox>>

AppQueries(s, q, n) ==
  /\ "query" \in Asks
  /\ s \in Client
  /\ n \in setting.names
  /\ Live(s)
  /\ MayAsk(s, q)
  /\ BeginsToWait(s, q, n, n \in DOMAIN named[Peer(s)] \cup DOMAIN nexusNamed[Peer(s)])
  /\ Cast(s, [type |-> "QueryNamedRemoteActor", name |-> n, port |-> q])
  /\ UNCHANGED <<portalVars, registryVars, proxies, requestVars, wire, conduitVars, alive,
                 nexusNamed, proxy, task, historyVars, inbox>>

(* instantiate_proxy_for_remote_actor, with the id a query returned *)
AppInstantiatesProxy(s, q) ==
  /\ Live(s)
  /\ asker[s][q].state = "answered"
  /\ asker[s][q].wants \in Name
  /\ asker[s][q].got # None
  /\ proxy[s][q].state = "none"
  /\ proxy' = [proxy EXCEPT ![s][q] = [state |-> "running", target |-> asker[s][q].got]]
  /\ Cast(s, [type |-> "RegisterProxy", target |-> asker[s][q].got, proxy |-> q])
  /\ UNCHANGED <<portalVars, registryVars, proxies, requestVars, wire, conduitVars, alive,
                 nexusNamed, asker, task, historyVars, inbox>>

(* A message for a proxy, which passes it to its portal. *)
MessagesSent == UNION {DOMAIN sent[r] : r \in Side}
AppSends(s, p, m, ref) ==
  /\ s \in Client
  /\ proxy[s][p].state = "running"
  /\ m \notin MessagesSent
  /\ Cardinality(MessagesSent) < setting.messages
  /\ ref # None => s \in Server
  /\ sent' = [sent EXCEPT ![s] = Insert(@, m, [target |-> proxy[s][p].target, ref |-> ref])]
  /\ Cast(s, [type |-> "ImmaterializeMessage", msg |-> m])
  /\ UNCHANGED <<portalVars, registryVars, proxies, requestVars, wire, conduitVars, alive,
                 nexusNamed, asker, proxy, task, offered, inbox>>

(* Faults *)

(* The timeout of an ask: the receiver is dropped, the port stays behind. *)
AskTimesOut(s, q) ==
  /\ "timeout" \in Faults
  /\ Waits(s, q)
  /\ asker' = [asker EXCEPT ![s][q].state = "timedout"]
  /\ UNCHANGED <<portalVars, registryVars, proxies, requestVars, mailbox, wire, conduitVars,
                 alive, nexusNamed, proxy, task, historyVars, inbox>>

ActorExits(s, a) ==
  /\ "exit" \in Faults
  /\ s \in Server
  /\ a \in alive[s]
  /\ alive' = [alive EXCEPT ![s] = @ \ {a}]
  /\ UNCHANGED <<portalVars, registryVars, proxies, requestVars, mailbox, wire, conduitVars,
                 nexusNamed, asker, proxy, task, historyVars, inbox>>

LinkBreaks ==
  /\ "break" \in Faults
  /\ linkUp
  /\ linkUp' = FALSE
  /\ UNCHANGED <<portalVars, registryVars, proxies, requestVars, mailbox, wire, setting, loop, alive,
                 nexusNamed, asker, proxy, task, historyVars, inbox>>

AppStopsPortal(s) ==
  /\ "stop" \in Faults
  /\ Live(s)
  /\ GoesDown(s, "stopped")
-----------------------------------------------------------------------------
Handle(s) ==
  \/ HandleHandshake(s)
  \/ HandleClose(s)
  \/ HandleRequestActorByName(s)
  \/ HandleResponseActorByName(s)
  \/ HandleSendMessage(s)
  \/ HandleActorExited(s)
  \/ HandleWaitForHandshake(s)
  \/ HandlePublishNamedActor(s)
  \/ HandlePublishActor(s)
  \/ HandleQueryNamedRemoteActor(s)
  \/ HandleImmaterializeMessage(s)
  \/ HandleTransmitMessage(s)
  \/ HandleRegisterProxy(s)
  \/ HandleLocalActorExited(s)
  \/ PortalFails(s)

ReceiveLoop(s) == ReceiveLoopReads(s) \/ ReceiveLoopEnds(s)

SerializationTask(s, m) == TaskAsksToPublish(s, m) \/ TaskTransmits(s, m)

Application(s) ==
  \/ Connect(s)
  \/ ConnectFails(s)
  \/ \E n \in Name, a \in Actor : AppOffersOnNexus(s, n, a) \/ AppOffers(s, n, a)
  \/ \E q \in Asker : AppWaitsForHandshake(s, q) \/ AppInstantiatesProxy(s, q)
  \/ \E q \in Asker, n \in Name : AppQueries(s, q, n)
  \/ \E p \in Proxy, m \in Msg, ref \in Actor \cup {None} : AppSends(s, p, m, ref)

Environment ==
  \/ \E s \in Side, q \in Asker : AskTimesOut(s, q)
  \/ \E s \in Side, a \in Actor : ActorExits(s, a)
  \/ \E s \in Side : AppStopsPortal(s)
  \/ LinkBreaks

Next ==
  \/ \E s \in Side :
       \/ Handle(s)
       \/ ReceiveLoop(s)
       \/ \E a \in Actor : WatcherReports(s, a)
       \/ \E m \in Msg : SerializationTask(s, m)
       \/ Application(s)
  \/ Environment

(* The runtime polls every ready task: portals, receive loops, watchers    *)
(* and serialization tasks go on.  Nothing obliges the application or the  *)
(* environment to act.                                                     *)
Fairness ==
  \A s \in Side :
    /\ WF_vars(Handle(s))
    /\ WF_vars(ReceiveLoop(s))
    /\ \A a \in Actor : WF_vars(WatcherReports(s, a))
    /\ \A m \in Msg : WF_vars(SerializationTask(s, m))

Spec == Init /\ [][Next]_vars
FairSpec == Spec /\ Fairness
-----------------------------------------------------------------------------
(* Every variable holds what the program's types and maps allow. *)
TypeOK ==
  /\ status \in [Side -> {"idle", "opening", "open", "down"}]
  /\ exit \in [Side -> Exits \cup {None}]
  /\ contribution \in [Side -> ConduitID]
  /\ channel \in [Side -> ConduitID]
  /\ MapPerSide(published, OpaqueActorId, Actor)
  /\ MapPerSide(named, Name, OpaqueActorId)
  /\ MapPerSide(proxies, RemoteActorId, Proxy)
  /\ nextRequest \in [Side -> Nat]
  /\ MapPerSide(openRequests, Nat, Asker)
  /\ waiting \in [Side -> Seq(Asker)]
  /\ mailbox \in [Side -> Seq(PortalActorMessage)]
  /\ wire \in [Side -> Seq(ConduitMessage)]
  /\ loop \in [Side -> {"idle", "running", "done"}]
  /\ linkUp \in BOOLEAN
  /\ setting \in Settings
  /\ alive \in [Side -> SUBSET Actor]
  /\ watched \in [Side -> SUBSET Actor]
  /\ MapPerSide(nexusNamed, Name, Actor)
  /\ asker \in [Side -> [Asker -> AskerState]]
  /\ proxy \in [Side -> [Proxy -> ProxyState]]
  /\ task \in [Side -> [Msg -> TaskState]]
  /\ MapPerSide(sent, Msg, [target : RemoteActorId, ref : Actor \cup {None}])
  /\ offered \in [Side -> SUBSET (Name \X Actor \X {"portal", "nexus"})]
  /\ inbox \in [Side -> [Actor -> Seq(Payload)]]

(* Two wormhole portals never trip each other's protocol checks: whatever  *)
(* is published, asked, sent or stopped, in whatever order, no frame       *)
(* reaches a portal before the peer's introduction and no second           *)
(* introduction follows (the two branches of handle that stop the portal). *)
NoProtocolViolation == \A s \in Side : exit[s] # "protocol"

(* connection_key "is the same ID on both sides" (RemoteActorId, nexus.rs): *)
(* each side xors its own contribution with the one it was sent.            *)
ChannelAgreement ==
  \A s, r \in Side : status[s] = "open" /\ status[r] = "open" => channel[s] = channel[r]

(* Who asked a portal is not forgotten: while it waits, exactly one place  *)
(* of a running portal (mailbox, open_requests or waiting_for_handshake)   *)
(* holds its reply port; and while a serialization task waits for the id   *)
(* of an embedded actor, its one request is in the mailbox of a running    *)
(* portal.  A port dropped on the way wakes its task.                      *)
MailboxPlaces(box, q) == {j \in DOMAIN box : box[j].type \in PortTypes /\ box[j].port = q}
PlacesOf(f, q) == {j \in DOMAIN f : f[j] = q}
PortPlaces(s, q) ==
  {<<"mailbox", i>> : i \in MailboxPlaces(mailbox[s], q)}
  \cup {<<"request", i>> : i \in PlacesOf(openRequests[s], q)}
  \cup {<<"waiting", i>> : i \in PlacesOf(waiting[s], q)}
RequestPlaces(s, m) ==
  {i \in DOMAIN mailbox[s] : mailbox[s][i].type = "PublishActor" /\ mailbox[s][i].msg = m}
EveryWaitIsOwned ==
  \A s \in Side :
    /\ \A q \in Asker : Waits(s, q) => Live(s) /\ Cardinality(PortPlaces(s, q)) = 1
    /\ \A m \in Msg : task[s][m].state = "asking" =>
         Live(s) /\ Cardinality(RequestPlaces(s, m)) = 1

(* The answer a query gets is the id of an actor that the other side       *)
(* offered under the name that was asked for, on its portal or its nexus,  *)
(* however requests and responses interleave.                              *)
Offered(s, n, a) == \E where \in {"portal", "nexus"} : <<n, a, where>> \in offered[s]
AnswersTheQuestion ==
  \A s \in Side, q \in Asker :
    LET rid == asker[s][q].got
    IN asker[s][q].state = "answered" /\ asker[s][q].wants \in Name /\ rid # None
         => /\ rid.key = channel[s] /\ rid.side = Peer(s)
            /\ rid.id \in DOMAIN published[Peer(s)]
            /\ Offered(Peer(s), asker[s][q].wants, published[Peer(s)][rid.id])

(* "Actors published to the Nexus are immediately available to all         *)
(* Portals" (README), and so are those published on the portal: a name the *)
(* other side knew when the query was made is found.                       *)
PublishedNamesAreFound ==
  \A s \in Side, q \in Asker :
    asker[s][q].state = "answered" /\ asker[s][q].known => asker[s][q].got # None

(* A message reaches the one actor its proxy stands for, at most once, and *)
(* the reference embedded in it still means the actor the sender put in,   *)
(* through the spawned task, the mailbox and the wire.                     *)
DeliveredAsSent ==
  \A s \in Side, a \in Actor : \A i \in DOMAIN inbox[s][a] :
    LET m == inbox[s][a][i].msg
        ref == inbox[s][a][i].ref
        r == Peer(s)
    IN /\ m \in DOMAIN sent[r]
       /\ published[s][sent[r][m].target.id] = a
       /\ IF sent[r][m].ref = None THEN ref = None
          ELSE /\ ref # None
               /\ ref.side = r
               /\ published[r][ref.id] = sent[r][m].ref
       /\ \A b \in Actor : \A j \in DOMAIN inbox[s][b] :
            inbox[s][b][j].msg = m => b = a /\ j = i

(* An actor has one id per portal, even when it is published on the portal, *)
(* on the nexus and inside messages at once: LocalActorExited reports one.  *)
OneIdPerActor ==
  \A s \in Side : \A i, j \in DOMAIN published[s] :
    published[s][i] = published[s][j] => i = j

(* An id that side s gave out: it has an actor, and the key of the conduit *)
(* as soon as a portal knows that.                                         *)
StandsFor(s, rid) ==
  /\ rid.side = s
  /\ rid.id \in DOMAIN published[s]
  /\ \A r \in Side : status[r] = "open" => rid.key = channel[r]

(* The ids in a message: those of its sender's actors, and of its peer's.  *)
OwnIds(e) ==
  {rid \in (IF e.type = "ResponseActorByName" THEN {e.response}
            ELSE IF e.type \in {"TransmitMessage", "SendMessage"} THEN {e.payload.ref}
            ELSE IF e.type = "ActorExited" THEN {e.target} ELSE {}) : rid # None}
PeersIds(e) == IF e.type \in {"TransmitMessage", "SendMessage", "RegisterProxy"} THEN {e.target} ELSE {}
IdsStand(s, e) ==
  /\ \A rid \in OwnIds(e) : StandsFor(s, rid)
  /\ \A rid \in PeersIds(e) : StandsFor(Peer(s), rid)

(* An id names an actor that its side has published, wherever it is: with  *)
(* a proxy, a name, or a serialization task, and in every message under    *)
(* way; so the "not found in published actors" branch is never taken.      *)
NoDanglingId ==
  \A s \in Side :
    /\ \A p \in Proxy : proxy[s][p].target # None => StandsFor(Peer(s), proxy[s][p].target)
    /\ \A n \in DOMAIN named[s] : named[s][n] \in DOMAIN published[s]
    /\ \A m \in Msg : task[s][m].state = "encoded" /\ task[s][m].id # None
         => StandsFor(s, task[s][m].id)
    /\ \A i \in DOMAIN wire[s] : IdsStand(s, wire[s][i])
    /\ \A i \in DOMAIN mailbox[s] :
         IdsStand(IF mailbox[s][i].type \in ContentTypes THEN Peer(s) ELSE s, mailbox[s][i])

(* Ids are sound: an actor has one, and each that is used has an actor.    *)
IdsAreSound == OneIdPerActor /\ NoDanglingId

(* While its portal runs, a proxy stops only because the actor it stands   *)
(* for has ended.                                                          *)
ProxyOutlivedByActorOnly ==
  \A s \in Side : \A p \in Proxy :
    proxy[s][p].state = "stopped" /\ Live(s)
      => published[Peer(s)][proxy[s][p].target.id] \notin alive[Peer(s)]

(* Portals do not go down by themselves: if one is down there was a broken *)
(* link, a portal stopped by its application, a task that gave up waiting, *)
(* or an actor that ended after it was published.                          *)
GaveUp(s) == \E q \in Asker : asker[s][q].state = "timedout"
HasCause ==
  \/ ~linkUp
  \/ \E s \in Side : exit[s] = "stopped"
  \/ \E s \in Side : exit[s] = "failed"
       /\ (GaveUp(s) \/ ~(ImageOf(published[s]) \subseteq alive[s]))
NoSpontaneousShutdown == (\E s \in Side : status[s] = "down") => HasCause
-----------------------------------------------------------------------------
(* Both sides connected: each portal opens, or goes down. *)
HandshakeCompletes ==
  \A s \in Side :
    (status[s] = "opening" /\ status[Peer(s)] # "idle") ~> status[s] \in {"open", "down"}

(* ask without a timeout returns, once the other side has connected: an    *)
(* answer, an error or the end of the portal.  Only a portal that shares a *)
(* stream with its receive loop may be stopped unheard and leave an ask    *)
(* without an answer: the loop waits for a message before it finds out.    *)
StoppedUnheard(s) == Halves = "shared" /\ status[s] = "down" /\ loop[s] = "running"
EveryAskReturns ==
  \A s \in Side, q \in Asker :
    (Waits(s, q) /\ status[Peer(s)] # "idle") ~> ~Waits(s, q) \/ StoppedUnheard(Peer(s))

(* The part of remote linking that holds: a proxy registered before the    *)
(* task watching its actor reports the end is stopped, unless a later      *)
(* proxy for the same actor has replaced it or the portal is down.         *)
Target(s, p) == proxy[s][p].target
Registered(s, p) ==
  /\ proxy[s][p].state = "running"
  /\ Target(s, p) \in DOMAIN proxies[s]
  /\ proxies[s][Target(s, p)] = p
ActorOf(s, p) == published[Peer(s)][Target(s, p).id]
LinkedProxyStops ==
  \A s \in Side, p \in Proxy :
    (/\ Registered(s, p)
     /\ ActorOf(s, p) \in watched[Peer(s)] \ alive[Peer(s)])
      ~> \/ proxy[s][p].state = "stopped"
         \/ Target(s, p) \in DOMAIN proxies[s] /\ proxies[s][Target(s, p)] # p

(* "proxy actors are stopped when the real actor exits" (braindump.md).    *)
RemoteLinking ==
  \A s \in Side, p \in Proxy :
    (/\ proxy[s][p].state = "running"
     /\ ActorOf(s, p) \notin alive[Peer(s)])
      ~> proxy[s][p].state = "stopped"
-----------------------------------------------------------------------------
(* What makes the invariants above inductive (PortalProofs). *)

(* A serialization task, and the requests it makes, belong to a message    *)
(* that was handed to a proxy; a running proxy has a running portal and    *)
(* stands for some actor.                                                  *)
TasksHaveClosures ==
  \A s \in Side, m \in Msg :
    task[s][m].state \in {"encoding", "asking", "encoded"} => m \in DOMAIN sent[s]
RequestsHaveClosures ==
  \A s \in Side : \A i \in DOMAIN mailbox[s] :
    mailbox[s][i].type \in {"ImmaterializeMessage", "PublishActor"}
      => mailbox[s][i].msg \in DOMAIN sent[s]
ProxiesRunWithPortal ==
  \A s \in Side, p \in Proxy :
    proxy[s][p].state = "running" => Live(s) /\ proxy[s][p].target # None
SendsAreOwned == TasksHaveClosures /\ RequestsHaveClosures /\ ProxiesRunWithPortal

(* The introduction of the peer is the first frame of its stream, and the  *)
(* stream has one: it is unread on the wire, or it waits in the mailbox    *)
(* ahead of every content frame, or it has been handled.                   *)
NoIntroduction(q) == \A i \in DOMAIN q : q[i].type # "Handshake"
OnlyLocal(q) == \A i \in DOMAIN q : q[i].type \notin ContentTypes \cup {"Handshake"}
LedByIntroduction(q) ==
  \E k \in DOMAIN q :
    /\ q[k].type = "Handshake"
    /\ \A i \in DOMAIN q : /\ i # k => q[i].type # "Handshake"
                           /\ i < k => q[i].type \notin ContentTypes

IntroductionUnread(s) ==
  LET stream == wire[Peer(s)]
  IN /\ OnlyLocal(mailbox[s])
     /\ IF stream = <<>>
        THEN status[Peer(s)] = "idle" \/ ~SourceOpen(s)
        ELSE /\ status[Peer(s)] # "idle"
             /\ Head(stream).type = "Handshake"
             /\ NoIntroduction(Tail(stream))
IntroductionInMailbox(s) ==
  /\ status[Peer(s)] # "idle"
  /\ NoIntroduction(wire[Peer(s)])
  /\ LedByIntroduction(mailbox[s])
IntroductionHandled(s) ==
  /\ status[Peer(s)] # "idle"
  /\ NoIntroduction(wire[Peer(s)])
  /\ NoIntroduction(mailbox[s])
OneIntroductionFirst ==
  \A s \in Side :
    /\ ~Live(s) => mailbox[s] = <<>>
    /\ status[s] = "idle" => wire[s] = <<>> /\ loop[s] = "idle" /\ IntroductionUnread(s)
    /\ status[s] = "opening" => IntroductionUnread(s) \/ IntroductionInMailbox(s)
    /\ status[s] = "open" => IntroductionHandled(s)

(* Every introduction under way carries its sender's contribution, which   *)
(* an open portal has combined with its own.                               *)
ContributionsAgree ==
  \A s \in Side :
    /\ \A i \in DOMAIN wire[s] :
         wire[s][i].type = "Handshake" => wire[s][i].contribution = contribution[s]
    /\ \A i \in DOMAIN mailbox[s] :
         mailbox[s][i].type = "Handshake" => mailbox[s][i].contribution = contribution[Peer(s)]
    /\ status[s] = "open" => channel[s] = XorArrays(contribution[s], contribution[Peer(s)])
-----------------------------------------------------------------------------
(* What makes EveryWaitIsOwned and NoSpontaneousShutdown inductive         *)
(* (PortalProofs).                                                         *)

(* One of the places of its portal holds the port of a task, once, if any  *)
(* does.  Then the task has not been answered: it waits, or it gave up.    *)
AtMostOne(S) == \A x, y \in S : x = y
OwnedOnce(s, q) ==
  LET InMailbox == MailboxPlaces(mailbox[s], q)
      InRequests == PlacesOf(openRequests[s], q)
      InWaiting == PlacesOf(waiting[s], q)
      Held == InMailbox # {} \/ InRequests # {} \/ InWaiting # {}
  IN /\ AtMostOne(InMailbox) /\ AtMostOne(InRequests) /\ AtMostOne(InWaiting)
     /\ InMailbox # {} => InRequests = {} /\ InWaiting = {}
     /\ InRequests # {} => InWaiting = {}
     /\ Held => asker[s][q].state \in {"waiting", "timedout"}
     /\ Waits(s, q) => Live(s) /\ Held
PortsAreOwnedOnce == \A s \in Side, q \in Asker : OwnedOnce(s, q)
RequestsAreNumbered ==
  \A s \in Side : \A k \in DOMAIN openRequests[s] : k < nextRequest[s]

(* So has everything that leads to the end of a portal. *)
CloseIsDue(s) == \E i \in DOMAIN mailbox[s] : mailbox[s][i].type = "Close"
EndsHaveCause ==
  \A s \in Side :
    /\ status[s] = "down" \/ loop[s] = "done" \/ CloseIsDue(s) => HasCause
    /\ status[s] # "down" => exit[s] = None
-----------------------------------------------------------------------------
(* What makes the invariants about ids and names inductive                 *)
(* (PortalProofs).                                                         *)

(* rid is the id under which side s has published an actor, on the conduit *)
(* that the two sides opened.                                              *)
ConduitKey == XorArrays(contribution["a"], contribution["b"])
Means(s, rid) ==
  /\ \A r \in Side : status[r] # "idle"
  /\ rid.key = ConduitKey
  /\ rid.side = s
  /\ rid.id \in DOMAIN published[s]

(* Payload is what side s sends of the message that was handed to it. *)
Conveys(s, target, payload) ==
  /\ payload.msg \in DOMAIN sent[s]
  /\ target = sent[s][payload.msg].target
  /\ IF sent[s][payload.msg].ref = None
     THEN payload.ref = None
     ELSE /\ payload.ref # None
          /\ Means(s, payload.ref)
          /\ published[s][payload.ref.id] = sent[s][payload.msg].ref

(* What an answer to task q of side s, which asked the peer for a name, is *)
(* like.                                                                   *)
IsAnswer(s, q, rid) ==
  /\ asker[s][q].known => rid # None
  /\ rid # None => /\ Means(Peer(s), rid)
                   /\ Offered(Peer(s), asker[s][q].wants, published[Peer(s)][rid.id])

(* The frames side s has sent: its peer has not handled them yet.          *)
RequestIsSound(s, m) ==
  /\ m.id < nextRequest[s]
  /\ m.id \in DOMAIN openRequests[s] => asker[s][openRequests[s][m.id]].wants = m.name
ResponseIsSound(s, m) ==
  /\ m.id < nextRequest[Peer(s)]
  /\ m.response # None => Means(s, m.response)
  /\ m.id \in DOMAIN openRequests[Peer(s)]
       => IsAnswer(Peer(s), openRequests[Peer(s)][m.id], m.response)
FrameIsSound(s, m) ==
  /\ m.type = "RequestActorByName" => RequestIsSound(s, m)
  /\ m.type = "ResponseActorByName" => ResponseIsSound(s, m)
  /\ m.type = "SendMessage" => Means(Peer(s), m.target) /\ Conveys(s, m.target, m.payload)
  /\ m.type = "ActorExited" =>
       Means(s, m.target) /\ published[s][m.target.id] \notin alive[s]

(* What waits in the mailbox of side s for its portal. *)
MailIsSound(s, m) ==
  /\ m.type = "PublishNamedActor" =>
       /\ <<m.name, m.actor, "portal">> \in offered[s]
       /\ m.port # None => asker[s][m.port].wants = "publication"
  /\ m.type = "QueryNamedRemoteActor" => asker[s][m.port].wants = m.name
  /\ m.type = "WaitForHandshake" => asker[s][m.port].wants = "handshake"
  /\ m.type = "PublishActor" => m.msg \in DOMAIN sent[s] /\ sent[s][m.msg].ref = m.actor
  /\ m.type = "TransmitMessage" => Conveys(s, m.target, m.payload)
  /\ m.type = "RegisterProxy" =>
       /\ m.target # None /\ Means(Peer(s), m.target)
       /\ proxy[s][m.proxy].target = m.target
  /\ m.type = "LocalActorExited" => m.actor \notin alive[s]

TrafficIsSound ==
  \A s \in Side :
    /\ \A i \in DOMAIN wire[s] : FrameIsSound(s, wire[s][i])
    /\ \A i \in DOMAIN mailbox[s] :
         FrameIsSound(Peer(s), mailbox[s][i]) /\ MailIsSound(s, mailbox[s][i])

(* Names stand for actors that were offered under them. *)
NamesAreSound ==
  \A s \in Side :
    /\ \A n \in DOMAIN named[s] :
         named[s][n] \in DOMAIN published[s] /\ Offered(s, n, published[s][named[s][n]])
    /\ \A n \in DOMAIN nexusNamed[s] : Offered(s, n, nexusNamed[s][n])

(* Who asked for a name has an answer of the kind above, or none yet.      *)
AskersAreSound ==
  \A s \in Side :
    /\ \A k \in DOMAIN openRequests[s] : asker[s][openRequests[s][k]].wants \in Name
    /\ \A i \in DOMAIN waiting[s] : asker[s][waiting[s][i]].wants = "handshake"
    /\ \A q \in Asker :
         /\ asker[s][q].known =>
              asker[s][q].wants \in Name \cap (DOMAIN named[Peer(s)] \cup DOMAIN nexusNamed[Peer(s)])
         /\ asker[s][q].state = "answered" /\ asker[s][q].wants \in Name =>
              /\ IsAnswer(s, q, asker[s][q].got)
              /\ status[s] \in {"open", "down"}
              /\ asker[s][q].got # None => asker[s][q].got.key = channel[s]

(* A proxy stands for an actor of the other side, if it has been made; one *)
(* that came in a message, for the actor that was put in there.            *)
ProxiesAreSound ==
  \A s \in Side :
    /\ \A p \in Proxy :
         /\ proxy[s][p].state = "none" <=> proxy[s][p].target = None
         /\ proxy[s][p].target # None =>
              /\ Means(Peer(s), proxy[s][p].target)
              /\ p \in Msg => /\ p \in DOMAIN sent[Peer(s)]
                              /\ published[Peer(s)][proxy[s][p].target.id] = sent[Peer(s)][p].ref
    /\ \A t \in DOMAIN proxies[s] : t # None /\ proxy[s][proxies[s][t]].target = t

(* A message goes to an actor of the other side, and what its task has     *)
(* encoded is what was handed to it.                                       *)
ClosuresAreSound ==
  \A s \in Side :
    /\ \A m \in DOMAIN sent[s] : Means(Peer(s), sent[s][m].target)
    /\ \A m \in Msg :
         /\ task[s][m].state = "encoding" => task[s][m].id = None
         /\ task[s][m].state = "encoded" =>
              Conveys(s, sent[s][m].target, [msg |-> m, ref |-> task[s][m].id])

(* What an actor has received was sent to it. *)
ReceivedAsSent ==
  \A s \in Side, a \in Actor : \A i \in DOMAIN inbox[s][a] :
    LET payload == inbox[s][a][i]
        target == sent[Peer(s)][payload.msg].target
    IN Conveys(Peer(s), target, payload) /\ Means(s, target) /\ published[s][target.id] = a

(* Every message handed to a proxy is under way in one place at most: a    *)
(* mailbox, the wire, its serialization task; in the end, the inbox of an  *)
(* actor.                                                                  *)
Carries(e, m) ==
  \/ e.type \in {"ImmaterializeMessage", "PublishActor"} /\ e.msg = m
  \/ e.type \in {"TransmitMessage", "SendMessage"} /\ e.payload.msg = m
Carriers(q, m) == {i \in DOMAIN q : Carries(q[i], m)}
Arrivals(q, m) == {i \in DOMAIN q : q[i].msg = m}
IsEncoded(state) == state \in {"encoding", "encoded"}

Place == ({"mailbox", "wire", "task"} \X Side \X {None}) \cup ({"inbox"} \X Side \X Actor)
Copies(l, m) ==
  LET s == l[2]
  IN CASE l[1] = "mailbox" -> Carriers(mailbox[s], m)
       [] l[1] = "wire" -> Carriers(wire[s], m)
       [] l[1] = "task" -> IF IsEncoded(task[s][m].state) THEN {0} ELSE {}
       [] l[1] = "inbox" -> Arrivals(inbox[s][l[3]], m)
OneCopy ==
  \A m \in Msg :
    /\ \A k, l \in Place : Copies(k, m) # {} /\ Copies(l, m) # {} => k = l
    /\ \A l \in Place : AtMostOne(Copies(l, m)) /\ (Copies(l, m) # {} => m \in MessagesSent)

(* A serialization task that waits for an id has its request in the        *)
(* mailbox of a running portal; there is no second one, by OneCopy.        *)
AsksAreUnderWay ==
  \A s \in Side, m \in Msg : task[s][m].state = "asking" => Live(s) /\ RequestPlaces(s, m) # {}
=============================================================================
