-------------------------------- MODULE Ffi --------------------------------
(***************************************************************************)
(* The wormhole behind a foreign function interface (uniffi_test): a chat  *)
(* client and a chat server in Kotlin, each with a WormholeRuntime, joined *)
(* by a connection whose transport is theirs.                              *)
(*                                                                         *)
(*   portal -> outbox -> task -> TransportCallback -> web socket -> wire   *)
(*   wire -> web socket -> on_message_received -> inbox -> portal          *)
(*                                                                         *)
(* The main threads, the threads of the web socket libraries, the tasks of *)
(* the actors and that of the transport run side by side on either side.   *)
(* Portals are reduced to one connection and to the calls of this          *)
(* application (Portal.tla and ReplyPort.tla have the rest); inbox is the  *)
(* channel, the receive loop and the mailbox in one.                       *)
(***************************************************************************)
EXTENDS Naturals, Sequences, FiniteSets

CONSTANTS
  MaxCalls,  \* how many calls a client makes at most
  Settings   \* how many it makes, and what may go wrong

FaultKinds == {"break", "stop"}
Side == {"client", "server"}
Peer(s) == IF s = "client" THEN "server" ELSE "client"

ASSUME FfiAssumption ==
  /\ MaxCalls \in Nat \ {0}
  /\ Settings \subseteq [calls : 1 .. MaxCalls, faults : SUBSET FaultKinds]

VARIABLES
  setting,    \* out of Settings
  (* between the processes *)
  link,       \* whether the network between them is up
  socket,     \* a library's socket
  wire,       \* what is on its way to a side
  assigned,   \* the client's WebSocketTransport.webSocket is not null
  (* in Rust *)
  nexus,      \* WormholeRuntime::nexus
  conn,       \* a side's WormholeConnection
  portal,     \* its portal
  task,       \* the task that owns the transport
  outbox,     \* the channel to it
  inbox,      \* the channel from on_message_received
  tasks,      \* the frames that tasks are serializing
  (* the client *)
  phase,      \* how far runClient has come
  calls,      \* how many calls it has made; the first is to the hub
  asked,      \* what the last one asks
  (* the server *)
  closing,    \* how far runServer has come after its console closed
  setup,      \* the thread that publishes the hub
  hub, chat,  \* whether the two actors run
  connect,    \* the next of HubSteps for the Connect message, or 0
  queue,      \* the chat server actor's messages
  clients,    \* whether its client is in the map
  (* history *)
  acked,      \* the posts that the client was told of
  shown,      \* the posts that it was shown
  unlisted    \* it was sent a list of users without itself

netVars == <<link, socket, wire, assigned>>
rustVars == <<nexus, conn, portal, task, outbox, inbox, tasks>>
clientVars == <<phase, calls, asked>>
serverVars == <<closing, setup, hub, chat, connect, queue, clients>>
historyVars == <<acked, shown, unlisted>>
vars == <<setting, netVars, rustVars, clientVars, serverVars, historyVars>>

Asking == {"Connect", "PostMessage", "ListUsers"}
Frame ==
       [type : {"Introduction", "Query", "Found", "NotFound"}]
  \cup [type : Asking \cup {"MessageReceived"}, call : 1 .. MaxCalls]
  \cup [type : {"Answer"}, call : 1 .. MaxCalls, ok : BOOLEAN]
Close == [type |-> "Close"]

Init ==
  /\ setting \in Settings
  /\ link = "up"
  /\ socket = [s \in Side |-> "none"]
  /\ wire = [s \in Side |-> <<>>]
  /\ assigned = FALSE
  /\ nexus = [s \in Side |-> "up"]
  /\ conn = [s \in Side |-> "none"]
  /\ portal = [s \in Side |-> "none"]
  /\ task = [s \in Side |-> "none"]
  /\ outbox = [s \in Side |-> <<>>]
  /\ inbox = [s \in Side |-> <<>>]
  /\ tasks = [s \in Side |-> {}]
  /\ phase = "dialing" /\ calls = 0 /\ asked = "Connect"
  /\ closing = "no" /\ setup = "none"
  /\ hub = "up" /\ chat = "up" /\ connect = 0 /\ queue = <<>> /\ clients = FALSE
  /\ acked = {} /\ shown = {} /\ unlisted = FALSE
-----------------------------------------------------------------------------
(* The web sockets *)

SocketOpens ==
  /\ socket["client"] = "none" /\ closing = "no"
  /\ socket' = [s \in Side |-> "open"]
  /\ UNCHANGED <<link, wire, assigned, rustVars, clientVars, serverVars, historyVars>>

(* close() of a library: what comes before the peer's own close is still   *)
(* read.                                                                   *)
OnWire(s, m) ==
  wire' = IF link = "up" THEN [wire EXCEPT ![Peer(s)] = Append(@, m)] ELSE wire
Shuts(s) ==
  IF socket[s] = "open"
  THEN socket' = [socket EXCEPT ![s] = "closing"] /\ OnWire(s, Close)
  ELSE UNCHANGED <<socket, wire>>

(* WormholeConnection::on_message_received.  After disconnect, and when the *)
(* receive loop is gone, it is an error, which is thrown in the library's   *)
(* callback: the message is dropped, and a socket that the library then     *)
(* fails is one that is being closed already.                               *)
OnMessageReceived(s, m) ==
  inbox' = IF conn[s] = "open" /\ portal[s] # "down"
           THEN [inbox EXCEPT ![s] = Append(@, m)] ELSE inbox

(* onMessage.  onOpen comes first, on the same thread. *)
Opened(s) == conn[s] \notin {"none", "creating"}
SocketReceives(s) ==
  /\ Opened(s) /\ wire[s] # <<>>
  /\ Head(wire[s]) # Close
  /\ wire' = [wire EXCEPT ![s] = Tail(@)]
  /\ OnMessageReceived(s, Head(wire[s]))
  /\ UNCHANGED <<link, socket, assigned, nexus, conn, portal, task, outbox, tasks, clientVars,
                 serverVars, historyVars>>

(* onClosing and onClosed, onClose.  Mutant: Rust is not told.             *)
KeepsClose(s) == UNCHANGED inbox
TellsClose(s) == OnMessageReceived(s, Close)
SocketCloses(s) ==
  /\ Opened(s) /\ wire[s] # <<>>
  /\ Head(wire[s]) = Close
  /\ wire' = [t \in Side |-> IF t = s THEN Tail(wire[s])
                             ELSE IF socket[s] = "open" THEN Append(wire[t], Close) ELSE wire[t]]
  /\ socket' = [socket EXCEPT ![s] = "closed"]
  /\ TellsClose(s)
  /\ UNCHANGED <<link, assigned, nexus, conn, portal, task, outbox, tasks, clientVars, serverVars,
                 historyVars>>

(* The server's library reports a broken socket as closed, even while      *)
(* onOpen runs on another thread and the transport has no connection yet.  *)
(* The client's calls onFailure, which tells Rust nothing.                 *)
SocketFails(s) ==
  /\ link = "broken"
  /\ socket[s] \in {"open", "closing"}
  /\ socket' = [socket EXCEPT ![s] = "failed"]
  /\ IF s = "server" THEN TellsClose(s) ELSE UNCHANGED inbox
  /\ UNCHANGED <<link, wire, assigned, nexus, conn, portal, task, outbox, tasks, clientVars,
                 serverVars, historyVars>>

LinkBreaks ==
  /\ "break" \in setting.faults
  /\ link = "up" /\ socket["client"] # "none"
  /\ link' = "broken"
  /\ wire' = [s \in Side |-> <<>>]
  /\ UNCHANGED <<socket, assigned, rustVars, clientVars, serverVars, historyVars>>
-----------------------------------------------------------------------------
(* onOpen: WormholeRuntime::create_connection *)

(* Without a nexus the connection is refused, and the server closes the    *)
(* socket.                                                                 *)
CreatesConnection(s) ==
  /\ conn[s] = "none" /\ socket[s] # "none"
  /\ IF nexus[s] = "up"
     THEN /\ conn' = [conn EXCEPT ![s] = "creating"]
          /\ task' = [task EXCEPT ![s] = "forwards"]
          /\ UNCHANGED <<socket, wire>>
     ELSE /\ conn' = [conn EXCEPT ![s] = "failed"]
          /\ IF s = "server" THEN Shuts(s) ELSE UNCHANGED <<socket, wire>>
          /\ UNCHANGED task
  /\ UNCHANGED <<link, assigned, nexus, portal, outbox, inbox, tasks, clientVars, serverVars,
                 historyVars>>

(* from_sink_source: the nexus starts the portal, which introduces itself, *)
(* or it was stopped meanwhile, and drops both channels.                   *)
NexusAnswers(s) ==
  /\ conn[s] = "creating"
  /\ IF nexus[s] = "up"
     THEN /\ conn' = [conn EXCEPT ![s] = "open"]
          /\ portal' = [portal EXCEPT ![s] = "opening"]
          /\ outbox' = [outbox EXCEPT ![s] = <<[type |-> "Introduction"]>>]
          /\ setup' = IF s = "server" THEN "waiting" ELSE setup
          /\ UNCHANGED <<socket, wire>>
     ELSE /\ conn' = [conn EXCEPT ![s] = "failed"]
          /\ IF s = "server" THEN Shuts(s) ELSE UNCHANGED <<socket, wire>>
          /\ UNCHANGED <<portal, outbox, setup>>
  /\ UNCHANGED <<link, assigned, nexus, task, inbox, tasks, clientVars, closing, hub, chat,
                 connect, queue, clients, historyVars>>

(* The transport's task: sendMessage.  A message that the client's socket  *)
(* does not take is lost; the server's throws, which ends the task.        *)
CanSend(s) == socket[s] = "open" /\ (s = "client" => assigned)
TransportSends(s) ==
  /\ task[s] = "forwards" /\ outbox[s] # <<>>
  /\ outbox' = [outbox EXCEPT ![s] = Tail(@)]
  /\ IF CanSend(s) THEN OnWire(s, Head(outbox[s])) ELSE UNCHANGED wire
  /\ task' = IF s = "server" /\ ~CanSend(s) THEN [task EXCEPT ![s] = "panicked"] ELSE task
  /\ UNCHANGED <<link, socket, assigned, nexus, conn, portal, inbox, tasks, clientVars,
                 serverVars, historyVars>>

(* Its channel has ended with the portal or was never used: close().       *)
(* Mutant: nothing ends it.                                                *)
NeverEnds(s) == FALSE
SinkIsDropped(s) == portal[s] = "down" \/ conn[s] = "failed"
TransportCloses(s) ==
  /\ task[s] = "forwards" /\ outbox[s] = <<>>
  /\ SinkIsDropped(s)
  /\ task' = [task EXCEPT ![s] = "ended"]
  /\ IF s = "client" => assigned THEN Shuts(s) ELSE UNCHANGED <<socket, wire>>
  /\ UNCHANGED <<link, assigned, nexus, conn, portal, outbox, inbox, tasks, clientVars, serverVars,
                 historyVars>>
-----------------------------------------------------------------------------
(* The portals *)

GoesDown(s) == portal' = [portal EXCEPT ![s] = IF @ \in {"opening", "open"} THEN "down" ELSE @]

(* The sink of a portal fails when the transport's task has ended. *)
Writes(s, f) ==
  IF task[s] = "forwards"
  THEN outbox' = [outbox EXCEPT ![s] = Append(@, f)] /\ UNCHANGED portal
  ELSE GoesDown(s) /\ UNCHANGED outbox

Takes(s, types) ==
  /\ portal[s] \in {"opening", "open"}
  /\ inbox[s] # <<>> /\ Head(inbox[s]).type \in types
  /\ inbox' = [inbox EXCEPT ![s] = Tail(@)]

PortalTakesIntroduction(s) ==
  /\ Takes(s, {"Introduction"})
  /\ portal' = [portal EXCEPT ![s] = "open"]
  /\ UNCHANGED <<netVars, nexus, conn, task, outbox, tasks, clientVars, serverVars, historyVars>>

(* The receive loop's Close, or content before the introduction. *)
PortalEnds(s) ==
  /\ \/ Takes(s, {"Close"})
     \/ Takes(s, {f.type : f \in Frame} \ {"Introduction"}) /\ portal[s] = "opening"
  /\ GoesDown(s)
  /\ UNCHANGED <<netVars, nexus, conn, task, outbox, tasks, clientVars, serverVars, historyVars>>

(* A lookup of the hub *)
PortalAnswersQuery ==
  /\ Takes("server", {"Query"}) /\ portal["server"] = "open"
  /\ Writes("server", [type |-> IF setup = "published" THEN "Found" ELSE "NotFound"])
  /\ UNCHANGED <<netVars, nexus, conn, task, tasks, clientVars, serverVars, historyVars>>

(* A message for an actor that was stopped ends the portal. *)
PortalDelivers ==
  /\ Takes("server", Asking) /\ portal["server"] = "open"
  /\ LET m == Head(inbox["server"])
     IN \/ /\ m.type = "Connect" /\ hub = "up"
           /\ connect' = 1
           /\ UNCHANGED <<portal, queue>>
        \/ /\ m.type # "Connect" /\ chat = "up"
           /\ queue' = Append(queue, m)
           /\ UNCHANGED <<portal, connect>>
        \/ /\ IF m.type = "Connect" THEN hub = "stopped" ELSE chat = "stopped"
           /\ GoesDown("server")
           /\ UNCHANGED <<connect, queue>>
  /\ UNCHANGED <<netVars, nexus, conn, task, outbox, tasks, clientVars, closing, setup, hub, chat,
                 clients, historyVars>>

(* Tasks serialize and transmit in any order; under a portal that is down  *)
(* nothing comes of it.                                                    *)
TaskTransmits(s) ==
  \E f \in tasks[s] :
    /\ tasks' = [tasks EXCEPT ![s] = @ \ {f}]
    /\ IF portal[s] = "open" THEN Writes(s, f) ELSE UNCHANGED <<portal, outbox>>
    /\ UNCHANGED <<netVars, nexus, conn, task, inbox, clientVars, serverVars, historyVars>>
-----------------------------------------------------------------------------
(* The server: Main.kt, runServer *)

(* The thread that waits for the handshake, for five seconds at most, and  *)
(* publishes the hub.                                                      *)
PublishesHub ==
  /\ setup = "waiting"
  /\ portal["server"] = "open" /\ hub = "up"
  /\ setup' = "published"
  /\ UNCHANGED <<netVars, rustVars, clientVars, closing, hub, chat, connect, queue, clients,
                 historyVars>>
NeverPublishesHub ==
  /\ setup = "waiting"
  /\ setup' = "failed"
  /\ UNCHANGED <<netVars, rustVars, clientVars, closing, hub, chat, connect, queue, clients,
                 historyVars>>

(* receiveConnect, on the hub's task.  FfiConnectReplyPort::reply takes    *)
(* the port before it looks for the chat server actor: when that was       *)
(* stopped nobody can answer any more, and the client is forgotten.        *)
(* Mutant: the reply first.                                                *)
ReplyFirst == <<"reply", "register">>
HubSteps == <<"register", "reply">>
HubHandles ==
  /\ connect # 0
  /\ connect' = (connect + 1) % 3
  /\ \/ /\ HubSteps[connect] = "register"
        /\ clients' = TRUE
        /\ UNCHANGED tasks
     \/ /\ HubSteps[connect] = "reply"
        /\ IF chat = "up"
           THEN /\ tasks' = [tasks EXCEPT !["server"] = @ \cup {[type |-> "Answer", call |-> 1, ok |-> TRUE]}]
                /\ UNCHANGED clients
           ELSE clients' = FALSE /\ UNCHANGED tasks
  /\ UNCHANGED <<netVars, nexus, conn, portal, task, outbox, inbox, clientVars, closing, setup,
                 hub, chat, queue, historyVars>>

(* What the chat server sends to a client actor, and through reply ports,  *)
(* each of which is taken once.                                            *)
News(n) == [type |-> "MessageReceived", call |-> n]
ReplyTo(m) == [type |-> "Answer", call |-> m.call, ok |-> m.type = "PostMessage" \/ clients]

(* receivePostMessage and receiveListUsers, on the chat server's task: a   *)
(* post goes to all clients, then it is acknowledged.                      *)
Broadcast(m) == IF m.type = "PostMessage" /\ clients THEN {News(m.call)} ELSE {}
ChatServerHandles ==
  /\ queue # <<>>
  /\ queue' = Tail(queue)
  /\ LET m == Head(queue)
     IN tasks' = [tasks EXCEPT !["server"] = @ \cup Broadcast(m) \cup {ReplyTo(m)}]
  /\ UNCHANGED <<netVars, nexus, conn, portal, task, outbox, inbox, clientVars, closing, setup,
                 hub, chat, connect, clients, historyVars>>

(* The console is closed: the server's sockets, the two actors, of whose   *)
(* messages those in a mailbox are lost, and the runtime.                  *)
ServerStopsListening ==
  /\ "stop" \in setting.faults
  /\ closing = "no"
  /\ closing' = "listener"
  /\ Shuts("server")
  /\ UNCHANGED <<link, assigned, rustVars, clientVars, setup, hub, chat, connect, queue, clients,
                 historyVars>>
ServerStopsHub ==
  /\ closing = "listener"
  /\ closing' = "hub" /\ hub' = "stopped"
  /\ connect' \in {connect, IF connect = 1 THEN 0 ELSE connect}
  /\ UNCHANGED <<netVars, rustVars, clientVars, setup, chat, queue, clients, historyVars>>
ServerStopsChat ==
  /\ closing = "hub"
  /\ closing' = "chat" /\ chat' = "stopped"
  /\ queue' \in {queue, <<>>}
  /\ UNCHANGED <<netVars, rustVars, clientVars, setup, hub, connect, clients, historyVars>>

(* WormholeRuntime::shutdown: the nexus ends with its portals. *)
ShutsDown(s) == nexus' = [nexus EXCEPT ![s] = "stopped"] /\ GoesDown(s)
ServerShutsDown ==
  /\ closing = "chat"
  /\ closing' = "done"
  /\ ShutsDown("server")
  /\ UNCHANGED <<netVars, conn, task, outbox, inbox, tasks, clientVars, setup, hub, chat, connect,
                 queue, clients, historyVars>>
-----------------------------------------------------------------------------
(* The client: Main.kt, runClient *)

(* newWebSocket returns, maybe after onOpen. *)
ClientDials ==
  /\ phase = "dialing"
  /\ phase' = "latched" /\ assigned' = TRUE
  /\ UNCHANGED <<link, socket, wire, rustVars, calls, asked, serverVars, historyVars>>

ClientIsConnected ==
  /\ phase = "latched" /\ conn["client"] = "open"
  /\ phase' = "handshaking"
  /\ UNCHANGED <<netVars, rustVars, calls, asked, serverVars, historyVars>>

(* The latch's ten seconds *)
ClientGivesUp ==
  /\ phase = "latched"
  /\ phase' = "done"
  /\ ShutsDown("client")
  /\ UNCHANGED <<netVars, conn, task, outbox, inbox, tasks, calls, asked, serverVars, historyVars>>

(* waitForHandshake, and getRemoteHubActor's query *)
ClientQueries ==
  /\ phase = "handshaking" /\ portal["client"] = "open"
  /\ phase' = "querying"
  /\ Writes("client", [type |-> "Query"])
  /\ UNCHANGED <<netVars, nexus, conn, task, inbox, tasks, calls, asked, serverVars, historyVars>>
HandshakeTimesOut ==
  /\ phase = "handshaking"
  /\ phase' = "leaving"
  /\ UNCHANGED <<netVars, rustVars, calls, asked, serverVars, historyVars>>

(* The query has no timeout: its port is answered or dropped by the portal. *)
QueryReturns ==
  /\ phase = "querying"
  /\ \/ /\ Takes("client", {"Found"})
        /\ phase' = "found"
     \/ /\ Takes("client", {"NotFound"})
        /\ phase' = "leaving"
     \/ /\ portal["client"] = "down"
        /\ phase' = "leaving"
        /\ UNCHANGED inbox
  /\ UNCHANGED <<netVars, nexus, conn, portal, task, outbox, tasks, calls, asked, serverVars,
                 historyVars>>

(* FfiHubActorRef::connect, FfiChatServerActorRef::post_message and        *)
(* list_users block on an ask through a proxy, which ends with the portal. *)
MayAsk(kind) == IF kind = "Connect" THEN phase = "found" ELSE phase = "online"
IfRefused(kind) == IF kind = "Connect" THEN "leaving" ELSE "online"
ClientAsks(kind) ==
  /\ MayAsk(kind)
  /\ calls < setting.calls
  /\ calls' = calls + 1 /\ asked' = kind
  /\ IF portal["client"] = "down"
     THEN phase' = IfRefused(kind) /\ UNCHANGED tasks
     ELSE /\ phase' = "calling"
          /\ tasks' = [tasks EXCEPT !["client"] = @ \cup {[type |-> kind, call |-> calls + 1]}]
  /\ UNCHANGED <<netVars, nexus, conn, portal, task, outbox, inbox, serverVars, historyVars>>

(* The answer to the call, or one that comes after kill_after: it finds no *)
(* RpcProxyActor and ends the portal, or one that is being torn down.      *)
ClientIsAnswered ==
  /\ Takes("client", {"Answer"})
  /\ LET m == Head(inbox["client"])
     IN IF phase = "calling" /\ m.call = calls
        THEN /\ phase' = "online"
             /\ acked' = IF asked = "PostMessage" THEN acked \cup {calls} ELSE acked
             /\ unlisted' = (unlisted \/ ~m.ok)
             /\ UNCHANGED portal
        ELSE /\ UNCHANGED portal \/ GoesDown("client")
             /\ UNCHANGED <<phase, acked, unlisted>>
  /\ UNCHANGED <<netVars, nexus, conn, task, outbox, tasks, calls, asked, serverVars, shown>>

(* kill_after, or the end of the portal, refuses the call.                 *)
(* Mutant: only the end of the portal.                                     *)
EndsWithPortal == portal["client"] = "down"
EndsAnyway == TRUE
CallIsRefused ==
  /\ phase = "calling"
  /\ EndsAnyway
  /\ phase' = IfRefused(asked)
  /\ UNCHANGED <<netVars, rustVars, calls, asked, serverVars, historyVars>>

(* ChatClientHandler::receive *)
ClientIsShown ==
  /\ Takes("client", {"MessageReceived"})
  /\ shown' = shown \cup {Head(inbox["client"]).call}
  /\ UNCHANGED <<netVars, nexus, conn, portal, task, outbox, tasks, clientVars, serverVars, acked,
                 unlisted>>

ClientQuits ==
  /\ phase = "online"
  /\ phase' = "leaving"
  /\ UNCHANGED <<netVars, rustVars, calls, asked, serverVars, historyVars>>

(* finally: disconnect, then the client's actor and the runtime *)
ClientDisconnects ==
  /\ phase = "leaving"
  /\ phase' = "disconnected"
  /\ conn' = [conn EXCEPT !["client"] = "disconnected"]
  /\ GoesDown("client")
  /\ UNCHANGED <<netVars, nexus, task, outbox, inbox, tasks, calls, asked, serverVars, historyVars>>
ClientShutsDown ==
  /\ phase = "disconnected"
  /\ phase' = "done"
  /\ ShutsDown("client")
  /\ UNCHANGED <<netVars, conn, task, outbox, inbox, tasks, calls, asked, serverVars, historyVars>>
-----------------------------------------------------------------------------
Library(s) == SocketReceives(s) \/ SocketCloses(s) \/ CreatesConnection(s) \/ NexusAnswers(s)
Transport(s) == TransportSends(s) \/ TransportCloses(s)
PortalStep ==
  \/ \E s \in Side : PortalTakesIntroduction(s) \/ PortalEnds(s)
  \/ PortalAnswersQuery \/ PortalDelivers \/ ClientIsAnswered \/ ClientIsShown
ServerMain == ServerStopsHub \/ ServerStopsChat \/ ServerShutsDown
ServerTask == PublishesHub \/ NeverPublishesHub \/ HubHandles \/ ChatServerHandles
ClientMain ==
  \/ ClientDials \/ ClientIsConnected \/ ClientGivesUp
  \/ ClientQueries \/ HandshakeTimesOut \/ QueryReturns \/ ClientAsks("Connect")
  \/ CallIsRefused \/ ClientDisconnects \/ ClientShutsDown

Step ==
  \/ SocketOpens \/ LinkBreaks
  \/ \E s \in Side : Library(s) \/ SocketFails(s) \/ Transport(s) \/ TaskTransmits(s)
  \/ PortalStep
  \/ ServerTask \/ ServerStopsListening \/ ServerMain
  \/ ClientMain \/ ClientQuits \/ \E kind \in Asking \ {"Connect"} : ClientAsks(kind)
Next == Step /\ UNCHANGED setting

(* Threads, tasks and actors run, timers expire.  Nobody obliges the       *)
(* network, the users or, when the network breaks, the client's library.   *)
Spec == Init /\ [][Next]_vars
FairSpec ==
  /\ Spec
  /\ \A s \in Side : /\ WF_vars(Library(s) /\ UNCHANGED setting)
                     /\ WF_vars(Transport(s) /\ UNCHANGED setting)
                     /\ WF_vars(TaskTransmits(s) /\ UNCHANGED setting)
  /\ WF_vars(SocketFails("server") /\ UNCHANGED setting)
  /\ WF_vars(PortalStep /\ UNCHANGED setting)
  /\ WF_vars(ServerTask /\ UNCHANGED setting)
  /\ WF_vars(ServerMain /\ UNCHANGED setting)
  /\ WF_vars(ClientMain /\ UNCHANGED setting)
-----------------------------------------------------------------------------
TypeOK ==
  /\ setting \in Settings
  /\ link \in {"up", "broken"}
  /\ socket \in [Side -> {"none", "open", "closing", "closed", "failed"}]
  /\ wire \in [Side -> Seq(Frame \cup {Close})] /\ assigned \in BOOLEAN
  /\ nexus \in [Side -> {"up", "stopped"}]
  /\ conn \in [Side -> {"none", "creating", "open", "failed", "disconnected"}]
  /\ portal \in [Side -> {"none", "opening", "open", "down"}]
  /\ task \in [Side -> {"none", "forwards", "ended", "panicked"}]
  /\ outbox \in [Side -> Seq(Frame)] /\ inbox \in [Side -> Seq(Frame \cup {Close})]
  /\ tasks \in [Side -> SUBSET Frame]
  /\ phase \in {"dialing", "latched", "handshaking", "querying", "found", "calling", "online",
                "leaving", "disconnected", "done"}
  /\ calls \in 0 .. MaxCalls /\ asked \in Asking
  /\ closing \in {"no", "listener", "hub", "chat", "done"}
  /\ setup \in {"none", "waiting", "published", "failed"}
  /\ hub \in {"up", "stopped"} /\ chat \in {"up", "stopped"}
  /\ connect \in 0 .. 2 /\ queue \in Seq(Frame) /\ clients \in BOOLEAN
  /\ acked \subseteq 1 .. MaxCalls /\ shown \subseteq 1 .. MaxCalls /\ unlisted \in BOOLEAN

(* Whoever got an alias from the hub is in the server's map: it is listed, *)
(* and what it posts comes back to it, although the hub and the chat       *)
(* server run on tasks of their own and frames overtake one another.       *)
InSeq(q) == {q[i] : i \in DOMAIN q}
UnderWay == tasks["server"] \cup InSeq(outbox["server"]) \cup InSeq(wire["client"]) \cup InSeq(inbox["client"])
MembersAreServed ==
  /\ ~unlisted
  /\ \A n \in acked :
       \/ n \in shown \/ News(n) \in UnderWay
       \/ link = "broken" \/ socket["server"] # "open"
       \/ \E s \in Side : portal[s] = "down"

(* The blocking calls of the FFI return, with whatever error, except for a *)
(* query when the network breaks: it has no timeout, and onFailure does    *)
(* not tell Rust.                                                          *)
CallsReturn ==
  /\ phase = "handshaking" ~> phase # "handshaking"
  /\ phase = "querying" ~> phase # "querying" \/ link = "broken"
  /\ \A n \in 1 .. MaxCalls :
       (phase = "calling" /\ calls = n) ~> ~(phase = "calling" /\ calls = n)

(* The end of one side's portal, be it by disconnect, by shutdown or by an *)
(* error, is the end of the other's; a broken network ends the server's,   *)
(* unless its library knew before the connection was there.  And no        *)
(* transport outlives its runtime's nexus or a connection that failed.     *)
EndsReachBothSides ==
  /\ \A s \in Side :
       /\ portal[s] = "down"
            ~> portal[Peer(s)] = "down" \/ conn[Peer(s)] = "failed" \/ link = "broken"
       /\ nexus[s] = "stopped" /\ task[s] = "forwards" ~> task[s] # "forwards"
  /\ link = "broken" /\ portal["server"] = "open" /\ socket["server"] # "failed"
       ~> portal["server"] = "down"
=============================================================================
