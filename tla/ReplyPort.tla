----------------------------- MODULE ReplyPort -----------------------------
(***************************************************************************)
(* RpcReplyPorts in messages for remote actors (transmaterialization/      *)
(* mod.rs and rpc_proxy.rs).  The port of a caller goes to an RpcProxyActor *)
(* linked to the caller's portal and published there; the target's side    *)
(* rebuilds a port from the RemoteActorId of that actor: a proxy, and a    *)
(* task that forwards what the rebuilt port is sent.                       *)
(*                                                                         *)
(*   Home[c]:   caller  <-  RpcProxyActor  <-  portal  <- wire             *)
(*   its peer:  target  ->  port, task, proxy  ->  portal  ->  wire        *)
(*                                                                         *)
(* Portals are open, and only what a reply port needs of them is here:     *)
(* their mailbox, the publication of RpcProxyActors, the proxies for them. *)
(* Portal.tla has their handlers in full.                                  *)
(***************************************************************************)
EXTENDS Naturals, Sequences, FiniteSets

CONSTANTS
  Call,     \* calls of remote actors, each with a reply port
  Value,    \* what targets answer
  Settings, \* who calls from where, and what may go wrong
  None      \* no value

Side == {"a", "b"}
Peer(s) == IF s = "a" THEN "b" ELSE "a"
FaultKinds == {"break", "stop"}
Request == "request"

(* The side of each caller, the calls that are made, those that are made   *)
(* with a timeout of their own, and what may go wrong.                     *)
Setting ==
  [home : [Call -> Side], calls : SUBSET Call, timed : SUBSET Call, faults : SUBSET FaultKinds]

ASSUME ReplyPortAssumption ==
  /\ Settings \subseteq Setting
  /\ {Request, None} \cap Value = {}
  /\ None # Request

VARIABLES
  setting,    \* out of Settings
  status,     \* a portal's state: up, or how it went down
  linkUp,     \* FALSE once the transport broke
  mailbox,    \* a portal's PortalActorMessages
  wire,       \* frames on their way to a portal
  caller,     \* a caller's state
  got,        \* what it was answered
  task,       \* the task that serializes the request
  rpcActor,   \* the RpcProxyActor of a call
  rpcQueue,   \* its mailbox
  exposed,    \* whether it is published, and its watching task
  port,       \* the rebuilt port, in the hands of the target
  given,      \* what the target sent with it
  forwarder,  \* the task of rpc_reply_port_from_actor_ref
  proxy,      \* the proxy of the RpcProxyActor, at the target's side
  registered, \* the calls whose proxy is in proxies_for_remote_actors
  answering   \* the answer that is being serialized

homeVars == <<caller, got, task, rpcActor, rpcQueue, exposed>>
targetVars == <<port, given, forwarder, proxy, registered, answering>>
vars == <<setting, status, linkUp, mailbox, wire, homeVars, targetVars>>

Home == setting.home
Timed == setting.timed
-----------------------------------------------------------------------------
(* A body is a request with its port, or the value of an RpcProxyMsg. *)
Body == {Request} \cup Value
Frame == [type : {"SendMessage"}, call : Call, body : Body]
    \cup [type : {"ActorExited"}, call : Call]
Message == Frame
    \cup [type : {"ImmaterializeMessage", "TransmitMessage"}, call : Call, body : Body]
    \cup [type : {"PublishActor", "LocalActorExited", "RegisterProxyForRemoteActor"}, call : Call]
    \cup [type : {"Close"}]

CallerStates == {"idle", "waiting", "answered", "refused", "timedout"}

Init ==
  /\ setting \in Settings
  /\ status = [s \in Side |-> "up"]
  /\ linkUp = TRUE
  /\ mailbox = [s \in Side |-> <<>>]
  /\ wire = [s \in Side |-> <<>>]
  /\ caller = [c \in Call |-> "idle"]
  /\ got = [c \in Call |-> None]
  /\ task = [c \in Call |-> "none"]
  /\ rpcActor = [c \in Call |-> "none"]
  /\ rpcQueue = [c \in Call |-> <<>>]
  /\ exposed = [c \in Call |-> "no"]
  /\ port = [c \in Call |-> "none"]
  /\ given = [c \in Call |-> None]
  /\ forwarder = [c \in Call |-> "none"]
  /\ proxy = [c \in Call |-> "none"]
  /\ registered = {}
  /\ answering = [c \in Call |-> None]
-----------------------------------------------------------------------------
Up(s) == status[s] = "up"
At(s) == {c \in Call : Home[c] = s}

(* send_message fails without effect on a portal that is down. *)
Cast(s, m) == mailbox' = IF Up(s) THEN [mailbox EXCEPT ![s] = Append(@, m)] ELSE mailbox

Takes(s, type) == Up(s) /\ mailbox[s] # <<>> /\ Head(mailbox[s]).type = type
Done(s) == mailbox' = [mailbox EXCEPT ![s] = Tail(@)]

(* A dropped port refuses its caller. *)
Refused(f, C) == [c \in Call |-> IF c \in C /\ f[c] = "waiting" THEN "refused" ELSE f[c]]
Closures(s) == {c \in At(s) : \E i \in DOMAIN mailbox[s] :
                  /\ mailbox[s][i].type = "ImmaterializeMessage"
                  /\ mailbox[s][i].call = c /\ mailbox[s][i].body = Request}
Running(s) == {c \in At(s) : rpcActor[c] = "running"}

(* A portal ends: its mailbox is dropped with the closures and the ports   *)
(* in it, and its linked children, the RpcProxyActors and the proxies, are *)
(* killed.                                                                 *)
GoesDown(s, how) ==
  /\ status' = [status EXCEPT ![s] = how]
  /\ mailbox' = [mailbox EXCEPT ![s] = <<>>]
  /\ caller' = Refused(caller, Closures(s) \cup Running(s))
  /\ task' = [c \in Call |-> IF c \in At(s) /\ task[c] = "asking" THEN "failed" ELSE task[c]]
  /\ rpcActor' = [c \in Call |-> IF c \in Running(s) THEN "killed" ELSE rpcActor[c]]
  /\ proxy' = [c \in Call |-> IF c \notin At(s) /\ proxy[c] = "running" THEN "stopped" ELSE proxy[c]]
  /\ registered' = registered \cap At(s)

(* SinkExt::send and flush.  A write to a peer that is gone is lost or     *)
(* fails; a failed one fails the portal.                                   *)
Connected(s) == linkUp /\ Up(Peer(s))
Writes(s, frame) ==
  wire' = IF Connected(s) THEN [wire EXCEPT ![Peer(s)] = Append(@, frame)] ELSE wire
WriteFails(s, type) ==
  /\ Takes(s, type)
  /\ ~Connected(s)
  /\ GoesDown(s, "failed")
  /\ UNCHANGED <<linkUp, wire, got, rpcQueue, exposed, port, given, forwarder, answering>>
-----------------------------------------------------------------------------
(* The caller *)

(* ask through a proxy of the target: the message with the port waits as a *)
(* closure in the portal, or is refused by a proxy that is gone.           *)
CallerAsks(c) ==
  /\ c \in setting.calls
  /\ caller[c] = "idle"
  /\ caller' = [caller EXCEPT ![c] = IF Up(Home[c]) THEN "waiting" ELSE "refused"]
  /\ Cast(Home[c], [type |-> "ImmaterializeMessage", call |-> c, body |-> Request])
  /\ UNCHANGED <<status, linkUp, wire, got, task, rpcActor, rpcQueue, exposed, targetVars>>

CallerTimesOut(c) ==
  /\ c \in Timed
  /\ caller[c] = "waiting"
  /\ caller' = [caller EXCEPT ![c] = "timedout"]
  /\ UNCHANGED <<status, linkUp, mailbox, wire, got, task, rpcActor, rpcQueue, exposed, targetVars>>
-----------------------------------------------------------------------------
(* immaterialize_replychannel, in the task of ImmaterializeMessage *)

HandleImmaterializeMessage(s) ==
  /\ Takes(s, "ImmaterializeMessage")
  /\ LET m == Head(mailbox[s])
     IN IF m.body = Request
        THEN task' = [task EXCEPT ![m.call] = "started"] /\ UNCHANGED answering
        ELSE answering' = [answering EXCEPT ![m.call] = m.body] /\ UNCHANGED task
  /\ Done(s)
  /\ UNCHANGED <<status, linkUp, wire, caller, got, rpcActor, rpcQueue, exposed,
                 port, given, forwarder, proxy, registered>>

(* spawn_linked and kill_after, then the ask to publish.  Under a portal   *)
(* that is down the actor may not start, or runs until the timer.          *)
TaskSpawnsRpcProxy(c) ==
  /\ task[c] = "started"
  /\ task' = [task EXCEPT ![c] = IF Up(Home[c]) THEN "asking" ELSE "failed"]
  /\ \/ rpcActor' = [rpcActor EXCEPT ![c] = "running"] /\ UNCHANGED caller
     \/ ~Up(Home[c]) /\ UNCHANGED rpcActor /\ caller' = Refused(caller, {c})
  /\ Cast(Home[c], [type |-> "PublishActor", call |-> c])
  /\ UNCHANGED <<status, linkUp, wire, got, rpcQueue, exposed, targetVars>>

(* Mutant: no task watches the actor. *)
PublishesUnwatched(c) == exposed' = [exposed EXCEPT ![c] = "reported"]
Publishes(c) == exposed' = [exposed EXCEPT ![c] = "watched"]
HandlePublishActor(s) ==
  /\ Takes(s, "PublishActor")
  /\ LET c == Head(mailbox[s]).call
     IN Publishes(c) /\ task' = [task EXCEPT ![c] = "published"]
  /\ Done(s)
  /\ UNCHANGED <<status, linkUp, wire, caller, got, rpcActor, rpcQueue, targetVars>>

TaskTransmits(c) ==
  /\ task[c] = "published"
  /\ task' = [task EXCEPT ![c] = "done"]
  /\ Cast(Home[c], [type |-> "TransmitMessage", call |-> c, body |-> Request])
  /\ UNCHANGED <<status, linkUp, wire, caller, got, rpcActor, rpcQueue, exposed, targetVars>>

HandleTransmitMessage(s) ==
  /\ Takes(s, "TransmitMessage")
  /\ Writes(s, [type |-> "SendMessage", call |-> Head(mailbox[s]).call,
                body |-> Head(mailbox[s]).body])
  /\ Done(s)
  /\ UNCHANGED <<status, linkUp, homeVars, targetVars>>
-----------------------------------------------------------------------------
(* rematerialize_replychannel, in the handler of SendMessage: the proxy    *)
(* starts, its registration is cast to the portal itself, the target has   *)
(* its message.  Targets run: one that ended would fail the portal here,   *)
(* which is in Portal.tla.                                                 *)
HandleRequest(s) ==
  /\ Takes(s, "SendMessage")
  /\ Head(mailbox[s]).body = Request
  /\ LET c == Head(mailbox[s]).call
     IN /\ proxy' = [proxy EXCEPT ![c] = "running"]
        /\ forwarder' = [forwarder EXCEPT ![c] = "waiting"]
        /\ port' = [port EXCEPT ![c] = "held"]
        /\ mailbox' = [mailbox EXCEPT ![s] =
             Append(Tail(@), [type |-> "RegisterProxyForRemoteActor", call |-> c])]
  /\ UNCHANGED <<status, linkUp, wire, homeVars, given, registered, answering>>

HandleRegisterProxy(s) ==
  /\ Takes(s, "RegisterProxyForRemoteActor")
  /\ registered' = registered \cup {Head(mailbox[s]).call}
  /\ Done(s)
  /\ UNCHANGED <<status, linkUp, wire, homeVars, port, given, forwarder, proxy, answering>>

(* The target answers with the port, or drops it. *)
TargetGives(c, v) ==
  /\ port[c] = "held"
  /\ port' = [port EXCEPT ![c] = "used"]
  /\ given' = [given EXCEPT ![c] = v]
  /\ UNCHANGED <<status, linkUp, mailbox, wire, homeVars, forwarder, proxy, registered, answering>>
TargetDrops(c) ==
  /\ port[c] = "held"
  /\ port' = [port EXCEPT ![c] = "dropped"]
  /\ UNCHANGED <<status, linkUp, mailbox, wire, homeVars, given, forwarder, proxy, registered,
                 answering>>

(* The task forwards the value through the proxy, as an RpcProxyMsg.  A    *)
(* proxy that is gone panics the task; a dropped port ends it.             *)
(* Mutants: it does not wait for the value; it waits on, to forward again; *)
(* it answers the first call that was published.                           *)
FirstPublished(c) == CHOOSE d \in Call : exposed[d] # "no"
ReturnAddress(c) == c
NotAwaited(c) == port[c] # "none"
Received(c) == port[c] = "used"
StaysWaiting(c) == UNCHANGED forwarder
Forwarded(c) == forwarder' = [forwarder EXCEPT ![c] = "forwarded"]
ForwarderForwards(c) ==
  /\ forwarder[c] = "waiting"
  /\ Received(c)
  /\ IF proxy[c] = "running"
     THEN /\ Forwarded(c)
          /\ Cast(Peer(Home[c]), [type |-> "ImmaterializeMessage", call |-> ReturnAddress(c),
                                   body |-> given[c]])
     ELSE forwarder' = [forwarder EXCEPT ![c] = "panicked"] /\ UNCHANGED mailbox
  /\ UNCHANGED <<status, linkUp, wire, homeVars, port, given, proxy, registered, answering>>
ForwarderEnds(c) ==
  /\ forwarder[c] = "waiting"
  /\ port[c] = "dropped"
  /\ forwarder' = [forwarder EXCEPT ![c] = "ended"]
  /\ UNCHANGED <<status, linkUp, mailbox, wire, homeVars, port, given, proxy, registered, answering>>

AnswerTransmits(c) ==
  /\ answering[c] # None
  /\ answering' = [answering EXCEPT ![c] = None]
  /\ Cast(Peer(Home[c]), [type |-> "TransmitMessage", call |-> c, body |-> answering[c]])
  /\ UNCHANGED <<status, linkUp, wire, homeVars, port, given, forwarder, proxy, registered>>
-----------------------------------------------------------------------------
(* Back home: the answer goes to the RpcProxyActor.  One that has ended    *)
(* fails the portal (the `?` of rematerialize), or still takes the message *)
(* while it is being torn down, and it is lost.                            *)
HandleAnswer(s) ==
  /\ Takes(s, "SendMessage")
  /\ Head(mailbox[s]).body # Request
  /\ LET m == Head(mailbox[s])
     IN rpcQueue' = IF rpcActor[m.call] = "running"
                    THEN [rpcQueue EXCEPT ![m.call] = Append(@, m.body)] ELSE rpcQueue
  /\ Done(s)
  /\ UNCHANGED <<status, linkUp, wire, caller, got, task, rpcActor, exposed, targetVars>>
AnswerFails(s) ==
  /\ Takes(s, "SendMessage")
  /\ Head(mailbox[s]).body # Request
  /\ rpcActor[Head(mailbox[s]).call] # "running"
  /\ GoesDown(s, "failed")
  /\ UNCHANGED <<linkUp, wire, got, rpcQueue, exposed, port, given, forwarder, answering>>

(* RpcProxyActor::handle: the port is taken and used, the actor stops. *)
RpcProxyHandles(c) ==
  /\ rpcActor[c] = "running"
  /\ rpcQueue[c] # <<>>
  /\ IF caller[c] = "waiting"
     THEN /\ caller' = [caller EXCEPT ![c] = "answered"]
          /\ got' = [got EXCEPT ![c] = Head(rpcQueue[c])]
     ELSE UNCHANGED <<caller, got>>
  /\ rpcActor' = [rpcActor EXCEPT ![c] = "stopped"]
  /\ rpcQueue' = [rpcQueue EXCEPT ![c] = <<>>]
  /\ UNCHANGED <<status, linkUp, mailbox, wire, task, exposed, targetVars>>

(* kill_after: the timeout of the port, or the default of the portal.      *)
(* Mutant: no default.                                                     *)
OnlyTimed(c) == c \in Timed
HasTimer(c) == TRUE
KillAfter(c) ==
  /\ HasTimer(c)
  /\ rpcActor[c] = "running"
  /\ rpcActor' = [rpcActor EXCEPT ![c] = "killed"]
  /\ rpcQueue' = [rpcQueue EXCEPT ![c] = <<>>]
  /\ caller' = Refused(caller, {c})
  /\ UNCHANGED <<status, linkUp, mailbox, wire, got, task, exposed, targetVars>>

(* The task that watches the published actor, and what its report does.    *)
WatcherReports(c) ==
  /\ exposed[c] = "watched"
  /\ rpcActor[c] \in {"stopped", "killed"}
  /\ exposed' = [exposed EXCEPT ![c] = "reported"]
  /\ Cast(Home[c], [type |-> "LocalActorExited", call |-> c])
  /\ UNCHANGED <<status, linkUp, wire, caller, got, task, rpcActor, rpcQueue, targetVars>>

HandleLocalActorExited(s) ==
  /\ Takes(s, "LocalActorExited")
  /\ Writes(s, [type |-> "ActorExited", call |-> Head(mailbox[s]).call])
  /\ Done(s)
  /\ UNCHANGED <<status, linkUp, homeVars, targetVars>>

HandleActorExited(s) ==
  /\ Takes(s, "ActorExited")
  /\ LET c == Head(mailbox[s]).call
     IN /\ registered' = registered \ {c}
        /\ proxy' = IF c \in registered THEN [proxy EXCEPT ![c] = "stopped"] ELSE proxy
  /\ Done(s)
  /\ UNCHANGED <<status, linkUp, wire, homeVars, port, given, forwarder, answering>>
-----------------------------------------------------------------------------
(* The conduit, and the ends of portals *)

ReceiveLoopReads(s) ==
  /\ Up(s)
  /\ wire[s] # <<>>
  /\ mailbox' = [mailbox EXCEPT ![s] = Append(@, Head(wire[s]))]
  /\ wire' = [wire EXCEPT ![s] = Tail(@)]
  /\ UNCHANGED <<status, linkUp, homeVars, targetVars>>

(* A source whose peer or transport is gone ends, what was on it is lost. *)
ReceiveLoopEnds(s) ==
  /\ ~Connected(s)
  /\ Cast(s, [type |-> "Close"])
  /\ Up(s) /\ ~\E i \in DOMAIN mailbox[s] : mailbox[s][i].type = "Close"
  /\ wire' = [wire EXCEPT ![s] = <<>>]
  /\ UNCHANGED <<status, linkUp, homeVars, targetVars>>

HandleClose(s) ==
  /\ Takes(s, "Close")
  /\ GoesDown(s, "closed")
  /\ UNCHANGED <<linkUp, wire, got, rpcQueue, exposed, port, given, forwarder, answering>>

LinkBreaks ==
  /\ "break" \in setting.faults
  /\ linkUp
  /\ linkUp' = FALSE
  /\ UNCHANGED <<status, mailbox, wire, homeVars, targetVars>>

AppStopsPortal(s) ==
  /\ "stop" \in setting.faults
  /\ Up(s)
  /\ GoesDown(s, "stopped")
  /\ UNCHANGED <<linkUp, wire, got, rpcQueue, exposed, port, given, forwarder, answering>>
-----------------------------------------------------------------------------
PortalStep(s) ==
  \/ HandleImmaterializeMessage(s) \/ HandlePublishActor(s) \/ HandleTransmitMessage(s)
  \/ HandleRequest(s) \/ HandleRegisterProxy(s) \/ HandleAnswer(s) \/ AnswerFails(s)
  \/ HandleLocalActorExited(s) \/ HandleActorExited(s) \/ HandleClose(s)
  \/ \E type \in {"TransmitMessage", "LocalActorExited"} : WriteFails(s, type)

TaskStep(c) ==
  \/ TaskSpawnsRpcProxy(c) \/ TaskTransmits(c)
  \/ ForwarderForwards(c) \/ ForwarderEnds(c) \/ AnswerTransmits(c)
  \/ WatcherReports(c)

Step ==
  \/ \E s \in Side : PortalStep(s) \/ ReceiveLoopReads(s) \/ ReceiveLoopEnds(s) \/ AppStopsPortal(s)
  \/ \E c \in Call :
       \/ TaskStep(c) \/ RpcProxyHandles(c) \/ KillAfter(c)
       \/ CallerAsks(c) \/ CallerTimesOut(c)
       \/ \E v \in Value : TargetGives(c, v)
       \/ TargetDrops(c)
  \/ LinkBreaks
Next == Step /\ UNCHANGED setting

(* The runtime runs portals, receive loops, tasks and RpcProxyActors, and  *)
(* timers expire.  Nobody makes a target answer.                           *)
Spec == Init /\ [][Next]_vars
FairSpec ==
  /\ Spec
  /\ \A s \in Side : /\ WF_vars(PortalStep(s) /\ UNCHANGED setting)
                     /\ WF_vars(ReceiveLoopReads(s) /\ UNCHANGED setting)
  /\ \A c \in Call : /\ WF_vars(TaskStep(c) /\ UNCHANGED setting)
                     /\ WF_vars(RpcProxyHandles(c) /\ UNCHANGED setting)
                     /\ WF_vars(KillAfter(c) /\ UNCHANGED setting)
-----------------------------------------------------------------------------
TypeOK ==
  /\ setting \in Settings
  /\ status \in [Side -> {"up", "closed", "failed", "stopped"}]
  /\ linkUp \in BOOLEAN
  /\ mailbox \in [Side -> Seq(Message)]
  /\ wire \in [Side -> Seq(Frame)]
  /\ caller \in [Call -> CallerStates]
  /\ got \in [Call -> Value \cup {None}]
  /\ task \in [Call -> {"none", "started", "asking", "failed", "published", "done"}]
  /\ rpcActor \in [Call -> {"none", "running", "stopped", "killed"}]
  /\ rpcQueue \in [Call -> Seq(Value)]
  /\ exposed \in [Call -> {"no", "watched", "reported"}]
  /\ port \in [Call -> {"none", "held", "used", "dropped"}]
  /\ given \in [Call -> Value \cup {None}]
  /\ forwarder \in [Call -> {"none", "waiting", "forwarded", "ended", "panicked"}]
  /\ proxy \in [Call -> {"none", "running", "stopped"}]
  /\ registered \subseteq Call
  /\ answering \in [Call -> Value \cup {None}]

(* The chain of tasks and actors behind a remote reply port is a reply     *)
(* port to its caller: one answer, the one the target gave for this call.  *)
Abstract == INSTANCE OneShot
ImplementsOneShot == Abstract!Spec

(* It returns, too: kill_after sees to it when the target drops the port,  *)
(* never answers, or is never reached.                                     *)
EveryCallReturns == \A c \in Call : caller[c] = "waiting" ~> caller[c] # "waiting"

(* An RpcProxyActor ends as soon as it has answered, and what is sent to   *)
(* an actor that has ended fails the portal: no answer may ever follow the *)
(* first, and only one that comes after kill_after fails a portal.         *)
LateAnswer(s) == \E c \in At(s) : rpcActor[c] = "killed" /\ given[c] # None
PortalsOutliveAnswers ==
  \A s \in Side : status[s] = "failed" =>
     \/ ~linkUp \/ \E t \in Side : status[t] = "stopped"
     \/ \E t \in Side : LateAnswer(t)

(* An answered call leaves no proxy behind at the target's side: its       *)
(* registration always comes before the exit of the RpcProxyActor.         *)
AnsweredCallsReleaseTheirProxy ==
  \A c \in Call :
    (rpcActor[c] = "stopped") ~> \/ proxy[c] = "stopped"
                                 \/ \E s \in Side : ~Up(s)
                                 \/ ~linkUp
-----------------------------------------------------------------------------
(* What makes these invariants and the refinement inductive                *)
(* (ReplyPortProofs).                                                      *)

(* A call is one thing on its way: its request, in messages and in the     *)
(* task that serializes it; then the rebuilt port with its forwarder; then *)
(* the answer.  It is in one place at most, and in none before the caller  *)
(* asks and after the RpcProxyActor has stopped.                           *)
AtMostOne(S) == \A x, y \in S : x = y
CallTypes == {"ImmaterializeMessage", "PublishActor", "TransmitMessage", "SendMessage"}
Carries(e, c) == e.type \in CallTypes /\ e.call = c
Carriers(q, c) == {i \in DOMAIN q : Carries(q[i], c)}
Place == ({"mailbox", "wire"} \X Side) \cup ({"task", "port", "answer", "queue"} \X {None})
Copies(l, c) ==
  CASE l[1] = "mailbox" -> Carriers(mailbox[l[2]], c)
    [] l[1] = "wire" -> Carriers(wire[l[2]], c)
    [] l[1] = "task" -> IF task[c] \in {"started", "published"} THEN {0} ELSE {}
    [] l[1] = "port" -> IF forwarder[c] = "waiting" THEN {0} ELSE {}
    [] l[1] = "answer" -> IF answering[c] # None THEN {0} ELSE {}
    [] l[1] = "queue" -> DOMAIN rpcQueue[c]
OneCopy ==
  \A c \in Call :
    /\ \A k, l \in Place : Copies(k, c) # {} /\ Copies(l, c) # {} => k = l
    /\ \A l \in Place : /\ AtMostOne(Copies(l, c))
                        /\ Copies(l, c) # {} => caller[c] # "idle" /\ rpcActor[c] # "stopped"

(* What the state of a call is while it is where it is. *)
MessageIsSound(e) ==
  e.type \in CallTypes =>
    IF e.type = "PublishActor" \/ e.body = Request
    THEN /\ port[e.call] = "none"
         /\ e.type = "ImmaterializeMessage" <=> rpcActor[e.call] = "none"
    ELSE e.body = given[e.call]
MessagesAreSound ==
  \A s \in Side : /\ \A i \in DOMAIN mailbox[s] : MessageIsSound(mailbox[s][i])
                  /\ \A i \in DOMAIN wire[s] : MessageIsSound(wire[s][i])
CallIsSound(c) ==
  /\ caller[c] = "idle" => rpcActor[c] = "none"
  /\ task[c] = "started" => rpcActor[c] = "none" /\ port[c] = "none"
  /\ task[c] = "published" => rpcActor[c] # "none" /\ port[c] = "none"
  /\ port[c] # "none" => rpcActor[c] # "none"
  /\ port[c] = "held" => forwarder[c] = "waiting"
  /\ port[c] = "used" <=> given[c] # None
  /\ answering[c] # None => answering[c] = given[c]
  /\ \A i \in DOMAIN rpcQueue[c] : rpcQueue[c][i] = given[c]
CallsAreSound == \A c \in Call : CallIsSound(c)

(* Whatever takes a portal down has a cause. *)
EndCause ==
  \/ ~linkUp \/ \E t \in Side : status[t] = "stopped"
  \/ \E t \in Side : LateAnswer(t)
CloseIsDue(s) == \E i \in DOMAIN mailbox[s] : mailbox[s][i].type = "Close"
EndsHaveCause == \A s \in Side : ~Up(s) \/ CloseIsDue(s) => EndCause
=============================================================================
