-------------------------- MODULE WebSocketConduit --------------------------
(***************************************************************************)
(* Both directions of a conduit over a WebSocket (conduit/websocket): a    *)
(* tungstenite server, and a client of tungstenite or of ewebsock.         *)
(*                                                                         *)
(* tungstenite's stream is split into halves that share it: one with the   *)
(* portal, one with the receive loop.  Around ewebsock's socket there are  *)
(*   sink -> actor -> outbox -> task -> socket -> handler -> inbox -> source *)
(* and nothing that tells the sink or the source of an error.              *)
(***************************************************************************)
EXTENDS Naturals, Sequences

CONSTANTS
  Frame,     \* ConduitMessages: [type, body]
  MaxFrames, \* how many of them the two sides send
  Libraries, \* the client's library, out of LibraryKinds
  MaxPings,  \* how many control messages come up
  Faults     \* what may go wrong, out of FaultKinds

LibraryKinds == {"tungstenite", "ewebsock", "ewebsock_web"}
FaultKinds == {"break", "stop"}
Side == {"client", "server"}
Peer(s) == IF s = "client" THEN "server" ELSE "client"
FrameTypes == {"Handshake", "Content"}

ASSUME WebSocketAssumption ==
  /\ \A f \in Frame : f = [type |-> f.type, body |-> f.body] /\ f.type \in FrameTypes
  /\ MaxFrames \in Nat /\ MaxPings \in Nat
  /\ Libraries \subseteq LibraryKinds
  /\ Faults \subseteq FaultKinds

VARIABLES
  library,  \* the client's
  portal,   \* the portal of a side: "up" or "down"
  source,   \* its source, which its receive loop polls: "yields" or "ended"
  link,     \* whether the transport is up
  wire,     \* the messages on their way to a side
  pings,    \* how many control messages there were
  actor,    \* ewebsock: the mailbox of the sink's actor
  running,  \* whether that actor has come to run, which start_fn does not await
  outbox,   \* the channel to the task that owns the socket
  inbox,    \* the channel from the event handler to the source
  handler,  \* whether that handler, which holds the channel, still exists
  sent,     \* history: the frames that a portal gave to its sink
  received  \* history: the frames that a portal got

ewebsockVars == <<actor, running, outbox, inbox, handler>>
historyVars == <<sent, received>>
vars == <<library, portal, source, link, wire, pings, ewebsockVars, historyVars>>

Init ==
  /\ library \in Libraries
  /\ portal = [s \in Side |-> "up"] /\ source = [s \in Side |-> "yields"]
  /\ link = "up"
  /\ wire = [s \in Side |-> <<>>] /\ pings = 0
  /\ actor = <<>> /\ running = FALSE /\ outbox = <<>> /\ inbox = <<>> /\ handler = TRUE
  /\ sent = [s \in Side |-> <<>>] /\ received = [s \in Side |-> <<>>]

Ewebsock(s) == s = "client" /\ library # "tungstenite"

(* A tungstenite stream is closed when both halves are dropped.  The task  *)
(* that owns an ewebsock socket runs for ever: the sink's actor is not     *)
(* stopped when the sink is dropped.                                       *)
Closed(s) == ~Ewebsock(s) /\ portal[s] = "down" /\ source[s] = "ended"
Reaches(s) == link = "up" /\ ~Closed(s)
-----------------------------------------------------------------------------
(* map_conduit_to_ws and map_ws_to_conduit; control messages are skipped.  *)
(* Mutants: text is taken for content, or for a control message.           *)
Messages == [kind : {"Text", "Binary"}, body : {f.body : f \in Frame}]
Ping == [kind |-> "Ping"]
ToMessage(f) == [kind |-> IF f.type = "Handshake" THEN "Text" ELSE "Binary", body |-> f.body]
ToContent(m) == [type |-> "Content", body |-> m.body]
ToFrame(m) == [type |-> IF m.kind = "Text" THEN "Handshake" ELSE "Content", body |-> m.body]

SkippedText(m) == m.kind \in {"Ping", "Text"}
Skipped(m) == m = Ping

Gives(s, f) ==
  /\ portal[s] = "up"
  /\ Len(sent["client"]) + Len(sent["server"]) < MaxFrames
  /\ sent' = [sent EXCEPT ![s] = Append(@, f)]

(* A write that does not reach the peer is lost, or fails the portal. *)
TungsteniteSends(s, f) ==
  /\ ~Ewebsock(s)
  /\ Gives(s, f)
  /\ wire' = IF Reaches(Peer(s))
             THEN [wire EXCEPT ![Peer(s)] = Append(@, ToMessage(f))] ELSE wire
  /\ \/ UNCHANGED portal
     \/ ~Reaches(Peer(s)) /\ portal' = [portal EXCEPT ![s] = "down"]
  /\ UNCHANGED <<library, source, link, pings, ewebsockVars, received>>

(* WsSenderSink is ready as soon as its actor runs, from then on always; a *)
(* portal that sends before fails.                                         *)
ActorRuns ==
  /\ Ewebsock("client") /\ ~running
  /\ running' = TRUE
  /\ UNCHANGED <<library, portal, source, link, wire, pings, actor, outbox, inbox, handler,
                 historyVars>>

EwebsockRefuses ==
  /\ Ewebsock("client") /\ ~running
  /\ portal["client"] = "up"
  /\ portal' = [portal EXCEPT !["client"] = "down"]
  /\ UNCHANGED <<library, source, link, wire, pings, ewebsockVars, historyVars>>

EwebsockSends(f) ==
  /\ Ewebsock("client") /\ running
  /\ Gives("client", f)
  /\ actor' = Append(actor, f)
  /\ UNCHANGED <<library, portal, source, link, wire, pings, running, outbox, inbox, handler, received>>

SinkActorForwards ==
  /\ running /\ actor # <<>>
  /\ actor' = Tail(actor)
  /\ outbox' = Append(outbox, ToMessage(Head(actor)))
  /\ UNCHANGED <<library, portal, source, link, wire, pings, running, inbox, handler, historyVars>>

(* Nobody hears of a message that the socket refuses. *)
TaskSends ==
  /\ outbox # <<>>
  /\ outbox' = Tail(outbox)
  /\ wire' = IF Reaches("server")
             THEN [wire EXCEPT !["server"] = Append(@, Head(outbox))] ELSE wire
  /\ UNCHANGED <<library, portal, source, link, pings, actor, running, inbox, handler, historyVars>>
-----------------------------------------------------------------------------
(* receive_loop: a portal that is gone ends it. *)
LoopGets(s, f) ==
  IF portal[s] = "up"
  THEN received' = [received EXCEPT ![s] = Append(@, f)] /\ UNCHANGED source
  ELSE source' = [source EXCEPT ![s] = "ended"] /\ UNCHANGED received

TungsteniteReceives(s) ==
  /\ ~Ewebsock(s)
  /\ source[s] = "yields" /\ wire[s] # <<>>
  /\ wire' = [wire EXCEPT ![s] = Tail(@)]
  /\ IF Skipped(Head(wire[s]))
     THEN UNCHANGED <<source, received>>
     ELSE LoopGets(s, ToFrame(Head(wire[s])))
  /\ UNCHANGED <<library, portal, link, pings, ewebsockVars, sent>>

(* The end of the stream, or the error of one that was reset.              *)
(* Mutant: only the error.                                                 *)
EndedByError(s) == wire[s] = <<>> /\ link = "broken"
Ended(s) == wire[s] = <<>> /\ ~Reaches(Peer(s))
TungsteniteEnds(s) ==
  /\ ~Ewebsock(s)
  /\ source[s] = "yields" /\ Ended(s)
  /\ source' = [source EXCEPT ![s] = "ended"]
  /\ UNCHANGED <<library, portal, link, wire, pings, ewebsockVars, historyVars>>

(* WsEvent::Message; a source that was dropped does not matter. *)
EwebsockEvent ==
  /\ Ewebsock("client")
  /\ handler /\ wire["client"] # <<>>
  /\ wire' = [wire EXCEPT !["client"] = Tail(@)]
  /\ inbox' = IF Skipped(Head(wire["client"])) \/ source["client"] = "ended"
              THEN inbox ELSE Append(inbox, ToFrame(Head(wire["client"])))
  /\ UNCHANGED <<library, portal, source, link, pings, actor, running, outbox, handler, historyVars>>

(* WsEvent::Closed and WsEvent::Error are logged.  Then the library's      *)
(* thread ends and drops the handler, which a browser keeps.               *)
(* Mutant: no library ever drops it.                                       *)
NeverDrops == FALSE
DropsHandler == library = "ewebsock"
EwebsockClosed ==
  /\ Ewebsock("client")
  /\ handler /\ Ended("client")
  /\ DropsHandler
  /\ handler' = FALSE
  /\ UNCHANGED <<library, portal, source, link, wire, pings, actor, running, outbox, inbox, historyVars>>

EwebsockReceives ==
  /\ source["client"] = "yields" /\ inbox # <<>>
  /\ inbox' = Tail(inbox)
  /\ LoopGets("client", Head(inbox))
  /\ UNCHANGED <<library, portal, link, wire, pings, actor, running, outbox, handler, sent>>

EwebsockEnds ==
  /\ Ewebsock("client")
  /\ source["client"] = "yields" /\ inbox = <<>> /\ ~handler
  /\ source' = [source EXCEPT !["client"] = "ended"]
  /\ UNCHANGED <<library, portal, link, wire, pings, ewebsockVars, historyVars>>

(* The loop's last cast, and what the portal does with it.                 *)
LoopClosesPortal(s) ==
  /\ source[s] = "ended" /\ portal[s] = "up"
  /\ portal' = [portal EXCEPT ![s] = "down"]
  /\ UNCHANGED <<library, source, link, wire, pings, ewebsockVars, historyVars>>
-----------------------------------------------------------------------------
(* A control message of the library, to keep the connection alive *)
Pings(s) ==
  /\ pings < MaxPings
  /\ Reaches(s)
  /\ pings' = pings + 1
  /\ wire' = [wire EXCEPT ![s] = Append(@, Ping)]
  /\ UNCHANGED <<library, portal, source, link, ewebsockVars, historyVars>>

LinkBreaks ==
  /\ "break" \in Faults
  /\ link = "up"
  /\ link' = "broken"
  /\ \E kept \in [Side -> 0 .. MaxFrames + MaxPings] :
       /\ \A s \in Side : kept[s] <= Len(wire[s])
       /\ wire' = [s \in Side |-> SubSeq(wire[s], 1, kept[s])]
  /\ UNCHANGED <<library, portal, source, pings, ewebsockVars, historyVars>>

AppStopsPortal(s) ==
  /\ "stop" \in Faults
  /\ portal[s] = "up"
  /\ portal' = [portal EXCEPT ![s] = "down"]
  /\ UNCHANGED <<library, source, link, wire, pings, ewebsockVars, historyVars>>

Tungstenite(s) == TungsteniteReceives(s) \/ TungsteniteEnds(s) \/ LoopClosesPortal(s)
Source == EwebsockReceives \/ EwebsockEnds
SinkActor == ActorRuns \/ SinkActorForwards
Handler == EwebsockEvent \/ EwebsockClosed

Next ==
  \/ \E s \in Side :
       \/ Tungstenite(s) \/ Pings(s) \/ AppStopsPortal(s)
       \/ \E f \in Frame : TungsteniteSends(s, f)
  \/ \E f \in Frame : EwebsockSends(f)
  \/ SinkActor \/ EwebsockRefuses \/ TaskSends \/ Handler \/ Source
  \/ LinkBreaks

(* Tasks, actors, loops and the library's own thread run. *)
Spec == Init /\ [][Next]_vars
FairSpec ==
  /\ Spec
  /\ \A s \in Side : WF_vars(Tungstenite(s))
  /\ WF_vars(SinkActor) /\ WF_vars(TaskSends)
  /\ WF_vars(Handler) /\ WF_vars(Source)
-----------------------------------------------------------------------------
TypeOK ==
  /\ library \in Libraries
  /\ portal \in [Side -> {"up", "down"}] /\ source \in [Side -> {"yields", "ended"}]
  /\ link \in {"up", "broken"}
  /\ wire \in [Side -> Seq(Messages \cup {Ping})] /\ pings \in 0 .. MaxPings
  /\ actor \in Seq(Frame) /\ running \in BOOLEAN /\ outbox \in Seq(Messages)
  /\ inbox \in Seq(Frame) /\ handler \in BOOLEAN
  /\ sent \in [Side -> Seq(Frame)] /\ received \in [Side -> Seq(Frame)]

(* Each direction is what Portal.tla takes a conduit for, whatever tasks,  *)
(* actors and channels the frames go through, and although ewebsock's sink *)
(* and source learn of no error.                                           *)
ToServer == INSTANCE Pipe WITH
  sent <- sent["client"], received <- received["server"], source <- source["server"]
ToClient == INSTANCE Pipe WITH
  sent <- sent["server"], received <- received["client"], source <- source["client"]
ImplementsPipes == ToServer!Spec /\ ToClient!Spec

(* A broken link takes both portals down, and a closed stream its peer's,  *)
(* except in a browser, where the client is never told.  The stream of a   *)
(* stopped portal stays open until the receive loop has ended, too, which  *)
(* takes a message with tungstenite; ewebsock's is never closed.           *)
Told(s) == ~(s = "client" /\ library = "ewebsock_web")
EndsAreNoticed ==
  \A s \in Side : (link = "broken" \/ Closed(Peer(s))) /\ Told(s) ~> portal[s] = "down"

(* What a portal sends arrives, unless one of the two goes down or the     *)
(* link breaks.                                                            *)
FramesArrive ==
  \A s \in Side, n \in 1 .. MaxFrames :
    Len(sent[s]) >= n ~> \/ Len(received[Peer(s)]) >= n
                         \/ link = "broken" \/ portal[Peer(s)] = "down"

(* So what one side does, be it that it sends or that it ends, reaches the *)
(* other one, wherever the library can tell.                               *)
FramesAndEndsArrive == EndsAreNoticed /\ FramesArrive
-----------------------------------------------------------------------------
(* What makes the refinement inductive (WebSocketProofs).                  *)

(* Between the wire and the source, and between the sink and the wire,     *)
(* ewebsock's client has queues of its own.                                *)
Inbox(s) == IF s = "client" THEN inbox ELSE <<>>
Outbox(s) == IF s = "client" THEN outbox ELSE <<>>
SinkQueue(s) == IF s = "client" THEN actor ELSE <<>>

(* The messages on a wire w are, but for control messages, the frames of   *)
(* all that follow those its side got: n[i] frames up to the i-th message. *)
(* While the link is up, what is behind them is all the others.            *)
Numbers(n, got, in, w, all) ==
  /\ n[0] = Len(got) + Len(in)
  /\ \A i \in DOMAIN in : in[i] = all[Len(got) + i]
  /\ \A i \in DOMAIN w :
       IF Skipped(w[i]) THEN n[i] = n[i - 1] ELSE n[i] = n[i - 1] + 1 /\ ToFrame(w[i]) = all[n[i]]
Follow(k, all, out, queue) ==
  /\ k + Len(out) + Len(queue) = Len(all)
  /\ \A i \in DOMAIN out : ToFrame(out[i]) = all[k + i]
  /\ \A i \in DOMAIN queue : queue[i] = all[k + Len(out) + i]
UpTo(k, got, in, w, all) ==
  \E n \in [0 .. Len(w) -> 0 .. Len(all)] : Numbers(n, got, in, w, all) /\ n[Len(w)] = k
Flow(got, in, w, all, out, queue, open) ==
  \E k \in 0 .. Len(all) : UpTo(k, got, in, w, all) /\ (open => Follow(k, all, out, queue))

UnderWay(s) ==
  source[s] = "yields" =>
    Flow(received[s], Inbox(s), wire[s], sent[Peer(s)], Outbox(Peer(s)), SinkQueue(Peer(s)),
         link = "up")
FramesInOrder == \A s \in Side : UnderWay(s)
QueuesAreEwebsocks ==
  ~Ewebsock("client") => inbox = <<>> /\ outbox = <<>> /\ actor = <<>>
=============================================================================
