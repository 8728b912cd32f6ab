------------------------------ MODULE FnActor ------------------------------
(***************************************************************************)
(* Actors that are functions (util/function_actor.rs, its thread-local     *)
(* variant) and actors derived from others (util/combinators): an actor    *)
(* whose handler only passes each message on, into a channel that a task   *)
(* reads, or to the actor it was derived from, its supervisor.             *)
(*                                                                         *)
(*   mailbox -> handler -> channel -> function         fn, local, filter   *)
(*   mailbox -> handler -> mailbox of the parent       map                 *)
(*                                                                         *)
(* map stands for map and filter_map.  The function of a filter sends to   *)
(* the parent.  Messages may carry a reply port (ask and ask_then).        *)
(***************************************************************************)
EXTENDS Naturals, Sequences, FiniteSets

CONSTANTS
  Node,         \* the actors
  Msg,          \* messages
  Asks,         \* those with a reply port
  Timed,        \* those of them that were asked with a timeout
  Capacity,     \* MAX_CHANNEL_SIZE, scaled down
  Applications, \* how the actors are built and used
  None          \* no actor, no message

Kinds == {"fn", "local", "filter", "map", "unused"}
FaultKinds == {"return", "panic", "stop"}
Causes == {"app", "function", "child"}

(* The actor each was derived from, the messages that a derived actor lets *)
(* through, the messages that are sent, and what may happen.               *)
Application ==
  [kind : [Node -> Kinds], parent : [Node -> Node \cup {None}],
   forwards : [Node -> SUBSET Msg], sends : SUBSET Msg, faults : SUBSET FaultKinds]

ASSUME FnActorAssumption ==
  /\ Timed \subseteq Asks /\ Asks \subseteq Msg
  /\ Capacity \in Nat \ {0}
  /\ None \notin Node \cup Msg \cup Causes
  /\ Applications \subseteq Application
  /\ \A app \in Applications :
       /\ \A a \in Node : app.kind[a] \in {"filter", "map"} <=> app.parent[a] # None
       (* what an actor is derived from was there before it *)
       /\ \A S \in SUBSET Node : S # {} => \E a \in S : app.parent[a] \notin S

VARIABLES
  built,    \* the application, out of Applications
  status,   \* an actor's state, out of Statuses
  stopping, \* who asked it to stop, if it has not yet
  doomed,   \* the actors that have been sent the kill signal
  mailbox,  \* an actor's messages
  handling, \* the message that waits for room in the channel
  channel,  \* the channel from an actor to its function
  task,     \* the function: "none" (map), "runs", "returned" or "panicked"
  events,   \* the ended children that an actor has not heard of yet
  entry,    \* history: the actor a message was sent to
  order,    \* history: the messages in the order they were sent
  received, \* history: what the functions of fn and local took, by actor
  asker     \* the state of who waits on a port

actorVars == <<status, stopping, doomed, events>>
sentVars == <<entry, order>>
vars == <<built, actorVars, mailbox, handling, channel, task, sentVars, received, asker>>

Kind == built.kind
Parent == built.parent
Forwards == built.forwards

Statuses == {"running", "stopped", "failed", "killed", "none"}

HasFunction(a) == Kind[a] \in {"fn", "local", "filter"}
(* The actors derived from a, which spawn_linked makes its children.       *)
Linked(a) == {d \in Node : Parent[d] = a}

(* start, start_fn and the combinators, whatever the variant: the actor is *)
(* linked to the one it is derived from. *)
Init ==
  /\ built \in Applications
  /\ status = [a \in Node |-> IF Kind[a] = "unused" THEN "none" ELSE "running"]
  /\ stopping = [a \in Node |-> None]
  /\ doomed = {}
  /\ mailbox = [a \in Node |-> <<>>]
  /\ handling = [a \in Node |-> None]
  /\ channel = [a \in Node |-> <<>>]
  /\ task = [a \in Node |-> IF HasFunction(a) THEN "runs" ELSE "none"]
  /\ events = [a \in Node |-> {}]
  /\ entry = [m \in Msg |-> None]
  /\ order = <<>>
  /\ received = [a \in Node |-> <<>>]
  /\ asker = [m \in Asks |-> "idle"]
-----------------------------------------------------------------------------
InSeq(q) == {q[i] : i \in DOMAIN q}
Running(a) == status[a] = "running"
Alive(a) == task[a] = "runs"

(* The ports in dropped messages wake those who wait on them. *)
Refused(M) == [m \in Asks |-> IF m \in M /\ asker[m] = "waiting" THEN "refused" ELSE asker[m]]

(* ractor: the mailbox and the actor's state, with its end of the channel, *)
(* are dropped, the children killed and the supervisor told.               *)
Ends(a, how) ==
  /\ status' = [status EXCEPT ![a] = how]
  /\ mailbox' = [mailbox EXCEPT ![a] = <<>>]
  /\ handling' = [handling EXCEPT ![a] = None]
  /\ asker' = Refused(InSeq(mailbox[a]) \cup {handling[a]})
  /\ doomed' = doomed \cup {d \in Linked(a) : Running(d)}
  /\ events' = [p \in Node |-> IF a \in Linked(p) /\ Running(p)
                                THEN events[p] \cup {a} ELSE events[p]]
  /\ UNCHANGED <<stopping, channel, task, sentVars, received>>

(* ask sends at once.  Refused by an actor that has ended, it returns an   *)
(* error.                                                                  *)
AppSends(m, a) ==
  /\ m \in built.sends /\ Kind[a] # "unused"
  /\ entry[m] = None
  /\ entry' = [entry EXCEPT ![m] = a]
  /\ order' = Append(order, m)
  /\ IF Running(a)
     THEN /\ mailbox' = [mailbox EXCEPT ![a] = Append(@, m)]
          /\ asker' = [x \in Asks |-> IF x = m THEN "waiting" ELSE asker[x]]
     ELSE /\ UNCHANGED mailbox
          /\ asker' = [x \in Asks |-> IF x = m THEN "refused" ELSE asker[x]]
  /\ UNCHANGED <<actorVars, handling, channel, task, received>>

(* The timeout of ask.  That of ask_then goes into the port, but nobody    *)
(* waits for it: its messages are in Asks and not in Timed.                *)
AskTimesOut(m) ==
  /\ m \in Timed
  /\ asker[m] = "waiting"
  /\ asker' = [asker EXCEPT ![m] = "timedout"]
  /\ UNCHANGED <<actorVars, mailbox, handling, channel, task, sentVars, received>>

(* ractor looks for the stop request and for events before messages.       *)
(* Mutant: the handler does not wait for room. *)
NeverWaits(a) == Running(a) /\ stopping[a] = None /\ events[a] = {}
Ready(a) == Running(a) /\ stopping[a] = None /\ events[a] = {} /\ handling[a] = None
Takes(a) == Ready(a) /\ mailbox[a] # <<>>
First(a) == Head(mailbox[a])
-----------------------------------------------------------------------------
(* The places of a channel: tokio's has its size, that of a thread-local   *)
(* actor, futures::channel::mpsc, one more for its sender.                 *)
Room(a) == IF Kind[a] = "local" THEN Capacity + 1 ELSE Capacity
(* Mutant: one more. *)
FullLater(a) == Len(channel[a]) > Room(a)
Full(a) == Len(channel[a]) >= Room(a)

(* FnActorImpl::handle: tx.send waits for room; the receiver is gone with  *)
(* the function, and the actor fails.                                      *)
HandleIntoChannel(a) ==
  /\ Kind[a] \in {"fn", "filter"}
  /\ Takes(a) /\ Alive(a)
  /\ mailbox' = [mailbox EXCEPT ![a] = Tail(@)]
  /\ IF Full(a)
     THEN handling' = [handling EXCEPT ![a] = First(a)] /\ UNCHANGED channel
     ELSE channel' = [channel EXCEPT ![a] = Append(@, First(a))] /\ UNCHANGED handling
  /\ UNCHANGED <<actorVars, task, sentVars, received, asker>>

HandlerResumes(a) ==
  /\ Running(a) /\ handling[a] # None /\ Alive(a)
  /\ ~Full(a)
  /\ channel' = [channel EXCEPT ![a] = Append(@, handling[a])]
  /\ handling' = [handling EXCEPT ![a] = None]
  /\ UNCHANGED <<actorVars, mailbox, task, sentVars, received, asker>>

(* ThreadLocalFnActorImpl::handle: try_send, a full channel is an error.   *)
(* Mutant: for every FnActor.                                              *)
OverflowsAlways(a) == Takes(a) /\ Full(a)
Overflows(a) == Takes(a) /\ Full(a) /\ Kind[a] = "local"
HandleIntoLocalChannel(a) ==
  /\ Kind[a] = "local"
  /\ Takes(a) /\ Alive(a) /\ ~Full(a)
  /\ mailbox' = [mailbox EXCEPT ![a] = Tail(@)]
  /\ channel' = [channel EXCEPT ![a] = Append(@, First(a))]
  /\ UNCHANGED <<actorVars, handling, task, sentVars, received, asker>>

HandlerFails(a) ==
  /\ HasFunction(a)
  /\ \/ Takes(a) /\ ~Alive(a)
     \/ Running(a) /\ handling[a] # None /\ ~Alive(a)
     \/ Overflows(a)
  /\ Ends(a, "failed")

(* MappedActor::handle and FilterMapActor::handle *)
HandleByForwarding(a) ==
  /\ Kind[a] = "map"
  /\ Takes(a)
  /\ LET m == First(a)
         p == Parent[a]
     IN \/ /\ m \notin Forwards[a]
           /\ mailbox' = [mailbox EXCEPT ![a] = Tail(@)]
           /\ asker' = Refused({m})
        \/ /\ m \in Forwards[a] /\ Running(p)
           /\ mailbox' = [mailbox EXCEPT ![a] = Tail(@), ![p] = Append(@, m)]
           /\ UNCHANGED asker
  /\ UNCHANGED <<actorVars, handling, channel, task, sentVars, received>>
ForwardingFails(a) ==
  /\ Kind[a] = "map"
  /\ Takes(a) /\ First(a) \in Forwards[a]
  /\ ~Running(Parent[a])
  /\ Ends(a, "failed")

(* A FnActor only logs the end of a child; the combinators map and         *)
(* filter_map have ractor's default, which is to stop.                     *)
StopsWithChild(a) == Kind[a] = "map"
HandleSupervisorEvt(a) ==
  /\ Running(a) /\ handling[a] = None
  /\ stopping[a] = None
  /\ \E d \in events[a] : events' = [events EXCEPT ![a] = @ \ {d}]
  /\ stopping' = IF StopsWithChild(a) THEN [stopping EXCEPT ![a] = "child"] ELSE stopping
  /\ UNCHANGED <<status, doomed, mailbox, handling, channel, task, sentVars, received, asker>>

ActorStops(a) ==
  /\ Running(a) /\ handling[a] = None
  /\ stopping[a] # None
  /\ Ends(a, "stopped")

(* A kill interrupts a handler that waits. *)
ActorIsKilled(a) ==
  /\ Running(a) /\ a \in doomed
  /\ Ends(a, "killed")
-----------------------------------------------------------------------------
(* The function *)

(* Its context is dropped with it.  Mutant: it lives on.                   *)
KeepsChannel(a) == UNCHANGED <<channel, asker>>
Drops(a) ==
  /\ channel' = [channel EXCEPT ![a] = <<>>]
  /\ asker' = Refused(InSeq(channel[a]))

(* It takes a message and answers, or drops the port. *)
FunctionTakes(a, answers) ==
  /\ Kind[a] \in {"fn", "local"}
  /\ Alive(a) /\ channel[a] # <<>>
  /\ LET m == Head(channel[a])
     IN /\ channel' = [channel EXCEPT ![a] = Tail(@)]
        /\ received' = [received EXCEPT ![a] = Append(@, m)]
        /\ asker' = IF answers
                    THEN [x \in Asks |-> IF x = m /\ asker[m] = "waiting"
                                         THEN "answered" ELSE asker[x]]
                    ELSE Refused({m})
  /\ UNCHANGED <<actorVars, mailbox, handling, task, sentVars>>

(* filter: a parent that has ended is only logged. *)
FilterTakes(a) ==
  /\ Kind[a] = "filter"
  /\ Alive(a) /\ channel[a] # <<>>
  /\ LET m == Head(channel[a])
         p == Parent[a]
         goesOn == m \in Forwards[a] /\ Running(p)
     IN /\ channel' = [channel EXCEPT ![a] = Tail(@)]
        /\ mailbox' = IF goesOn THEN [mailbox EXCEPT ![p] = Append(@, m)] ELSE mailbox
        /\ asker' = IF goesOn THEN asker ELSE Refused({m})
  /\ UNCHANGED <<actorVars, handling, task, sentVars, received>>

(* A function returns on its own, or when recv yields None: the actor has  *)
(* ended and the channel is drained.  Mutant: the actor is not stopped.    *)
LeavesActor(a) == UNCHANGED stopping
StopsActor(a) ==
  stopping' = IF Running(a) /\ stopping[a] = None
              THEN [stopping EXCEPT ![a] = "function"] ELSE stopping
ChannelClosed(a) == ~Running(a) /\ channel[a] = <<>>
FunctionReturns(a) ==
  /\ Alive(a)
  /\ ChannelClosed(a) \/ (Kind[a] # "filter" /\ "return" \in built.faults)
  /\ task' = [task EXCEPT ![a] = "returned"]
  /\ Drops(a)
  /\ StopsActor(a)
  /\ UNCHANGED <<status, doomed, events, mailbox, handling, sentVars, received>>

(* The task of start_fn ends before it stops the actor. *)
FunctionPanics(a) ==
  /\ "panic" \in built.faults
  /\ Alive(a)
  /\ task' = [task EXCEPT ![a] = "panicked"]
  /\ Drops(a)
  /\ UNCHANGED <<actorVars, mailbox, handling, sentVars, received>>

AppStops(a) ==
  /\ "stop" \in built.faults
  /\ Running(a) /\ stopping[a] = None
  /\ stopping' = [stopping EXCEPT ![a] = "app"]
  /\ UNCHANGED <<status, doomed, events, mailbox, handling, channel, task, sentVars, received, asker>>
-----------------------------------------------------------------------------
ActorStep(a) ==
  \/ HandleIntoChannel(a) \/ HandlerResumes(a) \/ HandleIntoLocalChannel(a) \/ HandlerFails(a)
  \/ HandleByForwarding(a) \/ ForwardingFails(a)
  \/ HandleSupervisorEvt(a) \/ ActorStops(a) \/ ActorIsKilled(a)

FilterStep(a) == FilterTakes(a) \/ (Kind[a] = "filter" /\ FunctionReturns(a))

Step ==
  \/ \E a \in Node :
       \/ ActorStep(a) \/ FilterStep(a)
       \/ FunctionReturns(a) \/ FunctionPanics(a) \/ AppStops(a)
       \/ \E answers \in BOOLEAN : FunctionTakes(a, answers)
       \/ \E m \in Msg : AppSends(m, a)
  \/ \E m \in Msg : AskTimesOut(m)
Next == Step /\ UNCHANGED built

(* Actors and filters run.  What a function does is up to the application. *)
Spec == Init /\ [][Next]_vars
FairSpec ==
  /\ Spec
  /\ \A a \in Node : /\ WF_vars(ActorStep(a) /\ UNCHANGED built)
                     /\ WF_vars(FilterStep(a) /\ UNCHANGED built)
-----------------------------------------------------------------------------
TypeOK ==
  /\ built \in Applications
  /\ status \in [Node -> Statuses]
  /\ stopping \in [Node -> Causes \cup {None}]
  /\ doomed \subseteq Node
  /\ mailbox \in [Node -> Seq(Msg)]
  /\ handling \in [Node -> Msg \cup {None}]
  /\ channel \in [Node -> Seq(Msg)] /\ \A a \in Node : Len(channel[a]) <= Room(a)
  /\ task \in [Node -> {"none", "runs", "returned", "panicked"}]
  /\ events \in [Node -> SUBSET Node]
  /\ entry \in [Msg -> Node \cup {None}]
  /\ order \in Seq(Msg)
  /\ received \in [Node -> Seq(Msg)]
  /\ asker \in [Asks -> {"idle", "waiting", "answered", "refused", "timedout"}]

(* From an actor to the one that all were derived from *)
Upward(S) == \A a \in S : Parent[a] # None => Parent[a] \in S
Route(a) == {d \in Node : \A S \in SUBSET Node : a \in S /\ Upward(S) => d \in S}
Root(a) == CHOOSE r \in Route(a) : Parent[r] = None
LetThrough(m, a) == \A d \in Route(a) : Parent[d] # None => m \in Forwards[d]
Intact(a) == \A d \in Route(a) : Running(d) /\ task[d] \in {"none", "runs"}

(* The messages that have come to an actor, but for those that it, or its  *)
(* function, has sent on: the ones that are ahead come first.              *)
Held(a) == IF handling[a] = None THEN <<>> ELSE <<handling[a]>>
Line == [a \in Node |-> (received[a] \o channel[a]) \o (Held(a) \o mailbox[a])]
Places(m) == UNION {{<<a, i>> : i \in {j \in DOMAIN Line[a] : Line[a][j] = m}} : a \in Node}

(* A message that every actor on its way lets through is in one place of   *)
(* them, or has been received, for as long as they all run; whatever ends, *)
(* it is never received twice.                                             *)
EachMessageOnce ==
  \A m \in Msg : entry[m] # None =>
    /\ Cardinality(Places(m)) <= 1
    /\ Intact(entry[m]) /\ LetThrough(m, entry[m]) => Cardinality(Places(m)) = 1

(* A function gets what was sent to it, directly or through a derived      *)
(* actor, in the order of the sends, and nothing that a filter holds back. *)
Before(m, n) == \E i, j \in DOMAIN order : i < j /\ order[i] = m /\ order[j] = n
SentOrderIsKept ==
  \A a \in Node : \A i, j \in DOMAIN received[a] :
    LET m == received[a][i]
        n == received[a][j]
    IN /\ a \in Route(entry[m]) /\ LetThrough(m, entry[m])
       /\ i < j /\ entry[m] = entry[n] => Before(m, n)

(* So a function receives what it was sent, once and in order, for as long *)
(* as the actors in between run.                                           *)
SentOnceInOrder == EachMessageOnce /\ SentOrderIsKept

(* What ends an actor: its function, its parent, the application, for a    *)
(* derived actor of map and filter_map also an actor derived from it.  An  *)
(* end never goes up otherwise.  A thread-local actor also fails at the    *)
(* limit of its channel, and not before: its function has been given as    *)
(* many messages as there is room for.                                     *)
LimitReached(a) == Kind[a] = "local" /\ Len(received[a]) + Len(channel[a]) >= Capacity + 1
EndsHaveCause ==
  \A a \in Node :
    /\ status[a] = "failed" =>
         IF HasFunction(a) THEN ~Alive(a) \/ LimitReached(a)
                         ELSE Parent[a] # None /\ ~Running(Parent[a])
    /\ status[a] = "stopped" =>
         \/ stopping[a] = "app"
         \/ task[a] = "returned"
         \/ Kind[a] = "map" /\ \E d \in Linked(a) : ~Running(d)
    /\ status[a] = "killed" => Parent[a] # None /\ ~Running(Parent[a])

(* "stop actor when async fn returns ... all start_fn* variants"           *)
(* (braindump.md), also with messages queued or held back by the handler;  *)
(* and no derived actor outlives the one it was derived from.              *)
ActorsEnd ==
  /\ \A a \in Node : task[a] = "returned" ~> ~Running(a)
  /\ \A a \in Node : Parent[a] # None /\ ~Running(Parent[a]) ~> ~Running(a)

(* Whoever asks a function that returns or panics gets an error, wherever  *)
(* the message is on its way.                                              *)
AsksEndWithFunction ==
  \A m \in Asks, a \in Node :
    entry[m] = a /\ task[Root(a)] \in {"returned", "panicked"} /\ asker[m] = "waiting"
      ~> asker[m] # "waiting"

(* The end of a function or of an actor reaches all that depend on it: the *)
(* actors derived from it, and whoever asked it.                           *)
EndsReachDependents == ActorsEnd /\ AsksEndWithFunction
-----------------------------------------------------------------------------
(* What makes these invariants inductive (FnActorProofs).                  *)

(* What asks an actor to end has its cause, too, and what is not there is  *)
(* not used.                                                               *)
EndsAreDue ==
  \A a \in Node :
    /\ stopping[a] = "function" => task[a] = "returned"
    /\ stopping[a] = "child" => Kind[a] = "map" /\ \E d \in Linked(a) : ~Running(d)
    /\ events[a] \subseteq {d \in Linked(a) : ~Running(d)}
    /\ a \in doomed => Parent[a] # None /\ ~Running(Parent[a])
KindsAreKept ==
  \A a \in Node :
    /\ ~HasFunction(a) => channel[a] = <<>> /\ handling[a] = None /\ task[a] = "none"
    /\ HasFunction(a) => task[a] # "none"
    /\ Parent[a] # None => received[a] = <<>>

(* No message is in two places.  Where it is, it has been let through; and *)
(* on each way the messages are in the order they were sent.               *)
LinesAreDisjoint ==
  \A a, b \in Node : \A i \in DOMAIN Line[a], j \in DOMAIN Line[b] :
    Line[a][i] = Line[b][j] => a = b /\ i = j
LinesAreSound ==
  \A a \in Node : \A i \in DOMAIN Line[a] :
    LET m == Line[a][i]
    IN /\ entry[m] # None /\ a \in Route(entry[m])
       /\ \A d \in Route(entry[m]) \ Route(a) : m \in Forwards[d]
LinesAreInOrder ==
  \A a, b \in Node : \A i \in DOMAIN Line[a], j \in DOMAIN Line[b] :
    LET m == Line[a][i]
        n == Line[b][j]
    IN entry[m] = entry[n] /\ (IF a = b THEN i < j ELSE a \in Route(b)) => Before(m, n)
NoneIsLost ==
  \A m \in Msg :
    entry[m] # None =>
      /\ m \in InSeq(order)
      /\ Intact(entry[m]) /\ LetThrough(m, entry[m])
           => \E a \in Node : m \in InSeq(Line[a])
=============================================================================
