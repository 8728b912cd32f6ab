------------------------------- MODULE Nexus -------------------------------
(***************************************************************************)
(* The NexusActor of one process (ractor_wormhole/src/nexus.rs) and the    *)
(* tasks that use it: tasks that connect (from_sink_source), tasks that    *)
(* ask for all portals, portals that look a name up, and the actor told of *)
(* new portals.  A portal is only its life here; Portal.tla has the rest.  *)
(*                                                                         *)
(* The nexus handles one message or supervision event at a time.  Its only *)
(* await, on the start of a portal, splits the handler of Connected in two *)
(* (SpawnsPortal, then StoresPortal or StartFails).                        *)
(***************************************************************************)
EXTENDS Naturals, Sequences, FiniteSets

CONSTANTS
  Connection,    \* calls of from_sink_source, each with the portal it makes
  Actor,         \* actors published on the nexus
  Name,          \* names they are published under
  Asker,         \* tasks that ask GetAllPortals, and portals' lookups
  MaxPublished,  \* bound: publications
  HasListener,   \* whether on_client_connected is given
  Faults,        \* what may go wrong, out of FaultKinds
  None           \* no value

FaultKinds == {"refuse", "end", "giveup", "listener"}

ASSUME NexusAssumption ==
  /\ None \notin Connection \cup Actor \cup Name \cup Asker
  /\ "portals" \notin Name \cup {None}  \* which tells the two kinds of questions apart
  /\ MaxPublished \in Nat
  /\ HasListener \in BOOLEAN
  /\ Faults \subseteq FaultKinds

VARIABLES
  mode,        \* "idle", "starting" (awaits a portal), "storing", or "down"
  current,     \* the connection of the Connected message being handled
  portals,     \* NexusActorState::portals
  named,       \* NexusActorState::named_actors: Name -> Actor
  mailbox,     \* the NexusActorMessages that wait
  events,      \* the SupervisionEvents that wait
  portal,      \* each portal's life
  caller,      \* each task that connects
  listener,    \* the actor on_client_connected
  told,        \* the OnActorConnectedMessages it was sent
  asker,       \* each task that asks
  latest,      \* history: the last actor cast for a name
  publications,\* history: how many
  failure      \* history: why the nexus went down

nexusVars == <<mode, current, portals, named>>
historyVars == <<latest, publications>>
vars == <<nexusVars, mailbox, events, portal, caller, listener, told, asker, historyVars, failure>>

PortalStates == {"none", "running", "ended", "killed"}
CallerStates == {"idle", "waiting", "connected", "refused", "gaveup"}
AskerStates == {"idle", "waiting", "answered", "refused", "gaveup"}
AskerState ==
       [state : AskerStates, wants : {"portals"}, expects : SUBSET Connection,
        got : SUBSET Connection]
  \cup [state : AskerStates, wants : Name \cup {None}, expects : Actor \cup {None},
        got : Actor \cup {None}]
IdleAsker == [state |-> "idle", wants |-> None, expects |-> None, got |-> None]

NexusActorMessage ==
       [type : {"Connected"}, connection : Connection]
  \cup [type : {"GetAllPortals"}, port : Asker]
  \cup [type : {"PublishNamedActor"}, name : Name, actor : Actor]
  \cup [type : {"QueryNamedActor"}, name : Name, port : Asker]

Up == mode # "down"
Cast(m) == mailbox' = Append(mailbox, m)
Insert(f, k, v) == [x \in DOMAIN f \cup {k} |-> IF x = k THEN v ELSE f[x]]
NoNames == [x \in {} |-> x]
-----------------------------------------------------------------------------
Init ==
  /\ mode = "idle" /\ current = None
  /\ portals = {} /\ named = NoNames
  /\ mailbox = <<>> /\ events = <<>>
  /\ portal = [c \in Connection |-> "none"]
  /\ caller = [c \in Connection |-> "idle"]
  /\ listener = IF HasListener THEN "running" ELSE "none"
  /\ told = <<>>
  /\ asker = [q \in Asker |-> IdleAsker]
  /\ latest = [n \in Name |-> None]
  /\ publications = 0
  /\ failure = None
-----------------------------------------------------------------------------
Takes(type) == mode = "idle" /\ mailbox # <<>> /\ Head(mailbox).type = type
Done == mailbox' = Tail(mailbox)

(* The nexus actor ends: its mailbox is dropped with the reply ports in    *)
(* it, and its linked children, the portals, are killed.                   *)
(* Mutant: a task that asked does not learn of it.                         *)
Leaked(f) == f
Refused(f) == [q \in Asker |-> IF f[q].state = "waiting"
                              THEN [f[q] EXCEPT !.state = "refused"] ELSE f[q]]
Killed(f) == [c \in Connection |-> IF f[c] = "running" THEN "killed" ELSE f[c]]
Fails(why) ==
  /\ mode' = "down"
  /\ failure' = why
  /\ current' = None
  /\ portals' = {} /\ named' = NoNames
  /\ mailbox' = <<>> /\ events' = <<>>
  /\ portal' = Killed(portal)
  /\ caller' = [c \in Connection |-> IF caller[c] = "waiting" THEN "refused" ELSE caller[c]]
  /\ asker' = Refused(asker)
  /\ UNCHANGED <<listener, historyVars>>

(* Connected, up to the await: spawn_linked runs the portal's pre_start. *)
SpawnsPortal ==
  /\ Takes("Connected")
  /\ mode' = "starting"
  /\ current' = Head(mailbox).connection
  /\ Done
  /\ UNCHANGED <<portals, named, events, portal, caller, listener, told, asker, historyVars, failure>>

(* The portal's sink took its introduction: the portal runs. *)
PortalStarts ==
  /\ mode = "starting"
  /\ mode' = "storing"
  /\ portal' = [portal EXCEPT ![current] = "running"]
  /\ UNCHANGED <<current, portals, named, mailbox, events, caller, listener, told, asker,
                 historyVars, failure>>

(* It did not: the `?` fails the nexus. *)
StartFails ==
  /\ "refuse" \in Faults
  /\ mode = "starting"
  /\ Fails("start")
  /\ UNCHANGED told

(* Connected, after the await: the portal is stored, the listener told and *)
(* the caller answered, or the nexus fails over one of the last two.       *)
(* Mutants: a portal replaces the others; nobody is told.                  *)
ReplacesAll(c) == portals' = {c}
Stores(c) == portals' = portals \cup {c}
TellsNobody(c) == UNCHANGED told
Tells(c) == told' = IF listener = "running" THEN Append(told, c) ELSE told
StoresPortal ==
  /\ mode = "storing"
  /\ listener # "stopped"
  /\ caller[current] = "waiting"
  /\ Stores(current)
  /\ Tells(current)
  /\ caller' = [caller EXCEPT ![current] = "connected"]
  /\ mode' = "idle" /\ current' = None
  /\ UNCHANGED <<named, mailbox, events, portal, listener, asker, historyVars, failure>>
StoreFails ==
  /\ mode = "storing"
  /\ \/ listener = "stopped" /\ Fails("listener") /\ UNCHANGED told
     \/ listener # "stopped" /\ caller[current] # "waiting" /\ Fails("gaveup") /\ Tells(current)

Answers(q, got) == asker' = [asker EXCEPT ![q].state = "answered", ![q].got = got]

HandleGetAllPortals ==
  /\ Takes("GetAllPortals")
  /\ LET q == Head(mailbox).port
     IN IF asker[q].state = "waiting"
        THEN /\ Answers(q, portals)
             /\ Done
             /\ UNCHANGED <<nexusVars, events, portal, caller, listener, told, historyVars, failure>>
        ELSE Fails("gaveup") /\ UNCHANGED told

(* A name that was taken is overwritten.  Mutants: the first one is kept;  *)
(* key and value are swapped.                                              *)
Swapped(f, n, a) == Insert(f, a, n)
KeepsFirst(f, n, a) == IF n \in DOMAIN f THEN f ELSE Insert(f, n, a)
Published(f, n, a) == Insert(f, n, a)
HandlePublishNamedActor ==
  /\ Takes("PublishNamedActor")
  /\ named' = Published(named, Head(mailbox).name, Head(mailbox).actor)
  /\ Done
  /\ UNCHANGED <<mode, current, portals, events, portal, caller, listener, told, asker,
                 historyVars, failure>>

HandleQueryNamedActor ==
  /\ Takes("QueryNamedActor")
  /\ LET m == Head(mailbox)
     IN Answers(m.port, IF m.name \in DOMAIN named THEN named[m.name] ELSE None)
  /\ Done
  /\ UNCHANGED <<nexusVars, events, portal, caller, listener, told, historyVars, failure>>

(* handle_supervisor_evt: a portal that terminated or failed is removed.   *)
(* Mutant: one that failed stays.                                          *)
OnlyTerminated(e) == IF e.type = "ActorTerminated" THEN {e.portal} ELSE {}
Removed(e) == {e.portal}
HandleSupervisorEvt ==
  /\ mode = "idle"
  /\ events # <<>>
  /\ portals' = portals \ Removed(Head(events))
  /\ events' = Tail(events)
  /\ UNCHANGED <<mode, current, named, mailbox, portal, caller, listener, told, asker,
                 historyVars, failure>>
-----------------------------------------------------------------------------
(* Its users *)

(* from_sink_source asks, with no timeout; a dead nexus refuses at once. *)
AppConnects(c) ==
  /\ caller[c] = "idle"
  /\ IF Up
     THEN /\ Cast([type |-> "Connected", connection |-> c])
          /\ caller' = [caller EXCEPT ![c] = "waiting"]
     ELSE /\ caller' = [caller EXCEPT ![c] = "refused"]
          /\ UNCHANGED mailbox
  /\ UNCHANGED <<nexusVars, events, portal, listener, told, asker, historyVars, failure>>

(* Nexus::publish_named_actor *)
AppPublishes(n, a) ==
  /\ Up
  /\ publications < MaxPublished
  /\ Cast([type |-> "PublishNamedActor", name |-> n, actor |-> a])
  /\ latest' = [latest EXCEPT ![n] = a]
  /\ publications' = publications + 1
  /\ UNCHANGED <<nexusVars, events, portal, caller, listener, told, asker, failure>>

Asks(q, wants, expects, m) ==
  /\ Up
  /\ asker[q] = IdleAsker
  /\ asker' = [asker EXCEPT ![q] = [state |-> "waiting", wants |-> wants, expects |-> expects,
                                    got |-> IF wants = "portals" THEN {} ELSE None]]
  /\ Cast(m)
  /\ UNCHANGED <<nexusVars, events, portal, caller, listener, told, historyVars, failure>>

Connected == {c \in Connection : caller[c] = "connected" /\ portal[c] = "running"}
AppAsksPortals(q) == Asks(q, "portals", Connected, [type |-> "GetAllPortals", port |-> q])

(* A running portal's RequestActorByName; it waits without a timeout. *)
PortalLooksUp(q, n) ==
  /\ \E c \in Connection : portal[c] = "running"
  /\ Asks(q, n, latest[n], [type |-> "QueryNamedActor", name |-> n, port |-> q])

(* A portal's actor ends on its own; its supervisor gets the event. *)
PortalEnds(c) ==
  /\ "end" \in Faults
  /\ portal[c] = "running"
  /\ portal' = [portal EXCEPT ![c] = "ended"]
  /\ \E type \in {"ActorTerminated", "ActorFailed"} :
       events' = Append(events, [type |-> type, portal |-> c])
  /\ UNCHANGED <<nexusVars, mailbox, caller, listener, told, asker, historyVars, failure>>

(* A caller drops its future; an ask of GetAllPortals times out. *)
CallerGivesUp(c) ==
  /\ "giveup" \in Faults
  /\ caller[c] = "waiting"
  /\ caller' = [caller EXCEPT ![c] = "gaveup"]
  /\ UNCHANGED <<nexusVars, mailbox, events, portal, listener, told, asker, historyVars, failure>>
AskerGivesUp(q) ==
  /\ "giveup" \in Faults
  /\ asker[q].state = "waiting" /\ asker[q].wants = "portals"
  /\ asker' = [asker EXCEPT ![q].state = "gaveup"]
  /\ UNCHANGED <<nexusVars, mailbox, events, portal, caller, listener, told, historyVars, failure>>

ListenerStops ==
  /\ "listener" \in Faults
  /\ listener = "running"
  /\ listener' = "stopped"
  /\ UNCHANGED <<nexusVars, mailbox, events, portal, caller, told, asker, historyVars, failure>>
-----------------------------------------------------------------------------
NexusStep ==
  \/ SpawnsPortal \/ StoresPortal \/ StoreFails
  \/ HandleGetAllPortals \/ HandlePublishNamedActor \/ HandleQueryNamedActor
  \/ HandleSupervisorEvt

Users ==
  \/ \E c \in Connection : AppConnects(c) \/ CallerGivesUp(c) \/ PortalEnds(c)
  \/ \E n \in Name, a \in Actor : AppPublishes(n, a)
  \/ \E q \in Asker : AppAsksPortals(q) \/ AskerGivesUp(q)
  \/ \E q \in Asker, n \in Name : PortalLooksUp(q, n)
  \/ ListenerStops

Next == NexusStep \/ PortalStarts \/ StartFails \/ Users

(* The runtime runs the nexus.  A sink owes nobody an answer, so the end   *)
(* of pre_start (PortalStarts, StartFails) is not fair.                    *)
Spec == Init /\ [][Next]_vars
FairSpec == Spec /\ WF_vars(NexusStep)
-----------------------------------------------------------------------------
TypeOK ==
  /\ mode \in {"idle", "starting", "storing", "down"}
  /\ current \in Connection \cup {None}
  /\ portals \subseteq Connection
  /\ DOMAIN named \subseteq Name /\ named \in [DOMAIN named -> Actor]
  /\ mailbox \in Seq(NexusActorMessage)
  /\ events \in Seq([type : {"ActorTerminated", "ActorFailed"}, portal : Connection])
  /\ portal \in [Connection -> PortalStates]
  /\ caller \in [Connection -> CallerStates]
  /\ listener \in {"none", "running", "stopped"}
  /\ told \in Seq(Connection)
  /\ asker \in [Asker -> AskerState]
  /\ latest \in [Name -> Actor \cup {None}]
  /\ publications \in 0 .. MaxPublished
  /\ failure \in {None, "start", "listener", "gaveup"}

(* The registry follows the portals although each ends at any moment, also *)
(* while the nexus is still awaiting it or storing it: whoever runs is in  *)
(* it (once stored), and whoever is in it runs or has its end event still  *)
(* to be handled.  After a portal has gone, it is never listed for good.   *)
EndsPending == {events[i].portal : i \in DOMAIN events}
RegistryTracksPortals ==
  Up => \A c \in Connection :
          /\ portal[c] = "running" => c \in portals \/ c = current
          /\ c \in portals => portal[c] = "running" \/ c \in EndsPending
          /\ c \in EndsPending => c \in portals \/ c = current

(* A lookup is answered with the actor published last under the name when  *)
(* the lookup was made: "available to ... all portals of this nexus,       *)
(* current and future" (Nexus::publish_named_actor).  GetAllPortals lists  *)
(* every portal whose connection was made before the ask and which still   *)
(* runs, and none whose connection was not asked for.                      *)
AnswersAreCurrent ==
  \A q \in Asker : asker[q].state = "answered" =>
    IF asker[q].wants = "portals"
    THEN \A c \in Connection :
           /\ c \in asker[q].expects /\ portal[c] = "running" => c \in asker[q].got
           /\ c \in asker[q].got => portal[c] # "none"
    ELSE asker[q].got = asker[q].expects

(* The listener hears of every portal once, before its caller has it. *)
ListenerHearsOnce ==
  /\ HasListener => \A c \in Connection : caller[c] = "connected" => \E i \in DOMAIN told : told[i] = c
  /\ \A i, j \in DOMAIN told : told[i] = told[j] => i = j
  /\ \A i \in DOMAIN told : portal[told[i]] # "none"

(* "portal failures are isolated" (portal_isolation.rs): a portal that     *)
(* fails, in its start or later, never takes another one down.             *)
PortalFailuresAreIsolated ==
  \A c \in Connection : portal[c] = "killed" => failure # "start"
-----------------------------------------------------------------------------
(* Every connect and every ask returns, with an answer or an error, unless *)
(* the nexus waits for ever on the sink of a new connection.               *)
Stalled == mode = "starting"
EveryRequestReturns ==
  \/ /\ \A c \in Connection : caller[c] = "waiting" ~> caller[c] # "waiting"
     /\ \A q \in Asker : asker[q].state = "waiting" ~> asker[q].state # "waiting"
  \/ <>[]Stalled
-----------------------------------------------------------------------------
(* What makes the invariants above inductive (NexusProofs). *)

(* One connection is handled at a time: its portal has not started before  *)
(* its first await returns, and nothing is left of a nexus that is down.   *)
HandlesOne ==
  /\ mode \in {"starting", "storing"} <=> current # None
  /\ mode = "starting" => portal[current] = "none"
  /\ mode = "storing" => portal[current] # "none"
  /\ ~Up => /\ mailbox = <<>> /\ events = <<>> /\ portals = {}
            /\ \A c \in Connection : portal[c] # "running"

(* When the await returns, the portal that is about to be stored may have  *)
(* ended, but then its event is still to come.                             *)
StoredOnesAreTracked ==
  mode = "storing" => portal[current] = "running" \/ current \in EndsPending

(* Each connection is asked for once, so its portal starts once, and no    *)
(* earlier than that is it stored, told of or answered for.                *)
Awaits(q, i, c) == q[i].type = "Connected" /\ q[i].connection = c
StartsOnce ==
  /\ \A i \in DOMAIN mailbox, c \in Connection :
       Awaits(mailbox, i, c) => portal[c] = "none" /\ caller[c] # "idle" /\ c # current
  /\ \A i, j \in DOMAIN mailbox, c \in Connection :
       Awaits(mailbox, i, c) /\ Awaits(mailbox, j, c) => i = j
  /\ \A c \in Connection :
       /\ caller[c] = "idle" => portal[c] = "none" /\ c # current
       /\ portal[c] = "none" \/ c = current => c \notin portals /\ caller[c] # "connected"
  /\ \A i \in DOMAIN told : portal[told[i]] # "none" /\ told[i] # current

(* A portal ends once, and its event is for a portal that has ended. *)
EndsOnce ==
  /\ \A i \in DOMAIN events : portal[events[i].portal] = "ended"
  /\ \A i, j \in DOMAIN events : events[i].portal = events[j].portal => i = j

(* The actor that a lookup at position i of the mailbox will find: the one *)
(* last published ahead of it, or the one that the nexus has.              *)
Publishes(q, i, n) == q[i].type = "PublishNamedActor" /\ q[i].name = n
Found(names, q, i, n, a) ==
  \/ \E j \in DOMAIN q : /\ j < i /\ Publishes(q, j, n) /\ q[j].actor = a
                         /\ \A k \in DOMAIN q : j < k /\ k < i => ~Publishes(q, k, n)
  \/ /\ \A j \in DOMAIN q : j < i => ~Publishes(q, j, n)
     /\ a = IF n \in DOMAIN names THEN names[n] ELSE None
LookupsFindLatest ==
  /\ Up => \A n \in Name : Found(named, mailbox, Len(mailbox) + 1, n, latest[n])
  /\ \A i \in DOMAIN mailbox : mailbox[i].type = "QueryNamedActor" =>
       /\ asker[mailbox[i].port].wants = mailbox[i].name
       /\ Found(named, mailbox, i, mailbox[i].name, asker[mailbox[i].port].expects)

(* Who asks for all portals expects some that have started. *)
ExpectedHaveStarted ==
  /\ \A i \in DOMAIN mailbox :
       mailbox[i].type = "GetAllPortals" => asker[mailbox[i].port].wants = "portals"
  /\ \A q \in Asker : asker[q].wants = "portals" =>
       \A c \in asker[q].expects \cup asker[q].got : portal[c] # "none"
=============================================================================
