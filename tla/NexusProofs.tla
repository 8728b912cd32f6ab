----------------------------- MODULE NexusProofs -----------------------------
(***************************************************************************)
(* The nexus of a process, for any number of connections, actors, names    *)
(* and askers: its registry follows the portals, its answers are current,  *)
(* its listener hears of every portal once.                                *)
(***************************************************************************)
EXTENDS Nexus, TLAPS, SequenceTheorems

USE DEF nexusVars, historyVars

(* Queues, position by position: they grow at their end and shrink at      *)
(* their head.                                                             *)

(* What is left of a queue, position by position, when its head is taken. *)
LEMMA TailElements ==
  ASSUME NEW S, NEW q \in Seq(S), q # <<>>
  PROVE  /\ Tail(q) \in Seq(S)
         /\ Len(q) \in Nat /\ Len(q) > 0
         /\ DOMAIN q = 1 .. Len(q)
         /\ 1 \in DOMAIN q /\ Head(q) = q[1] /\ Head(q) \in S
         /\ Len(Tail(q)) = Len(q) - 1
         /\ DOMAIN Tail(q) = 1 .. Len(q) - 1
         /\ \A i \in DOMAIN Tail(q) : /\ i \in Nat /\ i + 1 \in DOMAIN q /\ i + 1 # 1
                                      /\ Tail(q)[i] = q[i + 1] /\ Tail(q)[i] \in S
<1>1. Len(q) \in Nat /\ DOMAIN q = 1 .. Len(q) /\ Len(q) # 0
  BY EmptySeq, LenProperties
<1>2. /\ Tail(q) \in Seq(S)
      /\ Len(Tail(q)) = Len(q) - 1
      /\ \A i \in 1 .. Len(Tail(q)) : Tail(q)[i] = q[i + 1]
  BY HeadTailProperties
<1>3. DOMAIN Tail(q) = 1 .. Len(q) - 1
  BY <1>2, LenProperties
<1>4. Head(q) = q[1] /\ 1 \in DOMAIN q /\ q[1] \in S
  BY <1>1, ElementOfSeq
<1>5. \A i \in DOMAIN Tail(q) : Tail(q)[i] \in S
  BY <1>2, <1>3, ElementOfSeq
<1>. QED
  BY <1>1, <1>2, <1>3, <1>4, <1>5

(* What is in a queue, position by position, when an element of its type   *)
(* is appended.                                                            *)
LEMMA AppendElements ==
  ASSUME NEW S, NEW q \in Seq(S), NEW e \in S
  PROVE  /\ Append(q, e) \in Seq(S)
         /\ Append(q, e) # <<>>
         /\ DOMAIN q = 1 .. Len(q)
         /\ Len(q) \in Nat
         /\ Len(Append(q, e)) = Len(q) + 1
         /\ DOMAIN Append(q, e) = 1 .. Len(q) + 1
         /\ \A i \in DOMAIN q : Append(q, e)[i] = q[i]
         /\ Append(q, e)[Len(q) + 1] = e
<1>1. Len(q) \in Nat /\ DOMAIN q = 1 .. Len(q)
  BY LenProperties
<1>2. /\ Append(q, e) \in Seq(S)
      /\ Append(q, e) # <<>>
      /\ Len(Append(q, e)) = Len(q) + 1
      /\ \A i \in 1 .. Len(q) : Append(q, e)[i] = q[i]
      /\ Append(q, e)[Len(q) + 1] = e
  BY AppendProperties
<1>3. DOMAIN Append(q, e) = 1 .. Len(q) + 1
  BY <1>2, LenProperties
<1>. QED
  BY <1>1, <1>2, <1>3

(* The same, for an element of any type. *)
LEMMA AppendPositions ==
  ASSUME NEW S, NEW q \in Seq(S), NEW e
  PROVE  /\ Append(q, e) # <<>>
         /\ Len(q) \in Nat
         /\ Len(Append(q, e)) = Len(q) + 1
         /\ DOMAIN q = 1 .. Len(q)
         /\ DOMAIN Append(q, e) = 1 .. Len(q) + 1
         /\ DOMAIN Append(q, e) = DOMAIN q \cup {Len(q) + 1}
         /\ Len(q) + 1 \notin DOMAIN q
         /\ \A i \in DOMAIN q : Append(q, e)[i] = q[i] /\ q[i] \in S
         /\ Append(q, e)[Len(q) + 1] = e
<1>1. q \in Seq(S \cup {e})
  BY LenProperties
<1>2. \A i \in DOMAIN q : q[i] \in S
  BY LenProperties, ElementOfSeq
<1>. QED
  BY <1>1, <1>2, AppendElements

(* What stands in a queue is of its type. *)
LEMMA EachElement ==
  ASSUME NEW S, NEW q \in Seq(S)
  PROVE  \A i \in DOMAIN q : q[i] \in S
BY ElementOfSeq, LenProperties

(* A queue that is not there has no positions. *)
LEMMA NoElements ==
  ASSUME NEW S
  PROVE  <<>> \in Seq(S) /\ DOMAIN <<>> = {} /\ Len(<<>>) = 0
BY EmptySeq
-----------------------------------------------------------------------------

(* What each kind of message in the mailbox of the nexus carries           *)
(* (NexusActorMessage, nexus.rs).                                          *)
LEMMA MessageShapes ==
  ASSUME NEW m \in NexusActorMessage
  PROVE  /\ m.type = "Connected" => m.connection \in Connection
         /\ m.type = "GetAllPortals" => m.port \in Asker
         /\ m.type = "PublishNamedActor" => m.name \in Name /\ m.actor \in Actor
         /\ m.type = "QueryNamedActor" => m.name \in Name /\ m.port \in Asker
BY DEF NexusActorMessage

(* Who waits for an answer of the nexus asked for one of its two kinds of  *)
(* knowledge, and what he is told is of that kind.                         *)
LEMMA AskerShapes ==
  ASSUME NEW r \in AskerState
  PROVE  /\ r.wants = "portals" \/ r.wants \in Name \cup {None}
         /\ r.wants = "portals" <=> r.wants \notin Name \cup {None}
         /\ r.wants = "portals" => r.expects \subseteq Connection /\ r.got \subseteq Connection
         /\ r.wants # "portals" => r.expects \in Actor \cup {None} /\ r.got \in Actor \cup {None}
         /\ r.state \in AskerStates
         /\ \A state \in AskerStates : [r EXCEPT !.state = state] \in AskerState
         /\ r.wants = "portals" => \A got \in SUBSET Connection :
              [r EXCEPT !.state = "answered", !.got = got] \in AskerState
         /\ r.wants # "portals" => \A got \in Actor \cup {None} :
              [r EXCEPT !.state = "answered", !.got = got] \in AskerState
<1>1. "portals" \notin Name \cup {None}
  BY NexusAssumption
<1>. QED
  BY <1>1 DEF AskerState, AskerStates
-----------------------------------------------------------------------------
(* Who waits in the mailbox for an actor asked for one, and who waits for  *)
(* the portals asked for them, so each is answered with what it can take.  *)
AskersWant ==
  \A i \in DOMAIN mailbox :
    /\ mailbox[i].type = "QueryNamedActor" => asker[mailbox[i].port].wants = mailbox[i].name
    /\ mailbox[i].type = "GetAllPortals" => asker[mailbox[i].port].wants = "portals"

(* Taking a message off the mailbox of the nexus and casting one to it     *)
(* keep the mailbox typed.                                                 *)
LEMMA MailboxSteps ==
  ASSUME mailbox \in Seq(NexusActorMessage)
  PROVE  /\ mailbox # <<>> => Head(mailbox) \in NexusActorMessage
         /\ mailbox # <<>> /\ Done => mailbox' \in Seq(NexusActorMessage)
         /\ \A m \in NexusActorMessage : Cast(m) => mailbox' \in Seq(NexusActorMessage)
BY TailElements, AppendElements DEF Done, Cast

(* The registry of names stays a map when a name is published, also again. *)
LEMMA NamesAreTyped ==
  ASSUME DOMAIN named \subseteq Name, named \in [DOMAIN named -> Actor],
         NEW n \in Name, NEW a \in Actor, named' = Published(named, n, a)
  PROVE  /\ DOMAIN named' \subseteq Name /\ named' \in [DOMAIN named' -> Actor]
         /\ DOMAIN named' = DOMAIN named \cup {n} /\ named'[n] = a
         /\ \A m \in DOMAIN named : m # n => named'[m] = named[m]
BY DEF Published, Insert

(* What the end of the nexus leaves behind is typed, whatever it failed of. *)
LEMMA FailsTyped ==
  ASSUME TypeOK, NEW why \in {"start", "listener", "gaveup"},
         Fails(why), told' \in Seq(Connection)
  PROVE  TypeOK'
<1>1. portal' \in [Connection -> PortalStates] /\ caller' \in [Connection -> CallerStates]
  BY DEF TypeOK, Fails, Killed, PortalStates, CallerStates
<1>2. asker' \in [Asker -> AskerState]
  BY AskerShapes DEF TypeOK, Fails, Refused, AskerStates
<1>3. mailbox' \in Seq(NexusActorMessage)
  BY NoElements DEF Fails
<1>4. events' \in Seq([type : {"ActorTerminated", "ActorFailed"}, portal : Connection])
  BY NoElements DEF Fails
<1>5. DOMAIN named' \subseteq Name /\ named' \in [DOMAIN named' -> Actor]
  BY DEF Fails, NoNames
<1>. QED
  BY <1>1, <1>2, <1>3, <1>4, <1>5 DEF TypeOK, Fails

(* The handler of Connected, before and after it awaits the portal. *)
LEMMA ConnectedTyped ==
  ASSUME TypeOK, HandlesOne,
         SpawnsPortal \/ PortalStarts \/ StartFails \/ StoresPortal \/ StoreFails
  PROVE  TypeOK'
<1>1. CASE SpawnsPortal
  <2>1. Head(mailbox).connection \in Connection
    BY <1>1, MailboxSteps, MessageShapes DEF TypeOK, SpawnsPortal, Takes
  <2>2. mailbox' \in Seq(NexusActorMessage)
    BY <1>1, MailboxSteps DEF TypeOK, SpawnsPortal, Takes
  <2>. QED
    BY <1>1, <2>1, <2>2 DEF TypeOK, SpawnsPortal
<1>2. CASE PortalStarts
  BY <1>2 DEF TypeOK, PortalStarts, PortalStates
<1>3. CASE StartFails
  BY <1>3, FailsTyped DEF TypeOK, StartFails
<1>4. mode = "storing" => current \in Connection /\ Append(told, current) \in Seq(Connection)
  BY AppendElements DEF HandlesOne, TypeOK
<1>5. CASE StoresPortal
  BY <1>4, <1>5 DEF TypeOK, StoresPortal, Stores, Tells, CallerStates
<1>6. CASE StoreFails
  <2>1. CASE Fails("listener") /\ UNCHANGED told
    BY <2>1, FailsTyped DEF TypeOK
  <2>2. CASE Fails("gaveup") /\ Tells(current)
    BY <1>4, <1>6, <2>2, FailsTyped DEF TypeOK, Tells, StoreFails
  <2>. QED
    BY <1>6, <2>1, <2>2 DEF StoreFails
<1>. QED
  BY <1>1, <1>2, <1>3, <1>5, <1>6

(* The other handlers of the nexus. *)
LEMMA HandlersTyped ==
  ASSUME TypeOK, AskersWant,
         \/ HandleGetAllPortals \/ HandlePublishNamedActor \/ HandleQueryNamedActor
         \/ HandleSupervisorEvt
  PROVE  TypeOK'
<1>1. mailbox # <<>> => /\ Head(mailbox) \in NexusActorMessage
                        /\ Head(mailbox) = mailbox[1] /\ 1 \in DOMAIN mailbox
                        /\ Done => mailbox' \in Seq(NexusActorMessage)
  BY MailboxSteps, TailElements DEF TypeOK
<1>2. CASE HandleGetAllPortals
  <2>. DEFINE q == Head(mailbox).port
  <2>1. q \in Asker /\ asker[q].wants = "portals" /\ asker[q] \in AskerState
    BY <1>1, <1>2, MessageShapes DEF HandleGetAllPortals, Takes, AskersWant, TypeOK
  <2>2. [asker[q] EXCEPT !.state = "answered", !.got = portals] \in AskerState
    BY <2>1, AskerShapes DEF TypeOK
  <2>3. Answers(q, portals) => asker' \in [Asker -> AskerState]
    BY <2>1, <2>2 DEF TypeOK, Answers
  <2>. HIDE DEF q
  <2>4. CASE asker[q].state = "waiting"
    BY <1>1, <1>2, <2>3, <2>4 DEF TypeOK, HandleGetAllPortals, Takes, q
  <2>5. CASE asker[q].state # "waiting"
    BY <1>2, <2>5, FailsTyped DEF TypeOK, HandleGetAllPortals, q
  <2>. QED
    BY <2>4, <2>5
<1>3. CASE HandlePublishNamedActor
  <2>1. Head(mailbox).name \in Name /\ Head(mailbox).actor \in Actor
    BY <1>1, <1>3, MessageShapes DEF HandlePublishNamedActor, Takes
  <2>2. DOMAIN named' \subseteq Name /\ named' \in [DOMAIN named' -> Actor]
    BY <1>3, <2>1, NamesAreTyped DEF TypeOK, HandlePublishNamedActor
  <2>. QED
    BY <1>1, <1>3, <2>2 DEF TypeOK, HandlePublishNamedActor, Takes
<1>4. CASE HandleQueryNamedActor
  <2>. DEFINE m == Head(mailbox)
              got == IF m.name \in DOMAIN named THEN named[m.name] ELSE None
  <2>1. m.port \in Asker /\ m.name \in Name /\ asker[m.port].wants = m.name
    BY <1>1, <1>4, MessageShapes DEF HandleQueryNamedActor, Takes, AskersWant
  <2>2. asker[m.port] \in AskerState /\ asker[m.port].wants # "portals"
    BY <2>1, NexusAssumption DEF TypeOK
  <2>3. got \in Actor \cup {None}
    BY DEF TypeOK
  <2>. HIDE DEF got
  <2>4. [asker[m.port] EXCEPT !.state = "answered", !.got = got] \in AskerState
    BY <2>2, <2>3, AskerShapes
  <2>5. Answers(m.port, got)
    BY <1>4 DEF HandleQueryNamedActor, got
  <2>6. asker' \in [Asker -> AskerState]
    BY <2>1, <2>4, <2>5 DEF TypeOK, Answers
  <2>. QED
    BY <1>1, <1>4, <2>6 DEF TypeOK, HandleQueryNamedActor, Takes
<1>5. CASE HandleSupervisorEvt
  <2>1. events' \in Seq([type : {"ActorTerminated", "ActorFailed"}, portal : Connection])
    BY <1>5, TailElements DEF TypeOK, HandleSupervisorEvt
  <2>. QED
    BY <1>5, <2>1 DEF TypeOK, HandleSupervisorEvt, Removed
<1>. QED
  BY <1>2, <1>3, <1>4, <1>5

(* The tasks that use the nexus. *)
LEMMA UsersTyped ==
  ASSUME TypeOK, Users
  PROVE  TypeOK'
<1>0. mailbox \in Seq(NexusActorMessage) /\ asker \in [Asker -> AskerState]
  BY DEF TypeOK
<1>1. ASSUME NEW c \in Connection, AppConnects(c)
      PROVE  TypeOK'
  <2>1. [type |-> "Connected", connection |-> c] \in NexusActorMessage
    BY DEF NexusActorMessage
  <2>2. mailbox' \in Seq(NexusActorMessage)
    BY <1>0, <1>1, <2>1, MailboxSteps DEF AppConnects
  <2>. QED
    BY <1>1, <2>2 DEF TypeOK, AppConnects, CallerStates
<1>2. ASSUME NEW c \in Connection, CallerGivesUp(c)
      PROVE  TypeOK'
  BY <1>2 DEF TypeOK, CallerGivesUp, CallerStates
<1>3. ASSUME NEW c \in Connection, PortalEnds(c)
      PROVE  TypeOK'
  <2>1. \A type \in {"ActorTerminated", "ActorFailed"} :
          Append(events, [type |-> type, portal |-> c])
            \in Seq([type : {"ActorTerminated", "ActorFailed"}, portal : Connection])
    BY AppendElements DEF TypeOK
  <2>. QED
    BY <1>3, <2>1 DEF TypeOK, PortalEnds, PortalStates
<1>4. ASSUME NEW n \in Name, NEW a \in Actor, AppPublishes(n, a)
      PROVE  TypeOK'
  <2>1. [type |-> "PublishNamedActor", name |-> n, actor |-> a] \in NexusActorMessage
    BY DEF NexusActorMessage
  <2>2. mailbox' \in Seq(NexusActorMessage)
    BY <1>0, <1>4, <2>1, MailboxSteps DEF AppPublishes
  <2>3. publications + 1 \in 0 .. MaxPublished
    BY <1>4, NexusAssumption DEF TypeOK, AppPublishes
  <2>. QED
    BY <1>4, <2>2, <2>3 DEF TypeOK, AppPublishes
<1>5. ASSUME NEW q \in Asker, AppAsksPortals(q)
      PROVE  TypeOK'
  <2>1. [type |-> "GetAllPortals", port |-> q] \in NexusActorMessage
    BY DEF NexusActorMessage
  <2>2. mailbox' \in Seq(NexusActorMessage)
    BY <1>0, <1>5, <2>1, MailboxSteps DEF AppAsksPortals, Asks
  <2>3. [state |-> "waiting", wants |-> "portals", expects |-> Connected, got |-> {}] \in AskerState
    BY DEF AskerState, AskerStates, Connected
  <2>4. asker' \in [Asker -> AskerState]
    BY <1>0, <1>5, <2>3 DEF AppAsksPortals, Asks
  <2>. QED
    BY <1>5, <2>2, <2>4 DEF TypeOK, AppAsksPortals, Asks
<1>6. ASSUME NEW q \in Asker, AskerGivesUp(q)
      PROVE  TypeOK'
  <2>1. asker' \in [Asker -> AskerState]
    BY <1>0, <1>6, AskerShapes DEF AskerGivesUp, AskerStates
  <2>. QED
    BY <1>6, <2>1 DEF TypeOK, AskerGivesUp
<1>7. ASSUME NEW q \in Asker, NEW n \in Name, PortalLooksUp(q, n)
      PROVE  TypeOK'
  <2>1. [type |-> "QueryNamedActor", name |-> n, port |-> q] \in NexusActorMessage
    BY DEF NexusActorMessage
  <2>2. mailbox' \in Seq(NexusActorMessage)
    BY <1>0, <1>7, <2>1, MailboxSteps DEF PortalLooksUp, Asks
  <2>3. [state |-> "waiting", wants |-> n, expects |-> latest[n], got |-> None] \in AskerState
    BY DEF AskerState, AskerStates, TypeOK
  <2>4. asker' \in [Asker -> AskerState]
    BY <1>0, <1>7, <2>3, NexusAssumption DEF PortalLooksUp, Asks
  <2>. QED
    BY <1>7, <2>2, <2>4 DEF TypeOK, PortalLooksUp, Asks
<1>8. CASE ListenerStops
  BY <1>8 DEF TypeOK, ListenerStops
<1>. QED
  BY <1>1, <1>2, <1>3, <1>4, <1>5, <1>6, <1>7, <1>8 DEF Users

(* In the first state there is nothing yet. *)
LEMMA InitTyped == Init => TypeOK
<1>. SUFFICES ASSUME Init PROVE TypeOK
  OBVIOUS
<1>1. IdleAsker \in AskerState
  BY DEF IdleAsker, AskerState, AskerStates
<1>2. <<>> \in Seq(NexusActorMessage) /\ <<>> \in Seq(Connection)
      /\ <<>> \in Seq([type : {"ActorTerminated", "ActorFailed"}, portal : Connection])
  BY NoElements
<1>. QED
  BY <1>1, <1>2, NexusAssumption DEF Init, TypeOK, NoNames, PortalStates, CallerStates

(* So every step of the nexus and of its users keeps the types. *)
LEMMA NextTyped ==
  ASSUME TypeOK, HandlesOne, AskersWant, [Next]_vars
  PROVE  TypeOK'
<1>1. CASE UNCHANGED vars
  BY <1>1 DEF vars, TypeOK
<1>2. CASE Next
  BY <1>2, ConnectedTyped, HandlersTyped, UsersTyped DEF Next, NexusStep
<1>. QED
  BY <1>1, <1>2
-----------------------------------------------------------------------------
(* The life of a portal, from the message that asks for it to its event.   *)
Lives == HandlesOne /\ StartsOnce /\ EndsOnce

(* A step that keeps the lives of the portals, the callers and the         *)
(* registry keeps StartsOnce, as long as no connection is asked for.       *)
LEMMA StartsOnceFrame ==
  ASSUME TypeOK, StartsOnce,
         UNCHANGED <<portal, caller, current, told, portals>>,
         \/ UNCHANGED mailbox
         \/ mailbox # <<>> /\ Done
         \/ mailbox' = <<>>
         \/ \E m \in NexusActorMessage : m.type # "Connected" /\ Cast(m)
  PROVE  StartsOnce'
<1>. DEFINE Queued(q) ==
              /\ \A i \in DOMAIN q, c \in Connection :
                   Awaits(q, i, c) => portal[c] = "none" /\ caller[c] # "idle" /\ c # current
              /\ \A i, j \in DOMAIN q, c \in Connection :
                   Awaits(q, i, c) /\ Awaits(q, j, c) => i = j
<1>0. mailbox \in Seq(NexusActorMessage) /\ Queued(mailbox)
  BY DEF TypeOK, StartsOnce
<1>1. ASSUME mailbox # <<>>, Done
      PROVE  Queued(mailbox')
  <2>1. \A i \in DOMAIN Tail(mailbox) : i \in Int /\ i + 1 \in DOMAIN mailbox
                                       /\ Tail(mailbox)[i] = mailbox[i + 1]
    BY <1>0, <1>1, TailElements
  <2>2. \A i, j \in DOMAIN Tail(mailbox) : i + 1 = j + 1 => i = j
    BY <2>1
  <2>. QED
    BY <1>0, <1>1, <2>1, <2>2 DEF Done, Awaits
<1>2. ASSUME NEW m \in NexusActorMessage, m.type # "Connected", Cast(m)
      PROVE  Queued(mailbox')
  <2>1. \A i \in DOMAIN Append(mailbox, m), c \in Connection :
          Awaits(Append(mailbox, m), i, c) => i \in DOMAIN mailbox /\ Awaits(mailbox, i, c)
    BY <1>0, <1>2, AppendElements DEF Awaits
  <2>. QED
    BY <1>0, <1>2, <2>1 DEF Cast
<1>3. Queued(<<>>)
  OBVIOUS
<1>4. Queued(mailbox')
  BY <1>0, <1>1, <1>2, <1>3
<1>. QED
  BY <1>4 DEF StartsOnce

(* Taking an event off the queue, and adding that of a portal that was     *)
(* still running, keep the events apart.                                   *)
LEMMA EventSteps ==
  ASSUME TypeOK, EndsOnce
  PROVE  /\ UNCHANGED <<events, portal>> => EndsOnce'
         /\ events # <<>> /\ events' = Tail(events) /\ UNCHANGED portal => EndsOnce'
         /\ \A c \in Connection : PortalEnds(c) => EndsOnce'
<1>0. events \in Seq([type : {"ActorTerminated", "ActorFailed"}, portal : Connection])
  BY DEF TypeOK
<1>1. ASSUME events # <<>>, events' = Tail(events), UNCHANGED portal
      PROVE  EndsOnce'
  <2>1. \A i \in DOMAIN Tail(events) : i \in Int /\ i + 1 \in DOMAIN events
                                      /\ Tail(events)[i] = events[i + 1]
    BY <1>0, <1>1, TailElements
  <2>2. \A i, j \in DOMAIN Tail(events) : i + 1 = j + 1 => i = j
    BY <2>1
  <2>. QED
    BY <1>1, <2>1, <2>2 DEF EndsOnce
<1>2. ASSUME NEW c \in Connection, PortalEnds(c)
      PROVE  EndsOnce'
  <2>1. PICK type \in {"ActorTerminated", "ActorFailed"} :
          events' = Append(events, [type |-> type, portal |-> c])
    BY <1>2 DEF PortalEnds
  <2>. DEFINE e == [type |-> type, portal |-> c]
  <2>. HIDE DEF e
  <2>2. /\ DOMAIN events' = DOMAIN events \cup {Len(events) + 1}
        /\ \A i \in DOMAIN events : events'[i] = events[i]
        /\ events'[Len(events) + 1] = e /\ e.portal = c
    <3>1. events' = Append(events, e) /\ e.portal = c
      BY <2>1 DEF e
    <3>. QED
      BY <1>0, <3>1, AppendPositions
  <2>3. \A i \in DOMAIN events : events[i].portal # c
    BY <1>2 DEF PortalEnds, EndsOnce
  <2>. QED
    BY <1>2, <2>2, <2>3 DEF PortalEnds, EndsOnce, TypeOK
<1>. QED
  BY <1>1, <1>2 DEF EndsOnce

(* The end of the nexus leaves no message, no event and no running portal. *)
LEMMA FailsLives ==
  ASSUME TypeOK, Lives, NEW why, Fails(why), UNCHANGED told \/ Tells(current),
         mode = "storing" \/ UNCHANGED told
  PROVE  Lives'
<1>1. DOMAIN mailbox' = {} /\ DOMAIN events' = {}
  BY NoElements DEF Fails
<1>2. HandlesOne'
  BY <1>1 DEF TypeOK, Fails, Killed, HandlesOne, Up
<1>3. EndsOnce'
  BY <1>1 DEF EndsOnce
<1>4. \A c \in Connection : /\ portal'[c] = "none" <=> portal[c] = "none"
                            /\ caller'[c] = "idle" <=> caller[c] = "idle"
                            /\ caller'[c] = "connected" => caller[c] = "connected"
                            /\ c # current' /\ c \notin portals'
  BY NexusAssumption DEF TypeOK, Fails, Killed
<1>5. \A i \in DOMAIN told' : portal[told'[i]] # "none" /\ told'[i] \in Connection
  <2>1. CASE UNCHANGED told
    BY <2>1, ElementOfSeq DEF Lives, StartsOnce, TypeOK
  <2>2. CASE mode = "storing" /\ told' = Append(told, current)
    <3>1. portal[current] # "none" /\ current \in Connection
      BY <2>2 DEF Lives, HandlesOne, TypeOK
    <3>2. told \in Seq(Connection)
      BY DEF TypeOK
    <3>3. \A i \in DOMAIN told' : told'[i] = current \/ (i \in DOMAIN told /\ told'[i] = told[i])
      BY <2>2, <3>1, <3>2, AppendPositions
    <3>. QED
      BY <3>1, <3>2, <3>3, ElementOfSeq DEF Lives, StartsOnce
  <2>. QED
    BY <2>1, <2>2 DEF Tells
<1>6. StartsOnce'
  BY <1>1, <1>4, <1>5 DEF Lives, StartsOnce
<1>. QED
  BY <1>2, <1>3, <1>6 DEF Lives

(* A step that starts no portal keeps the connection that is handled. *)
LEMMA HandlesOneFrame ==
  ASSUME TypeOK, HandlesOne, UNCHANGED <<mode, current>>,
         \A c \in Connection : portal'[c] = "none" <=> portal[c] = "none",
         Up \/ UNCHANGED <<mailbox, events, portals, portal>>
  PROVE  HandlesOne'
BY DEF TypeOK, HandlesOne, Up

(* The handler of Connected takes a connection whose portal has not run,   *)
(* awaits its start, and stores it, tells of it and answers once.          *)
LEMMA ConnectedLives ==
  ASSUME TypeOK, Lives,
         SpawnsPortal \/ PortalStarts \/ StartFails \/ StoresPortal \/ StoreFails
  PROVE  Lives'
<1>0. mailbox \in Seq(NexusActorMessage) /\ told \in Seq(Connection)
      /\ portal \in [Connection -> PortalStates] /\ caller \in [Connection -> CallerStates]
  BY DEF TypeOK
<1>1. CASE SpawnsPortal
  <2>. DEFINE c == Head(mailbox).connection
  <2>1. /\ c \in Connection /\ c # None
        /\ 1 \in DOMAIN mailbox /\ Awaits(mailbox, 1, c)
    BY <1>0, <1>1, TailElements, MailboxSteps, MessageShapes, NexusAssumption
       DEF SpawnsPortal, Takes, Awaits
  <2>2. portal[c] = "none" /\ caller[c] # "idle"
    BY <2>1 DEF Lives, StartsOnce
  <2>3. current' = c /\ current = None /\ mode' = "starting" /\ Up /\ Up'
        /\ UNCHANGED <<portal, caller, portals, told, events>>
    BY <1>1 DEF SpawnsPortal, Takes, Lives, HandlesOne, Up
  <2>. HIDE DEF c
  <2>4. HandlesOne'
    BY <2>1, <2>2, <2>3 DEF HandlesOne
  <2>5. \A i \in DOMAIN mailbox' : /\ i \in Nat /\ i + 1 \in DOMAIN mailbox /\ i + 1 # 1
                                   /\ mailbox'[i] = mailbox[i + 1]
    BY <1>0, <1>1, TailElements DEF SpawnsPortal, Takes, Done
  <2>6. \A i \in DOMAIN mailbox' : ~Awaits(mailbox', i, c)
    BY <2>1, <2>5 DEF Lives, StartsOnce, Awaits
  <2>7. \A i, j \in DOMAIN mailbox' : i + 1 = j + 1 => i = j
    BY <2>5
  <2>8. \A i \in DOMAIN told : told[i] # c
    BY <2>2 DEF Lives, StartsOnce
  <2>9. StartsOnce'
    BY <2>1, <2>2, <2>3, <2>5, <2>6, <2>7, <2>8 DEF Lives, StartsOnce, Awaits
  <2>. QED
    BY <2>3, <2>4, <2>9, EventSteps DEF Lives
<1>2. CASE PortalStarts
  <2>1. /\ current \in Connection /\ current # None /\ portal[current] = "none"
        /\ portal' = [portal EXCEPT ![current] = "running"]
        /\ mode' = "storing" /\ Up
        /\ UNCHANGED <<current, mailbox, caller, portals, told, events>>
    BY <1>2 DEF PortalStarts, Lives, HandlesOne, TypeOK, Up
  <2>2. HandlesOne'
    BY <1>0, <2>1 DEF Lives, HandlesOne, Up
  <2>3. StartsOnce'
    BY <1>0, <2>1, ElementOfSeq DEF Lives, StartsOnce
  <2>4. EndsOnce'
    BY <1>0, <2>1 DEF Lives, EndsOnce
  <2>. QED
    BY <2>2, <2>3, <2>4 DEF Lives
<1>3. CASE StartFails
  BY <1>3, FailsLives DEF StartFails
<1>4. CASE StoresPortal
  <2>1. /\ current \in Connection /\ portal[current] # "none" /\ caller[current] = "waiting"
        /\ caller' = [caller EXCEPT ![current] = "connected"]
        /\ portals' = portals \cup {current}
        /\ mode' = "idle" /\ current' = None /\ Up
        /\ UNCHANGED <<mailbox, portal, events>>
    BY <1>4 DEF StoresPortal, Stores, Lives, HandlesOne, TypeOK, Up
  <2>2. HandlesOne'
    BY <2>1 DEF Lives, HandlesOne, Up
  <2>3. \A i \in DOMAIN told' : told'[i] = current \/ (i \in DOMAIN told /\ told'[i] = told[i])
    BY <1>0, <1>4, <2>1, AppendElements DEF StoresPortal, Tells
  <2>4. \A i \in DOMAIN told' : portal[told'[i]] # "none" /\ told'[i] \in Connection
    BY <1>0, <2>1, <2>3, ElementOfSeq DEF Lives, StartsOnce
  <2>5. \A c \in Connection : c # None
    BY NexusAssumption
  <2>6. StartsOnce'
    BY <1>0, <2>1, <2>4, <2>5 DEF Lives, StartsOnce
  <2>. QED
    BY <2>1, <2>2, <2>6, EventSteps DEF Lives
<1>5. CASE StoreFails
  BY <1>5, FailsLives DEF StoreFails
<1>. QED
  BY <1>1, <1>2, <1>3, <1>4, <1>5

(* No other handler starts, tells of or stores a portal. *)
LEMMA HandlersLive ==
  ASSUME TypeOK, Lives,
         \/ HandleGetAllPortals \/ HandlePublishNamedActor \/ HandleQueryNamedActor
         \/ HandleSupervisorEvt
  PROVE  Lives'
<1>1. ASSUME mailbox # <<>>, Done, mode = "idle",
             UNCHANGED <<mode, current, portals, events, portal, caller, told>>
      PROVE  Lives'
  <2>1. HandlesOne'
    BY <1>1, HandlesOneFrame DEF Lives, Up
  <2>2. StartsOnce'
    BY <1>1, StartsOnceFrame DEF Lives
  <2>. QED
    BY <1>1, <2>1, <2>2, EventSteps DEF Lives
<1>2. CASE HandleGetAllPortals
  <2>1. CASE asker[Head(mailbox).port].state = "waiting"
    BY <1>1, <1>2, <2>1 DEF HandleGetAllPortals, Takes
  <2>2. CASE asker[Head(mailbox).port].state # "waiting"
    BY <1>2, <2>2, FailsLives DEF HandleGetAllPortals
  <2>. QED
    BY <2>1, <2>2
<1>3. CASE HandlePublishNamedActor
  BY <1>1, <1>3 DEF HandlePublishNamedActor, Takes
<1>4. CASE HandleQueryNamedActor
  BY <1>1, <1>4 DEF HandleQueryNamedActor, Takes
<1>5. CASE HandleSupervisorEvt
  <2>1. HandlesOne'
    BY <1>5, HandlesOneFrame DEF Lives, Up, HandleSupervisorEvt
  <2>2. StartsOnce'
    BY <1>5 DEF Lives, HandleSupervisorEvt, StartsOnce
  <2>3. EndsOnce'
    BY <1>5, EventSteps DEF Lives, HandleSupervisorEvt
  <2>. QED
    BY <2>1, <2>2, <2>3 DEF Lives
<1>. QED
  BY <1>2, <1>3, <1>4, <1>5

(* The tasks that use the nexus ask for a connection once each, and a      *)
(* portal that ends has been running.                                      *)
LEMMA UsersLive ==
  ASSUME TypeOK, Lives, Users
  PROVE  Lives'
<1>0. /\ mailbox \in Seq(NexusActorMessage)
      /\ portal \in [Connection -> PortalStates] /\ caller \in [Connection -> CallerStates]
      /\ HandlesOne /\ StartsOnce /\ EndsOnce
  BY DEF TypeOK, Lives
<1>1. ASSUME NEW c \in Connection, AppConnects(c)
      PROVE  Lives'
  <2>1. HandlesOne'
    BY <1>0, <1>1, HandlesOneFrame DEF AppConnects
  <2>2. EndsOnce'
    BY <1>0, <1>1, EventSteps DEF AppConnects
  <2>3. /\ caller[c] = "idle" /\ caller'[c] # "idle" /\ caller'[c] # "connected"
        /\ \A d \in Connection : d # c => caller'[d] = caller[d]
        /\ UNCHANGED <<portal, current, portals, told>>
    BY <1>0, <1>1 DEF AppConnects
  <2>4. CASE Up
    <3>. DEFINE m == [type |-> "Connected", connection |-> c]
    <3>1. mailbox' = Append(mailbox, m) /\ m.connection = c
      BY <1>1, <2>4 DEF AppConnects, Cast
    <3>. HIDE DEF m
    <3>2. /\ DOMAIN mailbox' = DOMAIN mailbox \cup {Len(mailbox) + 1}
          /\ \A i \in DOMAIN mailbox : mailbox'[i] = mailbox[i]
          /\ mailbox'[Len(mailbox) + 1] = m
      BY <1>0, <3>1, AppendPositions
    <3>3. portal[c] = "none" /\ c # current
          /\ \A i \in DOMAIN mailbox : ~Awaits(mailbox, i, c)
      BY <1>0, <2>3 DEF StartsOnce
    <3>4. \A i \in DOMAIN mailbox', d \in Connection :
            Awaits(mailbox', i, d) => \/ i \in DOMAIN mailbox /\ Awaits(mailbox, i, d) /\ d # c
                                      \/ i = Len(mailbox) + 1 /\ d = c
      BY <3>1, <3>2, <3>3 DEF Awaits
    <3>. QED
      BY <1>0, <2>1, <2>2, <2>3, <3>3, <3>4 DEF Lives, StartsOnce
  <2>5. CASE ~Up
    <3>1. UNCHANGED mailbox
      BY <1>1, <2>5 DEF AppConnects
    <3>. QED
      BY <1>0, <2>1, <2>2, <2>3, <3>1 DEF Lives, StartsOnce, Awaits
  <2>. QED
    BY <2>4, <2>5
<1>2. ASSUME NEW c \in Connection, CallerGivesUp(c)
      PROVE  Lives'
  <2>1. HandlesOne' /\ EndsOnce'
    BY <1>0, <1>2, HandlesOneFrame, EventSteps DEF CallerGivesUp
  <2>2. StartsOnce'
    BY <1>0, <1>2 DEF CallerGivesUp, StartsOnce, Awaits
  <2>. QED
    BY <2>1, <2>2 DEF Lives
<1>3. ASSUME NEW c \in Connection, PortalEnds(c)
      PROVE  Lives'
  <2>1. /\ \A d \in Connection : portal'[d] = "none" <=> portal[d] = "none"
        /\ UNCHANGED <<mode, current, portals, mailbox, caller, told>> /\ Up
    BY <1>0, <1>3 DEF PortalEnds, HandlesOne
  <2>2. HandlesOne' /\ EndsOnce'
    BY <1>0, <1>3, <2>1, HandlesOneFrame, EventSteps
  <2>3. StartsOnce'
    BY <1>0, <2>1, ElementOfSeq DEF StartsOnce, Awaits, TypeOK
  <2>. QED
    BY <2>2, <2>3 DEF Lives
<1>4. ASSUME NEW m \in NexusActorMessage, m.type # "Connected", Cast(m), Up,
             UNCHANGED <<mode, current, portals, events, portal, caller, told>>
      PROVE  Lives'
  BY <1>0, <1>4, HandlesOneFrame, EventSteps, StartsOnceFrame DEF Lives
<1>5. ASSUME NEW n \in Name, NEW a \in Actor, AppPublishes(n, a)
      PROVE  Lives'
  <2>1. [type |-> "PublishNamedActor", name |-> n, actor |-> a] \in NexusActorMessage
    BY DEF NexusActorMessage
  <2>. QED
    BY <1>4, <1>5, <2>1 DEF AppPublishes
<1>6. ASSUME NEW q \in Asker, AppAsksPortals(q)
      PROVE  Lives'
  <2>1. [type |-> "GetAllPortals", port |-> q] \in NexusActorMessage
    BY DEF NexusActorMessage
  <2>. QED
    BY <1>4, <1>6, <2>1 DEF AppAsksPortals, Asks
<1>7. ASSUME NEW q \in Asker, NEW n \in Name, PortalLooksUp(q, n)
      PROVE  Lives'
  <2>1. [type |-> "QueryNamedActor", name |-> n, port |-> q] \in NexusActorMessage
    BY DEF NexusActorMessage
  <2>. QED
    BY <1>4, <1>7, <2>1 DEF PortalLooksUp, Asks
<1>8. ASSUME (\E q \in Asker : AskerGivesUp(q)) \/ ListenerStops
      PROVE  Lives'
  <2>1. UNCHANGED <<nexusVars, mailbox, events, portal, caller, told>>
    BY <1>8 DEF AskerGivesUp, ListenerStops
  <2>. QED
    BY <1>0, <2>1, HandlesOneFrame, EventSteps, StartsOnceFrame DEF Lives
<1>. QED
  BY <1>1, <1>2, <1>3, <1>5, <1>6, <1>7, <1>8 DEF Users

(* In the first state no connection has been asked for. *)
LEMMA InitLives == Init => Lives
<1>1. DOMAIN <<>> = {}
  OBVIOUS
<1>. QED
  BY <1>1, NexusAssumption DEF Init, Lives, HandlesOne, StartsOnce, EndsOnce, Up

(* So every step keeps the lives of the portals in order. *)
LEMMA NextLives ==
  ASSUME TypeOK, Lives, [Next]_vars
  PROVE  Lives'
<1>1. CASE UNCHANGED vars
  BY <1>1 DEF vars, Lives, HandlesOne, StartsOnce, EndsOnce, Up, Awaits
<1>2. CASE Next
  BY <1>2, ConnectedLives, HandlersLive, UsersLive DEF Next, NexusStep
<1>. QED
  BY <1>1, <1>2
-----------------------------------------------------------------------------
(* The registry *)
Tracks == RegistryTracksPortals /\ StoredOnesAreTracked

(* Each event that waits is of a connection, and only the one at the head  *)
(* leaves the queue.                                                       *)
LEMMA PendingSteps ==
  ASSUME TypeOK, EndsOnce
  PROVE  /\ EndsPending \subseteq Connection
         /\ events # <<>> /\ events' = Tail(events)
              => EndsPending' = EndsPending \ {Head(events).portal}
         /\ \A c \in Connection : PortalEnds(c) => EndsPending' = EndsPending \cup {c}
<1>0. events \in Seq([type : {"ActorTerminated", "ActorFailed"}, portal : Connection])
  BY DEF TypeOK
<1>1. EndsPending \subseteq Connection
  <2>. SUFFICES ASSUME NEW i \in DOMAIN events PROVE events[i].portal \in Connection
    BY DEF EndsPending
  <2>1. events[i] \in [type : {"ActorTerminated", "ActorFailed"}, portal : Connection]
    BY <1>0, EachElement
  <2>. QED
    BY <2>1
<1>2. ASSUME events # <<>>, events' = Tail(events)
      PROVE  EndsPending' = EndsPending \ {Head(events).portal}
  <2>1. /\ 1 \in DOMAIN events /\ Head(events) = events[1]
        /\ DOMAIN events = 1 .. Len(events) /\ Len(events) \in Nat
        /\ DOMAIN events' = 1 .. Len(events) - 1
        /\ \A i \in DOMAIN events' : /\ i \in Nat /\ i + 1 \in DOMAIN events /\ i + 1 # 1
                                     /\ events'[i] = events[i + 1]
    BY <1>0, <1>2, TailElements
  <2>2. \A i \in DOMAIN events : i # 1 => i - 1 \in DOMAIN events' /\ events'[i - 1] = events[i]
    <3>. SUFFICES ASSUME NEW i \in DOMAIN events, i # 1
                  PROVE  i - 1 \in DOMAIN events' /\ events'[i - 1] = events[i]
      OBVIOUS
    <3>1. i - 1 \in DOMAIN events' /\ i = (i - 1) + 1
      BY <2>1
    <3>. QED
      BY <2>1, <3>1
  <2>3. \A i \in DOMAIN events : i # 1 <=> events[i].portal # events[1].portal
    BY <2>1 DEF EndsOnce
  <2>. QED
    BY <2>1, <2>2, <2>3 DEF EndsPending
<1>3. ASSUME NEW c \in Connection, PortalEnds(c)
      PROVE  EndsPending' = EndsPending \cup {c}
  <2>1. PICK type \in {"ActorTerminated", "ActorFailed"} :
          events' = Append(events, [type |-> type, portal |-> c])
    BY <1>3 DEF PortalEnds
  <2>. DEFINE e == [type |-> type, portal |-> c]
  <2>2. events' = Append(events, e) /\ e.portal = c
    BY <2>1
  <2>. HIDE DEF e
  <2>3. /\ DOMAIN events' = DOMAIN events \cup {Len(events) + 1}
        /\ \A i \in DOMAIN events : events'[i] = events[i] /\ i # Len(events) + 1
        /\ events'[Len(events) + 1] = e
    BY <1>0, <2>2, AppendPositions
  <2>. QED
    BY <2>2, <2>3 DEF EndsPending
<1>. QED
  BY <1>1, <1>2, <1>3

(* Every step keeps track of the portals. *)
LEMMA NextTracks ==
  ASSUME TypeOK, Lives, Tracks, [Next]_vars
  PROVE  Tracks'
<1>0. /\ portal \in [Connection -> PortalStates] /\ portals \subseteq Connection
      /\ EndsPending \subseteq Connection
      /\ \A c \in EndsPending : portal[c] = "ended"
      /\ current = None => \A c \in Connection : c # current
  BY PendingSteps, NexusAssumption DEF TypeOK, Lives, EndsOnce, EndsPending
<1>1. ASSUME UNCHANGED <<mode, current, portals, events, portal>>
      PROVE  Tracks'
  BY <1>1 DEF Tracks, RegistryTracksPortals, StoredOnesAreTracked, EndsPending, Up
<1>2. ASSUME NEW why, Fails(why)
      PROVE  Tracks'
  BY <1>2 DEF Fails, Tracks, RegistryTracksPortals, StoredOnesAreTracked, Up
<1>3. CASE SpawnsPortal
  <2>1. current = None /\ mode' = "starting" /\ Up /\ EndsPending' = EndsPending
        /\ UNCHANGED <<portals, portal>>
    BY <1>3 DEF SpawnsPortal, Takes, Up, EndsPending, Lives, HandlesOne
  <2>. QED
    BY <1>0, <2>1 DEF Tracks, RegistryTracksPortals, StoredOnesAreTracked
<1>4. CASE PortalStarts
  <2>1. /\ current \in Connection /\ Up /\ EndsPending' = EndsPending
        /\ portal' = [portal EXCEPT ![current] = "running"]
        /\ portal[current] = "none" /\ current \notin portals
        /\ UNCHANGED <<portals, current>>
    BY <1>4 DEF PortalStarts, Up, EndsPending, Lives, HandlesOne, StartsOnce, TypeOK
  <2>. QED
    BY <1>0, <2>1 DEF Tracks, RegistryTracksPortals, StoredOnesAreTracked
<1>5. CASE StartFails
  BY <1>2, <1>5 DEF StartFails
<1>6. CASE StoresPortal
  <2>1. /\ current \in Connection /\ Up /\ EndsPending' = EndsPending
        /\ portals' = portals \cup {current} /\ current' = None /\ mode' = "idle"
        /\ mode = "storing"
        /\ UNCHANGED portal
    BY <1>6 DEF StoresPortal, Stores, Up, EndsPending, Lives, HandlesOne, TypeOK
  <2>. QED
    BY <1>0, <2>1 DEF Tracks, RegistryTracksPortals, StoredOnesAreTracked
<1>7. CASE StoreFails
  BY <1>2, <1>7 DEF StoreFails
<1>8. CASE HandleGetAllPortals
  <2>1. CASE asker[Head(mailbox).port].state = "waiting"
    BY <1>1, <1>8, <2>1 DEF HandleGetAllPortals
  <2>2. CASE asker[Head(mailbox).port].state # "waiting"
    BY <1>2, <1>8, <2>2 DEF HandleGetAllPortals
  <2>. QED
    BY <2>1, <2>2
<1>9. CASE HandlePublishNamedActor \/ HandleQueryNamedActor
  BY <1>1, <1>9 DEF HandlePublishNamedActor, HandleQueryNamedActor
<1>10. CASE HandleSupervisorEvt
  <2>1. /\ portals' = portals \ {Head(events).portal}
        /\ EndsPending' = EndsPending \ {Head(events).portal}
        /\ Head(events).portal \in EndsPending
        /\ current = None /\ mode = "idle" /\ Up
        /\ UNCHANGED <<mode, current, portal>>
    <3>1. 1 \in DOMAIN events /\ Head(events) = events[1]
      BY <1>10, TailElements DEF HandleSupervisorEvt, TypeOK
    <3>. QED
      BY <1>10, <3>1, PendingSteps
         DEF HandleSupervisorEvt, Removed, Lives, HandlesOne, Up, EndsPending
  <2>. QED
    BY <1>0, <2>1 DEF Tracks, RegistryTracksPortals, StoredOnesAreTracked, Up
<1>11. ASSUME NEW c \in Connection, PortalEnds(c)
       PROVE  Tracks'
  <2>1. /\ EndsPending' = EndsPending \cup {c}
        /\ portal[c] = "running" /\ portal' = [portal EXCEPT ![c] = "ended"]
        /\ UNCHANGED <<mode, current, portals>> /\ Up
    BY <1>11, PendingSteps DEF PortalEnds, Lives, HandlesOne
  <2>. QED
    BY <1>0, <2>1 DEF Tracks, RegistryTracksPortals, StoredOnesAreTracked, Up, Lives, HandlesOne
<1>12. ASSUME NEW c \in Connection, AppConnects(c) \/ CallerGivesUp(c)
       PROVE  Tracks'
  BY <1>1, <1>12 DEF AppConnects, CallerGivesUp
<1>13. ASSUME NEW n \in Name, NEW a \in Actor, AppPublishes(n, a)
       PROVE  Tracks'
  BY <1>1, <1>13 DEF AppPublishes
<1>14. ASSUME NEW q \in Asker, AppAsksPortals(q) \/ AskerGivesUp(q)
       PROVE  Tracks'
  BY <1>1, <1>14 DEF AppAsksPortals, AskerGivesUp, Asks
<1>15. ASSUME NEW q \in Asker, NEW n \in Name, PortalLooksUp(q, n)
       PROVE  Tracks'
  BY <1>1, <1>15 DEF PortalLooksUp, Asks
<1>16. CASE ListenerStops \/ UNCHANGED vars
  BY <1>1, <1>16 DEF ListenerStops, vars
<1>. QED
  BY <1>3, <1>4, <1>5, <1>6, <1>7, <1>8, <1>9, <1>10, <1>11, <1>12, <1>13, <1>14, <1>15, <1>16
     DEF Next, NexusStep, Users
-----------------------------------------------------------------------------
(* The listener *)
ListenerInv == ListenerHearsOnce /\ (HasListener => listener # "none")

(* A connection is told of when its portal is stored, which is once, and   *)
(* before its caller is answered.                                          *)
LEMMA NextTells ==
  ASSUME TypeOK, Lives, ListenerInv, [Next]_vars
  PROVE  ListenerInv'
<1>0. /\ told \in Seq(Connection) /\ portal \in [Connection -> PortalStates]
      /\ caller \in [Connection -> CallerStates]
      /\ \A i \in DOMAIN told : told[i] \in Connection
      /\ \A i \in DOMAIN told : told[i] # current /\ portal[told[i]] # "none"
  BY EachElement DEF TypeOK, Lives, StartsOnce
<1>1. ASSUME UNCHANGED <<told, listener>>,
             \A c \in Connection : /\ caller'[c] = "connected" => caller[c] = "connected"
                                   /\ portal[c] # "none" => portal'[c] # "none"
      PROVE  ListenerInv'
  BY <1>0, <1>1 DEF ListenerInv, ListenerHearsOnce
<1>2. ASSUME mode = "storing", listener # "stopped", Tells(current), UNCHANGED listener,
             \A c \in Connection :
               /\ caller'[c] = "connected" => caller[c] = "connected" \/ c = current
               /\ portal[c] # "none" => portal'[c] # "none"
      PROVE  ListenerInv'
  <2>1. current \in Connection /\ portal[current] # "none"
    BY <1>2 DEF Lives, HandlesOne, TypeOK
  <2>2. CASE listener = "running"
    <3>1. /\ DOMAIN told' = DOMAIN told \cup {Len(told) + 1}
          /\ \A i \in DOMAIN told : told'[i] = told[i]
          /\ told'[Len(told) + 1] = current
      BY <1>0, <1>2, <2>2, AppendPositions DEF Tells
    <3>. QED
      BY <1>0, <1>2, <2>1, <2>2, <3>1 DEF ListenerInv, ListenerHearsOnce
  <2>3. CASE listener # "running"
    <3>1. ~HasListener /\ UNCHANGED told
      BY <1>2, <2>3 DEF Tells, ListenerInv, TypeOK
    <3>. QED
      BY <1>0, <1>2, <3>1 DEF ListenerInv, ListenerHearsOnce
  <2>. QED
    BY <2>2, <2>3
<1>3. ASSUME NEW why, Fails(why)
      PROVE  /\ UNCHANGED listener
             /\ \A c \in Connection :
                  /\ caller'[c] = "connected" => caller[c] = "connected"
                  /\ portal[c] # "none" => portal'[c] # "none"
  BY <1>0, <1>3 DEF Fails, Killed
<1>4. CASE SpawnsPortal \/ HandlePublishNamedActor \/ HandleQueryNamedActor \/ HandleSupervisorEvt
  BY <1>1, <1>4
     DEF SpawnsPortal, HandlePublishNamedActor, HandleQueryNamedActor, HandleSupervisorEvt
<1>5. CASE PortalStarts
  BY <1>0, <1>1, <1>5 DEF PortalStarts
<1>6. CASE StartFails
  BY <1>1, <1>3, <1>6 DEF StartFails
<1>7. CASE StoresPortal
  BY <1>0, <1>2, <1>7 DEF StoresPortal
<1>8. CASE StoreFails
  BY <1>1, <1>2, <1>3, <1>8 DEF StoreFails
<1>9. CASE HandleGetAllPortals
  <2>1. CASE asker[Head(mailbox).port].state = "waiting"
    BY <1>1, <1>9, <2>1 DEF HandleGetAllPortals
  <2>2. CASE asker[Head(mailbox).port].state # "waiting"
    BY <1>1, <1>3, <1>9, <2>2 DEF HandleGetAllPortals
  <2>. QED
    BY <2>1, <2>2
<1>10. ASSUME NEW c \in Connection, AppConnects(c) \/ CallerGivesUp(c) \/ PortalEnds(c)
       PROVE  ListenerInv'
  BY <1>0, <1>1, <1>10 DEF AppConnects, CallerGivesUp, PortalEnds
<1>11. ASSUME NEW n \in Name, NEW a \in Actor, AppPublishes(n, a)
       PROVE  ListenerInv'
  BY <1>1, <1>11 DEF AppPublishes
<1>12. ASSUME NEW q \in Asker, AppAsksPortals(q) \/ AskerGivesUp(q)
       PROVE  ListenerInv'
  BY <1>1, <1>12 DEF AppAsksPortals, AskerGivesUp, Asks
<1>13. ASSUME NEW q \in Asker, NEW n \in Name, PortalLooksUp(q, n)
       PROVE  ListenerInv'
  BY <1>1, <1>13 DEF PortalLooksUp, Asks
<1>14. CASE ListenerStops
  BY <1>14 DEF ListenerStops, ListenerInv, ListenerHearsOnce
<1>15. CASE UNCHANGED vars
  BY <1>1, <1>15 DEF vars
<1>. QED
  BY <1>4, <1>5, <1>6, <1>7, <1>8, <1>9, <1>10, <1>11, <1>12, <1>13, <1>14, <1>15
     DEF Next, NexusStep, Users
-----------------------------------------------------------------------------
(* The lookups *)

(* What a lookup finds does not change when a message is appended behind   *)
(* it; the one that is last finds an appended publication.                 *)
LEMMA FoundAppend ==
  ASSUME NEW names, NEW q \in Seq(NexusActorMessage), NEW m \in NexusActorMessage,
         NEW n \in Name, NEW a
  PROVE  /\ \A i \in DOMAIN q : Found(names, q, i, n, a) => Found(names, Append(q, m), i, n, a)
         /\ Found(names, q, Len(q) + 1, n, a) => Found(names, Append(q, m), Len(q) + 1, n, a)
         /\ ~(m.type = "PublishNamedActor" /\ m.name = n)
              => (Found(names, q, Len(q) + 1, n, a)
                    => Found(names, Append(q, m), Len(q) + 2, n, a))
         /\ m.type = "PublishNamedActor" /\ m.name = n
              => Found(names, Append(q, m), Len(q) + 2, n, m.actor)
<1>. DEFINE r == Append(q, m)
<1>1. /\ Len(q) \in Nat /\ DOMAIN q = 1 .. Len(q)
      /\ DOMAIN r = 1 .. Len(q) + 1
      /\ \A i \in DOMAIN q : r[i] = q[i]
      /\ r[Len(q) + 1] = m
  BY AppendPositions
<1>. HIDE DEF r
<1>2. ASSUME NEW i \in 1 .. Len(q) + 1, Found(names, q, i, n, a)
      PROVE  Found(names, r, i, n, a)
  <2>1. \A k \in DOMAIN r : k < i => k \in DOMAIN q /\ r[k] = q[k]
    BY <1>1
  <2>. QED
    BY <1>1, <1>2, <2>1 DEF Found, Publishes
<1>3. ASSUME ~Publishes(r, Len(q) + 1, n), Found(names, q, Len(q) + 1, n, a)
      PROVE  Found(names, r, Len(q) + 2, n, a)
  <2>1. \A k \in DOMAIN r : \/ k \in DOMAIN q /\ r[k] = q[k] /\ k < Len(q) + 1
                            \/ k = Len(q) + 1
    BY <1>1
  <2>2. \A k \in DOMAIN q : k \in DOMAIN r /\ k < Len(q) + 2 /\ k < Len(q) + 1 /\ r[k] = q[k]
    BY <1>1
  <2>. QED
    BY <1>3, <2>1, <2>2 DEF Found, Publishes
<1>4. ASSUME Publishes(r, Len(q) + 1, n)
      PROVE  Found(names, r, Len(q) + 2, n, m.actor)
  <2>1. /\ Len(q) + 1 \in DOMAIN r /\ Len(q) + 1 < Len(q) + 2
        /\ r[Len(q) + 1].actor = m.actor
        /\ \A k \in DOMAIN r : ~(Len(q) + 1 < k /\ k < Len(q) + 2)
    BY <1>1
  <2>. QED
    BY <1>4, <2>1 DEF Found
<1>5. Publishes(r, Len(q) + 1, n) <=> m.type = "PublishNamedActor" /\ m.name = n
  BY <1>1 DEF Publishes
<1>6. DOMAIN q \subseteq 1 .. Len(q) + 1 /\ Len(q) + 1 \in 1 .. Len(q) + 1
  BY <1>1
<1>. QED
  BY <1>2, <1>3, <1>4, <1>5, <1>6 DEF r

(* Nor does it when the message at the head is handled. *)
LEMMA FoundTail ==
  ASSUME NEW names, NEW q \in Seq(NexusActorMessage), q # <<>>,
         NEW i \in Nat, i > 0, NEW n \in Name, NEW a, NEW names2,
         Found(names, q, i + 1, n, a),
         \/ ~Publishes(q, 1, n) /\ (n \in DOMAIN names <=> n \in DOMAIN names2)
            /\ (n \in DOMAIN names => names[n] = names2[n])
         \/ Publishes(q, 1, n) /\ n \in DOMAIN names2 /\ names2[n] = q[1].actor
  PROVE  Found(names2, Tail(q), i, n, a)
<1>. DEFINE r == Tail(q)
<1>1. /\ Len(q) \in Nat /\ DOMAIN q = 1 .. Len(q) /\ 1 \in DOMAIN q
      /\ DOMAIN r = 1 .. Len(q) - 1
      /\ \A k \in DOMAIN r : k \in Nat /\ k + 1 \in DOMAIN q /\ k + 1 # 1 /\ r[k] = q[k + 1]
  BY TailElements
<1>. HIDE DEF r
<1>2. \A k \in DOMAIN r : /\ Publishes(r, k, n) <=> Publishes(q, k + 1, n)
                          /\ k < i <=> k + 1 < i + 1
  BY <1>1 DEF Publishes
<1>3. CASE \A j \in DOMAIN q : j < i + 1 => ~Publishes(q, j, n)
  <2>1. a = IF n \in DOMAIN names THEN names[n] ELSE None
    BY <1>3 DEF Found
  <2>2. ~Publishes(q, 1, n)
    BY <1>1, <1>3
  <2>3. \A j \in DOMAIN r : j < i => ~Publishes(r, j, n)
    BY <1>1, <1>2, <1>3
  <2>. QED
    BY <2>1, <2>2, <2>3 DEF Found, r
<1>4. ASSUME NEW j \in DOMAIN q, j < i + 1, Publishes(q, j, n), q[j].actor = a,
             \A k \in DOMAIN q : j < k /\ k < i + 1 => ~Publishes(q, k, n)
      PROVE  Found(names2, Tail(q), i, n, a)
  <2>1. CASE j = 1
    <3>1. \A k \in DOMAIN r : k < i => ~Publishes(r, k, n)
      <4>. SUFFICES ASSUME NEW k \in DOMAIN r, k < i PROVE ~Publishes(q, k + 1, n)
        BY <1>2
      <4>1. k + 1 \in DOMAIN q /\ j < k + 1 /\ k + 1 < i + 1
        BY <1>1, <2>1
      <4>. QED
        BY <1>4, <4>1
    <3>. QED
      BY <1>4, <2>1, <3>1 DEF Found, r
  <2>2. CASE j # 1
    <3>1. /\ j - 1 \in DOMAIN r /\ j - 1 < i /\ r[j - 1] = q[j]
          /\ j = (j - 1) + 1
      BY <1>1, <1>4, <2>2
    <3>2. Publishes(r, j - 1, n) /\ r[j - 1].actor = a
      BY <1>4, <3>1 DEF Publishes
    <3>3. \A k \in DOMAIN r : j - 1 < k /\ k < i => ~Publishes(r, k, n)
      <4>. SUFFICES ASSUME NEW k \in DOMAIN r, j - 1 < k, k < i PROVE ~Publishes(q, k + 1, n)
        BY <1>2
      <4>1. k + 1 \in DOMAIN q /\ j < k + 1 /\ k + 1 < i + 1
        BY <1>1
      <4>. QED
        BY <1>4, <4>1
    <3>. QED
      BY <3>1, <3>2, <3>3 DEF Found, r
  <2>. QED
    BY <2>1, <2>2
<1>. QED
  BY <1>3, <1>4 DEF Found

(* Whoever has a question in the mailbox has asked it. *)
LEMMA AskersHaveAsked ==
  ASSUME LookupsFindLatest, ExpectedHaveStarted, TypeOK
  PROVE  /\ AskersWant
         /\ \A q \in Asker : asker[q] = IdleAsker =>
              \A i \in DOMAIN mailbox :
                mailbox[i].type \in {"QueryNamedActor", "GetAllPortals"} => mailbox[i].port # q
<1>1. AskersWant
  BY DEF LookupsFindLatest, ExpectedHaveStarted, AskersWant
<1>2. ASSUME NEW i \in DOMAIN mailbox, mailbox[i].type \in {"QueryNamedActor", "GetAllPortals"}
      PROVE  asker[mailbox[i].port].wants # None
  <2>1. mailbox[i] \in NexusActorMessage
    BY EachElement DEF TypeOK
  <2>. QED
    BY <1>1, <1>2, <2>1, MessageShapes, NexusAssumption DEF AskersWant
<1>. QED
  BY <1>1, <1>2 DEF IdleAsker

(* An asker keeps its question. *)
SameQuestion(q) == asker'[q].wants = asker[q].wants /\ asker'[q].expects = asker[q].expects

(* A message is handled: a publication reaches the registry, any other one *)
(* leaves the names alone. *)
LEMMA LookupsWhenTaken ==
  ASSUME TypeOK, LookupsFindLatest, mailbox # <<>>, Done, Up, UNCHANGED latest,
         IF Head(mailbox).type = "PublishNamedActor"
         THEN named' = Published(named, Head(mailbox).name, Head(mailbox).actor)
         ELSE UNCHANGED named,
         \A q \in Asker : SameQuestion(q)
  PROVE  LookupsFindLatest'
<1>0. mailbox \in Seq(NexusActorMessage)
  BY DEF TypeOK
<1>1. /\ mailbox' = Tail(mailbox) /\ Len(mailbox) \in Nat /\ Len(mailbox) > 0
      /\ 1 \in DOMAIN mailbox /\ Head(mailbox) = mailbox[1] /\ Head(mailbox) \in NexusActorMessage
      /\ Len(mailbox') = Len(mailbox) - 1
      /\ \A i \in DOMAIN mailbox' :
           /\ i \in Nat /\ i > 0 /\ i + 1 \in DOMAIN mailbox
           /\ mailbox'[i] = mailbox[i + 1] /\ mailbox'[i] \in NexusActorMessage
  BY <1>0, TailElements DEF Done
<1>2. ASSUME NEW n \in Name
      PROVE  \/ ~Publishes(mailbox, 1, n) /\ (n \in DOMAIN named <=> n \in DOMAIN named')
                /\ (n \in DOMAIN named => named[n] = named'[n])
             \/ Publishes(mailbox, 1, n) /\ n \in DOMAIN named' /\ named'[n] = mailbox[1].actor
  <2>1. CASE Head(mailbox).type = "PublishNamedActor"
    <3>1. Head(mailbox).name \in Name /\ Head(mailbox).actor \in Actor
      BY <1>1, <2>1, MessageShapes
    <3>. DEFINE k == Head(mailbox).name
                v == Head(mailbox).actor
    <3>2. k \in Name /\ v \in Actor /\ named' = Published(named, k, v)
      BY <2>1, <3>1
    <3>3. Publishes(mailbox, 1, n) <=> k = n
      BY <1>1, <2>1 DEF Publishes
    <3>4. v = mailbox[1].actor
      BY <1>1
    <3>. HIDE DEF k, v
    <3>5. /\ DOMAIN named' = DOMAIN named \cup {k} /\ named'[k] = v
          /\ \A x \in DOMAIN named : x # k => named'[x] = named[x]
      BY <3>2, NamesAreTyped DEF TypeOK
    <3>. QED
      BY <3>3, <3>4, <3>5
  <2>2. CASE Head(mailbox).type # "PublishNamedActor"
    BY <1>1, <2>2 DEF Publishes
  <2>. QED
    BY <2>1, <2>2
<1>3. \A a : \A i \in Nat, n \in Name :
        i > 0 /\ Found(named, mailbox, i + 1, n, a) => Found(named', mailbox', i, n, a)
  BY <1>0, <1>1, <1>2, FoundTail
<1>4. Len(mailbox') + 1 = Len(mailbox) /\ Len(mailbox) \in Nat /\ Len(mailbox) > 0
  BY <1>1
<1>5. \A n \in Name : Found(named', mailbox', Len(mailbox') + 1, n, latest'[n])
  BY <1>3, <1>4 DEF LookupsFindLatest
<1>6. ASSUME NEW i \in DOMAIN mailbox', mailbox'[i].type = "QueryNamedActor"
      PROVE  /\ asker'[mailbox'[i].port].wants = mailbox'[i].name
             /\ Found(named', mailbox', i, mailbox'[i].name, asker'[mailbox'[i].port].expects)
  <2>1. mailbox'[i].port \in Asker /\ mailbox'[i].name \in Name
    BY <1>1, <1>6, MessageShapes
  <2>2. /\ asker[mailbox'[i].port].wants = mailbox'[i].name
        /\ Found(named, mailbox, i + 1, mailbox'[i].name, asker[mailbox'[i].port].expects)
    BY <1>1, <1>6 DEF LookupsFindLatest
  <2>. QED
    BY <1>1, <1>3, <2>1, <2>2 DEF SameQuestion
<1>. QED
  BY <1>5, <1>6 DEF LookupsFindLatest

(* A message is cast: a publication is the latest from then on, and a      *)
(* lookup expects the one that is the latest.                              *)
LEMMA LookupsWhenCast ==
  ASSUME TypeOK, LookupsFindLatest, Up, UNCHANGED named,
         NEW m \in NexusActorMessage, Cast(m),
         IF m.type = "PublishNamedActor"
         THEN latest' = [latest EXCEPT ![m.name] = m.actor]
         ELSE UNCHANGED latest,
         \A i \in DOMAIN mailbox : mailbox[i].type = "QueryNamedActor" => SameQuestion(mailbox[i].port),
         m.type = "QueryNamedActor" => /\ asker'[m.port].wants = m.name
                                       /\ asker'[m.port].expects = latest[m.name]
  PROVE  LookupsFindLatest'
<1>0. mailbox \in Seq(NexusActorMessage) /\ mailbox' = Append(mailbox, m)
  BY DEF TypeOK, Cast
<1>1. /\ Len(mailbox) \in Nat /\ Len(mailbox') = Len(mailbox) + 1
      /\ DOMAIN mailbox' = DOMAIN mailbox \cup {Len(mailbox) + 1}
      /\ \A i \in DOMAIN mailbox : mailbox'[i] = mailbox[i] /\ mailbox[i] \in NexusActorMessage
      /\ mailbox'[Len(mailbox) + 1] = m
      /\ Len(mailbox') + 1 = Len(mailbox) + 2
  BY <1>0, AppendPositions
<1>2. ASSUME NEW n \in Name
      PROVE  Found(named', mailbox', Len(mailbox') + 1, n, latest'[n])
  <2>1. Found(named, mailbox, Len(mailbox) + 1, n, latest[n])
    BY DEF LookupsFindLatest
  <2>2. CASE m.type = "PublishNamedActor" /\ m.name = n
    <3>1. latest'[n] = m.actor
      BY <2>2 DEF TypeOK
    <3>. QED
      BY <1>0, <1>1, <2>2, <3>1, FoundAppend
  <2>3. CASE ~(m.type = "PublishNamedActor" /\ m.name = n)
    <3>1. latest'[n] = latest[n]
      BY <2>3 DEF TypeOK
    <3>. QED
      BY <1>0, <1>1, <2>1, <2>3, <3>1, FoundAppend
  <2>. QED
    BY <2>2, <2>3
<1>3. ASSUME NEW i \in DOMAIN mailbox, mailbox[i].type = "QueryNamedActor"
      PROVE  /\ asker'[mailbox[i].port].wants = mailbox[i].name
             /\ Found(named', mailbox', i, mailbox[i].name, asker'[mailbox[i].port].expects)
  <2>1. mailbox[i].name \in Name
    BY <1>1, <1>3, MessageShapes
  <2>2. /\ asker[mailbox[i].port].wants = mailbox[i].name
        /\ Found(named, mailbox, i, mailbox[i].name, asker[mailbox[i].port].expects)
    BY <1>3 DEF LookupsFindLatest
  <2>3. SameQuestion(mailbox[i].port)
    BY <1>3
  <2>. QED
    BY <1>0, <2>1, <2>2, <2>3, FoundAppend DEF SameQuestion
<1>4. ASSUME m.type = "QueryNamedActor"
      PROVE  Found(named', mailbox', Len(mailbox) + 1, m.name, latest[m.name])
  <2>1. m.name \in Name
    BY <1>4, MessageShapes
  <2>2. Found(named, mailbox, Len(mailbox) + 1, m.name, latest[m.name])
    BY <2>1 DEF LookupsFindLatest
  <2>. QED
    BY <1>0, <2>1, <2>2, FoundAppend
<1>. QED
  BY <1>1, <1>2, <1>3, <1>4 DEF LookupsFindLatest

(* The answers *)
AnswersInv == ExpectedHaveStarted /\ AnswersAreCurrent

(* A portal that has started does not start again, so a list of portals is *)
(* as good later as it was when it was given.                              *)
LEMMA AnswersFrame ==
  ASSUME AnswersInv, UNCHANGED asker,
         \A c \in Connection :
           /\ portal[c] # "none" => portal'[c] # "none"
           /\ portal'[c] = "running" => portal[c] \in {"running", "none"},
         TypeOK,
         \A i \in DOMAIN mailbox' :
           mailbox'[i].type = "GetAllPortals" => \E j \in DOMAIN mailbox : mailbox'[i] = mailbox[j]
  PROVE  AnswersInv'
<1>1. \A q \in Asker : asker[q].wants = "portals" =>
        asker[q].expects \subseteq Connection /\ asker[q].got \subseteq Connection
  BY AskerShapes DEF TypeOK
<1>2. ExpectedHaveStarted'
  BY <1>1 DEF AnswersInv, ExpectedHaveStarted
<1>3. \A q \in Asker : asker[q].wants = "portals" =>
        \A c \in asker[q].expects \cup asker[q].got : portal[c] # "none"
  BY DEF AnswersInv, ExpectedHaveStarted
<1>4. AnswersAreCurrent'
  BY <1>1, <1>3 DEF AnswersInv, AnswersAreCurrent
<1>. QED
  BY <1>2, <1>4 DEF AnswersInv

(* Where the messages of the mailbox come from. *)
LEMMA MailboxContents ==
  ASSUME TypeOK
  PROVE  /\ UNCHANGED mailbox => \A i \in DOMAIN mailbox' : \E j \in DOMAIN mailbox : mailbox'[i] = mailbox[j]
         /\ mailbox # <<>> /\ Done =>
              \A i \in DOMAIN mailbox' : \E j \in DOMAIN mailbox : mailbox'[i] = mailbox[j]
         /\ mailbox' = <<>> => DOMAIN mailbox' = {}
         /\ \A m : Cast(m) => \A i \in DOMAIN mailbox' :
              mailbox'[i] = m \/ \E j \in DOMAIN mailbox : mailbox'[i] = mailbox[j]
<1>0. mailbox \in Seq(NexusActorMessage)
  BY DEF TypeOK
<1>1. mailbox # <<>> /\ Done =>
        \A i \in DOMAIN mailbox' : i + 1 \in DOMAIN mailbox /\ mailbox'[i] = mailbox[i + 1]
  BY <1>0, TailElements DEF Done
<1>2. ASSUME NEW m, Cast(m)
      PROVE  \A i \in DOMAIN mailbox' : mailbox'[i] = m \/ (i \in DOMAIN mailbox /\ mailbox'[i] = mailbox[i])
  BY <1>0, <1>2, AppendPositions DEF Cast
<1>. QED
  BY <1>1, <1>2, NoElements

Questions == LookupsFindLatest /\ AnswersInv

(* When the nexus goes down, nobody is answered any more. *)
LEMMA QuestionsWhenFailing ==
  ASSUME TypeOK, Questions, NEW why, Fails(why)
  PROVE  Questions'
<1>1. DOMAIN mailbox' = {} /\ ~Up'
  BY MailboxContents DEF Fails, Up
<1>2. \A q \in Asker : /\ asker'[q].wants = asker[q].wants /\ asker'[q].expects = asker[q].expects
                       /\ asker'[q].got = asker[q].got
                       /\ asker'[q].state = "answered" => asker[q].state = "answered"
  BY DEF Fails, Refused, TypeOK, AskerState
<1>3. \A c \in Connection : /\ portal[c] # "none" <=> portal'[c] # "none"
                            /\ portal'[c] # "running"
  BY DEF Fails, Killed, TypeOK
<1>4. \A q \in Asker : asker[q].wants = "portals" =>
        asker[q].expects \subseteq Connection /\ asker[q].got \subseteq Connection
  BY AskerShapes DEF TypeOK
<1>5. LookupsFindLatest'
  BY <1>1 DEF LookupsFindLatest
<1>6. ExpectedHaveStarted'
  BY <1>1, <1>2, <1>3, <1>4 DEF Questions, AnswersInv, ExpectedHaveStarted
<1>7. AnswersAreCurrent'
  BY <1>2, <1>3, <1>4 DEF Questions, AnswersInv, AnswersAreCurrent
<1>. QED
  BY <1>5, <1>6, <1>7 DEF Questions, AnswersInv

(* A step that leaves the askers, the names and the mailbox alone. *)
LEMMA QuestionsFrame ==
  ASSUME TypeOK, Questions, UNCHANGED <<asker, named, latest, mailbox>>, Up' => Up,
         \A c \in Connection :
           /\ portal[c] # "none" => portal'[c] # "none"
           /\ portal'[c] = "running" => portal[c] \in {"running", "none"}
  PROVE  Questions'
<1>1. AnswersInv'
  BY MailboxContents, AnswersFrame DEF Questions
<1>2. LookupsFindLatest'
  BY DEF Questions, LookupsFindLatest
<1>. QED
  BY <1>1, <1>2 DEF Questions

(* A handled message that answers nobody. *)
LEMMA QuestionsWhenTaken ==
  ASSUME TypeOK, Questions, mailbox # <<>>, Done, Up, UNCHANGED <<asker, latest, portal>>,
         IF Head(mailbox).type = "PublishNamedActor"
         THEN named' = Published(named, Head(mailbox).name, Head(mailbox).actor)
         ELSE UNCHANGED named
  PROVE  Questions'
<1>1. LookupsFindLatest'
  BY LookupsWhenTaken DEF Questions, SameQuestion
<1>2. AnswersInv'
  BY MailboxContents, AnswersFrame DEF Questions
<1>. QED
  BY <1>1, <1>2 DEF Questions

(* GetAllPortals: what the nexus answers is what runs, for each portal     *)
(* that has been stored, and the asker expects only stored ones.           *)
LEMMA QuestionsWhenListed ==
  ASSUME TypeOK, Lives, Tracks, Questions, HandleGetAllPortals
  PROVE  Questions'
<1>. DEFINE q == Head(mailbox).port
<1>1. CASE asker[q].state # "waiting"
  BY <1>1, QuestionsWhenFailing DEF HandleGetAllPortals
<1>2. CASE asker[q].state = "waiting"
  <2>1. /\ mailbox # <<>> /\ Done /\ Up /\ current = None
        /\ Head(mailbox) = mailbox[1] /\ 1 \in DOMAIN mailbox
        /\ Head(mailbox).type = "GetAllPortals"
        /\ UNCHANGED <<named, portal, latest>>
    BY <1>2, TailElements DEF HandleGetAllPortals, Takes, Up, Lives, HandlesOne, TypeOK
  <2>2. q \in Asker /\ asker[q].wants = "portals" /\ asker[q] \in AskerState
    BY <2>1, MailboxSteps, MessageShapes DEF Questions, AnswersInv, ExpectedHaveStarted, TypeOK
  <2>3. /\ \A r \in Asker : SameQuestion(r)
        /\ \A r \in Asker : r # q => asker'[r] = asker[r]
        /\ asker'[q].got = portals /\ asker'[q].state = "answered"
    BY <1>2, <2>2 DEF HandleGetAllPortals, Answers, TypeOK, AskerState, SameQuestion
  <2>4. LookupsFindLatest'
    BY <2>1, <2>3, LookupsWhenTaken DEF Questions
  <2>5. \A c \in Connection : /\ c \in portals => portal[c] # "none"
                              /\ portal[c] = "running" => c \in portals
    BY <2>1, NexusAssumption DEF Lives, StartsOnce, Tracks, RegistryTracksPortals
  <2>6. portals \subseteq Connection
    BY DEF TypeOK
  <2>. HIDE DEF q
  <2>7. \A i \in DOMAIN mailbox' : mailbox'[i].type = "GetAllPortals" =>
          mailbox'[i].port \in Asker /\ asker[mailbox'[i].port].wants = "portals"
    <3>1. \A j \in DOMAIN mailbox : mailbox[j] \in NexusActorMessage
      BY EachElement DEF TypeOK
    <3>. QED
      BY <2>1, <3>1, MailboxContents, MessageShapes DEF Questions, AnswersInv, ExpectedHaveStarted
  <2>8. ExpectedHaveStarted'
    BY <2>1, <2>2, <2>3, <2>5, <2>6, <2>7
       DEF Questions, AnswersInv, ExpectedHaveStarted, SameQuestion
  <2>9. AnswersAreCurrent'
    BY <2>1, <2>2, <2>3, <2>5 DEF Questions, AnswersInv, AnswersAreCurrent, SameQuestion
  <2>. QED
    BY <2>4, <2>8, <2>9 DEF Questions, AnswersInv
<1>. QED
  BY <1>1, <1>2

(* QueryNamedActor: what the nexus finds is what was the latest. *)
LEMMA QuestionsWhenLookedUp ==
  ASSUME TypeOK, Lives, Questions, HandleQueryNamedActor
  PROVE  Questions'
<1>. DEFINE m == Head(mailbox)
            q == m.port
            found == IF m.name \in DOMAIN named THEN named[m.name] ELSE None
<1>1. /\ mailbox # <<>> /\ Done /\ Up
      /\ m = mailbox[1] /\ 1 \in DOMAIN mailbox /\ m \in NexusActorMessage
      /\ m.type = "QueryNamedActor"
      /\ UNCHANGED <<named, portal, latest>>
  BY TailElements DEF HandleQueryNamedActor, Takes, Up, TypeOK
<1>2. q \in Asker /\ m.name \in Name /\ asker[q].wants = m.name /\ asker[q] \in AskerState
      /\ Found(named, mailbox, 1, m.name, asker[q].expects)
  BY <1>1, MessageShapes DEF Questions, LookupsFindLatest, TypeOK
<1>3. asker[q].expects = found /\ asker[q].wants # "portals"
  <2>1. \A j \in DOMAIN mailbox : ~(j < 1)
    BY LenProperties DEF TypeOK
  <2>. QED
    BY <1>2, <2>1, NexusAssumption DEF Found
<1>4. /\ \A r \in Asker : SameQuestion(r)
      /\ \A r \in Asker : r # q => asker'[r] = asker[r]
      /\ asker'[q].got = found
  BY <1>2 DEF HandleQueryNamedActor, Answers, TypeOK, AskerState, SameQuestion
<1>5. LookupsFindLatest'
  BY <1>1, <1>4, LookupsWhenTaken DEF Questions
<1>. HIDE DEF q, found
<1>6. \A i \in DOMAIN mailbox' : mailbox'[i].type = "GetAllPortals" =>
        mailbox'[i].port \in Asker /\ asker[mailbox'[i].port].wants = "portals"
  <2>1. \A j \in DOMAIN mailbox : mailbox[j] \in NexusActorMessage
    BY EachElement DEF TypeOK
  <2>. QED
    BY <1>1, <2>1, MailboxContents, MessageShapes DEF Questions, AnswersInv, ExpectedHaveStarted
<1>7. ExpectedHaveStarted'
  BY <1>1, <1>3, <1>4, <1>6 DEF Questions, AnswersInv, ExpectedHaveStarted, SameQuestion
<1>8. AnswersAreCurrent'
  BY <1>1, <1>3, <1>4 DEF Questions, AnswersInv, AnswersAreCurrent, SameQuestion
<1>. QED
  BY <1>5, <1>7, <1>8 DEF Questions, AnswersInv

(* A new question: what it expects is current, and no question of the same *)
(* asker is on its way.                                                    *)
LEMMA QuestionsWhenAsked ==
  ASSUME TypeOK, Questions, NEW q \in Asker, NEW wants, NEW expects,
         NEW m \in NexusActorMessage, Asks(q, wants, expects, m), m.port = q,
         \/ /\ m.type = "GetAllPortals" /\ wants = "portals"
            /\ expects = Connected
         \/ /\ m.type = "QueryNamedActor" /\ m.name \in Name
            /\ wants = m.name /\ expects = latest[m.name]
  PROVE  Questions'
<1>1. /\ Up /\ Cast(m) /\ asker[q] = IdleAsker
      /\ UNCHANGED <<named, latest, portal>>
      /\ \A r \in Asker : r # q => asker'[r] = asker[r]
      /\ asker'[q].wants = wants /\ asker'[q].expects = expects /\ asker'[q].state = "waiting"
      /\ wants = "portals" => asker'[q].got = {}
  BY DEF Asks, TypeOK
<1>2. \A j \in DOMAIN mailbox : mailbox[j].type \in {"QueryNamedActor", "GetAllPortals"} =>
        mailbox[j].port \in Asker /\ mailbox[j].port # q
  <2>1. \A j \in DOMAIN mailbox : mailbox[j] \in NexusActorMessage
    BY EachElement DEF TypeOK
  <2>. QED
    BY <1>1, <2>1, AskersHaveAsked, MessageShapes DEF Questions, AnswersInv
<1>3. LookupsFindLatest'
  BY <1>1, <1>2, LookupsWhenCast DEF Questions, SameQuestion
<1>4. \A i \in DOMAIN mailbox' : mailbox'[i].type = "GetAllPortals" =>
        asker'[mailbox'[i].port].wants = "portals"
  <2>1. m.type = "GetAllPortals" => wants = "portals"
    OBVIOUS
  <2>2. \A j \in DOMAIN mailbox : mailbox[j].type = "GetAllPortals" =>
          asker'[mailbox[j].port].wants = "portals"
    BY <1>1, <1>2 DEF Questions, AnswersInv, ExpectedHaveStarted
  <2>3. \A i \in DOMAIN mailbox' :
          mailbox'[i] = m \/ \E j \in DOMAIN mailbox : mailbox'[i] = mailbox[j]
    BY <1>1, MailboxContents
  <2>. QED
    BY <1>1, <2>1, <2>2, <2>3
<1>5. wants = "portals" => \A c \in expects : portal[c] # "none"
  BY NexusAssumption DEF Connected
<1>6. ExpectedHaveStarted'
  BY <1>1, <1>4, <1>5 DEF Questions, AnswersInv, ExpectedHaveStarted
<1>7. AnswersAreCurrent'
  BY <1>1 DEF Questions, AnswersInv, AnswersAreCurrent
<1>. QED
  BY <1>3, <1>6, <1>7 DEF Questions, AnswersInv

(* A message that is no question is cast. *)
LEMMA QuestionsWhenCast ==
  ASSUME TypeOK, Questions, Up, UNCHANGED <<asker, named, portal>>,
         NEW m \in NexusActorMessage, Cast(m), m.type \notin {"GetAllPortals", "QueryNamedActor"},
         IF m.type = "PublishNamedActor"
         THEN latest' = [latest EXCEPT ![m.name] = m.actor]
         ELSE UNCHANGED latest
  PROVE  Questions'
<1>1. LookupsFindLatest'
  BY LookupsWhenCast DEF Questions, SameQuestion
<1>2. \A i \in DOMAIN mailbox' :
        mailbox'[i].type = "GetAllPortals" => \E j \in DOMAIN mailbox : mailbox'[i] = mailbox[j]
  BY MailboxContents
<1>3. AnswersInv'
  BY <1>2, AnswersFrame DEF Questions
<1>. QED
  BY <1>1, <1>3 DEF Questions

(* Every step keeps the questions and their answers current. *)
LEMMA NextQuestions ==
  ASSUME TypeOK, Lives, Tracks, Questions, [Next]_vars
  PROVE  Questions'
<1>1. CASE SpawnsPortal
  BY <1>1, QuestionsWhenTaken DEF SpawnsPortal, Takes, Up
<1>2. CASE PortalStarts \/ StoresPortal
  <2>1. /\ UNCHANGED <<asker, named, latest, mailbox>> /\ Up
        /\ \A c \in Connection :
             /\ portal[c] # "none" => portal'[c] # "none"
             /\ portal'[c] = "running" => portal[c] \in {"running", "none"}
    BY <1>2 DEF PortalStarts, StoresPortal, Lives, HandlesOne, TypeOK, Up
  <2>. QED
    BY <2>1, QuestionsFrame
<1>3. CASE StartFails \/ StoreFails
  BY <1>3, QuestionsWhenFailing DEF StartFails, StoreFails
<1>4. CASE HandleGetAllPortals
  BY <1>4, QuestionsWhenListed
<1>5. CASE HandlePublishNamedActor
  BY <1>5, QuestionsWhenTaken DEF HandlePublishNamedActor, Takes, Up
<1>6. CASE HandleQueryNamedActor
  BY <1>6, QuestionsWhenLookedUp
<1>7. CASE HandleSupervisorEvt \/ ListenerStops \/ UNCHANGED vars
  BY <1>7, QuestionsFrame DEF HandleSupervisorEvt, ListenerStops, vars, Up
<1>8. ASSUME NEW c \in Connection, AppConnects(c)
      PROVE  Questions'
  <2>1. [type |-> "Connected", connection |-> c] \in NexusActorMessage
    BY DEF NexusActorMessage
  <2>2. CASE Up
    BY <1>8, <2>1, <2>2, QuestionsWhenCast DEF AppConnects
  <2>3. CASE ~Up
    BY <1>8, <2>3, QuestionsFrame DEF AppConnects, Up
  <2>. QED
    BY <2>2, <2>3
<1>9. ASSUME NEW c \in Connection, CallerGivesUp(c) \/ PortalEnds(c)
      PROVE  Questions'
  <2>1. /\ UNCHANGED <<asker, named, latest, mailbox, mode>>
        /\ \A d \in Connection :
             /\ portal[d] # "none" => portal'[d] # "none"
             /\ portal'[d] = "running" => portal[d] \in {"running", "none"}
    BY <1>9 DEF CallerGivesUp, PortalEnds, TypeOK
  <2>. QED
    BY <2>1, QuestionsFrame DEF Up
<1>10. ASSUME NEW n \in Name, NEW a \in Actor, AppPublishes(n, a)
       PROVE  Questions'
  <2>1. [type |-> "PublishNamedActor", name |-> n, actor |-> a] \in NexusActorMessage
    BY DEF NexusActorMessage
  <2>. QED
    BY <1>10, <2>1, QuestionsWhenCast DEF AppPublishes
<1>11. ASSUME NEW q \in Asker, AppAsksPortals(q)
       PROVE  Questions'
  <2>1. [type |-> "GetAllPortals", port |-> q] \in NexusActorMessage
    BY DEF NexusActorMessage
  <2>. QED
    BY <1>11, <2>1, QuestionsWhenAsked DEF AppAsksPortals
<1>12. ASSUME NEW q \in Asker, AskerGivesUp(q)
       PROVE  Questions'
  <2>1. /\ UNCHANGED <<named, latest, mailbox, mode, portal>>
        /\ \A r \in Asker : /\ SameQuestion(r) /\ asker'[r].got = asker[r].got
                            /\ asker'[r].state = "answered" => asker[r].state = "answered"
    BY <1>12 DEF AskerGivesUp, TypeOK, AskerState, SameQuestion
  <2>2. \A i \in DOMAIN mailbox :
          mailbox[i].type \in {"QueryNamedActor", "GetAllPortals"} => mailbox[i].port \in Asker
    BY EachElement, MessageShapes DEF TypeOK
  <2>3. LookupsFindLatest'
    BY <2>1, <2>2 DEF Questions, LookupsFindLatest, SameQuestion, Up
  <2>4. ExpectedHaveStarted'
    BY <2>1, <2>2 DEF Questions, AnswersInv, ExpectedHaveStarted, SameQuestion
  <2>5. AnswersAreCurrent'
    BY <2>1 DEF Questions, AnswersInv, AnswersAreCurrent, SameQuestion
  <2>. QED
    BY <2>3, <2>4, <2>5 DEF Questions, AnswersInv
<1>13. ASSUME NEW q \in Asker, NEW n \in Name, PortalLooksUp(q, n)
       PROVE  Questions'
  <2>. DEFINE m == [type |-> "QueryNamedActor", name |-> n, port |-> q]
  <2>1. m \in NexusActorMessage /\ m.type = "QueryNamedActor" /\ m.name = n /\ m.port = q
    BY DEF NexusActorMessage
  <2>2. Asks(q, n, latest[n], m)
    BY <1>13 DEF PortalLooksUp
  <2>. HIDE DEF m
  <2>. QED
    BY <2>1, <2>2, QuestionsWhenAsked
<1>. QED
  BY <1>1, <1>2, <1>3, <1>4, <1>5, <1>6, <1>7, <1>8, <1>9, <1>10, <1>11, <1>12, <1>13
     DEF Next, NexusStep, Users

(* In the first state nothing is told, asked or published. *)
LEMMA InitInformed == Init => Tracks /\ ListenerInv /\ Questions
<1>. SUFFICES ASSUME Init PROVE Tracks /\ ListenerInv /\ Questions
  OBVIOUS
<1>1. /\ DOMAIN mailbox = {} /\ DOMAIN events = {} /\ DOMAIN told = {}
  BY NoElements DEF Init
<1>2. Tracks
  BY <1>1, NexusAssumption
     DEF Init, Tracks, RegistryTracksPortals, StoredOnesAreTracked, EndsPending
<1>3. ListenerInv
  BY <1>1, NexusAssumption DEF Init, ListenerInv, ListenerHearsOnce
<1>4. \A q \in Asker : asker[q].wants # "portals" /\ asker[q].state # "answered"
  BY NexusAssumption DEF Init, IdleAsker
<1>5. Questions
  BY <1>1, <1>4
     DEF Init, Questions, AnswersInv, LookupsFindLatest, ExpectedHaveStarted,
         AnswersAreCurrent, Found, NoNames
<1>. QED
  BY <1>2, <1>3, <1>5
-----------------------------------------------------------------------------
(* All of the above is one inductive invariant of the nexus. *)
NexusInv == TypeOK /\ Lives /\ Tracks /\ ListenerInv /\ Questions

(* NexusInv holds in every reachable state, since its parts support each   *)
(* other: each handler of nexus.rs keeps it.                               *)
THEOREM NexusInvariant == Spec => []NexusInv
<1>1. Init => NexusInv
  BY InitTyped, InitLives, InitInformed DEF NexusInv
<1>2. NexusInv /\ [Next]_vars => NexusInv'
  <2>. SUFFICES ASSUME NexusInv, [Next]_vars PROVE NexusInv'
    OBVIOUS
  <2>1. AskersWant
    BY AskersHaveAsked DEF NexusInv, Questions, AnswersInv
  <2>2. TypeOK'
    BY <2>1, NextTyped DEF NexusInv, Lives
  <2>3. Lives' /\ Tracks' /\ ListenerInv' /\ Questions'
    BY NextLives, NextTracks, NextTells, NextQuestions DEF NexusInv
  <2>. QED
    BY <2>2, <2>3 DEF NexusInv
<1>. QED
  BY <1>1, <1>2, PTL DEF Spec

(* Every reachable state of the nexus has the declared types: an asker is  *)
(* only ever answered with what it can take.                               *)
THEOREM TypeCorrect == Spec => []TypeOK
<1>1. NexusInv => TypeOK
  BY DEF NexusInv
<1>. QED
  BY <1>1, NexusInvariant, PTL

(* The registry of the nexus (NexusActorState::portals) follows the        *)
(* portals: whoever runs is in it once stored, and who is in it runs or    *)
(* has its supervision event still to come.                                *)
THEOREM RegistryCorrect == Spec => []RegistryTracksPortals
<1>1. NexusInv => RegistryTracksPortals
  BY DEF NexusInv, Tracks
<1>. QED
  BY <1>1, NexusInvariant, PTL

(* A lookup finds the actor that was last published when it was made, and  *)
(* GetAllPortals lists every running portal that had been connected.       *)
THEOREM AnswersCorrect == Spec => []AnswersAreCurrent
<1>1. NexusInv => AnswersAreCurrent
  BY DEF NexusInv, Questions, AnswersInv
<1>. QED
  BY <1>1, NexusInvariant, PTL

(* The listener on_client_connected hears of each portal once, before the  *)
(* caller of from_sink_source has it.                                      *)
THEOREM ListenerCorrect == Spec => []ListenerHearsOnce
<1>1. NexusInv => ListenerHearsOnce
  BY DEF NexusInv, ListenerInv
<1>. QED
  BY <1>1, NexusInvariant, PTL
=============================================================================
