---------------------------- MODULE FnActorProofs ----------------------------
(***************************************************************************)
(* Function actors and actors derived from them, for any application of    *)
(* any number of actors and messages: an end has a cause, and what a       *)
(* function is sent arrives once and in order.                             *)
(***************************************************************************)
EXTENDS FnActor, TLAPS, SequenceTheorems, FiniteSetTheorems

USE DEF actorVars, sentVars

(* Queues, position by position: they grow at their end and shrink at      *)
(* their head.                                                             *)

(* What is left of a queue, position by position, when its head is taken. *)
LEMMA TailElements ==
  ASSUME NEW S, NEW q \in Seq(S), q # <<>>
  PROVE  /\ Tail(q) \in Seq(S)
         /\ Len(q) \in Nat /\ Len(q) > 0
         /\ DOMAIN q = 1 .. Len(q)
         /\ 1 \in DOMAIN q /\ Head(q) = q[1] /\ Head(q) \in S
         /\ Len(Tail(q)) = Len(q) - 1
         /\ DOMAIN Tail(q) = 1 .. Len(q) - 1
         /\ \A i \in DOMAIN Tail(q) : /\ i \in Nat /\ i + 1 \in DOMAIN q /\ i + 1 # 1
                                      /\ Tail(q)[i] = q[i + 1] /\ Tail(q)[i] \in S
<1>1. Len(q) \in Nat /\ DOMAIN q = 1 .. Len(q) /\ Len(q) # 0
  BY EmptySeq, LenProperties
<1>2. /\ Tail(q) \in Seq(S)
      /\ Len(Tail(q)) = Len(q) - 1
      /\ \A i \in 1 .. Len(Tail(q)) : Tail(q)[i] = q[i + 1]
  BY HeadTailProperties
<1>3. DOMAIN Tail(q) = 1 .. Len(q) - 1
  BY <1>2, LenProperties
<1>4. Head(q) = q[1] /\ 1 \in DOMAIN q /\ q[1] \in S
  BY <1>1, ElementOfSeq
<1>5. \A i \in DOMAIN Tail(q) : Tail(q)[i] \in S
  BY <1>2, <1>3, ElementOfSeq
<1>. QED
  BY <1>1, <1>2, <1>3, <1>4, <1>5

(* What is in a queue, position by position, when an element of its type   *)
(* is appended.                                                            *)
LEMMA AppendElements ==
  ASSUME NEW S, NEW q \in Seq(S), NEW e \in S
  PROVE  /\ Append(q, e) \in Seq(S)
         /\ Append(q, e) # <<>>
         /\ DOMAIN q = 1 .. Len(q)
         /\ Len(q) \in Nat
         /\ Len(Append(q, e)) = Len(q) + 1
         /\ DOMAIN Append(q, e) = 1 .. Len(q) + 1
         /\ \A i \in DOMAIN q : Append(q, e)[i] = q[i]
         /\ Append(q, e)[Len(q) + 1] = e
<1>1. Len(q) \in Nat /\ DOMAIN q = 1 .. Len(q)
  BY LenProperties
<1>2. /\ Append(q, e) \in Seq(S)
      /\ Append(q, e) # <<>>
      /\ Len(Append(q, e)) = Len(q) + 1
      /\ \A i \in 1 .. Len(q) : Append(q, e)[i] = q[i]
      /\ Append(q, e)[Len(q) + 1] = e
  BY AppendProperties
<1>3. DOMAIN Append(q, e) = 1 .. Len(q) + 1
  BY <1>2, LenProperties
<1>. QED
  BY <1>1, <1>2, <1>3

(* The same, for an element of any type. *)
LEMMA AppendPositions ==
  ASSUME NEW S, NEW q \in Seq(S), NEW e
  PROVE  /\ Append(q, e) # <<>>
         /\ Len(q) \in Nat
         /\ Len(Append(q, e)) = Len(q) + 1
         /\ DOMAIN q = 1 .. Len(q)
         /\ DOMAIN Append(q, e) = 1 .. Len(q) + 1
         /\ DOMAIN Append(q, e) = DOMAIN q \cup {Len(q) + 1}
         /\ Len(q) + 1 \notin DOMAIN q
         /\ \A i \in DOMAIN q : Append(q, e)[i] = q[i] /\ q[i] \in S
         /\ Append(q, e)[Len(q) + 1] = e
<1>1. q \in Seq(S \cup {e})
  BY LenProperties
<1>2. \A i \in DOMAIN q : q[i] \in S
  BY LenProperties, ElementOfSeq
<1>. QED
  BY <1>1, <1>2, AppendElements

(* What stands in a queue is of its type. *)
LEMMA EachElement ==
  ASSUME NEW S, NEW q \in Seq(S)
  PROVE  \A i \in DOMAIN q : q[i] \in S
BY ElementOfSeq, LenProperties

(* A queue that is not there has no positions. *)
LEMMA NoElements ==
  ASSUME NEW S
  PROVE  <<>> \in Seq(S) /\ DOMAIN <<>> = {} /\ Len(<<>>) = 0
BY EmptySeq
-----------------------------------------------------------------------------

AskerStates == {"idle", "waiting", "answered", "refused", "timedout"}

(* How an application is built, which no step changes. *)
LEMMA AppFacts ==
  ASSUME TypeOK
  PROVE  /\ built \in Applications /\ built.sends \subseteq Msg
         /\ \A a \in Node :
              /\ Kind[a] \in Kinds
              /\ Parent[a] \in Node \cup {None}
              /\ Forwards[a] \subseteq Msg
              /\ Kind[a] \in {"filter", "map"} <=> Parent[a] # None
         /\ \A S \in SUBSET Node : S # {} => \E a \in S : Parent[a] \notin S
<1>1. built \in Applications /\ built \in Application
  BY FnActorAssumption DEF TypeOK
<1>2. /\ built.kind \in [Node -> Kinds] /\ built.parent \in [Node -> Node \cup {None}]
      /\ built.forwards \in [Node -> SUBSET Msg] /\ built.sends \subseteq Msg
  BY <1>1 DEF Application
<1>. QED
  BY <1>1, <1>2, FnActorAssumption DEF Kind, Parent, Forwards

(* The first of an actor's queue, and the others. *)
LEMMA QueueFacts ==
  ASSUME NEW q \in [Node -> Seq(Msg)], NEW a \in Node, q[a] # <<>>
  PROVE  Head(q[a]) \in Msg /\ [q EXCEPT ![a] = Tail(@)] \in [Node -> Seq(Msg)]
<1>1. q[a] \in Seq(Msg)
  OBVIOUS
<1>2. Head(q[a]) \in Msg /\ Tail(q[a]) \in Seq(Msg)
  BY <1>1, TailElements
<1>. QED
  BY <1>2

(* A message is appended to a queue. *)
LEMMA QueueGrows ==
  ASSUME NEW q \in [Node -> Seq(Msg)], NEW a \in Node, NEW m \in Msg
  PROVE  [q EXCEPT ![a] = Append(@, m)] \in [Node -> Seq(Msg)]
<1>1. q[a] \in Seq(Msg)
  OBVIOUS
<1>2. Append(q[a], m) \in Seq(Msg)
  BY <1>1, AppendElements
<1>. QED
  BY <1>2

(* Who waited on a port that was dropped is in a state of its type. *)
LEMMA RefusedTyped ==
  ASSUME TypeOK, NEW M
  PROVE  Refused(M) \in [Asks -> AskerStates]
BY DEF TypeOK, Refused, AskerStates

(* The places of a channel are a number. *)
LEMMA RoomTyped ==
  ASSUME NEW a
  PROVE  Room(a) \in Nat /\ Room(a) > 0
BY FnActorAssumption DEF Room

(* The channel has room for what is put into it. *)
LEMMA ChannelGrows ==
  ASSUME TypeOK, NEW a \in Node, NEW m \in Msg, ~Full(a)
  PROVE  /\ [channel EXCEPT ![a] = Append(@, m)] \in [Node -> Seq(Msg)]
         /\ \A b \in Node : Len([channel EXCEPT ![a] = Append(@, m)][b]) <= Room(b)
<1>1. channel \in [Node -> Seq(Msg)] /\ \A b \in Node : Len(channel[b]) <= Room(b)
  BY DEF TypeOK
<1>2. Len(Append(channel[a], m)) = Len(channel[a]) + 1 /\ Len(channel[a]) \in Nat
  BY <1>1, AppendElements
<1>3. PICK l \in Nat : l = Len(channel[a]) /\ ~(l >= Room(a))
  BY <1>2 DEF Full
<1>4. Room(a) \in Nat
  BY RoomTyped
<1>5. l + 1 <= Room(a)
  BY <1>3, <1>4
<1>. QED
  BY <1>1, <1>2, <1>3, <1>5, QueueGrows

(* And what is taken from it leaves room. *)
LEMMA ChannelShrinks ==
  ASSUME TypeOK, NEW a \in Node, channel[a] # <<>>
  PROVE  /\ [channel EXCEPT ![a] = Tail(@)] \in [Node -> Seq(Msg)]
         /\ \A b \in Node : Len([channel EXCEPT ![a] = Tail(@)][b]) <= Room(b)
<1>1. channel \in [Node -> Seq(Msg)] /\ \A b \in Node : Len(channel[b]) <= Room(b)
  BY DEF TypeOK
<1>2. PICK l \in Nat : l = Len(channel[a]) /\ Len(Tail(channel[a])) = l - 1 /\ l <= Room(a)
  BY <1>1, TailElements
<1>3. l - 1 <= Room(a)
  BY <1>2, RoomTyped
<1>. QED
  BY <1>1, <1>2, <1>3, QueueFacts
-----------------------------------------------------------------------------
(* TypeOK *)

(* An end. *)
LEMMA EndsTyped ==
  ASSUME TypeOK, NEW a \in Node, NEW how \in {"stopped", "failed", "killed"}, Ends(a, how), built' = built
  PROVE  TypeOK'
<1>1. <<>> \in Seq(Msg)
  BY NoElements
<1>2. status' \in [Node -> Statuses]
  BY DEF TypeOK, Ends, Statuses
<1>3. mailbox' \in [Node -> Seq(Msg)]
  BY <1>1 DEF TypeOK, Ends
<1>4. handling' \in [Node -> Msg \cup {None}]
  BY DEF TypeOK, Ends
<1>5. asker' \in [Asks -> AskerStates]
  BY RefusedTyped DEF Ends
<1>6. doomed' \subseteq Node
  BY DEF TypeOK, Ends, Linked
<1>7. events' \in [Node -> SUBSET Node]
  BY DEF TypeOK, Ends
<1>8. UNCHANGED <<built, stopping, channel, task, entry, order, received>>
  BY DEF Ends
<1>. QED
  BY <1>2, <1>3, <1>4, <1>5, <1>6, <1>7, <1>8 DEF TypeOK, AskerStates, Room, Kind

(* A message is sent, *)
LEMMA AppSendsTyped ==
  ASSUME TypeOK, NEW a \in Node, NEW m \in Msg, AppSends(m, a), built' = built
  PROVE  TypeOK'
<1>1. mailbox' \in [Node -> Seq(Msg)]
  <2>1. mailbox \in [Node -> Seq(Msg)]
    BY DEF TypeOK
  <2>2. mailbox' = mailbox \/ mailbox' = [mailbox EXCEPT ![a] = Append(@, m)]
    BY DEF AppSends
  <2>3. [mailbox EXCEPT ![a] = Append(@, m)] \in [Node -> Seq(Msg)]
    BY <2>1, QueueGrows
  <2>. QED
    BY <2>1, <2>2, <2>3
<1>2. asker' \in [Asks -> AskerStates]
  BY DEF TypeOK, AppSends, AskerStates
<1>3. entry' \in [Msg -> Node \cup {None}]
  BY DEF TypeOK, AppSends
<1>4. order' \in Seq(Msg)
  BY AppendElements DEF TypeOK, AppSends
<1>. QED
  BY <1>1, <1>2, <1>3, <1>4 DEF TypeOK, AppSends, AskerStates, Room, Kind

(* goes on to the function, *)
LEMMA HandlersTyped ==
  ASSUME TypeOK, NEW a \in Node, built' = built,
         HandleIntoChannel(a) \/ HandlerResumes(a) \/ HandleIntoLocalChannel(a)
  PROVE  TypeOK'
<1>1. ASSUME Takes(a)
      PROVE  First(a) \in Msg /\ [mailbox EXCEPT ![a] = Tail(@)] \in [Node -> Seq(Msg)]
  BY <1>1, QueueFacts DEF TypeOK, Takes, First
<1>2. CASE HandleIntoChannel(a)
  <2>1. mailbox' \in [Node -> Seq(Msg)]
    BY <1>1, <1>2 DEF HandleIntoChannel
  <2>2. CASE Full(a)
    <3>1. handling' \in [Node -> Msg \cup {None}] /\ channel' = channel
      BY <1>1, <1>2, <2>2 DEF HandleIntoChannel, TypeOK
    <3>. QED
      BY <1>2, <2>1, <3>1 DEF HandleIntoChannel, TypeOK, Room, Kind
  <2>3. CASE ~Full(a)
    <3>1. channel' = [channel EXCEPT ![a] = Append(@, First(a))] /\ handling' = handling
      BY <1>2, <2>3 DEF HandleIntoChannel
    <3>2. channel' \in [Node -> Seq(Msg)] /\ \A b \in Node : Len(channel'[b]) <= Room(b)
      BY <1>1, <1>2, <2>3, <3>1, ChannelGrows DEF HandleIntoChannel
    <3>. QED
      BY <1>2, <2>1, <3>1, <3>2 DEF HandleIntoChannel, TypeOK, Room, Kind
  <2>. QED
    BY <2>2, <2>3
<1>3. CASE HandlerResumes(a)
  <2>1. handling[a] \in Msg
    BY <1>3 DEF HandlerResumes, TypeOK
  <2>2. channel' \in [Node -> Seq(Msg)] /\ \A b \in Node : Len(channel'[b]) <= Room(b)
    BY <1>3, <2>1, ChannelGrows DEF HandlerResumes
  <2>3. handling' \in [Node -> Msg \cup {None}]
    BY <1>3 DEF HandlerResumes, TypeOK
  <2>. QED
    BY <1>3, <2>2, <2>3 DEF HandlerResumes, TypeOK, Room, Kind
<1>4. CASE HandleIntoLocalChannel(a)
  <2>1. mailbox' \in [Node -> Seq(Msg)]
    BY <1>1, <1>4 DEF HandleIntoLocalChannel
  <2>2. channel' \in [Node -> Seq(Msg)] /\ \A b \in Node : Len(channel'[b]) <= Room(b)
    BY <1>1, <1>4, ChannelGrows DEF HandleIntoLocalChannel
  <2>. QED
    BY <1>4, <2>1, <2>2 DEF HandleIntoLocalChannel, TypeOK, Room, Kind
<1>. QED
  BY <1>2, <1>3, <1>4

(* or to the parent, or is taken. *)
LEMMA TakersTyped ==
  ASSUME TypeOK, NEW a \in Node, built' = built,
         HandleByForwarding(a) \/ FilterTakes(a) \/ \E answers \in BOOLEAN : FunctionTakes(a, answers)
  PROVE  TypeOK'
<1>1. CASE HandleByForwarding(a)
  <2>1. First(a) \in Msg /\ [mailbox EXCEPT ![a] = Tail(@)] \in [Node -> Seq(Msg)]
    BY <1>1, QueueFacts DEF HandleByForwarding, TypeOK, Takes, First
  <2>2. PICK p \in Node : p = Parent[a] /\ p # a
    <3>1. \E b \in {a} : Parent[b] \notin {a}
      BY AppFacts
    <3>. QED
      BY <1>1, <3>1, AppFacts DEF HandleByForwarding
  <2>3. PICK q \in [Node -> Seq(Msg)] : q = [mailbox EXCEPT ![a] = Tail(@)]
    BY <2>1
  <2>4. PICK m \in Msg : m = First(a)
    BY <2>1
  <2>5. mailbox' \in [Node -> Seq(Msg)]
    <3>1. CASE mailbox' = q
      BY <3>1
    <3>2. CASE mailbox' = [mailbox EXCEPT ![a] = Tail(@), ![p] = Append(@, m)]
      <4>1. mailbox' = [q EXCEPT ![p] = Append(@, m)]
        BY <2>2, <2>3, <3>2 DEF TypeOK
      <4>2. [q EXCEPT ![p] = Append(@, m)] \in [Node -> Seq(Msg)]
        BY <2>2, <2>3, <2>4, QueueGrows
      <4>. QED
        BY <4>1, <4>2
    <3>. QED
      BY <1>1, <2>2, <2>3, <2>4, <3>1, <3>2 DEF HandleByForwarding
  <2>6. asker' \in [Asks -> AskerStates]
    BY <1>1, RefusedTyped DEF HandleByForwarding, TypeOK, AskerStates
  <2>. QED
    BY <1>1, <2>5, <2>6 DEF HandleByForwarding, TypeOK, AskerStates, Room, Kind
<1>2. CASE FilterTakes(a)
  <2>1. channel[a] # <<>> /\ Head(channel[a]) \in Msg
    BY <1>2, QueueFacts DEF FilterTakes, TypeOK
  <2>2. PICK p \in Node, m \in Msg : p = Parent[a] /\ m = Head(channel[a])
    BY <1>2, <2>1, AppFacts DEF FilterTakes
  <2>3. channel' \in [Node -> Seq(Msg)] /\ \A b \in Node : Len(channel'[b]) <= Room(b)
    BY <1>2, <2>1, ChannelShrinks DEF FilterTakes
  <2>4. mailbox' = mailbox \/ mailbox' = [mailbox EXCEPT ![p] = Append(@, m)]
    BY <1>2, <2>2 DEF FilterTakes
  <2>5. mailbox' \in [Node -> Seq(Msg)]
    <3>1. mailbox \in [Node -> Seq(Msg)]
      BY DEF TypeOK
    <3>2. [mailbox EXCEPT ![p] = Append(@, m)] \in [Node -> Seq(Msg)]
      BY <3>1, QueueGrows
    <3>. QED
      BY <2>4, <3>1, <3>2
  <2>6. asker' \in [Asks -> AskerStates]
    BY <1>2, RefusedTyped DEF FilterTakes, TypeOK, AskerStates
  <2>. QED
    BY <1>2, <2>3, <2>5, <2>6 DEF FilterTakes, TypeOK, AskerStates, Room, Kind
<1>3. ASSUME NEW answers \in BOOLEAN, FunctionTakes(a, answers)
      PROVE  TypeOK'
  <2>1. channel[a] # <<>> /\ Head(channel[a]) \in Msg
    BY <1>3, QueueFacts DEF FunctionTakes, TypeOK
  <2>2. channel' \in [Node -> Seq(Msg)] /\ \A b \in Node : Len(channel'[b]) <= Room(b)
    BY <1>3, <2>1, ChannelShrinks DEF FunctionTakes
  <2>3. received' \in [Node -> Seq(Msg)]
    BY <1>3, <2>1, QueueGrows DEF FunctionTakes, TypeOK
  <2>4. asker' \in [Asks -> AskerStates]
    BY <1>3, RefusedTyped DEF FunctionTakes, TypeOK, AskerStates
  <2>. QED
    BY <1>3, <2>2, <2>3, <2>4 DEF FunctionTakes, TypeOK, AskerStates, Room, Kind
<1>. QED
  BY <1>1, <1>2, <1>3

(* A function is over, an actor hears of a child or is asked to stop. *)
LEMMA EndingsTyped ==
  ASSUME TypeOK, NEW a \in Node, built' = built,
         FunctionReturns(a) \/ FunctionPanics(a) \/ HandleSupervisorEvt(a) \/ AppStops(a)
  PROVE  TypeOK'
<1>1. ASSUME Drops(a)
      PROVE  /\ channel' \in [Node -> Seq(Msg)] /\ \A b \in Node : Len(channel'[b]) <= Room(b)
             /\ asker' \in [Asks -> AskerStates]
  <2>1. <<>> \in Seq(Msg) /\ \A b \in Node : Len(<<>>) <= Room(b)
    BY NoElements, FnActorAssumption DEF Room, Kind
  <2>. QED
    BY <1>1, <2>1, RefusedTyped DEF Drops, TypeOK
<1>2. CASE FunctionReturns(a)
  <2>1. stopping' \in [Node -> Causes \cup {None}]
    BY <1>2 DEF FunctionReturns, StopsActor, TypeOK, Causes
  <2>2. task' \in [Node -> {"none", "runs", "returned", "panicked"}]
    BY <1>2 DEF FunctionReturns, TypeOK
  <2>3. Drops(a)
    BY <1>2 DEF FunctionReturns
  <2>. QED
    BY <1>1, <1>2, <2>1, <2>2, <2>3 DEF FunctionReturns, TypeOK, AskerStates, Room, Kind
<1>3. CASE FunctionPanics(a)
  <2>1. task' \in [Node -> {"none", "runs", "returned", "panicked"}]
    BY <1>3 DEF FunctionPanics, TypeOK
  <2>2. Drops(a)
    BY <1>3 DEF FunctionPanics
  <2>. QED
    BY <1>1, <1>3, <2>1, <2>2 DEF FunctionPanics, TypeOK, AskerStates, Room, Kind
<1>4. CASE HandleSupervisorEvt(a)
  <2>1. events' \in [Node -> SUBSET Node] /\ stopping' \in [Node -> Causes \cup {None}]
    BY <1>4 DEF HandleSupervisorEvt, TypeOK, Causes
  <2>. QED
    BY <1>4, <2>1 DEF HandleSupervisorEvt, TypeOK, Room, Kind
<1>5. CASE AppStops(a)
  <2>1. stopping' \in [Node -> Causes \cup {None}]
    BY <1>5 DEF AppStops, TypeOK, Causes
  <2>. QED
    BY <1>5, <2>1 DEF AppStops, TypeOK, Room, Kind
<1>. QED
  BY <1>2, <1>3, <1>4, <1>5

(* The steps by which an actor ends. *)
EndsSomehow(a) == HandlerFails(a) \/ ForwardingFails(a) \/ ActorStops(a) \/ ActorIsKilled(a)

(* All steps keep the types. *)
LEMMA NextTyped ==
  ASSUME TypeOK, [Next]_vars
  PROVE  TypeOK'
<1>1. CASE UNCHANGED vars
  BY <1>1 DEF vars, TypeOK, Room, Kind
<1>2. ASSUME built' = built, NEW a \in Node, EndsSomehow(a)
      PROVE  TypeOK'
  BY <1>2, EndsTyped DEF EndsSomehow, HandlerFails, ForwardingFails, ActorStops, ActorIsKilled
<1>3. ASSUME built' = built, NEW a \in Node,
             ActorStep(a) \/ FilterStep(a) \/ FunctionReturns(a) \/ FunctionPanics(a) \/ AppStops(a)
      PROVE  TypeOK'
  BY <1>2, <1>3, HandlersTyped, TakersTyped, EndingsTyped DEF ActorStep, FilterStep, EndsSomehow
<1>4. ASSUME built' = built, NEW a \in Node, NEW answers \in BOOLEAN, FunctionTakes(a, answers)
      PROVE  TypeOK'
  BY <1>4, TakersTyped
<1>5. ASSUME built' = built, NEW a \in Node, NEW m \in Msg, AppSends(m, a)
      PROVE  TypeOK'
  BY <1>5, AppSendsTyped
<1>6. ASSUME built' = built, NEW m \in Msg, AskTimesOut(m)
      PROVE  TypeOK'
  <2>1. asker' \in [Asks -> AskerStates]
    BY <1>6 DEF AskTimesOut, TypeOK, AskerStates
  <2>. QED
    BY <1>6, <2>1 DEF AskTimesOut, TypeOK, AskerStates, Room, Kind
<1>. QED
  BY <1>1, <1>3, <1>4, <1>5, <1>6 DEF Next, Step

(* At first all queues are empty. *)
LEMMA InitTyped ==
  ASSUME Init
  PROVE  TypeOK
<1>1. <<>> \in Seq(Msg) /\ \A b \in Node : Len(<<>>) <= Room(b)
  BY NoElements, FnActorAssumption DEF Room, Kind
<1>. QED
  BY <1>1 DEF Init, TypeOK, Statuses

(* The variables are of their types: no channel holds more than            *)
(* MAX_CHANNEL_SIZE messages, and one more where it is thread-local.       *)
THEOREM TypeCorrect == Spec => []TypeOK
  BY InitTyped, NextTyped, PTL DEF Spec
-----------------------------------------------------------------------------
(* EndsHaveCause *)

(* The invariant: what an actor has been told, or is being asked, has its  *)
(* cause already.                                                          *)
DueInvariant == TypeOK /\ KindsAreKept /\ EndsAreDue /\ EndsHaveCause

(* Why an actor may end in this way. *)
Due(a, how) ==
  /\ how = "failed" =>
       IF HasFunction(a) THEN ~Alive(a) \/ LimitReached(a)
                         ELSE Parent[a] # None /\ ~Running(Parent[a])
  /\ how = "stopped" =>
       \/ stopping[a] = "app"
       \/ task[a] = "returned"
       \/ Kind[a] = "map" /\ \E d \in Linked(a) : ~Running(d)
  /\ how = "killed" => Parent[a] # None /\ ~Running(Parent[a])

(* What a function has taken, and what its channel holds, are counted. *)
LEMMA GivenTyped ==
  ASSUME TypeOK, NEW a \in Node
  PROVE  Len(received[a]) \in Nat /\ Len(channel[a]) \in Nat
<1>1. received[a] \in Seq(Msg) /\ channel[a] \in Seq(Msg)
  BY DEF TypeOK
<1>. QED
  BY <1>1, LenProperties

(* Every step by which an actor ends is the end of a running actor, and it *)
(* is due.                                                                 *)
LEMMA EndsWhenDue ==
  ASSUME DueInvariant, NEW a \in Node, EndsSomehow(a)
  PROVE  /\ Running(a)
         /\ \E how \in {"stopped", "failed", "killed"} : Ends(a, how) /\ Due(a, how)
<1>1. CASE HandlerFails(a)
  <2>1. Running(a) /\ Ends(a, "failed") /\ HasFunction(a)
    BY <1>1 DEF HandlerFails, Overflows, Takes, Ready
  <2>2. ~Alive(a) \/ LimitReached(a)
    <3>1. PICK k \in Nat, n \in Nat : k = Len(received[a]) /\ n = Len(channel[a])
      BY GivenTyped DEF DueInvariant
    <3>2. ~Alive(a) \/ (Kind[a] = "local" /\ n >= Capacity + 1)
      BY <1>1, <3>1 DEF HandlerFails, Overflows, Full, Room
    <3>4. Capacity \in Nat
      BY FnActorAssumption
    <3>3. n >= Capacity + 1 => k + n >= Capacity + 1
      BY <3>4
    <3>. QED
      BY <3>1, <3>2, <3>3 DEF LimitReached
  <2>3. Due(a, "failed")
    BY <2>1, <2>2 DEF Due
  <2>. QED
    BY <2>1, <2>3
<1>2. CASE ForwardingFails(a)
  <2>1. /\ Running(a) /\ Ends(a, "failed") /\ ~HasFunction(a)
        /\ Parent[a] # None /\ ~Running(Parent[a])
    BY <1>2, AppFacts DEF ForwardingFails, Takes, Ready, HasFunction, DueInvariant
  <2>2. Due(a, "failed")
    BY <2>1 DEF Due
  <2>. QED
    BY <2>1, <2>2
<1>3. CASE ActorStops(a)
  <2>1. Running(a) /\ Ends(a, "stopped") /\ stopping[a] \in Causes
    BY <1>3 DEF ActorStops, DueInvariant, TypeOK
  <2>2. Due(a, "stopped")
    BY <2>1 DEF Due, DueInvariant, EndsAreDue, Causes
  <2>. QED
    BY <2>1, <2>2
<1>4. CASE ActorIsKilled(a)
  <2>1. Running(a) /\ Ends(a, "killed") /\ a \in doomed
    BY <1>4 DEF ActorIsKilled
  <2>2. Due(a, "killed")
    BY <2>1 DEF Due, DueInvariant, EndsAreDue
  <2>. QED
    BY <2>1, <2>2
<1>. QED
  BY <1>1, <1>2, <1>3, <1>4 DEF EndsSomehow

(* The end of an actor is a cause for those that depend on it. *)
LEMMA EndsDue ==
  ASSUME DueInvariant, NEW a \in Node, NEW how \in {"stopped", "failed", "killed"},
         Running(a), Ends(a, how), Due(a, how), built' = built
  PROVE  (KindsAreKept /\ EndsAreDue /\ EndsHaveCause)'
<1>1. /\ status' = [status EXCEPT ![a] = how] /\ status'[a] = how /\ how # "running"
      /\ \A b \in Node \ {a} : status'[b] = status[b]
      /\ \A b : Linked(b)' = Linked(b)
      /\ UNCHANGED <<built, stopping, channel, task, received>>
  BY DEF DueInvariant, TypeOK, Ends, Linked, Parent
<1>2. \A b \in Node : ~Running(b) => ~Running(b)'
  BY <1>1 DEF Running
<1>3. \A b \in Node : Parent[b] \in Node \cup {None}
  BY AppFacts DEF DueInvariant
<1>5. KindsAreKept'
  <2>1. \A b \in Node : handling'[b] = handling[b] \/ handling'[b] = None
    BY DEF Ends, DueInvariant, TypeOK
  <2>. QED
    BY <1>1, <2>1 DEF DueInvariant, KindsAreKept, HasFunction, Kind, Parent
<1>6. EndsAreDue'
  <2>. SUFFICES ASSUME NEW b \in Node
                PROVE  (/\ stopping[b] = "function" => task[b] = "returned"
                        /\ stopping[b] = "child" => Kind[b] = "map" /\ \E d \in Linked(b) : ~Running(d)
                        /\ events[b] \subseteq {d \in Linked(b) : ~Running(d)}
                        /\ b \in doomed => Parent[b] # None /\ ~Running(Parent[b]))'
    BY DEF EndsAreDue
  <2>1. Linked(b) \subseteq Node
    BY DEF Linked
  <2>2. (stopping[b] = "function" => task[b] = "returned")'
    BY <1>1 DEF DueInvariant, EndsAreDue
  <2>3. (stopping[b] = "child" => Kind[b] = "map" /\ \E d \in Linked(b) : ~Running(d))'
    BY <1>1, <1>2, <2>1 DEF DueInvariant, EndsAreDue, Kind
  <2>4. events'[b] \subseteq events[b] \cup {d \in {a} : a \in Linked(b)}
    BY DEF Ends
  <2>5. (events[b] \subseteq {d \in Linked(b) : ~Running(d)})'
    BY <1>1, <1>2, <2>1, <2>4 DEF DueInvariant, EndsAreDue, Running
  <2>6. ASSUME b \in doomed'
        PROVE  Parent'[b] # None /\ ~Running(Parent[b])'
    <3>1. CASE b \in doomed
      <4>1. Parent[b] \in Node /\ ~Running(Parent[b])
        BY <1>3, <3>1 DEF DueInvariant, EndsAreDue
      <4>. QED
        BY <1>1, <1>2, <4>1, FnActorAssumption DEF Parent
    <3>2. CASE b \in Linked(a)
      BY <1>1, <3>2, FnActorAssumption DEF Linked, Parent, Running
    <3>. QED
      BY <2>6, <3>1, <3>2 DEF Ends
  <2>. QED
    BY <2>2, <2>3, <2>5, <2>6
<1>7. EndsHaveCause'
  <2>. SUFFICES ASSUME NEW b \in Node
                PROVE  Due(b, status[b])'
    BY DEF EndsHaveCause, Due
  <2>1. Due(b, status'[b])
    <3>1. CASE b = a
      BY <1>1, <3>1
    <3>2. CASE b # a
      BY <1>1, <3>2 DEF DueInvariant, EndsHaveCause, Due
    <3>. QED
      BY <3>1, <3>2
  <2>2. Linked(b) \subseteq Node /\ Linked(b)' = Linked(b)
    BY <1>1 DEF Linked
  <2>3. Parent[b] # None /\ ~Running(Parent[b]) => ~Running(Parent[b])'
    BY <1>1, <1>2, <1>3 DEF Parent
  <2>. QED
    BY <1>1, <1>2, <2>1, <2>2, <2>3 DEF Due, Kind, Parent, HasFunction, Alive, LimitReached
<1>. QED
  BY <1>5, <1>6, <1>7

(* A step by which none ends: what an actor has been told, or what it is   *)
(* asked, changes for a cause.                                             *)
NoneEnds ==
  /\ UNCHANGED <<built, status, doomed>>
  /\ \A b \in Node : events'[b] \subseteq events[b]
  /\ \A b \in Node :
       \/ stopping'[b] = stopping[b]
       \/ stopping[b] = None /\ stopping'[b] = "app"
       \/ stopping[b] = None /\ stopping'[b] = "function" /\ task'[b] = "returned"
       \/ stopping[b] = None /\ stopping'[b] = "child" /\ Kind[b] = "map" /\ events[b] # {}
  /\ \A b \in Node : task'[b] = task[b] \/ (Alive(b) /\ task'[b] \in {"returned", "panicked"})
  /\ \A b \in Node : ~HasFunction(b) => channel'[b] = <<>> /\ handling'[b] = None
  /\ \A b \in Node : Parent[b] # None => received'[b] = received[b]
  /\ \A b \in Node : Kind[b] = "local" /\ task'[b] = task[b] =>
       \/ received'[b] = received[b] /\ channel'[b] = channel[b]
       \/ Len(received'[b]) + Len(channel'[b]) >= Len(received[b]) + Len(channel[b])

(* Such a step leaves no end, and no request to end, without its cause. *)
LEMMA OthersDue ==
  ASSUME DueInvariant, TypeOK', NoneEnds
  PROVE  (KindsAreKept /\ EndsAreDue /\ EndsHaveCause)'
<1>0. UNCHANGED <<built, status, doomed>>
  BY DEF NoneEnds
<1>1. /\ \A b \in Node : Running(b)' = Running(b) /\ Linked(b)' = Linked(b)
      /\ UNCHANGED <<Kind, Parent>>
  BY <1>0 DEF Running, Linked, Kind, Parent
<1>2. KindsAreKept'
  BY <1>1 DEF DueInvariant, KindsAreKept, HasFunction, Alive, NoneEnds
<1>3. EndsAreDue'
  <2>. SUFFICES ASSUME NEW b \in Node
                PROVE  (/\ stopping[b] = "function" => task[b] = "returned"
                        /\ stopping[b] = "child" => Kind[b] = "map" /\ \E d \in Linked(b) : ~Running(d)
                        /\ events[b] \subseteq {d \in Linked(b) : ~Running(d)}
                        /\ b \in doomed => Parent[b] # None /\ ~Running(Parent[b]))'
    BY DEF EndsAreDue
  <2>1. Linked(b) \subseteq Node
    BY DEF Linked
  <2>2. (stopping[b] = "function" => task[b] = "returned")'
    BY FnActorAssumption DEF DueInvariant, EndsAreDue, Alive, NoneEnds, Causes
  <2>3. (stopping[b] = "child" => Kind[b] = "map" /\ \E d \in Linked(b) : ~Running(d))'
    BY <1>1, <2>1, FnActorAssumption DEF DueInvariant, EndsAreDue, NoneEnds, Causes
  <2>4. (events[b] \subseteq {d \in Linked(b) : ~Running(d)})'
    BY <1>1, <2>1 DEF DueInvariant, EndsAreDue, NoneEnds
  <2>5. (b \in doomed => Parent[b] # None /\ ~Running(Parent[b]))'
    BY <1>0, <1>1 DEF DueInvariant, EndsAreDue, Running
  <2>. QED
    BY <2>2, <2>3, <2>4, <2>5
<1>4. EndsHaveCause'
  <2>. SUFFICES ASSUME NEW b \in Node
                PROVE  Due(b, status[b])'
    BY DEF EndsHaveCause, Due
  <2>1. Due(b, status[b])
    BY DEF DueInvariant, EndsHaveCause, Due
  <2>2. Linked(b) \subseteq Node
    BY DEF Linked
  <2>3. stopping[b] = "app" => stopping'[b] = "app"
    BY FnActorAssumption DEF NoneEnds, Causes
  <2>4. /\ task[b] = "returned" => task'[b] = "returned"
        /\ ~Alive(b) => ~Alive(b)'
    BY DEF NoneEnds, Alive
  <2>0. /\ Len(received[b]) \in Nat /\ Len(channel[b]) \in Nat
        /\ Len(received'[b]) \in Nat /\ Len(channel'[b]) \in Nat
    BY LenProperties DEF TypeOK, DueInvariant
  <2>8. ~Alive(b) \/ LimitReached(b) => ~Alive(b)' \/ LimitReached(b)'
    <3>1. CASE task'[b] # task[b]
      BY <2>4, <3>1 DEF NoneEnds, Alive
    <3>2. CASE task'[b] = task[b]
      <4>1. PICK k \in Nat, n \in Nat : k = Len(received[b]) /\ n = Len(channel[b])
        BY <2>0
      <4>2. PICK i \in Nat, j \in Nat : i = Len(received'[b]) /\ j = Len(channel'[b])
        BY <2>0
      <4>3. Kind[b] = "local" => (i = k /\ j = n) \/ i + j >= k + n
        BY <3>2, <4>1, <4>2 DEF NoneEnds
      <4>5. LimitReached(b) => Kind[b] = "local" /\ k + n >= Capacity + 1
        BY <4>1 DEF LimitReached
      <4>6. LimitReached(b) => Kind'[b] = "local" /\ i + j >= Capacity + 1
        BY <1>1, <4>3, <4>5, FnActorAssumption
      <4>4. LimitReached(b) => LimitReached(b)'
        BY <4>2, <4>6 DEF LimitReached
      <4>. QED
        BY <2>4, <4>4
    <3>. QED
      BY <3>1, <3>2
  <2>5. (status[b] = "failed" => IF HasFunction(b) THEN ~Alive(b) \/ LimitReached(b)
                                 ELSE Parent[b] # None /\ ~Running(Parent[b]))'
    BY <1>0, <1>1, <2>1, <2>8 DEF Due, HasFunction, Running
  <2>6. (status[b] = "stopped" => \/ stopping[b] = "app"
                                  \/ task[b] = "returned"
                                  \/ Kind[b] = "map" /\ \E d \in Linked(b) : ~Running(d))'
    BY <1>0, <1>1, <2>1, <2>2, <2>3, <2>4 DEF Due
  <2>7. (status[b] = "killed" => Parent[b] # None /\ ~Running(Parent[b]))'
    BY <1>0, <1>1, <2>1 DEF Due, Running
  <2>. QED
    BY <2>5, <2>6, <2>7 DEF Due
<1>. QED
  BY <1>2, <1>3, <1>4

(* All steps keep the invariant. *)
LEMMA NextDue ==
  ASSUME DueInvariant, [Next]_vars
  PROVE  DueInvariant'
<1>. DEFINE Rest == (KindsAreKept /\ EndsAreDue /\ EndsHaveCause)'
<1>. SUFFICES Rest
  BY NextTyped DEF DueInvariant
<1>0. /\ TypeOK /\ TypeOK'
      /\ \A b \in Node : ~HasFunction(b) => channel[b] = <<>> /\ handling[b] = None
  BY NextTyped DEF DueInvariant, KindsAreKept
<1>1. CASE UNCHANGED vars
  BY <1>1 DEF vars, DueInvariant, KindsAreKept, EndsAreDue, EndsHaveCause, HasFunction, Linked,
              Running, Alive, Kind, Parent, LimitReached
<1>2. ASSUME built' = built, NEW a \in Node, EndsSomehow(a)
      PROVE  Rest
  BY <1>2, EndsWhenDue, EndsDue
<1>3. ASSUME built' = built, NEW a \in Node,
             HandleIntoChannel(a) \/ HandlerResumes(a) \/ HandleIntoLocalChannel(a)
      PROVE  Rest
  <2>1. UNCHANGED <<status, doomed, events, stopping, task, received>>
    BY <1>3 DEF HandleIntoChannel, HandlerResumes, HandleIntoLocalChannel
  <2>2. \A b \in Node \ {a} : channel'[b] = channel[b] /\ handling'[b] = handling[b]
    BY <1>0, <1>3 DEF HandleIntoChannel, HandlerResumes, HandleIntoLocalChannel, TypeOK
  <2>3. HasFunction(a)
    BY <1>0, <1>3 DEF HandleIntoChannel, HandlerResumes, HandleIntoLocalChannel, HasFunction
  <2>4. Len(received'[a]) + Len(channel'[a]) >= Len(received[a]) + Len(channel[a])
    <3>1. PICK k \in Nat, n \in Nat : k = Len(received[a]) /\ n = Len(channel[a])
      BY <1>0, GivenTyped
    <3>6. mailbox[a] # <<>> => First(a) \in Msg
      BY <1>0, QueueFacts DEF First, TypeOK
    <3>2. PICK m \in Msg : channel' = [channel EXCEPT ![a] = Append(@, m)] \/ channel' = channel
      <4>1. CASE HandlerResumes(a)
        <5>1. handling[a] \in Msg
          BY <1>0, <4>1 DEF HandlerResumes, TypeOK
        <5>. QED
          BY <4>1, <5>1 DEF HandlerResumes
      <4>2. CASE HandleIntoChannel(a) \/ HandleIntoLocalChannel(a)
        BY <3>6, <4>2 DEF HandleIntoChannel, HandleIntoLocalChannel, Takes
      <4>. QED
        BY <1>3, <4>1, <4>2
    <3>3. channel[a] \in Seq(Msg) /\ channel \in [Node -> Seq(Msg)]
      BY <1>0 DEF TypeOK
    <3>4. Len(Append(channel[a], m)) = n + 1
      BY <3>1, <3>3, AppendElements
    <3>5. Len(channel'[a]) = n \/ Len(channel'[a]) = n + 1
      BY <3>1, <3>2, <3>3, <3>4
    <3>. QED
      BY <2>1, <3>1, <3>5
  <2>9. NoneEnds
    BY <1>0, <1>3, <2>1, <2>2, <2>3, <2>4 DEF NoneEnds
  <2>. QED
    BY <1>0, <2>9, OthersDue
<1>4. ASSUME built' = built, NEW a \in Node, HandleByForwarding(a)
      PROVE  Rest
  <2>1. UNCHANGED <<status, doomed, events, stopping, task, received, channel, handling>>
    BY <1>4 DEF HandleByForwarding
  <2>9. NoneEnds
    BY <1>0, <1>4, <2>1 DEF NoneEnds
  <2>. QED
    BY <1>0, <2>9, OthersDue
<1>5. ASSUME built' = built, NEW a \in Node,
             FilterTakes(a) \/ \E answers \in BOOLEAN : FunctionTakes(a, answers)
      PROVE  Rest
  <2>1. UNCHANGED <<status, doomed, events, stopping, task, handling>>
    BY <1>5 DEF FilterTakes, FunctionTakes
  <2>2. \A b \in Node \ {a} : channel'[b] = channel[b] /\ received'[b] = received[b]
    BY <1>0, <1>5 DEF FilterTakes, FunctionTakes, TypeOK
  <2>3. HasFunction(a) /\ (Parent[a] # None => received'[a] = received[a])
    BY <1>0, <1>5, AppFacts DEF FilterTakes, FunctionTakes, HasFunction
  <2>4. Kind[a] = "local" =>
          Len(received'[a]) + Len(channel'[a]) >= Len(received[a]) + Len(channel[a])
    <3>. SUFFICES ASSUME Kind[a] = "local"
                  PROVE  Len(received'[a]) + Len(channel'[a]) >= Len(received[a]) + Len(channel[a])
      OBVIOUS
    <3>1. PICK k \in Nat, n \in Nat : k = Len(received[a]) /\ n = Len(channel[a])
      BY <1>0, GivenTyped
    <3>2. /\ received[a] \in Seq(Msg) /\ channel[a] \in Seq(Msg)
          /\ received \in [Node -> Seq(Msg)] /\ channel \in [Node -> Seq(Msg)]
      BY <1>0 DEF TypeOK
    <3>3. channel[a] # <<>> /\ received' = [received EXCEPT ![a] = Append(@, Head(channel[a]))]
          /\ channel' = [channel EXCEPT ![a] = Tail(@)]
      BY <1>5 DEF FilterTakes, FunctionTakes
    <3>4. Len(Tail(channel[a])) = n - 1 /\ Head(channel[a]) \in Msg
      BY <3>1, <3>2, <3>3, TailElements
    <3>5. Len(Append(received[a], Head(channel[a]))) = k + 1
      BY <3>1, <3>2, <3>4, AppendElements
    <3>6. Len(received'[a]) = k + 1 /\ Len(channel'[a]) = n - 1
      BY <3>2, <3>3, <3>4, <3>5
    <3>7. (k + 1) + (n - 1) >= k + n
      OBVIOUS
    <3>. QED
      BY <3>1, <3>6, <3>7
  <2>9. NoneEnds
    BY <1>0, <1>5, <2>1, <2>2, <2>3, <2>4 DEF NoneEnds
  <2>. QED
    BY <1>0, <2>9, OthersDue
<1>6. ASSUME built' = built, NEW a \in Node, FunctionReturns(a) \/ FunctionPanics(a)
      PROVE  Rest
  <2>1. UNCHANGED <<status, doomed, events, handling, received>> /\ Alive(a)
    BY <1>6 DEF FunctionReturns, FunctionPanics
  <2>2. /\ \A b \in Node : channel'[b] = channel[b] \/ channel'[b] = <<>>
        /\ \A b \in Node : task'[b] = task[b] \/ (Alive(b) /\ task'[b] \in {"returned", "panicked"})
    BY <1>0, <1>6 DEF FunctionReturns, FunctionPanics, Drops, TypeOK, Alive
  <2>3. \A b \in Node : \/ stopping'[b] = stopping[b]
                        \/ stopping[b] = None /\ stopping'[b] = "function" /\ task'[b] = "returned"
    <3>1. CASE FunctionPanics(a)
      BY <3>1 DEF FunctionPanics
    <3>2. CASE FunctionReturns(a)
      BY <1>0, <3>2 DEF FunctionReturns, StopsActor, TypeOK
    <3>. QED
      BY <1>6, <3>1, <3>2
  <2>4. \A b \in Node : task'[b] = task[b] => channel'[b] = channel[b]
    BY <1>0, <1>6 DEF FunctionReturns, FunctionPanics, Drops, TypeOK, Alive
  <2>9. NoneEnds
    BY <1>0, <1>6, <2>1, <2>2, <2>3, <2>4 DEF NoneEnds
  <2>. QED
    BY <1>0, <2>9, OthersDue
<1>7. ASSUME built' = built, NEW a \in Node, HandleSupervisorEvt(a)
      PROVE  Rest
  <2>1. UNCHANGED <<status, doomed, task, handling, received, channel>>
    BY <1>7 DEF HandleSupervisorEvt
  <2>2. \A b \in Node : events'[b] \subseteq events[b]
    BY <1>0, <1>7 DEF HandleSupervisorEvt, TypeOK
  <2>3. \A b \in Node : \/ stopping'[b] = stopping[b]
                        \/ stopping'[b] = "child" /\ stopping[b] = None /\ Kind[b] = "map" /\ events[b] # {}
    BY <1>0, <1>7 DEF HandleSupervisorEvt, StopsWithChild, TypeOK
  <2>9. NoneEnds
    BY <1>0, <1>7, <2>1, <2>2, <2>3 DEF NoneEnds
  <2>. QED
    BY <1>0, <2>9, OthersDue
<1>8. ASSUME built' = built, NEW a \in Node, AppStops(a)
      PROVE  Rest
  <2>1. UNCHANGED <<status, doomed, task, events, handling, received, channel>>
    BY <1>8 DEF AppStops
  <2>2. \A b \in Node : stopping'[b] = stopping[b] \/ (stopping[b] = None /\ stopping'[b] = "app")
    BY <1>0, <1>8 DEF AppStops, TypeOK
  <2>9. NoneEnds
    BY <1>0, <1>8, <2>1, <2>2 DEF NoneEnds
  <2>. QED
    BY <1>0, <2>9, OthersDue
<1>9. ASSUME built' = built, NEW a, NEW m \in Msg, AppSends(m, a) \/ AskTimesOut(m)
      PROVE  Rest
  <2>1. UNCHANGED <<status, doomed, task, events, stopping, handling, received, channel>>
    BY <1>9 DEF AppSends, AskTimesOut
  <2>9. NoneEnds
    BY <1>0, <1>9, <2>1 DEF NoneEnds
  <2>. QED
    BY <1>0, <2>9, OthersDue
<1>10. CASE Next
  BY <1>2, <1>3, <1>4, <1>5, <1>6, <1>7, <1>8, <1>9, <1>10
     DEF Next, Step, ActorStep, FilterStep, EndsSomehow
<1>. QED
  BY <1>1, <1>10

(* At first all run. *)
LEMMA InitDue ==
  ASSUME Init
  PROVE  DueInvariant
<1>1. TypeOK
  BY InitTyped
<1>2. KindsAreKept
  BY <1>1 DEF Init, KindsAreKept, TypeOK
<1>3. EndsAreDue
  BY <1>1, FnActorAssumption DEF Init, EndsAreDue, TypeOK, Causes
<1>4. EndsHaveCause
  BY <1>1 DEF Init, EndsHaveCause, TypeOK
<1>. QED
  BY <1>1, <1>2, <1>3, <1>4 DEF DueInvariant

(* What actors have been told and are being asked has its cause: StopsActor *)
(* and HandleSupervisorEvt.                                                *)
THEOREM DueInvariantCorrect == Spec => []DueInvariant
  BY InitDue, NextDue, PTL DEF Spec

(* An actor only fails, stops or is killed when its function, its parent,  *)
(* an actor derived from it or the application has given cause, or its     *)
(* thread-local channel is full.                                           *)
THEOREM EndsAreCaused == Spec => []EndsHaveCause
<1>1. DueInvariant => EndsHaveCause
  BY DEF DueInvariant
<1>. QED
  BY <1>1, DueInvariantCorrect, PTL
-----------------------------------------------------------------------------
(* Ways from an actor to the one that all were derived from                *)

(* The way is what is left when all that it can do without is taken away.  *)
LEMMA RouteIsLeast ==
  ASSUME TypeOK
  PROVE  /\ \A a \in Node : a \in Route(a) /\ Route(a) \subseteq Node
         /\ \A a \in Node : \A d \in Route(a) : Parent[d] # None => Parent[d] \in Route(a)
         /\ \A a \in Node, S \in SUBSET Node : a \in S /\ Upward(S) => Route(a) \subseteq S
<1>1. \A a \in Node : Parent[a] \in Node \cup {None}
  BY AppFacts
<1>. QED
  BY <1>1 DEF Route, Upward

(* It is part of the way from an actor that this one was derived from. *)
LEMMA RouteGoesOn ==
  ASSUME TypeOK, NEW a \in Node, NEW d \in Route(a)
  PROVE  d \in Node /\ Route(d) \subseteq Route(a)
<1>1. Route(a) \in SUBSET Node /\ d \in Node
  BY RouteIsLeast
<1>2. Upward(Route(a))
  BY RouteIsLeast DEF Upward
<1>. QED
  BY <1>1, <1>2, RouteIsLeast

(* It ends where nothing is derived from, *)
LEMMA RouteOfRoot ==
  ASSUME TypeOK, NEW a \in Node, Parent[a] = None
  PROVE  Route(a) = {a}
<1>1. Upward({a})
  BY DEF Upward
<1>. QED
  BY <1>1, RouteIsLeast

(* goes by the parent,  *)
LEMMA RouteOfDerived ==
  ASSUME TypeOK, NEW a \in Node, NEW p \in Node, p = Parent[a]
  PROVE  p \in Route(a) /\ Route(a) = {a} \cup Route(p)
<1>1. p # None /\ p \in Route(a)
  BY RouteIsLeast, FnActorAssumption
<1>2. {a} \cup Route(p) \in SUBSET Node
  BY RouteIsLeast
<1>3. Upward({a} \cup Route(p))
  BY RouteIsLeast DEF Upward
<1>4. Route(a) \subseteq {a} \cup Route(p)
  BY <1>2, <1>3, RouteIsLeast
<1>. QED
  BY <1>1, <1>4, RouteIsLeast, RouteGoesOn

(* and never comes back. *)
LEMMA RouteLeaves ==
  ASSUME TypeOK, NEW a \in Node, NEW p \in Node, p = Parent[a]
  PROVE  a \notin Route(p)
<1>. SUFFICES ASSUME a \in Route(p)
              PROVE  FALSE
  OBVIOUS
<1>1. p # None
  BY FnActorAssumption
<1>. DEFINE S == {x \in Node : x \in Route(a) /\ a \in Route(x)}
<1>2. a \in S
  BY RouteIsLeast
<1>3. ASSUME NEW x \in S
      PROVE  Parent[x] \in S
  <2>1. Parent[x] # None
    BY <1>1, RouteOfRoot
  <2>2. PICK y \in Node : y = Parent[x] /\ y \in Route(a)
    BY <2>1, AppFacts, RouteIsLeast
  <2>3. Route(x) = {x} \cup Route(y)
    BY <2>2, RouteOfDerived
  <2>4. a \in Route(y)
    BY <2>2, <2>3
  <2>. QED
    BY <2>2, <2>4
<1>4. S \in SUBSET Node /\ S # {}
  BY <1>2
<1>. HIDE DEF S
<1>. QED
  BY <1>3, <1>4, AppFacts

(* So it is a chain. *)
LEMMA RouteIsChain ==
  ASSUME TypeOK
  PROVE  /\ \A a \in Node : \A b, c \in Route(a) : b \in Route(c) \/ c \in Route(b)
         /\ \A b, c \in Node : b \in Route(c) /\ c \in Route(b) => b = c
<1>1. ASSUME NEW a \in Node
      PROVE  \A b, c \in Route(a) : b \in Route(c) \/ c \in Route(b)
  <2>. DEFINE S == {x \in Route(a) : \A y \in Route(a) : y \in Route(x) \/ x \in Route(y)}
  <2>1. a \in S /\ S \in SUBSET Node
    BY RouteIsLeast
  <2>2. ASSUME NEW x \in S, Parent[x] # None
        PROVE  Parent[x] \in S
    <3>1. x \in Node
      BY <2>1
    <3>2. PICK z \in Node : z = Parent[x] /\ z \in Route(a)
      BY <2>2, <3>1, AppFacts, RouteIsLeast
    <3>3. Route(x) = {x} \cup Route(z) /\ z \in Route(x)
      BY <3>1, <3>2, RouteOfDerived
    <3>4. ASSUME NEW y \in Route(a)
          PROVE  y \in Route(z) \/ z \in Route(y)
      <4>1. y \in Node
        BY RouteIsLeast
      <4>2. CASE x \in Route(y)
        BY <2>2, <3>2, <4>1, <4>2, RouteIsLeast
      <4>3. CASE y \in Route(x)
        BY <3>3, <4>3
      <4>. QED
        BY <4>2, <4>3
    <3>. QED
      BY <3>2, <3>4
  <2>3. Upward(S)
    BY <2>2 DEF Upward
  <2>4. Route(a) \subseteq S
    BY <2>1, <2>3, RouteIsLeast
  <2>. QED
    BY <2>4
<1>2. ASSUME NEW b \in Node, NEW c \in Node, b \in Route(c), c \in Route(b), b # c
      PROVE  FALSE
  <2>1. Parent[b] # None
    BY <1>2, RouteOfRoot
  <2>2. PICK p \in Node : p = Parent[b]
    BY <2>1, AppFacts
  <2>3. c \in Route(p)
    BY <1>2, <2>2, RouteOfDerived
  <2>4. b \in Route(p)
    BY <1>2, <2>3, RouteGoesOn
  <2>. QED
    BY <2>2, <2>4, RouteLeaves
<1>. QED
  BY <1>1, <1>2
-----------------------------------------------------------------------------
(* Queues one behind the other                                             *)

(* The positions in two queues, one behind the other. *)
LEMMA ConcatElements ==
  ASSUME NEW S, NEW q \in Seq(S), NEW r \in Seq(S)
  PROVE  /\ q \o r \in Seq(S)
         /\ Len(q) \in Nat /\ Len(r) \in Nat
         /\ DOMAIN q = 1 .. Len(q) /\ DOMAIN r = 1 .. Len(r)
         /\ Len(q \o r) = Len(q) + Len(r)
         /\ DOMAIN (q \o r) = 1 .. Len(q) + Len(r)
         /\ \A i \in 1 .. Len(q) : i \in DOMAIN (q \o r) /\ (q \o r)[i] = q[i]
         /\ \A i \in DOMAIN (q \o r) : i \notin 1 .. Len(q) =>
              i - Len(q) \in 1 .. Len(r) /\ (q \o r)[i] = r[i - Len(q)]
<1>1. PICK k \in Nat, l \in Nat : k = Len(q) /\ l = Len(r)
  BY LenProperties
<1>2. /\ q \o r \in Seq(S)
      /\ Len(q \o r) = k + l
      /\ \A i \in 1 .. k + l : (q \o r)[i] = IF i <= k THEN q[i] ELSE r[i - k]
  BY <1>1, ConcatProperties
<1>3. DOMAIN q = 1 .. k /\ DOMAIN r = 1 .. l /\ DOMAIN (q \o r) = 1 .. k + l
  BY <1>1, <1>2, LenProperties
<1>. QED
  BY <1>1, <1>2, <1>3

(* A queue is its first, and the others behind. *)
LEMMA FirstAndOthers ==
  ASSUME NEW S, NEW q \in Seq(S), q # <<>>
  PROVE  Head(q) \in S /\ Tail(q) \in Seq(S) /\ <<Head(q)>> \in Seq(S) /\ q = <<Head(q)>> \o Tail(q)
<1>1. /\ Tail(q) \in Seq(S) /\ Head(q) \in S /\ Head(q) = q[1]
      /\ Len(Tail(q)) = Len(q) - 1
      /\ \A i \in DOMAIN Tail(q) : Tail(q)[i] = q[i + 1]
  BY TailElements
<1>2. <<Head(q)>> \in Seq(S) /\ Len(<<Head(q)>>) = 1
  BY <1>1
<1>3. PICK l \in Nat : l = Len(q) /\ l > 0 /\ DOMAIN q = 1 .. l
  BY TailElements
<1>4. /\ DOMAIN Tail(q) = 1 .. l - 1
      /\ <<Head(q)>> \o Tail(q) \in Seq(S)
      /\ Len(<<Head(q)>> \o Tail(q)) = 1 + (l - 1)
      /\ \A i \in 1 .. 1 + (l - 1) : (<<Head(q)>> \o Tail(q))[i] =
           IF i <= 1 THEN <<Head(q)>>[i] ELSE Tail(q)[i - 1]
  BY <1>1, <1>2, <1>3, TailElements, ConcatProperties
<1>5. \A i \in 1 .. l : (<<Head(q)>> \o Tail(q))[i] = q[i]
  <2>. SUFFICES ASSUME NEW i \in 1 .. l
                PROVE  (<<Head(q)>> \o Tail(q))[i] = q[i]
    OBVIOUS
  <2>1. CASE i = 1
    BY <1>1, <1>3, <1>4, <2>1
  <2>2. CASE i # 1
    <3>1. i - 1 \in 1 .. l - 1 /\ (i - 1) + 1 = i /\ ~(i <= 1) /\ i \in 1 .. 1 + (l - 1)
      BY <1>3, <2>2
    <3>. QED
      BY <1>1, <1>4, <3>1
  <2>. QED
    BY <2>1, <2>2
<1>6. Len(<<Head(q)>> \o Tail(q)) = l
  BY <1>3, <1>4
<1>. QED
  BY <1>1, <1>2, <1>3, <1>4, <1>5, <1>6, SeqEqual

(* What is taken is the first of the queue in front. *)
LEMMA FirstOfConcat ==
  ASSUME NEW S, NEW q \in Seq(S), NEW r \in Seq(S), q # <<>>
  PROVE  q \o r # <<>> /\ Head(q \o r) = Head(q) /\ Tail(q \o r) = Tail(q) \o r
<1>1. Head(q) \in S /\ Tail(q) \in Seq(S) /\ <<Head(q)>> \in Seq(S) /\ q = <<Head(q)>> \o Tail(q)
  BY FirstAndOthers
<1>2. PICK t \in Seq(S) : t = Tail(q) \o r
  BY <1>1, ConcatProperties
<1>3. q \o r = <<Head(q)>> \o t
  BY <1>1, <1>2, ConcatAssociative
<1>4. PICK h \in S : h = Head(q)
  BY <1>1
<1>5. /\ <<h>> \in Seq(S) /\ Len(<<h>>) = 1
      /\ <<h>> \o t \in Seq(S)
  BY <1>4, ConcatProperties
<1>6. /\ Len(<<h>> \o t) = 1 + Len(t) /\ Len(t) \in Nat
      /\ \A i \in 1 .. 1 + Len(t) : (<<h>> \o t)[i] = IF i <= 1 THEN <<h>>[i] ELSE t[i - 1]
  BY <1>5, ConcatProperties, LenProperties
<1>7. PICK l \in Nat : l = Len(t) /\ Len(<<h>> \o t) = 1 + l
  BY <1>6
<1>8. <<h>> \o t # <<>>
  BY <1>5, <1>7, EmptySeq
<1>9. Head(<<h>> \o t) = h
  <2>1. Head(<<h>> \o t) = (<<h>> \o t)[1]
    BY <1>5, <1>8, TailElements
  <2>2. 1 \in 1 .. 1 + l
    BY <1>7
  <2>. QED
    BY <1>6, <1>7, <2>1, <2>2
<1>10. Tail(<<h>> \o t) = t
  <2>1. PICK u \in Seq(S) : u = Tail(<<h>> \o t)
    BY <1>5, <1>8, TailElements
  <2>2. /\ Len(u) = (1 + l) - 1
        /\ \A i \in 1 .. Len(u) : u[i] = (<<h>> \o t)[i + 1]
    BY <1>5, <1>7, <1>8, <2>1, HeadTailProperties
  <2>3. Len(u) = l
    BY <2>2
  <2>4. \A i \in 1 .. l : u[i] = t[i]
    <3>. SUFFICES ASSUME NEW i \in 1 .. l
                  PROVE  u[i] = t[i]
      OBVIOUS
    <3>1. i + 1 \in 1 .. 1 + l /\ ~(i + 1 <= 1) /\ (i + 1) - 1 = i
      OBVIOUS
    <3>. QED
      BY <1>6, <1>7, <2>2, <2>3, <3>1
  <2>. QED
    BY <1>7, <2>1, <2>3, <2>4, SeqEqual
<1>. QED
  BY <1>2, <1>3, <1>4, <1>8, <1>9, <1>10

(* The same, named for the provers. *)
Cat(q, r) == q \o r

(* It is a queue, *)
LEMMA CatTyped ==
  ASSUME NEW S, NEW q \in Seq(S), NEW r \in Seq(S)
  PROVE  Cat(q, r) \in Seq(S)
BY ConcatProperties DEF Cat

(* to which an empty one makes no difference, *)
LEMMA CatEmpty ==
  ASSUME NEW S, NEW q \in Seq(S)
  PROVE  Cat(<<>>, q) = q /\ Cat(q, <<>>) = q
BY ConcatEmptySeq DEF Cat

(* nor does which are put together first: of three, *)
LEMMA CatAssociative ==
  ASSUME NEW S, NEW x \in Seq(S), NEW y \in Seq(S), NEW z \in Seq(S)
  PROVE  Cat(Cat(x, y), z) = Cat(x, Cat(y, z))
BY ConcatAssociative DEF Cat

(* of four; *)
LEMMA CatOfFour ==
  ASSUME NEW S, NEW x \in Seq(S), NEW y \in Seq(S), NEW z \in Seq(S), NEW u \in Seq(S)
  PROVE  Cat(Cat(x, Cat(y, z)), u) = Cat(Cat(x, y), Cat(z, u))
<1>1. Cat(x, y) \in Seq(S)
  BY CatTyped
<1>2. Cat(x, Cat(y, z)) = Cat(Cat(x, y), z)
  BY CatAssociative
<1>3. Cat(Cat(Cat(x, y), z), u) = Cat(Cat(x, y), Cat(z, u))
  BY <1>1, CatAssociative
<1>. QED
  BY <1>2, <1>3

(* a queue has its first for itself, in front, *)
LEMMA CatFirst ==
  ASSUME NEW S, NEW q \in Seq(S), q # <<>>
  PROVE  /\ Head(q) \in S /\ Tail(q) \in Seq(S) /\ <<Head(q)>> \in Seq(S)
         /\ q = Cat(<<Head(q)>>, Tail(q))
BY FirstAndOthers DEF Cat

(* and its last, behind. *)
LEMMA CatLast ==
  ASSUME NEW S, NEW q \in Seq(S), NEW e \in S
  PROVE  <<e>> \in Seq(S) /\ Append(q, e) = Cat(q, <<e>>)
<1>1. <<e>> \in Seq(S)
  OBVIOUS
<1>2. Append(q, e) = q \o <<e>>
  BY AppendIsConcat
<1>. QED
  BY <1>1, <1>2 DEF Cat
-----------------------------------------------------------------------------
(* What a step does to the queues of messages on their way                 *)

Queues == [Node -> Seq(Msg)]
Entries == [Msg -> Node \cup {None}]
BeforeIn(o, m, n) == \E i, j \in DOMAIN o : i < j /\ o[i] = m /\ o[j] = n

DisjointIn(L) ==
  \A a, b \in Node : \A i \in DOMAIN L[a], j \in DOMAIN L[b] : L[a][i] = L[b][j] => a = b /\ i = j
LetBy(m, e, a) ==
  e[m] # None /\ a \in Route(e[m]) /\ \A d \in Route(e[m]) \ Route(a) : m \in Forwards[d]
SoundIn(L, e) == \A a \in Node : \A i \in DOMAIN L[a] : LetBy(L[a][i], e, a)
Ahead(a, i, b, j) == IF a = b THEN i < j ELSE a \in Route(b)
OrderedIn(L, e, o) ==
  \A a, b \in Node : \A i \in DOMAIN L[a], j \in DOMAIN L[b] :
    e[L[a][i]] = e[L[b][j]] /\ Ahead(a, i, b, j) => BeforeIn(o, L[a][i], L[b][j])
GoodLines(L, e, o) == DisjointIn(L) /\ SoundIn(L, e) /\ OrderedIn(L, e, o)

(* They get shorter: what is left, in the same order. *)
Thins(L2, L, F) ==
  \A a \in Node :
    /\ \A i \in DOMAIN L2[a] : F[a][i] \in DOMAIN L[a] /\ L2[a][i] = L[a][F[a][i]]
    /\ \A i, j \in DOMAIN L2[a] : i < j => F[a][i] < F[a][j]

(* and what is left of them is as good: in one place, let through, in order; *)
LEMMA ThinnedLines ==
  ASSUME NEW L \in Queues, NEW L2 \in Queues, NEW e, NEW o, NEW F,
         GoodLines(L, e, o), Thins(L2, L, F)
  PROVE  GoodLines(L2, e, o)
<1>1. DisjointIn(L2)
  <2>. SUFFICES ASSUME NEW a \in Node, NEW b \in Node, NEW i \in DOMAIN L2[a], NEW j \in DOMAIN L2[b],
                       L2[a][i] = L2[b][j]
                PROVE  a = b /\ i = j
    BY DEF DisjointIn
  <2>1. a = b /\ F[a][i] = F[b][j]
    BY DEF Thins, GoodLines, DisjointIn
  <2>2. i \in Nat /\ j \in Nat /\ F[a][i] \in Nat
    BY LenProperties DEF Thins, Queues
  <2>3. ~(i < j) /\ ~(j < i)
    BY <2>1, <2>2 DEF Thins
  <2>. QED
    BY <2>1, <2>2, <2>3
<1>2. SoundIn(L2, e)
  BY DEF SoundIn, Thins, GoodLines
<1>3. OrderedIn(L2, e, o)
  <2>. SUFFICES ASSUME NEW a \in Node, NEW b \in Node, NEW i \in DOMAIN L2[a], NEW j \in DOMAIN L2[b],
                       e[L2[a][i]] = e[L2[b][j]], Ahead(a, i, b, j)
                PROVE  BeforeIn(o, L2[a][i], L2[b][j])
    BY DEF OrderedIn
  <2>1. Ahead(a, F[a][i], b, F[b][j])
    BY DEF Ahead, Thins
  <2>. QED
    BY <2>1 DEF Thins, GoodLines, OrderedIn
<1>. QED
  BY <1>1, <1>2, <1>3 DEF GoodLines

(* so where some are taken out of one queue, *)
LEMMA LineIsCut ==
  ASSUME NEW L \in Queues, NEW a \in Node,
         NEW x \in Seq(Msg), NEW y \in Seq(Msg), NEW z \in Seq(Msg), L[a] = (x \o y) \o z
  PROVE  \E F : Thins([L EXCEPT ![a] = x \o z], L, F)
<1>1. PICK k \in Nat, l \in Nat, n \in Nat : k = Len(x) /\ l = Len(y) /\ n = Len(z)
  BY LenProperties
<1>2. x \o y \in Seq(Msg) /\ Len(x \o y) = k + l /\ DOMAIN x = 1 .. k
  BY <1>1, ConcatElements
<1>3. x \o z \in Seq(Msg) /\ DOMAIN (x \o z) = 1 .. k + n /\ DOMAIN L[a] = 1 .. (k + l) + n
  BY <1>1, <1>2, ConcatElements
<1>. DEFINE L2 == [L EXCEPT ![a] = x \o z]
            f == [i \in 1 .. k + n |-> IF i <= k THEN i ELSE i + l]
            F == [c \in Node |-> IF c = a THEN f ELSE [i \in DOMAIN L[c] |-> i]]
<1>4. L2 \in Queues /\ L2[a] = x \o z /\ \A c \in Node \ {a} : L2[c] = L[c]
  BY <1>3 DEF Queues
<1>5. \A i \in 1 .. k + n : f[i] \in 1 .. (k + l) + n /\ (x \o z)[i] = L[a][f[i]]
  <2>. SUFFICES ASSUME NEW i \in 1 .. k + n
                PROVE  f[i] \in 1 .. (k + l) + n /\ (x \o z)[i] = L[a][f[i]]
    OBVIOUS
  <2>1. CASE i <= k
    <3>1. f[i] = i /\ i \in 1 .. k /\ i \in 1 .. k + l /\ i \in 1 .. (k + l) + n
      BY <2>1
    <3>2. (x \o z)[i] = x[i] /\ (x \o y)[i] = x[i]
      BY <1>1, <3>1, ConcatElements
    <3>3. ((x \o y) \o z)[i] = (x \o y)[i]
      BY <1>2, <3>1, ConcatElements
    <3>. QED
      BY <3>1, <3>2, <3>3
  <2>2. CASE ~(i <= k)
    <3>1. /\ f[i] = i + l /\ i + l \in 1 .. (k + l) + n /\ i + l \notin 1 .. k + l /\ i \notin 1 .. k
          /\ (i + l) - (k + l) = i - k
      BY <2>2
    <3>2. (x \o z)[i] = z[i - k]
      BY <1>1, <1>3, <3>1, ConcatElements
    <3>3. ((x \o y) \o z)[i + l] = z[(i + l) - (k + l)]
      BY <1>1, <1>2, <1>3, <3>1, ConcatElements
    <3>. QED
      BY <3>1, <3>2, <3>3
  <2>. QED
    BY <2>1, <2>2
<1>6. \A i, j \in 1 .. k + n : i < j => f[i] < f[j]
  OBVIOUS
<1>7. \A c \in Node \ {a} : \A i \in DOMAIN L[c] : F[c][i] = i
  OBVIOUS
<1>8. F[a] = f
  OBVIOUS
<1>. HIDE DEF f, F, L2
<1>9. Thins(L2, L, F)
  <2>. SUFFICES ASSUME NEW c \in Node
                PROVE  /\ \A i \in DOMAIN L2[c] : F[c][i] \in DOMAIN L[c] /\ L2[c][i] = L[c][F[c][i]]
                       /\ \A i, j \in DOMAIN L2[c] : i < j => F[c][i] < F[c][j]
    BY DEF Thins
  <2>1. CASE c = a
    BY <1>3, <1>4, <1>5, <1>6, <1>8, <2>1
  <2>2. CASE c # a
    BY <1>4, <1>7, <2>2
  <2>. QED
    BY <2>1, <2>2
<1>. QED
  BY <1>9 DEF L2

(* or the first is taken. *)
LEMMA FirstIsTaken ==
  ASSUME NEW L \in Queues, NEW a \in Node, L[a] # <<>>, NEW e, NEW o, GoodLines(L, e, o)
  PROVE  /\ [L EXCEPT ![a] = Tail(L[a])] \in Queues
         /\ GoodLines([L EXCEPT ![a] = Tail(L[a])], e, o)
<1>1. L[a] \in Seq(Msg)
  BY DEF Queues
<1>2. PICK t \in Seq(Msg), h \in Msg : t = Tail(L[a]) /\ h = Head(L[a])
  BY <1>1, FirstAndOthers
<1>3. L[a] = <<h>> \o t /\ <<h>> \in Seq(Msg) /\ <<>> \in Seq(Msg)
  BY <1>1, <1>2, FirstAndOthers, NoElements
<1>4. <<>> \o <<h>> = <<h>> /\ <<>> \o t = t
  BY <1>2, <1>3, ConcatEmptySeq
<1>5. PICK F : Thins([L EXCEPT ![a] = <<>> \o t], L, F)
  BY <1>2, <1>3, <1>4, LineIsCut
<1>6. [L EXCEPT ![a] = t] \in Queues
  BY <1>2 DEF Queues
<1>7. Thins([L EXCEPT ![a] = t], L, F)
  BY <1>4, <1>5
<1>. QED
  BY <1>2, <1>6, <1>7, ThinnedLines

(* A message comes to the end of a queue: those before it were sent before. *)
LEMMA LineGrows ==
  ASSUME NEW L \in Queues, NEW p \in Node, NEW m \in Msg, NEW e, NEW o,
         GoodLines(L, e, o), LetBy(m, e, p),
         \A c \in Node : \A i \in DOMAIN L[c] :
           /\ L[c][i] # m
           /\ e[L[c][i]] = e[m] /\ (c = p \/ c \in Route(p)) => BeforeIn(o, L[c][i], m)
           /\ e[L[c][i]] = e[m] /\ c # p /\ p \in Route(c) => BeforeIn(o, m, L[c][i])
  PROVE  /\ [L EXCEPT ![p] = Append(L[p], m)] \in Queues
         /\ GoodLines([L EXCEPT ![p] = Append(L[p], m)], e, o)
<1>1. L[p] \in Seq(Msg)
  BY DEF Queues
<1>2. PICK l \in Nat : l = Len(L[p])
  BY <1>1, LenProperties
<1>3. /\ Append(L[p], m) \in Seq(Msg) /\ DOMAIN L[p] = 1 .. l
      /\ DOMAIN Append(L[p], m) = 1 .. l + 1
      /\ \A i \in 1 .. l : Append(L[p], m)[i] = L[p][i]
      /\ Append(L[p], m)[l + 1] = m
  BY <1>1, <1>2, AppendElements
<1>. DEFINE L2 == [L EXCEPT ![p] = Append(L[p], m)]
<1>4. L2 \in Queues /\ L2[p] = Append(L[p], m) /\ \A c \in Node \ {p} : L2[c] = L[c]
  BY <1>3 DEF Queues
<1>. HIDE DEF L2
<1>5. ASSUME NEW c \in Node, NEW i \in DOMAIN L2[c]
      PROVE  \/ i \in DOMAIN L[c] /\ L2[c][i] = L[c][i] /\ (c = p => i \in 1 .. l)
             \/ c = p /\ i = l + 1 /\ L2[c][i] = m
  <2>1. CASE c = p
    <3>1. i \in 1 .. l \/ i = l + 1
      BY <1>3, <1>4, <2>1
    <3>. QED
      BY <1>3, <1>4, <2>1, <3>1
  <2>2. CASE c # p
    BY <1>4, <2>2
  <2>. QED
    BY <2>1, <2>2
<1>6. \A i \in 1 .. l : i < l + 1 /\ ~(l + 1 < i) /\ i # l + 1
  OBVIOUS
<1>7. ~(l + 1 < l + 1)
  OBVIOUS
<1>8. DisjointIn(L2)
  <2>. SUFFICES ASSUME NEW a \in Node, NEW b \in Node, NEW i \in DOMAIN L2[a], NEW j \in DOMAIN L2[b],
                       L2[a][i] = L2[b][j]
                PROVE  a = b /\ i = j
    BY DEF DisjointIn
  <2>. QED
    BY <1>5 DEF GoodLines, DisjointIn
<1>9. SoundIn(L2, e)
  BY <1>5 DEF GoodLines, SoundIn
<1>10. OrderedIn(L2, e, o)
  <2>. SUFFICES ASSUME NEW a \in Node, NEW b \in Node, NEW i \in DOMAIN L2[a], NEW j \in DOMAIN L2[b],
                       e[L2[a][i]] = e[L2[b][j]], Ahead(a, i, b, j)
                PROVE  BeforeIn(o, L2[a][i], L2[b][j])
    BY DEF OrderedIn
  <2>1. CASE i \in DOMAIN L[a] /\ L2[a][i] = L[a][i] /\ j \in DOMAIN L[b] /\ L2[b][j] = L[b][j]
    BY <2>1 DEF GoodLines, OrderedIn
  <2>2. CASE a = p /\ i = l + 1 /\ L2[a][i] = m
    <3>1. b # p /\ p \in Route(b)
      BY <1>5, <1>6, <1>7, <2>2 DEF Ahead
    <3>2. j \in DOMAIN L[b] /\ L2[b][j] = L[b][j]
      BY <1>5, <3>1
    <3>. QED
      BY <2>2, <3>1, <3>2
  <2>3. CASE b = p /\ j = l + 1 /\ L2[b][j] = m /\ i \in DOMAIN L[a] /\ L2[a][i] = L[a][i]
    BY <2>3 DEF Ahead
  <2>. QED
    BY <1>5, <2>1, <2>2, <2>3
<1>. QED
  BY <1>4, <1>8, <1>9, <1>10 DEF GoodLines, L2

(* It goes on to the parent: it is behind what was ahead of it, and ahead  *)
(* of what was behind it.                                                  *)
LEMMA FirstGoesOn ==
  ASSUME TypeOK, NEW L \in Queues, NEW a \in Node, NEW p \in Node, p = Parent[a],
         L[a] # <<>>, Head(L[a]) \in Forwards[a], NEW e \in Entries, NEW o, GoodLines(L, e, o)
  PROVE  LET L2 == [L EXCEPT ![a] = Tail(L[a])]
         IN GoodLines([L2 EXCEPT ![p] = Append(L[p], Head(L[a]))], e, o)
<1>. DEFINE L2 == [L EXCEPT ![a] = Tail(L[a])]
<1>1. L[a] \in Seq(Msg)
  BY DEF Queues
<1>2. PICK m \in Msg : m = Head(L[a]) /\ m = L[a][1] /\ 1 \in DOMAIN L[a] /\ m \in Forwards[a]
  BY <1>1, TailElements
<1>3. \A i \in DOMAIN Tail(L[a]) : /\ i \in Nat /\ i + 1 \in DOMAIN L[a] /\ i + 1 # 1
                                   /\ Tail(L[a])[i] = L[a][i + 1]
  BY <1>1, TailElements
<1>4. L2 \in Queues /\ GoodLines(L2, e, o)
  BY FirstIsTaken
<1>5. a \notin Route(p) /\ p \in Route(a) /\ Route(a) = {a} \cup Route(p) /\ a # p
  BY RouteLeaves, RouteOfDerived, RouteIsLeast
<1>6. L2[a] = Tail(L[a]) /\ \A c \in Node \ {a} : L2[c] = L[c]
  BY DEF Queues
<1>. HIDE DEF L2
<1>7. LetBy(m, e, a) /\ e[m] \in Node
  BY <1>2 DEF GoodLines, SoundIn, LetBy, Entries
<1>8. LetBy(m, e, p)
  <2>1. p \in Route(e[m])
    BY <1>5, <1>7, RouteGoesOn DEF LetBy
  <2>2. \A d \in Route(e[m]) \ Route(p) : d = a \/ d \notin Route(a)
    BY <1>5
  <2>. QED
    BY <1>2, <1>7, <2>1, <2>2 DEF LetBy
<1>9. ASSUME NEW c \in Node, NEW i \in DOMAIN L2[c]
      PROVE  /\ L2[c][i] # m
             /\ e[L2[c][i]] = e[m] /\ (c = p \/ c \in Route(p)) => BeforeIn(o, L2[c][i], m)
             /\ e[L2[c][i]] = e[m] /\ c # p /\ p \in Route(c) => BeforeIn(o, m, L2[c][i])
  <2>1. CASE c = a
    <3>1. PICK j \in DOMAIN L[a] : j = i + 1 /\ j # 1 /\ 1 < j /\ L2[c][i] = L[a][j]
      <4>1. i \in Nat /\ i + 1 # 1 /\ i + 1 \in DOMAIN L[a] /\ L2[c][i] = L[a][i + 1]
        BY <1>3, <1>6, <2>1
      <4>2. 1 < i + 1
        BY <4>1
      <4>. QED
        BY <4>1, <4>2
    <3>2. L2[c][i] # m
      BY <1>2, <3>1 DEF GoodLines, DisjointIn
    <3>3. Ahead(a, 1, a, j)
      BY <3>1 DEF Ahead
    <3>4. e[L2[c][i]] = e[m] => BeforeIn(o, m, L2[c][i])
      BY <1>2, <3>1, <3>3 DEF GoodLines, OrderedIn
    <3>. QED
      BY <1>5, <2>1, <3>2, <3>4
  <2>2. CASE c # a
    <3>1. i \in DOMAIN L[c] /\ L2[c][i] = L[c][i]
      BY <1>6, <2>2
    <3>2. L2[c][i] # m
      BY <1>2, <2>2, <3>1 DEF GoodLines, DisjointIn
    <3>3. c \in Route(p) \/ c = p => Ahead(c, i, a, 1)
      BY <1>5, <2>2 DEF Ahead
    <3>4. e[L2[c][i]] = e[m] /\ (c = p \/ c \in Route(p)) => BeforeIn(o, L2[c][i], m)
      BY <1>2, <3>1, <3>3 DEF GoodLines, OrderedIn
    <3>5. ASSUME e[L2[c][i]] = e[m], c # p, p \in Route(c)
          PROVE  BeforeIn(o, m, L2[c][i])
      <4>1. a \in Route(e[m]) /\ c \in Route(e[m])
        BY <1>7, <3>1, <3>5 DEF GoodLines, SoundIn, LetBy
      <4>2. c \notin Route(a)
        BY <1>5, <2>2, <3>5, RouteIsChain
      <4>3. Ahead(a, 1, c, i)
        BY <1>7, <2>2, <4>1, <4>2, RouteIsChain DEF Ahead
      <4>. QED
        BY <1>2, <3>1, <3>5, <4>3 DEF GoodLines, OrderedIn
    <3>. QED
      BY <3>2, <3>4, <3>5
  <2>. QED
    BY <2>1, <2>2
<1>10. GoodLines([L2 EXCEPT ![p] = Append(L2[p], m)], e, o)
  BY <1>4, <1>8, <1>9, LineGrows
<1>. QED
  BY <1>2, <1>5, <1>6, <1>10 DEF L2

(* A message is sent: it was not there, and all others were sent before.   *)
LEMMA LineIsSent ==
  ASSUME TypeOK, NEW L \in Queues, NEW a \in Node, NEW m \in Msg,
         NEW e \in Entries, e[m] = None, NEW o \in Seq(Msg),
         \A n \in Msg : e[n] # None => n \in InSeq(o), GoodLines(L, e, o)
  PROVE  /\ GoodLines(L, [e EXCEPT ![m] = a], Append(o, m))
         /\ GoodLines([L EXCEPT ![a] = Append(L[a], m)], [e EXCEPT ![m] = a], Append(o, m))
<1>. DEFINE e2 == [e EXCEPT ![m] = a]
            o2 == Append(o, m)
<1>1. e2[m] = a /\ a # None /\ \A n \in Msg \ {m} : e2[n] = e[n]
  BY FnActorAssumption DEF Entries
<1>2. PICK l \in Nat : l = Len(o) /\ DOMAIN o = 1 .. l /\ DOMAIN o2 = 1 .. l + 1
  BY AppendElements
<1>3. (\A i \in 1 .. l : o2[i] = o[i]) /\ o2[l + 1] = m
  BY <1>2, AppendElements
<1>. HIDE DEF e2, o2
<1>4. \A n, k : BeforeIn(o, n, k) => BeforeIn(o2, n, k)
  <2>1. \A i \in 1 .. l : i \in 1 .. l + 1
    OBVIOUS
  <2>. QED
    BY <1>2, <1>3, <2>1 DEF BeforeIn
<1>5. ASSUME NEW n \in InSeq(o)
      PROVE  BeforeIn(o2, n, m)
  <2>1. PICK i \in 1 .. l : o[i] = n
    BY <1>2 DEF InSeq
  <2>2. i \in 1 .. l + 1 /\ l + 1 \in 1 .. l + 1 /\ i < l + 1
    OBVIOUS
  <2>. QED
    BY <1>2, <1>3, <2>1, <2>2 DEF BeforeIn
<1>6. ASSUME NEW c \in Node, NEW i \in DOMAIN L[c]
      PROVE  L[c][i] \in Msg /\ L[c][i] # m /\ LetBy(L[c][i], e, c) /\ LetBy(L[c][i], e2, c)
             /\ e2[L[c][i]] = e[L[c][i]] /\ L[c][i] \in InSeq(o)
  <2>1. PICK n \in Msg : n = L[c][i]
    BY EachElement DEF Queues
  <2>2. LetBy(n, e, c) /\ e[n] # None /\ n # m
    BY <2>1 DEF GoodLines, SoundIn, LetBy
  <2>3. e2[n] = e[n] /\ n \in InSeq(o)
    BY <1>1, <2>2
  <2>. QED
    BY <2>1, <2>2, <2>3 DEF LetBy
<1>7. GoodLines(L, e2, o2)
  <2>1. SoundIn(L, e2)
    BY <1>6 DEF SoundIn
  <2>2. OrderedIn(L, e2, o2)
    BY <1>4, <1>6 DEF GoodLines, OrderedIn
  <2>. QED
    BY <2>1, <2>2 DEF GoodLines
<1>8. LetBy(m, e2, a)
  BY <1>1, RouteIsLeast DEF LetBy
<1>9. ASSUME NEW c \in Node, NEW i \in DOMAIN L[c], e2[L[c][i]] = e2[m], c # a, a \in Route(c)
      PROVE  BeforeIn(o2, m, L[c][i])
  <2>1. c \in Route(a)
    BY <1>1, <1>6, <1>9 DEF LetBy
  <2>. QED
    BY <1>9, <2>1, RouteIsChain
<1>10. GoodLines([L EXCEPT ![a] = Append(L[a], m)], e2, o2)
  BY <1>5, <1>6, <1>7, <1>8, <1>9, LineGrows
<1>. QED
  BY <1>7, <1>10 DEF e2, o2
-----------------------------------------------------------------------------
(* The steps                                                               *)

(* An actor's messages: received, in the channel, held, in the mailbox.    *)
LEMMA LinePieces ==
  ASSUME TypeOK
  PROVE  /\ Line \in Queues
         /\ \A a \in Node :
              /\ received[a] \in Seq(Msg) /\ channel[a] \in Seq(Msg)
              /\ Held(a) \in Seq(Msg) /\ mailbox[a] \in Seq(Msg)
              /\ Cat(received[a], channel[a]) \in Seq(Msg) /\ Cat(Held(a), mailbox[a]) \in Seq(Msg)
              /\ Line[a] = Cat(Cat(received[a], channel[a]), Cat(Held(a), mailbox[a]))
<1>1. ASSUME NEW a \in Node
      PROVE  /\ received[a] \in Seq(Msg) /\ channel[a] \in Seq(Msg)
             /\ Held(a) \in Seq(Msg) /\ mailbox[a] \in Seq(Msg)
  <2>1. <<>> \in Seq(Msg)
    BY NoElements
  <2>2. handling[a] # None => <<handling[a]>> \in Seq(Msg)
    BY DEF TypeOK
  <2>. QED
    BY <2>1, <2>2 DEF TypeOK, Held
<1>2. \A a \in Node : /\ Cat(received[a], channel[a]) \in Seq(Msg)
                      /\ Cat(Held(a), mailbox[a]) \in Seq(Msg)
  BY <1>1, CatTyped
<1>3. \A a \in Node : Cat(Cat(received[a], channel[a]), Cat(Held(a), mailbox[a])) \in Seq(Msg)
  BY <1>2, CatTyped
<1>4. Line = [a \in Node |-> Cat(Cat(received[a], channel[a]), Cat(Held(a), mailbox[a]))]
  BY DEF Line, Cat
<1>. QED
  BY <1>1, <1>2, <1>3, <1>4 DEF Queues

Keeps(a) ==
  /\ received'[a] = received[a] /\ channel'[a] = channel[a]
  /\ handling'[a] = handling[a] /\ mailbox'[a] = mailbox[a]

(* One actor's are others, *)
LEMMA LineChanges ==
  ASSUME TypeOK, NEW a \in Node, \A c \in Node \ {a} : Keeps(c), NEW l,
         l = Cat(Cat(received'[a], channel'[a]), Cat(Held(a)', mailbox'[a]))
  PROVE  Line' = [Line EXCEPT ![a] = l]
<1>1. \A c \in Node \ {a} : Held(c)' = Held(c)
  BY DEF Held, Keeps
<1>2. Line' = [c \in Node |-> Cat(Cat(received'[c], channel'[c]), Cat(Held(c)', mailbox'[c]))]
  BY DEF Line, Cat
<1>3. \A c \in Node \ {a} : Line'[c] = Line[c]
  BY <1>1, <1>2, LinePieces DEF Keeps
<1>. QED
  BY <1>2, <1>3, LinePieces DEF Queues

(* or still the same, *)
LEMMA LineStays ==
  ASSUME TypeOK, NEW a \in Node, \A c \in Node \ {a} : Keeps(c),
         Line[a] = Cat(Cat(received'[a], channel'[a]), Cat(Held(a)', mailbox'[a]))
  PROVE  Line' = Line
<1>1. Line' = [Line EXCEPT ![a] = Line[a]]
  BY LineChanges
<1>. QED
  BY <1>1, LinePieces DEF Queues

(* as when the handler hands one on to the channel, at once,               *)
LEMMA HandedOn ==
  ASSUME TypeOK, NEW a \in Node, HandleIntoChannel(a) \/ HandleIntoLocalChannel(a)
  PROVE  Line' = Line
<1>1. /\ \A c \in Node \ {a} : Keeps(c)
      /\ received' = received /\ mailbox[a] # <<>> /\ handling[a] = None
      /\ mailbox'[a] = Tail(mailbox[a])
  BY DEF TypeOK, HandleIntoChannel, HandleIntoLocalChannel, Keeps, Takes, Ready
<1>2. PICK r \in Seq(Msg), c \in Seq(Msg), q \in Seq(Msg) :
        r = received[a] /\ c = channel[a] /\ q = mailbox[a]
  BY LinePieces
<1>3. PICK h \in Msg, s \in Seq(Msg), t \in Seq(Msg) :
        h = First(a) /\ t = Tail(q) /\ s = <<h>> /\ q = Cat(s, t)
  <2>1. Head(q) \in Msg /\ Tail(q) \in Seq(Msg) /\ <<Head(q)>> \in Seq(Msg)
    BY <1>1, <1>2, CatFirst
  <2>2. q = Cat(<<Head(q)>>, Tail(q))
    BY <1>1, <1>2, CatFirst
  <2>. QED
    BY <1>2, <2>1, <2>2 DEF First
<1>4. Held(a) = <<>> /\ Cat(<<>>, q) = q
  BY <1>1, <1>2, CatEmpty DEF Held
<1>5. Line[a] = Cat(Cat(r, c), Cat(s, t))
  BY <1>2, <1>3, <1>4, LinePieces
<1>6. CASE handling'[a] = h /\ channel' = channel
  <2>1. Held(a)' = s
    BY <1>3, <1>6, FnActorAssumption DEF Held
  <2>2. Line[a] = Cat(Cat(received'[a], channel'[a]), Cat(Held(a)', mailbox'[a]))
    BY <1>1, <1>2, <1>3, <1>5, <1>6, <2>1
  <2>. QED
    BY <1>1, <2>2, LineStays
<1>7. CASE handling' = handling /\ channel'[a] = Append(c, h)
  <2>1. Held(a)' = <<>> /\ channel'[a] = Cat(c, s)
    BY <1>1, <1>2, <1>3, <1>7, CatLast DEF Held
  <2>2. Cat(<<>>, t) = t /\ Cat(Cat(r, Cat(c, s)), t) = Cat(Cat(r, c), Cat(s, t))
    BY CatEmpty, CatOfFour
  <2>3. Line[a] = Cat(Cat(received'[a], channel'[a]), Cat(Held(a)', mailbox'[a]))
    BY <1>1, <1>2, <1>3, <1>5, <2>1, <2>2
  <2>. QED
    BY <1>1, <2>3, LineStays
<1>. QED
  BY <1>2, <1>3, <1>6, <1>7 DEF TypeOK, HandleIntoChannel, HandleIntoLocalChannel

(* or once there is room, *)
LEMMA HandedOnLater ==
  ASSUME TypeOK, NEW a \in Node, HandlerResumes(a)
  PROVE  Line' = Line
<1>1. /\ \A c \in Node \ {a} : Keeps(c)
      /\ received' = received /\ mailbox' = mailbox /\ handling[a] # None
      /\ handling'[a] = None /\ channel'[a] = Append(channel[a], handling[a])
  BY DEF TypeOK, HandlerResumes, Keeps
<1>2. PICK r \in Seq(Msg), c \in Seq(Msg), q \in Seq(Msg), h \in Msg :
        r = received[a] /\ c = channel[a] /\ q = mailbox[a] /\ h = handling[a]
  BY <1>1, LinePieces DEF TypeOK
<1>3. PICK s \in Seq(Msg) : s = <<h>> /\ channel'[a] = Cat(c, s)
  <2>1. <<h>> \in Seq(Msg) /\ Append(c, h) = Cat(c, <<h>>)
    BY CatLast
  <2>. QED
    BY <1>1, <1>2, <2>1
<1>4. Held(a) = s /\ Held(a)' = <<>>
  BY <1>1, <1>2, <1>3 DEF Held
<1>5. Cat(<<>>, q) = q /\ Cat(Cat(r, Cat(c, s)), q) = Cat(Cat(r, c), Cat(s, q))
  BY CatEmpty, CatOfFour
<1>6. Line[a] = Cat(Cat(received'[a], channel'[a]), Cat(Held(a)', mailbox'[a]))
  BY <1>1, <1>2, <1>3, <1>4, <1>5, LinePieces
<1>. QED
  BY <1>1, <1>6, LineStays

(* and when the function takes it. *)
LEMMA Taken ==
  ASSUME TypeOK, NEW a \in Node, NEW answers \in BOOLEAN, FunctionTakes(a, answers)
  PROVE  Line' = Line
<1>1. /\ \A c \in Node \ {a} : Keeps(c)
      /\ mailbox' = mailbox /\ handling' = handling /\ channel[a] # <<>>
      /\ channel'[a] = Tail(channel[a]) /\ received'[a] = Append(received[a], Head(channel[a]))
  BY DEF TypeOK, FunctionTakes, Keeps
<1>2. PICK r \in Seq(Msg), c \in Seq(Msg), x \in Seq(Msg) :
        r = received[a] /\ c = channel[a] /\ x = Cat(Held(a), mailbox[a])
  BY LinePieces
<1>3. PICK h \in Msg, s \in Seq(Msg), t \in Seq(Msg) :
        h = Head(c) /\ t = Tail(c) /\ s = <<h>> /\ c = Cat(s, t)
  <2>1. Head(c) \in Msg /\ Tail(c) \in Seq(Msg) /\ <<Head(c)>> \in Seq(Msg)
    BY <1>1, <1>2, CatFirst
  <2>2. c = Cat(<<Head(c)>>, Tail(c))
    BY <1>1, <1>2, CatFirst
  <2>. QED
    BY <2>1, <2>2
<1>4. Held(a)' = Held(a) /\ received'[a] = Cat(r, s)
  BY <1>1, <1>2, <1>3, CatLast DEF Held
<1>5. Cat(Cat(r, s), t) = Cat(r, Cat(s, t))
  BY CatAssociative
<1>6. Line[a] = Cat(Cat(received'[a], channel'[a]), Cat(Held(a)', mailbox'[a]))
  BY <1>1, <1>2, <1>3, <1>4, <1>5, LinePieces
<1>. QED
  BY <1>1, <1>6, LineStays

(* A message that comes to a mailbox comes to the end. *)
LEMMA CatAppend ==
  ASSUME NEW S, NEW v \in Seq(S), NEW x \in Seq(S), NEW q \in Seq(S), NEW e \in S
  PROVE  Cat(v, Cat(x, Append(q, e))) = Append(Cat(v, Cat(x, q)), e)
<1>1. PICK s \in Seq(S) : s = <<e>> /\ Append(q, e) = Cat(q, s)
  BY CatLast
<1>2. PICK y \in Seq(S) : y = Cat(x, q)
  BY CatTyped
<1>3. PICK w \in Seq(S) : w = Cat(v, y)
  BY CatTyped
<1>4. Append(w, e) = Cat(w, s)
  BY <1>1, CatLast
<1>5. Cat(w, s) = Cat(v, Cat(y, s))
  BY <1>3, CatAssociative
<1>6. Cat(y, s) = Cat(x, Cat(q, s))
  BY <1>2, CatAssociative
<1>. QED
  BY <1>1, <1>2, <1>3, <1>4, <1>5, <1>6

(* Two actors' messages are others. *)
LEMMA TwoLinesChange ==
  ASSUME TypeOK, NEW a \in Node, NEW p \in Node, p # a, \A c \in Node \ {a, p} : Keeps(c),
         NEW l, l = Cat(Cat(received'[a], channel'[a]), Cat(Held(a)', mailbox'[a])),
         NEW k, k = Cat(Cat(received'[p], channel'[p]), Cat(Held(p)', mailbox'[p]))
  PROVE  Line' = [[Line EXCEPT ![a] = l] EXCEPT ![p] = k]
<1>1. \A c \in Node \ {a, p} : Held(c)' = Held(c)
  BY DEF Held, Keeps
<1>2. Line' = [c \in Node |-> Cat(Cat(received'[c], channel'[c]), Cat(Held(c)', mailbox'[c]))]
  BY DEF Line, Cat
<1>3. \A c \in Node \ {a, p} : Line'[c] = Line[c]
  BY <1>1, <1>2, LinePieces DEF Keeps
<1>. QED
  BY <1>2, <1>3, LinePieces DEF Queues

(* What an actor, or its function, has for its parent is its first. *)
LEMMA FirstForParent ==
  ASSUME DueInvariant, NEW a \in Node,
         (Kind[a] = "map" /\ Takes(a)) \/ (Kind[a] = "filter" /\ channel[a] # <<>>)
  PROVE  /\ Line[a] # <<>>
         /\ Kind[a] = "map" => /\ Head(Line[a]) = First(a)
                               /\ Cat(Cat(received[a], channel[a]), Cat(Held(a), Tail(mailbox[a]))) = Tail(Line[a])
         /\ Kind[a] = "filter" => /\ Head(Line[a]) = Head(channel[a])
                                  /\ Cat(Cat(received[a], Tail(channel[a])), Cat(Held(a), mailbox[a])) = Tail(Line[a])
<1>1. TypeOK /\ KindsAreKept
  BY DEF DueInvariant
<1>2. PICK c \in Seq(Msg), q \in Seq(Msg), x \in Seq(Msg) :
        c = channel[a] /\ q = mailbox[a] /\ x = Cat(Held(a), q)
  BY <1>1, LinePieces
<1>3. Kind[a] \in {"map", "filter"} /\ received[a] = <<>>
  BY <1>1, AppFacts DEF KindsAreKept
<1>4. Line[a] = Cat(Cat(<<>>, c), x)
  BY <1>1, <1>2, <1>3, LinePieces
<1>5. CASE Kind[a] = "map"
  <2>1. c = <<>> /\ Held(a) = <<>> /\ q # <<>>
    BY <1>1, <1>2, <1>5 DEF KindsAreKept, HasFunction, Held, Takes
  <2>2. PICK t \in Seq(Msg) : t = Tail(q)
    BY <2>1, CatFirst
  <2>3. <<>> \in Seq(Msg) /\ Cat(<<>>, q) = q /\ Cat(<<>>, t) = t
    BY CatEmpty, NoElements
  <2>4. Cat(<<>>, <<>>) = <<>>
    BY <2>3, CatEmpty
  <2>5. Line[a] = q
    BY <1>2, <1>4, <2>1, <2>3, <2>4
  <2>6. Cat(Cat(received[a], channel[a]), Cat(Held(a), Tail(mailbox[a]))) = t
    BY <1>2, <1>3, <2>1, <2>2, <2>3, <2>4
  <2>. QED
    BY <1>2, <1>5, <2>1, <2>2, <2>5, <2>6 DEF First
<1>6. CASE Kind[a] = "filter"
  <2>1. c # <<>>
    BY <1>2, <1>6
  <2>2. PICK t \in Seq(Msg) : t = Tail(c)
    BY <2>1, CatFirst
  <2>3. Cat(<<>>, c) = c /\ Cat(<<>>, t) = t
    BY CatEmpty
  <2>4. Cat(c, x) # <<>> /\ Head(Cat(c, x)) = Head(c) /\ Tail(Cat(c, x)) = Cat(t, x)
    BY <2>1, <2>2, FirstOfConcat DEF Cat
  <2>. QED
    BY <1>2, <1>3, <1>4, <1>6, <2>2, <2>3, <2>4
<1>. QED
  BY <1>3, <1>5, <1>6

(* It goes on, or it is not let through, or the parent has ended. *)
GoesOn(a) ==
  /\ Head(Line[a]) \in Forwards[a]
  /\ Line' = [[Line EXCEPT ![a] = Tail(Line[a])] EXCEPT ![Parent[a]] = Append(Line[Parent[a]], Head(Line[a]))]
IsHeldBack(a) ==
  /\ Head(Line[a]) \notin Forwards[a] \/ ~Running(Parent[a])
  /\ Line' = [Line EXCEPT ![a] = Tail(Line[a])]

(* This is what MappedActor, FilterMapActor and the function of a filter do. *)
LEMMA FirstLeaves ==
  ASSUME DueInvariant, NEW a \in Node, HandleByForwarding(a) \/ FilterTakes(a)
  PROVE  Line[a] # <<>> /\ Parent[a] \in Node /\ (GoesOn(a) \/ IsHeldBack(a))
<1>0. TypeOK
  BY DEF DueInvariant
<1>1. \/ Kind[a] = "map" /\ Takes(a) /\ HandleByForwarding(a)
      \/ Kind[a] = "filter" /\ channel[a] # <<>> /\ FilterTakes(a)
  BY DEF HandleByForwarding, FilterTakes
<1>2. PICK p \in Node : p = Parent[a] /\ p # a
  <2>1. Parent[a] \in Node
    BY <1>0, <1>1, AppFacts
  <2>2. \E b \in {a} : Parent[b] \notin {a}
    BY <1>0, AppFacts
  <2>. QED
    BY <2>1, <2>2
<1>3. PICK m : m = Head(Line[a])
  OBVIOUS
<1>4. Line[a] # <<>> /\ m \in Msg
  <2>1. Line[a] \in Seq(Msg) /\ Line[a] # <<>>
    BY <1>0, <1>1, FirstForParent, LinePieces DEF Queues
  <2>. QED
    BY <1>3, <2>1, CatFirst
<1>5. /\ Tail(Line[a]) = Cat(Cat(received'[a], channel'[a]), Cat(Held(a)', mailbox'[a]))
      /\ \A c \in Node \ {a, p} : Keeps(c)
      /\ received' = received /\ handling' = handling /\ channel'[p] = channel[p]
      /\ \/ m \in Forwards[a] /\ mailbox'[p] = Append(mailbox[p], m)
         \/ (m \notin Forwards[a] \/ ~Running(p)) /\ Keeps(p)
  <2>1. CASE Kind[a] = "map"
    <3>1. HandleByForwarding(a) /\ m = First(a)
      BY <1>1, <1>3, <2>1, FirstForParent
    <3>2. /\ received' = received /\ handling' = handling /\ channel' = channel
          /\ mailbox'[a] = Tail(mailbox[a]) /\ \A c \in Node \ {a, p} : mailbox'[c] = mailbox[c]
      BY <1>0, <1>2, <3>1 DEF HandleByForwarding, TypeOK
    <3>3. \/ m \in Forwards[a] /\ mailbox'[p] = Append(mailbox[p], m)
          \/ m \notin Forwards[a] /\ mailbox'[p] = mailbox[p]
      BY <1>0, <1>2, <3>1 DEF HandleByForwarding, TypeOK
    <3>4. Held(a)' = Held(a)
      BY <3>2 DEF Held
    <3>5. Tail(Line[a]) = Cat(Cat(received'[a], channel'[a]), Cat(Held(a)', mailbox'[a]))
      BY <1>1, <2>1, <3>2, <3>4, FirstForParent
    <3>. QED
      BY <3>2, <3>3, <3>5 DEF Keeps
  <2>2. CASE Kind[a] = "filter"
    <3>1. FilterTakes(a) /\ channel[a] # <<>> /\ m = Head(channel[a])
      BY <1>1, <1>3, <2>2, FirstForParent
    <3>2. /\ received' = received /\ handling' = handling /\ mailbox'[a] = mailbox[a]
          /\ channel'[a] = Tail(channel[a]) /\ \A c \in Node \ {a} : channel'[c] = channel[c]
          /\ \A c \in Node \ {p} : mailbox'[c] = mailbox[c]
      BY <1>0, <1>2, <3>1 DEF FilterTakes, TypeOK
    <3>3. \/ m \in Forwards[a] /\ mailbox'[p] = Append(mailbox[p], m)
          \/ (m \notin Forwards[a] \/ ~Running(p)) /\ mailbox'[p] = mailbox[p]
      BY <1>0, <1>2, <3>1 DEF FilterTakes, TypeOK
    <3>4. Held(a)' = Held(a)
      BY <3>2 DEF Held
    <3>5. Tail(Line[a]) = Cat(Cat(received'[a], channel'[a]), Cat(Held(a)', mailbox'[a]))
      BY <1>1, <2>2, <3>2, <3>4, FirstForParent
    <3>. QED
      BY <1>2, <3>2, <3>3, <3>5 DEF Keeps
  <2>. QED
    BY <1>1, <2>1, <2>2
<1>6. CASE m \in Forwards[a] /\ mailbox'[p] = Append(mailbox[p], m)
  <2>1. PICK v \in Seq(Msg), x \in Seq(Msg), q \in Seq(Msg) :
          v = Cat(received[p], channel[p]) /\ x = Held(p) /\ q = mailbox[p]
    BY <1>0, LinePieces
  <2>2. Line[p] = Cat(v, Cat(x, q)) /\ Held(p)' = Held(p)
    BY <1>0, <1>5, <2>1, LinePieces DEF Held
  <2>3. Append(Line[p], m) = Cat(v, Cat(x, Append(q, m)))
    BY <1>4, <2>2, CatAppend
  <2>4. Append(Line[p], m) = Cat(Cat(received'[p], channel'[p]), Cat(Held(p)', mailbox'[p]))
    BY <1>5, <1>6, <2>1, <2>2, <2>3
  <2>5. Line' = [[Line EXCEPT ![a] = Tail(Line[a])] EXCEPT ![p] = Append(Line[p], m)]
    <3>1. PICK l, k : l = Tail(Line[a]) /\ k = Append(Line[p], m)
      OBVIOUS
    <3>2. l = Cat(Cat(received'[a], channel'[a]), Cat(Held(a)', mailbox'[a]))
      BY <1>5, <3>1
    <3>3. k = Cat(Cat(received'[p], channel'[p]), Cat(Held(p)', mailbox'[p]))
      BY <2>4, <3>1
    <3>4. p # a /\ \A c \in Node \ {a, p} : Keeps(c)
      BY <1>2, <1>5
    <3>5. Line' = [[Line EXCEPT ![a] = l] EXCEPT ![p] = k]
      BY <1>0, <3>2, <3>3, <3>4, TwoLinesChange
    <3>. QED
      BY <3>1, <3>5
  <2>6. GoesOn(a)
    BY <1>2, <1>3, <1>6, <2>5 DEF GoesOn
  <2>. QED
    BY <1>2, <1>4, <2>6
<1>7. CASE (m \notin Forwards[a] \/ ~Running(p)) /\ Keeps(p)
  <2>1. Line' = [Line EXCEPT ![a] = Tail(Line[a])]
    BY <1>0, <1>5, <1>7, LineChanges
  <2>2. IsHeldBack(a)
    BY <1>2, <1>3, <1>7, <2>1 DEF IsHeldBack
  <2>. QED
    BY <1>2, <1>4, <2>2
<1>. QED
  BY <1>5, <1>6, <1>7

(* What an actor that ends has not yet handed on is gone, *)
LEMMA EndsLine ==
  ASSUME TypeOK, NEW a \in Node, NEW how, Ends(a, how), NEW e, NEW o, GoodLines(Line, e, o)
  PROVE  GoodLines(Line', e, o) /\ \A c \in Node \ {a} : Line'[c] = Line[c]
<1>1. /\ \A c \in Node \ {a} : Keeps(c)
      /\ received' = received /\ channel' = channel /\ mailbox'[a] = <<>> /\ handling'[a] = None
  BY DEF TypeOK, Ends, Keeps
<1>2. PICK x \in Seq(Msg), y \in Seq(Msg) :
        x = Cat(received[a], channel[a]) /\ y = Cat(Held(a), mailbox[a]) /\ Line[a] = Cat(x, y)
  BY LinePieces
<1>3. PICK z \in Seq(Msg) : z = <<>>
  BY NoElements
<1>4. Held(a)' = <<>> /\ Cat(z, z) = z /\ Cat(x, z) = x /\ Cat(Cat(x, y), z) = Cat(x, y)
  <2>1. Held(a)' = <<>>
    BY <1>1 DEF Held
  <2>2. Cat(x, y) \in Seq(Msg)
    BY CatTyped
  <2>. QED
    BY <1>3, <2>1, <2>2, CatEmpty
<1>5. PICK l \in Seq(Msg) : l = Cat(x, z)
  BY CatTyped
<1>6. l = Cat(Cat(received'[a], channel'[a]), Cat(Held(a)', mailbox'[a]))
  BY <1>1, <1>2, <1>3, <1>4, <1>5
<1>7. Line' = [Line EXCEPT ![a] = l] /\ Line \in Queues
  BY <1>1, <1>6, LineChanges, LinePieces
<1>8. PICK F : Thins([Line EXCEPT ![a] = x \o z], Line, F)
  BY <1>2, <1>4, <1>7, LineIsCut DEF Cat
<1>9. Line' \in Queues /\ Thins(Line', Line, F)
  BY <1>5, <1>7, <1>8 DEF Queues, Cat
<1>. QED
  BY <1>7, <1>9, ThinnedLines DEF Queues

(* and what is in the channel of a function that is over. *)
LEMMA DropsLine ==
  ASSUME TypeOK, NEW a \in Node, Drops(a), UNCHANGED <<received, handling, mailbox>>,
         NEW e, NEW o, GoodLines(Line, e, o)
  PROVE  GoodLines(Line', e, o) /\ \A c \in Node \ {a} : Line'[c] = Line[c]
<1>1. (\A c \in Node \ {a} : Keeps(c)) /\ channel'[a] = <<>> /\ Held(a)' = Held(a)
  BY DEF TypeOK, Drops, Keeps, Held
<1>2. PICK x \in Seq(Msg), y \in Seq(Msg), z \in Seq(Msg) :
        x = received[a] /\ y = channel[a] /\ z = Cat(Held(a), mailbox[a]) /\ Line[a] = Cat(Cat(x, y), z)
  BY LinePieces
<1>3. Cat(x, <<>>) = x
  BY CatEmpty
<1>4. PICK l \in Seq(Msg) : l = Cat(x, z)
  BY CatTyped
<1>5. l = Cat(Cat(received'[a], channel'[a]), Cat(Held(a)', mailbox'[a]))
  BY <1>1, <1>2, <1>3, <1>4
<1>6. Line' = [Line EXCEPT ![a] = l] /\ Line \in Queues
  BY <1>1, <1>5, LineChanges, LinePieces
<1>7. PICK F : Thins([Line EXCEPT ![a] = x \o z], Line, F)
  BY <1>2, <1>6, LineIsCut DEF Cat
<1>8. Line' \in Queues /\ Thins(Line', Line, F)
  BY <1>4, <1>6, <1>7 DEF Queues, Cat
<1>. QED
  BY <1>6, <1>8, ThinnedLines DEF Queues

(* A message that is sent comes last. *)
LEMMA AppSendsLine ==
  ASSUME TypeOK, NEW a \in Node, NEW m \in Msg, AppSends(m, a)
  PROVE  IF Running(a) THEN Line' = [Line EXCEPT ![a] = Append(Line[a], m)] ELSE Line' = Line
<1>1. /\ \A c \in Node \ {a} : Keeps(c)
      /\ received' = received /\ channel' = channel /\ handling' = handling /\ Held(a)' = Held(a)
      /\ mailbox'[a] = IF Running(a) THEN Append(mailbox[a], m) ELSE mailbox[a]
  BY DEF TypeOK, AppSends, Keeps, Held
<1>2. PICK v \in Seq(Msg), x \in Seq(Msg), q \in Seq(Msg) :
        v = Cat(received[a], channel[a]) /\ x = Held(a) /\ q = mailbox[a] /\ Line[a] = Cat(v, Cat(x, q))
  BY LinePieces
<1>3. CASE Running(a)
  <2>1. PICK l : l = Append(Line[a], m)
    OBVIOUS
  <2>2. Cat(v, Cat(x, Append(q, m))) = Append(Cat(v, Cat(x, q)), m)
    BY CatAppend
  <2>3. l = Cat(Cat(received'[a], channel'[a]), Cat(Held(a)', mailbox'[a]))
    BY <1>1, <1>2, <1>3, <2>1, <2>2
  <2>4. Line' = [Line EXCEPT ![a] = l]
    BY <1>1, <2>3, LineChanges
  <2>. QED
    BY <1>3, <2>1, <2>4
<1>4. CASE ~Running(a)
  <2>1. Line[a] = Cat(Cat(received'[a], channel'[a]), Cat(Held(a)', mailbox'[a]))
    BY <1>1, <1>2, <1>4
  <2>. QED
    BY <1>1, <1>4, <2>1, LineStays
<1>. QED
  BY <1>3, <1>4
-----------------------------------------------------------------------------
(* SentOnceInOrder                                                         *)

OnceInvariant ==
  DueInvariant /\ LinesAreDisjoint /\ LinesAreSound /\ LinesAreInOrder /\ NoneIsLost

(* The invariant says of the lines that they are good, *)
LEMMA LinesAreGood ==
  ASSUME OnceInvariant
  PROVE  GoodLines(Line, entry, order)
<1>1. DisjointIn(Line)
  BY DEF OnceInvariant, LinesAreDisjoint, DisjointIn
<1>2. SoundIn(Line, entry)
  BY DEF OnceInvariant, LinesAreSound, SoundIn, LetBy
<1>3. OrderedIn(Line, entry, order)
  BY DEF OnceInvariant, LinesAreInOrder, OrderedIn, Ahead, Before, BeforeIn
<1>. QED
  BY <1>1, <1>2, <1>3 DEF GoodLines

(* and is kept when they stay so. *)
LEMMA LinesStayGood ==
  ASSUME built' = built, GoodLines(Line', entry', order')
  PROVE  (LinesAreDisjoint /\ LinesAreSound /\ LinesAreInOrder)'
<1>1. Forwards' = Forwards /\ \A a : Route(a)' = Route(a)
  BY DEF Forwards, Route, Upward, Parent
<1>2. LinesAreDisjoint'
  BY DEF GoodLines, LinesAreDisjoint, DisjointIn
<1>3. LinesAreSound'
  BY <1>1 DEF GoodLines, LinesAreSound, SoundIn, LetBy
<1>4. LinesAreInOrder'
  BY <1>1 DEF GoodLines, LinesAreInOrder, OrderedIn, Ahead, Before, BeforeIn
<1>. QED
  BY <1>2, <1>3, <1>4

(* A message that is gone shows: an actor on its way has ended, or its     *)
(* function, or does not let it through.                                   *)
Works(a) == Running(a) /\ task[a] \in {"none", "runs"}
Shows(a, m) ==
  \/ \E c \in Node : m \in InSeq(Line'[c])
  \/ ~Works(a)'
  \/ Parent[a] # None /\ (m \notin Forwards[a] \/ ~Running(Parent[a])')
Wanes ==
  /\ UNCHANGED <<built, entry, order>>
  /\ \A a \in Node : Works(a)' => Works(a)
  /\ \A a \in Node : \A m \in InSeq(Line[a]) : Shows(a, m)

(* While all on its way run and let it through, it is not gone. *)
LEMMA NoneIsLostYet ==
  ASSUME OnceInvariant, Wanes
  PROVE  NoneIsLost'
<1>0. TypeOK
  BY DEF OnceInvariant, DueInvariant
<1>1. Forwards' = Forwards /\ Parent' = Parent /\ \A a : Route(a)' = Route(a)
  BY DEF Forwards, Route, Upward, Parent, Wanes
<1>2. \A a \in Node : Works(a)' => Works(a)
  BY DEF Wanes
<1>3. ASSUME NEW m \in Msg, entry[m] # None, Intact(entry[m])', LetThrough(m, entry[m])'
      PROVE  \E c \in Node : m \in InSeq(Line'[c])
  <2>1. entry[m] \in Node /\ entry'[m] = entry[m]
    BY <1>0, <1>3 DEF TypeOK, Wanes
  <2>2. /\ \A d \in Route(entry[m]) : d \in Node /\ Works(d)' /\ Running(d)'
        /\ \A d \in Route(entry[m]) : Parent[d] # None => m \in Forwards[d]
    BY <1>0, <1>1, <1>3, <2>1, RouteIsLeast DEF Intact, LetThrough, Works
  <2>3. Intact(entry[m]) /\ LetThrough(m, entry[m])
    BY <1>2, <2>2 DEF Intact, LetThrough, Works
  <2>4. PICK a \in Node : m \in InSeq(Line[a])
    BY <1>3, <2>3 DEF OnceInvariant, NoneIsLost
  <2>5. a \in Route(entry[m])
    BY <2>4 DEF OnceInvariant, LinesAreSound, InSeq
  <2>6. Parent[a] # None => Parent[a] \in Route(entry[m])
    BY <1>0, <2>1, <2>5, RouteIsLeast
  <2>7. Shows(a, m)
    BY <2>4 DEF Wanes
  <2>. QED
    BY <1>1, <2>2, <2>5, <2>6, <2>7 DEF Shows, Running
<1>4. \A m \in Msg : entry[m] # None => m \in InSeq(order)
  BY DEF OnceInvariant, NoneIsLost
<1>5. entry' = entry /\ order' = order
  BY DEF Wanes
<1>. SUFFICES ASSUME NEW m \in Msg, entry'[m] # None
              PROVE  /\ m \in InSeq(order')
                     /\ (Intact(entry[m]) /\ LetThrough(m, entry[m]))'
                          => \E a \in Node : m \in InSeq(Line'[a])
  BY DEF NoneIsLost, InSeq
<1>. QED
  BY <1>3, <1>4, <1>5

(* What is in a queue stays in it when one is appended. *)
LEMMA InGrownQueue ==
  ASSUME NEW S, NEW q \in Seq(S), NEW e
  PROVE  e \in InSeq(Append(q, e)) /\ InSeq(q) \subseteq InSeq(Append(q, e))
<1>1. PICK l \in Nat : l = Len(q)
  BY LenProperties
<1>2. /\ DOMAIN q = 1 .. l /\ DOMAIN Append(q, e) = 1 .. l + 1
      /\ (\A i \in 1 .. l : Append(q, e)[i] = q[i]) /\ Append(q, e)[l + 1] = e
  BY <1>1, AppendPositions
<1>3. l + 1 \in 1 .. l + 1 /\ \A i \in 1 .. l : i \in 1 .. l + 1
  OBVIOUS
<1>. QED
  BY <1>2, <1>3 DEF InSeq

(* Nothing moves, *)
LEMMA SameLines ==
  ASSUME OnceInvariant, Line' = Line, UNCHANGED <<built, entry, order, status>>,
         \A a \in Node : task'[a] = task[a]
  PROVE  GoodLines(Line', entry', order') /\ NoneIsLost'
<1>1. Wanes
  <2>1. \A a \in Node : Works(a)' => Works(a)
    BY DEF Works, Running
  <2>2. \A a \in Node : \A m \in InSeq(Line[a]) : Shows(a, m)
    BY DEF Shows
  <2>. QED
    BY <2>1, <2>2 DEF Wanes
<1>. QED
  BY <1>1, LinesAreGood, NoneIsLostYet

(* an actor ends, *)
LEMMA LinesWhenEnds ==
  ASSUME OnceInvariant, built' = built, NEW a \in Node, NEW how \in {"stopped", "failed", "killed"}, Ends(a, how)
  PROVE  GoodLines(Line', entry', order') /\ NoneIsLost'
<1>0. TypeOK
  BY DEF OnceInvariant, DueInvariant
<1>1. /\ GoodLines(Line', entry, order) /\ \A c \in Node \ {a} : Line'[c] = Line[c]
      /\ UNCHANGED <<built, entry, order, task>>
  BY <1>0, EndsLine, LinesAreGood DEF Ends
<1>2. ~Running(a)' /\ \A c \in Node \ {a} : status'[c] = status[c]
  BY <1>0 DEF Ends, TypeOK, Running
<1>3. Wanes
  <2>1. \A c \in Node : Works(c)' => Works(c)
    BY <1>1, <1>2 DEF Works, Running
  <2>2. \A c \in Node : \A m \in InSeq(Line[c]) : Shows(c, m)
    BY <1>1, <1>2 DEF Shows, Works
  <2>. QED
    BY <1>1, <2>1, <2>2 DEF Wanes
<1>. QED
  BY <1>1, <1>3, NoneIsLostYet

(* a function is over, *)
LEMMA LinesWhenOver ==
  ASSUME OnceInvariant, built' = built, NEW a \in Node, FunctionReturns(a) \/ FunctionPanics(a)
  PROVE  GoodLines(Line', entry', order') /\ NoneIsLost'
<1>0. TypeOK
  BY DEF OnceInvariant, DueInvariant
<1>1. Drops(a) /\ UNCHANGED <<status, received, handling, mailbox, entry, order>>
  BY DEF FunctionReturns, FunctionPanics
<1>2. task'[a] \in {"returned", "panicked"} /\ \A c \in Node \ {a} : task'[c] = task[c]
  BY <1>0 DEF TypeOK, FunctionReturns, FunctionPanics
<1>3. GoodLines(Line', entry, order) /\ \A c \in Node \ {a} : Line'[c] = Line[c]
  BY <1>0, <1>1, DropsLine, LinesAreGood
<1>4. Wanes
  <2>1. \A c \in Node : Works(c)' => Works(c)
    BY <1>1, <1>2 DEF Works, Running
  <2>2. \A c \in Node : \A m \in InSeq(Line[c]) : Shows(c, m)
    BY <1>2, <1>3 DEF Shows, Works
  <2>. QED
    BY <1>1, <2>1, <2>2 DEF Wanes
<1>. QED
  BY <1>1, <1>3, <1>4, NoneIsLostYet

(* a message goes on, or is held back, *)
LEMMA LinesWhenTaken ==
  ASSUME OnceInvariant, built' = built, NEW a \in Node, HandleByForwarding(a) \/ FilterTakes(a)
  PROVE  GoodLines(Line', entry', order') /\ NoneIsLost'
<1>0. TypeOK /\ DueInvariant /\ GoodLines(Line, entry, order) /\ Line \in Queues /\ entry \in Entries
  BY LinesAreGood, LinePieces DEF OnceInvariant, DueInvariant, TypeOK, Entries
<1>1. UNCHANGED <<built, status, task, entry, order>>
  BY DEF HandleByForwarding, FilterTakes
<1>2. Line[a] # <<>> /\ Parent[a] \in Node /\ (GoesOn(a) \/ IsHeldBack(a))
  BY <1>0, FirstLeaves
<1>3. PICK p \in Node, m \in Msg : p = Parent[a] /\ p # None /\ m = Head(Line[a])
  BY <1>0, <1>2, CatFirst, FnActorAssumption DEF Queues
<1>4. PICK t \in Seq(Msg) : t = Tail(Line[a])
  BY <1>0, <1>2, CatFirst DEF Queues
<1>5. p # a
  <2>1. \E b \in {a} : Parent[b] \notin {a}
    BY <1>0, AppFacts
  <2>. QED
    BY <1>3, <2>1
<1>6. \A n \in InSeq(Line[a]) : n = m \/ n \in InSeq(t)
  <2>. SUFFICES ASSUME NEW i \in DOMAIN Line[a]
                PROVE  Line[a][i] = m \/ Line[a][i] \in InSeq(t)
    BY DEF InSeq
  <2>1. Line[a] \in Seq(Msg)
    BY <1>0 DEF Queues
  <2>2. PICK l \in Nat : l = Len(Line[a]) /\ DOMAIN Line[a] = 1 .. l /\ DOMAIN t = 1 .. l - 1
    BY <1>2, <1>4, <2>1, TailElements
  <2>3. CASE i = 1
    BY <1>2, <1>3, <2>1, <2>3, TailElements
  <2>4. CASE i # 1
    <3>1. i - 1 \in 1 .. l - 1 /\ (i - 1) + 1 = i
      BY <2>2, <2>4
    <3>2. t[i - 1] = Line[a][i]
      BY <1>2, <1>4, <2>1, <2>2, <3>1, TailElements
    <3>. QED
      BY <2>2, <3>1, <3>2 DEF InSeq
  <2>. QED
    BY <2>3, <2>4
<1>7. \A c \in Node : Works(c)' => Works(c)
  BY <1>1 DEF Works, Running
<1>8. CASE GoesOn(a)
  <2>1. /\ m \in Forwards[a]
        /\ Line' = [[Line EXCEPT ![a] = t] EXCEPT ![p] = Append(Line[p], m)]
    BY <1>3, <1>4, <1>8 DEF GoesOn
  <2>2. GoodLines(Line', entry, order)
    BY <1>0, <1>2, <1>3, <1>4, <2>1, FirstGoesOn
  <2>3. /\ Line'[a] = t /\ Line'[p] = Append(Line[p], m)
        /\ \A c \in Node \ {a, p} : Line'[c] = Line[c]
    BY <1>0, <1>5, <2>1 DEF Queues
  <2>4. m \in InSeq(Line'[p]) /\ InSeq(Line[p]) \subseteq InSeq(Line'[p])
    <3>1. Line[p] \in Seq(Msg)
      BY <1>0 DEF Queues
    <3>. QED
      BY <2>3, <3>1, InGrownQueue
  <2>5. \A c \in Node : \A n \in InSeq(Line[c]) : \E d \in Node : n \in InSeq(Line'[d])
    BY <1>6, <2>3, <2>4
  <2>6. Wanes
    BY <1>1, <1>7, <2>5 DEF Wanes, Shows
  <2>. QED
    BY <1>1, <2>2, <2>6, NoneIsLostYet
<1>9. CASE IsHeldBack(a)
  <2>1. (m \notin Forwards[a] \/ ~Running(Parent[a])) /\ Line' = [Line EXCEPT ![a] = t]
    BY <1>3, <1>4, <1>9 DEF IsHeldBack
  <2>2. GoodLines(Line', entry, order)
    BY <1>0, <1>2, <1>4, <2>1, FirstIsTaken
  <2>3. Line'[a] = t /\ \A c \in Node \ {a} : Line'[c] = Line[c]
    BY <1>0, <2>1 DEF Queues
  <2>4. Parent' = Parent /\ (Running(Parent[a])' <=> Running(Parent[a]))
    BY <1>1 DEF Parent, Running
  <2>5. \A c \in Node : \A n \in InSeq(Line[c]) : Shows(c, n)
    BY <1>3, <1>6, <2>1, <2>3, <2>4 DEF Shows
  <2>6. Wanes
    BY <1>1, <1>7, <2>5 DEF Wanes
  <2>. QED
    BY <1>1, <2>2, <2>6, NoneIsLostYet
<1>. QED
  BY <1>2, <1>8, <1>9

(* or one is sent. *)
LEMMA LinesWhenSent ==
  ASSUME OnceInvariant, built' = built, NEW a \in Node, NEW m \in Msg, AppSends(m, a)
  PROVE  GoodLines(Line', entry', order') /\ NoneIsLost'
<1>0. /\ TypeOK /\ GoodLines(Line, entry, order) /\ Line \in Queues /\ entry \in Entries
      /\ order \in Seq(Msg) /\ \A n \in Msg : entry[n] # None => n \in InSeq(order)
  BY LinesAreGood, LinePieces DEF OnceInvariant, DueInvariant, TypeOK, Entries, NoneIsLost
<1>1. /\ UNCHANGED <<built, status, task>> /\ entry[m] = None
      /\ entry' = [entry EXCEPT ![m] = a] /\ order' = Append(order, m)
  BY DEF AppSends
<1>2. IF Running(a) THEN Line' = [Line EXCEPT ![a] = Append(Line[a], m)] ELSE Line' = Line
  BY <1>0, AppSendsLine
<1>3. GoodLines(Line', entry', order')
  <2>1. PICK L \in Queues, e \in Entries, o \in Seq(Msg) : L = Line /\ e = entry /\ o = order
    BY <1>0
  <2>2. /\ GoodLines(L, [e EXCEPT ![m] = a], Append(o, m))
        /\ GoodLines([L EXCEPT ![a] = Append(L[a], m)], [e EXCEPT ![m] = a], Append(o, m))
    BY <1>0, <1>1, <2>1, LineIsSent
  <2>. QED
    BY <1>1, <1>2, <2>1, <2>2
<1>4. Forwards' = Forwards /\ Parent' = Parent /\ \A c : Route(c)' = Route(c)
  BY DEF Forwards, Route, Upward, Parent
<1>5. m \in InSeq(order') /\ InSeq(order) \subseteq InSeq(order')
  BY <1>0, <1>1, InGrownQueue
<1>6. \A c \in Node : InSeq(Line[c]) \subseteq InSeq(Line'[c])
  <2>1. InSeq(Line[a]) \subseteq InSeq(Append(Line[a], m))
    <3>1. Line[a] \in Seq(Msg)
      BY <1>0 DEF Queues
    <3>. QED
      BY <3>1, InGrownQueue
  <2>. QED
    BY <1>0, <1>2, <2>1 DEF Queues
<1>7. Running(a) => m \in InSeq(Line'[a])
  <2>1. m \in InSeq(Append(Line[a], m))
    <3>1. Line[a] \in Seq(Msg)
      BY <1>0 DEF Queues
    <3>. QED
      BY <3>1, InGrownQueue
  <2>. QED
    BY <1>0, <1>2, <2>1 DEF Queues
<1>8. ASSUME NEW n \in Msg, entry'[n] # None
      PROVE  /\ n \in InSeq(order')
             /\ (Intact(entry[n]) /\ LetThrough(n, entry[n]))' => \E c \in Node : n \in InSeq(Line'[c])
  <2>1. CASE n = m
    <3>1. entry'[m] = a
      BY <1>0, <1>1 DEF Entries
    <3>2. Intact(entry[n])' => Running(a)
      BY <1>0, <1>1, <1>4, <2>1, <3>1, RouteIsLeast DEF Intact, Running
    <3>. QED
      BY <1>5, <1>7, <2>1, <3>2
  <2>2. CASE n # m
    <3>1. entry'[n] = entry[n]
      BY <1>0, <1>1, <2>2 DEF Entries
    <3>2. (Intact(entry[n]) /\ LetThrough(n, entry[n]))' => Intact(entry[n]) /\ LetThrough(n, entry[n])
      BY <1>1, <1>4, <3>1 DEF Intact, LetThrough, Running
    <3>3. Intact(entry[n]) /\ LetThrough(n, entry[n]) => \E c \in Node : n \in InSeq(Line[c])
      BY <1>8, <3>1 DEF OnceInvariant, NoneIsLost
    <3>. QED
      BY <1>0, <1>5, <1>6, <1>8, <3>1, <3>2, <3>3
  <2>. QED
    BY <2>1, <2>2
<1>9. NoneIsLost'
  BY <1>8 DEF NoneIsLost, InSeq
<1>. QED
  BY <1>3, <1>9

(* All steps keep the invariant. *)
LEMMA NextOnce ==
  ASSUME OnceInvariant, [Next]_vars
  PROVE  OnceInvariant'
<1>. DEFINE Rest == GoodLines(Line', entry', order') /\ NoneIsLost'
<1>0. TypeOK /\ DueInvariant /\ DueInvariant'
  BY NextDue DEF OnceInvariant, DueInvariant
<1>1. ASSUME UNCHANGED vars
      PROVE  Rest
  <2>1. Line' = Line
    BY <1>1 DEF vars, Line, Held
  <2>. QED
    BY <1>1, <2>1, SameLines DEF vars
<1>2. ASSUME built' = built, NEW a \in Node, EndsSomehow(a)
      PROVE  Rest
  BY <1>0, <1>2, EndsWhenDue, LinesWhenEnds
<1>3. ASSUME built' = built, NEW a \in Node,
             HandleIntoChannel(a) \/ HandlerResumes(a) \/ HandleIntoLocalChannel(a)
      PROVE  Rest
  <2>1. Line' = Line
    BY <1>0, <1>3, HandedOn, HandedOnLater
  <2>2. UNCHANGED <<status, task, entry, order>>
    BY <1>3 DEF HandleIntoChannel, HandlerResumes, HandleIntoLocalChannel
  <2>. QED
    BY <1>3, <2>1, <2>2, SameLines
<1>4. ASSUME built' = built, NEW a \in Node, NEW answers \in BOOLEAN, FunctionTakes(a, answers)
      PROVE  Rest
  <2>1. Line' = Line
    BY <1>0, <1>4, Taken
  <2>2. UNCHANGED <<status, task, entry, order>>
    BY <1>4 DEF FunctionTakes
  <2>. QED
    BY <1>4, <2>1, <2>2, SameLines
<1>5. ASSUME built' = built,
             \/ \E a \in Node : HandleSupervisorEvt(a) \/ AppStops(a)
             \/ \E m \in Msg : AskTimesOut(m)
      PROVE  Rest
  <2>1. UNCHANGED <<status, task, entry, order, received, channel, handling, mailbox>>
    BY <1>5 DEF HandleSupervisorEvt, AppStops, AskTimesOut
  <2>2. Line' = Line
    BY <2>1 DEF Line, Held
  <2>. QED
    BY <1>5, <2>1, <2>2, SameLines
<1>6. CASE Next
  <2>. SUFFICES Rest
    BY <1>0, <1>6, LinesStayGood DEF Next, OnceInvariant
  <2>1. built' = built
    BY <1>6 DEF Next
  <2>2. ASSUME NEW a \in Node, ActorStep(a)
        PROVE  Rest
    BY <1>2, <1>3, <1>5, <2>1, <2>2, LinesWhenTaken DEF ActorStep, EndsSomehow
  <2>3. ASSUME NEW a \in Node, FilterStep(a) \/ FunctionReturns(a) \/ FunctionPanics(a)
        PROVE  Rest
    BY <2>1, <2>3, LinesWhenTaken, LinesWhenOver DEF FilterStep
  <2>4. ASSUME NEW a \in Node, NEW m \in Msg, AppSends(m, a)
        PROVE  Rest
    BY <2>1, <2>4, LinesWhenSent
  <2>. QED
    BY <1>4, <1>5, <1>6, <2>1, <2>2, <2>3, <2>4 DEF Next, Step
<1>7. CASE UNCHANGED vars
  BY <1>0, <1>1, <1>7, LinesStayGood DEF vars, OnceInvariant
<1>. QED
  BY <1>6, <1>7

(* At first nothing has been sent. *)
LEMMA InitOnce ==
  ASSUME Init
  PROVE  OnceInvariant
<1>1. DueInvariant /\ TypeOK
  BY InitDue DEF DueInvariant
<1>2. \A a \in Node : received[a] = <<>> /\ channel[a] = <<>> /\ Held(a) = <<>> /\ mailbox[a] = <<>>
  BY DEF Init, Held
<1>3. <<>> \in Seq(Msg) /\ DOMAIN <<>> = {}
  BY NoElements
<1>4. Cat(<<>>, <<>>) = <<>>
  BY <1>3, CatEmpty
<1>5. \A a \in Node : Line[a] = <<>> /\ DOMAIN Line[a] = {}
  BY <1>1, <1>2, <1>3, <1>4, LinePieces
<1>6. \A m \in Msg : entry[m] = None
  BY DEF Init
<1>. QED
  BY <1>1, <1>5, <1>6 DEF OnceInvariant, LinesAreDisjoint, LinesAreSound, LinesAreInOrder, NoneIsLost

(* A message is in at most one place, and in one unless it is lost; *)
LEMMA OnceEach ==
  ASSUME OnceInvariant
  PROVE  EachMessageOnce
<1>. SUFFICES ASSUME NEW m \in Msg, entry[m] # None
              PROVE  /\ Cardinality(Places(m)) <= 1
                     /\ Intact(entry[m]) /\ LetThrough(m, entry[m]) => Cardinality(Places(m)) = 1
  BY DEF EachMessageOnce
<1>1. \A x \in Places(m) : \E a \in Node : \E i \in DOMAIN Line[a] : x = <<a, i>> /\ Line[a][i] = m
  BY DEF Places
<1>2. \A a \in Node : \A i \in DOMAIN Line[a] : Line[a][i] = m => <<a, i>> \in Places(m)
  BY DEF Places
<1>3. \A x, y \in Places(m) : x = y
  BY <1>1 DEF OnceInvariant, LinesAreDisjoint
<1>4. Places(m) = {} \/ \E x : Places(m) = {x}
  BY <1>3
<1>5. Places(m) # {} => Cardinality(Places(m)) = 1
  BY <1>4, FS_Singleton
<1>6. Places(m) = {} => Cardinality(Places(m)) = 0
  BY FS_EmptySet
<1>7. Cardinality(Places(m)) <= 1
  BY <1>5, <1>6
<1>8. Intact(entry[m]) /\ LetThrough(m, entry[m]) => Places(m) # {}
  BY <1>2 DEF OnceInvariant, NoneIsLost, InSeq
<1>. QED
  BY <1>5, <1>7, <1>8

(* and what has been received is the front of the line.                    *)
LEMMA OrderKept ==
  ASSUME OnceInvariant
  PROVE  SentOrderIsKept
<1>0. TypeOK /\ KindsAreKept
  BY DEF OnceInvariant, DueInvariant
<1>1. ASSUME NEW a \in Node, NEW i \in DOMAIN received[a]
      PROVE  /\ i \in DOMAIN Line[a] /\ Line[a][i] = received[a][i]
             /\ Route(a) = {a} /\ Parent[a] = None
  <2>1. PICK r \in Seq(Msg), c \in Seq(Msg), x \in Seq(Msg) :
          r = received[a] /\ c = channel[a] /\ x = Cat(Held(a), mailbox[a]) /\ Line[a] = Cat(Cat(r, c), x)
    BY <1>0, LinePieces
  <2>2. PICK w \in Seq(Msg) : w = r \o c
    BY ConcatProperties
  <2>3. i \in 1 .. Len(r) /\ i \in DOMAIN w /\ w[i] = r[i]
    <3>1. i \in 1 .. Len(r)
      BY <2>1, LenProperties
    <3>. QED
      BY <2>2, <3>1, ConcatElements
  <2>4. i \in DOMAIN (w \o x) /\ (w \o x)[i] = w[i]
    BY <2>3, ConcatElements
  <2>5. Line[a] = w \o x
    BY <2>1, <2>2 DEF Cat
  <2>6. received[a] # <<>>
    BY NoElements
  <2>7. Parent[a] = None
    BY <1>0, <2>6 DEF KindsAreKept
  <2>. QED
    BY <1>0, <2>1, <2>3, <2>4, <2>5, <2>7, RouteOfRoot
<1>. SUFFICES ASSUME NEW a \in Node, NEW i \in DOMAIN received[a], NEW j \in DOMAIN received[a]
              PROVE  LET m == received[a][i]
                         n == received[a][j]
                     IN /\ a \in Route(entry[m]) /\ LetThrough(m, entry[m])
                        /\ i < j /\ entry[m] = entry[n] => Before(m, n)
  BY DEF SentOrderIsKept
<1>2. PICK m, n : m = received[a][i] /\ n = received[a][j] /\ m = Line[a][i] /\ n = Line[a][j]
  BY <1>1
<1>3. a \in Route(entry[m]) /\ \A d \in Route(entry[m]) \ Route(a) : m \in Forwards[d]
  BY <1>1, <1>2 DEF OnceInvariant, LinesAreSound
<1>4. LetThrough(m, entry[m])
  BY <1>1, <1>3 DEF LetThrough
<1>5. i < j /\ entry[m] = entry[n] => Before(m, n)
  BY <1>1, <1>2 DEF OnceInvariant, LinesAreInOrder
<1>. QED
  BY <1>2, <1>3, <1>4, <1>5

(* The lines are good, and no message is lost that does not show.          *)
THEOREM OnceInvariantCorrect == Spec => []OnceInvariant
  BY InitOnce, NextOnce, PTL DEF Spec

(* A function receives what it was sent, directly or through the actors    *)
(* derived from its own, once and in order, for as long as the actors in   *)
(* between run and let it through.                                         *)
THEOREM SentIsReceivedOnce == Spec => []SentOnceInOrder
<1>1. OnceInvariant => SentOnceInOrder
  BY OnceEach, OrderKept DEF SentOnceInOrder
<1>. QED
  BY <1>1, OnceInvariantCorrect, PTL
=============================================================================
