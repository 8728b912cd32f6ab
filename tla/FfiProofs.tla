------------------------------ MODULE FfiProofs ------------------------------
(***************************************************************************)
(* Ffi's MembersAreServed for any number of calls: whoever the hub gave an *)
(* alias is listed and is shown what it posted, or the connection ended.   *)
(***************************************************************************)
EXTENDS Ffi, TLAPS, SequenceTheorems

(* Queues, position by position: they grow at their end and shrink at      *)
(* their head.                                                             *)

(* What is left of a queue, position by position, when its head is taken. *)
LEMMA TailElements ==
  ASSUME NEW S, NEW q \in Seq(S), q # <<>>
  PROVE  /\ Tail(q) \in Seq(S)
         /\ Len(q) \in Nat /\ Len(q) > 0
         /\ DOMAIN q = 1 .. Len(q)
         /\ 1 \in DOMAIN q /\ Head(q) = q[1] /\ Head(q) \in S
         /\ Len(Tail(q)) = Len(q) - 1
         /\ DOMAIN Tail(q) = 1 .. Len(q) - 1
         /\ \A i \in DOMAIN Tail(q) : /\ i \in Nat /\ i + 1 \in DOMAIN q /\ i + 1 # 1
                                      /\ Tail(q)[i] = q[i + 1] /\ Tail(q)[i] \in S
<1>1. Len(q) \in Nat /\ DOMAIN q = 1 .. Len(q) /\ Len(q) # 0
  BY EmptySeq, LenProperties
<1>2. /\ Tail(q) \in Seq(S)
      /\ Len(Tail(q)) = Len(q) - 1
      /\ \A i \in 1 .. Len(Tail(q)) : Tail(q)[i] = q[i + 1]
  BY HeadTailProperties
<1>3. DOMAIN Tail(q) = 1 .. Len(q) - 1
  BY <1>2, LenProperties
<1>4. Head(q) = q[1] /\ 1 \in DOMAIN q /\ q[1] \in S
  BY <1>1, ElementOfSeq
<1>5. \A i \in DOMAIN Tail(q) : Tail(q)[i] \in S
  BY <1>2, <1>3, ElementOfSeq
<1>. QED
  BY <1>1, <1>2, <1>3, <1>4, <1>5

(* What is in a queue, position by position, when an element of its type   *)
(* is appended.                                                            *)
LEMMA AppendElements ==
  ASSUME NEW S, NEW q \in Seq(S), NEW e \in S
  PROVE  /\ Append(q, e) \in Seq(S)
         /\ Append(q, e) # <<>>
         /\ DOMAIN q = 1 .. Len(q)
         /\ Len(q) \in Nat
         /\ Len(Append(q, e)) = Len(q) + 1
         /\ DOMAIN Append(q, e) = 1 .. Len(q) + 1
         /\ \A i \in DOMAIN q : Append(q, e)[i] = q[i]
         /\ Append(q, e)[Len(q) + 1] = e
<1>1. Len(q) \in Nat /\ DOMAIN q = 1 .. Len(q)
  BY LenProperties
<1>2. /\ Append(q, e) \in Seq(S)
      /\ Append(q, e) # <<>>
      /\ Len(Append(q, e)) = Len(q) + 1
      /\ \A i \in 1 .. Len(q) : Append(q, e)[i] = q[i]
      /\ Append(q, e)[Len(q) + 1] = e
  BY AppendProperties
<1>3. DOMAIN Append(q, e) = 1 .. Len(q) + 1
  BY <1>2, LenProperties
<1>. QED
  BY <1>1, <1>2, <1>3

(* What stands in a queue is of its type. *)
LEMMA EachElement ==
  ASSUME NEW S, NEW q \in Seq(S)
  PROVE  \A i \in DOMAIN q : q[i] \in S
BY ElementOfSeq, LenProperties

(* A queue that is not there has no positions. *)
LEMMA NoElements ==
  ASSUME NEW S
  PROVE  <<>> \in Seq(S) /\ DOMAIN <<>> = {} /\ Len(<<>>) = 0
BY EmptySeq
-----------------------------------------------------------------------------
Message == Frame \cup {Close}

(* What ends a connection for good *)
Gone ==
  \/ link = "broken"
  \/ socket["server"] \notin {"none", "open"}
  \/ \E s \in Side : portal[s] = "down"

(* What a side has sent and the other has not taken *)
OnTheWay(s) == tasks[s] \cup InSeq(outbox[s]) \cup InSeq(wire[Peer(s)]) \cup InSeq(inbox[Peer(s)])

(* A connection is made before it has a portal, and the portal before it   *)
(* is written to.                                                          *)
Started(s) == portal[s] \in {"open", "down"}
Alone == {"dialing", "latched", "done"}
ConnectionsAreSound ==
  /\ \A s \in Side :
       /\ conn[s] \in {"none", "creating", "failed"} => portal[s] = "none"
       /\ conn[s] = "disconnected" => portal[s] \in {"none", "down"}
       /\ conn[s] # "none" => socket[s] # "none"
       /\ outbox[s] # <<>> => portal[s] # "none"
  /\ socket["client"] = "none" <=> socket["server"] = "none"
  /\ phase \notin Alone => conn["client"] # "none"
  /\ phase \in {"querying", "found"} \/ calls > 0 => Started("client")
  /\ tasks["server"] # {} \/ connect # 0 \/ queue # <<>> => Started("server")

(* The client's calls come one after the other, the first is to the hub.   *)
Early == {"dialing", "latched", "handshaking", "querying", "found"}
IsACall(f) ==
  /\ f.call <= calls
  /\ f.call = calls => f.type = asked
  /\ f.type = "Connect" <=> f.call = 1
IsAnAnswer(f) == f.call <= calls /\ f.ok
CallsAreSound ==
  /\ \A f \in OnTheWay("client") : f.type \in Asking => IsACall(f)
  /\ \A f \in InSeq(queue) : f.type \in Asking /\ f.type # "Connect" /\ IsACall(f)
  /\ \A f \in OnTheWay("server") : f.type = "Answer" => IsAnAnswer(f)
  /\ calls = 0 => connect = 0
  /\ asked # "Connect" => calls > 1
  /\ phase \in Early => calls = 0
  /\ phase \in {"calling", "online"} => calls > 0
  /\ acked \subseteq 1 .. calls

(* The call to the hub is in one place at a time.                          *)
IsConnect(f) == f.type = "Connect"
Holds(q) == \E i \in DOMAIN q : IsConnect(q[i])
HoldsOne(q) == \A i, j \in DOMAIN q : IsConnect(q[i]) /\ IsConnect(q[j]) => i = j
InTask(s) == \E f \in tasks[s] : IsConnect(f)
Carries(s) == InTask(s) \/ Holds(outbox[s]) \/ Holds(wire[Peer(s)]) \/ Holds(inbox[Peer(s)])
CarriesOne(s) ==
  /\ \A f, g \in tasks[s] : IsConnect(f) /\ IsConnect(g) => f = g
  /\ HoldsOne(outbox[s]) /\ HoldsOne(wire[Peer(s)]) /\ HoldsOne(inbox[Peer(s)])
  /\ InTask(s) => ~(Holds(outbox[s]) \/ Holds(wire[Peer(s)]) \/ Holds(inbox[Peer(s)]))
  /\ Holds(outbox[s]) => ~(Holds(wire[Peer(s)]) \/ Holds(inbox[Peer(s)]))
  /\ Holds(wire[Peer(s)]) => ~Holds(inbox[Peer(s)])
ConnectIsOnce == CarriesOne("client") /\ (Carries("client") => connect = 0)

(* Once the hub has answered, the client is in the server's map, and no    *)
(* call to the hub is left that could take it out again.                   *)
Settled ==
  \/ \E f \in OnTheWay("server") : f.type = "Answer"
  \/ calls > 1
  \/ phase = "online"
MembersStay ==
  /\ Settled => clients /\ connect = 0 /\ ~Carries("client")
  /\ connect = 2 => clients

(* What was acknowledged was sent to the client before, and so is a post   *)
(* whose acknowledgement is on its way.                                    *)
Told(n) == n \in shown \/ News(n) \in OnTheWay("server") \/ Gone
PostsAreTold ==
  /\ ~unlisted
  /\ \A n \in acked : Told(n)
  /\ phase = "calling" /\ asked = "PostMessage"
       /\ (\E f \in OnTheWay("server") : f.type = "Answer" /\ f.call = calls) => Told(calls)

FfiInvariant ==
  /\ TypeOK
  /\ ConnectionsAreSound
  /\ CallsAreSound
  /\ ConnectIsOnce
  /\ MembersStay
  /\ PostsAreTold
-----------------------------------------------------------------------------
(* Frames *)

(* A frame has the fields that its type says; a Close is none.             *)
LEMMA Frames ==
  /\ Close \in Message /\ Close \notin Frame /\ Close.type = "Close"
  /\ \A f \in Frame : /\ f \in Message /\ f.type # "Close"
                      /\ f.type \in Asking \cup {"MessageReceived", "Answer"} => f.call \in 1 .. MaxCalls
  /\ \A f \in Message : f \in Frame \/ f = Close
  /\ \A t \in {"Introduction", "Query", "Found", "NotFound"} :
       [type |-> t] \in Frame /\ [type |-> t].type = t
  /\ \A t \in Asking, n \in 1 .. MaxCalls :
       [type |-> t, call |-> n] \in Frame /\ [type |-> t, call |-> n].type = t
  /\ \A n \in 1 .. MaxCalls : News(n) \in Frame /\ News(n).type = "MessageReceived" /\ News(n).call = n
  /\ \A n \in 1 .. MaxCalls, b \in BOOLEAN :
       [type |-> "Answer", call |-> n, ok |-> b] \in Frame
<1>1. Close \in Message /\ Close \notin Frame /\ Close.type = "Close"
  BY DEF Message, Close, Frame, Asking
<1>2. \A f \in Frame : /\ f \in Message /\ f.type # "Close"
                       /\ f.type \in Asking \cup {"MessageReceived", "Answer"} => f.call \in 1 .. MaxCalls
  BY DEF Message, Frame, Asking
<1>3. \A f \in Message : f \in Frame \/ f = Close
  BY DEF Message
<1>4. \A t \in {"Introduction", "Query", "Found", "NotFound"} :
        [type |-> t] \in Frame /\ [type |-> t].type = t
  BY DEF Frame
<1>5. \A t \in Asking, n \in 1 .. MaxCalls :
        [type |-> t, call |-> n] \in Frame /\ [type |-> t, call |-> n].type = t
  BY DEF Frame
<1>6. \A n \in 1 .. MaxCalls : News(n) \in Frame /\ News(n).type = "MessageReceived" /\ News(n).call = n
  BY DEF Frame, News
<1>7. \A n \in 1 .. MaxCalls, b \in BOOLEAN :
        [type |-> "Answer", call |-> n, ok |-> b] \in Frame
  BY DEF Frame
<1>. QED
  BY <1>1, <1>2, <1>3, <1>4, <1>5, <1>6, <1>7

(* What is in a queue, and whether the call to the hub is, when its head   *)
(* is taken.                                                               *)
LEMMA QueueShrinks ==
  ASSUME NEW S, NEW q \in Seq(S), q # <<>>
  PROVE  /\ Tail(q) \in Seq(S) /\ Head(q) \in S
         /\ InSeq(q) = InSeq(Tail(q)) \cup {Head(q)}
         /\ IsConnect(Head(q)) => Holds(q)
         /\ Holds(Tail(q)) => Holds(q)
         /\ HoldsOne(q) => /\ HoldsOne(Tail(q))
                           /\ ~(Holds(Tail(q)) /\ IsConnect(Head(q)))
<1>1. /\ Tail(q) \in Seq(S) /\ Head(q) \in S
      /\ Len(q) \in Nat /\ Len(q) > 0
      /\ DOMAIN q = 1 .. Len(q)
      /\ 1 \in DOMAIN q /\ Head(q) = q[1]
      /\ DOMAIN Tail(q) = 1 .. Len(q) - 1
      /\ \A i \in DOMAIN Tail(q) : i \in Nat /\ i + 1 \in DOMAIN q /\ i + 1 # 1 /\ Tail(q)[i] = q[i + 1]
  BY TailElements
<1>2. \A j \in DOMAIN q : j # 1 => j - 1 \in DOMAIN Tail(q) /\ Tail(q)[j - 1] = q[j]
  <2>. SUFFICES ASSUME NEW j \in DOMAIN q, j # 1
                PROVE  j - 1 \in DOMAIN Tail(q) /\ Tail(q)[j - 1] = q[j]
    OBVIOUS
  <2>1. j \in Nat /\ j - 1 \in 1 .. Len(q) - 1 /\ (j - 1) + 1 = j
    BY <1>1
  <2>. QED
    BY <1>1, <2>1
<1>3. InSeq(q) = InSeq(Tail(q)) \cup {Head(q)}
  <2>1. ASSUME NEW x \in InSeq(q)
        PROVE  x \in InSeq(Tail(q)) \cup {Head(q)}
    <3>1. PICK i \in DOMAIN q : x = q[i]
      BY DEF InSeq
    <3>. QED
      BY <1>1, <1>2, <3>1 DEF InSeq
  <2>2. ASSUME NEW x \in InSeq(Tail(q))
        PROVE  x \in InSeq(q)
    <3>1. PICK i \in DOMAIN Tail(q) : x = Tail(q)[i]
      BY DEF InSeq
    <3>. QED
      BY <1>1, <3>1 DEF InSeq
  <2>3. Head(q) \in InSeq(q)
    BY <1>1 DEF InSeq
  <2>. QED
    BY <2>1, <2>2, <2>3
<1>4. IsConnect(Head(q)) => Holds(q)
  BY <1>1 DEF Holds
<1>5. Holds(Tail(q)) => Holds(q)
  BY <1>1 DEF Holds
<1>6. ASSUME HoldsOne(q)
      PROVE  HoldsOne(Tail(q)) /\ ~(Holds(Tail(q)) /\ IsConnect(Head(q)))
  <2>1. ASSUME NEW i \in DOMAIN Tail(q), NEW j \in DOMAIN Tail(q),
               IsConnect(Tail(q)[i]), IsConnect(Tail(q)[j])
        PROVE  i = j
    <3>1. i \in Nat /\ j \in Nat /\ i + 1 = j + 1
      BY <1>1, <1>6, <2>1 DEF HoldsOne
    <3>. QED
      BY <3>1
  <2>2. ASSUME NEW i \in DOMAIN Tail(q), IsConnect(Tail(q)[i]), IsConnect(Head(q))
        PROVE  FALSE
    BY <1>1, <1>6, <2>2 DEF HoldsOne
  <2>. QED
    BY <2>1, <2>2 DEF HoldsOne, Holds
<1>. QED
  BY <1>1, <1>3, <1>4, <1>5, <1>6

(* The same, when something is appended.                                   *)
LEMMA QueueGrows ==
  ASSUME NEW S, NEW q \in Seq(S), NEW e \in S
  PROVE  /\ Append(q, e) \in Seq(S) /\ Append(q, e) # <<>>
         /\ InSeq(Append(q, e)) = InSeq(q) \cup {e}
         /\ Holds(Append(q, e)) <=> Holds(q) \/ IsConnect(e)
         /\ HoldsOne(q) /\ ~(Holds(q) /\ IsConnect(e)) => HoldsOne(Append(q, e))
<1>1. /\ Append(q, e) \in Seq(S) /\ Append(q, e) # <<>>
      /\ Len(q) \in Nat /\ DOMAIN q = 1 .. Len(q)
      /\ DOMAIN Append(q, e) = 1 .. Len(q) + 1
      /\ \A i \in DOMAIN q : Append(q, e)[i] = q[i]
      /\ Append(q, e)[Len(q) + 1] = e
  BY AppendElements
<1>2. DOMAIN Append(q, e) = DOMAIN q \cup {Len(q) + 1}
  BY <1>1
<1>3. InSeq(Append(q, e)) = InSeq(q) \cup {e}
  BY <1>1, <1>2 DEF InSeq
<1>4. Holds(Append(q, e)) <=> Holds(q) \/ IsConnect(e)
  BY <1>1, <1>2 DEF Holds
<1>5. HoldsOne(q) /\ ~(Holds(q) /\ IsConnect(e)) => HoldsOne(Append(q, e))
  BY <1>1, <1>2 DEF HoldsOne, Holds
<1>. QED
  BY <1>1, <1>3, <1>4, <1>5

(* Nothing is in an empty queue.                                           *)
LEMMA EmptyQueue ==
  /\ \A S : <<>> \in Seq(S)
  /\ InSeq(<<>>) = {} /\ ~Holds(<<>>) /\ HoldsOne(<<>>)
<1>1. DOMAIN <<>> = {} /\ \A S : <<>> \in Seq(S)
  BY NoElements
<1>. QED
  BY <1>1 DEF InSeq, Holds, HoldsOne
-----------------------------------------------------------------------------
(* The way of a side's frames to the other side *)

(* What the variables are, for one side.                                   *)
LEMMA SideTypes ==
  ASSUME TypeOK, NEW s \in Side
  PROVE  /\ Peer(s) \in Side /\ Peer(Peer(s)) = s /\ Peer(s) # s
         /\ tasks[s] \subseteq Frame
         /\ outbox[s] \in Seq(Frame) /\ outbox[s] \in Seq(Message)
         /\ wire[s] \in Seq(Message) /\ wire[Peer(s)] \in Seq(Message)
         /\ inbox[s] \in Seq(Message) /\ inbox[Peer(s)] \in Seq(Message)
<1>1. Peer(s) \in Side /\ Peer(Peer(s)) = s /\ Peer(s) # s
  BY DEF Side, Peer
<1>2. Seq(Frame) \subseteq Seq(Message)
  BY SeqMonotonic DEF Message
<1>3. \A t \in Side : /\ tasks[t] \subseteq Frame /\ outbox[t] \in Seq(Frame)
                      /\ wire[t] \in Seq(Message) /\ inbox[t] \in Seq(Message)
  BY DEF TypeOK, Message
<1>. QED
  BY <1>1, <1>2, <1>3

(* What may come to be on the way in a step that neither asks nor answers, *)
(* and what it does to the call to the hub.                                *)
Neutral(f) == f.type \notin Asking \cup {"Answer"}
Moves(s) ==
  /\ \A f \in OnTheWay(s)' : f \in OnTheWay(s) \/ Neutral(f)
  /\ CarriesOne(s) => CarriesOne(s)' /\ (Carries(s)' => Carries(s))

(* A neutral frame is no call to the hub.                                  *)
LEMMA NeutralFrames ==
  /\ \A f : Neutral(f) => ~IsConnect(f)
  /\ Neutral(Close)
  /\ \A t \in {"Introduction", "Query", "Found", "NotFound"} : Neutral([type |-> t])
BY DEF Neutral, IsConnect, Asking, Close

(* A step elsewhere                                                        *)
LEMMA WayStays ==
  ASSUME NEW s \in Side,
         tasks'[s] = tasks[s], outbox'[s] = outbox[s],
         wire'[Peer(s)] = wire[Peer(s)], inbox'[Peer(s)] = inbox[Peer(s)]
  PROVE  Moves(s) /\ OnTheWay(s)' = OnTheWay(s)
<1>1. OnTheWay(s)' = OnTheWay(s)
  BY DEF OnTheWay
<1>2. CarriesOne(s) <=> CarriesOne(s)'
  BY DEF CarriesOne, InTask
<1>3. Carries(s) <=> Carries(s)'
  BY DEF Carries, InTask
<1>. QED
  BY <1>1, <1>2, <1>3 DEF Moves

(* A task serializes a frame, and the portal writes it or is not there.    *)
LEMMA TaskMoves ==
  ASSUME TypeOK, NEW s \in Side, NEW f \in tasks[s],
         tasks'[s] = tasks[s] \ {f},
         outbox'[s] \in {outbox[s], Append(outbox[s], f)},
         wire'[Peer(s)] = wire[Peer(s)], inbox'[Peer(s)] = inbox[Peer(s)]
  PROVE  /\ Moves(s)
         /\ outbox'[s] = Append(outbox[s], f) => OnTheWay(s)' = OnTheWay(s)
<1>1. outbox[s] \in Seq(Frame) /\ f \in Frame
  BY SideTypes
<1>2. /\ InSeq(Append(outbox[s], f)) = InSeq(outbox[s]) \cup {f}
      /\ Holds(Append(outbox[s], f)) <=> Holds(outbox[s]) \/ IsConnect(f)
      /\ HoldsOne(outbox[s]) /\ ~(Holds(outbox[s]) /\ IsConnect(f)) => HoldsOne(Append(outbox[s], f))
  BY <1>1, QueueGrows
<1>3. outbox'[s] = Append(outbox[s], f) => OnTheWay(s)' = OnTheWay(s)
  BY <1>2 DEF OnTheWay
<1>4. OnTheWay(s)' \subseteq OnTheWay(s)
  BY <1>2 DEF OnTheWay
<1>5. /\ IsConnect(f) => InTask(s)
      /\ InTask(s)' => InTask(s)
      /\ CarriesOne(s) /\ IsConnect(f) => ~InTask(s)'
  BY DEF InTask, CarriesOne
<1>6. CarriesOne(s) => CarriesOne(s)'
  <2>. SUFFICES ASSUME CarriesOne(s)
                PROVE  CarriesOne(s)'
    OBVIOUS
  <2>1. \A g, h \in tasks'[s] : IsConnect(g) /\ IsConnect(h) => g = h
    BY DEF CarriesOne
  <2>2. CASE outbox'[s] = outbox[s]
    BY <1>5, <2>1, <2>2 DEF CarriesOne
  <2>3. CASE outbox'[s] = Append(outbox[s], f)
    BY <1>2, <1>5, <2>1, <2>3 DEF CarriesOne
  <2>. QED
    BY <2>2, <2>3
<1>7. Carries(s)' => Carries(s)
  BY <1>2, <1>5 DEF Carries
<1>. QED
  BY <1>3, <1>4, <1>6, <1>7 DEF Moves

(* The transport sends a frame or loses it.                                *)
LEMMA OutboxMoves ==
  ASSUME TypeOK, NEW s \in Side, outbox[s] # <<>>,
         tasks'[s] = tasks[s],
         outbox'[s] = Tail(outbox[s]),
         wire'[Peer(s)] \in {wire[Peer(s)], Append(wire[Peer(s)], Head(outbox[s]))},
         inbox'[Peer(s)] = inbox[Peer(s)]
  PROVE  /\ Moves(s)
         /\ wire'[Peer(s)] = Append(wire[Peer(s)], Head(outbox[s])) => OnTheWay(s)' = OnTheWay(s)
<1>. DEFINE e == Head(outbox[s])
            w == wire[Peer(s)]
            q == outbox[s]
<1>1. q \in Seq(Message) /\ w \in Seq(Message) /\ q # <<>>
  BY SideTypes
<1>2. /\ InSeq(q) = InSeq(Tail(q)) \cup {e} /\ e \in Message
      /\ IsConnect(e) => Holds(q)
      /\ Holds(Tail(q)) => Holds(q)
      /\ HoldsOne(q) => HoldsOne(Tail(q)) /\ ~(Holds(Tail(q)) /\ IsConnect(e))
  BY <1>1, QueueShrinks
<1>3. /\ InSeq(Append(w, e)) = InSeq(w) \cup {e}
      /\ Holds(Append(w, e)) <=> Holds(w) \/ IsConnect(e)
      /\ HoldsOne(w) /\ ~(Holds(w) /\ IsConnect(e)) => HoldsOne(Append(w, e))
  BY <1>1, <1>2, QueueGrows
<1>. HIDE DEF e, w, q
<1>u. /\ wire[Peer(s)] = w /\ outbox[s] = q /\ outbox'[s] = Tail(q)
      /\ wire'[Peer(s)] \in {w, Append(w, e)}
  BY DEF e, w, q
<1>4. wire'[Peer(s)] = Append(w, e) => OnTheWay(s)' = OnTheWay(s)
  BY <1>2, <1>3, <1>u DEF OnTheWay
<1>5. OnTheWay(s)' \subseteq OnTheWay(s)
  BY <1>2, <1>3, <1>u DEF OnTheWay
<1>6. InTask(s)' <=> InTask(s)
  BY DEF InTask
<1>7. CarriesOne(s) => CarriesOne(s)'
  <2>1. CASE wire'[Peer(s)] = w
    BY <1>2, <1>6, <1>u, <2>1 DEF CarriesOne
  <2>2. CASE wire'[Peer(s)] = Append(w, e)
    BY <1>2, <1>3, <1>6, <1>u, <2>2 DEF CarriesOne
  <2>. QED
    BY <1>u, <2>1, <2>2
<1>8. Carries(s)' => Carries(s)
  BY <1>2, <1>3, <1>6, <1>u DEF Carries
<1>. QED
  BY <1>4, <1>5, <1>7, <1>8 DEF Moves, e, w

(* A socket receives a frame, and hands it to the channel or loses it.     *)
LEMMA WireMoves ==
  ASSUME TypeOK, NEW s \in Side, wire[Peer(s)] # <<>>,
         tasks'[s] = tasks[s], outbox'[s] = outbox[s],
         wire'[Peer(s)] = Tail(wire[Peer(s)]),
         inbox'[Peer(s)] \in {inbox[Peer(s)], Append(inbox[Peer(s)], Head(wire[Peer(s)]))}
  PROVE  /\ Moves(s)
         /\ OnTheWay(s) \subseteq OnTheWay(s)' \cup {Head(wire[Peer(s)])}
         /\ inbox'[Peer(s)] = Append(inbox[Peer(s)], Head(wire[Peer(s)])) => OnTheWay(s)' = OnTheWay(s)
<1>. DEFINE e == Head(wire[Peer(s)])
            w == inbox[Peer(s)]
            q == wire[Peer(s)]
<1>1. q \in Seq(Message) /\ w \in Seq(Message) /\ q # <<>>
  BY SideTypes
<1>2. /\ InSeq(q) = InSeq(Tail(q)) \cup {e} /\ e \in Message
      /\ IsConnect(e) => Holds(q)
      /\ Holds(Tail(q)) => Holds(q)
      /\ HoldsOne(q) => HoldsOne(Tail(q)) /\ ~(Holds(Tail(q)) /\ IsConnect(e))
  BY <1>1, QueueShrinks
<1>3. /\ InSeq(Append(w, e)) = InSeq(w) \cup {e}
      /\ Holds(Append(w, e)) <=> Holds(w) \/ IsConnect(e)
      /\ HoldsOne(w) /\ ~(Holds(w) /\ IsConnect(e)) => HoldsOne(Append(w, e))
  BY <1>1, <1>2, QueueGrows
<1>. HIDE DEF e, w, q
<1>u. /\ wire[Peer(s)] = q /\ inbox[Peer(s)] = w /\ wire'[Peer(s)] = Tail(q)
      /\ inbox'[Peer(s)] \in {w, Append(w, e)}
  BY DEF e, w, q
<1>4. inbox'[Peer(s)] = Append(w, e) => OnTheWay(s)' = OnTheWay(s)
  BY <1>2, <1>3, <1>u DEF OnTheWay
<1>5. OnTheWay(s)' \subseteq OnTheWay(s) /\ OnTheWay(s) \subseteq OnTheWay(s)' \cup {e}
  BY <1>2, <1>3, <1>u DEF OnTheWay
<1>6. InTask(s)' <=> InTask(s)
  BY DEF InTask
<1>7. CarriesOne(s) => CarriesOne(s)'
  <2>1. CASE inbox'[Peer(s)] = w
    BY <1>2, <1>6, <1>u, <2>1 DEF CarriesOne
  <2>2. CASE inbox'[Peer(s)] = Append(w, e)
    BY <1>2, <1>3, <1>6, <1>u, <2>2 DEF CarriesOne
  <2>. QED
    BY <1>u, <2>1, <2>2
<1>8. Carries(s)' => Carries(s)
  BY <1>2, <1>3, <1>6, <1>u DEF Carries
<1>. QED
  BY <1>4, <1>5, <1>7, <1>8 DEF Moves, e, w

(* The portal takes a frame.                                               *)
LEMMA InboxMoves ==
  ASSUME TypeOK, NEW s \in Side, inbox[Peer(s)] # <<>>,
         tasks'[s] = tasks[s], outbox'[s] = outbox[s], wire'[Peer(s)] = wire[Peer(s)],
         inbox'[Peer(s)] = Tail(inbox[Peer(s)])
  PROVE  /\ Moves(s)
         /\ Head(inbox[Peer(s)]) \in Message
         /\ OnTheWay(s) = OnTheWay(s)' \cup {Head(inbox[Peer(s)])}
         /\ IsConnect(Head(inbox[Peer(s)])) /\ CarriesOne(s) => Carries(s) /\ ~Carries(s)'
<1>. DEFINE e == Head(inbox[Peer(s)])
            q == inbox[Peer(s)]
<1>1. q \in Seq(Message) /\ q # <<>>
  BY SideTypes
<1>2. /\ InSeq(q) = InSeq(Tail(q)) \cup {e} /\ e \in Message
      /\ IsConnect(e) => Holds(q)
      /\ Holds(Tail(q)) => Holds(q)
      /\ HoldsOne(q) => HoldsOne(Tail(q)) /\ ~(Holds(Tail(q)) /\ IsConnect(e))
  BY <1>1, QueueShrinks
<1>. HIDE DEF e, q
<1>u. inbox[Peer(s)] = q /\ inbox'[Peer(s)] = Tail(q)
  BY DEF e, q
<1>5. OnTheWay(s) = OnTheWay(s)' \cup {e}
  BY <1>2, <1>u DEF OnTheWay
<1>6. InTask(s)' <=> InTask(s)
  BY DEF InTask
<1>7. CarriesOne(s) => CarriesOne(s)'
  BY <1>2, <1>6, <1>u DEF CarriesOne
<1>8. Carries(s)' => Carries(s)
  BY <1>2, <1>6, <1>u DEF Carries
<1>9. IsConnect(e) /\ CarriesOne(s) => Carries(s) /\ ~Carries(s)'
  BY <1>2, <1>6, <1>u DEF Carries, CarriesOne
<1>. QED
  BY <1>2, <1>5, <1>7, <1>8, <1>9 DEF Moves, e

(* A portal writes something neutral.                                      *)
LEMMA OutboxGrows ==
  ASSUME TypeOK, NEW s \in Side, NEW e \in Frame, Neutral(e),
         tasks'[s] = tasks[s],
         outbox'[s] \in {outbox[s], Append(outbox[s], e)},
         wire'[Peer(s)] = wire[Peer(s)], inbox'[Peer(s)] = inbox[Peer(s)]
  PROVE  Moves(s) /\ OnTheWay(s) \subseteq OnTheWay(s)'
<1>1. outbox[s] \in Seq(Frame) /\ ~IsConnect(e)
  BY SideTypes, NeutralFrames
<1>2. /\ InSeq(Append(outbox[s], e)) = InSeq(outbox[s]) \cup {e}
      /\ Holds(Append(outbox[s], e)) <=> Holds(outbox[s])
      /\ HoldsOne(outbox[s]) => HoldsOne(Append(outbox[s], e))
  BY <1>1, QueueGrows
<1>3. /\ OnTheWay(s) \subseteq OnTheWay(s)'
      /\ OnTheWay(s)' \subseteq OnTheWay(s) \cup {e}
  BY <1>2 DEF OnTheWay
<1>4. InTask(s)' <=> InTask(s)
  BY DEF InTask
<1>5. /\ Holds(outbox'[s]) <=> Holds(outbox[s])
      /\ HoldsOne(outbox[s]) => HoldsOne(outbox'[s])
  BY <1>2
<1>6. CarriesOne(s) => CarriesOne(s)'
  BY <1>4, <1>5 DEF CarriesOne
<1>7. Carries(s)' => Carries(s)
  BY <1>4, <1>5 DEF Carries
<1>. QED
  BY <1>3, <1>6, <1>7 DEF Moves

(* A library closes: the peer gets a Close.                                *)
LEMMA WireGrows ==
  ASSUME TypeOK, NEW s \in Side,
         tasks'[s] = tasks[s], outbox'[s] = outbox[s],
         wire'[Peer(s)] \in {wire[Peer(s)], Append(wire[Peer(s)], Close)},
         inbox'[Peer(s)] = inbox[Peer(s)]
  PROVE  Moves(s) /\ OnTheWay(s) \subseteq OnTheWay(s)'
<1>1. wire[Peer(s)] \in Seq(Message) /\ Close \in Message /\ ~IsConnect(Close) /\ Neutral(Close)
  BY SideTypes, NeutralFrames, Frames
<1>2. /\ InSeq(Append(wire[Peer(s)], Close)) = InSeq(wire[Peer(s)]) \cup {Close}
      /\ Holds(Append(wire[Peer(s)], Close)) <=> Holds(wire[Peer(s)])
      /\ HoldsOne(wire[Peer(s)]) => HoldsOne(Append(wire[Peer(s)], Close))
  BY <1>1, QueueGrows
<1>3. /\ OnTheWay(s) \subseteq OnTheWay(s)'
      /\ OnTheWay(s)' \subseteq OnTheWay(s) \cup {Close}
  BY <1>2 DEF OnTheWay
<1>4. InTask(s)' <=> InTask(s)
  BY DEF InTask
<1>5. /\ Holds(wire'[Peer(s)]) <=> Holds(wire[Peer(s)])
      /\ HoldsOne(wire[Peer(s)]) => HoldsOne(wire'[Peer(s)])
  BY <1>2
<1>6. CarriesOne(s) => CarriesOne(s)'
  BY <1>4, <1>5 DEF CarriesOne
<1>7. Carries(s)' => Carries(s)
  BY <1>4, <1>5 DEF Carries
<1>. QED
  BY <1>1, <1>3, <1>6, <1>7 DEF Moves

(* A library tells Rust of a Close.                                        *)
LEMMA InboxGrows ==
  ASSUME TypeOK, NEW s \in Side,
         tasks'[s] = tasks[s], outbox'[s] = outbox[s], wire'[Peer(s)] = wire[Peer(s)],
         inbox'[Peer(s)] \in {inbox[Peer(s)], Append(inbox[Peer(s)], Close)}
  PROVE  Moves(s) /\ OnTheWay(s) \subseteq OnTheWay(s)'
<1>1. inbox[Peer(s)] \in Seq(Message) /\ Close \in Message /\ ~IsConnect(Close) /\ Neutral(Close)
  BY SideTypes, NeutralFrames, Frames
<1>2. /\ InSeq(Append(inbox[Peer(s)], Close)) = InSeq(inbox[Peer(s)]) \cup {Close}
      /\ Holds(Append(inbox[Peer(s)], Close)) <=> Holds(inbox[Peer(s)])
      /\ HoldsOne(inbox[Peer(s)]) => HoldsOne(Append(inbox[Peer(s)], Close))
  BY <1>1, QueueGrows
<1>3. /\ OnTheWay(s) \subseteq OnTheWay(s)'
      /\ OnTheWay(s)' \subseteq OnTheWay(s) \cup {Close}
  BY <1>2 DEF OnTheWay
<1>4. InTask(s)' <=> InTask(s)
  BY DEF InTask
<1>5. /\ Holds(inbox'[Peer(s)]) <=> Holds(inbox[Peer(s)])
      /\ HoldsOne(inbox[Peer(s)]) => HoldsOne(inbox'[Peer(s)])
  BY <1>2
<1>6. CarriesOne(s) => CarriesOne(s)'
  BY <1>4, <1>5 DEF CarriesOne
<1>7. Carries(s)' => Carries(s)
  BY <1>4, <1>5 DEF Carries
<1>. QED
  BY <1>1, <1>3, <1>6, <1>7 DEF Moves

(* The network breaks: what is on the wire is lost.                        *)
LEMMA WireIsLost ==
  ASSUME NEW s \in Side,
         tasks'[s] = tasks[s], outbox'[s] = outbox[s],
         wire'[Peer(s)] = <<>>, inbox'[Peer(s)] = inbox[Peer(s)]
  PROVE  Moves(s)
<1>1. InSeq(<<>>) = {} /\ ~Holds(<<>>) /\ HoldsOne(<<>>)
  BY EmptyQueue
<1>2. OnTheWay(s)' \subseteq OnTheWay(s)
  BY <1>1 DEF OnTheWay
<1>3. InTask(s)' <=> InTask(s)
  BY DEF InTask
<1>4. CarriesOne(s) => CarriesOne(s)'
  BY <1>1, <1>3 DEF CarriesOne
<1>5. Carries(s)' => Carries(s)
  BY <1>1, <1>3 DEF Carries
<1>. QED
  BY <1>2, <1>4, <1>5 DEF Moves
-----------------------------------------------------------------------------
(* Steps that neither ask nor answer                                       *)

(* Frames move on, nothing is lost but with the connection, and the two    *)
(* sides know what they knew.                                              *)
Quiet ==
  /\ \A s \in Side : Moves(s)
  /\ \A n : News(n) \in OnTheWay("server") /\ calls > 0 => Told(n)'
  /\ Gone => Gone'
  /\ shown \subseteq shown' /\ acked' = acked /\ unlisted' = unlisted
  /\ calls' = calls /\ asked' = asked /\ clients' = clients
  /\ connect' \in {connect, 0} /\ InSeq(queue') \subseteq InSeq(queue)
  /\ phase' \in Early => phase \in Early
  /\ phase' = "calling" => phase = "calling"
  /\ phase' = "online" => phase = "online" \/ calls > 1

(* Such a step preserves what the invariant says of calls and posts.       *)
LEMMA QuietSteps ==
  ASSUME FfiInvariant, Quiet
  PROVE  CallsAreSound' /\ ConnectIsOnce' /\ MembersStay' /\ PostsAreTold'
<1>1. "client" \in Side /\ "server" \in Side
  BY DEF Side
<1>2. calls \in Nat
  BY DEF FfiInvariant, TypeOK
<1>3. /\ \A f \in OnTheWay("client")' : f \in OnTheWay("client") \/ f.type \notin Asking \cup {"Answer"}
      /\ \A f \in OnTheWay("server")' : f \in OnTheWay("server") \/ f.type \notin Asking \cup {"Answer"}
      /\ CarriesOne("client") => CarriesOne("client")' /\ (Carries("client")' => Carries("client"))
  BY <1>1 DEF Quiet, Moves, Neutral
<1>4. /\ calls' = calls /\ asked' = asked /\ clients' = clients /\ acked' = acked /\ unlisted' = unlisted
      /\ connect' \in {connect, 0} /\ InSeq(queue') \subseteq InSeq(queue)
      /\ phase' \in Early => phase \in Early
      /\ phase' = "calling" => phase = "calling"
      /\ phase' = "online" => phase = "online" \/ calls > 1
  BY DEF Quiet
<1>5. CallsAreSound'
  <2>1. CallsAreSound
    BY DEF FfiInvariant
  <2>2. \A f : IsACall(f)' <=> IsACall(f)
    BY <1>4 DEF IsACall
  <2>3. \A f : IsAnAnswer(f)' <=> IsAnAnswer(f)
    BY <1>4 DEF IsAnAnswer
  <2>4. \A f \in OnTheWay("client")' : f.type \in Asking => IsACall(f)'
    BY <1>3, <2>1, <2>2 DEF CallsAreSound
  <2>5. \A f \in InSeq(queue)' : f.type \in Asking /\ f.type # "Connect" /\ IsACall(f)'
    BY <1>4, <2>1, <2>2 DEF CallsAreSound, InSeq
  <2>6. \A f \in OnTheWay("server")' : f.type = "Answer" => IsAnAnswer(f)'
    BY <1>3, <2>1, <2>3 DEF CallsAreSound
  <2>7. /\ calls' = 0 => connect' = 0
        /\ asked' # "Connect" => calls' > 1
        /\ phase' \in Early => calls' = 0
        /\ phase' \in {"calling", "online"} => calls' > 0
        /\ acked' \subseteq 1 .. calls'
    BY <1>2, <1>4, <2>1 DEF CallsAreSound
  <2>. QED
    BY <2>4, <2>5, <2>6, <2>7 DEF CallsAreSound
<1>6. ConnectIsOnce'
  BY <1>3, <1>4 DEF FfiInvariant, ConnectIsOnce
<1>7. MembersStay'
  <2>1. Settled' => Settled
    BY <1>3, <1>4 DEF Settled
  <2>2. MembersStay /\ CarriesOne("client")
    BY DEF FfiInvariant, ConnectIsOnce
  <2>. QED
    BY <1>3, <1>4, <2>1, <2>2 DEF MembersStay
<1>8. PostsAreTold'
  <2>1. PostsAreTold /\ CallsAreSound
    BY DEF FfiInvariant
  <2>2. ASSUME NEW n, Told(n), calls > 0
        PROVE  Told(n)'
    <3>1. CASE n \in shown
      BY <3>1 DEF Told, Quiet
    <3>2. CASE News(n) \in OnTheWay("server")
      BY <2>2, <3>2 DEF Quiet
    <3>3. CASE Gone
      BY <3>3 DEF Told, Quiet
    <3>. QED
      BY <2>2, <3>1, <3>2, <3>3 DEF Told
  <2>3. ASSUME NEW n \in acked
        PROVE  calls > 0
    <3>1. n \in 1 .. calls
      BY <2>1 DEF CallsAreSound
    <3>. QED
      BY <1>2, <3>1
  <2>4. ASSUME NEW n \in acked'
        PROVE  Told(n)'
    <3>1. n \in acked /\ Told(n) /\ calls > 0
      BY <1>4, <2>1, <2>3 DEF PostsAreTold
    <3>. QED
      BY <2>2, <3>1
  <2>5. ASSUME phase' = "calling", asked' = "PostMessage",
               NEW f \in OnTheWay("server")', f.type = "Answer", f.call = calls'
        PROVE  Told(calls)'
    <3>1. f \in OnTheWay("server") /\ phase = "calling" /\ asked = "PostMessage" /\ f.call = calls
      BY <1>3, <1>4, <2>5
    <3>2. Told(calls) /\ calls > 0
      BY <2>1, <2>5, <3>1 DEF PostsAreTold, CallsAreSound
    <3>3. PICK n : n = calls
      OBVIOUS
    <3>4. Told(n)'
      BY <2>2, <3>2, <3>3
    <3>. QED
      BY <1>4, <3>3, <3>4
  <2>. QED
    BY <1>4, <2>1, <2>4, <2>5 DEF PostsAreTold
<1>. QED
  BY <1>5, <1>6, <1>7, <1>8
-----------------------------------------------------------------------------
(* What is not touched is as it was.                                       *)
LEMMA QuietIf ==
  ASSUME \A s \in Side : Moves(s),
         UNCHANGED <<calls, asked, clients, connect, queue, historyVars>>,
         Gone => Gone',
         \A n : News(n) \in OnTheWay("server") /\ calls > 0 => Told(n)',
         phase' \in Early => phase \in Early,
         phase' = "calling" => phase = "calling",
         phase' = "online" => phase = "online" \/ calls > 1
  PROVE  Quiet
BY DEF Quiet, historyVars

(* The same, when the frames stay where they are.                          *)
LEMMA QuietElsewhere ==
  ASSUME UNCHANGED <<tasks, outbox, wire, inbox>>,
         UNCHANGED <<calls, asked, clients, connect, queue, historyVars>>,
         Gone => Gone',
         phase' \in Early => phase \in Early,
         phase' = "calling" => phase = "calling",
         phase' = "online" => phase = "online" \/ calls > 1
  PROVE  Quiet
<1>1. \A s \in Side : Moves(s) /\ OnTheWay(s)' = OnTheWay(s)
  BY WayStays
<1>2. "server" \in Side
  BY DEF Side
<1>3. \A n : News(n) \in OnTheWay("server") /\ calls > 0 => Told(n)'
  BY <1>1, <1>2 DEF Told
<1>. QED
  BY <1>1, <1>3, QuietIf

(* What a side has, beside the frames                                      *)
LEMMA SideStates ==
  ASSUME TypeOK, NEW s \in Side
  PROVE  /\ socket[s] \in {"none", "open", "closing", "closed", "failed"}
         /\ nexus[s] \in {"up", "stopped"}
         /\ conn[s] \in {"none", "creating", "open", "failed", "disconnected"}
         /\ portal[s] \in {"none", "opening", "open", "down"}
         /\ task[s] \in {"none", "forwards", "ended", "panicked"}
BY DEF TypeOK

(* The types, when the applications are not touched                        *)
LEMMA TypesOutside ==
  ASSUME TypeOK, UNCHANGED <<setting, clientVars, serverVars, historyVars>>,
         link' \in {"up", "broken"},
         socket' \in [Side -> {"none", "open", "closing", "closed", "failed"}],
         wire' \in [Side -> Seq(Message)], assigned' \in BOOLEAN,
         nexus' \in [Side -> {"up", "stopped"}],
         conn' \in [Side -> {"none", "creating", "open", "failed", "disconnected"}],
         portal' \in [Side -> {"none", "opening", "open", "down"}],
         task' \in [Side -> {"none", "forwards", "ended", "panicked"}],
         outbox' \in [Side -> Seq(Frame)], inbox' \in [Side -> Seq(Message)],
         tasks' \in [Side -> SUBSET Frame]
  PROVE  TypeOK'
<1>1. UNCHANGED <<setting, phase, calls, asked, closing, setup, hub, chat, connect, queue, clients, acked,
                  shown, unlisted>>
  BY DEF clientVars, serverVars, historyVars
<1>. QED
  BY <1>1 DEF TypeOK, Message

(* SocketOpens *)
LEMMA SocketOpensStep ==
  ASSUME FfiInvariant, UNCHANGED setting, SocketOpens
  PROVE  TypeOK' /\ ConnectionsAreSound' /\ Quiet
<1>1. TypeOK /\ ConnectionsAreSound
  BY DEF FfiInvariant
<1>2. /\ UNCHANGED <<link, wire, assigned, rustVars, clientVars, serverVars, historyVars>>
      /\ socket["client"] = "none" /\ socket' = [s \in Side |-> "open"]
  BY DEF SocketOpens
<1>3. TypeOK'
  <2>1. UNCHANGED <<setting, link, wire, assigned, nexus, conn, portal, task, outbox, inbox, tasks, phase, calls,
                    asked, closing, setup, hub, chat, connect, queue, clients, acked, shown, unlisted>>
    BY <1>2 DEF rustVars, clientVars, serverVars, historyVars
  <2>. QED
    BY <1>1, <1>2, <2>1 DEF TypeOK
<1>4. UNCHANGED <<link, portal, conn, outbox, tasks, wire, inbox, phase, calls, asked, connect, queue, clients>>
  BY <1>2 DEF rustVars, clientVars, serverVars
<1>5. ConnectionsAreSound'
  BY <1>1, <1>2, <1>4 DEF ConnectionsAreSound, Started, Side
<1>6. Gone => Gone'
  BY <1>1, <1>2, <1>4 DEF ConnectionsAreSound, Gone, Side
<1>7. Quiet
  BY <1>2, <1>4, <1>6, QuietElsewhere
<1>. QED
  BY <1>3, <1>5, <1>7

(* LinkBreaks *)
LEMMA LinkBreaksStep ==
  ASSUME FfiInvariant, UNCHANGED setting, LinkBreaks
  PROVE  TypeOK' /\ ConnectionsAreSound' /\ Quiet
<1>1. TypeOK /\ ConnectionsAreSound
  BY DEF FfiInvariant
<1>2. /\ UNCHANGED <<socket, assigned, rustVars, clientVars, serverVars, historyVars>>
      /\ link' = "broken" /\ wire' = [s \in Side |-> <<>>]
  BY DEF LinkBreaks
<1>3. TypeOK'
  <2>1. UNCHANGED <<setting, socket, assigned, nexus, conn, portal, task, outbox, inbox, tasks, phase, calls,
                    asked, closing, setup, hub, chat, connect, queue, clients, acked, shown, unlisted>>
    BY <1>2 DEF rustVars, clientVars, serverVars, historyVars
  <2>2. wire' \in [Side -> Seq(Frame \cup {Close})]
    BY <1>2, EmptyQueue
  <2>. QED
    BY <1>1, <1>2, <2>1, <2>2 DEF TypeOK
<1>4. UNCHANGED <<socket, portal, conn, outbox, tasks, inbox, phase, calls, asked, connect, queue, clients>>
  BY <1>2 DEF rustVars, clientVars, serverVars
<1>5. ConnectionsAreSound'
  BY <1>1, <1>4 DEF ConnectionsAreSound, Started
<1>6. Gone'
  BY <1>2 DEF Gone
<1>7. \A s \in Side : Moves(s)
  BY <1>1, <1>2, <1>4, SideTypes, WireIsLost
<1>8. Quiet
  BY <1>2, <1>4, <1>6, <1>7, QuietIf DEF Told
<1>. QED
  BY <1>3, <1>5, <1>8

(* SocketReceives *)
LEMMA SocketReceivesStep ==
  ASSUME FfiInvariant, UNCHANGED setting, NEW s \in Side, SocketReceives(s)
  PROVE  TypeOK' /\ ConnectionsAreSound' /\ Quiet
<1>1. TypeOK /\ ConnectionsAreSound
  BY DEF FfiInvariant
<1>2. /\ UNCHANGED <<link, socket, assigned, nexus, conn, portal, task, outbox, tasks, clientVars,
                     serverVars, historyVars>>
      /\ wire[s] # <<>> /\ wire' = [wire EXCEPT ![s] = Tail(@)]
      /\ OnMessageReceived(s, Head(wire[s]))
  BY DEF SocketReceives
<1>. DEFINE m == Head(wire[s])
            taken == conn[s] = "open" /\ portal[s] # "down"
<1>3. inbox' = IF taken THEN [inbox EXCEPT ![s] = Append(@, m)] ELSE inbox
  BY <1>2 DEF OnMessageReceived
<1>4. /\ wire[s] \in Seq(Message) /\ inbox[s] \in Seq(Message)
      /\ wire \in [Side -> Seq(Message)] /\ inbox \in [Side -> Seq(Message)]
  BY <1>1, SideTypes DEF TypeOK, Message
<1>5. m \in Message /\ Tail(wire[s]) \in Seq(Message) /\ Append(inbox[s], m) \in Seq(Message)
  BY <1>2, <1>4, QueueShrinks, QueueGrows
<1>. HIDE DEF m, taken
<1>6. TypeOK'
  <2>1. UNCHANGED <<setting, link, socket, assigned, nexus, conn, portal, task, outbox, tasks, phase, calls,
                    asked, closing, setup, hub, chat, connect, queue, clients, acked, shown, unlisted>>
    BY <1>2 DEF clientVars, serverVars, historyVars
  <2>2. wire' \in [Side -> Seq(Message)] /\ inbox' \in [Side -> Seq(Message)]
    BY <1>2, <1>3, <1>4, <1>5
  <2>. QED
    BY <1>1, <2>1, <2>2 DEF TypeOK, Message
<1>7. UNCHANGED <<link, socket, portal, conn, outbox, tasks, phase, calls, asked, connect, queue, clients>>
  BY <1>2 DEF clientVars, serverVars
<1>8. ConnectionsAreSound'
  BY <1>1, <1>7 DEF ConnectionsAreSound, Started
<1>9. Gone <=> Gone'
  BY <1>7 DEF Gone
<1>10. PICK t \in Side : t = Peer(s) /\ Peer(t) = s /\ t # s
  BY <1>1, SideTypes
<1>11. /\ wire'[s] = Tail(wire[s]) /\ wire'[t] = wire[t] /\ inbox'[t] = inbox[t]
       /\ inbox'[s] = IF taken THEN Append(inbox[s], m) ELSE inbox[s]
  BY <1>2, <1>3, <1>4, <1>10
<1>12. Moves(s) /\ OnTheWay(s)' = OnTheWay(s)
  BY <1>7, <1>10, <1>11, WayStays
<1>13. Moves(t) /\ (taken => OnTheWay(t)' = OnTheWay(t))
  BY <1>1, <1>2, <1>7, <1>10, <1>11, WireMoves DEF m
<1>14. \A n : News(n) \in OnTheWay("server") /\ calls > 0 => Told(n)'
  <2>1. CASE s = "server"
    BY <1>12, <2>1 DEF Told
  <2>2. CASE s = "client" /\ taken
    BY <1>10, <1>13, <2>2 DEF Told, Peer
  <2>3. CASE s = "client" /\ ~taken
    <3>1. calls > 0 => Gone
      BY <1>1, <2>3, SideStates DEF ConnectionsAreSound, Started, taken, Gone
    <3>. QED
      BY <1>9, <3>1 DEF Told
  <2>. QED
    BY <2>1, <2>2, <2>3 DEF Side
<1>15. \A u \in Side : Moves(u)
  BY <1>10, <1>12, <1>13 DEF Side
<1>. QED
  BY <1>2, <1>6, <1>7, <1>8, <1>9, <1>14, <1>15, QuietIf

(* SocketCloses *)
LEMMA SocketClosesStep ==
  ASSUME FfiInvariant, UNCHANGED setting, NEW s \in Side, SocketCloses(s)
  PROVE  TypeOK' /\ ConnectionsAreSound' /\ Quiet
<1>1. TypeOK /\ ConnectionsAreSound
  BY DEF FfiInvariant
<1>2. /\ UNCHANGED <<link, assigned, nexus, conn, portal, task, outbox, tasks, clientVars, serverVars,
                     historyVars>>
      /\ wire[s] # <<>> /\ Head(wire[s]) = Close
      /\ wire' = [t \in Side |-> IF t = s THEN Tail(wire[s])
                                 ELSE IF socket[s] = "open" THEN Append(wire[t], Close) ELSE wire[t]]
      /\ socket' = [socket EXCEPT ![s] = "closed"]
      /\ conn[s] # "none"
  BY DEF SocketCloses, Opened
<1>3. inbox' = IF conn[s] = "open" /\ portal[s] # "down"
               THEN [inbox EXCEPT ![s] = Append(@, Close)] ELSE inbox
  BY DEF SocketCloses, TellsClose, OnMessageReceived
<1>4. /\ wire[s] \in Seq(Message) /\ inbox[s] \in Seq(Message)
      /\ wire \in [Side -> Seq(Message)] /\ inbox \in [Side -> Seq(Message)]
      /\ socket \in [Side -> {"none", "open", "closing", "closed", "failed"}]
  BY <1>1, SideTypes DEF TypeOK, Message
<1>5. Close \in Message /\ Tail(wire[s]) \in Seq(Message) /\ Append(inbox[s], Close) \in Seq(Message)
  BY <1>2, <1>4, QueueShrinks, QueueGrows, Frames
<1>6. \A t \in Side : Append(wire[t], Close) \in Seq(Message)
  BY <1>4, QueueGrows, Frames
<1>7. TypeOK'
  <2>1. UNCHANGED <<setting, link, assigned, nexus, conn, portal, task, outbox, tasks, phase, calls,
                    asked, closing, setup, hub, chat, connect, queue, clients, acked, shown, unlisted>>
    BY <1>2 DEF clientVars, serverVars, historyVars
  <2>2. wire' \in [Side -> Seq(Message)] /\ inbox' \in [Side -> Seq(Message)]
    BY <1>2, <1>3, <1>4, <1>5, <1>6
  <2>3. socket' \in [Side -> {"none", "open", "closing", "closed", "failed"}]
    BY <1>2, <1>4
  <2>. QED
    BY <1>1, <2>1, <2>2, <2>3 DEF TypeOK, Message
<1>8. UNCHANGED <<link, portal, conn, outbox, tasks, phase, calls, asked, connect, queue, clients>>
  BY <1>2 DEF clientVars, serverVars
<1>9. /\ socket[s] # "none"
      /\ \A t \in Side : socket'[t] = IF t = s THEN "closed" ELSE socket[t]
  BY <1>1, <1>2, <1>4 DEF ConnectionsAreSound
<1>10. ConnectionsAreSound'
  BY <1>1, <1>8, <1>9 DEF ConnectionsAreSound, Started, Side
<1>11. Gone => Gone'
  BY <1>8, <1>9 DEF Gone, Side
<1>12. PICK t \in Side : t = Peer(s) /\ Peer(t) = s /\ t # s
  BY <1>1, SideTypes
<1>13. /\ wire'[s] = Tail(wire[s]) /\ wire'[t] \in {wire[t], Append(wire[t], Close)}
       /\ inbox'[t] = inbox[t]
       /\ inbox'[s] \in {inbox[s], Append(inbox[s], Close)}
  BY <1>2, <1>3, <1>4, <1>12
<1>14. Moves(s) /\ OnTheWay(s) \subseteq OnTheWay(s)'
  BY <1>1, <1>8, <1>12, <1>13, WireGrows
<1>15. Moves(t) /\ OnTheWay(t) \subseteq OnTheWay(t)' \cup {Close}
  BY <1>1, <1>2, <1>8, <1>12, <1>13, WireMoves
<1>16. \A n : News(n) # Close
  BY DEF News, Close
<1>17. \A n : News(n) \in OnTheWay("server") /\ calls > 0 => Told(n)'
  BY <1>12, <1>14, <1>15, <1>16 DEF Told, Side
<1>18. \A u \in Side : Moves(u)
  BY <1>12, <1>14, <1>15 DEF Side
<1>. QED
  BY <1>2, <1>7, <1>8, <1>10, <1>11, <1>17, <1>18, QuietIf

(* SocketFails *)
LEMMA SocketFailsStep ==
  ASSUME FfiInvariant, UNCHANGED setting, NEW s \in Side, SocketFails(s)
  PROVE  TypeOK' /\ ConnectionsAreSound' /\ Quiet
<1>1. TypeOK /\ ConnectionsAreSound
  BY DEF FfiInvariant
<1>2. /\ UNCHANGED <<link, wire, assigned, nexus, conn, portal, task, outbox, tasks, clientVars,
                     serverVars, historyVars>>
      /\ link = "broken"
      /\ socket[s] \in {"open", "closing"}
      /\ socket' = [socket EXCEPT ![s] = "failed"]
  BY DEF SocketFails
<1>3. inbox' = inbox \/ inbox' = [inbox EXCEPT ![s] = Append(@, Close)]
  BY DEF SocketFails, TellsClose, OnMessageReceived
<1>4. /\ inbox[s] \in Seq(Message) /\ inbox \in [Side -> Seq(Message)]
      /\ socket \in [Side -> {"none", "open", "closing", "closed", "failed"}]
  BY <1>1, SideTypes DEF TypeOK, Message
<1>5. Append(inbox[s], Close) \in Seq(Message)
  BY <1>4, QueueGrows, Frames
<1>6. TypeOK'
  <2>1. UNCHANGED <<setting, link, wire, assigned, nexus, conn, portal, task, outbox, tasks, phase, calls,
                    asked, closing, setup, hub, chat, connect, queue, clients, acked, shown, unlisted>>
    BY <1>2 DEF clientVars, serverVars, historyVars
  <2>2. inbox' \in [Side -> Seq(Message)]
    BY <1>3, <1>4, <1>5
  <2>3. socket' \in [Side -> {"none", "open", "closing", "closed", "failed"}]
    BY <1>2, <1>4
  <2>. QED
    BY <1>1, <2>1, <2>2, <2>3 DEF TypeOK, Message
<1>7. UNCHANGED <<link, portal, conn, outbox, tasks, wire, phase, calls, asked, connect, queue, clients>>
  BY <1>2 DEF clientVars, serverVars
<1>8. \A t \in Side : socket'[t] = IF t = s THEN "failed" ELSE socket[t]
  BY <1>2, <1>4
<1>9. ConnectionsAreSound'
  BY <1>1, <1>2, <1>7, <1>8 DEF ConnectionsAreSound, Started, Side
<1>10. Gone'
  BY <1>2, <1>7 DEF Gone
<1>11. PICK t \in Side : t = Peer(s) /\ Peer(t) = s /\ t # s
  BY <1>1, SideTypes
<1>12. inbox'[t] = inbox[t] /\ inbox'[s] \in {inbox[s], Append(inbox[s], Close)}
  BY <1>3, <1>4, <1>11
<1>13. Moves(s)
  BY <1>7, <1>11, <1>12, WayStays
<1>14. Moves(t)
  BY <1>1, <1>7, <1>11, <1>12, InboxGrows
<1>15. \A u \in Side : Moves(u)
  BY <1>11, <1>13, <1>14 DEF Side
<1>. QED
  BY <1>2, <1>6, <1>7, <1>9, <1>10, <1>15, QuietIf DEF Told

(* A library that closes its socket tells the peer, and its own side knows *)
(* that it is not open any more.                                           *)
LEMMA ShutsEffect ==
  ASSUME TypeOK, NEW s \in Side, Shuts(s) \/ UNCHANGED <<socket, wire>>
  PROVE  /\ socket' \in [Side -> {"none", "open", "closing", "closed", "failed"}]
         /\ wire' \in [Side -> Seq(Message)]
         /\ wire'[s] = wire[s]
         /\ wire'[Peer(s)] \in {wire[Peer(s)], Append(wire[Peer(s)], Close)}
         /\ \A t \in Side : /\ socket'[t] = "none" <=> socket[t] = "none"
                            /\ socket'[t] = "open" => socket[t] = "open"
<1>1. /\ Peer(s) \in Side /\ Peer(s) # s
      /\ wire[Peer(s)] \in Seq(Message)
      /\ wire \in [Side -> Seq(Message)]
      /\ socket \in [Side -> {"none", "open", "closing", "closed", "failed"}]
  BY SideTypes DEF TypeOK, Message
<1>2. Append(wire[Peer(s)], Close) \in Seq(Message)
  BY <1>1, QueueGrows, Frames
<1>3. CASE UNCHANGED <<socket, wire>>
  BY <1>1, <1>3
<1>4. CASE socket[s] = "open" /\ socket' = [socket EXCEPT ![s] = "closing"] /\ OnWire(s, Close)
  <2>1. wire' = wire \/ wire' = [wire EXCEPT ![Peer(s)] = Append(@, Close)]
    BY <1>4 DEF OnWire
  <2>. QED
    BY <1>1, <1>2, <1>4, <2>1
<1>. QED
  BY <1>3, <1>4 DEF Shuts

(* So nothing is lost.                                                     *)
LEMMA ShutsMoves ==
  ASSUME TypeOK, NEW s \in Side, Shuts(s) \/ UNCHANGED <<socket, wire>>,
         UNCHANGED <<tasks, outbox, inbox>>
  PROVE  \A t \in Side : Moves(t) /\ OnTheWay(t) \subseteq OnTheWay(t)'
<1>1. PICK t \in Side : t = Peer(s) /\ Peer(t) = s /\ t # s
  BY SideTypes
<1>2. wire'[s] = wire[s] /\ wire'[t] \in {wire[t], Append(wire[t], Close)}
  BY <1>1, ShutsEffect
<1>3. Moves(s) /\ OnTheWay(s) \subseteq OnTheWay(s)'
  BY <1>1, <1>2, WireGrows
<1>4. Moves(t) /\ OnTheWay(t) \subseteq OnTheWay(t)'
  BY <1>1, <1>2, WayStays
<1>. QED
  BY <1>1, <1>3, <1>4 DEF Side

(* CreatesConnection *)
LEMMA CreatesConnectionStep ==
  ASSUME FfiInvariant, UNCHANGED setting, NEW s \in Side, CreatesConnection(s)
  PROVE  TypeOK' /\ ConnectionsAreSound' /\ Quiet
<1>1. TypeOK /\ ConnectionsAreSound
  BY DEF FfiInvariant
<1>2. /\ UNCHANGED <<link, assigned, nexus, portal, outbox, inbox, tasks, clientVars, serverVars,
                     historyVars>>
      /\ conn[s] = "none" /\ socket[s] # "none"
      /\ conn' \in {[conn EXCEPT ![s] = "creating"], [conn EXCEPT ![s] = "failed"]}
      /\ task' \in {task, [task EXCEPT ![s] = "forwards"]}
      /\ Shuts(s) \/ UNCHANGED <<socket, wire>>
  BY DEF CreatesConnection
<1>3. /\ socket' \in [Side -> {"none", "open", "closing", "closed", "failed"}]
      /\ wire' \in [Side -> Seq(Message)]
      /\ \A t \in Side : /\ socket'[t] = "none" <=> socket[t] = "none"
                         /\ socket'[t] = "open" => socket[t] = "open"
  BY <1>1, <1>2, ShutsEffect
<1>4. /\ conn \in [Side -> {"none", "creating", "open", "failed", "disconnected"}]
      /\ task \in [Side -> {"none", "forwards", "ended", "panicked"}]
  BY <1>1 DEF TypeOK
<1>5. TypeOK'
  <2>1. UNCHANGED <<setting, link, assigned, nexus, portal, outbox, inbox, tasks, phase, calls,
                    asked, closing, setup, hub, chat, connect, queue, clients, acked, shown, unlisted>>
    BY <1>2 DEF clientVars, serverVars, historyVars
  <2>2. /\ conn' \in [Side -> {"none", "creating", "open", "failed", "disconnected"}]
        /\ task' \in [Side -> {"none", "forwards", "ended", "panicked"}]
    BY <1>2, <1>4
  <2>. QED
    BY <1>1, <1>3, <2>1, <2>2 DEF TypeOK, Message
<1>6. UNCHANGED <<link, portal, outbox, tasks, inbox, phase, calls, asked, connect, queue, clients>>
  BY <1>2 DEF clientVars, serverVars
<1>7. \A t \in Side : IF t = s THEN conn'[t] \in {"creating", "failed"} ELSE conn'[t] = conn[t]
  BY <1>2, <1>4
<1>8. ConnectionsAreSound'
  BY <1>1, <1>2, <1>3, <1>6, <1>7 DEF ConnectionsAreSound, Started, Side
<1>9. Gone => Gone'
  BY <1>3, <1>6 DEF Gone, Side
<1>10. \A t \in Side : Moves(t) /\ OnTheWay(t) \subseteq OnTheWay(t)'
  BY <1>1, <1>2, <1>6, ShutsMoves
<1>11. "server" \in Side
  BY DEF Side
<1>. QED
  BY <1>2, <1>5, <1>6, <1>8, <1>9, <1>10, <1>11, QuietIf DEF Told

(* A queue of one                                                          *)
LEMMA OneInQueue ==
  ASSUME NEW S, NEW e \in S
  PROVE  <<e>> = Append(<<>>, e) /\ <<e>> \in Seq(S)
<1>1. <<>> \in Seq(S) /\ <<e>> \in Seq(S)
  BY EmptyQueue
<1>2. Append(<<>>, e) = <<>> \o <<e>>
  BY <1>1, AppendIsConcat
<1>3. <<>> \o <<e>> = <<e>>
  BY <1>1, ConcatEmptySeq
<1>. QED
  BY <1>1, <1>2, <1>3

(* NexusAnswers *)
LEMMA NexusAnswersStep ==
  ASSUME FfiInvariant, UNCHANGED setting, NEW s \in Side, NexusAnswers(s)
  PROVE  TypeOK' /\ ConnectionsAreSound' /\ Quiet
<1>. DEFINE e == [type |-> "Introduction"]
<1>1. TypeOK /\ ConnectionsAreSound
  BY DEF FfiInvariant
<1>2. /\ UNCHANGED <<link, assigned, nexus, task, inbox, tasks, clientVars, closing, hub, chat,
                     connect, queue, clients, historyVars>>
      /\ conn[s] = "creating"
      /\ setup' \in {setup, "waiting"}
      /\ Shuts(s) \/ UNCHANGED <<socket, wire>>
      /\ \/ /\ conn' = [conn EXCEPT ![s] = "open"]
            /\ portal' = [portal EXCEPT ![s] = "opening"]
            /\ outbox' = [outbox EXCEPT ![s] = <<e>>]
            /\ UNCHANGED <<socket, wire>>
         \/ /\ conn' = [conn EXCEPT ![s] = "failed"]
            /\ UNCHANGED <<portal, outbox>>
  BY DEF NexusAnswers
<1>3. /\ socket' \in [Side -> {"none", "open", "closing", "closed", "failed"}]
      /\ wire' \in [Side -> Seq(Message)]
      /\ \A t \in Side : /\ socket'[t] = "none" <=> socket[t] = "none"
                         /\ socket'[t] = "open" => socket[t] = "open"
  BY <1>1, <1>2, ShutsEffect
<1>4. /\ conn \in [Side -> {"none", "creating", "open", "failed", "disconnected"}]
      /\ portal \in [Side -> {"none", "opening", "open", "down"}]
      /\ outbox \in [Side -> Seq(Frame)]
      /\ portal[s] = "none" /\ outbox[s] = <<>>
  BY <1>1, <1>2 DEF TypeOK, ConnectionsAreSound
<1>5. e \in Frame /\ Neutral(e) /\ <<e>> = Append(outbox[s], e) /\ <<e>> \in Seq(Frame)
  BY <1>4, Frames, NeutralFrames, OneInQueue
<1>. HIDE DEF e
<1>6. TypeOK'
  <2>1. UNCHANGED <<setting, link, assigned, nexus, task, inbox, tasks, phase, calls,
                    asked, closing, hub, chat, connect, queue, clients, acked, shown, unlisted>>
    BY <1>2 DEF clientVars, historyVars
  <2>2. /\ conn' \in [Side -> {"none", "creating", "open", "failed", "disconnected"}]
        /\ portal' \in [Side -> {"none", "opening", "open", "down"}]
        /\ outbox' \in [Side -> Seq(Frame)]
        /\ setup' \in {"none", "waiting", "published", "failed"}
    BY <1>1, <1>2, <1>4, <1>5 DEF TypeOK
  <2>. QED
    BY <1>1, <1>3, <2>1, <2>2 DEF TypeOK, Message
<1>7. UNCHANGED <<link, tasks, inbox, phase, calls, asked, connect, queue, clients>>
  BY <1>2 DEF clientVars
<1>8. \A t \in Side :
        /\ t # s => conn'[t] = conn[t] /\ portal'[t] = portal[t] /\ outbox'[t] = outbox[t]
        /\ t = s => \/ conn'[t] = "open" /\ portal'[t] = "opening" /\ outbox'[t] = Append(outbox[t], e)
                    \/ conn'[t] = "failed" /\ portal'[t] = "none" /\ outbox'[t] = <<>>
  BY <1>2, <1>4, <1>5
<1>9. ConnectionsAreSound'
  BY <1>1, <1>2, <1>3, <1>4, <1>7, <1>8 DEF ConnectionsAreSound, Started, Side
<1>10. Gone => Gone'
  BY <1>3, <1>4, <1>7, <1>8 DEF Gone, Side
<1>11. PICK t \in Side : t = Peer(s) /\ Peer(t) = s /\ t # s
  BY <1>1, SideTypes
<1>12. \A u \in Side : Moves(u) /\ OnTheWay(u) \subseteq OnTheWay(u)'
  <2>1. CASE UNCHANGED <<outbox>>
    BY <1>1, <1>2, <1>7, <2>1, ShutsMoves
  <2>2. CASE UNCHANGED <<socket, wire>>
    <3>1. Moves(s) /\ OnTheWay(s) \subseteq OnTheWay(s)'
      BY <1>1, <1>4, <1>5, <1>7, <1>8, <2>2, OutboxGrows
    <3>2. Moves(t) /\ OnTheWay(t) \subseteq OnTheWay(t)'
      BY <1>7, <1>8, <1>11, <2>2, WayStays
    <3>. QED
      BY <1>11, <3>1, <3>2 DEF Side
  <2>. QED
    BY <1>2, <2>1, <2>2
<1>13. "server" \in Side
  BY DEF Side
<1>. QED
  BY <1>2, <1>6, <1>7, <1>9, <1>10, <1>12, <1>13, QuietIf DEF Told

(* TransportSends: what the server's socket does not take is lost with it. *)
LEMMA TransportSendsStep ==
  ASSUME FfiInvariant, UNCHANGED setting, NEW s \in Side, TransportSends(s)
  PROVE  TypeOK' /\ ConnectionsAreSound' /\ Quiet
<1>1. TypeOK /\ ConnectionsAreSound
  BY DEF FfiInvariant
<1>2. /\ UNCHANGED <<link, socket, assigned, nexus, conn, portal, inbox, tasks, clientVars,
                     serverVars, historyVars>>
      /\ outbox[s] # <<>>
      /\ outbox' = [outbox EXCEPT ![s] = Tail(@)]
      /\ task' \in {task, [task EXCEPT ![s] = "panicked"]}
  BY DEF TransportSends
<1>3. PICK t \in Side : t = Peer(s) /\ Peer(t) = s /\ t # s
  BY <1>1, SideTypes
<1>. DEFINE m == Head(outbox[s])
<1>4. /\ wire' \in {wire, [wire EXCEPT ![t] = Append(@, m)]}
      /\ socket[s] = "open" /\ (s = "client" => assigned) /\ link = "up" =>
           wire' = [wire EXCEPT ![t] = Append(@, m)]
  BY <1>3 DEF TransportSends, CanSend, OnWire
<1>5. /\ outbox[s] \in Seq(Frame) /\ outbox[s] \in Seq(Message)
      /\ outbox \in [Side -> Seq(Frame)]
      /\ wire \in [Side -> Seq(Message)] /\ wire[t] \in Seq(Message)
      /\ task \in [Side -> {"none", "forwards", "ended", "panicked"}]
  BY <1>1, SideTypes DEF TypeOK, Message
<1>6. m \in Message /\ Tail(outbox[s]) \in Seq(Frame)
  BY <1>2, <1>5, QueueShrinks DEF Message
<1>7. Append(wire[t], m) \in Seq(Message)
  BY <1>5, <1>6, QueueGrows
<1>. HIDE DEF m
<1>8. TypeOK'
  <2>1. /\ wire' \in [Side -> Seq(Message)]
        /\ outbox' \in [Side -> Seq(Frame)]
        /\ task' \in [Side -> {"none", "forwards", "ended", "panicked"}]
    BY <1>2, <1>4, <1>5, <1>6, <1>7
  <2>2. /\ link' \in {"up", "broken"}
        /\ socket' \in [Side -> {"none", "open", "closing", "closed", "failed"}]
        /\ assigned' \in BOOLEAN
        /\ nexus' \in [Side -> {"up", "stopped"}]
        /\ conn' \in [Side -> {"none", "creating", "open", "failed", "disconnected"}]
        /\ portal' \in [Side -> {"none", "opening", "open", "down"}]
        /\ inbox' \in [Side -> Seq(Message)]
        /\ tasks' \in [Side -> SUBSET Frame]
    BY <1>1, <1>2 DEF TypeOK, Message
  <2>. QED
    BY <1>1, <1>2, <2>1, <2>2, TypesOutside
<1>9. UNCHANGED <<link, socket, portal, conn, inbox, tasks, phase, calls, asked, connect, queue, clients>>
  BY <1>2 DEF clientVars, serverVars
<1>10. /\ outbox'[s] = Tail(outbox[s]) /\ outbox'[t] = outbox[t]
       /\ wire'[s] = wire[s] /\ wire'[t] \in {wire[t], Append(wire[t], m)}
       /\ socket[s] = "open" /\ (s = "client" => assigned) /\ link = "up" =>
            wire'[t] = Append(wire[t], m)
       /\ \A u \in Side : u = s \/ u = t
  BY <1>2, <1>3, <1>4, <1>5 DEF Side
<1>11. ConnectionsAreSound'
  BY <1>1, <1>2, <1>9, <1>10 DEF ConnectionsAreSound, Started
<1>12. Gone <=> Gone'
  BY <1>9 DEF Gone
<1>13. Moves(s) /\ (wire'[t] = Append(wire[t], m) => OnTheWay(s)' = OnTheWay(s))
  BY <1>1, <1>2, <1>3, <1>9, <1>10, OutboxMoves DEF m
<1>14. Moves(t) /\ OnTheWay(t)' = OnTheWay(t)
  BY <1>3, <1>9, <1>10, WayStays
<1>15. \A n : News(n) \in OnTheWay("server") /\ calls > 0 => Told(n)'
  <2>1. CASE t = "server"
    BY <1>14, <2>1 DEF Told
  <2>2. CASE s = "server" /\ socket[s] = "open" /\ link = "up"
    BY <1>10, <1>13, <2>2 DEF Told
  <2>3. CASE s = "server" /\ ~(socket[s] = "open" /\ link = "up")
    <3>1. socket[s] # "none"
      BY <1>1, <1>2, SideStates DEF ConnectionsAreSound
    <3>2. link \in {"up", "broken"}
      BY <1>1 DEF TypeOK
    <3>. QED
      BY <1>12, <2>3, <3>1, <3>2 DEF Told, Gone
  <2>. QED
    BY <1>10, <2>1, <2>2, <2>3 DEF Side
<1>16. \A u \in Side : Moves(u)
  BY <1>10, <1>13, <1>14
<1>. QED
  BY <1>2, <1>8, <1>9, <1>11, <1>12, <1>15, <1>16, QuietIf

(* TransportCloses *)
LEMMA TransportClosesStep ==
  ASSUME FfiInvariant, UNCHANGED setting, NEW s \in Side, TransportCloses(s)
  PROVE  TypeOK' /\ ConnectionsAreSound' /\ Quiet
<1>1. TypeOK /\ ConnectionsAreSound
  BY DEF FfiInvariant
<1>2. /\ UNCHANGED <<link, assigned, nexus, conn, portal, outbox, inbox, tasks, clientVars, serverVars,
                     historyVars>>
      /\ task' = [task EXCEPT ![s] = "ended"]
      /\ Shuts(s) \/ UNCHANGED <<socket, wire>>
  BY DEF TransportCloses
<1>3. /\ socket' \in [Side -> {"none", "open", "closing", "closed", "failed"}]
      /\ wire' \in [Side -> Seq(Message)]
      /\ \A t \in Side : /\ socket'[t] = "none" <=> socket[t] = "none"
                         /\ socket'[t] = "open" => socket[t] = "open"
  BY <1>1, <1>2, ShutsEffect
<1>4. TypeOK'
  <2>1. UNCHANGED <<setting, link, assigned, nexus, conn, portal, outbox, inbox, tasks, phase, calls,
                    asked, closing, setup, hub, chat, connect, queue, clients, acked, shown, unlisted>>
    BY <1>2 DEF clientVars, serverVars, historyVars
  <2>2. task' \in [Side -> {"none", "forwards", "ended", "panicked"}]
    BY <1>1, <1>2 DEF TypeOK
  <2>. QED
    BY <1>1, <1>3, <2>1, <2>2 DEF TypeOK, Message
<1>5. UNCHANGED <<link, conn, portal, outbox, tasks, inbox, phase, calls, asked, connect, queue, clients>>
  BY <1>2 DEF clientVars, serverVars
<1>6. ConnectionsAreSound'
  BY <1>1, <1>3, <1>5 DEF ConnectionsAreSound, Started, Side
<1>7. Gone => Gone'
  BY <1>3, <1>5 DEF Gone, Side
<1>8. \A t \in Side : Moves(t) /\ OnTheWay(t) \subseteq OnTheWay(t)'
  BY <1>1, <1>2, <1>5, ShutsMoves
<1>9. "server" \in Side
  BY DEF Side
<1>. QED
  BY <1>2, <1>4, <1>5, <1>6, <1>7, <1>8, <1>9, QuietIf DEF Told
-----------------------------------------------------------------------------
(* The portals *)

(* A portal that takes a frame does so at the head of its own channel.     *)
LEMMA TakesEffect ==
  ASSUME TypeOK, NEW s \in Side, NEW T, Takes(s, T)
  PROVE  /\ portal[s] \in {"opening", "open"}
         /\ inbox[s] # <<>> /\ Head(inbox[s]) \in Message /\ Head(inbox[s]).type \in T
         /\ inbox' \in [Side -> Seq(Message)]
         /\ inbox'[s] = Tail(inbox[s]) /\ inbox'[Peer(s)] = inbox[Peer(s)]
<1>1. /\ inbox[s] # <<>> /\ Head(inbox[s]).type \in T
      /\ portal[s] \in {"opening", "open"}
      /\ inbox' = [inbox EXCEPT ![s] = Tail(@)]
  BY DEF Takes
<1>2. /\ inbox \in [Side -> Seq(Message)] /\ inbox[s] \in Seq(Message)
      /\ Peer(s) # s /\ Peer(s) \in Side
  BY SideTypes DEF TypeOK, Message
<1>3. Head(inbox[s]) \in Message /\ Tail(inbox[s]) \in Seq(Message)
  BY <1>1, <1>2, QueueShrinks
<1>. QED
  BY <1>1, <1>2, <1>3

(* When a portal ends, that is known from then on, and the others are as   *)
(* they were.                                                              *)
PortalsEnd ==
  /\ portal' \in [Side -> {"none", "opening", "open", "down"}]
  /\ \A s \in Side : \/ portal'[s] = portal[s]
                     \/ portal[s] \in {"opening", "open"} /\ portal'[s] = "down"
LEMMA GoesDownEffect ==
  ASSUME TypeOK, NEW s \in Side, GoesDown(s) \/ UNCHANGED portal
  PROVE  /\ PortalsEnd
         /\ GoesDown(s) /\ portal[s] # "none" => portal'[s] = "down"
<1>1. portal \in [Side -> {"none", "opening", "open", "down"}]
  BY DEF TypeOK
<1>2. CASE UNCHANGED portal /\ ~GoesDown(s)
  BY <1>1, <1>2 DEF PortalsEnd
<1>3. CASE GoesDown(s)
  BY <1>1, <1>3 DEF PortalsEnd, GoesDown
<1>. QED
  BY <1>2, <1>3

(* A portal that cannot write ends.                                        *)
LEMMA WritesEffect ==
  ASSUME TypeOK, NEW s \in Side, NEW f \in Frame, Writes(s, f)
  PROVE  /\ PortalsEnd
         /\ outbox' \in [Side -> Seq(Frame)]
         /\ outbox'[s] \in {outbox[s], Append(outbox[s], f)}
         /\ outbox'[Peer(s)] = outbox[Peer(s)]
         /\ outbox'[s] = Append(outbox[s], f) \/ portal[s] = "none" \/ portal'[s] = "down"
<1>1. /\ outbox \in [Side -> Seq(Frame)] /\ outbox[s] \in Seq(Frame)
      /\ Peer(s) # s /\ Peer(s) \in Side
  BY SideTypes DEF TypeOK
<1>2. Append(outbox[s], f) \in Seq(Frame)
  BY <1>1, QueueGrows
<1>3. CASE outbox' = [outbox EXCEPT ![s] = Append(@, f)] /\ UNCHANGED portal
  BY <1>1, <1>2, <1>3, GoesDownEffect
<1>4. CASE GoesDown(s) /\ UNCHANGED outbox
  BY <1>1, <1>4, GoesDownEffect
<1>. QED
  BY <1>3, <1>4 DEF Writes

(* Portals that end make no connection unsound.                            *)
LEMMA PortalsEndSoundly ==
  ASSUME ConnectionsAreSound, PortalsEnd,
         UNCHANGED <<conn, socket, calls>>,
         \A s \in Side : outbox'[s] # <<>> => outbox[s] # <<>> \/ portal[s] # "none",
         phase' \notin Alone => phase \notin Alone \/ conn["client"] # "none",
         phase' \in {"querying", "found"} => phase \in {"querying", "found"} \/ Started("client"),
         tasks'["server"] # {} \/ connect' # 0 \/ queue' # <<>> =>
           tasks["server"] # {} \/ connect # 0 \/ queue # <<>> \/ Started("server")
  PROVE  ConnectionsAreSound'
<1>1. \A s \in Side : /\ portal'[s] = "none" <=> portal[s] = "none"
                      /\ portal[s] = "down" => portal'[s] = "down"
                      /\ Started(s) => Started(s)'
  BY DEF PortalsEnd, Started
<1>2. "client" \in Side /\ "server" \in Side
  BY DEF Side
<1>3. \A s \in Side :
        /\ conn'[s] \in {"none", "creating", "failed"} => portal'[s] = "none"
        /\ conn'[s] = "disconnected" => portal'[s] \in {"none", "down"}
        /\ conn'[s] # "none" => socket'[s] # "none"
        /\ outbox'[s] # <<>> => portal'[s] # "none"
  BY <1>1 DEF ConnectionsAreSound
<1>4. /\ socket'["client"] = "none" <=> socket'["server"] = "none"
      /\ phase' \notin Alone => conn'["client"] # "none"
  BY DEF ConnectionsAreSound
<1>5. phase' \in {"querying", "found"} \/ calls' > 0 => Started("client")'
  BY <1>1, <1>2 DEF ConnectionsAreSound
<1>6. tasks'["server"] # {} \/ connect' # 0 \/ queue' # <<>> => Started("server")'
  BY <1>1, <1>2 DEF ConnectionsAreSound
<1>. QED
  BY <1>3, <1>4, <1>5, <1>6 DEF ConnectionsAreSound

(* And a connection that has ended stays so.                               *)
LEMMA PortalsEndForGood ==
  ASSUME PortalsEnd, UNCHANGED <<link, socket>>
  PROVE  Gone => Gone'
BY DEF Gone, PortalsEnd

(* PortalTakesIntroduction *)
LEMMA PortalTakesIntroductionStep ==
  ASSUME FfiInvariant, UNCHANGED setting, NEW s \in Side, PortalTakesIntroduction(s)
  PROVE  TypeOK' /\ ConnectionsAreSound' /\ Quiet
<1>1. TypeOK /\ ConnectionsAreSound
  BY DEF FfiInvariant
<1>2. /\ UNCHANGED <<netVars, nexus, conn, task, outbox, tasks, clientVars, serverVars, historyVars>>
      /\ portal' = [portal EXCEPT ![s] = "open"]
  BY DEF PortalTakesIntroduction
<1>3. /\ portal[s] \in {"opening", "open"}
      /\ inbox[s] # <<>> /\ Head(inbox[s]) \in Message /\ Head(inbox[s]).type = "Introduction"
      /\ inbox' \in [Side -> Seq(Message)]
      /\ inbox'[s] = Tail(inbox[s]) /\ inbox'[Peer(s)] = inbox[Peer(s)]
  BY <1>1, TakesEffect DEF PortalTakesIntroduction
<1>4. UNCHANGED <<link, socket, wire, assigned, conn, outbox, tasks, phase, calls, asked, connect, queue,
                  clients>>
  BY <1>2 DEF netVars, clientVars, serverVars
<1>5. /\ portal \in [Side -> {"none", "opening", "open", "down"}]
      /\ portal' \in [Side -> {"none", "opening", "open", "down"}]
      /\ \A t \in Side : portal'[t] = IF t = s THEN "open" ELSE portal[t]
  BY <1>1, <1>2 DEF TypeOK
<1>6. TypeOK'
  <2>1. /\ link' \in {"up", "broken"}
        /\ socket' \in [Side -> {"none", "open", "closing", "closed", "failed"}]
        /\ wire' \in [Side -> Seq(Message)] /\ assigned' \in BOOLEAN
        /\ nexus' \in [Side -> {"up", "stopped"}]
        /\ conn' \in [Side -> {"none", "creating", "open", "failed", "disconnected"}]
        /\ task' \in [Side -> {"none", "forwards", "ended", "panicked"}]
        /\ outbox' \in [Side -> Seq(Frame)]
        /\ tasks' \in [Side -> SUBSET Frame]
    BY <1>1, <1>2, <1>4 DEF TypeOK, Message
  <2>. QED
    BY <1>1, <1>2, <1>3, <1>5, <2>1, TypesOutside
<1>7. ConnectionsAreSound'
  BY <1>1, <1>3, <1>4, <1>5 DEF ConnectionsAreSound, Started, Side
<1>8. Gone => Gone'
  BY <1>3, <1>4, <1>5 DEF Gone
<1>9. PICK t \in Side : t = Peer(s) /\ Peer(t) = s /\ t # s
  BY <1>1, SideTypes
<1>10. Moves(s) /\ OnTheWay(s)' = OnTheWay(s)
  BY <1>3, <1>4, <1>9, WayStays
<1>11. Moves(t) /\ OnTheWay(t) = OnTheWay(t)' \cup {Head(inbox[s])}
  BY <1>1, <1>3, <1>4, <1>9, InboxMoves
<1>12. \A n : News(n) # Head(inbox[s])
  BY <1>3 DEF News
<1>13. \A n : News(n) \in OnTheWay("server") /\ calls > 0 => Told(n)'
  BY <1>9, <1>10, <1>11, <1>12 DEF Told, Side
<1>14. \A u \in Side : Moves(u)
  BY <1>9, <1>10, <1>11 DEF Side
<1>. QED
  BY <1>2, <1>4, <1>6, <1>7, <1>8, <1>13, <1>14, QuietIf

(* PortalEnds *)
LEMMA PortalEndsStep ==
  ASSUME FfiInvariant, UNCHANGED setting, NEW s \in Side, PortalEnds(s)
  PROVE  TypeOK' /\ ConnectionsAreSound' /\ Quiet
<1>1. TypeOK /\ ConnectionsAreSound
  BY DEF FfiInvariant
<1>2. /\ UNCHANGED <<netVars, nexus, conn, task, outbox, tasks, clientVars, serverVars, historyVars>>
      /\ GoesDown(s)
  BY DEF PortalEnds
<1>3. /\ portal[s] \in {"opening", "open"}
      /\ inbox[s] # <<>>
      /\ inbox' \in [Side -> Seq(Message)]
      /\ inbox'[s] = Tail(inbox[s]) /\ inbox'[Peer(s)] = inbox[Peer(s)]
  <2>1. PICK T : Takes(s, T)
    BY DEF PortalEnds
  <2>. QED
    BY <1>1, <2>1, TakesEffect
<1>4. UNCHANGED <<link, socket, wire, assigned, conn, outbox, tasks, phase, calls, asked, connect, queue,
                  clients>>
  BY <1>2 DEF netVars, clientVars, serverVars
<1>5. PortalsEnd /\ portal'[s] = "down"
  BY <1>1, <1>2, <1>3, GoesDownEffect
<1>6. TypeOK'
  <2>1. /\ link' \in {"up", "broken"}
        /\ socket' \in [Side -> {"none", "open", "closing", "closed", "failed"}]
        /\ wire' \in [Side -> Seq(Message)] /\ assigned' \in BOOLEAN
        /\ nexus' \in [Side -> {"up", "stopped"}]
        /\ conn' \in [Side -> {"none", "creating", "open", "failed", "disconnected"}]
        /\ task' \in [Side -> {"none", "forwards", "ended", "panicked"}]
        /\ outbox' \in [Side -> Seq(Frame)]
        /\ tasks' \in [Side -> SUBSET Frame]
    BY <1>1, <1>2, <1>4 DEF TypeOK, Message
  <2>. QED
    BY <1>1, <1>2, <1>3, <1>5, <2>1, TypesOutside DEF PortalsEnd
<1>7. ConnectionsAreSound'
  BY <1>1, <1>4, <1>5, PortalsEndSoundly
<1>8. Gone'
  BY <1>5 DEF Gone
<1>9. PICK t \in Side : t = Peer(s) /\ Peer(t) = s /\ t # s
  BY <1>1, SideTypes
<1>10. Moves(s)
  BY <1>3, <1>4, <1>9, WayStays
<1>11. Moves(t)
  BY <1>1, <1>3, <1>4, <1>9, InboxMoves
<1>12. \A u \in Side : Moves(u)
  BY <1>9, <1>10, <1>11 DEF Side
<1>. QED
  BY <1>2, <1>4, <1>6, <1>7, <1>8, <1>12, QuietIf DEF Told

(* PortalAnswersQuery *)
LEMMA PortalAnswersQueryStep ==
  ASSUME FfiInvariant, UNCHANGED setting, PortalAnswersQuery
  PROVE  TypeOK' /\ ConnectionsAreSound' /\ Quiet
<1>1. TypeOK /\ ConnectionsAreSound
  BY DEF FfiInvariant
<1>2. /\ UNCHANGED <<netVars, nexus, conn, task, tasks, clientVars, serverVars, historyVars>>
      /\ Takes("server", {"Query"})
      /\ portal["server"] = "open"
  BY DEF PortalAnswersQuery
<1>3. PICK e \in Frame : Neutral(e) /\ Writes("server", e)
  BY Frames, NeutralFrames DEF PortalAnswersQuery
<1>4. /\ "server" \in Side /\ "client" \in Side
      /\ Peer("server") = "client" /\ Peer("client") = "server"
      /\ \A s \in Side : s = "server" \/ s = "client"
  BY DEF Side, Peer
<1>5. /\ inbox["server"] # <<>> /\ Head(inbox["server"]).type = "Query"
      /\ inbox' \in [Side -> Seq(Message)]
      /\ inbox'["server"] = Tail(inbox["server"]) /\ inbox'["client"] = inbox["client"]
  BY <1>1, <1>2, <1>4, TakesEffect
<1>6. /\ PortalsEnd
      /\ outbox' \in [Side -> Seq(Frame)]
      /\ outbox'["server"] \in {outbox["server"], Append(outbox["server"], e)}
      /\ outbox'["client"] = outbox["client"]
  BY <1>1, <1>3, <1>4, WritesEffect
<1>7. UNCHANGED <<link, socket, wire, assigned, conn, tasks, phase, calls, asked, connect, queue, clients>>
  BY <1>2 DEF netVars, clientVars, serverVars
<1>8. TypeOK'
  <2>1. /\ link' \in {"up", "broken"}
        /\ socket' \in [Side -> {"none", "open", "closing", "closed", "failed"}]
        /\ wire' \in [Side -> Seq(Message)] /\ assigned' \in BOOLEAN
        /\ nexus' \in [Side -> {"up", "stopped"}]
        /\ conn' \in [Side -> {"none", "creating", "open", "failed", "disconnected"}]
        /\ task' \in [Side -> {"none", "forwards", "ended", "panicked"}]
        /\ tasks' \in [Side -> SUBSET Frame]
    BY <1>1, <1>2, <1>7 DEF TypeOK, Message
  <2>. QED
    BY <1>1, <1>2, <1>5, <1>6, <2>1, TypesOutside DEF PortalsEnd
<1>9. ConnectionsAreSound'
  <2>1. \A s \in Side : outbox'[s] # <<>> => outbox[s] # <<>> \/ portal[s] # "none"
    BY <1>2, <1>4, <1>6
  <2>. QED
    BY <1>1, <1>6, <1>7, <2>1, PortalsEndSoundly
<1>10. Gone => Gone'
  BY <1>6, <1>7, PortalsEndForGood
<1>11. Moves("server") /\ OnTheWay("server") \subseteq OnTheWay("server")'
  BY <1>1, <1>3, <1>4, <1>5, <1>6, <1>7, OutboxGrows
<1>12. Moves("client")
  BY <1>1, <1>4, <1>5, <1>6, <1>7, InboxMoves
<1>13. \A n : News(n) \in OnTheWay("server") /\ calls > 0 => Told(n)'
  BY <1>11 DEF Told
<1>14. \A s \in Side : Moves(s)
  BY <1>4, <1>11, <1>12
<1>. QED
  BY <1>2, <1>7, <1>8, <1>9, <1>10, <1>13, <1>14, QuietIf

(* TaskTransmits: a frame is lost with its portal only.                    *)
LEMMA TaskTransmitsStep ==
  ASSUME FfiInvariant, UNCHANGED setting, NEW s \in Side, TaskTransmits(s)
  PROVE  TypeOK' /\ ConnectionsAreSound' /\ Quiet
<1>1. TypeOK /\ ConnectionsAreSound
  BY DEF FfiInvariant
<1>2. PICK f \in tasks[s] :
        /\ tasks' = [tasks EXCEPT ![s] = @ \ {f}]
        /\ IF portal[s] = "open" THEN Writes(s, f) ELSE UNCHANGED <<portal, outbox>>
        /\ UNCHANGED <<netVars, nexus, conn, task, inbox, clientVars, serverVars, historyVars>>
  BY DEF TaskTransmits
<1>3. PICK t \in Side : t = Peer(s) /\ Peer(t) = s /\ t # s
  BY <1>1, SideTypes
<1>4. /\ f \in Frame /\ tasks \in [Side -> SUBSET Frame] /\ outbox \in [Side -> Seq(Frame)]
      /\ portal \in [Side -> {"none", "opening", "open", "down"}]
  BY <1>1 DEF TypeOK
<1>5. /\ PortalsEnd
      /\ outbox' \in [Side -> Seq(Frame)]
      /\ outbox'[s] \in {outbox[s], Append(outbox[s], f)}
      /\ outbox'[t] = outbox[t]
      /\ outbox'[s] # outbox[s] => portal[s] = "open"
      /\ portal[s] = "open" => outbox'[s] = Append(outbox[s], f) \/ portal'[s] = "down"
  <2>1. CASE portal[s] = "open"
    <3>1. Writes(s, f)
      BY <1>2, <2>1
    <3>. QED
      BY <1>1, <1>3, <1>4, <2>1, <3>1, WritesEffect
  <2>2. CASE portal[s] # "open"
    <3>1. UNCHANGED <<portal, outbox>>
      BY <1>2, <2>2
    <3>2. PortalsEnd
      BY <1>1, <3>1, GoesDownEffect
    <3>. QED
      BY <1>4, <2>2, <3>1, <3>2
  <2>. QED
    BY <2>1, <2>2
<1>6. UNCHANGED <<link, socket, wire, assigned, conn, inbox, phase, calls, asked, connect, queue, clients>>
  BY <1>2 DEF netVars, clientVars, serverVars
<1>7. /\ tasks' \in [Side -> SUBSET Frame]
      /\ tasks'[s] = tasks[s] \ {f} /\ tasks'[t] = tasks[t]
  BY <1>2, <1>3, <1>4
<1>8. TypeOK'
  <2>1. /\ link' \in {"up", "broken"}
        /\ socket' \in [Side -> {"none", "open", "closing", "closed", "failed"}]
        /\ wire' \in [Side -> Seq(Message)] /\ assigned' \in BOOLEAN
        /\ nexus' \in [Side -> {"up", "stopped"}]
        /\ conn' \in [Side -> {"none", "creating", "open", "failed", "disconnected"}]
        /\ task' \in [Side -> {"none", "forwards", "ended", "panicked"}]
        /\ inbox' \in [Side -> Seq(Message)]
    BY <1>1, <1>2, <1>6 DEF TypeOK, Message
  <2>. QED
    BY <1>1, <1>2, <1>5, <1>7, <2>1, TypesOutside DEF PortalsEnd
<1>9. ConnectionsAreSound'
  <2>1. \A u \in Side : outbox'[u] # <<>> => outbox[u] # <<>> \/ portal[u] # "none"
    BY <1>3, <1>5 DEF Side
  <2>2. tasks'["server"] # {} => tasks["server"] # {}
    BY <1>3, <1>7 DEF Side
  <2>. QED
    BY <1>1, <1>5, <1>6, <2>1, <2>2, PortalsEndSoundly
<1>10. Gone => Gone'
  BY <1>5, <1>6, PortalsEndForGood
<1>11. Moves(s) /\ (outbox'[s] = Append(outbox[s], f) => OnTheWay(s)' = OnTheWay(s))
  BY <1>1, <1>3, <1>5, <1>6, <1>7, TaskMoves
<1>12. Moves(t) /\ OnTheWay(t)' = OnTheWay(t)
  BY <1>3, <1>5, <1>6, <1>7, WayStays
<1>13. \A n : News(n) \in OnTheWay("server") /\ calls > 0 => Told(n)'
  <2>1. CASE t = "server"
    BY <1>12, <2>1 DEF Told
  <2>2. CASE s = "server" /\ outbox'[s] = Append(outbox[s], f)
    BY <1>11, <2>2 DEF Told
  <2>3. CASE s = "server" /\ outbox'[s] # Append(outbox[s], f)
    <3>1. portal[s] \in {"open", "down"}
      BY <1>1, <2>3 DEF ConnectionsAreSound, Started
    <3>2. portal'[s] = "down"
      BY <1>5, <2>3, <3>1 DEF PortalsEnd
    <3>3. Gone'
      BY <3>2 DEF Gone
    <3>. QED
      BY <3>3 DEF Told
  <2>. QED
    BY <1>3, <2>1, <2>2, <2>3 DEF Side
<1>14. \A u \in Side : Moves(u)
  BY <1>3, <1>11, <1>12 DEF Side
<1>. QED
  BY <1>2, <1>6, <1>8, <1>9, <1>10, <1>13, <1>14, QuietIf
-----------------------------------------------------------------------------
(* The server stops *)

(* The types, when only the server's actors and tasks step                 *)
LEMMA TypesOfServer ==
  ASSUME TypeOK,
         UNCHANGED <<setting, netVars, nexus, conn, portal, task, outbox, inbox, clientVars, historyVars>>,
         tasks' \in [Side -> SUBSET Frame],
         closing' \in {"no", "listener", "hub", "chat", "done"},
         setup' \in {"none", "waiting", "published", "failed"},
         hub' \in {"up", "stopped"}, chat' \in {"up", "stopped"},
         connect' \in 0 .. 2, queue' \in Seq(Frame), clients' \in BOOLEAN
  PROVE  TypeOK'
<1>1. UNCHANGED <<setting, link, socket, wire, assigned, nexus, conn, portal, task, outbox, inbox, phase,
                  calls, asked, acked, shown, unlisted>>
  BY DEF netVars, clientVars, historyVars
<1>. QED
  BY <1>1 DEF TypeOK

(* ServerStopsListening *)
LEMMA ServerStopsListeningStep ==
  ASSUME FfiInvariant, UNCHANGED setting, ServerStopsListening
  PROVE  TypeOK' /\ ConnectionsAreSound' /\ Quiet
<1>1. TypeOK /\ ConnectionsAreSound
  BY DEF FfiInvariant
<1>2. /\ UNCHANGED <<link, assigned, rustVars, clientVars, setup, hub, chat, connect, queue, clients,
                     historyVars>>
      /\ closing' = "listener"
      /\ Shuts("server")
  BY DEF ServerStopsListening
<1>3. "server" \in Side /\ "client" \in Side
  BY DEF Side
<1>4. /\ socket' \in [Side -> {"none", "open", "closing", "closed", "failed"}]
      /\ wire' \in [Side -> Seq(Message)]
      /\ \A t \in Side : /\ socket'[t] = "none" <=> socket[t] = "none"
                         /\ socket'[t] = "open" => socket[t] = "open"
  BY <1>1, <1>2, <1>3, ShutsEffect
<1>5. UNCHANGED <<link, conn, portal, outbox, tasks, inbox, phase, calls, asked, connect, queue, clients>>
  BY <1>2 DEF rustVars, clientVars
<1>6. TypeOK'
  <2>1. UNCHANGED <<setting, link, assigned, nexus, conn, portal, task, outbox, inbox, tasks, phase, calls,
                    asked, setup, hub, chat, connect, queue, clients, acked, shown, unlisted>>
    BY <1>2 DEF rustVars, clientVars, historyVars
  <2>. QED
    BY <1>1, <1>2, <1>4, <2>1 DEF TypeOK, Message
<1>7. ConnectionsAreSound'
  BY <1>1, <1>3, <1>4, <1>5 DEF ConnectionsAreSound, Started
<1>8. Gone => Gone'
  BY <1>3, <1>4, <1>5 DEF Gone
<1>9. \A t \in Side : Moves(t) /\ OnTheWay(t) \subseteq OnTheWay(t)'
  BY <1>1, <1>2, <1>3, <1>5, ShutsMoves
<1>. QED
  BY <1>2, <1>3, <1>5, <1>6, <1>7, <1>8, <1>9, QuietIf DEF Told

(* ServerStopsHub, ServerStopsChat: messages in a mailbox are lost.        *)
LEMMA ServerStopsActorsStep ==
  ASSUME FfiInvariant, UNCHANGED setting, ServerStopsHub \/ ServerStopsChat
  PROVE  TypeOK' /\ ConnectionsAreSound' /\ Quiet
<1>1. TypeOK /\ ConnectionsAreSound
  BY DEF FfiInvariant
<1>2. /\ UNCHANGED <<netVars, rustVars, clientVars, setup, clients, historyVars>>
      /\ closing' \in {"hub", "chat"}
      /\ hub' \in {hub, "stopped"} /\ chat' \in {chat, "stopped"}
      /\ connect' \in {connect, 0} /\ queue' \in {queue, <<>>}
  BY DEF ServerStopsHub, ServerStopsChat
<1>3. UNCHANGED <<setting, link, socket, wire, assigned, nexus, conn, portal, task, outbox, inbox, tasks,
                  phase, calls, asked, setup, clients, acked, shown, unlisted>>
  BY <1>2 DEF netVars, rustVars, clientVars, historyVars
<1>4. TypeOK'
  <2>0. /\ hub \in {"up", "stopped"} /\ chat \in {"up", "stopped"}
        /\ connect \in 0 .. 2 /\ queue \in Seq(Frame) /\ <<>> \in Seq(Frame)
    BY <1>1, EmptyQueue DEF TypeOK
  <2>1. /\ closing' \in {"no", "listener", "hub", "chat", "done"}
        /\ hub' \in {"up", "stopped"} /\ chat' \in {"up", "stopped"}
        /\ connect' \in 0 .. 2 /\ queue' \in Seq(Frame)
    <3>1. connect' = connect \/ connect' = 0
      BY <1>2
    <3>2. queue' = queue \/ queue' = <<>>
      BY <1>2
    <3>3. connect' \in 0 .. 2
      BY <2>0, <3>1
    <3>4. queue' \in Seq(Frame)
      BY <2>0, <3>2
    <3>5. /\ closing' \in {"no", "listener", "hub", "chat", "done"}
          /\ hub' \in {"up", "stopped"} /\ chat' \in {"up", "stopped"}
      BY <1>2, <2>0
    <3>. QED
      BY <3>3, <3>4, <3>5
  <2>2. /\ tasks' \in [Side -> SUBSET Frame]
        /\ setup' \in {"none", "waiting", "published", "failed"}
        /\ clients' \in BOOLEAN
    BY <1>1, <1>3 DEF TypeOK
  <2>. QED
    BY <1>1, <1>2, <1>3, <2>1, <2>2, TypesOfServer
<1>5. ConnectionsAreSound'
  BY <1>1, <1>2, <1>3 DEF ConnectionsAreSound, Started
<1>6. Gone <=> Gone'
  BY <1>3 DEF Gone
<1>7. \A s \in Side : Moves(s) /\ OnTheWay(s)' = OnTheWay(s)
  BY <1>3, WayStays
<1>8. "server" \in Side
  BY DEF Side
<1>9. InSeq(queue') \subseteq InSeq(queue)
  BY <1>2, EmptyQueue
<1>10. \A n : News(n) \in OnTheWay("server") /\ calls > 0 => Told(n)'
  BY <1>7, <1>8 DEF Told
<1>. QED
  BY <1>2, <1>3, <1>4, <1>5, <1>6, <1>7, <1>9, <1>10 DEF Quiet

(* ServerShutsDown *)
LEMMA ServerShutsDownStep ==
  ASSUME FfiInvariant, UNCHANGED setting, ServerShutsDown
  PROVE  TypeOK' /\ ConnectionsAreSound' /\ Quiet
<1>1. TypeOK /\ ConnectionsAreSound
  BY DEF FfiInvariant
<1>2. /\ UNCHANGED <<netVars, conn, task, outbox, inbox, tasks, clientVars, setup, hub, chat, connect,
                     queue, clients, historyVars>>
      /\ closing' = "done"
      /\ nexus' = [nexus EXCEPT !["server"] = "stopped"] /\ GoesDown("server")
  BY DEF ServerShutsDown, ShutsDown
<1>3. UNCHANGED <<setting, link, socket, wire, assigned, conn, task, outbox, inbox, tasks,
                  phase, calls, asked, setup, hub, chat, connect, queue, clients, acked, shown, unlisted>>
  BY <1>2 DEF netVars, clientVars, historyVars
<1>4. PortalsEnd
  BY <1>1, <1>2, GoesDownEffect DEF Side
<1>5. TypeOK'
  <2>1. /\ nexus' \in [Side -> {"up", "stopped"}]
        /\ portal' \in [Side -> {"none", "opening", "open", "down"}]
        /\ closing' \in {"no", "listener", "hub", "chat", "done"}
    BY <1>1, <1>2, <1>4 DEF TypeOK, PortalsEnd
  <2>. QED
    BY <1>1, <1>3, <2>1 DEF TypeOK
<1>6. ConnectionsAreSound'
  BY <1>1, <1>3, <1>4, PortalsEndSoundly
<1>7. Gone => Gone'
  BY <1>3, <1>4, PortalsEndForGood
<1>. QED
  BY <1>2, <1>3, <1>5, <1>6, <1>7, QuietElsewhere

(* PublishesHub, NeverPublishesHub *)
LEMMA HubIsPublishedStep ==
  ASSUME FfiInvariant, UNCHANGED setting, PublishesHub \/ NeverPublishesHub
  PROVE  TypeOK' /\ ConnectionsAreSound' /\ Quiet
<1>1. TypeOK /\ ConnectionsAreSound
  BY DEF FfiInvariant
<1>2. /\ UNCHANGED <<netVars, rustVars, clientVars, closing, hub, chat, connect, queue, clients,
                     historyVars>>
      /\ setup' \in {"published", "failed"}
  BY DEF PublishesHub, NeverPublishesHub
<1>3. UNCHANGED <<setting, link, socket, wire, assigned, nexus, conn, portal, task, outbox, inbox, tasks,
                  phase, calls, asked, closing, hub, chat, connect, queue, clients, acked, shown, unlisted>>
  BY <1>2 DEF netVars, rustVars, clientVars, historyVars
<1>4. TypeOK'
  BY <1>1, <1>2, <1>3 DEF TypeOK
<1>5. ConnectionsAreSound'
  BY <1>1, <1>3 DEF ConnectionsAreSound, Started
<1>6. Gone <=> Gone'
  BY <1>3 DEF Gone
<1>. QED
  BY <1>2, <1>3, <1>4, <1>5, <1>6, QuietElsewhere
-----------------------------------------------------------------------------
(* The client *)

(* The types, when the client steps                                        *)
Phases == {"dialing", "latched", "handshaking", "querying", "found", "calling", "online", "leaving",
           "disconnected", "done"}
LEMMA TypesOfClient ==
  ASSUME TypeOK, UNCHANGED <<setting, link, socket, wire, task, serverVars>>,
         assigned' \in BOOLEAN,
         nexus' \in [Side -> {"up", "stopped"}],
         conn' \in [Side -> {"none", "creating", "open", "failed", "disconnected"}],
         portal' \in [Side -> {"none", "opening", "open", "down"}],
         outbox' \in [Side -> Seq(Frame)], inbox' \in [Side -> Seq(Message)],
         tasks' \in [Side -> SUBSET Frame],
         phase' \in Phases, calls' \in 0 .. MaxCalls, asked' \in Asking,
         acked' \subseteq 1 .. MaxCalls, shown' \subseteq 1 .. MaxCalls, unlisted' \in BOOLEAN
  PROVE  TypeOK'
<1>1. UNCHANGED <<setting, link, socket, wire, task, closing, setup, hub, chat, connect, queue, clients>>
  BY DEF serverVars
<1>. QED
  BY <1>1 DEF TypeOK, Message, Phases

(* What the client's thread knows when it goes on: ClientDials,            *)
(* ClientIsConnected, HandshakeTimesOut, CallIsRefused, ClientQuits        *)
LEMMA ClientGoesOnStep ==
  ASSUME FfiInvariant, UNCHANGED setting,
         ClientDials \/ ClientIsConnected \/ HandshakeTimesOut \/ CallIsRefused \/ ClientQuits
  PROVE  TypeOK' /\ ConnectionsAreSound' /\ Quiet
<1>1. TypeOK /\ ConnectionsAreSound /\ CallsAreSound
  BY DEF FfiInvariant
<1>2. UNCHANGED <<setting, link, socket, wire, nexus, conn, portal, task, outbox, inbox, tasks, calls,
                  asked, closing, setup, hub, chat, connect, queue, clients, acked, shown, unlisted>>
  BY DEF ClientDials, ClientIsConnected, HandshakeTimesOut, CallIsRefused, ClientQuits, netVars,
         rustVars, serverVars, historyVars
<1>3. /\ assigned' \in {assigned, TRUE}
      /\ phase' \in {"latched", "handshaking", "leaving", "online"}
      /\ phase' = "latched" => phase = "dialing"
      /\ phase' = "handshaking" => phase = "latched" /\ conn["client"] # "none"
      /\ phase' = "leaving" => phase \in {"handshaking", "calling", "online"}
      /\ phase' = "online" => phase = "calling" /\ asked # "Connect"
  BY DEF ClientDials, ClientIsConnected, HandshakeTimesOut, CallIsRefused, ClientQuits, netVars,
         IfRefused
<1>4. TypeOK'
  <2>1. phase' \in Phases /\ assigned' \in BOOLEAN
    BY <1>1, <1>3 DEF TypeOK, Phases
  <2>2. /\ nexus' \in [Side -> {"up", "stopped"}]
        /\ conn' \in [Side -> {"none", "creating", "open", "failed", "disconnected"}]
        /\ portal' \in [Side -> {"none", "opening", "open", "down"}]
        /\ outbox' \in [Side -> Seq(Frame)] /\ inbox' \in [Side -> Seq(Message)]
        /\ tasks' \in [Side -> SUBSET Frame]
        /\ calls' \in 0 .. MaxCalls /\ asked' \in Asking
        /\ acked' \subseteq 1 .. MaxCalls /\ shown' \subseteq 1 .. MaxCalls /\ unlisted' \in BOOLEAN
    BY <1>1, <1>2 DEF TypeOK, Message
  <2>. QED
    BY <1>1, <1>2, <2>1, <2>2, TypesOfClient DEF serverVars
<1>5. ConnectionsAreSound'
  <2>1. PortalsEnd
    BY <1>1, <1>2, GoesDownEffect DEF Side
  <2>2. phase' \notin Alone => phase \notin Alone \/ conn["client"] # "none"
    BY <1>3 DEF Alone
  <2>. QED
    BY <1>1, <1>2, <1>3, <2>1, <2>2, PortalsEndSoundly
<1>6. Gone <=> Gone'
  BY <1>2 DEF Gone
<1>7. /\ phase' \in Early => phase \in Early
      /\ phase' = "calling" => phase = "calling"
      /\ phase' = "online" => phase = "online" \/ calls > 1
  BY <1>1, <1>3 DEF Early, CallsAreSound
<1>. QED
  BY <1>2, <1>4, <1>5, <1>6, <1>7, QuietElsewhere DEF historyVars

(* ClientGivesUp, ClientDisconnects, ClientShutsDown: the client's portal  *)
(* goes down with what ends.                                               *)
LEMMA ClientEndsStep ==
  ASSUME FfiInvariant, UNCHANGED setting, ClientGivesUp \/ ClientDisconnects \/ ClientShutsDown
  PROVE  TypeOK' /\ ConnectionsAreSound' /\ Quiet
<1>1. TypeOK /\ ConnectionsAreSound
  BY DEF FfiInvariant
<1>2. /\ UNCHANGED <<setting, link, socket, wire, assigned, task, outbox, inbox, tasks, calls, asked,
                     closing, setup, hub, chat, connect, queue, clients, acked, shown, unlisted>>
      /\ GoesDown("client")
  BY DEF ClientGivesUp, ClientDisconnects, ClientShutsDown, ShutsDown, netVars, serverVars, historyVars
<1>3. /\ nexus' \in {nexus, [nexus EXCEPT !["client"] = "stopped"]}
      /\ phase' \in {"disconnected", "done"}
      /\ \/ UNCHANGED conn /\ phase' = "done"
         \/ conn' = [conn EXCEPT !["client"] = "disconnected"] /\ phase = "leaving"
  BY DEF ClientGivesUp, ClientDisconnects, ClientShutsDown, ShutsDown
<1>4. "client" \in Side /\ "server" \in Side
  BY DEF Side
<1>5. PortalsEnd /\ (portal["client"] # "none" => portal'["client"] = "down")
  BY <1>1, <1>2, <1>4, GoesDownEffect
<1>6. TypeOK'
  <2>1. /\ nexus' \in [Side -> {"up", "stopped"}]
        /\ conn' \in [Side -> {"none", "creating", "open", "failed", "disconnected"}]
        /\ phase' \in Phases
    BY <1>1, <1>3 DEF TypeOK, Phases
  <2>2. /\ assigned' \in BOOLEAN
        /\ outbox' \in [Side -> Seq(Frame)] /\ inbox' \in [Side -> Seq(Message)]
        /\ tasks' \in [Side -> SUBSET Frame]
        /\ calls' \in 0 .. MaxCalls /\ asked' \in Asking
        /\ acked' \subseteq 1 .. MaxCalls /\ shown' \subseteq 1 .. MaxCalls /\ unlisted' \in BOOLEAN
    BY <1>1, <1>2 DEF TypeOK, Message
  <2>. QED
    BY <1>1, <1>2, <1>5, <2>1, <2>2, TypesOfClient DEF serverVars, PortalsEnd
<1>7. ConnectionsAreSound'
  <2>1. CASE UNCHANGED conn /\ phase' = "done"
    BY <1>1, <1>2, <1>5, <2>1, PortalsEndSoundly DEF Alone
  <2>2. CASE conn' = [conn EXCEPT !["client"] = "disconnected"] /\ phase = "leaving"
    <3>1. \A s \in Side : conn'[s] = IF s = "client" THEN "disconnected" ELSE conn[s]
      BY <1>1, <2>2 DEF TypeOK
    <3>2. conn["client"] # "none"
      BY <1>1, <2>2 DEF ConnectionsAreSound, Alone
    <3>3. \A s \in Side : /\ portal'[s] = "none" <=> portal[s] = "none"
                          /\ portal[s] = "down" => portal'[s] = "down"
                          /\ Started(s) => Started(s)'
      BY <1>5 DEF PortalsEnd, Started
    <3>4. \A s \in Side :
            /\ conn'[s] \in {"none", "creating", "failed"} => portal'[s] = "none"
            /\ conn'[s] = "disconnected" => portal'[s] \in {"none", "down"}
            /\ conn'[s] # "none" => socket'[s] # "none"
            /\ outbox'[s] # <<>> => portal'[s] # "none"
      BY <1>1, <1>2, <1>5, <3>1, <3>2, <3>3 DEF ConnectionsAreSound
    <3>5. /\ socket'["client"] = "none" <=> socket'["server"] = "none"
          /\ phase' \notin Alone => conn'["client"] # "none"
          /\ phase' \in {"querying", "found"} \/ calls' > 0 => Started("client")'
          /\ tasks'["server"] # {} \/ connect' # 0 \/ queue' # <<>> => Started("server")'
      BY <1>1, <1>2, <1>3, <1>4, <3>1, <3>3 DEF ConnectionsAreSound
    <3>. QED
      BY <3>4, <3>5 DEF ConnectionsAreSound
  <2>. QED
    BY <1>3, <2>1, <2>2
<1>8. Gone => Gone'
  BY <1>2, <1>5, PortalsEndForGood
<1>9. /\ phase' \in Early => phase \in Early
      /\ phase' = "calling" => phase = "calling"
      /\ phase' = "online" => phase = "online" \/ calls > 1
  BY <1>3 DEF Early
<1>. QED
  BY <1>2, <1>6, <1>7, <1>8, <1>9, QuietElsewhere DEF historyVars

(* ClientQueries *)
LEMMA ClientQueriesStep ==
  ASSUME FfiInvariant, UNCHANGED setting, ClientQueries
  PROVE  TypeOK' /\ ConnectionsAreSound' /\ Quiet
<1>. DEFINE e == [type |-> "Query"]
<1>1. TypeOK /\ ConnectionsAreSound
  BY DEF FfiInvariant
<1>2. /\ UNCHANGED <<setting, link, socket, wire, assigned, nexus, conn, task, inbox, tasks, calls, asked,
                     closing, setup, hub, chat, connect, queue, clients, acked, shown, unlisted>>
      /\ phase = "handshaking" /\ portal["client"] = "open" /\ phase' = "querying"
      /\ Writes("client", e)
  BY DEF ClientQueries, netVars, serverVars, historyVars
<1>3. /\ "server" \in Side /\ "client" \in Side
      /\ Peer("server") = "client" /\ Peer("client") = "server"
      /\ \A s \in Side : s = "server" \/ s = "client"
  BY DEF Side, Peer
<1>4. e \in Frame /\ Neutral(e)
  BY Frames, NeutralFrames
<1>. HIDE DEF e
<1>5. /\ PortalsEnd
      /\ outbox' \in [Side -> Seq(Frame)]
      /\ outbox'["client"] \in {outbox["client"], Append(outbox["client"], e)}
      /\ outbox'["server"] = outbox["server"]
  BY <1>1, <1>2, <1>3, <1>4, WritesEffect
<1>6. TypeOK'
  <2>1. /\ assigned' \in BOOLEAN
        /\ nexus' \in [Side -> {"up", "stopped"}]
        /\ conn' \in [Side -> {"none", "creating", "open", "failed", "disconnected"}]
        /\ phase' \in Phases
        /\ inbox' \in [Side -> Seq(Message)]
        /\ tasks' \in [Side -> SUBSET Frame]
        /\ calls' \in 0 .. MaxCalls /\ asked' \in Asking
        /\ acked' \subseteq 1 .. MaxCalls /\ shown' \subseteq 1 .. MaxCalls /\ unlisted' \in BOOLEAN
    BY <1>1, <1>2 DEF TypeOK, Message, Phases
  <2>. QED
    BY <1>1, <1>2, <1>5, <2>1, TypesOfClient DEF serverVars, PortalsEnd
<1>7. ConnectionsAreSound'
  <2>1. \A s \in Side : outbox'[s] # <<>> => outbox[s] # <<>> \/ portal[s] # "none"
    BY <1>2, <1>3, <1>5
  <2>2. phase \notin Alone /\ Started("client")
    BY <1>2 DEF Alone, Started
  <2>. QED
    BY <1>1, <1>2, <1>5, <2>1, <2>2, PortalsEndSoundly
<1>8. Gone => Gone'
  BY <1>2, <1>5, PortalsEndForGood
<1>9. Moves("client")
  BY <1>1, <1>2, <1>3, <1>4, <1>5, OutboxGrows
<1>10. Moves("server") /\ OnTheWay("server")' = OnTheWay("server")
  BY <1>2, <1>3, <1>5, WayStays
<1>11. \A n : News(n) \in OnTheWay("server") /\ calls > 0 => Told(n)'
  BY <1>10 DEF Told
<1>12. \A s \in Side : Moves(s)
  BY <1>3, <1>9, <1>10
<1>13. /\ phase' \in Early => phase \in Early
       /\ phase' = "calling" => phase = "calling"
       /\ phase' = "online" => phase = "online" \/ calls > 1
  BY <1>2 DEF Early
<1>. QED
  BY <1>2, <1>6, <1>7, <1>8, <1>11, <1>12, <1>13, QuietIf DEF historyVars

(* QueryReturns *)
LEMMA QueryReturnsStep ==
  ASSUME FfiInvariant, UNCHANGED setting, QueryReturns
  PROVE  TypeOK' /\ ConnectionsAreSound' /\ Quiet
<1>1. TypeOK /\ ConnectionsAreSound
  BY DEF FfiInvariant
<1>2. /\ UNCHANGED <<setting, link, socket, wire, assigned, nexus, conn, portal, task, outbox, tasks,
                     calls, asked, closing, setup, hub, chat, connect, queue, clients, acked, shown,
                     unlisted>>
      /\ phase = "querying" /\ phase' \in {"found", "leaving"}
      /\ Takes("client", {"Found"}) \/ Takes("client", {"NotFound"}) \/ UNCHANGED inbox
  BY DEF QueryReturns, netVars, serverVars, historyVars
<1>3. /\ "server" \in Side /\ "client" \in Side
      /\ Peer("server") = "client" /\ Peer("client") = "server"
      /\ \A s \in Side : s = "server" \/ s = "client"
  BY DEF Side, Peer
<1>4. \/ /\ inbox["client"] # <<>> /\ Head(inbox["client"]).type \in {"Found", "NotFound"}
         /\ inbox' \in [Side -> Seq(Message)]
         /\ inbox'["client"] = Tail(inbox["client"]) /\ inbox'["server"] = inbox["server"]
      \/ UNCHANGED inbox
  <2>1. CASE Takes("client", {"Found"})
    BY <1>1, <1>3, <2>1, TakesEffect
  <2>2. CASE Takes("client", {"NotFound"})
    BY <1>1, <1>3, <2>2, TakesEffect
  <2>. QED
    BY <1>2, <2>1, <2>2
<1>5. inbox' \in [Side -> Seq(Message)]
  BY <1>1, <1>4 DEF TypeOK, Message
<1>6. PortalsEnd
  BY <1>1, <1>2, <1>3, GoesDownEffect
<1>7. TypeOK'
  <2>1. /\ assigned' \in BOOLEAN
        /\ nexus' \in [Side -> {"up", "stopped"}]
        /\ conn' \in [Side -> {"none", "creating", "open", "failed", "disconnected"}]
        /\ outbox' \in [Side -> Seq(Frame)]
        /\ tasks' \in [Side -> SUBSET Frame]
        /\ phase' \in Phases
        /\ calls' \in 0 .. MaxCalls /\ asked' \in Asking
        /\ acked' \subseteq 1 .. MaxCalls /\ shown' \subseteq 1 .. MaxCalls /\ unlisted' \in BOOLEAN
    BY <1>1, <1>2 DEF TypeOK, Phases
  <2>. QED
    BY <1>1, <1>2, <1>5, <1>6, <2>1, TypesOfClient DEF serverVars, PortalsEnd
<1>8. ConnectionsAreSound'
  <2>1. phase \notin Alone
    BY <1>2 DEF Alone
  <2>. QED
    BY <1>1, <1>2, <1>6, <2>1, PortalsEndSoundly
<1>9. Gone => Gone'
  BY <1>2, <1>6, PortalsEndForGood
<1>10. Moves("client")
  BY <1>2, <1>3, <1>4, WayStays
<1>11. Moves("server") /\ \A n : News(n) \in OnTheWay("server") => News(n) \in OnTheWay("server")'
  <2>1. CASE UNCHANGED inbox
    BY <1>2, <1>3, <2>1, WayStays
  <2>2. CASE ~UNCHANGED inbox
    <3>1. Moves("server") /\ OnTheWay("server") = OnTheWay("server")' \cup {Head(inbox["client"])}
      BY <1>1, <1>2, <1>3, <1>4, <2>2, InboxMoves
    <3>2. \A n : News(n) # Head(inbox["client"])
      BY <1>4, <2>2 DEF News
    <3>. QED
      BY <3>1, <3>2
  <2>. QED
    BY <2>1, <2>2
<1>12. \A n : News(n) \in OnTheWay("server") /\ calls > 0 => Told(n)'
  BY <1>11 DEF Told
<1>13. \A s \in Side : Moves(s)
  BY <1>3, <1>10, <1>11
<1>14. /\ phase' \in Early => phase \in Early
       /\ phase' = "calling" => phase = "calling"
       /\ phase' = "online" => phase = "online" \/ calls > 1
  BY <1>2 DEF Early
<1>. QED
  BY <1>2, <1>7, <1>8, <1>9, <1>12, <1>13, <1>14, QuietIf DEF historyVars

(* ClientIsShown *)
LEMMA ClientIsShownStep ==
  ASSUME FfiInvariant, UNCHANGED setting, ClientIsShown
  PROVE  TypeOK' /\ ConnectionsAreSound' /\ Quiet
<1>. DEFINE m == Head(inbox["client"])
<1>1. TypeOK /\ ConnectionsAreSound
  BY DEF FfiInvariant
<1>2. /\ UNCHANGED <<setting, link, socket, wire, assigned, nexus, conn, portal, task, outbox, tasks,
                     phase, calls, asked, closing, setup, hub, chat, connect, queue, clients, acked,
                     unlisted>>
      /\ shown' = shown \cup {m.call}
      /\ Takes("client", {"MessageReceived"})
  BY DEF ClientIsShown, netVars, clientVars, serverVars
<1>3. /\ "server" \in Side /\ "client" \in Side
      /\ Peer("server") = "client" /\ Peer("client") = "server"
      /\ \A s \in Side : s = "server" \/ s = "client"
  BY DEF Side, Peer
<1>4. /\ inbox["client"] # <<>> /\ m \in Message /\ m.type = "MessageReceived"
      /\ inbox' \in [Side -> Seq(Message)]
      /\ inbox'["client"] = Tail(inbox["client"]) /\ inbox'["server"] = inbox["server"]
  BY <1>1, <1>2, <1>3, TakesEffect
<1>5. m.call \in 1 .. MaxCalls
  BY <1>4, Frames
<1>6. PortalsEnd
  BY <1>1, <1>2, <1>3, GoesDownEffect
<1>7. TypeOK'
  <2>1. /\ assigned' \in BOOLEAN
        /\ nexus' \in [Side -> {"up", "stopped"}]
        /\ conn' \in [Side -> {"none", "creating", "open", "failed", "disconnected"}]
        /\ outbox' \in [Side -> Seq(Frame)]
        /\ tasks' \in [Side -> SUBSET Frame]
        /\ phase' \in Phases
        /\ calls' \in 0 .. MaxCalls /\ asked' \in Asking
        /\ acked' \subseteq 1 .. MaxCalls /\ unlisted' \in BOOLEAN
    BY <1>1, <1>2 DEF TypeOK, Phases
  <2>2. shown' \subseteq 1 .. MaxCalls
    BY <1>1, <1>2, <1>5 DEF TypeOK
  <2>. QED
    BY <1>1, <1>2, <1>4, <1>6, <2>1, <2>2, TypesOfClient DEF serverVars, PortalsEnd
<1>8. ConnectionsAreSound'
  BY <1>1, <1>2, <1>6, PortalsEndSoundly
<1>9. Gone => Gone'
  BY <1>2, <1>6, PortalsEndForGood
<1>10. Moves("client")
  BY <1>2, <1>3, <1>4, WayStays
<1>11. Moves("server") /\ OnTheWay("server") = OnTheWay("server")' \cup {m}
  BY <1>1, <1>2, <1>3, <1>4, InboxMoves
<1>12. ASSUME NEW n, News(n) \in OnTheWay("server")
       PROVE  Told(n)'
  <2>1. CASE News(n) = m
    <3>1. m.call = n
      BY <2>1 DEF News
    <3>. QED
      BY <1>2, <3>1 DEF Told
  <2>2. CASE News(n) # m
    BY <1>11, <1>12, <2>2 DEF Told
  <2>. QED
    BY <2>1, <2>2
<1>13. \A s \in Side : Moves(s)
  BY <1>3, <1>10, <1>11
<1>. QED
  BY <1>2, <1>7, <1>8, <1>9, <1>12, <1>13 DEF Quiet

(* What is on the way is a frame or a Close; the call to the hub is on the *)
(* way while it is carried.                                                *)
LEMMA WayTypes ==
  ASSUME TypeOK, NEW s \in Side
  PROVE  /\ OnTheWay(s) \subseteq Message
         /\ Carries(s) => \E f \in OnTheWay(s) : IsConnect(f)
<1>1. /\ tasks[s] \subseteq Frame /\ outbox[s] \in Seq(Message)
      /\ wire[Peer(s)] \in Seq(Message) /\ inbox[Peer(s)] \in Seq(Message)
  BY SideTypes
<1>2. ASSUME NEW q \in Seq(Message)
      PROVE  /\ InSeq(q) \subseteq Message
             /\ Holds(q) => \E f \in InSeq(q) : IsConnect(f)
  BY <1>2, EachElement DEF InSeq, Holds
<1>3. Frame \subseteq Message
  BY DEF Message
<1>4. OnTheWay(s) \subseteq Message
  BY <1>1, <1>2, <1>3 DEF OnTheWay
<1>5. Carries(s) => \E f \in OnTheWay(s) : IsConnect(f)
  <2>1. CASE InTask(s)
    BY <2>1 DEF InTask, OnTheWay
  <2>2. CASE Holds(outbox[s])
    BY <1>1, <1>2, <2>2 DEF OnTheWay
  <2>3. CASE Holds(wire[Peer(s)])
    BY <1>1, <1>2, <2>3 DEF OnTheWay
  <2>4. CASE Holds(inbox[Peer(s)])
    BY <1>1, <1>2, <2>4 DEF OnTheWay
  <2>. QED
    BY <2>1, <2>2, <2>3, <2>4 DEF Carries
<1>. QED
  BY <1>4, <1>5

(* The calls on the way and in the queue have numbers.                     *)
LEMMA CallNumbers ==
  ASSUME FfiInvariant
  PROVE  /\ calls \in Nat /\ MaxCalls \in Nat /\ calls <= MaxCalls
         /\ \A s \in Side : \A f \in OnTheWay(s) :
              f.type \in Asking \cup {"Answer"} => f \in Frame /\ f.call \in Nat /\ f.call > 0
         /\ \A f \in InSeq(queue) : f \in Frame /\ f.call \in Nat /\ f.call > 0
<1>1. TypeOK /\ CallsAreSound
  BY DEF FfiInvariant
<1>2. calls \in Nat /\ MaxCalls \in Nat /\ calls <= MaxCalls
  BY <1>1, FfiAssumption DEF TypeOK
<1>3. ASSUME NEW f \in Message, f.type \in Asking \cup {"Answer"}
      PROVE  f \in Frame /\ f.call \in Nat /\ f.call > 0
  <2>1. f \in Frame /\ f.call \in 1 .. MaxCalls
    BY <1>3, Frames DEF Asking
  <2>. QED
    BY <1>2, <2>1
<1>4. \A s \in Side : OnTheWay(s) \subseteq Message
  BY <1>1, WayTypes
<1>5. \A f \in InSeq(queue) : f \in Message /\ f.type \in Asking
  <2>1. queue \in Seq(Frame)
    BY <1>1 DEF TypeOK
  <2>2. \A f \in InSeq(queue) : f \in Frame
    BY <2>1, EachElement DEF InSeq
  <2>. QED
    BY <1>1, <2>2 DEF Message, CallsAreSound
<1>6. \A s \in Side : \A f \in OnTheWay(s) :
         f.type \in Asking \cup {"Answer"} => f \in Frame /\ f.call \in Nat /\ f.call > 0
  BY <1>3, <1>4
<1>7. \A f \in InSeq(queue) : f \in Frame /\ f.call \in Nat /\ f.call > 0
  BY <1>3, <1>5
<1>. QED
  BY <1>2, <1>6, <1>7

(* What a post was told stays told while nothing that is on the way to the *)
(* client is lost.                                                         *)
LEMMA ToldStays ==
  ASSUME OnTheWay("server") \subseteq OnTheWay("server")', shown \subseteq shown', Gone => Gone'
  PROVE  \A n : Told(n) => Told(n)'
BY DEF Told

(* PortalDelivers, to an actor that runs                                   *)
LEMMA PortalDeliversStep ==
  ASSUME FfiInvariant, UNCHANGED setting, PortalDelivers
  PROVE  FfiInvariant'
<1>. DEFINE m == Head(inbox["server"])
<1>1. TypeOK /\ ConnectionsAreSound /\ CallsAreSound /\ ConnectIsOnce /\ MembersStay /\ PostsAreTold
  BY DEF FfiInvariant
<1>2. /\ UNCHANGED <<setting, link, socket, wire, assigned, nexus, conn, task, outbox, tasks, phase, calls,
                     asked, closing, setup, hub, chat, clients, acked, shown, unlisted>>
      /\ portal["server"] = "open"
      /\ Takes("server", Asking)
  BY DEF PortalDelivers, netVars, clientVars, historyVars
<1>3. \/ m.type = "Connect" /\ connect' = 1 /\ UNCHANGED <<portal, queue>>
      \/ m.type # "Connect" /\ queue' = Append(queue, m) /\ UNCHANGED <<portal, connect>>
      \/ GoesDown("server") /\ UNCHANGED <<connect, queue>>
  BY DEF PortalDelivers
<1>4. /\ "server" \in Side /\ "client" \in Side
      /\ Peer("server") = "client" /\ Peer("client") = "server"
      /\ \A s \in Side : s = "server" \/ s = "client"
  BY DEF Side, Peer
<1>5. /\ inbox["server"] # <<>> /\ m \in Message /\ m.type \in Asking
      /\ inbox' \in [Side -> Seq(Message)]
      /\ inbox'["server"] = Tail(inbox["server"]) /\ inbox'["client"] = inbox["client"]
  BY <1>1, <1>2, <1>4, TakesEffect
<1>6. /\ Moves("client") /\ OnTheWay("client") = OnTheWay("client")' \cup {m}
      /\ IsConnect(m) /\ CarriesOne("client") => Carries("client") /\ ~Carries("client")'
  BY <1>1, <1>2, <1>4, <1>5, InboxMoves
<1>7. Moves("server") /\ OnTheWay("server")' = OnTheWay("server")
  BY <1>2, <1>4, <1>5, WayStays
<1>8. m \in Frame /\ m.call \in Nat /\ m.call > 0 /\ IsACall(m)
  BY <1>1, <1>4, <1>5, <1>6, CallNumbers DEF CallsAreSound
<1>. HIDE DEF m
<1>9. calls \in Nat /\ calls > 0
  BY <1>8, CallNumbers DEF IsACall
<1>10. PortalsEnd
  BY <1>1, <1>3, <1>4, GoesDownEffect
<1>11. CASE GoesDown("server") /\ UNCHANGED <<connect, queue>>
  <2>1. TypeOK'
    BY <1>1, <1>2, <1>5, <1>10, <1>11 DEF TypeOK, PortalsEnd, Message
  <2>2. ConnectionsAreSound'
    BY <1>1, <1>2, <1>10, <1>11, PortalsEndSoundly
  <2>3. Gone => Gone'
    BY <1>2, <1>10, PortalsEndForGood
  <2>4. \A s \in Side : Moves(s)
    BY <1>4, <1>6, <1>7
  <2>5. \A n : News(n) \in OnTheWay("server") /\ calls > 0 => Told(n)'
    BY <1>7 DEF Told
  <2>6. Quiet
    BY <1>2, <1>11, <2>3, <2>4, <2>5, QuietIf DEF historyVars
  <2>. QED
    BY <2>1, <2>2, <2>6, QuietSteps DEF FfiInvariant
<1>12. ASSUME UNCHANGED portal,
              queue' \in Seq(Frame), InSeq(queue') \subseteq InSeq(queue) \cup {m},
              m \in InSeq(queue') => m \in InSeq(queue) \/ m.type # "Connect",
              connect' \in {connect, 1},
              connect' # connect => IsConnect(m)
       PROVE  FfiInvariant'
  <2>1. TypeOK'
    <3>1. connect' \in 0 .. 2
      BY <1>1, <1>12 DEF TypeOK
    <3>2. TypeOK /\ queue' \in Seq(Frame) /\ UNCHANGED portal
      BY <1>1, <1>12
    <3>. QED
      BY <1>2, <1>5, <3>1, <3>2 DEF TypeOK, Message
  <2>2. ConnectionsAreSound'
    BY <1>1, <1>2, <1>4, <1>12 DEF ConnectionsAreSound, Started
  <2>3. CallsAreSound'
    <3>1. \A f : (IsACall(f)' <=> IsACall(f)) /\ (IsAnAnswer(f)' <=> IsAnAnswer(f))
      BY <1>2 DEF IsACall, IsAnAnswer
    <3>2. \A f \in OnTheWay("client")' : f.type \in Asking => IsACall(f)'
      BY <1>1, <1>6, <3>1 DEF CallsAreSound
    <3>3. \A f \in InSeq(queue') : f.type \in Asking /\ f.type # "Connect" /\ IsACall(f)'
      BY <1>1, <1>5, <1>8, <1>12, <3>1 DEF CallsAreSound
    <3>4. \A f \in OnTheWay("server")' : f.type = "Answer" => IsAnAnswer(f)'
      BY <1>1, <1>7, <3>1 DEF CallsAreSound
    <3>. QED
      BY <1>1, <1>2, <1>9, <3>2, <3>3, <3>4 DEF CallsAreSound, InSeq
  <2>4. CarriesOne("client")' /\ (Carries("client")' => Carries("client"))
    BY <1>1, <1>6 DEF Moves, ConnectIsOnce
  <2>5. ConnectIsOnce'
    BY <1>1, <1>6, <1>12, <2>4 DEF ConnectIsOnce
  <2>6. MembersStay'
    <3>1. Settled' <=> Settled
      BY <1>2, <1>7 DEF Settled
    <3>2. connect' # connect => ~Settled
      BY <1>1, <1>6, <1>12 DEF MembersStay, ConnectIsOnce
    <3>3. connect' = 2 => clients'
      BY <1>1, <1>2, <1>12 DEF MembersStay
    <3>. QED
      BY <1>1, <1>2, <2>4, <3>1, <3>2, <3>3 DEF MembersStay
  <2>7. PostsAreTold'
    <3>1. Gone <=> Gone'
      BY <1>2, <1>12 DEF Gone
    <3>2. \A n : Told(n)' <=> Told(n)
      BY <1>2, <1>7, <3>1 DEF Told, News
    <3>. QED
      BY <1>1, <1>2, <1>7, <3>2 DEF PostsAreTold
  <2>. QED
    BY <2>1, <2>2, <2>3, <2>5, <2>6, <2>7 DEF FfiInvariant
<1>13. CASE m.type = "Connect" /\ connect' = 1 /\ UNCHANGED <<portal, queue>>
  <2>1. queue \in Seq(Frame) /\ queue' = queue /\ UNCHANGED portal
    BY <1>1, <1>13 DEF TypeOK
  <2>2. IsConnect(m) /\ connect' = 1
    BY <1>13 DEF IsConnect
  <2>. QED
    BY <1>12, <2>1, <2>2
<1>14. CASE m.type # "Connect" /\ queue' = Append(queue, m) /\ UNCHANGED <<portal, connect>>
  <2>1. queue \in Seq(Frame)
    BY <1>1 DEF TypeOK
  <2>2. Append(queue, m) \in Seq(Frame) /\ InSeq(Append(queue, m)) = InSeq(queue) \cup {m}
    BY <1>8, <2>1, QueueGrows
  <2>3. /\ queue' \in Seq(Frame) /\ InSeq(queue') \subseteq InSeq(queue) \cup {m}
        /\ connect' = connect /\ UNCHANGED portal /\ m.type # "Connect"
    BY <1>14, <2>2
  <2>. QED
    BY <1>12, <2>3
<1>. QED
  BY <1>3, <1>11, <1>13, <1>14

(* The server's tasks only add to what is on the way to the client.        *)
LEMMA ServerSends ==
  ASSUME TypeOK, NEW F, tasks' = [tasks EXCEPT !["server"] = @ \cup F],
         UNCHANGED <<outbox, wire, inbox>>
  PROVE  /\ OnTheWay("server")' = OnTheWay("server") \cup F
         /\ Moves("client") /\ OnTheWay("client")' = OnTheWay("client")
         /\ Carries("client")' <=> Carries("client")
<1>1. /\ "server" \in Side /\ "client" \in Side
      /\ tasks'["server"] = tasks["server"] \cup F /\ tasks'["client"] = tasks["client"]
  BY DEF TypeOK, Side
<1>2. OnTheWay("server")' = OnTheWay("server") \cup F
  BY <1>1 DEF OnTheWay
<1>3. Moves("client") /\ OnTheWay("client")' = OnTheWay("client")
  BY <1>1, WayStays
<1>4. Carries("client")' <=> Carries("client")
  BY <1>1 DEF Carries, InTask
<1>. QED
  BY <1>2, <1>3, <1>4

(* HubHandles: register, then reply                                        *)
LEMMA HubHandlesStep ==
  ASSUME FfiInvariant, UNCHANGED setting, HubHandles
  PROVE  FfiInvariant'
<1>. DEFINE a == [type |-> "Answer", call |-> 1, ok |-> TRUE]
<1>1. TypeOK /\ ConnectionsAreSound /\ CallsAreSound /\ ConnectIsOnce /\ MembersStay /\ PostsAreTold
  BY DEF FfiInvariant
<1>2. /\ UNCHANGED <<setting, netVars, nexus, conn, portal, task, outbox, inbox, clientVars, historyVars>>
      /\ UNCHANGED <<setting, link, socket, wire, conn, portal, outbox, inbox, phase, calls, asked,
                     closing, setup, hub, chat, queue, acked, shown, unlisted>>
  BY DEF HubHandles, netVars, clientVars, historyVars
<1>3. connect \in {1, 2} /\ calls \in Nat /\ calls > 0
  <2>1. connect \in 0 .. 2 /\ connect # 0
    BY <1>1 DEF TypeOK, HubHandles
  <2>2. calls # 0
    BY <1>1, <2>1 DEF CallsAreSound
  <2>. QED
    BY <2>1, <2>2, CallNumbers
<1>4. \/ connect = 1 /\ connect' = 2 /\ clients' = TRUE /\ UNCHANGED tasks
      \/ /\ connect = 2 /\ connect' = 0 /\ clients' = clients
         /\ tasks' = [tasks EXCEPT !["server"] = @ \cup {a}]
      \/ connect = 2 /\ connect' = 0 /\ clients' = FALSE /\ UNCHANGED tasks
  <2>1. HubSteps[1] = "register" /\ HubSteps[2] = "reply"
    BY DEF HubSteps
  <2>2. connect' = (connect + 1) % 3
    BY DEF HubHandles
  <2>3. connect = 1 => connect' = 2
    BY <2>2
  <2>4. connect = 2 => connect' = 0
    BY <2>2
  <2>. QED
    BY <1>3, <2>1, <2>3, <2>4 DEF HubHandles
<1>5. PICK F \in SUBSET {a} : /\ tasks' = [tasks EXCEPT !["server"] = @ \cup F]
                              /\ F # {} => connect = 2 /\ clients' = clients
  <2>1. CASE tasks' = [tasks EXCEPT !["server"] = @ \cup {a}]
    BY <1>3, <1>4, <2>1
  <2>2. CASE UNCHANGED tasks
    <3>1. tasks = [tasks EXCEPT !["server"] = @ \cup {}]
      BY <1>1 DEF TypeOK
    <3>. QED
      BY <2>2, <3>1
  <2>. QED
    BY <1>4, <2>1, <2>2
<1>6. a \in Frame /\ a.type = "Answer" /\ a.call = 1 /\ a.ok = TRUE
  <2>1. 1 \in 1 .. MaxCalls
    BY FfiAssumption
  <2>. QED
    BY <2>1, Frames
<1>. HIDE DEF a
<1>7. /\ OnTheWay("server")' = OnTheWay("server") \cup F
      /\ Moves("client") /\ OnTheWay("client")' = OnTheWay("client")
      /\ Carries("client")' <=> Carries("client")
  BY <1>1, <1>2, <1>5, ServerSends
<1>8. TypeOK'
  <2>1. F \subseteq Frame
    BY <1>6
  <2>2. tasks' \in [Side -> SUBSET Frame]
    BY <1>1, <1>5, <2>1 DEF TypeOK
  <2>3. connect' \in 0 .. 2 /\ clients' \in BOOLEAN
    <3>1. connect' = 0 \/ connect' = 2
      BY <1>4
    <3>2. clients \in BOOLEAN
      BY <1>1 DEF TypeOK
    <3>3. clients' = TRUE \/ clients' = FALSE \/ clients' = clients
      BY <1>4
    <3>4. clients' \in BOOLEAN
      BY <3>2, <3>3
    <3>. QED
      BY <3>1, <3>4
  <2>4. /\ closing' \in {"no", "listener", "hub", "chat", "done"}
        /\ setup' \in {"none", "waiting", "published", "failed"}
        /\ hub' \in {"up", "stopped"} /\ chat' \in {"up", "stopped"} /\ queue' \in Seq(Frame)
    BY <1>1, <1>2 DEF TypeOK
  <2>. QED
    BY <1>1, <1>2, <2>2, <2>3, <2>4, TypesOfServer
<1>9. ConnectionsAreSound'
  BY <1>1, <1>2, <1>3 DEF ConnectionsAreSound, Started
<1>10. CallsAreSound'
  <2>1. \A f : (IsACall(f)' <=> IsACall(f)) /\ (IsAnAnswer(f)' <=> IsAnAnswer(f))
    BY <1>2 DEF IsACall, IsAnAnswer
  <2>2. IsAnAnswer(a)
    BY <1>3, <1>6 DEF IsAnAnswer
  <2>3. \A f \in OnTheWay("client")' : f.type \in Asking => IsACall(f)'
    BY <1>1, <1>7, <2>1 DEF CallsAreSound
  <2>4. \A f \in InSeq(queue') : f.type \in Asking /\ f.type # "Connect" /\ IsACall(f)'
    BY <1>1, <1>2, <2>1 DEF CallsAreSound
  <2>5. \A f \in OnTheWay("server")' : f.type = "Answer" => IsAnAnswer(f)'
    BY <1>1, <1>7, <2>1, <2>2 DEF CallsAreSound
  <2>. QED
    BY <1>1, <1>2, <1>3, <2>3, <2>4, <2>5 DEF CallsAreSound, InSeq
<1>11. ~Settled /\ ~Carries("client")
  BY <1>1, <1>3 DEF MembersStay, ConnectIsOnce
<1>12. ConnectIsOnce'
  BY <1>1, <1>7, <1>11 DEF ConnectIsOnce, Moves
<1>13. MembersStay'
  <2>1. Settled' => F # {}
    BY <1>2, <1>7, <1>11 DEF Settled
  <2>2. F # {} => clients' /\ connect' = 0
    BY <1>1, <1>4, <1>5 DEF MembersStay
  <2>3. connect' = 2 => clients'
    BY <1>4
  <2>. QED
    BY <1>7, <1>11, <2>1, <2>2, <2>3 DEF MembersStay
<1>14. PostsAreTold'
  <2>1. Gone <=> Gone'
    BY <1>2 DEF Gone
  <2>2. \A n : Told(n) => Told(n)'
    BY <1>2, <1>7, <2>1, ToldStays
  <2>3. asked = "PostMessage" => calls # 1
    BY <1>1, <1>3 DEF CallsAreSound
  <2>4. ASSUME phase' = "calling", asked' = "PostMessage",
               NEW f \in OnTheWay("server")', f.type = "Answer", f.call = calls'
        PROVE  Told(calls)'
    <3>1. phase = "calling" /\ asked = "PostMessage" /\ f.call = calls
      BY <1>2, <2>4
    <3>2. f \in OnTheWay("server")
      BY <1>6, <1>7, <2>3, <3>1
    <3>3. PICK n : n = calls
      OBVIOUS
    <3>4. Told(n)
      BY <1>1, <2>4, <3>1, <3>2, <3>3 DEF PostsAreTold
    <3>5. Told(n)'
      BY <2>2, <3>4
    <3>. QED
      BY <1>2, <3>3, <3>5
  <2>5. ASSUME NEW n \in acked'
        PROVE  Told(n)'
    <3>1. Told(n)
      BY <1>1, <1>2 DEF PostsAreTold
    <3>. QED
      BY <2>2, <3>1
  <2>. QED
    BY <1>1, <1>2, <2>4, <2>5 DEF PostsAreTold
<1>. QED
  BY <1>8, <1>9, <1>10, <1>12, <1>13, <1>14 DEF FfiInvariant

(* ChatServerHandles: whoever may ask the chat server is in its map.       *)
LEMMA ChatServerHandlesStep ==
  ASSUME FfiInvariant, UNCHANGED setting, ChatServerHandles
  PROVE  FfiInvariant'
<1>. DEFINE m == Head(queue)
            F == Broadcast(m) \cup {ReplyTo(m)}
<1>1. TypeOK /\ ConnectionsAreSound /\ CallsAreSound /\ ConnectIsOnce /\ MembersStay /\ PostsAreTold
  BY DEF FfiInvariant
<1>2. /\ UNCHANGED <<setting, netVars, nexus, conn, portal, task, outbox, inbox, clientVars, historyVars>>
      /\ UNCHANGED <<setting, link, socket, wire, conn, portal, outbox, inbox, phase, calls, asked,
                     closing, setup, hub, chat, connect, clients, acked, shown, unlisted>>
      /\ queue # <<>> /\ queue' = Tail(queue)
  BY DEF ChatServerHandles, netVars, clientVars, historyVars
<1>3. tasks' = [tasks EXCEPT !["server"] = @ \cup F]
  <2>1. tasks' = [tasks EXCEPT !["server"] = @ \cup Broadcast(m) \cup {ReplyTo(m)}]
    BY DEF ChatServerHandles
  <2>2. tasks["server"] \cup Broadcast(m) \cup {ReplyTo(m)} = tasks["server"] \cup F
    OBVIOUS
  <2>. QED
    BY <2>1, <2>2
<1>4. /\ queue \in Seq(Frame) /\ Tail(queue) \in Seq(Frame)
      /\ InSeq(queue) = InSeq(Tail(queue)) \cup {m}
  BY <1>1, <1>2, QueueShrinks DEF TypeOK
<1>5. /\ m.call \in Nat /\ m.call > 0 /\ m \in Frame
      /\ m.type \in Asking /\ m.type # "Connect" /\ IsACall(m)
      /\ calls \in Nat /\ MaxCalls \in Nat /\ calls <= MaxCalls
  BY <1>1, <1>4, CallNumbers DEF CallsAreSound
<1>. HIDE DEF m
<1>6. m.call \in 1 .. MaxCalls /\ calls > 1 /\ m.call <= calls /\ (m.call = calls => m.type = asked)
  BY <1>5 DEF IsACall
<1>7. clients /\ connect = 0 /\ ~Carries("client")
  BY <1>1, <1>6 DEF MembersStay, Settled
<1>8. /\ ReplyTo(m) \in Frame
      /\ ReplyTo(m).type = "Answer" /\ ReplyTo(m).call = m.call /\ ReplyTo(m).ok = TRUE
      /\ News(m.call) \in Frame /\ News(m.call).type = "MessageReceived"
      /\ Broadcast(m) \subseteq {News(m.call)}
      /\ m.type = "PostMessage" => Broadcast(m) = {News(m.call)}
  <2>1. News(m.call) \in Frame /\ News(m.call).type = "MessageReceived"
    BY <1>6, Frames
  <2>2. ReplyTo(m) = [type |-> "Answer", call |-> m.call, ok |-> TRUE]
    BY <1>7 DEF ReplyTo
  <2>3. ReplyTo(m) \in Frame
    BY <1>6, <2>2, Frames
  <2>4. ReplyTo(m).type = "Answer" /\ ReplyTo(m).call = m.call /\ ReplyTo(m).ok = TRUE
    BY <2>2
  <2>. QED
    BY <1>7, <2>1, <2>3, <2>4 DEF Broadcast
<1>9. F \subseteq {News(m.call), ReplyTo(m)} /\ F \subseteq Frame /\ ReplyTo(m) \in F
      /\ (m.type = "PostMessage" => News(m.call) \in F)
  BY <1>8
<1>. HIDE DEF F
<1>10. /\ OnTheWay("server")' = OnTheWay("server") \cup F
       /\ Moves("client") /\ OnTheWay("client")' = OnTheWay("client")
       /\ Carries("client")' <=> Carries("client")
  BY <1>1, <1>2, <1>3, ServerSends
<1>11. TypeOK'
  <2>1. tasks' \in [Side -> SUBSET Frame]
    BY <1>1, <1>3, <1>9 DEF TypeOK
  <2>2. /\ closing' \in {"no", "listener", "hub", "chat", "done"}
        /\ setup' \in {"none", "waiting", "published", "failed"}
        /\ hub' \in {"up", "stopped"} /\ chat' \in {"up", "stopped"}
        /\ connect' \in 0 .. 2 /\ clients' \in BOOLEAN
    BY <1>1, <1>2 DEF TypeOK
  <2>. QED
    BY <1>1, <1>2, <1>4, <2>1, <2>2, TypesOfServer
<1>12. ConnectionsAreSound'
  BY <1>1, <1>2 DEF ConnectionsAreSound, Started
<1>13. CallsAreSound'
  <2>1. \A f : (IsACall(f)' <=> IsACall(f)) /\ (IsAnAnswer(f)' <=> IsAnAnswer(f))
    BY <1>2 DEF IsACall, IsAnAnswer
  <2>2. IsAnAnswer(ReplyTo(m)) /\ News(m.call).type # "Answer"
    BY <1>6, <1>8 DEF IsAnAnswer
  <2>3. \A f \in OnTheWay("client")' : f.type \in Asking => IsACall(f)'
    BY <1>1, <1>10, <2>1 DEF CallsAreSound
  <2>4. \A f \in InSeq(queue') : f.type \in Asking /\ f.type # "Connect" /\ IsACall(f)'
    BY <1>1, <1>2, <1>4, <2>1 DEF CallsAreSound
  <2>5. \A f \in OnTheWay("server")' : f.type = "Answer" => IsAnAnswer(f)'
    BY <1>1, <1>9, <1>10, <2>1, <2>2 DEF CallsAreSound
  <2>. QED
    BY <1>1, <1>2, <2>3, <2>4, <2>5 DEF CallsAreSound, InSeq
<1>14. ConnectIsOnce'
  BY <1>1, <1>2, <1>7, <1>10 DEF ConnectIsOnce, Moves
<1>15. MembersStay'
  BY <1>1, <1>2, <1>7, <1>10 DEF MembersStay
<1>16. PostsAreTold'
  <2>1. Gone <=> Gone'
    BY <1>2 DEF Gone
  <2>2. \A n : Told(n) => Told(n)'
    BY <1>2, <1>10, <2>1, ToldStays
  <2>4. ASSUME phase' = "calling", asked' = "PostMessage",
               NEW f \in OnTheWay("server")', f.type = "Answer", f.call = calls'
        PROVE  Told(calls)'
    <3>1. phase = "calling" /\ asked = "PostMessage" /\ f.call = calls
      BY <1>2, <2>4
    <3>2. PICK n : n = calls
      OBVIOUS
    <3>3. CASE f \in OnTheWay("server")
      <4>1. Told(n)
        BY <1>1, <2>4, <3>1, <3>2, <3>3 DEF PostsAreTold
      <4>2. Told(n)'
        BY <2>2, <4>1
      <4>. QED
        BY <1>2, <3>2, <4>2
    <3>4. CASE f \notin OnTheWay("server")
      <4>1. f = ReplyTo(m)
        BY <1>8, <1>9, <1>10, <2>4, <3>4
      <4>2. News(n) \in F
        BY <1>6, <1>8, <1>9, <3>1, <3>2, <4>1
      <4>3. Told(n)'
        BY <1>10, <4>2 DEF Told, News
      <4>. QED
        BY <1>2, <3>2, <4>3
    <3>. QED
      BY <3>3, <3>4
  <2>5. ASSUME NEW n \in acked'
        PROVE  Told(n)'
    <3>1. Told(n)
      BY <1>1, <1>2 DEF PostsAreTold
    <3>. QED
      BY <2>2, <3>1
  <2>. QED
    BY <1>1, <1>2, <2>4, <2>5 DEF PostsAreTold
<1>. QED
  BY <1>11, <1>12, <1>13, <1>14, <1>15, <1>16 DEF FfiInvariant

(* ClientAsks: the call to the hub comes before any other.                 *)
LEMMA ClientAsksStep ==
  ASSUME FfiInvariant, UNCHANGED setting, NEW kind \in Asking, ClientAsks(kind)
  PROVE  FfiInvariant'
<1>0. PICK q : q = [type |-> kind, call |-> calls + 1]
  OBVIOUS
<1>1. TypeOK /\ ConnectionsAreSound /\ CallsAreSound /\ ConnectIsOnce /\ MembersStay /\ PostsAreTold
  BY DEF FfiInvariant
<1>2. /\ UNCHANGED <<setting, link, socket, wire, assigned, nexus, conn, portal, task, outbox, inbox,
                     closing, setup, hub, chat, connect, queue, clients, acked, shown, unlisted>>
      /\ IF kind = "Connect" THEN phase = "found" ELSE phase = "online"
      /\ calls < setting.calls
      /\ calls' = calls + 1 /\ asked' = kind
      /\ phase' \in {"calling", "leaving", "online"}
      /\ phase' = "online" => phase = "online"
  BY DEF ClientAsks, MayAsk, IfRefused, netVars, serverVars, historyVars
<1>3. tasks' = tasks \/ tasks' = [tasks EXCEPT !["client"] = @ \cup {q}]
  BY <1>0 DEF ClientAsks
<1>4. /\ "server" \in Side /\ "client" \in Side
      /\ Peer("server") = "client" /\ Peer("client") = "server"
      /\ \A s \in Side : s = "server" \/ s = "client"
  BY DEF Side, Peer
<1>5. /\ calls \in Nat /\ MaxCalls \in Nat /\ setting.calls \in 1 .. MaxCalls
      /\ calls' \in 1 .. MaxCalls /\ calls' > calls
  <2>1. setting.calls \in 1 .. MaxCalls
    BY <1>1, FfiAssumption DEF TypeOK
  <2>. QED
    BY <1>2, <2>1, CallNumbers
<1>6. kind = "Connect" <=> calls = 0
  BY <1>1, <1>2, <1>5 DEF CallsAreSound, Early
<1>7. q \in Frame /\ q.type = kind /\ q.call = calls'
  BY <1>0, <1>2, <1>5, Frames
<1>8. /\ \E F \in SUBSET {q} : tasks'["client"] = tasks["client"] \cup F
      /\ tasks'["server"] = tasks["server"] /\ tasks' \in [Side -> SUBSET Frame]
  <2>1. tasks \in [Side -> SUBSET Frame]
    BY <1>1 DEF TypeOK
  <2>2. CASE tasks' = tasks
    <3>1. tasks'["client"] = tasks["client"] \cup {}
      BY <2>2
    <3>. QED
      BY <2>1, <2>2, <3>1
  <2>3. CASE tasks' = [tasks EXCEPT !["client"] = @ \cup {q}]
    <3>1. tasks'["client"] = tasks["client"] \cup {q} /\ tasks'["server"] = tasks["server"]
      BY <1>4, <2>1, <2>3
    <3>2. tasks' \in [Side -> SUBSET Frame]
      BY <1>7, <2>1, <2>3
    <3>. QED
      BY <3>1, <3>2
  <2>. QED
    BY <1>3, <2>2, <2>3
<1>9. PICK F \in SUBSET {q} : tasks'["client"] = tasks["client"] \cup F
  BY <1>8
<1>10. OnTheWay("client")' = OnTheWay("client") \cup F /\ OnTheWay("server")' = OnTheWay("server")
  BY <1>2, <1>4, <1>8, <1>9 DEF OnTheWay
<1>11. TypeOK'
  <2>1. /\ assigned' \in BOOLEAN
        /\ nexus' \in [Side -> {"up", "stopped"}]
        /\ conn' \in [Side -> {"none", "creating", "open", "failed", "disconnected"}]
        /\ portal' \in [Side -> {"none", "opening", "open", "down"}]
        /\ outbox' \in [Side -> Seq(Frame)] /\ inbox' \in [Side -> Seq(Message)]
        /\ acked' \subseteq 1 .. MaxCalls /\ shown' \subseteq 1 .. MaxCalls /\ unlisted' \in BOOLEAN
    BY <1>1, <1>2 DEF TypeOK, Message
  <2>2. phase' \in Phases /\ calls' \in 0 .. MaxCalls /\ asked' \in Asking
    BY <1>2, <1>5 DEF Phases
  <2>. QED
    BY <1>1, <1>2, <1>8, <2>1, <2>2, TypesOfClient DEF serverVars
<1>12. ConnectionsAreSound'
  <2>1. Started("client") /\ conn["client"] # "none"
    BY <1>1, <1>2, <1>5 DEF ConnectionsAreSound, Alone, CallsAreSound
  <2>. QED
    BY <1>1, <1>2, <1>8, <2>1 DEF ConnectionsAreSound, Started
<1>13. CallsAreSound'
  <2>1. ASSUME NEW f, f.call \in Nat, IsACall(f)
        PROVE  IsACall(f)'
    BY <1>2, <1>5, <2>1 DEF IsACall
  <2>2. IsACall(q)'
    BY <1>2, <1>5, <1>6, <1>7 DEF IsACall
  <2>3. ASSUME NEW f \in OnTheWay("client")', f.type \in Asking
        PROVE  IsACall(f)'
    <3>1. CASE f \in OnTheWay("client")
      <4>1. f.call \in Nat /\ IsACall(f)
        BY <1>1, <1>4, <2>3, <3>1, CallNumbers DEF CallsAreSound
      <4>. QED
        BY <2>1, <4>1
    <3>2. CASE f = q
      BY <2>2, <3>2
    <3>. QED
      BY <1>9, <1>10, <3>1, <3>2
  <2>4. ASSUME NEW f \in InSeq(queue')
        PROVE  f.type \in Asking /\ f.type # "Connect" /\ IsACall(f)'
    <3>1. f \in InSeq(queue)
      BY <1>2
    <3>2. f.call \in Nat /\ IsACall(f) /\ f.type \in Asking /\ f.type # "Connect"
      BY <1>1, <3>1, CallNumbers DEF CallsAreSound
    <3>. QED
      BY <2>1, <3>2
  <2>5. ASSUME NEW f \in OnTheWay("server")', f.type = "Answer"
        PROVE  IsAnAnswer(f)'
    <3>1. f \in OnTheWay("server")
      BY <1>10
    <3>2. f.call \in Nat /\ IsAnAnswer(f)
      BY <1>1, <1>4, <2>5, <3>1, CallNumbers DEF CallsAreSound
    <3>. QED
      BY <1>2, <1>5, <3>2 DEF IsAnAnswer
  <2>6. /\ calls' = 0 => connect' = 0
        /\ asked' # "Connect" => calls' > 1
        /\ phase' \in Early => calls' = 0
        /\ phase' \in {"calling", "online"} => calls' > 0
    BY <1>2, <1>5, <1>6 DEF Early
  <2>7. acked' \subseteq 1 .. calls'
    <3>1. ASSUME NEW n \in acked
          PROVE  n \in 1 .. calls'
      <4>1. n \in 1 .. calls
        BY <1>1 DEF CallsAreSound
      <4>. QED
        BY <1>2, <1>5, <4>1
    <3>. QED
      BY <1>2, <3>1
  <2>8. \A f \in OnTheWay("client")' : f.type \in Asking => IsACall(f)'
    BY <2>3
  <2>9. \A f \in InSeq(queue)' : f.type \in Asking /\ f.type # "Connect" /\ IsACall(f)'
    BY <2>4 DEF InSeq
  <2>10. \A f \in OnTheWay("server")' : f.type = "Answer" => IsAnAnswer(f)'
    BY <2>5
  <2>. QED
    BY <2>6, <2>7, <2>8, <2>9, <2>10 DEF CallsAreSound
<1>14. ASSUME kind = "Connect"
       PROVE  ~Carries("client") /\ connect = 0 /\ ~\E f \in OnTheWay("server") : f.type = "Answer"
  <2>1. connect = 0
    BY <1>1, <1>6, <1>14 DEF CallsAreSound
  <2>2. ASSUME NEW f \in OnTheWay("client"), IsConnect(f)
        PROVE  FALSE
    <3>1. f.type \in Asking
      BY <2>2 DEF IsConnect, Asking
    <3>2. f.call \in Nat /\ f.call > 0 /\ f.call <= calls
      BY <1>1, <1>4, <3>1, CallNumbers DEF CallsAreSound, IsACall
    <3>. QED
      BY <1>6, <1>14, <3>2
  <2>3. ~Carries("client")
    BY <1>1, <1>4, <2>2, WayTypes
  <2>4. ASSUME NEW f \in OnTheWay("server"), f.type = "Answer"
        PROVE  FALSE
    <3>1. f.call \in Nat /\ f.call > 0 /\ f.call <= calls
      BY <1>1, <1>4, <2>4, CallNumbers DEF CallsAreSound, IsAnAnswer
    <3>. QED
      BY <1>6, <1>14, <3>1
  <2>. QED
    BY <2>1, <2>3, <2>4
<1>15. kind # "Connect" => (InTask("client")' <=> InTask("client"))
                           /\ \A f \in tasks'["client"] : IsConnect(f) => f \in tasks["client"]
  BY <1>7, <1>9 DEF InTask, IsConnect
<1>16. ConnectIsOnce'
  <2>1. CASE kind = "Connect"
    <3>1. /\ ~InTask("client") /\ ~Holds(outbox["client"])
          /\ ~Holds(wire["server"]) /\ ~Holds(inbox["server"])
      BY <1>4, <1>14, <2>1 DEF Carries
    <3>2. \A f, g \in tasks'["client"] : IsConnect(f) /\ IsConnect(g) => f = g
      BY <1>9, <3>1 DEF InTask
    <3>3. CarriesOne("client")'
      BY <1>1, <1>2, <1>4, <3>1, <3>2 DEF CarriesOne, ConnectIsOnce
    <3>. QED
      BY <1>2, <1>14, <2>1, <3>3 DEF ConnectIsOnce
  <2>2. CASE kind # "Connect"
    <3>1. Carries("client")' <=> Carries("client")
      BY <1>2, <1>15, <2>2 DEF Carries
    <3>2. CarriesOne("client")'
      BY <1>1, <1>2, <1>15, <2>2 DEF CarriesOne, ConnectIsOnce
    <3>. QED
      BY <1>1, <1>2, <3>1, <3>2 DEF ConnectIsOnce
  <2>. QED
    BY <2>1, <2>2
<1>17. MembersStay'
  <2>1. CASE kind = "Connect"
    <3>1. calls' = 1 /\ phase' # "online"
      BY <1>2, <1>6, <2>1
    <3>2. ~Settled'
      BY <1>10, <1>14, <2>1, <3>1 DEF Settled
    <3>. QED
      BY <1>2, <1>14, <2>1, <3>2 DEF MembersStay
  <2>2. CASE kind # "Connect"
    <3>1. Settled
      BY <1>2, <2>2 DEF Settled
    <3>2. Carries("client")' <=> Carries("client")
      BY <1>2, <1>15, <2>2 DEF Carries
    <3>. QED
      BY <1>1, <1>2, <3>1, <3>2 DEF MembersStay
  <2>. QED
    BY <2>1, <2>2
<1>18. PostsAreTold'
  <2>1. Gone <=> Gone'
    BY <1>2 DEF Gone
  <2>2. \A n : Told(n) => Told(n)'
    BY <1>2, <1>10, <2>1, ToldStays
  <2>3. ASSUME NEW f \in OnTheWay("server")', f.type = "Answer", f.call = calls'
        PROVE  FALSE
    <3>1. f \in OnTheWay("server")
      BY <1>10
    <3>2. f.call <= calls
      BY <1>1, <2>3, <3>1 DEF CallsAreSound, IsAnAnswer
    <3>. QED
      BY <1>2, <1>5, <2>3, <3>2
  <2>4. ASSUME NEW n \in acked'
        PROVE  Told(n)'
    <3>1. Told(n)
      BY <1>1, <1>2 DEF PostsAreTold
    <3>. QED
      BY <2>2, <3>1
  <2>. QED
    BY <1>1, <1>2, <2>3, <2>4 DEF PostsAreTold
<1>. QED
  BY <1>11, <1>12, <1>13, <1>16, <1>17, <1>18 DEF FfiInvariant

(* ClientIsAnswered: the answer to a post comes after its news.            *)
LEMMA ClientIsAnsweredStep ==
  ASSUME FfiInvariant, UNCHANGED setting, ClientIsAnswered
  PROVE  FfiInvariant'
<1>. DEFINE m == Head(inbox["client"])
<1>1. TypeOK /\ ConnectionsAreSound /\ CallsAreSound /\ ConnectIsOnce /\ MembersStay /\ PostsAreTold
  BY DEF FfiInvariant
<1>2. /\ UNCHANGED <<setting, link, socket, wire, assigned, nexus, conn, task, outbox, tasks, calls, asked,
                     closing, setup, hub, chat, connect, queue, clients, shown>>
      /\ Takes("client", {"Answer"})
  BY DEF ClientIsAnswered, netVars, serverVars
<1>3. \/ /\ phase = "calling" /\ m.call = calls
         /\ phase' = "online"
         /\ acked' = IF asked = "PostMessage" THEN acked \cup {calls} ELSE acked
         /\ unlisted' = (unlisted \/ ~m.ok)
         /\ UNCHANGED portal
      \/ /\ UNCHANGED portal \/ GoesDown("client")
         /\ UNCHANGED <<phase, acked, unlisted>>
  BY DEF ClientIsAnswered
<1>4. /\ "server" \in Side /\ "client" \in Side
      /\ Peer("server") = "client" /\ Peer("client") = "server"
      /\ \A s \in Side : s = "server" \/ s = "client"
  BY DEF Side, Peer
<1>5. /\ inbox["client"] # <<>> /\ m.type = "Answer"
      /\ inbox' \in [Side -> Seq(Message)]
      /\ inbox'["client"] = Tail(inbox["client"]) /\ inbox'["server"] = inbox["server"]
  BY <1>1, <1>2, <1>4, TakesEffect
<1>6. Moves("client") /\ OnTheWay("client")' = OnTheWay("client")
  BY <1>2, <1>4, <1>5, WayStays
<1>7. Moves("server") /\ OnTheWay("server") = OnTheWay("server")' \cup {m}
  BY <1>1, <1>2, <1>4, <1>5, InboxMoves
<1>8. \A n : News(n) # m
  BY <1>5 DEF News
<1>9. m.ok /\ m \in OnTheWay("server")
  BY <1>1, <1>5, <1>7 DEF CallsAreSound, IsAnAnswer
<1>. HIDE DEF m
<1>10. PortalsEnd
  BY <1>1, <1>3, <1>4, GoesDownEffect
<1>11. Gone => Gone'
  BY <1>2, <1>10, PortalsEndForGood
<1>12. \A n : Told(n) => Told(n)'
  BY <1>2, <1>7, <1>8, <1>11 DEF Told, News
<1>13. ASSUME phase' \in Phases, acked' \subseteq 1 .. MaxCalls, unlisted' \in BOOLEAN
       PROVE  TypeOK'
  <2>1. /\ assigned' \in BOOLEAN
        /\ nexus' \in [Side -> {"up", "stopped"}]
        /\ conn' \in [Side -> {"none", "creating", "open", "failed", "disconnected"}]
        /\ outbox' \in [Side -> Seq(Frame)]
        /\ tasks' \in [Side -> SUBSET Frame]
        /\ calls' \in 0 .. MaxCalls /\ asked' \in Asking
        /\ shown' \subseteq 1 .. MaxCalls
    BY <1>1, <1>2 DEF TypeOK
  <2>. QED
    BY <1>1, <1>2, <1>5, <1>10, <1>13, <2>1, TypesOfClient DEF serverVars, PortalsEnd
<1>14. CASE UNCHANGED <<phase, acked, unlisted>>
  <2>1. TypeOK'
    <3>1. phase' \in Phases /\ acked' \subseteq 1 .. MaxCalls /\ unlisted' \in BOOLEAN
      BY <1>1, <1>14 DEF TypeOK, Phases
    <3>. QED
      BY <1>13, <3>1
  <2>2. ConnectionsAreSound'
    BY <1>1, <1>2, <1>10, <1>14, PortalsEndSoundly
  <2>3. \A s \in Side : Moves(s)
    BY <1>4, <1>6, <1>7
  <2>4. \A n : News(n) \in OnTheWay("server") /\ calls > 0 => Told(n)'
    BY <1>7, <1>8 DEF Told, News
  <2>5. Quiet
    BY <1>2, <1>11, <1>14, <2>3, <2>4, QuietIf DEF historyVars
  <2>. QED
    BY <2>1, <2>2, <2>5, QuietSteps DEF FfiInvariant
<1>15. CASE /\ phase = "calling" /\ m.call = calls /\ phase' = "online"
            /\ acked' = IF asked = "PostMessage" THEN acked \cup {calls} ELSE acked
            /\ unlisted' = (unlisted \/ ~m.ok)
  <2>1. calls \in Nat /\ calls > 0 /\ calls \in 1 .. MaxCalls
    BY <1>1, <1>15, CallNumbers DEF CallsAreSound
  <2>2. unlisted' = FALSE
    BY <1>1, <1>9, <1>15 DEF PostsAreTold
  <2>3. TypeOK'
    <3>1. phase' \in Phases
      BY <1>15 DEF Phases
    <3>2. acked' \subseteq 1 .. MaxCalls
      BY <1>1, <1>15, <2>1 DEF TypeOK
    <3>. QED
      BY <1>13, <2>2, <3>1, <3>2
  <2>4. ConnectionsAreSound'
    <3>1. phase \notin Alone
      BY <1>15 DEF Alone
    <3>. QED
      BY <1>1, <1>2, <1>10, <1>15, <3>1, PortalsEndSoundly
  <2>5. CallsAreSound'
    <3>1. \A f : (IsACall(f)' <=> IsACall(f)) /\ (IsAnAnswer(f)' <=> IsAnAnswer(f))
      BY <1>2 DEF IsACall, IsAnAnswer
    <3>2. \A f \in OnTheWay("client")' : f.type \in Asking => IsACall(f)'
      BY <1>1, <1>6, <3>1 DEF CallsAreSound
    <3>3. \A f \in InSeq(queue') : f.type \in Asking /\ f.type # "Connect" /\ IsACall(f)'
      BY <1>1, <1>2, <3>1 DEF CallsAreSound
    <3>4. \A f \in OnTheWay("server")' : f.type = "Answer" => IsAnAnswer(f)'
      BY <1>1, <1>7, <3>1 DEF CallsAreSound
    <3>5. acked' \subseteq 1 .. calls'
      BY <1>1, <1>2, <1>15, <2>1 DEF CallsAreSound
    <3>6. phase' \notin Early /\ calls' > 0
      BY <1>2, <1>15, <2>1 DEF Early
    <3>. QED
      BY <1>1, <1>2, <3>2, <3>3, <3>4, <3>5, <3>6 DEF CallsAreSound, InSeq
  <2>6. CarriesOne("client")' /\ (Carries("client")' => Carries("client"))
    BY <1>1, <1>6 DEF Moves, ConnectIsOnce
  <2>7. ConnectIsOnce'
    BY <1>1, <1>2, <2>6 DEF ConnectIsOnce
  <2>8. MembersStay'
    <3>1. Settled
      BY <1>5, <1>9 DEF Settled
    <3>. QED
      BY <1>1, <1>2, <2>6, <3>1 DEF MembersStay
  <2>9. PostsAreTold'
    <3>1. ASSUME NEW n \in acked'
          PROVE  Told(n)'
      <4>1. CASE n \in acked
        BY <1>1, <1>12, <4>1 DEF PostsAreTold
      <4>2. CASE n = calls /\ asked = "PostMessage"
        <5>1. Told(n)
          BY <1>1, <1>5, <1>9, <1>15, <4>2 DEF PostsAreTold
        <5>. QED
          BY <1>12, <5>1
      <4>. QED
        BY <1>15, <4>1, <4>2
    <3>. QED
      BY <1>15, <2>2, <3>1 DEF PostsAreTold
  <2>. QED
    BY <2>3, <2>4, <2>5, <2>7, <2>8, <2>9 DEF FfiInvariant
<1>. QED
  BY <1>3, <1>14, <1>15
-----------------------------------------------------------------------------
(* The invariant *)

(* Nothing is on the way at first.                                         *)
LEMMA FfiInit == Init => FfiInvariant
<1>. SUFFICES ASSUME Init PROVE FfiInvariant
  OBVIOUS
<1>1. InSeq(<<>>) = {} /\ ~Holds(<<>>) /\ HoldsOne(<<>>) /\ \A S : <<>> \in Seq(S)
  BY EmptyQueue
<1>2. /\ "server" \in Side /\ "client" \in Side
      /\ Peer("server") = "client" /\ Peer("client") = "server"
  BY DEF Side, Peer
<1>3. TypeOK
  <2>1. /\ socket \in [Side -> {"none", "open", "closing", "closed", "failed"}]
        /\ nexus \in [Side -> {"up", "stopped"}]
        /\ conn \in [Side -> {"none", "creating", "open", "failed", "disconnected"}]
        /\ portal \in [Side -> {"none", "opening", "open", "down"}]
        /\ task \in [Side -> {"none", "forwards", "ended", "panicked"}]
    BY DEF Init
  <2>2. /\ wire \in [Side -> Seq(Frame \cup {Close})]
        /\ outbox \in [Side -> Seq(Frame)] /\ inbox \in [Side -> Seq(Frame \cup {Close})]
        /\ tasks \in [Side -> SUBSET Frame] /\ queue \in Seq(Frame)
    BY <1>1 DEF Init
  <2>3. calls \in 0 .. MaxCalls /\ asked \in Asking
    BY FfiAssumption DEF Init, Asking
  <2>4. /\ setting \in Settings /\ link \in {"up", "broken"}
        /\ closing \in {"no", "listener", "hub", "chat", "done"}
        /\ setup \in {"none", "waiting", "published", "failed"}
        /\ hub \in {"up", "stopped"} /\ chat \in {"up", "stopped"}
    BY DEF Init
  <2>5. phase \in Phases
    BY DEF Init, Phases
  <2>6. assigned \in BOOLEAN /\ clients \in BOOLEAN /\ unlisted \in BOOLEAN
    BY DEF Init
  <2>7. acked \subseteq 1 .. MaxCalls /\ shown \subseteq 1 .. MaxCalls
    BY DEF Init
  <2>8. connect \in 0 .. 2
    BY DEF Init
  <2>. QED
    BY <2>1, <2>2, <2>3, <2>4, <2>5, <2>6, <2>7, <2>8 DEF TypeOK, Phases
<1>4. ConnectionsAreSound
  BY <1>2 DEF Init, ConnectionsAreSound, Alone
<1>5. OnTheWay("client") = {} /\ OnTheWay("server") = {} /\ InSeq(queue) = {}
  BY <1>1, <1>2 DEF Init, OnTheWay
<1>6. CallsAreSound
  BY <1>5 DEF Init, CallsAreSound
<1>7. CarriesOne("client") /\ ~Carries("client")
  BY <1>1, <1>2 DEF Init, CarriesOne, Carries, InTask
<1>8. ConnectIsOnce /\ MembersStay
  <2>1. ~Settled
    BY <1>5 DEF Init, Settled
  <2>2. connect = 0
    BY DEF Init
  <2>. QED
    BY <1>7, <2>1, <2>2 DEF ConnectIsOnce, MembersStay
<1>9. PostsAreTold
  BY <1>5 DEF Init, PostsAreTold
<1>. QED
  BY <1>3, <1>4, <1>6, <1>8, <1>9 DEF FfiInvariant

(* Every step keeps the invariant: most are quiet; the others ask, answer  *)
(* or deliver a call.                                                      *)
LEMMA FfiNext == FfiInvariant /\ [Next]_vars => FfiInvariant'
<1>. SUFFICES ASSUME FfiInvariant, [Next]_vars
              PROVE  FfiInvariant'
  OBVIOUS
<1>1. CASE UNCHANGED vars
  <2>1. UNCHANGED <<setting, link, socket, wire, assigned, nexus, conn, portal, task, outbox, inbox, tasks,
                    phase, calls, asked, closing, setup, hub, chat, connect, queue, clients, acked, shown,
                    unlisted>>
    BY <1>1 DEF vars, netVars, rustVars, clientVars, serverVars, historyVars
  <2>2. TypeOK'
    BY <2>1 DEF FfiInvariant, TypeOK
  <2>3. ConnectionsAreSound'
    BY <2>1 DEF FfiInvariant, ConnectionsAreSound, Started
  <2>4. Gone <=> Gone'
    BY <2>1 DEF Gone
  <2>5. Quiet
    BY <2>1, <2>4, QuietElsewhere DEF historyVars
  <2>. QED
    BY <2>2, <2>3, <2>5, QuietSteps DEF FfiInvariant
<1>2. CASE Next
  <2>1. UNCHANGED setting /\ Step
    BY <1>2 DEF Next
  <2>2. ASSUME TypeOK' /\ ConnectionsAreSound' /\ Quiet
        PROVE  FfiInvariant'
    BY <2>2, QuietSteps DEF FfiInvariant
  <2>3. CASE SocketOpens
    BY <2>1, <2>2, <2>3, SocketOpensStep
  <2>4. CASE LinkBreaks
    BY <2>1, <2>2, <2>4, LinkBreaksStep
  <2>5. ASSUME NEW s \in Side, Library(s)
        PROVE  FfiInvariant'
    BY <2>1, <2>2, <2>5, SocketReceivesStep, SocketClosesStep, CreatesConnectionStep, NexusAnswersStep
       DEF Library
  <2>6. ASSUME NEW s \in Side, SocketFails(s) \/ Transport(s) \/ TaskTransmits(s)
        PROVE  FfiInvariant'
    BY <2>1, <2>2, <2>6, SocketFailsStep, TransportSendsStep, TransportClosesStep, TaskTransmitsStep
       DEF Transport
  <2>7. CASE PortalStep
    <3>1. ASSUME NEW s \in Side, PortalTakesIntroduction(s) \/ PortalEnds(s)
          PROVE  FfiInvariant'
      BY <2>1, <2>2, <3>1, PortalTakesIntroductionStep, PortalEndsStep
    <3>2. CASE PortalAnswersQuery \/ PortalDelivers \/ ClientIsAnswered \/ ClientIsShown
      BY <2>1, <2>2, <3>2, PortalAnswersQueryStep, PortalDeliversStep, ClientIsAnsweredStep,
         ClientIsShownStep
    <3>. QED
      BY <2>7, <3>1, <3>2 DEF PortalStep
  <2>8. CASE ServerTask
    BY <2>1, <2>2, <2>8, HubIsPublishedStep, HubHandlesStep, ChatServerHandlesStep DEF ServerTask
  <2>9. CASE ServerStopsListening
    BY <2>1, <2>2, <2>9, ServerStopsListeningStep
  <2>10. CASE ServerMain
    BY <2>1, <2>2, <2>10, ServerStopsActorsStep, ServerShutsDownStep DEF ServerMain
  <2>11. ASSUME NEW kind \in Asking, ClientAsks(kind)
         PROVE  FfiInvariant'
    BY <2>1, <2>11, ClientAsksStep
  <2>12. CASE ClientMain
    <3>1. CASE ClientAsks("Connect")
      <4>1. "Connect" \in Asking
        BY DEF Asking
      <4>. QED
        BY <2>11, <3>1, <4>1
    <3>2. CASE ClientDials \/ ClientIsConnected \/ HandshakeTimesOut \/ CallIsRefused
      BY <2>1, <2>2, <3>2, ClientGoesOnStep
    <3>3. CASE ClientGivesUp \/ ClientDisconnects \/ ClientShutsDown
      BY <2>1, <2>2, <3>3, ClientEndsStep
    <3>4. CASE ClientQueries
      BY <2>1, <2>2, <3>4, ClientQueriesStep
    <3>5. CASE QueryReturns
      BY <2>1, <2>2, <3>5, QueryReturnsStep
    <3>. QED
      BY <2>12, <3>1, <3>2, <3>3, <3>4, <3>5 DEF ClientMain
  <2>13. CASE ClientQuits
    BY <2>1, <2>2, <2>13, ClientGoesOnStep
  <2>. QED
    BY <2>1, <2>3, <2>4, <2>5, <2>6, <2>7, <2>8, <2>9, <2>10, <2>11, <2>12, <2>13 DEF Step
<1>. QED
  BY <1>1, <1>2

(* The invariant holds in every state.                                     *)
THEOREM FfiInvariantCorrect == Spec => []FfiInvariant
<1>1. Init => FfiInvariant
  BY FfiInit
<1>2. FfiInvariant /\ [Next]_vars => FfiInvariant'
  BY FfiNext
<1>. QED
  BY <1>1, <1>2, PTL DEF Spec

(* Type correctness *)
THEOREM TypeCorrect == Spec => []TypeOK
<1>1. FfiInvariant => TypeOK
  BY DEF FfiInvariant
<1>. QED
  BY <1>1, FfiInvariantCorrect, PTL

(* Whoever got an alias from the hub is listed, and what it posts comes    *)
(* back to it unless the connection ended: receiveConnect registers before *)
(* it replies, receivePostMessage sends to all before it acknowledges, and *)
(* nothing in between loses a frame.                                       *)
THEOREM WhoeverConnectedIsServed == Spec => []MembersAreServed
<1>1. FfiInvariant => MembersAreServed
  <2>1. OnTheWay("server") = UnderWay
    BY DEF OnTheWay, UnderWay, Peer
  <2>2. Gone => link = "broken" \/ socket["server"] # "open" \/ \E s \in Side : portal[s] = "down"
    BY DEF Gone
  <2>. QED
    BY <2>1, <2>2 DEF FfiInvariant, PostsAreTold, Told, MembersAreServed
<1>. QED
  BY <1>1, FfiInvariantCorrect, PTL
=============================================================================
