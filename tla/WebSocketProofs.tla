--------------------------- MODULE WebSocketProofs ---------------------------
(***************************************************************************)
(* Conduits over a WebSocket keep what Portal.tla takes a conduit for      *)
(* (Pipe), in both directions, with each library, for any frames and any   *)
(* number of them.                                                         *)
(***************************************************************************)
EXTENDS WebSocketConduit, TLAPS, SequenceTheorems

USE DEF ewebsockVars, historyVars

(* Queues, position by position: they grow at their end and shrink at      *)
(* their head.                                                             *)

(* What is left of a queue, position by position, when its head is taken. *)
LEMMA TailElements ==
  ASSUME NEW S, NEW q \in Seq(S), q # <<>>
  PROVE  /\ Tail(q) \in Seq(S)
         /\ Len(q) \in Nat /\ Len(q) > 0
         /\ DOMAIN q = 1 .. Len(q)
         /\ 1 \in DOMAIN q /\ Head(q) = q[1] /\ Head(q) \in S
         /\ Len(Tail(q)) = Len(q) - 1
         /\ DOMAIN Tail(q) = 1 .. Len(q) - 1
         /\ \A i \in DOMAIN Tail(q) : /\ i \in Nat /\ i + 1 \in DOMAIN q /\ i + 1 # 1
                                      /\ Tail(q)[i] = q[i + 1] /\ Tail(q)[i] \in S
<1>1. Len(q) \in Nat /\ DOMAIN q = 1 .. Len(q) /\ Len(q) # 0
  BY EmptySeq, LenProperties
<1>2. /\ Tail(q) \in Seq(S)
      /\ Len(Tail(q)) = Len(q) - 1
      /\ \A i \in 1 .. Len(Tail(q)) : Tail(q)[i] = q[i + 1]
  BY HeadTailProperties
<1>3. DOMAIN Tail(q) = 1 .. Len(q) - 1
  BY <1>2, LenProperties
<1>4. Head(q) = q[1] /\ 1 \in DOMAIN q /\ q[1] \in S
  BY <1>1, ElementOfSeq
<1>5. \A i \in DOMAIN Tail(q) : Tail(q)[i] \in S
  BY <1>2, <1>3, ElementOfSeq
<1>. QED
  BY <1>1, <1>2, <1>3, <1>4, <1>5

(* What is in a queue, position by position, when an element of its type   *)
(* is appended.                                                            *)
LEMMA AppendElements ==
  ASSUME NEW S, NEW q \in Seq(S), NEW e \in S
  PROVE  /\ Append(q, e) \in Seq(S)
         /\ Append(q, e) # <<>>
         /\ DOMAIN q = 1 .. Len(q)
         /\ Len(q) \in Nat
         /\ Len(Append(q, e)) = Len(q) + 1
         /\ DOMAIN Append(q, e) = 1 .. Len(q) + 1
         /\ \A i \in DOMAIN q : Append(q, e)[i] = q[i]
         /\ Append(q, e)[Len(q) + 1] = e
<1>1. Len(q) \in Nat /\ DOMAIN q = 1 .. Len(q)
  BY LenProperties
<1>2. /\ Append(q, e) \in Seq(S)
      /\ Append(q, e) # <<>>
      /\ Len(Append(q, e)) = Len(q) + 1
      /\ \A i \in 1 .. Len(q) : Append(q, e)[i] = q[i]
      /\ Append(q, e)[Len(q) + 1] = e
  BY AppendProperties
<1>3. DOMAIN Append(q, e) = 1 .. Len(q) + 1
  BY <1>2, LenProperties
<1>. QED
  BY <1>1, <1>2, <1>3

(* A queue that is not there has no positions. *)
LEMMA NoElements ==
  ASSUME NEW S
  PROVE  <<>> \in Seq(S) /\ DOMAIN <<>> = {} /\ Len(<<>>) = 0
BY EmptySeq
-----------------------------------------------------------------------------

Message == Messages \cup {Ping}

(* map_conduit_to_ws and map_ws_to_conduit undo each other, and no frame   *)
(* is taken for a control message.                                         *)
LEMMA Conversions ==
  /\ \A f \in Frame : /\ ToMessage(f) \in Messages /\ ~Skipped(ToMessage(f))
                      /\ ToFrame(ToMessage(f)) = f
  /\ Skipped(Ping)
  /\ \A m \in Message : Skipped(m) \/ m \in Messages
<1>1. ASSUME NEW f \in Frame
      PROVE  /\ ToMessage(f) \in Messages /\ ~Skipped(ToMessage(f))
             /\ ToFrame(ToMessage(f)) = f
  <2>1. f = [type |-> f.type, body |-> f.body] /\ f.type \in {"Handshake", "Content"}
    BY WebSocketAssumption DEF FrameTypes
  <2>2. ToMessage(f) \in Messages
    BY <2>1 DEF ToMessage, Messages
  <2>3. ToMessage(f).kind # "Ping"
    BY DEF ToMessage
  <2>4. ~Skipped(ToMessage(f))
    BY <2>3 DEF Skipped, Ping
  <2>5. ToFrame(ToMessage(f)) = [type |-> f.type, body |-> f.body]
    BY <2>1 DEF ToFrame, ToMessage
  <2>. QED
    BY <2>1, <2>2, <2>4, <2>5
<1>2. Skipped(Ping) /\ \A m \in Message : Skipped(m) \/ m \in Messages
  BY DEF Skipped, Message
<1>. QED
  BY <1>1, <1>2
-----------------------------------------------------------------------------
(* What steps do to a flow of frames from a sink to a source. *)

(* The frames that were given to the sink do not change. *)
LEMMA FlowGiven ==
  ASSUME NEW got \in Seq(Frame), NEW in \in Seq(Frame), NEW w \in Seq(Message),
         NEW all \in Seq(Frame), NEW f \in Frame, NEW k, UpTo(k, got, in, w, all)
  PROVE  UpTo(k, got, in, w, Append(all, f))
<1>. PICK n \in [0 .. Len(w) -> 0 .. Len(all)] : Numbers(n, got, in, w, all) /\ n[Len(w)] = k
  BY DEF UpTo
<1>1. /\ DOMAIN all = 1 .. Len(all) /\ Len(all) \in Nat /\ Len(Append(all, f)) = Len(all) + 1
      /\ \A i \in 1 .. Len(all) : Append(all, f)[i] = all[i]
  BY AppendElements
<1>2. /\ DOMAIN in = 1 .. Len(in) /\ Len(in) \in Nat /\ Len(got) \in Nat
      /\ DOMAIN w = 1 .. Len(w) /\ Len(w) \in Nat
  BY LenProperties
<1>3. n[0] \in 0 .. Len(all) /\ \A i \in 1 .. Len(w) : n[i] \in 0 .. Len(all) /\ n[i - 1] \in 0 .. Len(all)
  <2>1. \A j \in 0 .. Len(w) : n[j] \in 0 .. Len(all)
    OBVIOUS
  <2>2. 0 \in 0 .. Len(w) /\ \A i \in 1 .. Len(w) : i \in 0 .. Len(w) /\ i - 1 \in 0 .. Len(w)
    BY <1>2
  <2>. QED
    BY <2>1, <2>2
<1>4. \A i \in DOMAIN in : in[i] = Append(all, f)[Len(got) + i]
  BY <1>1, <1>2, <1>3 DEF Numbers
<1>5. ASSUME NEW i \in DOMAIN w
      PROVE  IF Skipped(w[i]) THEN n[i] = n[i - 1]
             ELSE n[i] = n[i - 1] + 1 /\ ToFrame(w[i]) = Append(all, f)[n[i]]
  <2>1. CASE Skipped(w[i])
    BY <2>1 DEF Numbers
  <2>2. CASE ~Skipped(w[i])
    <3>1. n[i] = n[i - 1] + 1 /\ ToFrame(w[i]) = all[n[i]]
      BY <2>2 DEF Numbers
    <3>2. n[i] \in 1 .. Len(all)
      BY <1>1, <1>2, <1>3, <3>1
    <3>. QED
      BY <1>1, <2>2, <3>1, <3>2
  <2>. QED
    BY <2>1, <2>2
<1>6. n \in [0 .. Len(w) -> 0 .. Len(Append(all, f))]
  BY <1>1, <1>2
<1>7. Numbers(n, got, in, w, Append(all, f))
  BY <1>4, <1>5 DEF Numbers
<1>. QED
  BY <1>6, <1>7 DEF UpTo

(* A message that comes on the wire has the next number, a control message *)
(* has that of the one before.                                             *)
LEMMA FlowWritten ==
  ASSUME NEW got, NEW in, NEW w \in Seq(Message), NEW all \in Seq(Frame), NEW m \in Message,
         NEW before, UpTo(before, got, in, w, all),
         NEW k \in 0 .. Len(all),
         IF Skipped(m) THEN k = before ELSE k = before + 1 /\ ToFrame(m) = all[k]
  PROVE  UpTo(k, got, in, Append(w, m), all)
<1>. PICK n \in [0 .. Len(w) -> 0 .. Len(all)] : Numbers(n, got, in, w, all) /\ n[Len(w)] = before
  BY DEF UpTo
<1>. DEFINE l == Len(w) + 1
            p == [i \in 0 .. l |-> IF i = l THEN k ELSE n[i]]
<1>1. PICK q : q = Append(w, m)
  OBVIOUS
<1>2. /\ Len(w) \in Nat /\ DOMAIN w = 1 .. Len(w) /\ Len(q) = l /\ DOMAIN q = 1 .. l
      /\ \A i \in DOMAIN w : q[i] = w[i]
      /\ q[l] = m
  BY <1>1, AppendElements
<1>3. p \in [0 .. Len(q) -> 0 .. Len(all)] /\ p[Len(q)] = k
  BY <1>2
<1>4. p[0] = n[0] /\ p[l] = k /\ p[l - 1] = n[Len(w)]
      /\ \A i \in DOMAIN w : p[i] = n[i] /\ p[i - 1] = n[i - 1]
  <2>1. \A j \in 0 .. l : p[j] = IF j = l THEN k ELSE n[j]
    <3>. HIDE DEF l
    <3>. QED
      OBVIOUS
  <2>2. 0 \in 0 .. l /\ 0 # l /\ l \in 0 .. l /\ l - 1 \in 0 .. l /\ l - 1 # l /\ l - 1 = Len(w)
    <3>1. Len(w) \in Nat
      BY <1>2
    <3>. QED
      BY <3>1
  <2>3. \A i \in DOMAIN w : i \in 0 .. l /\ i # l /\ i - 1 \in 0 .. l /\ i - 1 # l
    BY <1>2
  <2>. HIDE DEF p, l
  <2>. QED
    BY <2>1, <2>2, <2>3
<1>. HIDE DEF p
<1>5. ASSUME NEW i \in DOMAIN q
      PROVE  IF Skipped(q[i]) THEN p[i] = p[i - 1]
             ELSE p[i] = p[i - 1] + 1 /\ ToFrame(q[i]) = all[p[i]]
  <2>1. CASE i \in DOMAIN w
    BY <1>2, <1>4, <2>1 DEF Numbers
  <2>2. CASE i = l
    BY <1>2, <1>4, <2>2
  <2>. QED
    BY <1>2, <2>1, <2>2
<1>6. Numbers(p, got, in, q, all)
  BY <1>4, <1>5 DEF Numbers
<1>. QED
  BY <1>1, <1>3, <1>6 DEF UpTo

(* The first message on the wire is a control message, or the next frame.  *)
LEMMA FirstOnWire ==
  ASSUME NEW got \in Seq(Frame), NEW in \in Seq(Frame), NEW w \in Seq(Message), w # <<>>,
         NEW all \in Seq(Frame),
         NEW n \in [0 .. Len(w) -> 0 .. Len(all)], Numbers(n, got, in, w, all)
  PROVE  /\ n[0] = Len(got) + Len(in) /\ n[0] \in Nat /\ n[1] \in 0 .. Len(all)
         /\ Skipped(Head(w)) => n[1] = n[0]
         /\ ~Skipped(Head(w)) => n[1] = n[0] + 1 /\ ToFrame(Head(w)) = all[n[0] + 1]
<1>1. Len(w) \in Nat /\ Len(w) > 0 /\ 1 \in DOMAIN w /\ Head(w) = w[1]
  BY TailElements
<1>2. 0 \in 0 .. Len(w) /\ 1 \in 0 .. Len(w) /\ 1 - 1 = 0
  BY <1>1
<1>3. n[0] \in 0 .. Len(all) /\ n[1] \in 0 .. Len(all)
  BY <1>2
<1>4. n[0] \in Nat
  BY <1>3, LenProperties
<1>5. IF Skipped(w[1]) THEN n[1] = n[1 - 1] ELSE n[1] = n[1 - 1] + 1 /\ ToFrame(w[1]) = all[n[1]]
  BY <1>1 DEF Numbers
<1>6. n[1 - 1] = n[0]
  BY <1>2
<1>7. n[0] = Len(got) + Len(in)
  BY DEF Numbers
<1>8. CASE Skipped(Head(w))
  BY <1>1, <1>3, <1>4, <1>5, <1>6, <1>7, <1>8
<1>9. CASE ~Skipped(Head(w))
  <2>1. n[1] = n[0] + 1 /\ ToFrame(Head(w)) = all[n[1]]
    BY <1>1, <1>5, <1>6, <1>9
  <2>. QED
    BY <1>3, <1>4, <1>7, <1>9, <2>1
<1>. QED
  BY <1>8, <1>9

(* The first message is taken from the wire. *)
LEMMA FlowRead ==
  ASSUME NEW got \in Seq(Frame), NEW in \in Seq(Frame), NEW w \in Seq(Message), w # <<>>,
         NEW all \in Seq(Frame), NEW k, UpTo(k, got, in, w, all),
         NEW got2, NEW in2,
         IF Skipped(Head(w)) THEN Len(got2) + Len(in2) = Len(got) + Len(in)
         ELSE Len(got2) + Len(in2) = Len(got) + Len(in) + 1,
         \A i \in DOMAIN in2 : in2[i] = all[Len(got2) + i]
  PROVE  UpTo(k, got2, in2, Tail(w), all)
<1>. PICK n \in [0 .. Len(w) -> 0 .. Len(all)] : Numbers(n, got, in, w, all) /\ n[Len(w)] = k
  BY DEF UpTo
<1>0. n[1] = Len(got2) + Len(in2)
  <2>1. /\ n[0] = Len(got) + Len(in)
        /\ Skipped(Head(w)) => n[1] = n[0]
        /\ ~Skipped(Head(w)) => n[1] = n[0] + 1
    BY FirstOnWire
  <2>. QED
    BY <2>1
<1>1. PICK q : q = Tail(w)
  OBVIOUS
<1>. DEFINE p == [i \in 0 .. Len(q) |-> n[i + 1]]
<1>2. /\ Len(w) \in Nat /\ Len(w) > 0 /\ DOMAIN w = 1 .. Len(w)
      /\ Len(q) = Len(w) - 1 /\ DOMAIN q = 1 .. Len(w) - 1
      /\ \A i \in DOMAIN q : i \in Nat /\ i + 1 \in DOMAIN w /\ q[i] = w[i + 1]
  BY <1>1, TailElements
<1>3. p \in [0 .. Len(q) -> 0 .. Len(all)]
  BY <1>2
<1>4. p[0] = n[1] /\ p[Len(q)] = n[Len(w)] /\ \A i \in DOMAIN q : p[i] = n[i + 1] /\ p[i - 1] = n[i]
  BY <1>2
<1>. HIDE DEF p
<1>5. ASSUME NEW i \in DOMAIN q
      PROVE  IF Skipped(q[i]) THEN p[i] = p[i - 1]
             ELSE p[i] = p[i - 1] + 1 /\ ToFrame(q[i]) = all[p[i]]
  <2>1. PICK j \in DOMAIN w : j = i + 1 /\ j - 1 = i /\ q[i] = w[j]
    BY <1>2
  <2>2. IF Skipped(w[j]) THEN n[j] = n[j - 1] ELSE n[j] = n[j - 1] + 1 /\ ToFrame(w[j]) = all[n[j]]
    BY DEF Numbers
  <2>. QED
    BY <1>4, <2>1, <2>2
<1>6. Numbers(p, got2, in2, q, all)
  BY <1>0, <1>4, <1>5 DEF Numbers
<1>. QED
  BY <1>1, <1>3, <1>4, <1>6 DEF UpTo

(* The link breaks, and the end of what is on the wire is lost.            *)
LEMMA FlowCut ==
  ASSUME NEW got, NEW in, NEW w \in Seq(Message), NEW all \in Seq(Frame), NEW k \in 0 .. Len(w),
         NEW before, UpTo(before, got, in, w, all)
  PROVE  \E after \in 0 .. Len(all) : UpTo(after, got, in, SubSeq(w, 1, k), all)
<1>. PICK n \in [0 .. Len(w) -> 0 .. Len(all)] : Numbers(n, got, in, w, all)
  BY DEF UpTo
<1>1. PICK q : q = SubSeq(w, 1, k)
  OBVIOUS
<1>2. /\ Len(w) \in Nat /\ DOMAIN w = 1 .. Len(w)
      /\ Len(q) = k /\ DOMAIN q = 1 .. k /\ \A i \in 1 .. k : q[i] = w[i]
  BY <1>1, LenProperties, SubSeqProperties
<1>. DEFINE p == [i \in 0 .. k |-> n[i]]
<1>3. p \in [0 .. Len(q) -> 0 .. Len(all)]
  BY <1>2
<1>4. p[0] = n[0] /\ \A i \in DOMAIN q : p[i] = n[i] /\ p[i - 1] = n[i - 1] /\ i \in DOMAIN w
  BY <1>2
<1>. HIDE DEF p
<1>5. Numbers(p, got, in, q, all)
  BY <1>2, <1>4 DEF Numbers
<1>6. Len(q) \in 0 .. Len(q) /\ p[Len(q)] \in 0 .. Len(all)
  BY <1>2, <1>3
<1>. QED
  BY <1>1, <1>3, <1>5, <1>6 DEF UpTo

(* What the numbers say of the frames that the side has, and of the next.  *)
LEMMA FlowAtHand ==
  ASSUME NEW got \in Seq(Frame), NEW in \in Seq(Frame), NEW w \in Seq(Message),
         NEW all \in Seq(Frame), NEW k, UpTo(k, got, in, w, all)
  PROVE  /\ k \in 0 .. Len(all)
         /\ Len(got) + Len(in) <= Len(all)
         /\ \A i \in DOMAIN in : in[i] = all[Len(got) + i]
<1>. PICK n \in [0 .. Len(w) -> 0 .. Len(all)] : Numbers(n, got, in, w, all) /\ n[Len(w)] = k
  BY DEF UpTo
<1>1. Len(w) \in 0 .. Len(w) /\ 0 \in 0 .. Len(w) /\ Len(got) \in Nat /\ Len(in) \in Nat /\ Len(all) \in Nat
  BY LenProperties
<1>2. n[0] \in 0 .. Len(all) /\ k \in 0 .. Len(all)
  BY <1>1
<1>3. n[0] = Len(got) + Len(in) /\ \A i \in DOMAIN in : in[i] = all[Len(got) + i]
  BY DEF Numbers
<1>4. Len(got) + Len(in) <= Len(all)
  BY <1>1, <1>2, <1>3
<1>. QED
  BY <1>2, <1>3, <1>4

(* The next message that is no control message is the next frame of its    *)
(* peer, which was sent.                                                   *)
LEMMA FlowNext ==
  ASSUME NEW got \in Seq(Frame), NEW in \in Seq(Frame), NEW w \in Seq(Message), w # <<>>,
         NEW all \in Seq(Frame), NEW k, UpTo(k, got, in, w, all), ~Skipped(Head(w))
  PROVE  /\ Len(got) + Len(in) < Len(all)
         /\ ToFrame(Head(w)) = all[Len(got) + Len(in) + 1]
         /\ ToFrame(Head(w)) \in Frame
<1>. PICK n \in [0 .. Len(w) -> 0 .. Len(all)] : Numbers(n, got, in, w, all) /\ n[Len(w)] = k
  BY DEF UpTo
<1>0. Numbers(n, got, in, w, all)
  OBVIOUS
<1>1. /\ n[0] = Len(got) + Len(in) /\ n[1] \in 0 .. Len(all)
      /\ n[1] = n[0] + 1 /\ ToFrame(Head(w)) = all[n[0] + 1]
  <2>1. /\ n[0] = Len(got) + Len(in) /\ n[0] \in Nat /\ n[1] \in 0 .. Len(all)
        /\ ~Skipped(Head(w)) => n[1] = n[0] + 1 /\ ToFrame(Head(w)) = all[n[0] + 1]
    BY <1>0, FirstOnWire
  <2>. QED
    BY <2>1
<1>2. Len(got) \in Nat /\ Len(in) \in Nat /\ Len(all) \in Nat
  BY LenProperties
<1>3. Len(got) + Len(in) < Len(all) /\ Len(got) + Len(in) + 1 \in 1 .. Len(all)
  BY <1>1, <1>2
<1>4. all[Len(got) + Len(in) + 1] \in Frame
  BY <1>3, ElementOfSeq
<1>. QED
  BY <1>1, <1>3, <1>4

(* A frame leaves ewebsock's inbox. *)
LEMMA FlowTaken ==
  ASSUME NEW got, NEW in, NEW w, NEW all, NEW k, UpTo(k, got, in, w, all),
         NEW got2, NEW in2, Len(got2) + Len(in2) = Len(got) + Len(in),
         \A i \in DOMAIN in2 : in2[i] = all[Len(got2) + i]
  PROVE  UpTo(k, got2, in2, w, all)
<1>. PICK n \in [0 .. Len(w) -> 0 .. Len(all)] : Numbers(n, got, in, w, all) /\ n[Len(w)] = k
  BY DEF UpTo
<1>1. Numbers(n, got2, in2, w, all)
  BY DEF Numbers
<1>. QED
  BY <1>1 DEF UpTo

(* A frame that moves from one queue to the next keeps their sum.          *)
LEMMA Sums ==
  ASSUME NEW i \in Nat, NEW j \in Nat, NEW k \in Nat
  PROVE  /\ i + j + (k + 1) = i + j + k + 1
         /\ i + (j + 1) + (k - 1) = i + j + k
         /\ i + 1 + (j - 1) + k = i + j + k
OBVIOUS
-----------------------------------------------------------------------------
(* The same of a whole flow.  First the sink's side: a frame is given, and *)
(* goes to the wire, is lost, or is queued.                                *)
LEMMA GivenAndWritten ==
  ASSUME NEW got \in Seq(Frame), NEW in \in Seq(Frame), NEW w \in Seq(Message),
         NEW all \in Seq(Frame), NEW f \in Frame, NEW open, open,
         Flow(got, in, w, all, <<>>, <<>>, open)
  PROVE  Flow(got, in, Append(w, ToMessage(f)), Append(all, f), <<>>, <<>>, open)
<1>1. PICK k \in 0 .. Len(all) : UpTo(k, got, in, w, all) /\ Follow(k, all, <<>>, <<>>)
  BY DEF Flow
<1>2. PICK a : a = Append(all, f)
  OBVIOUS
<1>3. PICK m : m = ToMessage(f)
  OBVIOUS
<1>4. /\ m \in Message /\ ~Skipped(m) /\ ToFrame(m) = f
      /\ a \in Seq(Frame) /\ Len(a) = Len(all) + 1 /\ a[Len(all) + 1] = f /\ Len(all) \in Nat
  BY <1>2, <1>3, Conversions, AppendElements DEF Message
<1>5. k = Len(all)
  <2>1. k + 0 + 0 = Len(all)
    BY <1>1, NoElements DEF Follow
  <2>. QED
    BY <2>1
<1>6. PICK c \in 0 .. Len(a) : c = k + 1 /\ c = Len(a)
  BY <1>4, <1>5
<1>7. UpTo(c, got, in, Append(w, m), a)
  <2>1. UpTo(k, got, in, w, a)
    BY <1>1, <1>2, FlowGiven
  <2>2. IF Skipped(m) THEN c = k ELSE c = k + 1 /\ ToFrame(m) = a[c]
    BY <1>4, <1>5, <1>6
  <2>. QED
    BY <1>4, <2>1, <2>2, FlowWritten
<1>8. Follow(c, a, <<>>, <<>>)
  BY <1>4, <1>6, NoElements DEF Follow
<1>. QED
  BY <1>2, <1>3, <1>7, <1>8 DEF Flow

(* A frame is given that does not reach the peer: the link is down.        *)
LEMMA GivenAndLost ==
  ASSUME NEW got \in Seq(Frame), NEW in \in Seq(Frame), NEW w \in Seq(Message),
         NEW all \in Seq(Frame), NEW f \in Frame, NEW out, NEW queue, NEW open,
         NEW open2, ~open2,
         Flow(got, in, w, all, out, queue, open)
  PROVE  Flow(got, in, w, Append(all, f), out, queue, open2)
<1>1. PICK k \in 0 .. Len(all) : UpTo(k, got, in, w, all)
  BY DEF Flow
<1>2. UpTo(k, got, in, w, Append(all, f))
  BY <1>1, FlowGiven
<1>3. Len(all) \in Nat /\ Len(Append(all, f)) = Len(all) + 1
  BY AppendElements
<1>4. k \in 0 .. Len(Append(all, f))
  BY <1>3
<1>. QED
  BY <1>2, <1>4 DEF Flow

(* A frame is given to ewebsock's sink, which is in the actor's mailbox.   *)
LEMMA GivenAndQueued ==
  ASSUME NEW got \in Seq(Frame), NEW in \in Seq(Frame), NEW w \in Seq(Message),
         NEW all \in Seq(Frame), NEW f \in Frame, NEW out \in Seq(Messages), NEW queue \in Seq(Frame),
         NEW open,
         Flow(got, in, w, all, out, queue, open)
  PROVE  Flow(got, in, w, Append(all, f), out, Append(queue, f), open)
<1>1. PICK k \in 0 .. Len(all) : UpTo(k, got, in, w, all) /\ (open => Follow(k, all, out, queue))
  BY DEF Flow
<1>3. k \in Nat /\ Len(all) \in Nat
  BY LenProperties
<1>4. PICK a : a = Append(all, f)
  OBVIOUS
<1>5. PICK q : q = Append(queue, f)
  OBVIOUS
<1>6. /\ Len(all) \in Nat /\ DOMAIN all = 1 .. Len(all) /\ Len(a) = Len(all) + 1
      /\ \A i \in DOMAIN all : a[i] = all[i]
      /\ a[Len(all) + 1] = f
  BY <1>4, AppendElements
<1>7. /\ Len(queue) \in Nat /\ DOMAIN queue = 1 .. Len(queue)
      /\ Len(q) = Len(queue) + 1 /\ DOMAIN q = 1 .. Len(queue) + 1
      /\ \A i \in DOMAIN queue : q[i] = queue[i]
      /\ q[Len(queue) + 1] = f
  BY <1>5, AppendElements
<1>8. Len(out) \in Nat /\ DOMAIN out = 1 .. Len(out)
  BY LenProperties
<1>9. ASSUME Follow(k, all, out, queue)
      PROVE  Follow(k, a, out, q)
  <2>1. /\ k + Len(out) + Len(queue) = Len(all)
        /\ \A i \in DOMAIN out : ToFrame(out[i]) = all[k + i]
        /\ \A i \in DOMAIN queue : queue[i] = all[k + Len(out) + i]
    BY <1>9 DEF Follow
  <2>0. /\ Len(q) = Len(queue) + 1 /\ Len(a) = Len(all) + 1 /\ k + Len(out) + Len(queue) = Len(all)
        /\ Len(queue) \in Nat /\ Len(out) \in Nat /\ Len(all) \in Nat
    BY <1>6, <1>7, <1>8, <2>1
  <2>2. k + Len(out) + Len(q) = Len(a)
    <3>1. k + Len(out) + (Len(queue) + 1) = k + Len(out) + Len(queue) + 1
      BY <1>3, <2>0, Sums
    <3>. QED
      BY <2>0, <3>1
  <2>3. \A i \in DOMAIN out : k + i \in DOMAIN all
    BY <1>3, <1>6, <1>7, <1>8, <2>1
  <2>4. \A i \in DOMAIN queue : k + Len(out) + i \in DOMAIN all
    BY <1>3, <1>6, <1>7, <1>8, <2>1
  <2>5. k + Len(out) + (Len(queue) + 1) = Len(all) + 1
    BY <2>0, <2>2
  <2>6. \A i \in DOMAIN q : i \in DOMAIN queue \/ i = Len(queue) + 1
    BY <1>7
  <2>7. \A i \in DOMAIN q : q[i] = a[k + Len(out) + i]
    BY <1>6, <1>7, <2>1, <2>4, <2>5, <2>6
  <2>8. \A i \in DOMAIN out : ToFrame(out[i]) = a[k + i]
    BY <1>6, <2>1, <2>3
  <2>. QED
    BY <2>2, <2>7, <2>8 DEF Follow
<1>10. UpTo(k, got, in, w, a)
  BY <1>1, <1>4, FlowGiven
<1>11. k \in 0 .. Len(a)
  BY <1>3, <1>6
<1>. QED
  BY <1>1, <1>4, <1>5, <1>9, <1>10, <1>11 DEF Flow

(* What the actor and the task of ewebsock's sink do.                      *)
LEMMA Forwarded ==
  ASSUME NEW got \in Seq(Frame), NEW in \in Seq(Frame), NEW w \in Seq(Message),
         NEW all \in Seq(Frame), NEW out \in Seq(Messages), NEW queue \in Seq(Frame),
         NEW open, queue # <<>>,
         Flow(got, in, w, all, out, queue, open)
  PROVE  Flow(got, in, w, all, Append(out, ToMessage(Head(queue))), Tail(queue), open)
<1>1. PICK k \in 0 .. Len(all) : UpTo(k, got, in, w, all) /\ (open => Follow(k, all, out, queue))
  BY DEF Flow
<1>3. k \in Nat /\ Len(all) \in Nat
  BY LenProperties
<1>4. PICK f \in Frame : f = Head(queue)
  BY TailElements
<1>5. PICK m \in Messages : m = ToMessage(f) /\ ToFrame(m) = f
  BY Conversions
<1>6. PICK o : o = Append(out, m)
  OBVIOUS
<1>7. PICK q : q = Tail(queue)
  OBVIOUS
<1>8. /\ Len(out) \in Nat /\ DOMAIN out = 1 .. Len(out)
      /\ Len(o) = Len(out) + 1 /\ DOMAIN o = 1 .. Len(out) + 1
      /\ \A i \in DOMAIN out : o[i] = out[i]
      /\ o[Len(out) + 1] = m
  BY <1>6, AppendElements
<1>9. /\ Len(queue) \in Nat /\ Len(queue) > 0 /\ DOMAIN queue = 1 .. Len(queue)
      /\ 1 \in DOMAIN queue /\ queue[1] = f
      /\ Len(q) = Len(queue) - 1 /\ DOMAIN q = 1 .. Len(queue) - 1
      /\ \A i \in DOMAIN q : i \in Nat /\ i + 1 \in DOMAIN queue /\ q[i] = queue[i + 1]
  BY <1>4, <1>7, TailElements
<1>10. ASSUME Follow(k, all, out, queue)
       PROVE  Follow(k, all, o, q)
  <2>1. /\ k + Len(out) + Len(queue) = Len(all)
        /\ \A i \in DOMAIN out : ToFrame(out[i]) = all[k + i]
        /\ \A i \in DOMAIN queue : queue[i] = all[k + Len(out) + i]
    BY <1>10 DEF Follow
  <2>0. /\ Len(o) = Len(out) + 1 /\ Len(q) = Len(queue) - 1 /\ k + Len(out) + Len(queue) = Len(all)
        /\ Len(queue) \in Nat /\ Len(out) \in Nat
    BY <1>8, <1>9, <2>1
  <2>2. k + Len(o) + Len(q) = Len(all)
    <3>1. k + (Len(out) + 1) + (Len(queue) - 1) = k + Len(out) + Len(queue)
      BY <1>3, <2>0, Sums
    <3>. QED
      BY <2>0, <3>1
  <2>3. f = all[k + (Len(out) + 1)]
    <3>1. f = all[k + Len(out) + 1]
      BY <1>9, <2>1
    <3>2. k + Len(out) + 1 = k + (Len(out) + 1)
      BY <1>3, <1>8
    <3>. QED
      BY <3>1, <3>2
  <2>4. ASSUME NEW i \in DOMAIN o
        PROVE  ToFrame(o[i]) = all[k + i]
    <3>1. CASE i \in DOMAIN out
      BY <1>8, <2>1, <3>1
    <3>2. CASE i = Len(out) + 1
      BY <1>5, <1>8, <2>3, <3>2
    <3>3. i \in DOMAIN out \/ i = Len(out) + 1
      <4>1. i \in 1 .. Len(out) + 1 /\ Len(out) \in Nat
        BY <1>8
      <4>2. i \in 1 .. Len(out) \/ i = Len(out) + 1
        BY <4>1
      <4>. QED
        BY <1>8, <4>2
    <3>. QED
      BY <3>1, <3>2, <3>3
  <2>5. ASSUME NEW i \in DOMAIN q
        PROVE  q[i] = all[k + Len(o) + i]
    <3>1. q[i] = queue[i + 1] /\ queue[i + 1] = all[k + Len(out) + (i + 1)] /\ i \in Nat
      BY <1>9, <2>1
    <3>2. k + Len(out) + (i + 1) = k + Len(o) + i
      BY <1>3, <1>8, <3>1
    <3>. QED
      BY <3>1, <3>2
  <2>. QED
    BY <2>2, <2>4, <2>5 DEF Follow
<1>. QED
  BY <1>1, <1>4, <1>5, <1>6, <1>7, <1>10 DEF Flow

(* The task writes the first message that the actor gave it, which is the  *)
(* next frame behind those on the wire.                                    *)
LEMMA Written ==
  ASSUME NEW got \in Seq(Frame), NEW in \in Seq(Frame), NEW w \in Seq(Message),
         NEW all \in Seq(Frame), NEW out \in Seq(Messages), NEW queue \in Seq(Frame),
         NEW open, open, out # <<>>,
         Flow(got, in, w, all, out, queue, open),
         ~Skipped(Head(out))
  PROVE  Flow(got, in, Append(w, Head(out)), all, Tail(out), queue, open)
<1>1. PICK k \in 0 .. Len(all) : UpTo(k, got, in, w, all) /\ Follow(k, all, out, queue)
  BY DEF Flow
<1>3. k \in Nat /\ Len(all) \in Nat
  BY LenProperties
<1>4. PICK m : m = Head(out)
  OBVIOUS
<1>5. PICK o : o = Tail(out)
  OBVIOUS
<1>6. /\ Len(out) \in Nat /\ Len(out) > 0 /\ DOMAIN out = 1 .. Len(out)
      /\ 1 \in DOMAIN out /\ out[1] = m /\ m \in Message
      /\ Len(o) = Len(out) - 1 /\ DOMAIN o = 1 .. Len(out) - 1
      /\ \A i \in DOMAIN o : i \in Nat /\ i + 1 \in DOMAIN out /\ o[i] = out[i + 1]
  BY <1>4, <1>5, TailElements DEF Message
<1>7. Len(queue) \in Nat /\ DOMAIN queue = 1 .. Len(queue)
  BY LenProperties
<1>8. /\ k + Len(out) + Len(queue) = Len(all)
      /\ \A i \in DOMAIN out : ToFrame(out[i]) = all[k + i]
      /\ \A i \in DOMAIN queue : queue[i] = all[k + Len(out) + i]
  BY <1>1 DEF Follow
<1>9. PICK c \in 0 .. Len(all) : c = k + 1
  <2>1. /\ k + Len(out) + Len(queue) = Len(all)
        /\ Len(queue) \in Nat /\ Len(out) \in Nat /\ Len(out) > 0
    BY <1>6, <1>7, <1>8
  <2>2. k + 1 \in 0 .. Len(all)
    BY <1>3, <2>1
  <2>. QED
    BY <2>2
<1>10. ToFrame(m) = all[k + 1]
  BY <1>6, <1>8
<1>11. UpTo(c, got, in, Append(w, m), all)
  <2>1. IF Skipped(m) THEN c = k ELSE c = k + 1 /\ ToFrame(m) = all[c]
    BY <1>4, <1>9, <1>10
  <2>. QED
    BY <1>1, <1>6, <2>1, FlowWritten
<1>12. Follow(c, all, o, queue)
  <2>0. /\ Len(o) = Len(out) - 1 /\ k + Len(out) + Len(queue) = Len(all)
        /\ Len(queue) \in Nat /\ Len(out) \in Nat
    BY <1>6, <1>7, <1>8
  <2>1. k + 1 + Len(o) + Len(queue) = Len(all)
    <3>1. k + 1 + (Len(out) - 1) + Len(queue) = k + Len(out) + Len(queue)
      BY <1>3, <2>0, Sums
    <3>. QED
      BY <2>0, <3>1
  <2>2. ASSUME NEW i \in DOMAIN o
        PROVE  ToFrame(o[i]) = all[k + 1 + i]
    <3>1. o[i] = out[i + 1] /\ ToFrame(out[i + 1]) = all[k + (i + 1)] /\ i \in Nat
      BY <1>6, <1>8
    <3>2. k + (i + 1) = k + 1 + i
      BY <1>3, <3>1
    <3>. QED
      BY <3>1, <3>2
  <2>3. \A i \in DOMAIN queue : queue[i] = all[k + 1 + Len(o) + i]
    <3>1. k + 1 + Len(o) = k + Len(out)
      BY <1>3, <1>6
    <3>. QED
      BY <1>8, <3>1
  <2>. QED
    BY <1>9, <2>1, <2>2, <2>3 DEF Follow
<1>. QED
  BY <1>4, <1>5, <1>11, <1>12 DEF Flow

-----------------------------------------------------------------------------
(* Then the source's side: a message is skipped or taken from the wire, by *)
(* the receive loop or into ewebsock's inbox, or a frame from that inbox.  *)
LEMMA Ignored ==
  ASSUME NEW got \in Seq(Frame), NEW in \in Seq(Frame), NEW w \in Seq(Message), w # <<>>,
         NEW all \in Seq(Frame), NEW out, NEW queue, NEW open,
         Flow(got, in, w, all, out, queue, open),
         Skipped(Head(w))
  PROVE  Flow(got, in, Tail(w), all, out, queue, open)
<1>1. PICK k \in 0 .. Len(all) : UpTo(k, got, in, w, all) /\ (open => Follow(k, all, out, queue))
  BY DEF Flow
<1>2. \A i \in DOMAIN in : in[i] = all[Len(got) + i]
  BY <1>1, FlowAtHand
<1>3. UpTo(k, got, in, Tail(w), all)
  BY <1>1, <1>2, FlowRead
<1>. QED
  BY <1>1, <1>3 DEF Flow

(* The receive loop gets the next frame from the wire.                     *)
LEMMA Received ==
  ASSUME NEW got \in Seq(Frame), NEW in \in Seq(Frame), Len(in) = 0, NEW w \in Seq(Message), w # <<>>,
         NEW all \in Seq(Frame), NEW out, NEW queue, NEW open,
         Flow(got, in, w, all, out, queue, open),
         ~Skipped(Head(w))
  PROVE  /\ Len(got) < Len(all)
         /\ ToFrame(Head(w)) \in Frame
         /\ Flow(Append(got, ToFrame(Head(w))), in, Tail(w), all, out, queue, open)
<1>1. PICK k \in 0 .. Len(all) : UpTo(k, got, in, w, all) /\ (open => Follow(k, all, out, queue))
  BY DEF Flow
<1>2. DOMAIN in = {} /\ Len(in) = 0 /\ Len(got) \in Nat /\ Len(got) + Len(in) = Len(got)
  BY LenProperties
<1>3. Len(got) < Len(all) /\ ToFrame(Head(w)) = all[Len(got) + 1] /\ ToFrame(Head(w)) \in Frame
  <2>1. /\ Len(got) + Len(in) < Len(all)
        /\ ToFrame(Head(w)) = all[Len(got) + Len(in) + 1]
        /\ ToFrame(Head(w)) \in Frame
    BY <1>1, FlowNext
  <2>. QED
    BY <1>2, <2>1
<1>4. PICK g \in Seq(Frame) : g = Append(got, ToFrame(Head(w))) /\ Len(g) = Len(got) + 1
  BY <1>3, AppendElements
<1>5. Len(g) + Len(in) = Len(got) + Len(in) + 1
  BY <1>2, <1>4
<1>6. \A i \in DOMAIN in : in[i] = all[Len(g) + i]
  BY <1>2
<1>7. UpTo(k, g, in, Tail(w), all)
  BY <1>1, <1>5, <1>6, FlowRead
<1>8. Flow(g, in, Tail(w), all, out, queue, open)
  BY <1>1, <1>7 DEF Flow
<1>. QED
  BY <1>3, <1>4, <1>8

(* ewebsock's handler puts the next frame behind those in the inbox.       *)
LEMMA HandedOver ==
  ASSUME NEW got \in Seq(Frame), NEW in \in Seq(Frame), NEW w \in Seq(Message), w # <<>>,
         NEW all \in Seq(Frame), NEW out, NEW queue, NEW open,
         Flow(got, in, w, all, out, queue, open),
         ~Skipped(Head(w))
  PROVE  /\ ToFrame(Head(w)) \in Frame
         /\ Flow(got, Append(in, ToFrame(Head(w))), Tail(w), all, out, queue, open)
<1>1. PICK k \in 0 .. Len(all) : UpTo(k, got, in, w, all) /\ (open => Follow(k, all, out, queue))
  BY DEF Flow
<1>2. PICK f \in Frame : f = ToFrame(Head(w)) /\ f = all[Len(got) + Len(in) + 1]
  BY <1>1, FlowNext
<1>3. Len(got) \in Nat /\ Len(in) \in Nat /\ DOMAIN in = 1 .. Len(in)
  BY LenProperties
<1>4. PICK i2 \in Seq(Frame) : i2 = Append(in, f)
  BY AppendElements
<1>5. /\ Len(i2) = Len(in) + 1 /\ DOMAIN i2 = 1 .. Len(in) + 1
      /\ \A i \in DOMAIN in : i2[i] = in[i]
      /\ i2[Len(in) + 1] = f
  BY <1>4, AppendElements
<1>6. /\ Len(got) + Len(i2) = Len(got) + Len(in) + 1
      /\ Len(got) + (Len(in) + 1) = Len(got) + Len(in) + 1
  BY <1>3, <1>5
<1>7. ASSUME NEW i \in DOMAIN i2
      PROVE  i2[i] = all[Len(got) + i]
  <2>1. CASE i \in DOMAIN in
    <3>1. in[i] = all[Len(got) + i]
      BY <1>1, <2>1, FlowAtHand
    <3>. QED
      BY <1>5, <2>1, <3>1
  <2>2. CASE i = Len(in) + 1
    BY <1>2, <1>5, <1>6, <2>2
  <2>3. i \in DOMAIN in \/ i = Len(in) + 1
    <3>1. i \in 1 .. Len(in) + 1
      BY <1>5
    <3>2. i \in 1 .. Len(in) \/ i = Len(in) + 1
      BY <1>3, <3>1
    <3>. QED
      BY <1>3, <3>2
  <2>. QED
    BY <2>1, <2>2, <2>3
<1>8. UpTo(k, got, i2, Tail(w), all)
  BY <1>1, <1>6, <1>7, FlowRead
<1>9. Flow(got, i2, Tail(w), all, out, queue, open)
  BY <1>1, <1>8 DEF Flow
<1>. QED
  BY <1>2, <1>4, <1>9

(* The receive loop gets the first frame of the inbox, which is the next.  *)
LEMMA Taken ==
  ASSUME NEW got \in Seq(Frame), NEW in \in Seq(Frame), in # <<>>, NEW w \in Seq(Message),
         NEW all \in Seq(Frame), NEW out, NEW queue, NEW open,
         Flow(got, in, w, all, out, queue, open)
  PROVE  /\ Len(got) < Len(all) /\ Head(in) = all[Len(got) + 1]
         /\ Flow(Append(got, Head(in)), Tail(in), w, all, out, queue, open)
<1>1. PICK k \in 0 .. Len(all) : UpTo(k, got, in, w, all) /\ (open => Follow(k, all, out, queue))
  BY DEF Flow
<1>2. /\ Len(got) + Len(in) <= Len(all)
      /\ \A i \in DOMAIN in : in[i] = all[Len(got) + i]
  BY <1>1, FlowAtHand
<1>3. Len(got) \in Nat /\ Len(all) \in Nat
  BY LenProperties
<1>4. PICK f \in Frame : f = Head(in)
  BY TailElements
<1>5. PICK i2 : i2 = Tail(in)
  OBVIOUS
<1>6. /\ Len(in) \in Nat /\ Len(in) > 0 /\ 1 \in DOMAIN in /\ in[1] = f
      /\ Len(i2) = Len(in) - 1
      /\ \A i \in DOMAIN i2 : i \in Nat /\ i + 1 \in DOMAIN in /\ i2[i] = in[i + 1]
  BY <1>4, <1>5, TailElements
<1>7. Len(got) < Len(all) /\ f = all[Len(got) + 1]
  <2>1. Len(got) + Len(in) <= Len(all) /\ Len(in) \in Nat /\ Len(in) > 0
    BY <1>2, <1>6
  <2>2. Len(got) < Len(all)
    BY <1>3, <2>1
  <2>. QED
    BY <1>2, <1>6, <2>2
<1>8. PICK g : g = Append(got, f) /\ Len(g) = Len(got) + 1
  BY AppendElements
<1>9. Len(g) + Len(i2) = Len(got) + Len(in)
  <2>1. Len(in) \in Nat /\ Len(i2) = Len(in) - 1
    BY <1>6
  <2>2. (Len(got) + 1) + (Len(in) - 1) = Len(got) + Len(in)
    BY <1>3, <2>1
  <2>. QED
    BY <1>8, <2>1, <2>2
<1>10. ASSUME NEW i \in DOMAIN i2
       PROVE  i2[i] = all[Len(g) + i]
  <2>1. i \in Nat /\ i2[i] = in[i + 1] /\ in[i + 1] = all[Len(got) + (i + 1)]
    BY <1>2, <1>6
  <2>2. Len(got) + (i + 1) = Len(g) + i
    BY <1>3, <1>8, <2>1
  <2>. QED
    BY <2>1, <2>2
<1>11. UpTo(k, g, i2, w, all)
  BY <1>1, <1>9, <1>10, FlowTaken
<1>12. Flow(g, i2, w, all, out, queue, open)
  BY <1>1, <1>11 DEF Flow
<1>. QED
  BY <1>4, <1>5, <1>7, <1>8, <1>12

(* A control message is written behind all frames. *)
LEMMA Pinged ==
  ASSUME NEW got, NEW in, NEW w \in Seq(Message), NEW all \in Seq(Frame), NEW out, NEW queue,
         NEW open,
         Flow(got, in, w, all, out, queue, open)
  PROVE  Flow(got, in, Append(w, Ping), all, out, queue, open)
<1>1. PICK k \in 0 .. Len(all) : UpTo(k, got, in, w, all) /\ (open => Follow(k, all, out, queue))
  BY DEF Flow
<1>2. PICK m \in Message : m = Ping /\ Skipped(m)
  BY Conversions DEF Message
<1>3. UpTo(k, got, in, Append(w, m), all)
  BY <1>1, <1>2, FlowWritten
<1>. QED
  BY <1>1, <1>2, <1>3 DEF Flow

(* When the link is down, nothing is asked of what is behind the wire.     *)
LEMMA Unlinked ==
  ASSUME NEW got, NEW in, NEW w, NEW all, NEW out, NEW queue, NEW open, NEW out2, NEW queue2,
         NEW open2, ~open2,
         Flow(got, in, w, all, out, queue, open)
  PROVE  Flow(got, in, w, all, out2, queue2, open2)
<1>1. PICK k \in 0 .. Len(all) : UpTo(k, got, in, w, all)
  BY DEF Flow
<1>. QED
  BY <1>1 DEF Flow

(* The link breaks: what is left of the wire is still in order.            *)
LEMMA Cut ==
  ASSUME NEW got, NEW in, NEW w \in Seq(Message), NEW all \in Seq(Frame), NEW k \in 0 .. Len(w),
         NEW out, NEW queue, NEW open, NEW open2, ~open2,
         Flow(got, in, w, all, out, queue, open)
  PROVE  Flow(got, in, SubSeq(w, 1, k), all, out, queue, open2)
<1>1. PICK before : UpTo(before, got, in, w, all)
  BY DEF Flow
<1>2. PICK after \in 0 .. Len(all) : UpTo(after, got, in, SubSeq(w, 1, k), all)
  BY <1>1, FlowCut
<1>. QED
  BY <1>2 DEF Flow

(* A flow starts with nothing under way. *)
LEMMA NoFlowYet ==
  ASSUME NEW open
  PROVE  Flow(<<>>, <<>>, <<>>, <<>>, <<>>, <<>>, open)
<1>. DEFINE n == [i \in 0 .. 0 |-> 0]
<1>1. DOMAIN <<>> = {} /\ Len(<<>>) = 0
  BY NoElements
<1>2. n[0] = 0 /\ n \in [0 .. 0 -> 0 .. 0]
  OBVIOUS
<1>. HIDE DEF n
<1>3. Numbers(n, <<>>, <<>>, <<>>, <<>>)
  BY <1>1, <1>2 DEF Numbers
<1>4. UpTo(0, <<>>, <<>>, <<>>, <<>>)
  BY <1>1, <1>2, <1>3 DEF UpTo
<1>5. Follow(0, <<>>, <<>>, <<>>)
  BY <1>1 DEF Follow
<1>. QED
  BY <1>1, <1>4, <1>5 DEF Flow
-----------------------------------------------------------------------------
(* What makes the refinement inductive, and what a step has to keep of it. *)
WsInv == TypeOK /\ FramesInOrder /\ QueuesAreEwebsocks

UnderWayNext(s) ==
  source'[s] = "yields" =>
    Flow(received'[s], IF s = "client" THEN inbox' ELSE <<>>, wire'[s], sent'[Peer(s)],
         IF Peer(s) = "client" THEN outbox' ELSE <<>>,
         IF Peer(s) = "client" THEN actor' ELSE <<>>,
         link' = "up")

(* A step of the conduit, as one of the pipe that ends at s. *)
Rests(s) == sent'[Peer(s)] = sent[Peer(s)] /\ received'[s] = received[s] /\ source'[s] = source[s]
Sends(s) ==
  /\ \E f \in Frame : sent'[Peer(s)] = Append(sent[Peer(s)], f)
  /\ received'[s] = received[s] /\ source'[s] = source[s]
Receives(s) ==
  /\ source[s] = "yields" /\ Len(received[s]) < Len(sent[Peer(s)])
  /\ received'[s] = Append(received[s], sent[Peer(s)][Len(received[s]) + 1])
  /\ sent'[Peer(s)] = sent[Peer(s)] /\ source'[s] = source[s]
Ends(s) ==
  /\ source[s] = "yields" /\ source'[s] = "ended"
  /\ sent'[Peer(s)] = sent[Peer(s)] /\ received'[s] = received[s]
PipeStep(s) == Rests(s) \/ Sends(s) \/ Receives(s) \/ Ends(s)

Kept ==
  /\ TypeOK'
  /\ \A s \in Side : UnderWayNext(s) /\ PipeStep(s)
  /\ library' = library
  /\ library = "tungstenite" => inbox' = <<>> /\ outbox' = <<>> /\ actor' = <<>>

(* The two sides are each other's peers.                                   *)
LEMMA Peers ==
  /\ Peer("client") = "server" /\ Peer("server") = "client"
  /\ \A s \in Side : /\ Peer(s) \in Side /\ Peer(Peer(s)) = s /\ Peer(s) # s
                     /\ \A u \in Side : u = s \/ u = Peer(s)
                     /\ s = "client" \/ s = "server"
BY DEF Peer, Side

(* The flow that ends at a side, of the types it has, as long as it lasts. *)
LEMMA FlowOf ==
  ASSUME WsInv, NEW s \in Side
  PROVE  /\ received[s] \in Seq(Frame) /\ Inbox(s) \in Seq(Frame) /\ wire[s] \in Seq(Message)
         /\ sent[Peer(s)] \in Seq(Frame) /\ Outbox(Peer(s)) \in Seq(Messages)
         /\ SinkQueue(Peer(s)) \in Seq(Frame)
         /\ source[s] = "yields" =>
              Flow(received[s], Inbox(s), wire[s], sent[Peer(s)], Outbox(Peer(s)),
                   SinkQueue(Peer(s)), link = "up")
         /\ source[s] = "yields" => (Reaches(s) <=> link = "up")
<1>1. <<>> \in Seq(Frame) /\ <<>> \in Seq(Messages)
  BY EmptySeq
<1>2. /\ received \in [Side -> Seq(Frame)] /\ sent \in [Side -> Seq(Frame)]
      /\ wire \in [Side -> Seq(Message)] /\ inbox \in Seq(Frame) /\ outbox \in Seq(Messages)
      /\ actor \in Seq(Frame)
  BY DEF WsInv, TypeOK, Message
<1>3. Peer(s) \in Side
  BY Peers
<1>4. UnderWay(s)
  BY DEF WsInv, FramesInOrder
<1>5. source[s] = "yields" => (Reaches(s) <=> link = "up")
  BY DEF Reaches, Closed
<1>6. Inbox(s) \in Seq(Frame) /\ Outbox(Peer(s)) \in Seq(Messages) /\ SinkQueue(Peer(s)) \in Seq(Frame)
  BY <1>1, <1>2 DEF Inbox, Outbox, SinkQueue
<1>. QED
  BY <1>2, <1>3, <1>4, <1>5, <1>6 DEF UnderWay

(* A side without ewebsock has none of its queues. *)
LEMMA NoQueues ==
  ASSUME WsInv, NEW s \in Side, ~Ewebsock(s)
  PROVE  Inbox(s) = <<>> /\ Outbox(s) = <<>> /\ SinkQueue(s) = <<>>
<1>1. CASE s = "client"
  BY <1>1 DEF WsInv, QueuesAreEwebsocks, Inbox, Outbox, SinkQueue
<1>2. CASE s # "client"
  BY <1>2 DEF Inbox, Outbox, SinkQueue
<1>. QED
  BY <1>1, <1>2

(* A side whose flow a step leaves alone, or ends. *)
LEMMA LeftAlone ==
  ASSUME WsInv, NEW s \in Side,
         received'[s] = received[s], sent'[Peer(s)] = sent[Peer(s)],
         \/ /\ source'[s] = source[s] /\ wire'[s] = wire[s] /\ link' = link
            /\ s = "client" => inbox' = inbox
            /\ s = "server" => outbox' = outbox /\ actor' = actor
         \/ source'[s] = "ended" /\ source[s] \in {"yields", "ended"}
  PROVE  UnderWayNext(s) /\ PipeStep(s)
<1>1. CASE source'[s] = "ended" /\ source[s] \in {"yields", "ended"}
  BY <1>1 DEF UnderWayNext, PipeStep, Rests, Ends
<1>2. CASE /\ source'[s] = source[s] /\ wire'[s] = wire[s] /\ link' = link
           /\ s = "client" => inbox' = inbox
           /\ s = "server" => outbox' = outbox /\ actor' = actor
  <2>1. /\ Inbox(s) = IF s = "client" THEN inbox' ELSE <<>>
        /\ Outbox(Peer(s)) = IF Peer(s) = "client" THEN outbox' ELSE <<>>
        /\ SinkQueue(Peer(s)) = IF Peer(s) = "client" THEN actor' ELSE <<>>
    BY <1>2 DEF Inbox, Outbox, SinkQueue, Peer, Side
  <2>2. UnderWayNext(s)
    BY <1>2, <2>1, FlowOf DEF UnderWayNext
  <2>. QED
    BY <1>2, <2>2 DEF PipeStep, Rests
<1>. QED
  BY <1>1, <1>2

(* A tungstenite stream is written at once, or the frame is lost.          *)
LEMMA TungsteniteSendsKeeps ==
  ASSUME WsInv, NEW s \in Side, NEW f \in Frame, TungsteniteSends(s, f)
  PROVE  Kept
<1>. DEFINE t == Peer(s)
<1>0. /\ ~Ewebsock(s)
      /\ UNCHANGED <<library, source, link, pings, actor, running, outbox, inbox, handler, received>>
      /\ sent' = [sent EXCEPT ![s] = Append(@, f)]
      /\ wire' = IF Reaches(t) THEN [wire EXCEPT ![t] = Append(@, ToMessage(f))] ELSE wire
      /\ portal' = portal \/ portal' = [portal EXCEPT ![s] = "down"]
  BY DEF TungsteniteSends, Gives
<1>1. /\ t \in Side /\ t # s /\ Peer(t) = s /\ \A u \in Side : u = s \/ u = t
  BY Peers
<1>2. PICK m \in Message : m = ToMessage(f)
  BY Conversions DEF Message
<1>3. /\ sent \in [Side -> Seq(Frame)] /\ wire \in [Side -> Seq(Message)]
      /\ portal \in [Side -> {"up", "down"}]
  BY DEF WsInv, TypeOK, Message
<1>4. Append(sent[s], f) \in Seq(Frame) /\ Append(wire[t], m) \in Seq(Message)
  BY <1>1, <1>3, AppendElements
<1>5. /\ sent' \in [Side -> Seq(Frame)] /\ wire' \in [Side -> Seq(Message)]
      /\ portal' \in [Side -> {"up", "down"}]
      /\ sent'[s] = Append(sent[s], f) /\ sent'[t] = sent[t]
      /\ wire'[s] = wire[s]
      /\ wire'[t] = IF Reaches(t) THEN Append(wire[t], m) ELSE wire[t]
  BY <1>0, <1>1, <1>2, <1>3, <1>4
<1>6. TypeOK'
  BY <1>0, <1>5 DEF WsInv, TypeOK, Message
<1>7. UnderWayNext(s) /\ PipeStep(s)
  BY <1>0, <1>1, <1>5, LeftAlone
<1>8. UnderWayNext(t)
  <2>1. CASE source[t] # "yields"
    BY <1>0, <2>1 DEF UnderWayNext
  <2>2. CASE source[t] = "yields"
    <3>1. /\ received[t] \in Seq(Frame) /\ Inbox(t) \in Seq(Frame) /\ wire[t] \in Seq(Message)
          /\ sent[s] \in Seq(Frame)
          /\ Flow(received[t], Inbox(t), wire[t], sent[s], Outbox(s), SinkQueue(s), link = "up")
          /\ Reaches(t) <=> link = "up"
      BY <1>1, <2>2, FlowOf
    <3>2. Outbox(s) = <<>> /\ SinkQueue(s) = <<>>
      BY <1>0, NoQueues
    <3>3. Flow(received[t], Inbox(t), wire'[t], sent'[s], Outbox(s), SinkQueue(s), link = "up")
      <4>1. CASE link = "up"
        <5>1. Flow(received[t], Inbox(t), Append(wire[t], ToMessage(f)), Append(sent[s], f), <<>>, <<>>, link = "up")
          BY <3>1, <3>2, <4>1, GivenAndWritten
        <5>. QED
          BY <1>2, <1>5, <3>1, <3>2, <4>1, <5>1
      <4>2. CASE link # "up"
        <5>1. Outbox(s) \in Seq(Messages) /\ ~(link = "up")
          BY <1>1, <4>2, FlowOf
        <5>2. Flow(received[t], Inbox(t), wire[t], Append(sent[s], f), Outbox(s), SinkQueue(s), link = "up")
          BY <3>1, <5>1, GivenAndLost
        <5>. QED
          BY <1>5, <3>1, <4>2, <5>2
      <4>. QED
        BY <4>1, <4>2
    <3>. QED
      BY <1>0, <1>1, <3>3 DEF UnderWayNext, Inbox, Outbox, SinkQueue
  <2>. QED
    BY <2>1, <2>2
<1>9. PipeStep(t)
  BY <1>0, <1>1, <1>5 DEF PipeStep, Sends
<1>10. library = "tungstenite" => inbox' = <<>> /\ outbox' = <<>> /\ actor' = <<>>
  BY <1>0 DEF WsInv, QueuesAreEwebsocks, Ewebsock
<1>. QED
  BY <1>0, <1>1, <1>6, <1>7, <1>8, <1>9, <1>10 DEF Kept

(* ewebsock's sink casts the frame to its actor.                           *)
LEMMA EwebsockSendsKeeps ==
  ASSUME WsInv, NEW f \in Frame, EwebsockSends(f)
  PROVE  Kept
<1>0. /\ library # "tungstenite"
      /\ UNCHANGED <<library, portal, source, link, wire, pings, running, outbox, inbox, handler, received>>
      /\ sent' = [sent EXCEPT !["client"] = Append(@, f)]
      /\ actor' = Append(actor, f)
  BY DEF EwebsockSends, Gives, Ewebsock
<1>1. "client" \in Side /\ "server" \in Side /\ Peer("server") = "client" /\ Peer("client") = "server"
      /\ \A u \in Side : u = "client" \/ u = "server"
  BY Peers DEF Side
<1>2. sent \in [Side -> Seq(Frame)] /\ actor \in Seq(Frame)
  BY DEF WsInv, TypeOK
<1>3. Append(sent["client"], f) \in Seq(Frame) /\ Append(actor, f) \in Seq(Frame)
  BY <1>1, <1>2, AppendElements
<1>4. /\ sent' \in [Side -> Seq(Frame)] /\ actor' \in Seq(Frame)
      /\ sent'["client"] = Append(sent["client"], f) /\ sent'["server"] = sent["server"]
  BY <1>0, <1>1, <1>2, <1>3
<1>5. TypeOK'
  BY <1>0, <1>4 DEF WsInv, TypeOK
<1>6. UnderWayNext("client") /\ PipeStep("client")
  BY <1>0, <1>1, <1>4, LeftAlone
<1>7. UnderWayNext("server")
  <2>1. CASE source["server"] # "yields"
    BY <1>0, <2>1 DEF UnderWayNext
  <2>2. CASE source["server"] = "yields"
    <3>1. /\ received["server"] \in Seq(Frame) /\ Inbox("server") \in Seq(Frame) /\ wire["server"] \in Seq(Message)
          /\ sent["client"] \in Seq(Frame)
          /\ Outbox("client") \in Seq(Messages) /\ SinkQueue("client") \in Seq(Frame)
          /\ Flow(received["server"], Inbox("server"), wire["server"], sent["client"], Outbox("client"),
                  SinkQueue("client"), link = "up")
      BY <1>1, <2>2, FlowOf
    <3>2. Flow(received["server"], Inbox("server"), wire["server"], Append(sent["client"], f), Outbox("client"),
               Append(SinkQueue("client"), f), link = "up")
      BY <3>1, GivenAndQueued
    <3>. QED
      BY <1>0, <1>1, <1>4, <3>2 DEF UnderWayNext, Inbox, Outbox, SinkQueue
  <2>. QED
    BY <2>1, <2>2
<1>8. PipeStep("server")
  BY <1>0, <1>1, <1>4 DEF PipeStep, Sends
<1>. QED
  BY <1>0, <1>1, <1>5, <1>6, <1>7, <1>8 DEF Kept

(* The actor puts it, as a message, into the channel to the task.          *)
LEMMA SinkActorForwardsKeeps ==
  ASSUME WsInv, SinkActorForwards
  PROVE  Kept
<1>0. /\ actor # <<>>
      /\ UNCHANGED <<library, portal, source, link, wire, pings, running, inbox, handler, sent, received>>
      /\ actor' = Tail(actor)
      /\ outbox' = Append(outbox, ToMessage(Head(actor)))
  BY DEF SinkActorForwards
<1>1. "client" \in Side /\ "server" \in Side /\ Peer("server") = "client" /\ Peer("client") = "server"
      /\ \A u \in Side : u = "client" \/ u = "server"
  BY Peers DEF Side
<1>2. actor \in Seq(Frame) /\ outbox \in Seq(Messages)
  BY DEF WsInv, TypeOK
<1>3. PICK f \in Frame : f = Head(actor)
  BY <1>0, <1>2, TailElements
<1>4. PICK m \in Messages : m = ToMessage(f)
  BY Conversions
<1>5. actor' \in Seq(Frame) /\ outbox' \in Seq(Messages)
  BY <1>0, <1>2, <1>3, <1>4, TailElements, AppendElements
<1>6. TypeOK'
  BY <1>0, <1>5 DEF WsInv, TypeOK
<1>7. UnderWayNext("client") /\ PipeStep("client")
  BY <1>0, <1>1, LeftAlone
<1>8. UnderWayNext("server")
  <2>1. CASE source["server"] # "yields"
    BY <1>0, <2>1 DEF UnderWayNext
  <2>2. CASE source["server"] = "yields"
    <3>1. /\ received["server"] \in Seq(Frame) /\ Inbox("server") \in Seq(Frame) /\ wire["server"] \in Seq(Message)
          /\ sent["client"] \in Seq(Frame)
          /\ Flow(received["server"], Inbox("server"), wire["server"], sent["client"], Outbox("client"),
                  SinkQueue("client"), link = "up")
      BY <1>1, <2>2, FlowOf
    <3>2. Outbox("client") = outbox /\ SinkQueue("client") = actor
      BY DEF Outbox, SinkQueue
    <3>3. Flow(received["server"], Inbox("server"), wire["server"], sent["client"], outbox', actor', link = "up")
      BY <1>0, <1>2, <3>1, <3>2, Forwarded
    <3>. QED
      BY <1>0, <1>1, <3>3 DEF UnderWayNext, Inbox
  <2>. QED
    BY <2>1, <2>2
<1>9. PipeStep("server")
  BY <1>0, <1>1 DEF PipeStep, Rests
<1>10. library # "tungstenite"
  BY <1>0 DEF WsInv, QueuesAreEwebsocks, Ewebsock
<1>. QED
  BY <1>0, <1>1, <1>6, <1>7, <1>8, <1>9, <1>10 DEF Kept

(* The task writes it, or it is lost with the link.                        *)
LEMMA TaskSendsKeeps ==
  ASSUME WsInv, TaskSends
  PROVE  Kept
<1>0. /\ outbox # <<>>
      /\ UNCHANGED <<library, portal, source, link, pings, actor, running, inbox, handler, sent, received>>
      /\ outbox' = Tail(outbox)
      /\ wire' = IF Reaches("server")
                 THEN [wire EXCEPT !["server"] = Append(@, Head(outbox))] ELSE wire
  BY DEF TaskSends
<1>1. "client" \in Side /\ "server" \in Side /\ Peer("server") = "client" /\ Peer("client") = "server"
      /\ \A u \in Side : u = "client" \/ u = "server"
  BY Peers DEF Side
<1>2. actor \in Seq(Frame) /\ outbox \in Seq(Messages) /\ wire \in [Side -> Seq(Message)]
  BY DEF WsInv, TypeOK, Message
<1>3. Tail(outbox) \in Seq(Messages) /\ Head(outbox) \in Messages
  BY <1>0, <1>2, TailElements
<1>4. PICK m \in Message : m = Head(outbox)
  BY <1>3 DEF Message
<1>5. ~Skipped(m)
  BY <1>3, <1>4 DEF Messages, Skipped, Ping
<1>6. Append(wire["server"], m) \in Seq(Message)
  BY <1>1, <1>2, AppendElements
<1>7. /\ wire' \in [Side -> Seq(Message)] /\ outbox' \in Seq(Messages)
      /\ wire'["client"] = wire["client"]
      /\ wire'["server"] = IF Reaches("server") THEN Append(wire["server"], m) ELSE wire["server"]
  BY <1>0, <1>1, <1>2, <1>3, <1>4, <1>6
<1>8. TypeOK'
  BY <1>0, <1>7 DEF WsInv, TypeOK, Message
<1>9. UnderWayNext("client") /\ PipeStep("client")
  BY <1>0, <1>1, <1>7, LeftAlone
<1>10. UnderWayNext("server")
  <2>1. CASE source["server"] # "yields"
    BY <1>0, <2>1 DEF UnderWayNext
  <2>2. CASE source["server"] = "yields"
    <3>1. /\ received["server"] \in Seq(Frame) /\ Inbox("server") \in Seq(Frame) /\ wire["server"] \in Seq(Message)
          /\ sent["client"] \in Seq(Frame)
          /\ Flow(received["server"], Inbox("server"), wire["server"], sent["client"], Outbox("client"),
                  SinkQueue("client"), link = "up")
          /\ Reaches("server") <=> link = "up"
      BY <1>1, <2>2, FlowOf
    <3>2. Outbox("client") = outbox /\ SinkQueue("client") = actor
      BY DEF Outbox, SinkQueue
    <3>3. Flow(received["server"], Inbox("server"), wire'["server"], sent["client"], outbox', actor, link = "up")
      <4>1. CASE link = "up"
        <5>1. Flow(received["server"], Inbox("server"), Append(wire["server"], Head(outbox)), sent["client"],
                   Tail(outbox), actor, link = "up")
          BY <1>0, <1>2, <1>4, <1>5, <3>1, <3>2, <4>1, Written
        <5>. QED
          BY <1>0, <1>4, <1>7, <3>1, <4>1, <5>1
      <4>2. CASE link # "up"
        <5>1. ~(link = "up")
          BY <4>2
        <5>2. Flow(received["server"], Inbox("server"), wire["server"], sent["client"], outbox', actor, link = "up")
          BY <3>1, <5>1, Unlinked
        <5>. QED
          BY <1>7, <3>1, <4>2, <5>2
      <4>. QED
        BY <4>1, <4>2
    <3>. QED
      BY <1>0, <1>1, <3>3 DEF UnderWayNext, Inbox
  <2>. QED
    BY <2>1, <2>2
<1>11. PipeStep("server")
  BY <1>0, <1>1 DEF PipeStep, Rests
<1>12. library # "tungstenite"
  BY <1>0 DEF WsInv, QueuesAreEwebsocks, Ewebsock
<1>. QED
  BY <1>0, <1>1, <1>8, <1>9, <1>10, <1>11, <1>12 DEF Kept

(* What the loop takes from the wire is the next frame of its peer's. *)
LEMMA TungsteniteReceivesKeeps ==
  ASSUME WsInv, NEW s \in Side, TungsteniteReceives(s)
  PROVE  Kept
<1>. DEFINE t == Peer(s)
            m == Head(wire[s])
<1>0. /\ ~Ewebsock(s)
      /\ source[s] = "yields" /\ wire[s] # <<>>
      /\ wire' = [wire EXCEPT ![s] = Tail(@)]
      /\ IF Skipped(m) THEN UNCHANGED <<source, received>> ELSE LoopGets(s, ToFrame(m))
      /\ UNCHANGED <<library, portal, link, pings, actor, running, outbox, inbox, handler, sent>>
  BY DEF TungsteniteReceives
<1>1. /\ t \in Side /\ t # s /\ Peer(t) = s /\ \A u \in Side : u = s \/ u = t
  BY Peers
<1>2. /\ source \in [Side -> {"yields", "ended"}] /\ wire \in [Side -> Seq(Message)]
      /\ received \in [Side -> Seq(Frame)]
  BY DEF WsInv, TypeOK, Message
<1>3. Tail(wire[s]) \in Seq(Message)
  BY <1>0, <1>2, TailElements
<1>4. wire' \in [Side -> Seq(Message)] /\ wire'[s] = Tail(wire[s]) /\ wire'[t] = wire[t]
  BY <1>0, <1>1, <1>2, <1>3
<1>5. /\ received[s] \in Seq(Frame) /\ Inbox(s) \in Seq(Frame) /\ wire[s] \in Seq(Message)
      /\ sent[t] \in Seq(Frame)
      /\ Flow(received[s], Inbox(s), wire[s], sent[t], Outbox(t), SinkQueue(t), link = "up")
      /\ Inbox(s) = <<>>
  BY <1>0, FlowOf, NoQueues
<1>6. library = "tungstenite" => inbox' = <<>> /\ outbox' = <<>> /\ actor' = <<>>
  BY <1>0 DEF WsInv, QueuesAreEwebsocks, Ewebsock
<1>7. CASE Skipped(m)
  <2>1. TypeOK'
    BY <1>0, <1>4, <1>7 DEF WsInv, TypeOK, Message
  <2>2. Flow(received[s], Inbox(s), Tail(wire[s]), sent[t], Outbox(t), SinkQueue(t), link = "up")
    BY <1>0, <1>5, <1>7, Ignored
  <2>3. UnderWayNext(s) /\ PipeStep(s)
    BY <1>0, <1>4, <1>7, <2>2 DEF UnderWayNext, PipeStep, Rests, Inbox, Outbox, SinkQueue
  <2>4. UnderWayNext(t) /\ PipeStep(t)
    BY <1>0, <1>1, <1>4, <1>7, LeftAlone
  <2>. QED
    BY <1>0, <1>1, <1>6, <2>1, <2>3, <2>4 DEF Kept
<1>8. CASE ~Skipped(m) /\ portal[s] = "up"
  <2>1. /\ received' = [received EXCEPT ![s] = Append(@, ToFrame(m))] /\ source' = source
    BY <1>0, <1>8 DEF LoopGets
  <2>2. /\ Len(received[s]) < Len(sent[t]) /\ ToFrame(m) = sent[t][Len(received[s]) + 1]
        /\ ToFrame(m) \in Frame
        /\ Flow(Append(received[s], ToFrame(m)), Inbox(s), Tail(wire[s]), sent[t], Outbox(t), SinkQueue(t), link = "up")
    <3>1. PICK w \in Seq(Message) : w = wire[s]
      BY <1>5
    <3>2. PICK g \in Seq(Frame) : g = received[s]
      BY <1>5
    <3>3. PICK i \in Seq(Frame) : i = Inbox(s) /\ Len(i) = 0
      BY <1>5, NoElements
    <3>4. PICK a \in Seq(Frame) : a = sent[t]
      BY <1>5
    <3>5. w # <<>> /\ ~Skipped(Head(w)) /\ Flow(g, i, w, a, Outbox(t), SinkQueue(t), link = "up")
      BY <1>0, <1>5, <1>8, <3>1, <3>2, <3>3, <3>4
    <3>6. /\ Len(g) < Len(a) /\ ToFrame(Head(w)) = a[Len(g) + 1]
          /\ ToFrame(Head(w)) \in Frame
          /\ Flow(Append(g, ToFrame(Head(w))), i, Tail(w), a, Outbox(t), SinkQueue(t), link = "up")
      <4>1. Len(i) = 0 /\ w # <<>> /\ ~Skipped(Head(w))
        BY <3>3, <3>5
      <4>2. Flow(g, i, w, a, Outbox(t), SinkQueue(t), link = "up")
        BY <3>5
      <4>3. Flow(Append(g, ToFrame(Head(w))), i, Tail(w), a, Outbox(t), SinkQueue(t), link = "up")
        BY <4>1, <4>2, Received
      <4>4. ToFrame(Head(w)) \in Frame
        BY <4>1, <4>2, Received
      <4>5. Len(g) < Len(a)
        BY <4>1, <4>2, Received
      <4>6. ToFrame(Head(w)) = a[Len(g) + 1]
        <5>1. PICK k : UpTo(k, g, i, w, a)
          BY <4>2 DEF Flow
        <5>2. ToFrame(Head(w)) = a[Len(g) + Len(i) + 1]
          BY <4>1, <5>1, FlowNext
        <5>3. Len(g) + Len(i) + 1 = Len(g) + 1
          BY <4>1, LenProperties
        <5>. QED
          BY <5>2, <5>3
      <4>. QED
        BY <4>3, <4>4, <4>5, <4>6
    <3>. QED
      BY <3>1, <3>2, <3>3, <3>4, <3>6
  <2>3. Append(received[s], ToFrame(m)) \in Seq(Frame)
    BY <1>5, <2>2, AppendElements
  <2>4. /\ received' \in [Side -> Seq(Frame)]
        /\ received'[s] = Append(received[s], ToFrame(m)) /\ received'[t] = received[t]
    BY <1>1, <1>2, <2>1, <2>3
  <2>5. TypeOK'
    BY <1>0, <1>4, <2>1, <2>4 DEF WsInv, TypeOK, Message
  <2>6. UnderWayNext(s)
    BY <1>0, <1>4, <2>1, <2>2, <2>4 DEF UnderWayNext, Inbox, Outbox, SinkQueue
  <2>7. PipeStep(s)
    BY <1>0, <2>1, <2>2, <2>4 DEF PipeStep, Receives
  <2>8. UnderWayNext(t) /\ PipeStep(t)
    BY <1>0, <1>1, <1>4, <2>1, <2>4, LeftAlone
  <2>. QED
    BY <1>0, <1>1, <1>6, <2>5, <2>6, <2>7, <2>8 DEF Kept
<1>9. CASE ~Skipped(m) /\ portal[s] # "up"
  <2>1. source' = [source EXCEPT ![s] = "ended"] /\ received' = received
    BY <1>0, <1>9 DEF LoopGets
  <2>2. source' \in [Side -> {"yields", "ended"}] /\ source'[s] = "ended" /\ source'[t] = source[t]
    BY <1>1, <1>2, <2>1
  <2>3. TypeOK'
    BY <1>0, <1>4, <2>1, <2>2 DEF WsInv, TypeOK, Message
  <2>4. UnderWayNext(s) /\ PipeStep(s)
    BY <1>0, <2>1, <2>2, LeftAlone
  <2>5. UnderWayNext(t) /\ PipeStep(t)
    BY <1>0, <1>1, <1>4, <2>1, <2>2, LeftAlone
  <2>. QED
    BY <1>0, <1>1, <1>6, <2>3, <2>4, <2>5 DEF Kept
<1>. QED
  BY <1>7, <1>8, <1>9

(* The event handler drops control messages and hands on the frames.       *)
LEMMA EwebsockEventKeeps ==
  ASSUME WsInv, EwebsockEvent
  PROVE  Kept
<1>. DEFINE m == Head(wire["client"])
<1>0. /\ library # "tungstenite"
      /\ wire["client"] # <<>>
      /\ wire' = [wire EXCEPT !["client"] = Tail(@)]
      /\ inbox' = IF Skipped(m) \/ source["client"] = "ended" THEN inbox ELSE Append(inbox, ToFrame(m))
      /\ UNCHANGED <<library, portal, source, link, pings, actor, running, outbox, handler, sent, received>>
  BY DEF EwebsockEvent, Ewebsock
<1>1. "client" \in Side /\ "server" \in Side /\ Peer("server") = "client" /\ Peer("client") = "server"
      /\ \A u \in Side : u = "client" \/ u = "server"
  BY Peers DEF Side
<1>2. /\ source \in [Side -> {"yields", "ended"}] /\ wire \in [Side -> Seq(Message)]
      /\ inbox \in Seq(Frame)
  BY DEF WsInv, TypeOK, Message
<1>3. Tail(wire["client"]) \in Seq(Message)
  BY <1>0, <1>1, <1>2, TailElements
<1>4. /\ wire' \in [Side -> Seq(Message)] /\ wire'["client"] = Tail(wire["client"])
      /\ wire'["server"] = wire["server"]
  BY <1>0, <1>1, <1>2, <1>3
<1>5. source["client"] \in {"yields", "ended"}
  BY <1>1, <1>2
<1>6. UnderWayNext("server") /\ PipeStep("server")
  BY <1>0, <1>1, <1>4, LeftAlone
<1>7. PipeStep("client")
  BY <1>0, <1>1 DEF PipeStep, Rests
<1>8. inbox' \in Seq(Frame) /\ UnderWayNext("client")
  <2>1. CASE source["client"] = "ended"
    BY <1>0, <1>2, <2>1 DEF UnderWayNext
  <2>2. CASE source["client"] = "yields"
    <3>1. PICK w \in Seq(Message) : w = wire["client"]
      BY <1>1, <1>2
    <3>2. PICK g \in Seq(Frame), a \in Seq(Frame) : g = received["client"] /\ a = sent["server"]
      BY <1>1, FlowOf
    <3>3. w # <<>> /\ Flow(g, inbox, w, a, Outbox("server"), SinkQueue("server"), link = "up")
      BY <1>0, <1>1, <2>2, <3>1, <3>2, FlowOf DEF Inbox
    <3>4. inbox' \in Seq(Frame) /\ Flow(g, inbox', Tail(w), a, Outbox("server"), SinkQueue("server"), link = "up")
      <4>1. CASE Skipped(Head(w))
        <5>1. inbox' = inbox
          BY <1>0, <3>1, <4>1
        <5>2. Flow(g, inbox, Tail(w), a, Outbox("server"), SinkQueue("server"), link = "up")
          BY <1>2, <3>3, <4>1, Ignored
        <5>. QED
          BY <1>2, <5>1, <5>2
      <4>2. CASE ~Skipped(Head(w))
        <5>1. inbox' = Append(inbox, ToFrame(Head(w)))
          BY <1>0, <2>2, <3>1, <4>2
        <5>2. /\ ToFrame(Head(w)) \in Frame
              /\ Flow(g, Append(inbox, ToFrame(Head(w))), Tail(w), a, Outbox("server"), SinkQueue("server"), link = "up")
          BY <1>2, <3>3, <4>2, HandedOver
        <5>3. Append(inbox, ToFrame(Head(w))) \in Seq(Frame)
          BY <1>2, <5>2, AppendElements
        <5>. QED
          BY <5>1, <5>2, <5>3
      <4>. QED
        BY <4>1, <4>2
    <3>5. UnderWayNext("client")
      BY <1>0, <1>1, <1>4, <3>1, <3>2, <3>4 DEF UnderWayNext, Outbox, SinkQueue
    <3>. QED
      BY <3>4, <3>5
  <2>. QED
    BY <1>5, <2>1, <2>2
<1>9. TypeOK'
  BY <1>0, <1>4, <1>8 DEF WsInv, TypeOK, Message
<1>. QED
  BY <1>0, <1>1, <1>6, <1>7, <1>8, <1>9 DEF Kept

(* The receive loop gets from the inbox, or ends with its portal.          *)
LEMMA EwebsockReceivesKeeps ==
  ASSUME WsInv, EwebsockReceives
  PROVE  Kept
<1>0. /\ source["client"] = "yields" /\ inbox # <<>>
      /\ inbox' = Tail(inbox)
      /\ LoopGets("client", Head(inbox))
      /\ UNCHANGED <<library, portal, link, wire, pings, actor, running, outbox, handler, sent>>
  BY DEF EwebsockReceives
<1>1. "client" \in Side /\ "server" \in Side /\ Peer("server") = "client" /\ Peer("client") = "server"
      /\ \A u \in Side : u = "client" \/ u = "server"
  BY Peers DEF Side
<1>2. /\ source \in [Side -> {"yields", "ended"}] /\ received \in [Side -> Seq(Frame)]
      /\ inbox \in Seq(Frame)
  BY DEF WsInv, TypeOK
<1>3. inbox' \in Seq(Frame)
  BY <1>0, <1>2, TailElements
<1>4. library # "tungstenite"
  BY <1>0 DEF WsInv, QueuesAreEwebsocks, Ewebsock
<1>5. CASE portal["client"] = "up"
  <2>1. received' = [received EXCEPT !["client"] = Append(@, Head(inbox))] /\ source' = source
    BY <1>0, <1>5 DEF LoopGets
  <2>2. /\ received["client"] \in Seq(Frame) /\ wire["client"] \in Seq(Message) /\ sent["server"] \in Seq(Frame)
        /\ Flow(received["client"], inbox, wire["client"], sent["server"], Outbox("server"),
                SinkQueue("server"), link = "up")
    BY <1>0, <1>1, FlowOf DEF Inbox
  <2>3. /\ Len(received["client"]) < Len(sent["server"])
        /\ Head(inbox) = sent["server"][Len(received["client"]) + 1]
        /\ Flow(Append(received["client"], Head(inbox)), Tail(inbox), wire["client"], sent["server"],
                Outbox("server"), SinkQueue("server"), link = "up")
    BY <1>0, <1>2, <2>2, Taken
  <2>4. Append(received["client"], Head(inbox)) \in Seq(Frame)
    BY <1>0, <1>2, <2>2, AppendElements, TailElements
  <2>5. /\ received' \in [Side -> Seq(Frame)]
        /\ received'["client"] = Append(received["client"], Head(inbox))
        /\ received'["server"] = received["server"]
    BY <1>1, <1>2, <2>1, <2>4
  <2>6. TypeOK'
    BY <1>0, <1>3, <2>1, <2>5 DEF WsInv, TypeOK
  <2>7. UnderWayNext("client")
    BY <1>0, <1>1, <2>1, <2>3, <2>5 DEF UnderWayNext, Outbox, SinkQueue
  <2>8. PipeStep("client")
    BY <1>0, <1>1, <2>1, <2>3, <2>5 DEF PipeStep, Receives
  <2>9. UnderWayNext("server") /\ PipeStep("server")
    BY <1>0, <1>1, <2>1, <2>5, LeftAlone
  <2>. QED
    BY <1>0, <1>1, <1>4, <2>6, <2>7, <2>8, <2>9 DEF Kept
<1>6. CASE portal["client"] # "up"
  <2>1. source' = [source EXCEPT !["client"] = "ended"] /\ received' = received
    BY <1>0, <1>6 DEF LoopGets
  <2>2. /\ source' \in [Side -> {"yields", "ended"}]
        /\ source'["client"] = "ended" /\ source'["server"] = source["server"]
    BY <1>1, <1>2, <2>1
  <2>3. TypeOK'
    BY <1>0, <1>3, <2>1, <2>2 DEF WsInv, TypeOK
  <2>4. UnderWayNext("client") /\ PipeStep("client")
    BY <1>0, <1>1, <2>1, <2>2, LeftAlone
  <2>5. UnderWayNext("server") /\ PipeStep("server")
    BY <1>0, <1>1, <2>1, <2>2, LeftAlone
  <2>. QED
    BY <1>0, <1>1, <1>4, <2>3, <2>4, <2>5 DEF Kept
<1>. QED
  BY <1>5, <1>6

(* A control message is on the wire and is no frame.                       *)
LEMMA PingsKeeps ==
  ASSUME WsInv, NEW s \in Side, Pings(s)
  PROVE  Kept
<1>. DEFINE t == Peer(s)
<1>0. /\ pings < MaxPings /\ pings' = pings + 1
      /\ wire' = [wire EXCEPT ![s] = Append(@, Ping)]
      /\ UNCHANGED <<library, portal, source, link, actor, running, outbox, inbox, handler, sent, received>>
  BY DEF Pings
<1>1. /\ t \in Side /\ t # s /\ Peer(t) = s /\ \A u \in Side : u = s \/ u = t
  BY Peers
<1>2. wire \in [Side -> Seq(Message)] /\ Ping \in Message
  BY DEF WsInv, TypeOK, Message
<1>3. Append(wire[s], Ping) \in Seq(Message)
  BY <1>2, AppendElements
<1>4. wire' \in [Side -> Seq(Message)] /\ wire'[s] = Append(wire[s], Ping) /\ wire'[t] = wire[t]
  BY <1>0, <1>1, <1>2, <1>3
<1>5. pings' \in 0 .. MaxPings
  BY <1>0, WebSocketAssumption DEF WsInv, TypeOK
<1>6. TypeOK'
  BY <1>0, <1>4, <1>5 DEF WsInv, TypeOK, Message
<1>7. UnderWayNext(t) /\ PipeStep(t)
  BY <1>0, <1>1, <1>4, LeftAlone
<1>8. UnderWayNext(s)
  <2>1. CASE source[s] # "yields"
    BY <1>0, <2>1 DEF UnderWayNext
  <2>2. CASE source[s] = "yields"
    <3>1. /\ wire[s] \in Seq(Message) /\ sent[t] \in Seq(Frame)
          /\ Flow(received[s], Inbox(s), wire[s], sent[t], Outbox(t), SinkQueue(t), link = "up")
      BY <2>2, FlowOf
    <3>2. Flow(received[s], Inbox(s), Append(wire[s], Ping), sent[t], Outbox(t), SinkQueue(t), link = "up")
      BY <3>1, Pinged
    <3>. QED
      BY <1>0, <1>4, <3>2 DEF UnderWayNext, Inbox, Outbox, SinkQueue
  <2>. QED
    BY <2>1, <2>2
<1>9. PipeStep(s)
  BY <1>0 DEF PipeStep, Rests
<1>10. library = "tungstenite" => inbox' = <<>> /\ outbox' = <<>> /\ actor' = <<>>
  BY <1>0 DEF WsInv, QueuesAreEwebsocks, Ewebsock
<1>. QED
  BY <1>0, <1>1, <1>6, <1>7, <1>8, <1>9, <1>10 DEF Kept

(* A link that breaks loses the end of what is on the wires.               *)
LEMMA LinkBreaksKeeps ==
  ASSUME WsInv, LinkBreaks
  PROVE  Kept
<1>0. /\ link' = "broken"
      /\ UNCHANGED <<library, portal, source, pings, actor, running, outbox, inbox, handler, sent, received>>
  BY DEF LinkBreaks
<1>1. PICK kept \in [Side -> 0 .. MaxFrames + MaxPings] :
        /\ \A s \in Side : kept[s] <= Len(wire[s])
        /\ wire' = [s \in Side |-> SubSeq(wire[s], 1, kept[s])]
  BY DEF LinkBreaks
<1>2. wire \in [Side -> Seq(Message)]
  BY DEF WsInv, TypeOK, Message
<1>3. ASSUME NEW s \in Side
      PROVE  kept[s] \in 0 .. Len(wire[s]) /\ SubSeq(wire[s], 1, kept[s]) \in Seq(Message)
  <2>1. wire[s] \in Seq(Message) /\ Len(wire[s]) \in Nat
    BY <1>2, LenProperties
  <2>2. kept[s] \in 0 .. Len(wire[s])
    BY <1>1, <2>1, WebSocketAssumption
  <2>. QED
    BY <2>1, <2>2, SubSeqProperties
<1>4. wire' \in [Side -> Seq(Message)]
  BY <1>1, <1>3
<1>5. TypeOK'
  BY <1>0, <1>4 DEF WsInv, TypeOK, Message
<1>6. ASSUME NEW s \in Side
      PROVE  UnderWayNext(s) /\ PipeStep(s)
  <2>1. CASE source[s] # "yields"
    BY <1>0, <2>1 DEF UnderWayNext, PipeStep, Rests
  <2>2. CASE source[s] = "yields"
    <3>1. /\ wire[s] \in Seq(Message) /\ sent[Peer(s)] \in Seq(Frame)
          /\ Flow(received[s], Inbox(s), wire[s], sent[Peer(s)], Outbox(Peer(s)), SinkQueue(Peer(s)), link = "up")
      BY <2>2, FlowOf
    <3>2. PICK k \in 0 .. Len(wire[s]) : k = kept[s] /\ wire'[s] = SubSeq(wire[s], 1, k)
      BY <1>1, <1>3
    <3>3. ~(link' = "up")
      BY <1>0
    <3>4. Flow(received[s], Inbox(s), SubSeq(wire[s], 1, k), sent[Peer(s)], Outbox(Peer(s)),
               SinkQueue(Peer(s)), link' = "up")
      BY <3>1, <3>3, Cut
    <3>5. UnderWayNext(s)
      BY <1>0, <3>2, <3>4 DEF UnderWayNext, Inbox, Outbox, SinkQueue
    <3>. QED
      BY <1>0, <3>5 DEF PipeStep, Rests
  <2>. QED
    BY <2>1, <2>2
<1>7. library = "tungstenite" => inbox' = <<>> /\ outbox' = <<>> /\ actor' = <<>>
  BY <1>0 DEF WsInv, QueuesAreEwebsocks, Ewebsock
<1>. QED
  BY <1>0, <1>5, <1>6, <1>7 DEF Kept

(* The other steps leave every queue alone, and may end a source. *)
LEMMA OthersKeep ==
  ASSUME WsInv, TypeOK',
         UNCHANGED <<library, link, wire, actor, outbox, inbox, sent, received>>,
         \A s \in Side : source'[s] = source[s] \/ source'[s] = "ended"
  PROVE  Kept
<1>1. source \in [Side -> {"yields", "ended"}]
  BY DEF WsInv, TypeOK
<1>2. ASSUME NEW s \in Side
      PROVE  UnderWayNext(s) /\ PipeStep(s)
  <2>1. source[s] \in {"yields", "ended"}
    BY <1>1
  <2>. QED
    BY <2>1, LeftAlone
<1>3. library = "tungstenite" => inbox' = <<>> /\ outbox' = <<>> /\ actor' = <<>>
  BY DEF WsInv, QueuesAreEwebsocks, Ewebsock
<1>. QED
  BY <1>2, <1>3 DEF Kept

(* The ends of sources, streams, handlers and portals move no frame.       *)
LEMMA ClosingKeeps ==
  ASSUME WsInv,
         \/ ActorRuns \/ EwebsockRefuses \/ EwebsockClosed \/ EwebsockEnds
         \/ \E s \in Side : TungsteniteEnds(s) \/ LoopClosesPortal(s) \/ AppStopsPortal(s)
  PROVE  Kept
<1>0. /\ portal \in [Side -> {"up", "down"}] /\ source \in [Side -> {"yields", "ended"}]
      /\ "client" \in Side
  BY DEF WsInv, TypeOK, Side
<1>1. CASE ActorRuns
  <2>1. /\ UNCHANGED <<library, portal, source, link, wire, pings, actor, outbox, inbox, handler, sent, received>>
        /\ running' = TRUE
    BY <1>1 DEF ActorRuns
  <2>2. TypeOK'
    BY <2>1 DEF WsInv, TypeOK
  <2>. QED
    BY <2>1, <2>2, OthersKeep
<1>2. CASE EwebsockRefuses
  <2>1. /\ UNCHANGED <<library, source, link, wire, pings, actor, running, outbox, inbox, handler, sent, received>>
        /\ portal' = [portal EXCEPT !["client"] = "down"]
    BY <1>2 DEF EwebsockRefuses
  <2>2. portal' \in [Side -> {"up", "down"}]
    BY <1>0, <2>1
  <2>3. TypeOK'
    BY <2>1, <2>2 DEF WsInv, TypeOK
  <2>. QED
    BY <2>1, <2>3, OthersKeep
<1>3. CASE EwebsockClosed
  <2>1. /\ UNCHANGED <<library, portal, source, link, wire, pings, actor, running, outbox, inbox, sent, received>>
        /\ handler' = FALSE
    BY <1>3 DEF EwebsockClosed
  <2>2. TypeOK'
    BY <2>1 DEF WsInv, TypeOK
  <2>. QED
    BY <2>1, <2>2, OthersKeep
<1>4. ASSUME NEW s \in Side, (EwebsockEnds /\ s = "client") \/ TungsteniteEnds(s)
      PROVE  Kept
  <2>1. /\ UNCHANGED <<library, portal, link, wire, pings, actor, running, outbox, inbox, handler, sent, received>>
        /\ source' = [source EXCEPT ![s] = "ended"]
    BY <1>4 DEF EwebsockEnds, TungsteniteEnds
  <2>2. /\ source' \in [Side -> {"yields", "ended"}]
        /\ \A u \in Side : source'[u] = source[u] \/ source'[u] = "ended"
    BY <1>0, <2>1
  <2>3. TypeOK'
    BY <2>1, <2>2 DEF WsInv, TypeOK
  <2>. QED
    BY <2>1, <2>2, <2>3, OthersKeep
<1>5. ASSUME NEW s \in Side, LoopClosesPortal(s) \/ AppStopsPortal(s)
      PROVE  Kept
  <2>1. /\ UNCHANGED <<library, source, link, wire, pings, actor, running, outbox, inbox, handler, sent, received>>
        /\ portal' = [portal EXCEPT ![s] = "down"]
    BY <1>5 DEF LoopClosesPortal, AppStopsPortal
  <2>2. portal' \in [Side -> {"up", "down"}]
    BY <1>0, <2>1
  <2>3. TypeOK'
    BY <2>1, <2>2 DEF WsInv, TypeOK
  <2>. QED
    BY <2>1, <2>3, OthersKeep
<1>. QED
  BY <1>0, <1>1, <1>2, <1>3, <1>4, <1>5

(* Every step keeps the flows. *)
LEMMA StepKeeps ==
  ASSUME WsInv, [Next]_vars
  PROVE  Kept
<1>1. CASE UNCHANGED vars
  <2>1. UNCHANGED <<library, portal, source, link, wire, pings, actor, running, outbox, inbox, handler,
                    sent, received>>
    BY <1>1 DEF vars
  <2>2. TypeOK'
    BY <2>1 DEF WsInv, TypeOK
  <2>. QED
    BY <2>1, <2>2, OthersKeep
<1>2. ASSUME NEW s \in Side, Tungstenite(s) \/ Pings(s) \/ AppStopsPortal(s)
      PROVE  Kept
  BY <1>2, TungsteniteReceivesKeeps, PingsKeeps, ClosingKeeps DEF Tungstenite
<1>3. ASSUME NEW s \in Side, NEW f \in Frame, TungsteniteSends(s, f)
      PROVE  Kept
  BY <1>3, TungsteniteSendsKeeps
<1>4. ASSUME NEW f \in Frame, EwebsockSends(f)
      PROVE  Kept
  BY <1>4, EwebsockSendsKeeps
<1>5. CASE SinkActor \/ EwebsockRefuses
  BY <1>5, SinkActorForwardsKeeps, ClosingKeeps DEF SinkActor
<1>6. CASE TaskSends
  BY <1>6, TaskSendsKeeps
<1>7. CASE Handler
  BY <1>7, EwebsockEventKeeps, ClosingKeeps DEF Handler
<1>8. CASE Source
  BY <1>8, EwebsockReceivesKeeps, ClosingKeeps DEF Source
<1>9. CASE LinkBreaks
  BY <1>9, LinkBreaksKeeps
<1>. QED
  BY <1>1, <1>2, <1>3, <1>4, <1>5, <1>6, <1>7, <1>8, <1>9 DEF Next

(* What a step keeps is the invariant of the next state. *)
LEMMA KeptIsInvariant ==
  ASSUME WsInv, Kept
  PROVE  WsInv'
<1>1. \A s \in Side : UnderWayNext(s)
  BY DEF Kept
<1>2. FramesInOrder'
  BY <1>1 DEF FramesInOrder, UnderWay, UnderWayNext, Inbox, Outbox, SinkQueue, Flow, UpTo, Follow, Numbers,
              Peer, Skipped, ToFrame, Ping
<1>3. TypeOK'
  BY DEF Kept
<1>4. QueuesAreEwebsocks'
  BY DEF Kept, QueuesAreEwebsocks, Ewebsock
<1>. QED
  BY <1>2, <1>3, <1>4 DEF WsInv

(* At first nothing is under way.                                          *)
LEMMA InitKeeps == Init => WsInv
<1>. SUFFICES ASSUME Init
              PROVE  WsInv
  OBVIOUS
<1>1. <<>> \in Seq(Frame) /\ <<>> \in Seq(Messages) /\ <<>> \in Seq(Messages \cup {Ping})
  BY EmptySeq
<1>2. TypeOK
  <2>1. 0 \in 0 .. MaxPings
    BY WebSocketAssumption
  <2>2. /\ wire \in [Side -> Seq(Messages \cup {Ping})]
        /\ sent \in [Side -> Seq(Frame)] /\ received \in [Side -> Seq(Frame)]
    BY <1>1 DEF Init
  <2>. QED
    BY <1>1, <2>1, <2>2 DEF Init, TypeOK
<1>3. ASSUME NEW s \in Side
      PROVE  UnderWay(s)
  <2>1. /\ received[s] = <<>> /\ Inbox(s) = <<>> /\ wire[s] = <<>> /\ sent[Peer(s)] = <<>>
        /\ Outbox(Peer(s)) = <<>> /\ SinkQueue(Peer(s)) = <<>>
    BY Peers DEF Init, Inbox, Outbox, SinkQueue
  <2>2. Flow(<<>>, <<>>, <<>>, <<>>, <<>>, <<>>, link = "up")
    BY NoFlowYet
  <2>. QED
    BY <2>1, <2>2 DEF UnderWay
<1>4. QueuesAreEwebsocks
  BY DEF Init, QueuesAreEwebsocks
<1>. QED
  BY <1>2, <1>3, <1>4 DEF WsInv, FramesInOrder

(* The state of the queues is of its types, and each flow is in order, in  *)
(* every state that a conduit over a WebSocket can reach.                  *)
THEOREM WebSocketInvariant == Spec => []WsInv
<1>1. WsInv /\ [Next]_vars => WsInv'
  BY StepKeeps, KeptIsInvariant
<1>. QED
  BY <1>1, InitKeeps, PTL DEF Spec

(* The variables are of their types. *)
THEOREM TypeCorrect == Spec => []TypeOK
<1>1. WsInv => TypeOK
  BY DEF WsInv
<1>. QED
  BY <1>1, WebSocketInvariant, PTL

(* Each direction of a conduit over a WebSocket is a pipe: the frames that *)
(* a portal gives to its sink come out of the other side's source in their *)
(* order, each once and whole, until the source ends, through the halves   *)
(* of a stream and through ewebsock's actors, channels, task and handler,  *)
(* with control messages among them and whenever the link breaks.          *)
THEOREM ConduitIsTwoPipes == Spec => ImplementsPipes
<1>1. Init => ToServer!Init /\ ToClient!Init
  BY DEF Init, ToServer!Init, ToClient!Init, Side
<1>2. WsInv /\ [Next]_vars => [ToServer!Next]_(ToServer!vars) /\ [ToClient!Next]_(ToClient!vars)
  <2>. SUFFICES ASSUME WsInv, [Next]_vars
                PROVE  [ToServer!Next]_(ToServer!vars) /\ [ToClient!Next]_(ToClient!vars)
    OBVIOUS
  <2>1. PipeStep("server") /\ PipeStep("client")
    BY StepKeeps DEF Kept, Side
  <2>2. [ToServer!Next]_(ToServer!vars)
    BY <2>1, Peers DEF PipeStep, Rests, Sends, Receives, Ends, ToServer!Next, ToServer!vars, ToServer!Send,
                       ToServer!Receive, ToServer!End
  <2>3. [ToClient!Next]_(ToClient!vars)
    BY <2>1, Peers DEF PipeStep, Rests, Sends, Receives, Ends, ToClient!Next, ToClient!vars, ToClient!Send,
                       ToClient!Receive, ToClient!End
  <2>. QED
    BY <2>2, <2>3
<1>. QED
  BY <1>1, <1>2, WebSocketInvariant, PTL DEF Spec, ImplementsPipes, ToServer!Spec, ToClient!Spec
=============================================================================
