-------------------------- MODULE ByteConduitProofs --------------------------
(***************************************************************************)
(* A conduit over a byte stream is what Portal.tla takes a conduit for     *)
(* (Pipe), up to the first frame whose length does not fit the u32 that    *)
(* the sink writes: for any payloads, any number of frames and any         *)
(* capacity of the transport, whatever breaks or is dropped, and wherever  *)
(* in a frame.                                                             *)
(***************************************************************************)
EXTENDS ByteConduit, TLAPS, SequenceTheorems, FiniteSetTheorems

(* Queues, position by position: they grow at their end and shrink at      *)
(* their head.                                                             *)

(* What is left of a queue, position by position, when its head is taken. *)
LEMMA TailElements ==
  ASSUME NEW S, NEW q \in Seq(S), q # <<>>
  PROVE  /\ Tail(q) \in Seq(S)
         /\ Len(q) \in Nat /\ Len(q) > 0
         /\ DOMAIN q = 1 .. Len(q)
         /\ 1 \in DOMAIN q /\ Head(q) = q[1] /\ Head(q) \in S
         /\ Len(Tail(q)) = Len(q) - 1
         /\ DOMAIN Tail(q) = 1 .. Len(q) - 1
         /\ \A i \in DOMAIN Tail(q) : /\ i \in Nat /\ i + 1 \in DOMAIN q /\ i + 1 # 1
                                      /\ Tail(q)[i] = q[i + 1] /\ Tail(q)[i] \in S
<1>1. Len(q) \in Nat /\ DOMAIN q = 1 .. Len(q) /\ Len(q) # 0
  BY EmptySeq, LenProperties
<1>2. /\ Tail(q) \in Seq(S)
      /\ Len(Tail(q)) = Len(q) - 1
      /\ \A i \in 1 .. Len(Tail(q)) : Tail(q)[i] = q[i + 1]
  BY HeadTailProperties
<1>3. DOMAIN Tail(q) = 1 .. Len(q) - 1
  BY <1>2, LenProperties
<1>4. Head(q) = q[1] /\ 1 \in DOMAIN q /\ q[1] \in S
  BY <1>1, ElementOfSeq
<1>5. \A i \in DOMAIN Tail(q) : Tail(q)[i] \in S
  BY <1>2, <1>3, ElementOfSeq
<1>. QED
  BY <1>1, <1>2, <1>3, <1>4, <1>5

(* What is in a queue, position by position, when an element of its type   *)
(* is appended.                                                            *)
LEMMA AppendElements ==
  ASSUME NEW S, NEW q \in Seq(S), NEW e \in S
  PROVE  /\ Append(q, e) \in Seq(S)
         /\ Append(q, e) # <<>>
         /\ DOMAIN q = 1 .. Len(q)
         /\ Len(q) \in Nat
         /\ Len(Append(q, e)) = Len(q) + 1
         /\ DOMAIN Append(q, e) = 1 .. Len(q) + 1
         /\ \A i \in DOMAIN q : Append(q, e)[i] = q[i]
         /\ Append(q, e)[Len(q) + 1] = e
<1>1. Len(q) \in Nat /\ DOMAIN q = 1 .. Len(q)
  BY LenProperties
<1>2. /\ Append(q, e) \in Seq(S)
      /\ Append(q, e) # <<>>
      /\ Len(Append(q, e)) = Len(q) + 1
      /\ \A i \in 1 .. Len(q) : Append(q, e)[i] = q[i]
      /\ Append(q, e)[Len(q) + 1] = e
  BY AppendProperties
<1>3. DOMAIN Append(q, e) = 1 .. Len(q) + 1
  BY <1>2, LenProperties
<1>. QED
  BY <1>1, <1>2, <1>3

(* The same, for an element of any type. *)
LEMMA AppendPositions ==
  ASSUME NEW S, NEW q \in Seq(S), NEW e
  PROVE  /\ Append(q, e) # <<>>
         /\ Len(q) \in Nat
         /\ Len(Append(q, e)) = Len(q) + 1
         /\ DOMAIN q = 1 .. Len(q)
         /\ DOMAIN Append(q, e) = 1 .. Len(q) + 1
         /\ DOMAIN Append(q, e) = DOMAIN q \cup {Len(q) + 1}
         /\ Len(q) + 1 \notin DOMAIN q
         /\ \A i \in DOMAIN q : Append(q, e)[i] = q[i] /\ q[i] \in S
         /\ Append(q, e)[Len(q) + 1] = e
<1>1. q \in Seq(S \cup {e})
  BY LenProperties
<1>2. \A i \in DOMAIN q : q[i] \in S
  BY LenProperties, ElementOfSeq
<1>. QED
  BY <1>1, <1>2, AppendElements

(* What stands in a queue is of its type. *)
LEMMA EachElement ==
  ASSUME NEW S, NEW q \in Seq(S)
  PROVE  \A i \in DOMAIN q : q[i] \in S
BY ElementOfSeq, LenProperties

(* A queue that is not there has no positions. *)
LEMMA NoElements ==
  ASSUME NEW S
  PROVE  <<>> \in Seq(S) /\ DOMAIN <<>> = {} /\ Len(<<>>) = 0
BY EmptySeq
-----------------------------------------------------------------------------

Place == Nat \X Nat

(* What is after a place is a place. *)
LEMMA AfterIsPlace ==
  ASSUME NEW all \in Seq(Frame), NEW p \in Place
  PROVE  After(all, p) \in Place
BY DEF After, Place
-----------------------------------------------------------------------------
(* What steps do to the words between two places. *)

(* Words are in order up to where they start. *)
LEMMA NoWords ==
  ASSUME NEW p \in Place, NEW w, NEW all
  PROVE  UpTo(p, 0, p, w, all)
<1>. DEFINE n == [i \in 0 .. 0 |-> p]
<1>1. n \in [0 .. 0 -> Nat \X Nat] /\ n[0] = p
  BY DEF Place
<1>2. \A i \in 1 .. 0 : FALSE
  OBVIOUS
<1>. QED
  BY <1>1, <1>2 DEF UpTo

(* The places of the words do not change when a frame is sent. *)
LEMMA WordsWhenSent ==
  ASSUME NEW all \in Seq(Frame), NEW f \in Frame, NEW w, NEW from, NEW p, NEW c \in Nat,
         UpTo(p, c, from, w, all)
  PROVE  UpTo(p, c, from, w, Append(all, f))
<1>1. PICK n \in [0 .. c -> Nat \X Nat] :
        /\ n[0] = from /\ n[c] = p
        /\ \A i \in 1 .. c : /\ n[i - 1][1] \in DOMAIN all
                             /\ w[i] = WordOf(all[n[i - 1][1]], n[i - 1][2])
                             /\ n[i] = After(all, n[i - 1])
  BY DEF UpTo
<1>2. PICK a : a = Append(all, f)
  OBVIOUS
<1>3. \A k \in DOMAIN all : k \in DOMAIN a /\ a[k] = all[k]
  BY <1>2, AppendElements
<1>4. ASSUME NEW i \in 1 .. c
      PROVE  /\ n[i - 1][1] \in DOMAIN a
             /\ w[i] = WordOf(a[n[i - 1][1]], n[i - 1][2])
             /\ n[i] = After(a, n[i - 1])
  <2>1. n[i - 1][1] \in DOMAIN a /\ a[n[i - 1][1]] = all[n[i - 1][1]]
    BY <1>1, <1>3
  <2>2. After(a, n[i - 1]) = After(all, n[i - 1])
    BY <2>1 DEF After
  <2>. QED
    BY <1>1, <2>1, <2>2
<1>. QED
  BY <1>1, <1>2, <1>4 DEF UpTo

(* The word of the next place is written. *)
LEMMA WordsGrow ==
  ASSUME NEW all \in Seq(Frame), NEW w \in Seq(Word), NEW x \in Word, NEW from, NEW p \in Place,
         UpTo(p, Len(w), from, w, all),
         p[1] \in DOMAIN all, x = WordOf(all[p[1]], p[2])
  PROVE  UpTo(After(all, p), Len(Append(w, x)), from, Append(w, x), all)
<1>1. PICK n \in [0 .. Len(w) -> Nat \X Nat] :
        /\ n[0] = from /\ n[Len(w)] = p
        /\ \A i \in 1 .. Len(w) : /\ n[i - 1][1] \in DOMAIN all
                                  /\ w[i] = WordOf(all[n[i - 1][1]], n[i - 1][2])
                                  /\ n[i] = After(all, n[i - 1])
  BY DEF UpTo
<1>2. PICK v : v = Append(w, x)
  OBVIOUS
<1>3. PICK l \in Nat : l = Len(w)
  BY LenProperties
<1>4. /\ Len(v) = l + 1
      /\ \A i \in 1 .. l : v[i] = w[i]
      /\ v[l + 1] = x
  BY <1>2, <1>3, AppendElements
<1>5. PICK q \in Nat \X Nat : q = After(all, p)
  BY AfterIsPlace DEF Place
<1>. DEFINE m == [i \in 0 .. l + 1 |-> IF i = l + 1 THEN q ELSE n[i]]
<1>6. m \in [0 .. l + 1 -> Nat \X Nat]
  BY <1>3
<1>7. /\ m[l + 1] = q /\ m[0] = n[0] /\ m[l] = n[l] /\ m[(l + 1) - 1] = p
      /\ \A i \in 1 .. l : m[i] = n[i] /\ m[i - 1] = n[i - 1]
  BY <1>1, <1>3
<1>. HIDE DEF m
<1>8. ASSUME NEW i \in 1 .. l + 1
      PROVE  /\ m[i - 1][1] \in DOMAIN all
             /\ v[i] = WordOf(all[m[i - 1][1]], m[i - 1][2])
             /\ m[i] = After(all, m[i - 1])
  <2>1. CASE i \in 1 .. l
    BY <1>1, <1>3, <1>4, <1>7, <2>1
  <2>2. CASE i = l + 1
    BY <1>4, <1>5, <1>7, <2>2
  <2>. QED
    BY <2>1, <2>2
<1>9. UpTo(q, l + 1, from, v, all)
  BY <1>1, <1>6, <1>7, <1>8 DEF UpTo
<1>. QED
  BY <1>2, <1>4, <1>5, <1>9

(* The first word is read. *)
LEMMA WordsAreRead ==
  ASSUME NEW all \in Seq(Frame), NEW w \in Seq(Word), w # <<>>, NEW from \in Place, NEW p,
         NEW c \in 0 .. Len(w), c # 0,
         UpTo(p, c, from, w, all)
  PROVE  /\ from[1] \in DOMAIN all
         /\ Head(w) = WordOf(all[from[1]], from[2])
         /\ c - 1 \in 0 .. Len(Tail(w))
         /\ UpTo(p, c - 1, After(all, from), Tail(w), all)
<1>1. PICK n \in [0 .. c -> Nat \X Nat] :
        /\ n[0] = from /\ n[c] = p
        /\ \A i \in 1 .. c : /\ n[i - 1][1] \in DOMAIN all
                             /\ w[i] = WordOf(all[n[i - 1][1]], n[i - 1][2])
                             /\ n[i] = After(all, n[i - 1])
  BY DEF UpTo
<1>2. PICK v : v = Tail(w)
  OBVIOUS
<1>3. /\ Len(w) \in Nat /\ Head(w) = w[1] /\ Len(v) = Len(w) - 1
      /\ \A i \in 1 .. Len(w) - 1 : v[i] = w[i + 1]
  BY <1>2, TailElements
<1>4. c \in Nat /\ 1 \in 1 .. c /\ 1 - 1 = 0 /\ c - 1 \in 0 .. Len(v) /\ c - 1 \in Nat
  BY <1>3
<1>5. /\ n[1 - 1][1] \in DOMAIN all
      /\ w[1] = WordOf(all[n[1 - 1][1]], n[1 - 1][2])
      /\ n[1] = After(all, n[1 - 1])
  BY <1>1, <1>4
<1>6. n[1 - 1] = from
  BY <1>1, <1>4
<1>7. from[1] \in DOMAIN all /\ Head(w) = WordOf(all[from[1]], from[2]) /\ n[1] = After(all, from)
  BY <1>3, <1>5, <1>6
<1>. DEFINE m == [i \in 0 .. c - 1 |-> n[i + 1]]
<1>8. m \in [0 .. c - 1 -> Nat \X Nat]
  BY <1>4
<1>9. m[0] = n[1] /\ m[c - 1] = n[c] /\ \A i \in 1 .. c - 1 : m[i] = n[i + 1] /\ m[i - 1] = n[i]
  BY <1>4
<1>. HIDE DEF m
<1>10. ASSUME NEW i \in 1 .. c - 1
       PROVE  /\ m[i - 1][1] \in DOMAIN all
              /\ v[i] = WordOf(all[m[i - 1][1]], m[i - 1][2])
              /\ m[i] = After(all, m[i - 1])
  <2>1. PICK j \in 1 .. c : j = i + 1 /\ j - 1 = i
    BY <1>4
  <2>2. i \in 1 .. Len(w) - 1
    BY <1>3, <1>4
  <2>3. v[i] = w[j] /\ m[i] = n[j] /\ m[i - 1] = n[j - 1]
    BY <1>3, <1>9, <2>1, <2>2
  <2>. QED
    BY <1>1, <2>3
<1>11. UpTo(p, c - 1, After(all, from), v, all)
  BY <1>1, <1>7, <1>8, <1>9, <1>10 DEF UpTo
<1>. QED
  BY <1>2, <1>4, <1>7, <1>11

(* The end of what is in transit is lost. *)
LEMMA WordsAreCut ==
  ASSUME NEW all, NEW w \in Seq(Word), NEW from, NEW p, NEW c \in 0 .. Len(w),
         UpTo(p, c, from, w, all), NEW k \in 0 .. Len(w), k <= c
  PROVE  \E q \in Nat \X Nat : UpTo(q, k, from, SubSeq(w, 1, k), all)
<1>1. PICK n \in [0 .. c -> Nat \X Nat] :
        /\ n[0] = from /\ n[c] = p
        /\ \A i \in 1 .. c : /\ n[i - 1][1] \in DOMAIN all
                             /\ w[i] = WordOf(all[n[i - 1][1]], n[i - 1][2])
                             /\ n[i] = After(all, n[i - 1])
  BY DEF UpTo
<1>2. PICK v : v = SubSeq(w, 1, k)
  OBVIOUS
<1>3. Len(w) \in Nat /\ \A i \in 1 .. k : v[i] = w[i]
  BY <1>2, LenProperties, SubSeqProperties
<1>. DEFINE m == [i \in 0 .. k |-> n[i]]
<1>4. /\ 0 .. k \subseteq 0 .. c /\ 1 .. k \subseteq 1 .. c /\ k \in 0 .. k /\ 0 \in 0 .. k
      /\ \A i \in 1 .. k : i \in 0 .. k /\ i - 1 \in 0 .. k
  BY <1>3
<1>5. m \in [0 .. k -> Nat \X Nat]
  BY <1>4
<1>6. m[0] = n[0] /\ \A i \in 1 .. k : m[i] = n[i] /\ m[i - 1] = n[i - 1]
  BY <1>4
<1>. HIDE DEF m
<1>7. PICK q \in Nat \X Nat : q = m[k]
  BY <1>4, <1>5
<1>8. ASSUME NEW i \in 1 .. k
      PROVE  /\ m[i - 1][1] \in DOMAIN all
             /\ v[i] = WordOf(all[m[i - 1][1]], m[i - 1][2])
             /\ m[i] = After(all, m[i - 1])
  BY <1>1, <1>3, <1>4, <1>6
<1>9. UpTo(q, k, from, v, all)
  BY <1>1, <1>5, <1>6, <1>7, <1>8 DEF UpTo
<1>. QED
  BY <1>2, <1>9
-----------------------------------------------------------------------------
(* The same of all that is in transit.  The sink writes the next word.     *)
LEMMA AheadWritten ==
  ASSUME NEW from, NEW w \in Seq(Word), NEW all \in Seq(Frame), NEW next \in Place, NEW goesOn, goesOn,
         Ahead(from, w, all, next, goesOn),
         next[1] \in DOMAIN all, NEW x \in Word, x = WordOf(all[next[1]], next[2])
  PROVE  Ahead(from, Append(w, x), all, After(all, next), goesOn)
<1>1. UpTo(next, Len(w), from, w, all)
  BY DEF Ahead
<1>2. UpTo(After(all, next), Len(Append(w, x)), from, Append(w, x), all)
  BY <1>1, WordsGrow
<1>3. After(all, next) \in Nat \X Nat
  BY AfterIsPlace DEF Place
<1>. QED
  BY <1>2, <1>3 DEF Ahead

(* A frame is given to the sink. *)
LEMMA AheadSent ==
  ASSUME NEW from, NEW w \in Seq(Word), NEW all \in Seq(Frame), NEW next, NEW goesOn, NEW f \in Frame,
         Ahead(from, w, all, next, goesOn)
  PROVE  Ahead(from, w, Append(all, f), next, goesOn)
<1>1. PICK p \in Nat \X Nat : UpTo(p, Len(w), from, w, all) /\ (goesOn => p = next)
  BY DEF Ahead
<1>2. UpTo(p, Len(w), from, w, Append(all, f))
  <2>1. Len(w) \in Nat
    BY LenProperties
  <2>. QED
    BY <1>1, <2>1, WordsWhenSent
<1>. QED
  BY <1>1, <1>2 DEF Ahead

(* Nothing more is written. *)
LEMMA AheadStopped ==
  ASSUME NEW from, NEW w, NEW all, NEW next, NEW goesOn,
         Ahead(from, w, all, next, goesOn),
         NEW next2, NEW goesOn2, ~goesOn2
  PROVE  Ahead(from, w, all, next2, goesOn2)
BY DEF Ahead

(* And the end of what was written is lost. *)
LEMMA AheadCut ==
  ASSUME NEW from, NEW w \in Seq(Word), NEW all, NEW next, NEW goesOn,
         Ahead(from, w, all, next, goesOn),
         NEW k \in 0 .. Len(w), NEW goesOn2, ~goesOn2
  PROVE  Ahead(from, SubSeq(w, 1, k), all, next, goesOn2)
<1>1. PICK c \in 0 .. Len(w) : c = Len(w)
  BY LenProperties
<1>2. PICK p \in Nat \X Nat : UpTo(p, c, from, w, all)
  BY <1>1 DEF Ahead
<1>3. PICK v : v = SubSeq(w, 1, k)
  OBVIOUS
<1>4. Len(v) = k /\ k <= c
  BY <1>1, <1>3, LenProperties, SubSeqProperties
<1>5. PICK q \in Nat \X Nat : UpTo(q, k, from, v, all)
  BY <1>2, <1>3, <1>4, WordsAreCut
<1>. QED
  BY <1>3, <1>4, <1>5 DEF Ahead

(* The source reads the word at its place. *)
LEMMA AheadRead ==
  ASSUME NEW from \in Place, NEW w \in Seq(Word), w # <<>>, NEW all \in Seq(Frame), NEW next, NEW goesOn,
         Ahead(from, w, all, next, goesOn)
  PROVE  /\ from[1] \in DOMAIN all
         /\ Head(w) = WordOf(all[from[1]], from[2])
         /\ Ahead(After(all, from), Tail(w), all, next, goesOn)
<1>1. PICK c \in 0 .. Len(w) : c = Len(w)
  BY LenProperties
<1>2. PICK p \in Nat \X Nat : UpTo(p, c, from, w, all) /\ (goesOn => p = next)
  BY <1>1 DEF Ahead
<1>3. PICK v : v = Tail(w)
  OBVIOUS
<1>4. Len(w) \in Nat /\ Len(w) > 0 /\ Len(v) = Len(w) - 1
  BY <1>3, TailElements
<1>5. c # 0 /\ c - 1 = Len(v)
  BY <1>1, <1>4
<1>6. /\ from[1] \in DOMAIN all
      /\ Head(w) = WordOf(all[from[1]], from[2])
      /\ UpTo(p, c - 1, After(all, from), v, all)
  BY <1>2, <1>3, <1>5, WordsAreRead
<1>. QED
  BY <1>2, <1>3, <1>5, <1>6 DEF Ahead
-----------------------------------------------------------------------------
(* What makes the refinement inductive, and what a step has to keep of it. *)
ByteInv ==
  TypeOK /\ SinkWritesLast /\ SourceStartsEmpty /\ WordsInOrder /\ YieldsAreSent /\ SoundIsPrefix

AheadNext == Ahead(ToRead', stream', sent', ToWrite', writer' = "ready" /\ link' = "up")

Kept ==
  /\ TypeOK' /\ SinkWritesLast' /\ SourceStartsEmpty'
  /\ OnTrack' => ReadsNext' /\ AheadNext
  /\ YieldsAreSent'
  /\ sent' = sent \/ SoundIsPrefix'

(* A frame, and the words it is written as. *)
LEMMA Frames ==
  \A f \in Frame :
       /\ f = [type |-> f.type, data |-> f.data]
       /\ f.type \in {"Handshake", "Content"} /\ f.data \in Seq(Word) /\ Len(f.data) \in Nat
       /\ f.type = "Handshake" => f.data \in Text
       /\ TypeByte[f.type] \in Word
       /\ TypeByte[f.type] = IF f.type = "Handshake" THEN 0 ELSE 1
       /\ WrittenLength(f.data) \in Word
       /\ Len(f.data) < Modulus => WrittenLength(f.data) = Len(f.data)
<1>1. Modulus \in Nat /\ Modulus > 1 /\ Data \subseteq Seq(Word) /\ Text \subseteq Data
  BY ByteConduitAssumption
<1>2. 0 \in Word /\ 1 \in Word
  BY <1>1 DEF Word
<1>3. ASSUME NEW f \in Frame
      PROVE  /\ f = [type |-> f.type, data |-> f.data]
             /\ f.type \in {"Handshake", "Content"} /\ f.data \in Seq(Word)
             /\ f.type = "Handshake" => f.data \in Text
  <2>1. CASE f \in [type : {"Handshake"}, data : Text]
    BY <1>1, <2>1
  <2>2. CASE f \in [type : {"Content"}, data : Data]
    BY <1>1, <2>2
  <2>. QED
    BY <2>1, <2>2 DEF Frame
<1>4. ASSUME NEW f \in Frame
      PROVE  /\ TypeByte[f.type] \in Word
             /\ TypeByte[f.type] = IF f.type = "Handshake" THEN 0 ELSE 1
  BY <1>1, <1>3 DEF TypeByte, Word
<1>5. ASSUME NEW f \in Frame
      PROVE  /\ Len(f.data) \in Nat
             /\ WrittenLength(f.data) \in Word
             /\ Len(f.data) < Modulus => WrittenLength(f.data) = Len(f.data)
  <2>1. PICK l \in Nat : l = Len(f.data)
    BY <1>3, LenProperties
  <2>2. l % Modulus \in 0 .. Modulus - 1 /\ (l < Modulus => l % Modulus = l)
    BY <1>1
  <2>. QED
    BY <2>1, <2>2 DEF WrittenLength, Word
<1>. QED
  BY <1>2, <1>3, <1>4, <1>5

(* The variables, of their types. *)
LEMMA Typed ==
  ASSUME ByteInv
  PROVE  /\ stream \in Seq(Word) /\ sent \in Seq(Frame)
         /\ Len(sent) \in Nat /\ DOMAIN sent = 1 .. Len(sent) /\ \A i \in DOMAIN sent : sent[i] \in Frame
         /\ Len(received) \in Nat
         /\ reading.data \in Seq(Word) /\ Len(reading.data) \in Nat /\ reading.length \in Nat
         /\ Len(reading.data) <= reading.length
         /\ reading.stage \in {"type", "length", "data"}
         /\ reading = [stage |-> reading.stage, type |-> reading.type, length |-> reading.length,
                       data |-> reading.data]
         /\ writing.stage \in {"none", "type", "length", "data"}
         /\ writing.rest \in Seq(Word) /\ Len(writing.rest) \in Nat
         /\ writing = [stage |-> writing.stage, frame |-> writing.frame, rest |-> writing.rest]
<1>1. /\ stream \in Seq(Word) /\ sent \in Seq(Frame)
      /\ received \in Seq([type : {"Handshake", "Content"}, data : Seq(Word)])
      /\ reading \in [stage : {"type", "length", "data"}, type : Word, length : Word, data : Seq(Word)]
      /\ Len(reading.data) <= reading.length
      /\ writing \in [stage : {"none", "type", "length", "data"}, frame : Frame \cup {None},
                      rest : Seq(Word)]
  BY DEF ByteInv, TypeOK
<1>2. /\ reading.data \in Seq(Word) /\ reading.length \in Word
      /\ reading.stage \in {"type", "length", "data"}
      /\ reading = [stage |-> reading.stage, type |-> reading.type, length |-> reading.length,
                    data |-> reading.data]
  BY <1>1
<1>3. /\ writing.stage \in {"none", "type", "length", "data"} /\ writing.rest \in Seq(Word)
      /\ writing = [stage |-> writing.stage, frame |-> writing.frame, rest |-> writing.rest]
  BY <1>1
<1>4. reading.length \in Nat
  BY <1>2, ByteConduitAssumption DEF Word
<1>. QED
  BY <1>1, <1>2, <1>3, <1>4, LenProperties, EachElement

(* While the sink writes, it writes the last frame that it was given. *)
LEMMA LastFrame ==
  ASSUME ByteInv, writing.stage # "none"
  PROVE  /\ Len(sent) \in DOMAIN sent /\ sent[Len(sent)] \in Frame
         /\ writing.frame = sent[Len(sent)]
         /\ Len(writing.rest) <= Len(sent[Len(sent)].data)
         /\ writing.stage # "data" => Len(writing.rest) = Len(sent[Len(sent)].data)
         /\ \A i \in DOMAIN writing.rest :
              writing.rest[i] = sent[Len(sent)].data[Len(sent[Len(sent)].data) - Len(writing.rest) + i]
<1>1. SinkWritesLast
  BY DEF ByteInv
<1>2. sent # <<>>
  BY <1>1 DEF SinkWritesLast
<1>3. Len(sent) \in DOMAIN sent
  BY <1>2, Typed, TailElements
<1>. QED
  BY <1>1, <1>3, Typed DEF SinkWritesLast

(* The source reads, and the sink writes, at places.                       *)
LEMMA PlacesTyped ==
  ASSUME ByteInv
  PROVE  ToRead \in Place /\ ToWrite \in Place
<1>1. ToRead \in Place
  BY Typed DEF ToRead, Place
<1>2. CASE writing.stage = "data" /\ writing.rest # <<>>
  <2>1. PICK l \in Nat, r \in Nat, s \in Nat : /\ l = Len(sent[Len(sent)].data) /\ r = Len(writing.rest)
                                              /\ s = Len(sent) /\ r <= l
    BY <1>2, LastFrame, Typed, Frames
  <2>2. ToWrite = <<s, (l + 2) + 1 - r>>
    BY <1>2, <2>1 DEF ToWrite, Total
  <2>3. r <= l
    BY <2>1
  <2>4. PICK y \in Nat : y = (l + 2) + 1 - r
    BY <2>3
  <2>. QED
    BY <1>1, <2>2, <2>4 DEF Place
<1>3. CASE ~(writing.stage = "data" /\ writing.rest # <<>>)
  <2>1. PICK s \in Nat : s = Len(sent)
    BY Typed
  <2>2. ToWrite = <<s, 1>> \/ ToWrite = <<s, 2>> \/ ToWrite = <<s + 1, 1>>
    BY <1>3, <2>1 DEF ToWrite
  <2>. QED
    BY <1>1, <2>2 DEF Place
<1>. QED
  BY <1>1, <1>2, <1>3

(* What a step of the sink leaves alone keeps its part. *)
LEMMA SourceUntouched ==
  ASSUME ByteInv, UNCHANGED <<reading, received, source, sent>>
  PROVE  /\ SourceStartsEmpty' /\ YieldsAreSent'
         /\ ToRead' = ToRead
         /\ OnTrack' => OnTrack /\ ReadsNext' /\ Ahead(ToRead, stream, sent, ToWrite, writer = "ready" /\ link = "up")
<1>1. SourceStartsEmpty'
  BY DEF ByteInv, SourceStartsEmpty
<1>2. YieldsAreSent'
  BY DEF ByteInv, YieldsAreSent, Straight
<1>3. ToRead' = ToRead
  BY DEF ToRead, NeedsData
<1>4. OnTrack' => OnTrack
  BY DEF OnTrack, Straight
<1>5. OnTrack => ReadsNext /\ Ahead(ToRead, stream, sent, ToWrite, writer = "ready" /\ link = "up")
  BY DEF ByteInv, WordsInOrder
<1>6. ReadsNext => ReadsNext'
  BY DEF ReadsNext, TypeByte
<1>. QED
  BY <1>1, <1>2, <1>3, <1>4, <1>5, <1>6
-----------------------------------------------------------------------------
(* A word of the last frame is written. *)
LEMMA WordWritten ==
  ASSUME ByteInv, NEW x \in Word, Writes(x),
         writing' \in [stage : {"none", "type", "length", "data"}, frame : Frame \cup {None}, rest : Seq(Word)],
         SinkWritesLast',
         ToWrite[1] \in DOMAIN sent, x = WordOf(sent[ToWrite[1]], ToWrite[2]),
         ToWrite' = After(sent, ToWrite)
  PROVE  Kept
<1>1. /\ writer = "ready" /\ link = "up" /\ Len(stream) < Capacity
      /\ stream' = Append(stream, x)
      /\ UNCHANGED <<ends, writer, link, reading, source, sent, received>>
  BY DEF Writes
<1>2. stream' \in Seq(Word) /\ Len(stream') = Len(stream) + 1 /\ Len(stream) \in Nat
  BY <1>1, Typed, AppendElements
<1>3. Len(stream') <= Capacity
  BY <1>1, <1>2, ByteConduitAssumption
<1>4. TypeOK'
  BY <1>1, <1>2, <1>3 DEF ByteInv, TypeOK
<1>5. ASSUME OnTrack'
      PROVE  ReadsNext' /\ AheadNext
  <2>1. ReadsNext' /\ ToRead' = ToRead /\ Ahead(ToRead, stream, sent, ToWrite, writer = "ready" /\ link = "up")
    BY <1>1, <1>5, SourceUntouched
  <2>2. PICK next \in Place : next = ToWrite
    BY PlacesTyped
  <2>3. Ahead(ToRead, Append(stream, x), sent, After(sent, next), writer = "ready" /\ link = "up")
    BY <1>1, <2>1, <2>2, Typed, AheadWritten
  <2>. QED
    BY <1>1, <2>1, <2>2, <2>3 DEF AheadNext
<1>. QED
  BY <1>1, <1>4, <1>5, SourceUntouched DEF Kept

(* It may be the type of the frame,                                        *)
LEMMA SinkWritesTypeKeeps ==
  ASSUME ByteInv, SinkWritesType
  PROVE  Kept
<1>. DEFINE s == Len(sent)
            f == sent[s]
<1>1. /\ writing.stage = "type"
      /\ Writes(TypeByte[writing.frame.type])
      /\ writing' = [writing EXCEPT !.stage = "length"]
      /\ sent' = sent
  BY DEF SinkWritesType, Writes
<1>2. /\ s \in DOMAIN sent /\ f \in Frame /\ writing.frame = f
      /\ Len(writing.rest) = Len(f.data)
      /\ \A i \in DOMAIN writing.rest : writing.rest[i] = f.data[Len(f.data) - Len(writing.rest) + i]
  BY <1>1, LastFrame
<1>3. /\ writing \in [stage : {"none", "type", "length", "data"}, frame : Frame \cup {None}, rest : Seq(Word)]
      /\ writing' = [stage |-> "length", frame |-> writing.frame, rest |-> writing.rest]
  BY <1>1 DEF ByteInv, TypeOK
<1>4. writing' \in [stage : {"none", "type", "length", "data"}, frame : Frame \cup {None}, rest : Seq(Word)]
  BY <1>3
<1>5. writing'.stage = "length" /\ writing'.frame = writing.frame /\ writing'.rest = writing.rest
  BY <1>3
<1>6. SinkWritesLast'
  BY <1>1, <1>2, <1>5 DEF ByteInv, SinkWritesLast
<1>7. PICK x \in Word : x = TypeByte[f.type]
  BY <1>2, Frames
<1>8. ToWrite = <<s, 1>> /\ ToWrite' = <<s, 2>>
  BY <1>1, <1>5 DEF ToWrite
<1>9. x = WordOf(sent[ToWrite[1]], ToWrite[2])
  BY <1>7, <1>8 DEF WordOf
<1>10. ToWrite' = After(sent, ToWrite)
  <2>1. Len(f.data) \in Nat
    BY <1>2, Frames
  <2>2. 1 < Len(f.data) + 2
    BY <2>1
  <2>. QED
    BY <1>8, <2>2 DEF After, Total
<1>11. Writes(x)
  BY <1>1, <1>2, <1>7
<1>. QED
  BY <1>2, <1>4, <1>6, <1>8, <1>9, <1>10, <1>11, WordWritten

(* its length, behind which there is data or the next frame,               *)
LEMMA SinkWritesLengthKeeps ==
  ASSUME ByteInv, SinkWritesLength
  PROVE  Kept
<1>. DEFINE s == Len(sent)
            f == sent[s]
<1>1. /\ writing.stage = "length"
      /\ Writes(WrittenLength(writing.frame.data))
      /\ writing' = [writing EXCEPT !.stage = "data"]
      /\ sent' = sent
  BY DEF SinkWritesLength, Writes
<1>2. /\ s \in DOMAIN sent /\ f \in Frame /\ writing.frame = f
      /\ Len(writing.rest) = Len(f.data)
      /\ \A i \in DOMAIN writing.rest : writing.rest[i] = f.data[Len(f.data) - Len(writing.rest) + i]
  BY <1>1, LastFrame
<1>3. /\ writing \in [stage : {"none", "type", "length", "data"}, frame : Frame \cup {None}, rest : Seq(Word)]
      /\ writing' = [stage |-> "data", frame |-> writing.frame, rest |-> writing.rest]
  BY <1>1 DEF ByteInv, TypeOK
<1>4. writing' \in [stage : {"none", "type", "length", "data"}, frame : Frame \cup {None}, rest : Seq(Word)]
  BY <1>3
<1>5. writing'.stage = "data" /\ writing'.frame = writing.frame /\ writing'.rest = writing.rest
  BY <1>3
<1>6. SinkWritesLast'
  BY <1>1, <1>2, <1>5 DEF ByteInv, SinkWritesLast
<1>7. PICK x \in Word : x = WrittenLength(f.data)
  BY <1>2, Frames
<1>8. ToWrite = <<s, 2>>
  BY <1>1 DEF ToWrite
<1>9. x = WordOf(sent[ToWrite[1]], ToWrite[2])
  BY <1>7, <1>8 DEF WordOf
<1>10. PICK l \in Nat : l = Len(f.data) /\ l = Len(writing.rest)
  BY <1>2, Frames
<1>11. ToWrite' = After(sent, ToWrite)
  <2>1. After(sent, ToWrite) = IF 2 < l + 2 THEN <<s, 2 + 1>> ELSE <<s + 1, 1>>
    BY <1>8, <1>10 DEF After, Total
  <2>2. CASE writing.rest # <<>>
    <3>1. l > 0
      BY <1>10, <2>2, Typed, TailElements
    <3>2. ToWrite' = <<s, (l + 2) + 1 - l>>
      BY <1>1, <1>5, <1>10, <2>2 DEF ToWrite, Total
    <3>3. (l + 2) + 1 - l = 2 + 1 /\ 2 < l + 2
      BY <3>1
    <3>. QED
      BY <2>1, <3>2, <3>3
  <2>3. CASE writing.rest = <<>>
    <3>1. l = 0
      BY <1>10, <2>3, NoElements
    <3>. QED
      BY <1>1, <1>5, <2>1, <2>3, <3>1 DEF ToWrite
  <2>. QED
    BY <2>2, <2>3
<1>12. Writes(x)
  BY <1>1, <1>2, <1>7
<1>. QED
  BY <1>2, <1>4, <1>6, <1>8, <1>9, <1>11, <1>12, WordWritten

(* or the next of its data, which may be the last.                         *)
LEMMA SinkWritesDataKeeps ==
  ASSUME ByteInv, SinkWritesData
  PROVE  Kept
<1>. DEFINE s == Len(sent)
            f == sent[s]
<1>1. /\ writing.stage = "data" /\ writing.rest # <<>>
      /\ Writes(Head(writing.rest))
      /\ writing' = [writing EXCEPT !.rest = Tail(@)]
      /\ sent' = sent
  BY DEF SinkWritesData, Writes
<1>2. /\ s \in DOMAIN sent /\ f \in Frame /\ writing.frame = f
      /\ Len(writing.rest) <= Len(f.data)
      /\ \A i \in DOMAIN writing.rest : writing.rest[i] = f.data[Len(f.data) - Len(writing.rest) + i]
  BY <1>1, LastFrame
<1>3. /\ writing \in [stage : {"none", "type", "length", "data"}, frame : Frame \cup {None}, rest : Seq(Word)]
      /\ writing' = [stage |-> "data", frame |-> writing.frame, rest |-> Tail(writing.rest)]
  BY <1>1 DEF ByteInv, TypeOK
<1>4. PICK q \in Seq(Word) : q = Tail(writing.rest)
  BY <1>1, Typed, TailElements
<1>5. PICK l \in Nat, r \in Nat : l = Len(f.data) /\ r = Len(writing.rest) /\ r <= l
  BY <1>2, Frames, Typed
<1>6. /\ r > 0 /\ 1 \in DOMAIN writing.rest /\ Head(writing.rest) = writing.rest[1]
      /\ Head(writing.rest) \in Word
      /\ Len(q) = r - 1
      /\ \A i \in DOMAIN q : i \in Nat /\ i + 1 \in DOMAIN writing.rest /\ q[i] = writing.rest[i + 1]
  BY <1>1, <1>4, <1>5, Typed, TailElements
<1>7. writing' \in [stage : {"none", "type", "length", "data"}, frame : Frame \cup {None}, rest : Seq(Word)]
  BY <1>3, <1>4
<1>8. writing'.stage = "data" /\ writing'.frame = writing.frame /\ writing'.rest = q
  BY <1>3, <1>4
<1>9. SinkWritesLast'
  <2>1. ASSUME NEW i \in DOMAIN q
        PROVE  q[i] = f.data[l - Len(q) + i]
    <3>1. q[i] = writing.rest[i + 1] /\ writing.rest[i + 1] = f.data[l - r + (i + 1)] /\ i \in Nat
      BY <1>2, <1>5, <1>6
    <3>2. l - r + (i + 1) = l - (r - 1) + i
      BY <3>1
    <3>. QED
      BY <1>6, <3>1, <3>2
  <2>2. Len(q) <= l
    BY <1>5, <1>6
  <2>3. sent # <<>>
    BY <1>2, NoElements
  <2>. QED
    BY <1>1, <1>2, <1>5, <1>8, <2>1, <2>2, <2>3 DEF SinkWritesLast
<1>10. PICK x \in Word : x = Head(writing.rest)
  BY <1>6
<1>11. ToWrite = <<s, (l + 2) + 1 - r>>
  BY <1>1, <1>5 DEF ToWrite, Total
<1>12. x = WordOf(f, (l + 2) + 1 - r)
  <2>1. writing.rest[1] = f.data[l - r + 1]
    BY <1>2, <1>5, <1>6
  <2>2. (l + 2) + 1 - r # 1 /\ (l + 2) + 1 - r # 2 /\ (l + 2) + 1 - r - 2 = l - r + 1
    BY <1>5
  <2>. QED
    BY <1>6, <1>10, <2>1, <2>2 DEF WordOf
<1>13. ToWrite' = After(sent, ToWrite)
  <2>1. After(sent, ToWrite) = IF (l + 2) + 1 - r < l + 2 THEN <<s, (l + 2) + 1 - r + 1>> ELSE <<s + 1, 1>>
    BY <1>5, <1>11 DEF After, Total
  <2>2. CASE q # <<>>
    <3>1. r - 1 > 0
      BY <1>6, <2>2, TailElements
    <3>2. ToWrite' = <<s, (l + 2) + 1 - (r - 1)>>
      BY <1>1, <1>5, <1>6, <1>8, <2>2 DEF ToWrite, Total
    <3>3. (l + 2) + 1 - (r - 1) = (l + 2) + 1 - r + 1
      BY <1>5
    <3>4. (l + 2) + 1 - r < l + 2
      BY <3>1
    <3>. QED
      BY <2>1, <3>2, <3>3, <3>4
  <2>3. CASE q = <<>>
    <3>1. r = 1
      BY <1>5, <1>6, <2>3, NoElements
    <3>2. ~((l + 2) + 1 - r < l + 2)
      BY <1>5, <3>1
    <3>3. ToWrite' = <<s + 1, 1>>
      BY <1>1, <1>8, <2>3 DEF ToWrite
    <3>. QED
      BY <2>1, <3>2, <3>3
  <2>. QED
    BY <2>2, <2>3
<1>14. Writes(x)
  BY <1>1, <1>10
<1>15. ToWrite[1] = s /\ ToWrite[2] = (l + 2) + 1 - r
  BY <1>11
<1>. QED
  BY <1>2, <1>7, <1>9, <1>12, <1>13, <1>14, <1>15, WordWritten

(* Nothing is written, given to the sink or read, and the sink goes on,    *)
LEMMA NothingWritten ==
  ASSUME ByteInv, UNCHANGED <<reading, received, source, sent, stream, link, writer>>,
         writing' \in [stage : {"none", "type", "length", "data"}, frame : Frame \cup {None}, rest : Seq(Word)],
         SinkWritesLast', ToWrite' = ToWrite
  PROVE  Kept
<1>1. TypeOK'
  BY DEF ByteInv, TypeOK
<1>2. ASSUME OnTrack'
      PROVE  ReadsNext' /\ AheadNext
  BY <1>2, SourceUntouched DEF AheadNext
<1>. QED
  BY <1>1, <1>2, SourceUntouched DEF Kept

(* or it is gone. *)
LEMMA SinkGone ==
  ASSUME ByteInv, UNCHANGED <<reading, received, source, sent, stream, link>>,
         writing' \in [stage : {"none", "type", "length", "data"}, frame : Frame \cup {None}, rest : Seq(Word)],
         writer' \in {"dropped", "shut"},
         SinkWritesLast'
  PROVE  Kept
<1>1. TypeOK'
  BY DEF ByteInv, TypeOK
<1>2. ASSUME OnTrack'
      PROVE  ReadsNext' /\ AheadNext
  <2>1. ReadsNext' /\ ToRead' = ToRead /\ Ahead(ToRead, stream, sent, ToWrite, writer = "ready" /\ link = "up")
    BY <1>2, SourceUntouched
  <2>2. ~(writer' = "ready" /\ link' = "up")
    OBVIOUS
  <2>3. Ahead(ToRead, stream, sent, ToWrite', writer' = "ready" /\ link' = "up")
    BY <2>1, <2>2, AheadStopped
  <2>. QED
    BY <2>1, <2>3 DEF AheadNext
<1>. QED
  BY <1>1, <1>2, SourceUntouched DEF Kept

(* The frame is written: the next word is that of the next frame. *)
LEMMA SinkFlushesKeeps ==
  ASSUME ByteInv, SinkFlushes
  PROVE  Kept
<1>1. /\ writing.stage = "data" /\ writing.rest = <<>> /\ writer = "ready"
      /\ UNCHANGED <<reading, received, source, sent, stream, link, writer>>
  BY DEF SinkFlushes
<1>2. writing' = [stage |-> "none", frame |-> None, rest |-> <<>>] /\ writing'.stage = "none"
  BY DEF SinkFlushes, Idle
<1>3. writing' \in [stage : {"none", "type", "length", "data"}, frame : Frame \cup {None}, rest : Seq(Word)]
  BY <1>2
<1>4. SinkWritesLast'
  BY <1>2 DEF SinkWritesLast
<1>5. ToWrite' = ToWrite
  BY <1>1, <1>2 DEF ToWrite
<1>. QED
  BY <1>1, <1>3, <1>4, <1>5, NothingWritten

(* The sink, or its half of the stream, is gone. *)
LEMMA SinkStopsKeeps ==
  ASSUME ByteInv, SinkFails \/ PortalDropsSink \/ ReadHalfDropped
  PROVE  Kept
<1>1. /\ UNCHANGED <<reading, received, source, sent, stream, link>>
      /\ writer' \in {"dropped", "shut"}
      /\ writing' = Idle \/ writing' = writing
  BY DEF SinkFails, PortalDropsSink, ReadHalfDropped, Dropped
<1>2. Idle \in [stage : {"none", "type", "length", "data"}, frame : Frame \cup {None}, rest : Seq(Word)]
  BY DEF Idle
<1>3. writing' \in [stage : {"none", "type", "length", "data"}, frame : Frame \cup {None}, rest : Seq(Word)]
  BY <1>1, <1>2 DEF ByteInv, TypeOK
<1>4. SinkWritesLast'
  BY <1>1 DEF ByteInv, SinkWritesLast, Idle
<1>. QED
  BY <1>1, <1>3, <1>4, SinkGone

(* The transport breaks, and loses the end of what was in transit. *)
LEMMA LinkBreaksKeeps ==
  ASSUME ByteInv, LinkBreaks
  PROVE  Kept
<1>1. /\ UNCHANGED <<ends, writing, writer, reading, source, sent, received>>
      /\ link' = "broken"
  BY DEF LinkBreaks
<1>2. PICK k \in 0 .. Len(stream) : stream' = SubSeq(stream, 1, k)
  BY DEF LinkBreaks
<1>3. Len(stream) <= Capacity /\ Len(stream) \in Nat /\ stream \in Seq(Word)
  BY Typed, LenProperties DEF ByteInv, TypeOK
<1>4. stream' \in Seq(Word) /\ Len(stream') = k
  BY <1>2, <1>3, SubSeqProperties
<1>5. Len(stream') <= Capacity
  BY <1>3, <1>4, ByteConduitAssumption
<1>6. TypeOK'
  BY <1>1, <1>4, <1>5 DEF ByteInv, TypeOK
<1>7. SinkWritesLast' /\ ToWrite' = ToWrite
  BY <1>1 DEF ByteInv, SinkWritesLast, ToWrite, Total
<1>8. ASSUME OnTrack'
      PROVE  ReadsNext' /\ AheadNext
  <2>1. ReadsNext' /\ ToRead' = ToRead /\ Ahead(ToRead, stream, sent, ToWrite, writer = "ready" /\ link = "up")
    BY <1>1, <1>8, SourceUntouched
  <2>2. ~(writer' = "ready" /\ link' = "up")
    BY <1>1
  <2>3. Ahead(ToRead, SubSeq(stream, 1, k), sent, ToWrite, writer' = "ready" /\ link' = "up")
    BY <1>3, <2>1, <2>2, AheadCut
  <2>. QED
    BY <1>1, <1>2, <1>7, <2>1, <2>3 DEF AheadNext
<1>. QED
  BY <1>1, <1>6, <1>7, <1>8, SourceUntouched DEF Kept

(* A frame is given to the sink, which has nothing else to write. *)
LEMMA PortalSendsKeeps ==
  ASSUME ByteInv, NEW f \in Frame, PortalSends(f)
  PROVE  Kept
<1>1. /\ writer = "ready" /\ writing.stage = "none"
      /\ sent' = Append(sent, f)
      /\ UNCHANGED <<ends, writer, stream, link, reading, source, received>>
  BY DEF PortalSends
<1>2. writing' = [stage |-> "type", frame |-> f, rest |-> f.data]
  BY DEF PortalSends
<1>3. f.data \in Seq(Word) /\ Len(f.data) \in Nat
  BY Frames
<1>4. /\ writing' \in [stage : {"none", "type", "length", "data"}, frame : Frame \cup {None}, rest : Seq(Word)]
      /\ writing'.stage = "type" /\ writing'.frame = f /\ writing'.rest = f.data
  BY <1>2, <1>3
<1>5. PICK s \in Nat : s = Len(sent)
  BY Typed
<1>6. /\ sent' \in Seq(Frame) /\ sent' # <<>> /\ Len(sent') = s + 1
      /\ DOMAIN sent = 1 .. s /\ DOMAIN sent' = 1 .. s + 1
      /\ \A i \in DOMAIN sent : i \in DOMAIN sent' /\ sent'[i] = sent[i]
      /\ sent'[s + 1] = f
  <2>1. sent \in Seq(Frame) /\ DOMAIN sent = 1 .. s
    BY <1>5, Typed
  <2>2. /\ sent' \in Seq(Frame) /\ sent' # <<>> /\ Len(sent') = s + 1
        /\ \A i \in 1 .. s : sent'[i] = sent[i]
        /\ sent'[s + 1] = f
    BY <1>1, <1>5, <2>1, AppendElements
  <2>3. DOMAIN sent' = 1 .. s + 1
    BY <2>2, LenProperties
  <2>. QED
    BY <1>5, <2>1, <2>2, <2>3
<1>7. TypeOK'
  <2>1. sent' \in Seq(Frame)
    BY <1>6
  <2>2. writing' \in [stage : {"none", "type", "length", "data"}, frame : Frame \cup {None}, rest : Seq(Word)]
    BY <1>4
  <2>. QED
    BY <1>1, <2>1, <2>2 DEF ByteInv, TypeOK
<1>8. SinkWritesLast'
  <2>1. \A i \in DOMAIN f.data : f.data[i] = f.data[Len(f.data) - Len(f.data) + i]
    BY <1>3, LenProperties
  <2>2. Len(f.data) <= Len(f.data)
    BY <1>3
  <2>. QED
    BY <1>4, <1>6, <2>1, <2>2 DEF SinkWritesLast
<1>9. SourceStartsEmpty'
  BY <1>1 DEF ByteInv, SourceStartsEmpty
<1>10. Straight' => Straight
  BY <1>1, <1>6 DEF Straight
<1>11. YieldsAreSent'
  <2>1. ASSUME Straight' PROVE Len(received') <= Len(sent')
    <3>1. Len(received) <= s /\ Len(received) \in Nat
      BY <1>5, <1>10, <2>1, Typed DEF ByteInv, YieldsAreSent
    <3>. QED
      BY <1>1, <1>6, <3>1
  <2>. QED
    BY <2>1 DEF YieldsAreSent
<1>12. ASSUME OnTrack'
       PROVE  ReadsNext' /\ AheadNext
  <2>1. OnTrack
    BY <1>1, <1>10, <1>12 DEF OnTrack
  <2>2. ReadsNext /\ Ahead(ToRead, stream, sent, ToWrite, writer = "ready" /\ link = "up")
    BY <2>1 DEF ByteInv, WordsInOrder
  <2>3. ReadsNext'
    BY <1>1, <1>6, <2>2 DEF ReadsNext, TypeByte
  <2>4. ToRead' = ToRead
    BY <1>1 DEF ToRead, NeedsData
  <2>5. ToWrite' = ToWrite
    BY <1>1, <1>4, <1>5, <1>6 DEF ToWrite
  <2>6. Ahead(ToRead, stream, Append(sent, f), ToWrite, writer = "ready" /\ link = "up")
    BY <2>2, Typed, AheadSent
  <2>. QED
    BY <1>1, <2>3, <2>4, <2>5, <2>6 DEF AheadNext
<1>13. SoundIsPrefix'
  <2>1. PICK m \in 0 .. s : SoundUpTo(m)
    BY <1>5 DEF ByteInv, SoundIsPrefix
  <2>2. \A i \in 1 .. s : Fits(i)' <=> Fits(i)
    BY <1>6 DEF Fits
  <2>3. CASE m < s
    <3>1. m \in 0 .. s + 1 /\ m + 1 \in 1 .. s /\ \A i \in 1 .. m : i \in 1 .. s
      BY <1>5, <2>3
    <3>2. SoundUpTo(m)'
      BY <1>5, <2>1, <2>2, <2>3, <3>1 DEF SoundUpTo
    <3>. QED
      BY <1>6, <3>1, <3>2 DEF SoundIsPrefix
  <2>4. CASE m = s /\ Fits(s + 1)'
    <3>1. s + 1 \in 0 .. s + 1 /\ \A i \in 1 .. s + 1 : i \in 1 .. s \/ i = s + 1
      BY <1>5
    <3>2. ~(s + 1 < s + 1)
      BY <1>5
    <3>3. SoundUpTo(s + 1)'
      BY <1>6, <2>1, <2>2, <2>4, <3>1, <3>2 DEF SoundUpTo
    <3>. QED
      BY <1>6, <3>1, <3>3 DEF SoundIsPrefix
  <2>5. CASE m = s /\ ~Fits(s + 1)'
    <3>1. SoundUpTo(s)'
      BY <2>1, <2>2, <2>5 DEF SoundUpTo
    <3>2. s \in 0 .. s + 1
      BY <1>5
    <3>. QED
      BY <1>6, <3>1, <3>2 DEF SoundIsPrefix
  <2>. QED
    BY <1>5, <2>1, <2>3, <2>4, <2>5
<1>. QED
  BY <1>7, <1>8, <1>9, <1>11, <1>12, <1>13 DEF Kept
-----------------------------------------------------------------------------
(* The source is through. *)
LEMMA SourceOver ==
  ASSUME ByteInv, UNCHANGED <<sinkVars, reading, received>>, source' = "ended",
         stream' = stream \/ Reads
  PROVE  Kept
<1>1. UNCHANGED <<ends, writing, writer, link, sent, reading, received>>
  BY DEF sinkVars
<1>2. stream' \in Seq(Word) /\ Len(stream') <= Capacity
  <2>1. CASE stream' = stream
    BY <2>1 DEF ByteInv, TypeOK
  <2>2. CASE Reads
    <3>1. stream \in Seq(Word) /\ stream # <<>> /\ stream' = Tail(stream) /\ Len(stream) <= Capacity
      BY <2>2 DEF ByteInv, TypeOK, Reads
    <3>2. stream' \in Seq(Word) /\ Len(stream') = Len(stream) - 1 /\ Len(stream) \in Nat
      BY <3>1, TailElements
    <3>3. PICK l \in Nat : l = Len(stream) /\ l <= Capacity /\ Len(stream') = l - 1
      BY <3>1, <3>2
    <3>4. Capacity \in Nat
      BY ByteConduitAssumption
    <3>5. Len(stream') <= Capacity
      BY <3>3, <3>4
    <3>. QED
      BY <3>2, <3>5
  <2>. QED
    BY <2>1, <2>2
<1>3. TypeOK'
  BY <1>1, <1>2 DEF ByteInv, TypeOK
<1>4. SinkWritesLast' /\ SourceStartsEmpty' /\ YieldsAreSent'
  BY <1>1 DEF ByteInv, SinkWritesLast, SourceStartsEmpty, YieldsAreSent, Straight
<1>5. ~OnTrack'
  BY DEF OnTrack
<1>. QED
  BY <1>1, <1>3, <1>4, <1>5 DEF Kept

(* A word is read, and it was the one at its place, or the source has lost *)
(* its place.                                                              *)
LEMMA WordRead ==
  ASSUME ByteInv, Reads, UNCHANGED <<sinkVars, source, received>>,
         reading' \in [stage : {"type", "length", "data"}, type : Word, length : Word, data : Seq(Word)],
         Len(reading'.data) <= reading'.length,
         SourceStartsEmpty',
         OnTrack' => OnTrack,
         OnTrack' /\ ReadsNext /\ ToRead[1] \in DOMAIN sent /\ Head(stream) = WordOf(sent[ToRead[1]], ToRead[2])
           => ReadsNext' /\ ToRead' = After(sent, ToRead)
  PROVE  Kept
<1>1. UNCHANGED <<ends, writing, writer, link, sent, source, received>>
  BY DEF sinkVars
<1>2. stream \in Seq(Word) /\ stream # <<>> /\ stream' = Tail(stream) /\ Len(stream) <= Capacity
  BY DEF ByteInv, TypeOK, Reads
<1>3. stream' \in Seq(Word) /\ Len(stream') = Len(stream) - 1 /\ Len(stream) \in Nat
  BY <1>2, TailElements
<1>4. Len(stream') <= Capacity
  BY <1>2, <1>3, ByteConduitAssumption
<1>5. TypeOK'
  BY <1>1, <1>3, <1>4 DEF ByteInv, TypeOK
<1>6. SinkWritesLast' /\ YieldsAreSent'
  BY <1>1 DEF ByteInv, SinkWritesLast, YieldsAreSent, Straight
<1>7. ToWrite' = ToWrite
  BY <1>1 DEF ToWrite, Total
<1>8. ASSUME OnTrack'
      PROVE  ReadsNext' /\ AheadNext
  <2>1. ReadsNext /\ Ahead(ToRead, stream, sent, ToWrite, writer = "ready" /\ link = "up")
    BY <1>8 DEF ByteInv, WordsInOrder
  <2>2. PICK from \in Place : from = ToRead
    BY PlacesTyped
  <2>3. /\ from[1] \in DOMAIN sent
        /\ Head(stream) = WordOf(sent[from[1]], from[2])
        /\ Ahead(After(sent, from), Tail(stream), sent, ToWrite, writer = "ready" /\ link = "up")
    BY <1>2, <1>8, <2>1, <2>2, Typed, AheadRead
  <2>4. ReadsNext' /\ ToRead' = After(sent, from)
    BY <1>8, <2>1, <2>2, <2>3
  <2>. QED
    BY <1>1, <1>2, <1>7, <2>3, <2>4 DEF AheadNext
<1>. QED
  BY <1>1, <1>5, <1>6, <1>8 DEF Kept

(* It may be the type of a frame, or of none, *)
LEMMA SourceReadsTypeKeeps ==
  ASSUME ByteInv, SourceReadsType
  PROVE  Kept
<1>1. /\ reading.stage = "type" /\ Reads
      /\ UNCHANGED <<sinkVars, received>>
      /\ \/ source' = "ended" /\ reading' = reading
         \/ /\ reading' = [reading EXCEPT !.stage = "length", !.type = Head(stream)]
            /\ source' = source
  BY DEF SourceReadsType
<1>2. CASE source' = "ended" /\ reading' = reading
  BY <1>1, <1>2, SourceOver
<1>3. CASE reading' = [reading EXCEPT !.stage = "length", !.type = Head(stream)] /\ source' = source
  <2>1. PICK x \in Word : x = Head(stream)
    BY <1>1, Typed, TailElements DEF Reads
  <2>2. reading \in [stage : {"type", "length", "data"}, type : Word, length : Word, data : Seq(Word)]
    BY DEF ByteInv, TypeOK
  <2>3. reading' = [stage |-> "length", type |-> x, length |-> reading.length, data |-> reading.data]
    BY <1>3, <2>1, <2>2
  <2>4. reading' \in [stage : {"type", "length", "data"}, type : Word, length : Word, data : Seq(Word)]
    BY <2>2, <2>3
  <2>5. /\ reading'.stage = "length" /\ reading'.type = x /\ reading'.length = reading.length
        /\ reading'.data = reading.data
    BY <2>3
  <2>6. Len(reading'.data) <= reading'.length
    BY <2>5, Typed
  <2>7. SourceStartsEmpty'
    BY <1>1, <2>5 DEF ByteInv, SourceStartsEmpty
  <2>8. PICK n \in Nat : n = Len(received) + 1
    BY Typed
  <2>9. sent' = sent /\ received' = received
    BY <1>1 DEF sinkVars
  <2>10. ToRead = <<n, 1>> /\ ToRead' = <<n, 2>>
    BY <1>1, <2>5, <2>8, <2>9 DEF ToRead
  <2>11. OnTrack' => OnTrack
    BY <1>1, <1>3, <2>1, <2>5, <2>9 DEF OnTrack, Straight
  <2>12. ASSUME n \in DOMAIN sent, x = WordOf(sent[n], 1)
         PROVE  ReadsNext' /\ <<n, 2>> = After(sent, <<n, 1>>)
    <3>1. x = TypeByte[sent[n].type]
      BY <2>12 DEF WordOf
    <3>2. ReadsNext'
      BY <2>5, <2>8, <2>9, <2>12, <3>1 DEF ReadsNext, TypeByte
    <3>3. PICK l \in Nat : l = Len(sent[n].data)
      BY <2>12, Typed, Frames
    <3>4. 1 < l + 2
      OBVIOUS
    <3>. QED
      BY <3>2, <3>3, <3>4 DEF After, Total
  <2>13. ToRead[1] \in DOMAIN sent /\ Head(stream) = WordOf(sent[ToRead[1]], ToRead[2])
           => ReadsNext' /\ ToRead' = After(sent, ToRead)
    BY <2>1, <2>10, <2>12
  <2>14. UNCHANGED <<sinkVars, source, received>>
    BY <1>1, <1>3
  <2>. QED
    BY <1>1, <2>4, <2>6, <2>7, <2>11, <2>13, <2>14, WordRead
<1>. QED
  BY <1>1, <1>2, <1>3

(* its length, which is that of its data unless it is too long, *)
LEMMA SourceReadsLengthKeeps ==
  ASSUME ByteInv, SourceReadsLength
  PROVE  Kept
<1>1. /\ reading.stage = "length" /\ Reads
      /\ UNCHANGED <<sinkVars, source, received>>
      /\ reading' = [reading EXCEPT !.stage = "data", !.length = Head(stream)]
  BY DEF SourceReadsLength
<1>2. PICK x \in Word : x = Head(stream)
  BY <1>1, Typed, TailElements DEF Reads
<1>3. /\ reading \in [stage : {"type", "length", "data"}, type : Word, length : Word, data : Seq(Word)]
      /\ reading.data = <<>> /\ Len(reading.data) = 0
  BY <1>1, NoElements DEF ByteInv, TypeOK, SourceStartsEmpty
<1>4. reading' = [stage |-> "data", type |-> reading.type, length |-> x, data |-> reading.data]
  BY <1>1, <1>2, <1>3
<1>5. reading' \in [stage : {"type", "length", "data"}, type : Word, length : Word, data : Seq(Word)]
  BY <1>3, <1>4
<1>6. /\ reading'.stage = "data" /\ reading'.type = reading.type /\ reading'.length = x
      /\ reading'.data = reading.data
  BY <1>4
<1>7. x \in Nat
  BY ByteConduitAssumption DEF Word
<1>8. Len(reading'.data) <= reading'.length
  BY <1>3, <1>6, <1>7
<1>9. SourceStartsEmpty'
  BY <1>6 DEF SourceStartsEmpty
<1>10. PICK n \in Nat : n = Len(received) + 1
  BY Typed
<1>11. sent' = sent /\ received' = received /\ source' = source
  BY <1>1 DEF sinkVars
<1>12. ToRead = <<n, 2>>
  BY <1>1, <1>10 DEF ToRead
<1>13. ToRead' = IF 0 < x THEN <<n, 3>> ELSE <<n + 1, 1>>
  BY <1>3, <1>6, <1>10, <1>11 DEF ToRead, NeedsData
<1>14. OnTrack' => OnTrack
  BY <1>1, <1>6, <1>11, <1>12 DEF OnTrack, Straight
<1>15. ASSUME OnTrack, ReadsNext, n \in DOMAIN sent, x = WordOf(sent[n], 2)
       PROVE  ReadsNext' /\ ToRead' = After(sent, <<n, 2>>)
  <2>1. PICK l \in Nat : l = Len(sent[n].data)
    BY <1>15, Typed, Frames
  <2>2. n <= Len(received) + 1
    BY <1>10
  <2>3. l < Modulus
    BY <1>15, <2>1, <2>2 DEF OnTrack, Straight
  <2>4. x = l
    BY <1>15, <2>1, <2>3, Typed, Frames DEF WordOf
  <2>5. reading.type = TypeByte[sent[n].type]
    BY <1>1, <1>10, <1>15 DEF ReadsNext
  <2>6. DOMAIN reading'.data = {}
    BY <1>3, <1>6, NoElements
  <2>7. ReadsNext'
    BY <1>6, <1>10, <1>11, <1>15, <2>1, <2>4, <2>5, <2>6 DEF ReadsNext, TypeByte
  <2>8. After(sent, <<n, 2>>) = IF 2 < l + 2 THEN <<n, 3>> ELSE <<n + 1, 1>>
    BY <2>1 DEF After, Total
  <2>. QED
    BY <1>13, <2>4, <2>7, <2>8
<1>16. OnTrack' /\ ReadsNext /\ ToRead[1] \in DOMAIN sent /\ Head(stream) = WordOf(sent[ToRead[1]], ToRead[2])
         => ReadsNext' /\ ToRead' = After(sent, ToRead)
  BY <1>2, <1>12, <1>14, <1>15
<1>. QED
  BY <1>1, <1>5, <1>8, <1>9, <1>14, <1>16, WordRead

(* or the next of its data, which may be the last. *)
LEMMA SourceReadsDataKeeps ==
  ASSUME ByteInv, SourceReadsData
  PROVE  Kept
<1>1. /\ reading.stage = "data" /\ NeedsData /\ Reads
      /\ UNCHANGED <<sinkVars, source, received>>
      /\ reading' = [reading EXCEPT !.data = Append(@, Head(stream))]
  BY DEF SourceReadsData
<1>2. PICK x \in Word : x = Head(stream)
  BY <1>1, Typed, TailElements DEF Reads
<1>3. PICK d \in Nat, l \in Nat : d = Len(reading.data) /\ l = reading.length /\ d < l
  BY <1>1, Typed DEF NeedsData
<1>4. PICK q \in Seq(Word) : q = Append(reading.data, x)
  BY <1>2, Typed, AppendElements
<1>5. /\ Len(q) = d + 1 /\ DOMAIN q = 1 .. d + 1 /\ DOMAIN reading.data = 1 .. d
      /\ q[d + 1] = x /\ \A i \in DOMAIN reading.data : q[i] = reading.data[i]
  BY <1>2, <1>3, <1>4, Typed, AppendElements
<1>6. reading \in [stage : {"type", "length", "data"}, type : Word, length : Word, data : Seq(Word)]
  BY DEF ByteInv, TypeOK
<1>7. reading' = [stage |-> "data", type |-> reading.type, length |-> reading.length, data |-> q]
  BY <1>1, <1>2, <1>4, <1>6
<1>8. reading' \in [stage : {"type", "length", "data"}, type : Word, length : Word, data : Seq(Word)]
  BY <1>6, <1>7
<1>9. /\ reading'.stage = "data" /\ reading'.type = reading.type /\ reading'.length = l
      /\ reading'.data = q
  BY <1>3, <1>7
<1>10. Len(reading'.data) <= reading'.length
  BY <1>3, <1>5, <1>9
<1>11. SourceStartsEmpty'
  BY <1>9 DEF SourceStartsEmpty
<1>12. PICK n \in Nat : n = Len(received) + 1
  BY Typed
<1>13. sent' = sent /\ received' = received /\ source' = source
  BY <1>1 DEF sinkVars
<1>14. ToRead = <<n, d + 3>>
  BY <1>1, <1>3, <1>12 DEF ToRead
<1>15. ToRead' = IF d + 1 < l THEN <<n, d + 1 + 3>> ELSE <<n + 1, 1>>
  BY <1>5, <1>9, <1>12, <1>13 DEF ToRead, NeedsData
<1>16. d + 3 # 1 /\ d + 3 # 2 /\ d + 3 - 2 = d + 1 /\ d + 1 + 3 = d + 3 + 1
  OBVIOUS
<1>17. OnTrack' => OnTrack
  BY <1>1, <1>9, <1>13, <1>14, <1>16 DEF OnTrack, Straight
<1>18. ASSUME ReadsNext, n \in DOMAIN sent, x = WordOf(sent[n], d + 3)
       PROVE  ReadsNext' /\ ToRead' = After(sent, <<n, d + 3>>)
  <2>1. /\ reading.type = TypeByte[sent[n].type] /\ l = Len(sent[n].data)
        /\ \A i \in DOMAIN reading.data : reading.data[i] = sent[n].data[i]
    BY <1>1, <1>3, <1>12, <1>18 DEF ReadsNext
  <2>2. x = sent[n].data[d + 1]
    BY <1>16, <1>18 DEF WordOf
  <2>3. \A i \in DOMAIN q : i \in DOMAIN reading.data \/ i = d + 1
    BY <1>5
  <2>4. \A i \in DOMAIN q : q[i] = sent[n].data[i]
    BY <1>5, <2>1, <2>2, <2>3
  <2>5. ReadsNext'
    BY <1>9, <1>12, <1>13, <1>18, <2>1, <2>4 DEF ReadsNext, TypeByte
  <2>6. After(sent, <<n, d + 3>>) = IF d + 3 < l + 2 THEN <<n, d + 3 + 1>> ELSE <<n + 1, 1>>
    BY <2>1 DEF After, Total
  <2>7. (d + 3 < l + 2) <=> (d + 1 < l)
    OBVIOUS
  <2>. QED
    BY <1>15, <1>16, <2>5, <2>6, <2>7
<1>19. OnTrack' /\ ReadsNext /\ ToRead[1] \in DOMAIN sent /\ Head(stream) = WordOf(sent[ToRead[1]], ToRead[2])
         => ReadsNext' /\ ToRead' = After(sent, ToRead)
  BY <1>2, <1>14, <1>18
<1>. QED
  BY <1>1, <1>8, <1>10, <1>11, <1>17, <1>19, WordRead

(* What the source yields is the next of the frames that were sent, unless *)
(* there is one among them that is too long.                               *)
LEMMA YieldedIsSent ==
  ASSUME ByteInv, SourceYields, Straight, received' # received
  PROVE  /\ OnTrack
         /\ Len(received) + 1 \in DOMAIN sent
         /\ received' = Append(received, sent[Len(received) + 1])
<1>1. /\ source = "yields" /\ reading.stage = "data" /\ ~NeedsData
      /\ reading.type = TypeByte.Content \/ reading.type = TypeByte.Handshake
      /\ received' = Append(received,
                            [type |-> IF reading.type = TypeByte.Content THEN "Content" ELSE "Handshake",
                             data |-> reading.data])
  BY DEF SourceYields
<1>2. TypeByte.Content = 1 /\ TypeByte.Handshake = 0
  BY DEF TypeByte
<1>3. OnTrack
  BY <1>1, <1>2 DEF OnTrack
<1>4. PICK n : n = Len(received) + 1
  OBVIOUS
<1>5. /\ n \in DOMAIN sent /\ reading.type = TypeByte[sent[n].type] /\ reading.length = Len(sent[n].data)
      /\ \A i \in DOMAIN reading.data : reading.data[i] = sent[n].data[i]
  BY <1>1, <1>3, <1>4 DEF ByteInv, WordsInOrder, ReadsNext
<1>6. /\ sent[n] = [type |-> sent[n].type, data |-> sent[n].data]
      /\ sent[n].type \in {"Handshake", "Content"} /\ sent[n].data \in Seq(Word)
      /\ TypeByte[sent[n].type] = IF sent[n].type = "Handshake" THEN 0 ELSE 1
  BY <1>5, Typed, Frames
<1>7. sent[n].type = IF reading.type = TypeByte.Content THEN "Content" ELSE "Handshake"
  BY <1>2, <1>5, <1>6
<1>8. Len(reading.data) = Len(sent[n].data)
  BY <1>1, <1>5, Typed DEF NeedsData
<1>9. reading.data = sent[n].data
  BY <1>5, <1>6, <1>8, Typed, LenProperties, SeqEqual
<1>. QED
  BY <1>1, <1>3, <1>4, <1>5, <1>6, <1>7, <1>9

(* The frame is read: the next word is that of the next frame. *)
LEMMA SourceYieldsKeeps ==
  ASSUME ByteInv, SourceYields
  PROVE  Kept
<1>1. source = "yields" /\ reading.stage = "data" /\ ~NeedsData /\ UNCHANGED <<sinkVars, stream>>
  BY DEF SourceYields
<1>2. CASE source' = "ended" /\ UNCHANGED <<reading, received>>
  <2>1. UNCHANGED <<sinkVars, reading, received>>
    BY <1>1, <1>2
  <2>. QED
    BY <1>1, <1>2, <2>1, SourceOver
<1>3. CASE source' = source /\ reading' = NothingRead /\ received' # received
  <2>1. PICK t \in {"Handshake", "Content"} : received' = Append(received, [type |-> t, data |-> reading.data])
    BY <1>3 DEF SourceYields
  <2>2. PICK r \in Nat : r = Len(received)
    BY Typed
  <2>3. received \in Seq([type : {"Handshake", "Content"}, data : Seq(Word)])
    BY DEF ByteInv, TypeOK
  <2>4. [type |-> t, data |-> reading.data] \in [type : {"Handshake", "Content"}, data : Seq(Word)]
    BY Typed
  <2>5. /\ received' \in Seq([type : {"Handshake", "Content"}, data : Seq(Word)])
        /\ Len(received') = r + 1
    BY <2>1, <2>2, <2>3, <2>4, AppendElements
  <2>6. UNCHANGED <<ends, writing, writer, link, sent, stream, source>>
    BY <1>1, <1>3 DEF sinkVars
  <2>7. reading' = [stage |-> "type", type |-> 0, length |-> 0, data |-> <<>>]
    BY <1>3 DEF NothingRead
  <2>8. reading'.stage = "type" /\ reading'.data = <<>> /\ reading'.length = 0
    BY <2>7
  <2>9. 0 \in Word
    BY ByteConduitAssumption DEF Word
  <2>10. <<>> \in Seq(Word) /\ Len(<<>>) = 0
    BY NoElements
  <2>11. reading' \in [stage : {"type", "length", "data"}, type : Word, length : Word, data : Seq(Word)]
    BY <2>7, <2>9, <2>10
  <2>12. Len(reading'.data) <= reading'.length
    BY <2>8, <2>10
  <2>13. TypeOK'
    BY <2>5, <2>6, <2>11, <2>12 DEF ByteInv, TypeOK
  <2>14. SinkWritesLast'
    BY <2>6 DEF ByteInv, SinkWritesLast
  <2>15. SourceStartsEmpty'
    BY <2>8 DEF SourceStartsEmpty
  <2>16. Straight' => Straight
    <3>1. \A i \in 1 .. Len(sent) : i <= r + 1 => i <= (r + 1) + 1
      OBVIOUS
    <3>. QED
      BY <2>2, <2>5, <2>6, <3>1, Typed DEF Straight
  <2>17. Straight => OnTrack /\ r + 1 \in DOMAIN sent
    BY <1>3, <2>2, YieldedIsSent
  <2>18. YieldsAreSent'
    <3>1. Straight' => r + 1 <= Len(sent)
      BY <2>16, <2>17, Typed
    <3>. QED
      BY <2>5, <2>6, <3>1 DEF YieldsAreSent
  <2>19. ASSUME OnTrack'
         PROVE  ReadsNext' /\ AheadNext
    <3>1. OnTrack
      BY <2>16, <2>17, <2>19 DEF OnTrack
    <3>2. Ahead(ToRead, stream, sent, ToWrite, writer = "ready" /\ link = "up")
      BY <3>1 DEF ByteInv, WordsInOrder
    <3>3. ReadsNext'
      BY <2>8 DEF ReadsNext
    <3>4. ToWrite' = ToWrite
      BY <2>6 DEF ToWrite, Total
    <3>5. ToRead = <<r + 1 + 1, 1>> /\ ToRead' = <<r + 1 + 1, 1>>
      BY <1>1, <2>2, <2>5, <2>8 DEF ToRead
    <3>. QED
      BY <2>6, <3>2, <3>3, <3>4, <3>5 DEF AheadNext
  <2>. QED
    BY <2>6, <2>13, <2>14, <2>15, <2>18, <2>19 DEF Kept
<1>4. \/ source' = "ended" /\ UNCHANGED <<reading, received>>
      \/ source' = source /\ reading' = NothingRead /\ received' # received
  <2>1. \A x : Append(received, x) # received
    <3>1. received \in Seq([type : {"Handshake", "Content"}, data : Seq(Word)])
      BY DEF ByteInv, TypeOK
    <3>2. ASSUME NEW x PROVE Len(Append(received, x)) = Len(received) + 1
      BY <3>1, AppendPositions
    <3>. QED
      BY <3>2, Typed
  <2>. QED
    BY <2>1 DEF SourceYields
<1>. QED
  BY <1>2, <1>3, <1>4

(* The stream ends, or the portal that the frames are for is gone. *)
LEMMA SourceStopsKeeps ==
  ASSUME ByteInv, SourceEnds \/ PortalDropsSource
  PROVE  Kept
<1>1. UNCHANGED <<sinkVars, reading, received>> /\ source' = "ended" /\ stream' = stream
  BY DEF SourceEnds, PortalDropsSource, YieldsError
<1>. QED
  BY <1>1, SourceOver
-----------------------------------------------------------------------------
(* Every step keeps what makes the refinement inductive. *)
LEMMA StepKeeps ==
  ASSUME ByteInv, Next
  PROVE  Kept
<1>1. CASE Sink
  BY <1>1, SinkWritesTypeKeeps, SinkWritesLengthKeeps, SinkWritesDataKeeps, SinkFlushesKeeps, SinkStopsKeeps
     DEF Sink
<1>2. CASE Source
  BY <1>2, SourceReadsTypeKeeps, SourceReadsLengthKeeps, SourceReadsDataKeeps, SourceYieldsKeeps,
     SourceStopsKeeps DEF Source
<1>3. ASSUME NEW f \in Frame, PortalSends(f)
      PROVE  Kept
  BY <1>3, PortalSendsKeeps
<1>4. CASE PortalDropsSink \/ ReadHalfDropped
  BY <1>4, SinkStopsKeeps
<1>5. CASE LinkBreaks
  BY <1>5, LinkBreaksKeeps
<1>6. CASE PortalDropsSource
  BY <1>6, SourceStopsKeeps
<1>. QED
  BY <1>1, <1>2, <1>3, <1>4, <1>5, <1>6 DEF Next

(* What a step keeps is the invariant of the next state. *)
LEMMA KeptIsInvariant ==
  ASSUME ByteInv, Kept
  PROVE  ByteInv'
<1>1. WordsInOrder'
  <2>1. OnTrack' => ReadsNext' /\ AheadNext
    BY DEF Kept
  <2>2. AheadNext <=> Ahead(ToRead, stream, sent, ToWrite, writer = "ready" /\ link = "up")'
    BY DEF AheadNext, Ahead, UpTo, After, Total, WordOf, WrittenLength, TypeByte, ToRead, ToWrite,
           NeedsData
  <2>. QED
    BY <2>1, <2>2 DEF WordsInOrder
<1>2. SoundIsPrefix'
  <2>1. CASE sent' = sent
    BY <2>1 DEF ByteInv, SoundIsPrefix, SoundUpTo, Fits
  <2>. QED
    BY <2>1 DEF Kept
<1>. QED
  BY <1>1, <1>2 DEF Kept, ByteInv

(* At first nothing is written. *)
LEMMA InitKeeps == Init => ByteInv
<1>. SUFFICES ASSUME Init
              PROVE  ByteInv
  OBVIOUS
<1>1. <<>> \in Seq(Word) /\ <<>> \in Seq(Frame) /\ <<>> \in Seq([type : {"Handshake", "Content"}, data : Seq(Word)])
      /\ Len(<<>>) = 0 /\ DOMAIN <<>> = {}
  BY NoElements
<1>2. 0 \in Word /\ 0 <= Capacity
  BY ByteConduitAssumption DEF Word
<1>3. /\ reading.stage = "type" /\ reading.length = 0 /\ reading.data = <<>> /\ writing.stage = "none"
  BY DEF Init, NothingRead, Idle
<1>4. TypeOK
  <2>1. NothingRead \in [stage : {"type", "length", "data"}, type : Word, length : Word, data : Seq(Word)]
    BY <1>1, <1>2 DEF NothingRead
  <2>2. Idle \in [stage : {"none", "type", "length", "data"}, frame : Frame \cup {None}, rest : Seq(Word)]
    BY <1>1 DEF Idle
  <2>3. Len(reading.data) <= reading.length
    BY <1>1, <1>3
  <2>. QED
    BY <1>1, <1>2, <2>1, <2>2, <2>3 DEF Init, TypeOK
<1>5. SinkWritesLast /\ SourceStartsEmpty
  BY <1>3 DEF SinkWritesLast, SourceStartsEmpty
<1>6. WordsInOrder
  <2>1. ToRead = <<1, 1>> /\ ToWrite = <<1, 1>>
    BY <1>1, <1>3 DEF Init, ToRead, ToWrite
  <2>2. PICK p \in Place : p = <<1, 1>>
    BY DEF Place
  <2>3. UpTo(p, 0, p, stream, sent)
    BY NoWords
  <2>4. Len(stream) = 0 /\ 0 \in 0 .. Len(stream)
    BY <1>1 DEF Init
  <2>5. Ahead(p, stream, sent, p, writer = "ready" /\ link = "up")
    BY <2>3, <2>4 DEF Ahead, Place
  <2>6. ReadsNext
    BY <1>3 DEF ReadsNext
  <2>. QED
    BY <2>1, <2>2, <2>5, <2>6 DEF WordsInOrder
<1>7. YieldsAreSent
  BY <1>1 DEF Init, YieldsAreSent
<1>8. SoundIsPrefix
  <2>1. Len(sent) = 0 /\ 0 \in 0 .. Len(sent) /\ ~(0 < Len(sent))
    BY <1>1 DEF Init
  <2>2. SoundUpTo(0)
    BY <2>1 DEF SoundUpTo
  <2>. QED
    BY <2>1, <2>2 DEF SoundIsPrefix
<1>. QED
  BY <1>4, <1>5, <1>6, <1>7, <1>8 DEF ByteInv

(* The words in transit are those between what the source and the sink     *)
(* have got to, in every state that the conduit can reach.                 *)
THEOREM ByteConduitInvariant == Spec => []ByteInv
<1>1. ByteInv /\ UNCHANGED vars => ByteInv'
  <2>. SUFFICES ASSUME ByteInv, UNCHANGED vars
                PROVE  ByteInv'
    OBVIOUS
  <2>1. UNCHANGED <<ends, writing, writer, stream, link, reading, source, sent, received>>
    BY DEF vars
  <2>2. TypeOK' /\ SinkWritesLast' /\ SourceStartsEmpty' /\ YieldsAreSent'
    BY <2>1 DEF ByteInv, TypeOK, SinkWritesLast, SourceStartsEmpty, YieldsAreSent, Straight
  <2>3. OnTrack' => ReadsNext' /\ AheadNext
    <3>1. ToWrite' = ToWrite
      BY <2>1 DEF ToWrite, Total
    <3>. QED
      BY <2>1, <3>1, SourceUntouched DEF AheadNext
  <2>. QED
    BY <2>1, <2>2, <2>3, KeptIsInvariant DEF Kept
<1>. QED
  BY <1>1, InitKeeps, StepKeeps, KeptIsInvariant, PTL DEF Spec

(* The variables are of their types; so the source never has more data of  *)
(* a frame than the length that it read, which is read_exact's promise.    *)
THEOREM TypeCorrect == Spec => []TypeOK
<1>1. ByteInv => TypeOK
  BY DEF ByteInv
<1>. QED
  BY <1>1, ByteConduitInvariant, PTL
-----------------------------------------------------------------------------
(* The smaller of two numbers. *)
LEMMA MinOfTwo ==
  ASSUME NEW a \in Nat, NEW b \in Nat
  PROVE  Min({a, b}) = IF a <= b THEN a ELSE b
<1>1. CASE a <= b
  <2>1. a \in {a, b} /\ \A y \in {a, b} : a <= y
    BY <1>1
  <2>2. \A x \in {a, b} : (\A y \in {a, b} : x <= y) => x = a
    BY <1>1
  <2>. QED
    BY <1>1, <2>1, <2>2 DEF Min
<1>2. CASE ~(a <= b)
  <2>1. b \in {a, b} /\ \A y \in {a, b} : b <= y
    BY <1>2
  <2>2. \A x \in {a, b} : (\A y \in {a, b} : x <= y) => x = b
    BY <1>2
  <2>. QED
    BY <1>2, <2>1, <2>2 DEF Min
<1>. QED
  BY <1>1, <1>2

(* So many frames are sound as come before the first that is too long. *)
LEMMA SoundLength ==
  ASSUME NEW all \in Seq(Frame), NEW m \in 0 .. Len(all),
         \A i \in 1 .. m : Len(all[i].data) < Modulus,
         m < Len(all) => ~(Len(all[m + 1].data) < Modulus)
  PROVE  Cardinality({n \in DOMAIN all : \A i \in 1 .. n : i \in DOMAIN all /\ Len(all[i].data) < Modulus}) = m
<1>1. PICK s \in Nat : s = Len(all) /\ DOMAIN all = 1 .. s
  BY LenProperties
<1>2. m \in Nat /\ m <= s
  BY <1>1
<1>3. ASSUME NEW n \in 1 .. m
      PROVE  n \in 1 .. s /\ \A i \in 1 .. n : i \in 1 .. s /\ Len(all[i].data) < Modulus
  <2>1. n \in 1 .. s /\ \A i \in 1 .. n : i \in 1 .. s /\ i \in 1 .. m
    BY <1>2
  <2>. QED
    BY <2>1
<1>4. ASSUME NEW n \in 1 .. s, \A i \in 1 .. n : Len(all[i].data) < Modulus
      PROVE  n \in 1 .. m
  <2>1. CASE m < n
    <3>1. m < s /\ m + 1 \in 1 .. n
      BY <1>2, <2>1
    <3>. QED
      BY <1>1, <1>4, <3>1
  <2>2. CASE ~(m < n)
    BY <1>2, <2>2
  <2>. QED
    BY <2>1, <2>2
<1>5. {n \in DOMAIN all : \A i \in 1 .. n : i \in DOMAIN all /\ Len(all[i].data) < Modulus} = 1 .. m
  BY <1>1, <1>3, <1>4
<1>6. Cardinality(1 .. m) = m
  <2>1. Cardinality(1 .. m) = IF 1 > m THEN 0 ELSE m - 1 + 1
    BY <1>2, FS_Interval
  <2>. QED
    BY <1>2, <2>1
<1>. QED
  BY <1>5, <1>6

(* The first elements of a sequence. *)
LEMMA FirstElements ==
  ASSUME NEW S, NEW q \in Seq(S), NEW m \in 0 .. Len(q)
  PROVE  /\ SubSeq(q, 1, m) \in Seq(S)
         /\ Len(SubSeq(q, 1, m)) = m
         /\ \A i \in 1 .. m : SubSeq(q, 1, m)[i] = q[i]
<1>1. Len(q) \in Nat /\ DOMAIN q = 1 .. Len(q)
  BY LenProperties
<1>2. m \in Nat /\ m \in Int /\ 1 \in Int /\ \A i \in 1 .. m : i \in 1 .. Len(q)
  BY <1>1
<1>3. \A i \in 1 .. m : q[i] \in S
  BY <1>1, <1>2, EachElement
<1>4. /\ SubSeq(q, 1, m) \in Seq(S)
      /\ Len(SubSeq(q, 1, m)) = IF 1 <= m THEN m - 1 + 1 ELSE 0
      /\ \A i \in 1 .. m - 1 + 1 : SubSeq(q, 1, m)[i] = q[1 + i - 1]
  BY <1>2, <1>3, SubSeqProperties
<1>5. m - 1 + 1 = m /\ \A i \in 1 .. m : 1 + i - 1 = i
  BY <1>2
<1>. QED
  BY <1>2, <1>4, <1>5

(* They stay the same when something is appended. *)
LEMMA FirstOfAppended ==
  ASSUME NEW S, NEW q \in Seq(S), NEW e \in S, NEW m \in 0 .. Len(q)
  PROVE  SubSeq(Append(q, e), 1, m) = SubSeq(q, 1, m)
<1>1. PICK a \in Seq(S) : a = Append(q, e)
  BY AppendElements
<1>2. Len(q) \in Nat /\ Len(a) = Len(q) + 1 /\ \A i \in 1 .. Len(q) : a[i] = q[i]
  BY <1>1, AppendElements
<1>3. m \in 0 .. Len(a) /\ \A i \in 1 .. m : i \in 1 .. Len(q)
  BY <1>2
<1>4. /\ SubSeq(a, 1, m) \in Seq(S) /\ Len(SubSeq(a, 1, m)) = m
      /\ \A i \in 1 .. m : SubSeq(a, 1, m)[i] = a[i]
  BY <1>3, FirstElements
<1>5. /\ SubSeq(q, 1, m) \in Seq(S) /\ Len(SubSeq(q, 1, m)) = m
      /\ \A i \in 1 .. m : SubSeq(q, 1, m)[i] = q[i]
  BY FirstElements
<1>6. \A i \in 1 .. m : SubSeq(a, 1, m)[i] = SubSeq(q, 1, m)[i]
  BY <1>2, <1>3, <1>4, <1>5
<1>. QED
  BY <1>1, <1>4, <1>5, <1>6, SeqEqual

(* The part of what is sent that the conduit is a pipe for, and what the   *)
(* source has yielded of it.                                               *)
LEMMA MappedParts ==
  ASSUME ByteInv, NEW m \in 0 .. Len(sent), SoundUpTo(m)
  PROVE  /\ SoundPart = SubSeq(sent, 1, m)
         /\ SoundPart \in Seq(Frame) /\ Len(SoundPart) = m
         /\ \A i \in 1 .. m : SoundPart[i] = sent[i]
<1>1. Cardinality({n \in DOMAIN sent : Sound(n)}) = m
  BY Typed, SoundLength DEF SoundUpTo, Fits, Sound
<1>2. SoundPart = SubSeq(sent, 1, m)
  BY <1>1 DEF SoundPart
<1>. QED
  BY <1>2, Typed, FirstElements

(* A frame is given to the sink, or comes out of the source, or not.       *)
Rests ==
  /\ sent' = sent /\ received' = received
  /\ source' # source => source = "yields" /\ source' = "ended"
Sends == received' = received /\ source' = source /\ \E f \in Frame : sent' = Append(sent, f)
Yields == sent' = sent /\ source = "yields" /\ source' = source /\ SourceYields /\ received' # received

(* Each step is one of these. *)
LEMMA StepKinds ==
  ASSUME ByteInv, [Next]_vars
  PROVE  Rests \/ Sends \/ Yields
<1>1. ASSUME UNCHANGED vars
      PROVE  Rests
  BY <1>1 DEF vars, Rests
<1>2. ASSUME Sink
      PROVE  Rests
  BY <1>2 DEF Sink, SinkWritesType, SinkWritesLength, SinkWritesData, SinkFlushes, SinkFails, Writes, Rests
<1>3. ASSUME SourceReadsType \/ SourceReadsLength \/ SourceReadsData \/ SourceEnds \/ PortalDropsSource
      PROVE  Rests
  BY <1>3 DEF SourceReadsType, SourceReadsLength, SourceReadsData, SourceEnds, PortalDropsSource, Reads,
              YieldsError, sinkVars, Rests
<1>4. CASE SourceYields
  BY <1>4 DEF SourceYields, sinkVars, Rests, Yields
<1>5. ASSUME NEW f \in Frame, PortalSends(f)
      PROVE  Sends
  BY <1>5 DEF PortalSends, Sends
<1>6. ASSUME PortalDropsSink \/ ReadHalfDropped \/ LinkBreaks
      PROVE  Rests
  BY <1>6 DEF PortalDropsSink, ReadHalfDropped, LinkBreaks, Rests
<1>. QED
  BY <1>1, <1>2, <1>3, <1>4, <1>5, <1>6 DEF Next, Source

(* A frame is given to the pipe as long as none before it was too long. *)
LEMMA SendsImplements ==
  ASSUME ByteInv, Sends, TypeOK'
  PROVE  [P!Next]_(P!vars)
<1>1. PICK f \in Frame : sent' = Append(sent, f)
  BY DEF Sends
<1>2. received' = received /\ source' = source
  BY DEF Sends
<1>3. PICK s \in Nat, r \in Nat : s = Len(sent) /\ r = Len(received)
  BY Typed
<1>4. /\ sent \in Seq(Frame) /\ DOMAIN sent = 1 .. s
      /\ sent' \in Seq(Frame) /\ Len(sent') = s + 1
      /\ \A i \in 1 .. s : sent'[i] = sent[i]
      /\ sent'[s + 1] = f
  BY <1>1, <1>3, Typed, AppendElements
<1>5. PICK m \in 0 .. s : SoundUpTo(m)
  BY <1>3 DEF ByteInv, SoundIsPrefix
<1>6. /\ \A i \in 1 .. m : i \in 1 .. s /\ Len(sent[i].data) < Modulus
      /\ m < s => ~(Len(sent[m + 1].data) < Modulus)
      /\ m \in Nat /\ m <= s
  BY <1>3, <1>5 DEF SoundUpTo, Fits
<1>7. SoundPart = SubSeq(sent, 1, m) /\ Len(SoundPart) = m
  BY <1>3, <1>5, MappedParts
<1>8. CASE m = s /\ Len(f.data) < Modulus
  <2>1. PICK n \in 0 .. Len(sent') : n = s + 1
    BY <1>4
  <2>2. /\ \A i \in 1 .. n : i \in 1 .. m \/ i = s + 1
        /\ ~(n < Len(sent')) /\ \A i \in 1 .. m : i \in 1 .. s
    BY <1>4, <1>8, <2>1
  <2>3. \A i \in 1 .. n : Len(sent'[i].data) < Modulus
    BY <1>4, <1>6, <1>8, <2>2
  <2>4. Cardinality({k \in DOMAIN sent' : Sound(k)'}) = n
    BY <1>4, <2>2, <2>3, SoundLength DEF Sound
  <2>5. SoundPart' = SubSeq(sent', 1, n)
    BY <2>4 DEF SoundPart
  <2>6. SoundPart = sent /\ SoundPart' = sent'
    BY <1>3, <1>4, <1>7, <1>8, <2>1, <2>5, SubSeqFull
  <2>7. Straight
    BY <1>4, <1>6, <1>8 DEF Straight
  <2>8. r <= s
    BY <1>3, <2>7 DEF ByteInv, YieldsAreSent
  <2>9. Min({r, s}) = r /\ Min({r, s + 1}) = r
    <3>1. s + 1 \in Nat /\ r <= s + 1
      BY <2>8
    <3>. QED
      BY <2>8, <3>1, MinOfTwo
  <2>10. SubSeq(received, 1, Min({Len(received), Len(SoundPart)}))' =
           SubSeq(received, 1, Min({Len(received), Len(SoundPart)}))
    BY <1>2, <1>3, <1>4, <2>6, <2>9
  <2>11. P!Send
    BY <1>1, <1>2, <2>6, <2>10 DEF P!Send
  <2>. QED
    BY <2>11 DEF P!Next
<1>9. CASE ~(m = s /\ Len(f.data) < Modulus)
  <2>1. PICK n \in 0 .. Len(sent') : n = m
    BY <1>4, <1>6
  <2>2. \A i \in 1 .. n : Len(sent'[i].data) < Modulus
    BY <1>4, <1>6, <2>1
  <2>3. ~(Len(sent'[n + 1].data) < Modulus)
    <3>1. CASE m < s
      <4>1. m + 1 \in 1 .. s
        BY <1>6, <3>1
      <4>. QED
        BY <1>4, <1>6, <2>1, <3>1, <4>1
    <3>2. CASE m = s
      BY <1>4, <1>9, <2>1, <3>2
    <3>. QED
      BY <1>6, <3>1, <3>2
  <2>4. Cardinality({k \in DOMAIN sent' : Sound(k)'}) = n
    BY <1>4, <2>2, <2>3, SoundLength DEF Sound
  <2>5. SoundPart' = SubSeq(sent', 1, n)
    BY <2>4 DEF SoundPart
  <2>6. SubSeq(Append(sent, f), 1, m) = SubSeq(sent, 1, m)
    BY <1>3, <1>4, FirstOfAppended
  <2>7. SoundPart' = SoundPart
    BY <1>1, <1>7, <2>1, <2>5, <2>6
  <2>. QED
    BY <1>2, <2>7 DEF P!vars
<1>. QED
  BY <1>8, <1>9

(* What comes out of the source is the next of them, or comes after them. *)
LEMMA YieldsImplements ==
  ASSUME ByteInv, Yields, TypeOK'
  PROVE  [P!Next]_(P!vars)
<1>1. sent' = sent /\ source = "yields" /\ source' = source /\ SourceYields /\ received' # received
  BY DEF Yields
<1>2. PICK s \in Nat, r \in Nat : s = Len(sent) /\ r = Len(received)
  BY Typed
<1>3. received \in Seq([type : {"Handshake", "Content"}, data : Seq(Word)])
  BY DEF ByteInv, TypeOK
<1>4. PICK e \in [type : {"Handshake", "Content"}, data : Seq(Word)] : received' = Append(received, e)
  <2>1. PICK t \in {"Handshake", "Content"} : received' = Append(received, [type |-> t, data |-> reading.data])
    BY <1>1 DEF SourceYields
  <2>2. [type |-> t, data |-> reading.data] \in [type : {"Handshake", "Content"}, data : Seq(Word)]
    BY Typed
  <2>. QED
    BY <2>1, <2>2
<1>5. Len(received') = r + 1
  BY <1>2, <1>3, <1>4, AppendElements
<1>6. PICK m \in 0 .. s : SoundUpTo(m)
  BY <1>2 DEF ByteInv, SoundIsPrefix
<1>7. /\ \A i \in 1 .. m : i \in 1 .. s /\ Len(sent[i].data) < Modulus
      /\ m \in Nat
  BY <1>2, <1>6 DEF SoundUpTo, Fits
<1>8. Len(SoundPart) = m /\ \A i \in 1 .. m : SoundPart[i] = sent[i]
  BY <1>2, <1>6, MappedParts
<1>9. SoundPart' = SoundPart
  BY <1>1 DEF SoundPart, Sound
<1>10. CASE r < m
  <2>1. r + 1 \in 1 .. m /\ \A i \in 1 .. s : i <= r + 1 => i \in 1 .. m
    BY <1>7, <1>10
  <2>2. Straight
    BY <1>2, <1>7, <2>1, Typed DEF Straight
  <2>3. received' = Append(received, SoundPart[r + 1])
    BY <1>1, <1>2, <1>8, <2>1, <2>2, YieldedIsSent
  <2>4. Min({r, m}) = r /\ Min({r + 1, m}) = r + 1
    <3>1. r + 1 \in Nat /\ r <= m /\ r + 1 <= m
      BY <1>7, <1>10
    <3>. QED
      BY <1>7, <3>1, MinOfTwo
  <2>5. SubSeq(received, 1, Min({Len(received), Len(SoundPart)})) = received
    BY <1>2, <1>3, <1>8, <2>4, SubSeqFull
  <2>6. received' \in Seq([type : {"Handshake", "Content"}, data : Seq(Word)])
    BY DEF TypeOK
  <2>7. SubSeq(received, 1, Min({Len(received), Len(SoundPart)}))' = received'
    BY <1>5, <1>8, <1>9, <2>4, <2>6, SubSeqFull
  <2>8. P!Receive
    BY <1>1, <1>2, <1>8, <1>9, <1>10, <2>3, <2>5, <2>7 DEF P!Receive
  <2>. QED
    BY <2>8 DEF P!Next
<1>11. CASE ~(r < m)
  <2>1. Min({r, m}) = m /\ Min({r + 1, m}) = m
    <3>1. /\ r + 1 \in Nat /\ ~(r + 1 <= m)
          /\ r <= m => r = m
      BY <1>7, <1>11
    <3>. QED
      BY <1>7, <3>1, MinOfTwo
  <2>2. m \in 0 .. Len(received)
    BY <1>2, <1>7, <1>11
  <2>3. SubSeq(Append(received, e), 1, m) = SubSeq(received, 1, m)
    BY <1>3, <2>2, FirstOfAppended
  <2>4. SubSeq(received, 1, Min({Len(received), Len(SoundPart)}))' =
          SubSeq(received, 1, Min({Len(received), Len(SoundPart)}))
    BY <1>2, <1>4, <1>5, <1>8, <1>9, <2>1, <2>3
  <2>. QED
    BY <1>1, <1>9, <2>4 DEF P!vars
<1>. QED
  BY <1>10, <1>11

(* A conduit over a byte stream is a pipe, for the frames up to the first  *)
(* whose length does not fit the u32 that the sink writes: what is read    *)
(* as a type, a length and data is what was written as such, and a frame   *)
(* that is cut by the end of the stream does not come out.                 *)
THEOREM StreamIsAPipe == Spec => ImplementsPipe
<1>1. Init => P!Init
  <2>. SUFFICES ASSUME Init
                PROVE  P!Init
    OBVIOUS
  <2>1. sent = <<>> /\ received = <<>> /\ source = "yields"
    BY DEF Init
  <2>2. SoundPart = <<>>
    <3>1. {n \in DOMAIN sent : Sound(n)} = {}
      BY <2>1, NoElements
    <3>2. SoundPart = SubSeq(<<>>, 1, 0)
      BY <2>1, <3>1, FS_EmptySet DEF SoundPart
    <3>. QED
      BY <3>2, SubSeqEmpty
  <2>3. Min({Len(received), Len(SoundPart)}) = 0
    <3>1. Len(<<>>) = 0
      BY NoElements
    <3>2. Min({0, 0}) = 0
      BY MinOfTwo
    <3>. QED
      BY <2>1, <2>2, <3>1, <3>2
  <2>4. SubSeq(received, 1, 0) = <<>>
    BY SubSeqEmpty
  <2>. QED
    BY <2>1, <2>2, <2>3, <2>4 DEF P!Init
<1>2. ByteInv /\ ByteInv' /\ [Next]_vars => [P!Next]_(P!vars)
  <2>. SUFFICES ASSUME ByteInv, ByteInv', [Next]_vars
                PROVE  [P!Next]_(P!vars)
    OBVIOUS
  <2>1. TypeOK'
    BY DEF ByteInv
  <2>2. CASE Rests
    <3>1. sent' = sent /\ received' = received
      BY <2>2 DEF Rests
    <3>2. SoundPart' = SoundPart
      BY <3>1 DEF SoundPart, Sound
    <3>3. CASE source' = source
      BY <3>1, <3>2, <3>3 DEF P!vars
    <3>4. CASE source' # source
      <4>1. source = "yields" /\ source' = "ended"
        BY <2>2, <3>4 DEF Rests
      <4>2. P!End
        BY <3>1, <3>2, <4>1 DEF P!End
      <4>. QED
        BY <4>2 DEF P!Next
    <3>. QED
      BY <3>3, <3>4
  <2>. QED
    BY <2>1, <2>2, StepKinds, SendsImplements, YieldsImplements
<1>. QED
  BY <1>1, <1>2, ByteConduitInvariant, PTL DEF Spec, ImplementsPipe, P!Spec
=============================================================================
