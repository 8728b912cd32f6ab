----------------------------- MODULE ByteConduit -----------------------------
(***************************************************************************)
(* One direction of a conduit over a byte stream: the sink and the source  *)
(* of the unix socket conduits (client and server are the same code) and   *)
(* of the SSH client, whose peer is a unix socket server.  A frame is      *)
(* written as [type:1byte][length:4bytes][data], in a write each.  The     *)
(* sinks could write a close frame too, a type byte alone, but nothing in  *)
(* the repository sends one into a sink.                                   *)
(*                                                                         *)
(* The stream is a sequence of words: a type byte, a u32 length and a byte *)
(* of data are one word each.  A source that has lost its place, behind a  *)
(* frame whose length was cut, takes one kind for another; where it then   *)
(* stands need not be where the code does, and nothing is promised of it.  *)
(***************************************************************************)
EXTENDS Naturals, Sequences, FiniteSetsExt

CONSTANTS
  Modulus,   \* 2^32, scaled down
  Data,      \* the payloads of frames
  Text,      \* those that are UTF-8
  MaxFrames, \* how many frames are sent
  Capacity,  \* how many words the transport holds
  Faults,    \* what may go wrong, out of FaultKinds
  None       \* no frame

FaultKinds == {"break", "drop", "deaf"}
Word == 0 .. Modulus - 1
TypeByte == [Handshake |-> 0, Content |-> 1]

ASSUME ByteConduitAssumption ==
  /\ Modulus \in Nat /\ Modulus > 1
  /\ Data \subseteq Seq(Word) /\ Text \subseteq Data
  /\ MaxFrames \in Nat
  /\ Capacity \in Nat \ {0}
  /\ Faults \subseteq FaultKinds

Frame == [type : {"Handshake"}, data : Text] \cup [type : {"Content"}, data : Data]

ASSUME NoneAssumption == None \notin Frame

VARIABLES
  ends,      \* whose code the sink and the source are
  writing,   \* the frame that the sink writes, and what is left to write
  writer,    \* the sink's half of the stream: ready, dropped, or shut for the peer too
  stream,    \* the words in transit
  link,      \* whether the transport is up
  reading,   \* what the source has read of a frame
  source,    \* whether the source still yields
  sent,      \* history: the frames given to the sink
  received   \* the frames that came out of the source

vars == <<ends, writing, writer, stream, link, reading, source, sent, received>>

NothingRead == [stage |-> "type", type |-> 0, length |-> 0, data |-> <<>>]
Idle == [stage |-> "none", frame |-> None, rest |-> <<>>]

Init ==
  /\ ends \in {[sink |-> "unix", source |-> "unix"],
               [sink |-> "ssh", source |-> "unix"],
               [sink |-> "unix", source |-> "ssh"]}
  /\ writing = Idle /\ writer = "ready"
  /\ stream = <<>> /\ link = "up"
  /\ reading = NothingRead /\ source = "yields"
  /\ sent = <<>> /\ received = <<>>
-----------------------------------------------------------------------------
(* The sink *)

(* `as u32`, and write_u32 of it.  Mutant: the type byte is counted too. *)
CountsType(data) == (Len(data) + 1) % Modulus
WrittenLength(data) == Len(data) % Modulus

(* The portal hands over a frame and waits until it is written. *)
PortalSends(f) ==
  /\ writer = "ready" /\ writing.stage = "none"
  /\ Len(sent) < MaxFrames
  /\ sent' = Append(sent, f)
  /\ writing' = [stage |-> "type", frame |-> f, rest |-> f.data]
  /\ UNCHANGED <<ends, writer, stream, link, reading, source, received>>

Writes(word) ==
  /\ writer = "ready" /\ link = "up"
  /\ Len(stream) < Capacity
  /\ stream' = Append(stream, word)
  /\ UNCHANGED <<ends, writer, link, reading, source, sent, received>>

SinkWritesType ==
  /\ writing.stage = "type"
  /\ Writes(TypeByte[writing.frame.type])
  /\ writing' = [writing EXCEPT !.stage = "length"]
SinkWritesLength ==
  /\ writing.stage = "length"
  /\ Writes(WrittenLength(writing.frame.data))
  /\ writing' = [writing EXCEPT !.stage = "data"]
SinkWritesData ==
  /\ writing.stage = "data" /\ writing.rest # <<>>
  /\ Writes(Head(writing.rest))
  /\ writing' = [writing EXCEPT !.rest = Tail(@)]
SinkFlushes ==
  /\ writer = "ready" /\ link = "up"
  /\ writing.stage = "data" /\ writing.rest = <<>>
  /\ writing' = Idle
  /\ UNCHANGED <<ends, writer, stream, link, reading, source, sent, received>>

(* OwnedWriteHalf ends the stream when it is dropped; tokio::io::split's   *)
(* WriteHalf leaves that to the ReadHalf, which the receive loop holds.    *)
Dropped == IF ends.sink = "unix" THEN "shut" ELSE "dropped"

(* A write fails, and with it the portal, whose writer is dropped. *)
SinkFails ==
  /\ writer = "ready" /\ writing.stage # "none"
  /\ link = "broken" \/ source = "ended"
  /\ writer' = Dropped
  /\ writing' = Idle
  /\ UNCHANGED <<ends, stream, link, reading, source, sent, received>>

(* The portal stops, or is killed in the middle of a frame. *)
PortalDropsSink ==
  /\ "drop" \in Faults
  /\ writer = "ready"
  /\ writer' = Dropped
  /\ writing' = Idle
  /\ UNCHANGED <<ends, stream, link, reading, source, sent, received>>

(* The receive loop of the sink's side ends, after its portal: not before  *)
(* it gets a message that the portal refuses.                              *)
ReadHalfDropped ==
  /\ writer = "dropped"
  /\ writer' = "shut"
  /\ UNCHANGED <<ends, writing, stream, link, reading, source, sent, received>>

LinkBreaks ==
  /\ "break" \in Faults
  /\ link = "up"
  /\ link' = "broken"
  /\ \E n \in 0 .. Len(stream) : stream' = SubSeq(stream, 1, n)
  /\ UNCHANGED <<ends, writing, writer, reading, source, sent, received>>
-----------------------------------------------------------------------------
(* The source *)

sinkVars == <<ends, writing, writer, link, sent>>
Reads == source = "yields" /\ stream # <<>> /\ stream' = Tail(stream)

SourceReadsType ==
  /\ reading.stage = "type"
  /\ Reads
  /\ LET type == Head(stream)
     IN IF ends.source = "unix" /\ type \notin {0, 1}
        THEN source' = "ended" /\ UNCHANGED reading
        ELSE /\ reading' = [reading EXCEPT !.stage = "length", !.type = type]
             /\ UNCHANGED source
  /\ UNCHANGED <<sinkVars, received>>

SourceReadsLength ==
  /\ reading.stage = "length"
  /\ Reads
  /\ reading' = [reading EXCEPT !.stage = "data", !.length = Head(stream)]
  /\ UNCHANGED <<sinkVars, source, received>>

(* Mutant: a byte more than the length says. *)
NeedsOneMore == Len(reading.data) <= reading.length
NeedsData == Len(reading.data) < reading.length
SourceReadsData ==
  /\ reading.stage = "data" /\ NeedsData
  /\ Reads
  /\ reading' = [reading EXCEPT !.data = Append(@, Head(stream))]
  /\ UNCHANGED <<sinkVars, source, received>>

(* read_exact is through: a frame, or else bytes that are no text or (SSH) *)
(* a type that is no frame's, all of which end the loop.                   *)
SourceYields ==
  /\ source = "yields"
  /\ reading.stage = "data" /\ ~NeedsData
  /\ IF \/ reading.type = TypeByte.Content
        \/ reading.type = TypeByte.Handshake /\ reading.data \in Text
     THEN /\ received' = Append(received,
                           [type |-> IF reading.type = TypeByte.Content THEN "Content" ELSE "Handshake",
                            data |-> reading.data])
          /\ reading' = NothingRead
          /\ UNCHANGED source
     ELSE source' = "ended" /\ UNCHANGED <<reading, received>>
  /\ UNCHANGED <<sinkVars, stream>>

(* The end of the stream: an error, or with SSH between two frames None.   *)
(* Mutants: what was read of the last frame is yielded; only an error of   *)
(* the transport ends the source.                                          *)
AtError == stream = <<>> /\ link = "broken"
AtEnd == stream = <<>> /\ (writer = "shut" \/ link = "broken")
YieldsRest ==
  IF reading.stage = "data"
  THEN received' = Append(received, [type |-> "Content", data |-> reading.data])
  ELSE UNCHANGED received
YieldsError == UNCHANGED received
SourceEnds ==
  /\ source = "yields" /\ AtEnd
  /\ reading.stage # "data" \/ NeedsData
  /\ source' = "ended"
  /\ YieldsError
  /\ UNCHANGED <<sinkVars, stream, reading>>

(* The receive loop ends as its portal is gone. *)
PortalDropsSource ==
  /\ "deaf" \in Faults
  /\ source = "yields"
  /\ source' = "ended"
  /\ UNCHANGED <<sinkVars, stream, reading, received>>
-----------------------------------------------------------------------------
Sink == SinkWritesType \/ SinkWritesLength \/ SinkWritesData \/ SinkFlushes \/ SinkFails
Source == SourceReadsType \/ SourceReadsLength \/ SourceReadsData \/ SourceYields \/ SourceEnds

Next ==
  \/ Sink \/ Source
  \/ \E f \in Frame : PortalSends(f)
  \/ PortalDropsSink \/ ReadHalfDropped \/ LinkBreaks \/ PortalDropsSource

(* A write goes on while the transport has room, and a receive loop reads *)
(* whatever its portal does with the frames.                              *)
Spec == Init /\ [][Next]_vars
FairSpec == Spec /\ WF_vars(Sink) /\ WF_vars(Source)
-----------------------------------------------------------------------------
TypeOK ==
  /\ writing \in [stage : {"none", "type", "length", "data"}, frame : Frame \cup {None},
                  rest : Seq(Word)]
  /\ writer \in {"ready", "dropped", "shut"}
  /\ stream \in Seq(Word) /\ Len(stream) <= Capacity
  /\ link \in {"up", "broken"}
  /\ reading \in [stage : {"type", "length", "data"}, type : Word, length : Word, data : Seq(Word)]
  /\ Len(reading.data) <= reading.length
  /\ source \in {"yields", "ended"}
  /\ sent \in Seq(Frame)
  /\ received \in Seq([type : {"Handshake", "Content"}, data : Seq(Word)])

(* The frames up to the first whose length the `as u32` of the sink cuts. *)
Sound(n) == \A i \in 1 .. n : i \in DOMAIN sent /\ Len(sent[i].data) < Modulus
SoundPart == SubSeq(sent, 1, Cardinality({n \in DOMAIN sent : Sound(n)}))

(* Up to there the conduit is what Portal.tla takes it for: what comes out *)
(* is what went in, whatever breaks, and wherever in a frame.              *)
P == INSTANCE Pipe WITH
  sent <- SoundPart, received <- SubSeq(received, 1, Min({Len(received), Len(SoundPart)}))
ImplementsPipe == P!Spec

(* Neither side waits for the other one for ever.  What is sent comes out, *)
(* unless an end or the stop of the sender comes before; and the receive   *)
(* loop learns of the end of its peer, and tells its portal, once the      *)
(* transport is shut, which with SSH the sink alone cannot do.             *)
FramesArrive ==
  \A n \in 1 .. MaxFrames :
    Sound(n) ~> Len(received) >= n \/ source = "ended" \/ writer = "dropped"
EndIsNoticed == writer = "shut" \/ link = "broken" ~> source = "ended"
NobodyWaitsForEver == FramesArrive /\ EndIsNoticed
-----------------------------------------------------------------------------
(* What makes the refinement inductive (ByteConduitProofs).                *)

(* A place in what is sent is <<n, i>>, the i-th word of the n-th frame.   *)
Total(f) == Len(f.data) + 2
WordOf(f, i) ==
  IF i = 1 THEN TypeByte[f.type]
  ELSE IF i = 2 THEN WrittenLength(f.data) ELSE f.data[i - 2]
After(all, p) == IF p[2] < Total(all[p[1]]) THEN <<p[1], p[2] + 1>> ELSE <<p[1] + 1, 1>>

(* The places of the words that the source reads and the sink writes next. *)
ToRead ==
  LET n == Len(received) + 1
  IN IF reading.stage = "type" THEN <<n, 1>>
     ELSE IF reading.stage = "length" THEN <<n, 2>>
     ELSE IF NeedsData THEN <<n, Len(reading.data) + 3>> ELSE <<n + 1, 1>>
ToWrite ==
  LET n == Len(sent)
  IN IF writing.stage = "type" THEN <<n, 1>>
     ELSE IF writing.stage = "length" THEN <<n, 2>>
     ELSE IF writing.stage = "data" /\ writing.rest # <<>>
     THEN <<n, Total(sent[n]) + 1 - Len(writing.rest)>> ELSE <<n + 1, 1>>

(* The first c words of w are those of all the frames between two places.  *)
UpTo(p, c, from, w, all) ==
  \E n \in [0 .. c -> Nat \X Nat] :
    /\ n[0] = from /\ n[c] = p
    /\ \A i \in 1 .. c :
         /\ n[i - 1][1] \in DOMAIN all
         /\ w[i] = WordOf(all[n[i - 1][1]], n[i - 1][2])
         /\ n[i] = After(all, n[i - 1])

(* All of w is words of the frames, and behind them the sink goes on.      *)
Ahead(from, w, all, next, goesOn) ==
  \E p \in Nat \X Nat : UpTo(p, Len(w), from, w, all) /\ (goesOn => p = next)

(* The sink writes the last frame, and the source starts without data.     *)
SinkWritesLast ==
  writing.stage # "none" =>
    /\ sent # <<>>
    /\ LET data == sent[Len(sent)].data
       IN /\ writing.frame = sent[Len(sent)]
          /\ Len(writing.rest) <= Len(data)
          /\ writing.stage # "data" => Len(writing.rest) = Len(data)
          /\ \A i \in DOMAIN writing.rest : writing.rest[i] = data[Len(data) - Len(writing.rest) + i]
SourceStartsEmpty == reading.stage # "data" => reading.data = <<>>

(* While the source has not come to a frame that is too long, it reads the *)
(* frame after those it has yielded.                                       *)
Straight == \A i \in DOMAIN sent : i <= Len(received) + 1 => Len(sent[i].data) < Modulus
OnTrack == source = "yields" /\ Straight
ReadsNext ==
  reading.stage # "type" =>
    LET n == Len(received) + 1
    IN /\ n \in DOMAIN sent
       /\ reading.type = TypeByte[sent[n].type]
       /\ reading.stage = "data" =>
            /\ reading.length = Len(sent[n].data)
            /\ \A i \in DOMAIN reading.data : reading.data[i] = sent[n].data[i]
WordsInOrder ==
  OnTrack => ReadsNext /\ Ahead(ToRead, stream, sent, ToWrite, writer = "ready" /\ link = "up")
YieldsAreSent == Straight => Len(received) <= Len(sent)

(* The frames up to the first that is too long are a prefix of the others. *)
Fits(i) == Len(sent[i].data) < Modulus
SoundUpTo(m) == (\A i \in 1 .. m : Fits(i)) /\ (m < Len(sent) => ~Fits(m + 1))
SoundIsPrefix == \E m \in 0 .. Len(sent) : SoundUpTo(m)
=============================================================================
