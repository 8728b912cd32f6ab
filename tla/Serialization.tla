--------------------------- MODULE Serialization ---------------------------
(***************************************************************************)
(* How messages become bytes and messages again (transmaterialization/,    *)
(* ractor_wormhole_derive/): the layouts of the default implementations,   *)
(* of tuples and of derived structs and enums, and two portals whose       *)
(* programs may be built from different declarations and for different     *)
(* platforms.  What a portal cannot read ends it.                          *)
(*                                                                         *)
(* A byte string is a sequence of words.  A length (a u64) is one word, as *)
(* is a byte, a character, a variant's name and an id, so the content of   *)
(* one part may look like the length of another.  A reader returns the set *)
(* of what it reads: one value, or none if it refuses.                     *)
(***************************************************************************)
EXTENDS Integers, TLC, SequencesExt

CONSTANTS
  Base,        \* how many values a byte has: 256, scaled down
  SizeWords,   \* the words of the u64 that a usize is sent as
  Names,       \* the names of variants; a name's word is its place
  Chars,       \* the words that strings are made of
  Timeouts,    \* of reply ports; one without gets the portal's when it is sent
  MaxElements, \* the longest String and Vec that is sent
  Links        \* the pairs of programs, records of the fields of link

ASSUME SerializationAssumption ==
  /\ Base \in Nat \ {0, 1} /\ SizeWords \in Nat \ {0}
  /\ MaxElements \in Nat
  /\ \A k \in Links : k.words.sender <= SizeWords /\ k.words.receiver <= SizeWords

VARIABLES
  link,   \* types: of the actor's messages in the programs of sender and
          \* receiver; words: of a usize there; messages: how many are sent
  sent,   \* history: the messages in the order in which they are sent
  wire,   \* the frames under way, which overtake one another
  got,    \* history: by message, what its actor received
  answer, \* history: by message, what the actor answered
  reply,  \* history: by message, what the asking side received
  refused \* the frames that a portal could not read, and so failed

vars == <<link, sent, wire, got, answer, reply, refused>>
-----------------------------------------------------------------------------
(* Types: a kind, and what the type is made of.                            *)
Number(words, signed) == [kind |-> "number", words |-> words, signed |-> signed]
Size(signed) == [kind |-> "size", signed |-> signed]
Bool == [kind |-> "bool"]
Unit == [kind |-> "unit"]
Text == [kind |-> "text"]
Vec(T) == [kind |-> "vec", of |-> T]
Option(T) == [kind |-> "option", of |-> T]
Result(T, E) == [kind |-> "result", ok |-> T, err |-> E]
Tuple(Ts) == [kind |-> "tuple", fields |-> Ts]
Struct(Ts) == [kind |-> "struct", fields |-> Ts]
Enum(variants) == [kind |-> "enum", variants |-> variants]
ActorRef == [kind |-> "actor"]
RpcReplyPort(T) == [kind |-> "port", of |-> T]

(* ----- layouts, and what a reader finds in them ----- *)

(* to_le_bytes: two's complement, the lowest byte first. *)
LittleEndian(n, words) == [i \in 1..words |-> (n \div Base^(i - 1)) % Base]
(* from_le_bytes, of bytes of exactly the number's size. *)
Unsigned(d) == MapThenSumSet(LAMBDA i : d[i] * Base^(i - 1), DOMAIN d)
FromLittleEndian(d, words, signed) ==
  IF Len(d) # words THEN {}
  ELSE IF signed /\ 2 * Unsigned(d) >= Base^words
       THEN {Unsigned(d) - Base^words} ELSE {Unsigned(d)}

(* u64_to_usize and i64_to_isize refuse what the platform cannot hold.     *)
(* Mutant: a plain cast, which cuts.                                       *)
CastToPlatform(ns, words, signed) == {n % Base^words : n \in ns}
Fits(n, words, signed) ==
  IF signed THEN -Base^words <= 2 * n /\ 2 * n < Base^words ELSE n < Base^words
ToPlatform(ns, words, signed) == {n \in ns : Fits(n, words, signed)}

(* The length in front of a part, and a part after its length. *)
Prefixed(bytes) == <<Len(bytes)>> \o bytes
Behind(d, at) == SubSeq(d, at, Len(d))
WithLengths(parts) == FlattenSeq([i \in DOMAIN parts |-> Prefixed(parts[i])])
RECURSIVE Parts(_)
Parts(d) ==
  IF d = <<>> THEN {<<>>}
  ELSE IF Len(d) < 1 + d[1] THEN {}
  ELSE {<<SubSeq(d, 2, 1 + d[1])>> \o rest : rest \in Parts(Behind(d, 2 + d[1]))}
(* All data has been consumed after the last part.  Mutant: there may be a *)
(* rest.                                                                   *)
FirstParts(d, n) == {SubSeq(p, 1, n) : p \in {q \in Parts(d) : Len(q) >= n}}
ExactParts(d, n) == {p \in Parts(d) : Len(p) = n}

(* String and Vec<u8>; anyhow::Error is sent as its text. *)
TextLayout(chars) == Prefixed(chars)
ReadText(d) == {p[1] : p \in ExactParts(d, 1)}

(* The count in front is not compared with the elements behind it. *)
VecLayout(parts) == <<Len(parts)>> \o WithLengths(parts)
ReadVec(d) == IF d = <<>> THEN {} ELSE Parts(Tail(d))

BoolLayout(b) == IF b THEN <<1>> ELSE <<0>>
ReadBool(d) == {b \in BOOLEAN : d = BoolLayout(b)}

(* Lengths are read `as usize`, which a platform of 32 bits cuts without   *)
(* a word; no such length (2^32 and more) is written, so none is cut here. *)
OptionLayout(parts) ==
  IF parts = <<>> THEN <<0>> ELSE <<1>> \o Prefixed(parts[1])
ReadOption(d) ==
  IF d = <<0>> THEN {<<>>}
  ELSE IF d # <<>> /\ d[1] = 1 THEN ExactParts(Tail(d), 1) ELSE {}

ResultLayout(ok, bytes) == IF ok THEN <<0>> \o Prefixed(bytes) ELSE <<1>> \o Prefixed(bytes)
ReadResult(d) ==
  IF d # <<>> /\ d[1] \in {0, 1}
  THEN {<<d[1] = 0, p[1]>> : p \in ExactParts(Tail(d), 1)} ELSE {}

TupleLayout(parts) == WithLengths(parts)
ReadTuple(d, n) == ExactParts(d, n)

(* Of all fields, named or not; a unit struct has none. *)
StructLayout(parts) == WithLengths(parts)
ReadStruct(d, n) == ExactParts(d, n)

(* The name of the variant and, as one part, the fields of the variant. *)
Word(name) == CHOOSE i \in DOMAIN Names : Names[i] = name
VariantFields(parts) == WithLengths(parts)
ReadVariantFields(payload, n) == ExactParts(payload, n)
EnumLayout(name, payload) == Prefixed(<<Word(name)>>) \o Prefixed(payload)
ReadEnum(d, variants) ==
  {<<np[1], np[2][2]>> :
     np \in {np \in (DOMAIN variants) \X ExactParts(d, 2) : np[2][1] = <<Word(np[1])>>}}

(* A RemoteActorId, and a ProxiedRpcReplyPort. *)
ActorLayout(id) == <<id>>
ReadActor(d) == IF Len(d) = 1 THEN {d[1]} ELSE {}
PortLayout(port) == <<port[1], port[2]>>
ReadPort(d) == IF Len(d) = 2 THEN {<<d[1], d[2]>>} ELSE {}
-----------------------------------------------------------------------------
(* ContextTransmaterializable, by type.                                    *)
RECURSIVE Immaterialize(_, _)
Immaterialize(T, v) ==
  LET each(Ts, vs) == [i \in DOMAIN vs |-> Immaterialize(Ts[i], vs[i])]
      all(E, vs) == [i \in DOMAIN vs |-> Immaterialize(E, vs[i])]
  IN CASE T.kind = "number" -> LittleEndian(v, T.words)
       [] T.kind = "size" -> LittleEndian(v, SizeWords)
       [] T.kind = "bool" -> BoolLayout(v)
       [] T.kind = "unit" -> <<>>
       [] T.kind = "text" -> TextLayout(v)
       [] T.kind = "vec" -> VecLayout(all(T.of, v))
       [] T.kind = "option" -> OptionLayout(all(T.of, v))
       [] T.kind = "result" ->
            ResultLayout(v[1], Immaterialize(IF v[1] THEN T.ok ELSE T.err, v[2]))
       [] T.kind = "tuple" -> TupleLayout(each(T.fields, v))
       [] T.kind = "struct" -> StructLayout(each(T.fields, v))
       [] T.kind = "enum" ->
            EnumLayout(v[1], VariantFields(each(T.variants[v[1]], v[2])))
       [] T.kind = "actor" -> ActorLayout(v)
       [] T.kind = "port" -> PortLayout(v)

The(S) == CHOOSE x \in S : TRUE
(* What all readers of a sequence read together: nothing if one refuses.   *)
Together(read) ==
  IF \E i \in DOMAIN read : read[i] = {} THEN {}
  ELSE {[i \in DOMAIN read |-> The(read[i])]}

(* words is the size of a usize where the bytes are read. *)
RECURSIVE Rematerialize(_, _, _)
Rematerialize(T, d, words) ==
  LET each(Ts, ps) ==
        UNION {Together([i \in DOMAIN p |-> Rematerialize(Ts[i], p[i], words)]) : p \in ps}
      all(E, ps) ==
        UNION {Together([i \in DOMAIN p |-> Rematerialize(E, p[i], words)]) : p \in ps}
  IN CASE T.kind = "number" -> FromLittleEndian(d, T.words, T.signed)
       [] T.kind = "size" ->
            ToPlatform(FromLittleEndian(d, SizeWords, T.signed), words, T.signed)
       [] T.kind = "bool" -> ReadBool(d)
       [] T.kind = "unit" -> IF d = <<>> THEN {<<>>} ELSE {}
       [] T.kind = "text" -> ReadText(d)
       [] T.kind = "vec" -> all(T.of, ReadVec(d))
       [] T.kind = "option" -> all(T.of, ReadOption(d))
       [] T.kind = "result" ->
            UNION {{<<r[1], v>> : v \in Rematerialize(IF r[1] THEN T.ok ELSE T.err, r[2], words)}
                   : r \in ReadResult(d)}
       [] T.kind = "tuple" -> each(T.fields, ReadTuple(d, Len(T.fields)))
       [] T.kind = "struct" -> each(T.fields, ReadStruct(d, Len(T.fields)))
       [] T.kind = "enum" ->
            UNION {{<<r[1], fs>> : fs \in each(T.variants[r[1]],
                       ReadVariantFields(r[2], Len(T.variants[r[1]])))}
                   : r \in ReadEnum(d, T.variants)}
       [] T.kind = "actor" -> ReadActor(d)
       [] T.kind = "port" -> ReadPort(d)
-----------------------------------------------------------------------------
(* The values of a type that a program with usizes of this many words may  *)
(* hold in what it sends n-th: references are to actors published for it.  *)
Integer(words, signed) ==
  IF signed THEN -(Base^words \div 2) .. Base^words \div 2 - 1 ELSE 0 .. Base^words - 1
Sequences(S) == UNION {[1..k -> S] : k \in 0..MaxElements}
Product(sets) ==
  FoldLeft(LAMBDA chosen, S : {Append(c, v) : c \in chosen, v \in S}, {<<>>}, sets)

RECURSIVE Values(_, _, _)
Values(T, n, words) ==
  LET each(Ts) == Product([i \in DOMAIN Ts |-> Values(Ts[i], n, words)])
  IN CASE T.kind = "number" -> Integer(T.words, T.signed)
       [] T.kind = "size" -> Integer(words, T.signed)
       [] T.kind = "bool" -> BOOLEAN
       [] T.kind = "unit" -> {<<>>}
       [] T.kind = "text" -> Sequences(Chars)
       [] T.kind = "vec" -> Sequences(Values(T.of, n, words))
       [] T.kind = "option" -> {<<>>} \cup {<<v>> : v \in Values(T.of, n, words)}
       [] T.kind = "result" -> {<<TRUE, v>> : v \in Values(T.ok, n, words)}
                                 \cup {<<FALSE, e>> : e \in Values(T.err, n, words)}
       [] T.kind \in {"tuple", "struct"} -> each(T.fields)
       [] T.kind = "enum" ->
            UNION {{<<name, fs>> : fs \in each(T.variants[name])} : name \in DOMAIN T.variants}
       [] T.kind = "actor" -> {2 * n}
       [] T.kind = "port" -> {<<t, 2 * n + 1>> : t \in Timeouts}
-----------------------------------------------------------------------------
(* ----- the messages of the chat, as its server and a phone declare them ----- *)

(* chat_app/shared *)
UserAlias == Struct(<<Text>>)
ChatMessage == Struct(<<Text>>)
HubMessage ==
  Enum("Connect" :> <<ActorRef, RpcReplyPort(Tuple(<<UserAlias, ActorRef>>))>>)
ChatServerMessage == Enum("PostMessage" :> <<ChatMessage, RpcReplyPort(Unit)>>)
ChatClientMessage ==
  Enum([UserConnected |-> <<UserAlias>>,
        MessageReceived |-> <<UserAlias, ChatMessage>>,
        Disconnect |-> <<>>])
(* uniffi_test/rust_project *)
FfiHubMessage ==
  Enum("Connect" :> <<ActorRef, RpcReplyPort(Tuple(<<UserAlias, ActorRef>>))>>)
FfiChatServerMessage ==
  Enum([PostMessage |-> <<ChatMessage, RpcReplyPort(Unit)>>,
        ListUsers |-> <<RpcReplyPort(Vec(UserAlias))>>])
FfiChatClientMessage ==
  Enum([UserConnected |-> <<UserAlias>>,
        UserDisconnected |-> <<UserAlias>>,
        MessageReceived |-> <<UserAlias, ChatMessage>>,
        ServerShutdown |-> <<>>])
-----------------------------------------------------------------------------
Init ==
  /\ link \in Links
  /\ sent = <<>> /\ wire = {}
  /\ got = <<>> /\ answer = <<>> /\ reply = <<>>
  /\ refused = {}

Variants(side) == link.types[side].variants
(* Numbers of a message and of its answer, for Values. *)
Question(n) == 2 * n
Response(n) == 2 * n + 1
(* A portal that could not read a frame has failed. *)
PortalRuns(side) == \A f \in refused : f.to # side
Frame(to, n, bytes) == [to |-> to, n |-> n, bytes |-> bytes]

(* The task of a proxy immaterializes a message and sends it. *)
Send ==
  \E v \in Values(link.types.sender, Question(Len(sent) + 1), link.words.sender) :
    /\ Len(sent) < link.messages /\ PortalRuns("sender")
    /\ sent' = Append(sent, v)
    /\ wire' = wire \cup
         {Frame("receiver", Len(sent) + 1, Immaterialize(link.types.sender, v))}
    /\ UNCHANGED <<link, got, answer, reply, refused>>

(* SendMessage for an actor: its MsgRematerializer reads the message and   *)
(* casts it to the actor, or returns the error, which ends the portal.     *)
Receive ==
  \E f \in wire :
    /\ f.to = "receiver" /\ PortalRuns("receiver")
    /\ wire' = wire \ {f}
    /\ LET read == Rematerialize(link.types.receiver, f.bytes, link.words.receiver)
       IN \/ /\ read = {}
             /\ refused' = refused \cup {f}
             /\ UNCHANGED got
          \/ \E v \in read : got' = got @@ (f.n :> v) /\ UNCHANGED refused
    /\ UNCHANGED <<link, sent, answer, reply>>

(* The type that a port takes, by the declaration of side. *)
PortsOf(side, name) ==
  {i \in DOMAIN Variants(side)[name] : Variants(side)[name][i].kind = "port"}
RpcProxyMsg(T) == Struct(<<T>>)
AnswerType(side, name) == Variants(side)[name][The(PortsOf(side, name))].of

(* The actor answers through the port in its message, whose task sends an  *)
(* RpcProxyMsg to the RpcProxyActor.                                       *)
Answer ==
  \E n \in DOMAIN got \ DOMAIN answer :
    /\ PortalRuns("receiver")
    /\ PortsOf("receiver", got[n][1]) # {}
    /\ LET T == AnswerType("receiver", got[n][1])
       IN \E v \in Values(T, Response(n), link.words.receiver) :
            /\ answer' = answer @@ (n :> v)
            /\ wire' = wire \cup
                 {Frame("sender", n, Immaterialize(RpcProxyMsg(T), <<v>>))}
    /\ UNCHANGED <<link, sent, got, reply, refused>>

(* The RpcProxyActor was published with the rematerializer of its type.    *)
ReceiveAnswer ==
  \E f \in wire :
    /\ f.to = "sender" /\ PortalRuns("sender")
    /\ wire' = wire \ {f}
    /\ LET T == RpcProxyMsg(AnswerType("sender", sent[f.n][1]))
           read == Rematerialize(T, f.bytes, link.words.sender)
       IN \/ /\ read = {}
             /\ refused' = refused \cup {f}
             /\ UNCHANGED reply
          \/ \E v \in read : reply' = reply @@ (f.n :> v[1]) /\ UNCHANGED refused
    /\ UNCHANGED <<link, sent, got, answer>>

Next == Send \/ Receive \/ Answer \/ ReceiveAnswer

Spec == Init /\ [][Next]_vars
-----------------------------------------------------------------------------
Refused(to, n) == \E f \in refused : f.to = to /\ f.n = n
Known(n) == sent[n][1] \in DOMAIN Variants("receiver")
DeclaredAlike(n) ==
  Known(n) /\ Variants("receiver")[sent[n][1]] = Variants("sender")[sent[n][1]]

(* What programs declare alike arrives as it was sent, unless a usize in   *)
(* it is too wide for the reader's platform: then, and only then, it is    *)
(* refused rather than cut (derive_wormhole_serializable.rs:758-842,       *)
(* default_implementations.rs, default_impl_tupl.rs, util.rs:6-17).        *)
ReadAsSent ==
  \A n \in DOMAIN sent :
    DeclaredAlike(n) =>
      /\ n \in DOMAIN got => got[n] = sent[n]
      /\ n \in DOMAIN reply => reply[n] = answer[n]
      /\ Refused("receiver", n)
           => sent[n] \notin Values(link.types.receiver, Question(n), link.words.receiver)
      /\ Refused("sender", n)
           => answer[n] \notin Values(AnswerType("sender", sent[n][1]),
                                      Response(n), link.words.sender)

(* Declarations of different versions are not mixed up: a message is only  *)
(* taken for the variant that was sent and with all of its fields, and an  *)
(* answer with all of its fields; the unread rest of anything is an error  *)
(* (derive_wormhole_serializable.rs:689-695, 824-834).                     *)
DifferencesAreTold ==
  \A n \in DOMAIN sent :
    /\ n \in DOMAIN got =>
         /\ Known(n) /\ got[n][1] = sent[n][1]
         /\ Len(Variants("receiver")[sent[n][1]]) = Len(Variants("sender")[sent[n][1]])
    /\ n \in DOMAIN reply =>
         \A side \in {"sender", "receiver"} :
           LET T == AnswerType(side, sent[n][1])
           IN T.kind = "tuple" => Len(T.fields) = Len(answer[n])
=============================================================================
