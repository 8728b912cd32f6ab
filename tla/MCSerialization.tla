-------------------------- MODULE MCSerialization --------------------------
(* Values of the constants of Serialization for TLC. *)
EXTENDS Serialization

MCBase == 4
MCSizeWords == 2
MCChars == {0, 1}
MCTimeouts == {0, 1}
MCNames == <<"Connect", "PostMessage", "ListUsers", "UserConnected", "UserDisconnected",
             "MessageReceived", "Disconnect", "ServerShutdown", "Numbers", "Sizes",
             "Texts", "Wide", "Nested", "Asked", "Nothing">>

(* Every default implementation; Wide has as many fields as a tuple may.   *)
Everything ==
  Enum([Numbers |-> <<Number(1, FALSE), Number(1, TRUE), Bool, Unit>>,
        Sizes |-> <<Size(FALSE), Size(TRUE)>>,
        Texts |-> <<Vec(Text), ChatMessage>>,
        Nested |-> <<Tuple(<<Option(Text), Bool>>), Result(Option(Bool), Text)>>,
        Asked |-> <<RpcReplyPort(Result(Size(FALSE), Text)), ActorRef>>,
        Wide |-> <<Tuple(<<Bool, Unit, Unit, Unit, Unit, Unit, Unit, Unit, Unit, Unit, Unit, Bool>>)>>,
        Nothing |-> <<>>])

(* Versions that add a field, and one to an answer. *)
Older ==
  Enum([PostMessage |-> <<ChatMessage>>, UserConnected |-> <<Number(1, FALSE), Option(Bool)>>,
        Disconnect |-> <<>>, Connect |-> <<RpcReplyPort(Tuple(<<Bool>>))>>])
Newer ==
  Enum([PostMessage |-> <<ChatMessage, Text>>, UserConnected |-> <<Number(1, FALSE)>>,
        Disconnect |-> <<Unit>>, Connect |-> <<RpcReplyPort(Tuple(<<Bool, Unit>>))>>])

Programs(S, sw, R, rw, n) ==
  [types |-> [sender |-> S, receiver |-> R],
   words |-> [sender |-> sw, receiver |-> rw], messages |-> n]
MCLinks ==
  {Programs(Everything, sw, Everything, rw, 1) : sw \in 1..2, rw \in 1..2}
    \cup {Programs(HubMessage, 2, FfiHubMessage, 1, 1),
          Programs(ChatServerMessage, 2, FfiChatServerMessage, 1, 1),
          Programs(FfiChatServerMessage, 1, ChatServerMessage, 2, 1),
          Programs(ChatClientMessage, 2, FfiChatClientMessage, 1, 1),
          Programs(FfiChatClientMessage, 1, ChatClientMessage, 2, 1),
          Programs(Older, 2, Newer, 2, 2), Programs(Newer, 2, Older, 2, 1)}
=============================================================================
