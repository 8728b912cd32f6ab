------------------------- MODULE MCWebSocketConduit -------------------------
(* Instances of WebSocketConduit for TLC. *)
EXTENDS WebSocketConduit

TwoFrames == {[type |-> "Handshake", body |-> 0], [type |-> "Content", body |-> 1]}
AllLibraries == LibraryKinds
AllFaults == FaultKinds
=============================================================================
