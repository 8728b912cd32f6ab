--------------------------- MODULE MCByteConduit ---------------------------
(* Instances of ByteConduit for TLC. *)
EXTENDS ByteConduit

(* Payloads that look like a type or a length, and one that is too long *)
SomeData == {<<>>, <<2>>, <<1, 0>>, <<1, 0, 0, 1>>}
SomeText == {<<>>, <<2>>}
AllFaults == FaultKinds
=============================================================================
