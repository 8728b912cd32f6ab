---------------------------- MODULE MCReplyPort ----------------------------
(* Instances of ReplyPort for TLC. *)
EXTENDS ReplyPort, TLC

CONSTANTS c1, c2

Calls(homes, calls, timed, faults) ==
  [home |-> c1 :> homes[1] @@ c2 :> homes[2], calls |-> calls, timed |-> timed, faults |-> faults]

(* Two calls, and one among breaks and stops *)
SameWay == Calls(<<"a", "a">>, {c1, c2}, {}, {})
Alone == Calls(<<"a", "b">>, {c1}, {c1}, FaultKinds)

AllSettings == {SameWay, Alone}
=============================================================================
