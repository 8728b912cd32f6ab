------------------------------- MODULE MCChat -------------------------------
(* Instances of Chat for TLC. *)
EXTENDS Chat

AllFaults == FaultKinds

(* Nobody, or so many that the pairs just last, or end with the first client *)
SomeEarlier == {0, 2, 3}
=============================================================================
