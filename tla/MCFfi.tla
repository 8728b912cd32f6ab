------------------------------- MODULE MCFfi -------------------------------
(* Instances of Ffi for TLC. *)
EXTENDS Ffi

(* A call to the hub and one to the chat server, as the network breaks or  *)
(* the server is stopped                                                   *)
AllSettings == {[calls |-> 2, faults |-> {f}] : f \in FaultKinds}
=============================================================================
