------------------------------ MODULE MCNexus ------------------------------
(* Instances of Nexus for TLC. *)
EXTENDS Nexus

AllFaults == FaultKinds
OnlyRefusals == {"refuse"}
=============================================================================
