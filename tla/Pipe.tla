-------------------------------- MODULE Pipe --------------------------------
(***************************************************************************)
(* What a portal counts on from one direction of its conduit: the frames   *)
(* that are given to the sink come out of the other side's source in their *)
(* order, each once and whole, until the source ends; from then on none    *)
(* does.  The end may lose any frames that are still under way.            *)
(*                                                                         *)
(* Portal.tla is built on this; ByteConduit.tla and WebSocketConduit.tla   *)
(* implement it.                                                           *)
(***************************************************************************)
EXTENDS Naturals, Sequences

CONSTANT Frame

VARIABLES
  sent,      \* the frames that were given to the sink
  received,  \* those that the receive loop got from the source
  source     \* whether the source still yields

vars == <<sent, received, source>>

Init ==
  /\ sent = <<>> /\ received = <<>>
  /\ source = "yields"

Send ==
  /\ \E f \in Frame : sent' = Append(sent, f)
  /\ UNCHANGED <<received, source>>

Receive ==
  /\ source = "yields"
  /\ Len(received) < Len(sent)
  /\ received' = Append(received, sent[Len(received) + 1])
  /\ UNCHANGED <<sent, source>>

End ==
  /\ source = "yields"
  /\ source' = "ended"
  /\ UNCHANGED <<sent, received>>

Next == Send \/ Receive \/ End

Spec == Init /\ [][Next]_vars
=============================================================================
