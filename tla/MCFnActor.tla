------------------------------ MODULE MCFnActor ------------------------------
(* Instances of FnActor for TLC. *)
EXTENDS FnActor, TLC

CONSTANTS base, d1, d2, x, y, z

Built(kinds, parents, passes, sends, faults) ==
  [kind |-> base :> kinds[1] @@ d1 :> kinds[2] @@ d2 :> kinds[3],
   parent |-> base :> None @@ d1 :> parents[1] @@ d2 :> parents[2],
   forwards |-> base :> {} @@ d1 :> passes[1] @@ d2 :> passes[2],
   sends |-> sends, faults |-> faults]

(* A full channel behind a filter; actors derived one from the other, and  *)
(* the limit of a thread-local channel, where anything may end.            *)
Busy == Built(<<"fn", "filter", "unused">>, <<base, None>>, <<{x, y}, {}>>, {x, y, z}, {"return"})
Pair == Built(<<"fn", "map", "unused">>, <<base, None>>, <<{x, y}, {}>>, {x, y}, FaultKinds)
Chain == Built(<<"fn", "map", "map">>, <<base, d1>>, <<{x}, {x}>>, {x}, FaultKinds)
Limit == Built(<<"local", "filter", "unused">>, <<base, None>>, <<{x, y}, {}>>, {x, y, z}, {"return", "panic"})

AllApplications == {Busy, Pair, Chain, Limit}
=============================================================================
