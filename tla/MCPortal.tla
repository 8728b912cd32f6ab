------------------------------ MODULE MCPortal ------------------------------
(* Instances of Portal for TLC. *)
EXTENDS Portal, TLC

CONSTANTS n1, n2

(* contributions as sets of bits *)
TwoContributions == {{0}, {0, 1}}

BothSides == {"a", "b"}
ConnectionFaults == {"timeout", "break", "stop"}

(* Side b queries what side a publishes. *)
Quiet == [server |-> {"a"}, client |-> {"b"}, asks |-> {"query"}, faults |-> {},
          halves |-> "owned", contributions |-> {{0}}, names |-> {n1},
          offers |-> 2, asking |-> 2, messages |-> 0]

Opening == [Quiet EXCEPT !.client = BothSides, !.asks = AskKinds, !.faults = ConnectionFaults,
                         !.contributions = TwoContributions, !.offers = 1, !.asking = 1]
Lookups == [Quiet EXCEPT !.names = {n1, n2}]
Messages == [Quiet EXCEPT !.server = BothSides, !.client = BothSides, !.offers = 1, !.asking = 1,
                          !.messages = 2]
Exiting == [Quiet EXCEPT !.faults = {"exit"}]
ExitingWithMessages == [Exiting EXCEPT !.offers = 1, !.messages = 1]
SafetySettings == {Opening, Lookups, Messages, Exiting, ExitingWithMessages}

(* Both sides only ask, over either kind of transport; two ask at once and *)
(* a portal is stopped; one proxy may be replaced by another.              *)
Asking(halves) == [Opening EXCEPT !.server = {}, !.halves = halves, !.contributions = {{0}}]
AskingTwice == [Asking("owned") EXCEPT !.faults = {"stop"}, !.asking = 2]
Linking == [Exiting EXCEPT !.offers = 1]
LivenessSettings == {Asking(h) : h \in HalvesKinds} \cup {AskingTwice, Linking}
LinkingSettings == {Linking}

Interchangeable ==
  Permutations(Actor) \cup Permutations(OpaqueActorId) \cup Permutations(Asker)
    \cup Permutations(Msg)
=============================================================================
