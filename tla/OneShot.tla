------------------------------ MODULE OneShot ------------------------------
(***************************************************************************)
(* What an RpcReplyPort promises to whoever asks with one, wherever the    *)
(* target is: a call returns once, with the value the target gave for this *)
(* very call, or with an error.                                             *)
(***************************************************************************)
CONSTANTS
  Call,   \* the calls
  Value,  \* what targets answer
  None    \* no value

VARIABLES
  caller,  \* each caller's state
  got,     \* what it was answered
  given    \* what the target gave

vars == <<caller, got, given>>

CallerStates == {"idle", "waiting", "answered", "refused", "timedout"}

Init ==
  /\ caller = [c \in Call |-> "idle"]
  /\ got = [c \in Call |-> None]
  /\ given = [c \in Call |-> None]

Asks(c) ==
  /\ caller[c] = "idle"
  /\ \E state \in {"waiting", "refused"} : caller' = [caller EXCEPT ![c] = state]
  /\ UNCHANGED <<got, given>>

Gives(c, v) ==
  /\ caller[c] # "idle"
  /\ given[c] = None
  /\ given' = [given EXCEPT ![c] = v]
  /\ UNCHANGED <<caller, got>>

Answers(c) ==
  /\ caller[c] = "waiting"
  /\ given[c] # None
  /\ caller' = [caller EXCEPT ![c] = "answered"]
  /\ got' = [got EXCEPT ![c] = given[c]]
  /\ UNCHANGED given

(* The end of a portal refuses several callers at once. *)
Errs(C, error) ==
  /\ C # {} /\ \A c \in C : caller[c] = "waiting"
  /\ caller' = [c \in Call |-> IF c \in C THEN error ELSE caller[c]]
  /\ UNCHANGED <<got, given>>

Next ==
  \/ \E c \in Call : Asks(c) \/ (\E v \in Value : Gives(c, v)) \/ Answers(c)
  \/ \E C \in SUBSET Call, error \in {"refused", "timedout"} : Errs(C, error)

Spec == Init /\ [][Next]_vars
=============================================================================
