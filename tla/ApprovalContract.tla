--------------------------- MODULE ApprovalContract ---------------------------
(***************************************************************************)
(* What an approver and a requester may rely on: a request is granted or   *)
(* closed by one decision, a grant is used at most once and in time, only  *)
(* a used grant leads to an execution, and what is closed stays closed     *)
(* (docs: requested, approved or masked, denied, expired, revoked,         *)
(* consumed).                                                              *)
(***************************************************************************)
CONSTANT Requests

VARIABLES phase, expired, executed

Init ==
  /\ phase = [c \in Requests |-> "none"]
  /\ expired = {}
  /\ executed = {}

Move(c, from, to) ==
  /\ phase[c] \in from
  /\ phase' = [phase EXCEPT ![c] = to]
  /\ UNCHANGED <<expired, executed>>

Ask(c)   == Move(c, {"none"}, "pending")
Grant(c) == c \notin expired /\ Move(c, {"pending"}, "granted")
Close(c) == Move(c, {"pending", "granted"}, "closed")
Use(c)   == c \notin expired /\ Move(c, {"granted"}, "used")

Execute(c) ==
  /\ phase[c] = "used"
  /\ c \notin executed
  /\ executed' = executed \cup {c}
  /\ UNCHANGED <<phase, expired>>

Age(c) ==
  /\ expired' = expired \cup {c}
  /\ UNCHANGED <<phase, executed>>

Next == \E c \in Requests : Ask(c) \/ Grant(c) \/ Close(c) \/ Use(c) \/ Execute(c) \/ Age(c)

Spec == Init /\ [][Next]_<<phase, expired, executed>>
=============================================================================
