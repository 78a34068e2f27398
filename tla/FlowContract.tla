----------------------------- MODULE FlowContract -----------------------------
(***************************************************************************)
(* What somebody who asked for a task, or reads its trace, may rely on,    *)
(* whatever fails in the agent flow: the calls of one plan are executed in *)
(* their order, each at most once, and none once the task is answered; the *)
(* answer agrees with what was executed; and it is taken back at most      *)
(* once, to say blocked (finish, nodes.py).                                *)
(***************************************************************************)
EXTENDS Naturals, Sequences

CONSTANTS
  Agents,   \* the tasks
  MaxCalls  \* bound on the tool calls of a plan

VARIABLES
  stage,    \* open, answered, closed, or raised: ended by an exception
  planned,  \* the number of calls of the plan
  ran,      \* the calls that were executed
  outputs   \* the answers given

Init ==
  /\ stage = [a \in Agents |-> "open"]
  /\ planned = [a \in Agents |-> 0]
  /\ ran = [a \in Agents |-> {}]
  /\ outputs = [a \in Agents |-> <<>>]

Statuses == {"routing_failed", "planning_failed", "blocked", "partially_blocked", "pending_approval",
             "completed"}

Plan(a) ==
  /\ stage[a] = "open"
  /\ planned[a] = 0 /\ ran[a] = {}
  /\ \E n \in 0..MaxCalls : planned' = [planned EXCEPT ![a] = n]
  /\ UNCHANGED <<stage, ran, outputs>>

Execute(a) ==
  /\ stage[a] = "open"
  /\ \E i \in 1..planned[a] :
       /\ \A j \in ran[a] : j < i
       /\ ran' = [ran EXCEPT ![a] = @ \cup {i}]
  /\ UNCHANGED <<stage, planned, outputs>>

(* A task that was stopped ran nothing, a completed one everything.        *)
Truthful(a, status) ==
  /\ status \in {"routing_failed", "planning_failed", "blocked"} => ran[a] = {}
  /\ status = "completed" => ran[a] = 1..planned[a]
Answer(a) ==
  /\ stage[a] = "open"
  /\ stage' = [stage EXCEPT ![a] = "answered"]
  /\ \E status \in Statuses :
       Truthful(a, status) /\ outputs' = [outputs EXCEPT ![a] = Append(@, status)]
  /\ UNCHANGED <<planned, ran>>

Close(a) ==
  /\ stage[a] = "answered"
  /\ stage' = [stage EXCEPT ![a] = "closed"]
  /\ \/ UNCHANGED outputs
     \/ outputs' = [outputs EXCEPT ![a] = Append(@, "blocked")]
  /\ UNCHANGED <<planned, ran>>

(* The plan is forgotten, not what was executed or answered.               *)
Fail(a) ==
  /\ stage[a] \in {"open", "answered"}
  /\ stage' = [stage EXCEPT ![a] = "raised"]
  /\ planned' = [planned EXCEPT ![a] = 0]
  /\ UNCHANGED <<ran, outputs>>

Next == \E a \in Agents : Plan(a) \/ Execute(a) \/ Answer(a) \/ Close(a) \/ Fail(a)

Spec == Init /\ [][Next]_<<stage, planned, ran, outputs>>
=============================================================================
