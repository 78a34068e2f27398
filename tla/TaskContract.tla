----------------------------- MODULE TaskContract -----------------------------
(***************************************************************************)
(* What a client of the task runtime may rely on, whatever fails behind    *)
(* it: a recorded task is granted at most MaxAttempts attempts, all of     *)
(* them before its outcome, and its handler is started at most once per    *)
(* attempt; it gets at most one outcome, which is a success only if a      *)
(* handler ran, and is not decided again (docs/task_runtime.md, "status    *)
(* and failure semantics").  An outcome may be forgotten when room is      *)
(* needed.                                                                 *)
(*                                                                         *)
(* Under Spec a granted attempt may start late, even after the outcome:    *)
(* the distributed runtime grants an attempt by a write to Redis and calls *)
(* the handler afterwards.  Under PromptSpec an attempt starts when it is  *)
(* granted, so that no handler is started for a decided task: this is what *)
(* the in-process runtime keeps.                                           *)
(***************************************************************************)
EXTENDS Naturals

CONSTANTS Tasks, MaxAttempts

VARIABLES
  phase,    \* per task: unknown, open, its outcome, or forgotten
  granted,  \* per task: attempts granted
  runs      \* per task: handler invocations started

Outcomes == {"succeeded", "failed", "rejected"}

Init ==
  /\ phase = [t \in Tasks |-> "unknown"]
  /\ granted = [t \in Tasks |-> 0]
  /\ runs = [t \in Tasks |-> 0]

Accept(t) ==
  /\ phase[t] = "unknown"
  /\ phase' = [phase EXCEPT ![t] = "open"]
  /\ UNCHANGED <<granted, runs>>

Grant(t) ==
  /\ phase[t] = "open"
  /\ granted[t] < MaxAttempts
  /\ granted' = [granted EXCEPT ![t] = @ + 1]
  /\ UNCHANGED <<phase, runs>>

Start(t) ==
  /\ runs[t] < granted[t]
  /\ runs' = [runs EXCEPT ![t] = @ + 1]
  /\ UNCHANGED <<phase, granted>>

GrantAndStart(t) ==
  /\ phase[t] = "open"
  /\ granted[t] < MaxAttempts
  /\ granted' = [granted EXCEPT ![t] = @ + 1]
  /\ runs' = [runs EXCEPT ![t] = @ + 1]
  /\ UNCHANGED phase

Decide(t, outcome) ==
  /\ phase[t] = "open"
  /\ outcome = "succeeded" => runs[t] > 0
  /\ phase' = [phase EXCEPT ![t] = outcome]
  /\ UNCHANGED <<granted, runs>>

Forget(t) ==
  /\ phase[t] \in Outcomes
  /\ phase' = [phase EXCEPT ![t] = "forgotten"]
  /\ UNCHANGED <<granted, runs>>

Record(t) == Accept(t) \/ Forget(t) \/ \E outcome \in Outcomes : Decide(t, outcome)

Next       == \E t \in Tasks : Record(t) \/ Grant(t) \/ Start(t)
PromptNext == \E t \in Tasks : Record(t) \/ GrantAndStart(t)

Spec       == Init /\ [][Next]_<<phase, granted, runs>>
PromptSpec == Init /\ [][PromptNext]_<<phase, granted, runs>>
=============================================================================
