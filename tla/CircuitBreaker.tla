---------------------------- MODULE CircuitBreaker ----------------------------
(***************************************************************************)
(* The two circuit breakers of GovSafeAgent as operations on one breaker:  *)
(* ProviderCircuitBreaker (safeagent_gov/model_gateway/resilience.py) and  *)
(* CircuitBreaker (agent_demo/planners/resilience.py).  Every method holds *)
(* the breaker's lock, so each is one step of the module that uses it.     *)
(*                                                                         *)
(* Of the clock only one thing matters: whether recovery_seconds have gone *)
(* by since opened_at.  opened is "no" for None, "open" before and "ripe"  *)
(* after that moment.                                                      *)
(*                                                                         *)
(* An operator named X_Without... or X_With... is X with a plausible bug,  *)
(* kept to show that a property notices it.                                *)
(***************************************************************************)
EXTENDS Naturals

Breakers == [failures: Nat, opened: {"no", "open", "ripe"}, probe: BOOLEAN]
Closed   == [failures |-> 0, opened |-> "no", probe |-> FALSE]

(* allow_call and before_call let a call pass; an open breaker whose       *)
(* recovery time is over lets one pass as its half-open probe.             *)
Permits(b)   == b.opened # "open" /\ ~b.probe
PermitsAsProbe(b) == b.opened = "ripe" /\ ~b.probe

(* The Model Gateway's breaker keeps its failure count while half open,    *)
(* the planner's sets it one below the threshold and does not look at      *)
(* probe when it opens half way.                                           *)
allow_call_WithoutProbe(b) == [b EXCEPT !.opened = "no"]
allow_call(b) ==
  IF PermitsAsProbe(b) THEN [b EXCEPT !.opened = "no", !.probe = TRUE] ELSE b

Admits(b) == IF b.opened = "no" THEN ~b.probe ELSE b.opened = "ripe"
before_call(b, threshold) ==
  IF b.opened = "ripe"
    THEN [failures |-> threshold - 1, opened |-> "no", probe |-> TRUE]
    ELSE b

record_success_WithoutReset(b) == [b EXCEPT !.opened = "no", !.probe = FALSE]
record_success(b) == Closed

record_failure_WithoutRelease(b, threshold) ==
  [b EXCEPT !.failures = @ + 1,
            !.opened   = IF b.failures + 1 >= threshold THEN "open" ELSE @]
record_failure(b, threshold) ==
  [failures |-> b.failures + 1,
   opened   |-> IF b.failures + 1 >= threshold THEN "open" ELSE b.opened,
   probe    |-> FALSE]

Recovered(b) == [b EXCEPT !.opened = "ripe"]
=============================================================================
