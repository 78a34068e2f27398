----------------------------- MODULE SkillExecutor -----------------------------
(***************************************************************************)
(* One execution of a skill by SkillExecutor.execute of GovSafeAgent       *)
(* (safeagent_gov/skill_runtime/executor.py): every response it may give,  *)
(* with the events its audits leave in the trace.                          *)
(*                                                                         *)
(* An audit is written and confirmed, or it raises; one that runs into its *)
(* time limit is given up while its thread goes on, and its event is       *)
(* written all the same: it is late.  asyncio.run waits for such threads   *)
(* before the caller goes on.  Metrics are left out, and so is the wait    *)
(* for a slot, which ends with an execution of another caller.             *)
(*                                                                         *)
(* An operator named X_Without... or X_With... is X with a plausible bug,  *)
(* kept to show that a property notices it.                                *)
(***************************************************************************)
EXTENDS Naturals

Policies == {"block", "continue_with_warning"}

(* SkillDefinition: a mandatory skill must block when it fails.            *)
Manifests ==
  {m \in [enabled: BOOLEAN, mandatory: BOOLEAN, policy: Policies, retries: 0..3] :
     m.mandatory => m.policy = "block"}

Audits == {"written", "late", "lost"}
Confirmed(audit)   == audit = "written"
Told(event, audit) == IF audit = "lost" THEN {} ELSE {event}

(* _response: what its policy makes of a failure, which is to block when   *)
(* the audit of the end is not confirmed.                                  *)
Status(success, policy) ==
  IF success THEN "completed" ELSE IF policy = "block" THEN "blocked" ELSE "completed_with_warning"
Response(m, audit, success, attempts, told) ==
  [success |-> success, attempts |-> attempts, audit_complete |-> Confirmed(audit), told |-> told,
   status |-> Status(success, IF Confirmed(audit) THEN m.policy ELSE "block")]

(* Disabled, at the wrong stage, unbound, or with parameters missing or    *)
(* unknown: the handler is not called.                                     *)
Rejected(m) == {Response(m, audit, FALSE, 0, Told("rejected", audit)) : audit \in Audits}

(* Nor is it without the confirmed audit of the start.                     *)
Unstarted(m) ==
  {Response(m, audit, FALSE, 0, Told("started", audit)) : audit \in Audits \ {"written"}}

(* The attempts.  One that times out or raises SkillTransientError is      *)
(* repeated after the audit of the retry; every other error ends the       *)
(* execution, as does a retry that cannot be audited.                      *)
Runs(m) ==
  {r \in [attempts: 1..(m.retries + 1), ended: {"answered", "failed", "unaudited"}, retried: BOOLEAN] :
     /\ r.ended = "unaudited" => r.attempts <= m.retries
     /\ r.attempts > 1 => r.retried
     /\ r.retried => r.attempts > 1 \/ r.ended = "unaudited"}
Begun(r) == IF r.retried THEN {"started", "retry"} ELSE {"started"}

Failed(m, r) ==
  {Response(m, audit, FALSE, r.attempts, Begun(r) \cup Told("failed", audit)) : audit \in Audits}

(* An answer counts only with the confirmed audit of its completion.       *)
Completed_WithoutAudit(m, r) ==
  {Response(m, audit, TRUE, r.attempts, Begun(r) \cup Told("completed", audit)) : audit \in Audits}
Completed(m, r) ==
  {Response(m, audit, Confirmed(audit), r.attempts, Begun(r) \cup Told("completed", audit)) :
     audit \in Audits}

Ran(m, r) == IF r.ended = "answered" THEN Completed(m, r) ELSE Failed(m, r)

Executions(m) ==
  Rejected(m) \cup (IF m.enabled THEN Unstarted(m) \cup UNION {Ran(m, r) : r \in Runs(m)} ELSE {})
=============================================================================
