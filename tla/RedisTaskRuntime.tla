--------------------------- MODULE RedisTaskRuntime ---------------------------
(***************************************************************************)
(* The distributed task runtime of GovSafeAgent: API-side submit calls and *)
(* reconciliation passes (distributed.py), worker threads woken through    *)
(* the broker (worker_runtime.py, dramatiq_workers.py), and the Redis      *)
(* transactions of module TaskStore they share.  Every await on the store, *)
(* the audit hook, the notifier or the handler is a point where the other  *)
(* actors run, where the process may die and where the call may fail.      *)
(*                                                                         *)
(* Faults are drawn from FaultKinds and at most MaxFaults happen; an audit *)
(* call may fail at any time and is not counted.                           *)
(***************************************************************************)
EXTENDS TaskStore

CONSTANTS
  Reconcilers,  \* background reconciliation loops, one per API process
  FaultKinds,   \* the faults of this instance, a subset of AllFaults
  MaxFaults,    \* bound on the faults of a behaviour
  MaxWakes      \* bound on undelivered wake messages

AllFaults == {"crash", "stall", "heartbeat", "redis", "claim"}
Passers   == Tasks \cup Reconcilers
Members   == Tasks \X Nat

ASSUME RuntimeAssumption ==
  /\ Tasks \cap Reconcilers = {}
  /\ None \notin Reconcilers \cup Members
  /\ FaultKinds \subseteq AllFaults
  /\ MaxFaults \in Nat
  /\ MaxWakes \in Nat \ {0}

VARIABLES
  call,    \* where each submit call is
  pass,    \* the reconciliation pass of each API-side actor
  worker,  \* what each worker thread is doing
  wakes,   \* wake messages in the broker
  trail,   \* per task: the audit stages confirmed for it (history)
  runs,    \* per task: handler invocations started (history)
  faults   \* faults so far

vars == <<storeVars, call, pass, worker, wakes, trail, runs, faults>>

CallEnds   == {"answered", "raised", "undelivered", "crashed"}
CallPoints == CallEnds \cup {"idle", "created", "confirm", "unaudited",
                             "activate", "full", "refused", "deliver"}
WorkPoints == {"idle", "start", "attempt", "invoke", "handler", "retry",
               "complete", "output", "succeed", "report", "fail"}

(* The audit stages; a final_output is known by the status it tells.       *)
FinalOutputs == {"succeeded", "failed", "rejected"}
Stages       == {"task_queued", "task_started", "task_completed"} \cup FinalOutputs

NoPass == [at |-> "off", cur |-> None]
Loop   == [at |-> "ready", cur |-> None]
Rest   == [at |-> "idle", task |-> None, attempt |-> 0, lost |-> FALSE]
Started(t) == [at |-> "start", task |-> t, attempt |-> 0, lost |-> FALSE]

Init ==
  /\ StoreInit
  /\ call = [t \in Tasks |-> "idle"]
  /\ pass = [a \in Passers |-> IF a \in Reconcilers THEN Loop ELSE NoPass]
  /\ worker = [w \in Workers |-> Rest]
  /\ wakes = 0
  /\ trail = [t \in Tasks |-> {}]
  /\ runs = [t \in Tasks |-> 0]
  /\ faults = 0

Fault(kind) ==
  /\ kind \in FaultKinds
  /\ faults < MaxFaults
  /\ faults' = faults + 1

Goto(t, point) == call' = [call EXCEPT ![t] = point]
Ready(a)       == pass' = [pass EXCEPT ![a] = Loop]
Log(t, stage)  == trail' = [trail EXCEPT ![t] = @ \cup {stage}]

-----------------------------------------------------------------------------
(* Submit: RedisDistributedDispatcher.submit.                              *)

submitRest == <<pass, worker, wakes, runs, faults>>

(* create_or_replay makes room before it looks at the idempotency key.     *)
PurgeForRoom(t, old) ==
  /\ call[t] = "idle"
  /\ StoreFull
  /\ purge_oldest_terminal(old)
  /\ UNCHANGED <<call, trail, submitRest>>

RefuseCreate(t) ==
  /\ call[t] = "idle"
  /\ StoreFull
  /\ Terminal = {}
  /\ Goto(t, "raised")
  /\ UNCHANGED <<storeVars, trail, submitRest>>

(* The existing record is read outside the transaction and the replay is   *)
(* audited on the caller's own trace: the record may be purged by then and *)
(* the audit may fail.                                                     *)
Replay(t) ==
  /\ call[t] = "idle"
  /\ ~StoreFull
  /\ Replayed(t) # None
  /\ \E point \in {"answered", "raised"} : Goto(t, point)
  /\ UNCHANGED <<storeVars, trail, submitRest>>

Create(t) ==
  /\ call[t] = "idle"
  /\ create(t)
  /\ Goto(t, "created")
  /\ UNCHANGED <<trail, submitRest>>

AuditQueued(t) ==
  /\ call[t] = "created"
  /\ \/ Exists(t) /\ Log(t, "task_queued") /\ Goto(t, "confirm")
     \/ Goto(t, "unaudited") /\ UNCHANGED trail
  /\ UNCHANGED <<storeVars, submitRest>>

ConfirmQueued(t) ==
  /\ call[t] = "confirm"
  /\ \/ increment_audit(t) /\ Goto(t, "activate")
     \/ ~Exists(t) /\ Goto(t, "unaudited") /\ UNCHANGED storeVars
  /\ UNCHANGED <<trail, submitRest>>

(* Both ways of rejecting raise if the record was purged meanwhile.        *)
RejectUnaudited(t) ==
  /\ call[t] = "unaudited"
  /\ \/ reject(t)
     \/ ~Exists(t) /\ UNCHANGED storeVars
  /\ Goto(t, "raised")
  /\ UNCHANGED <<trail, submitRest>>

Activate(t) ==
  /\ call[t] = "activate"
  /\ activate(t)
  /\ Goto(t, "deliver")
  /\ Ready(t)
  /\ UNCHANGED <<trail, worker, wakes, runs, faults>>

ActivateRaises(t) ==
  /\ call[t] = "activate"
  /\ \/ ActivateFull(t) /\ Goto(t, "full")
     \/ status[t] # "queued" /\ Goto(t, "raised")
  /\ UNCHANGED <<storeVars, trail, submitRest>>

RejectFull(t) ==
  /\ call[t] = "full"
  /\ \/ reject(t) /\ Goto(t, "refused")
     \/ ~Exists(t) /\ Goto(t, "raised") /\ UNCHANGED storeVars
  /\ UNCHANGED <<trail, submitRest>>

(* The rejection is audited, even that of a task which by now has another  *)
(* outcome, and backpressure or the audit failure raised.                  *)
AuditRejected(t) ==
  /\ call[t] = "refused"
  /\ (Exists(t) /\ Log(t, "rejected")) \/ UNCHANGED trail
  /\ Goto(t, "raised")
  /\ UNCHANGED <<storeVars, submitRest>>

(* The store call the submit is at fails with something else than          *)
(* backpressure; the caller cannot tell whether Redis has applied it.      *)
StoreCall(t) ==
  \/ call[t] = "idle" /\ create(t)
  \/ call[t] = "confirm" /\ increment_audit(t)
  \/ call[t] = "activate" /\ activate(t)
  \/ call[t] \in {"unaudited", "full"} /\ reject(t)

CallFails(t) ==
  /\ call[t] \in {"idle", "confirm", "activate", "unaudited", "full"}
  /\ Fault("redis")
  /\ StoreCall(t) \/ UNCHANGED storeVars
  /\ Goto(t, IF call[t] = "confirm" THEN "unaudited" ELSE "raised")
  /\ UNCHANGED <<pass, worker, wakes, trail, runs>>

(* The API process of an unfinished call dies.                             *)
CallCrash(t) ==
  /\ call[t] \notin CallEnds \cup {"idle"}
  /\ Fault("crash")
  /\ Goto(t, "crashed")
  /\ pass' = [pass EXCEPT ![t] = NoPass]
  /\ UNCHANGED <<storeVars, worker, wakes, trail, runs>>

SubmitStep(t) ==
  \/ \E old \in Tasks : PurgeForRoom(t, old)
  \/ RefuseCreate(t) \/ Replay(t) \/ Create(t) \/ AuditQueued(t)
  \/ ConfirmQueued(t) \/ RejectUnaudited(t) \/ Activate(t)
  \/ ActivateRaises(t) \/ RejectFull(t) \/ AuditRejected(t)

-----------------------------------------------------------------------------
(* Reconciliation, _reconcile_once: run again and again by a background    *)
(* loop, and once by a submit call whose task was activated.  A pass works *)
(* through three lists (expired leases, overdue staging entries, outbox);  *)
(* a list is only a hint, each item is read again before it is touched, so *)
(* an item is taken straight from the store and the order is left open.    *)

passRest == <<worker, trail, runs, faults>>

Working(a) == pass[a].at = "ready"

(* A pass that ended or raised: the loop goes on at its next interval, the *)
(* submit call answers with the record or raises ("undelivered").          *)
EndPass(a, point) ==
  IF a \in Reconcilers THEN Ready(a) /\ UNCHANGED call
  ELSE pass' = [pass EXCEPT ![a] = NoPass] /\ Goto(a, point)

Recover(a, t) ==
  /\ Working(a)
  /\ recover_one(t)
  /\ UNCHANGED <<call, pass, wakes, passRest>>

StagingRead_WithoutAudit(a, t) ==
  /\ Working(a)
  /\ t \in overdue
  /\ pass' = [pass EXCEPT ![a] = [at |-> "activate", cur |-> t]]
  /\ UNCHANGED <<storeVars, call, wakes, passRest>>

StagingRead_WithoutReject(a, t) ==
  /\ Working(a)
  /\ t \in overdue \cap audited
  /\ pass' = [pass EXCEPT ![a] = [at |-> "activate", cur |-> t]]
  /\ UNCHANGED <<storeVars, call, wakes, passRest>>

(* reconcile_staging reads the record and decides here ...                 *)
StagingRead(a, t) ==
  /\ Working(a)
  /\ t \in overdue
  /\ pass' = [pass EXCEPT ![a] =
       [at |-> IF t \in audited THEN "activate" ELSE "reject", cur |-> t]]
  /\ UNCHANGED <<storeVars, call, wakes, passRest>>

(* ... and acts here.  Backpressure and a missing record are passed over,  *)
(* any other refusal aborts the pass.                                      *)
StagingActivate(a) ==
  /\ pass[a].at = "activate"
  /\ LET t == pass[a].cur IN
       \/ activate(t) /\ Ready(a) /\ UNCHANGED call
       \/ /\ ActivateFull(t) \/ ~Exists(t)
          /\ Ready(a) /\ UNCHANGED <<storeVars, call>>
       \/ /\ Exists(t) /\ status[t] # "queued"
          /\ EndPass(a, "undelivered") /\ UNCHANGED storeVars
  /\ UNCHANGED <<wakes, passRest>>

StagingReject(a) ==
  /\ pass[a].at = "reject"
  /\ LET t == pass[a].cur IN reject(t) \/ (~Exists(t) /\ UNCHANGED storeVars)
  /\ Ready(a)
  /\ UNCHANGED <<call, wakes, passRest>>

Notify(a, m) ==
  /\ Working(a)
  /\ m \in outbox
  /\ wakes < MaxWakes
  /\ wakes' = wakes + 1
  /\ pass' = [pass EXCEPT ![a] = [at |-> "acknowledge", cur |-> m]]
  /\ UNCHANGED <<storeVars, call, passRest>>

Acknowledge(a) ==
  /\ pass[a].at = "acknowledge"
  /\ acknowledge_outbox(pass[a].cur)
  /\ Ready(a)
  /\ UNCHANGED <<call, wakes, passRest>>

(* The submit call's pass is over and the record is read back.             *)
PassDone(t) ==
  /\ Working(t)
  /\ EndPass(t, IF Exists(t) THEN "answered" ELSE "undelivered")
  /\ UNCHANGED <<storeVars, wakes, passRest>>

(* A store call of the pass fails.  (A notifier that fails leaves the      *)
(* member in the outbox and the pass running: nothing changes.)            *)
PassFails(a) ==
  /\ (a \in Tasks /\ Working(a)) \/ pass[a].at \in {"activate", "reject", "acknowledge"}
  /\ Fault("redis")
  /\ EndPass(a, "undelivered")
  /\ UNCHANGED <<storeVars, worker, wakes, trail, runs>>

PassStep(a) ==
  \/ StagingActivate(a) \/ StagingReject(a) \/ Acknowledge(a)
  \/ \E t \in Tasks : Recover(a, t) \/ StagingRead(a, t)
  \/ \E m \in outbox : Notify(a, m)

-----------------------------------------------------------------------------
(* Workers: process_next and execute_claimed.  A worker runs one claim at  *)
(* a time, so its name stands for the fresh worker id of that claim.       *)

workRest == <<call, pass, wakes, faults>>

Busy(w)          == worker[w].at # "idle"
Task(w)          == worker[w].task
Step(w, point)   == worker' = [worker EXCEPT ![w].at = point]
Release(w)       == worker' = [worker EXCEPT ![w] = Rest]
Try(w, n)        == worker' = [worker EXCEPT ![w] =
  [@ EXCEPT !.at = IF n > MaxAttempts THEN "report" ELSE "attempt", !.attempt = n]]
Audit(w, stage)  == Exists(Task(w)) /\ Log(Task(w), stage)

Claim(w, t) ==
  /\ ~Busy(w)
  /\ wakes > 0
  /\ claim_next(t, w)
  /\ wakes' = wakes - 1
  /\ worker' = [worker EXCEPT ![w] = Started(t)]
  /\ UNCHANGED <<call, pass, trail, runs, faults>>

ClaimNothing(w) ==
  /\ ~Busy(w)
  /\ wakes > 0
  /\ queue = {}
  /\ wakes' = wakes - 1
  /\ UNCHANGED <<storeVars, call, pass, worker, trail, runs, faults>>

(* claim_next raises, before its transaction or (the metric written after  *)
(* it failed) with the task claimed; the actor has max_retries = 0, so the *)
(* wake is gone.                                                           *)
ClaimFails(w) ==
  /\ ~Busy(w)
  /\ wakes > 0
  /\ \/ Fault("claim") /\ UNCHANGED storeVars
     \/ Fault("redis") /\ \E t \in queue : claim_next(t, w)
  /\ wakes' = wakes - 1
  /\ UNCHANGED <<call, pass, worker, trail, runs>>

(* The attempts already spent are read with the confirmation.              *)
AuditStarted(w) ==
  /\ worker[w].at = "start"
  /\ \/ Audit(w, "task_started") /\ Try(w, attempts[Task(w)] + 1)
     \/ Step(w, "fail") /\ UNCHANGED trail
  /\ UNCHANGED <<storeVars, runs, workRest>>

(* The attempt is written under the lease ...                              *)
BeginAttempt(w) ==
  /\ worker[w].at = "attempt"
  /\ update_attempts(Task(w), w, worker[w].attempt)
  /\ Step(w, "invoke")
  /\ UNCHANGED <<trail, runs, workRest>>

(* ... and the handler called when the worker gets to run again, without   *)
(* another look at the record.                                             *)
StartHandler(w) ==
  /\ worker[w].at = "invoke"
  /\ runs' = [runs EXCEPT ![Task(w)] = @ + 1]
  /\ Step(w, "handler")
  /\ UNCHANGED <<storeVars, trail, workRest>>

(* A worker that lost its lease raises out of execute_claimed.             *)
AttemptRefused(w) ==
  /\ worker[w].at = "attempt"
  /\ ~(Exists(Task(w)) /\ owner[Task(w)] = w)
  /\ Release(w)
  /\ UNCHANGED <<storeVars, trail, runs, workRest>>

(* A result, a permanent error (a lost lease counts as one), a transient.  *)
HandlerReturns(w) ==
  /\ worker[w].at = "handler"
  /\ \/ Step(w, IF worker[w].lost THEN "report" ELSE "complete")
     \/ Step(w, "report")
     \/ worker[w].attempt < MaxAttempts /\ Step(w, "retry")
  /\ UNCHANGED <<storeVars, trail, runs, workRest>>

AuditRetry(w) ==
  /\ worker[w].at = "retry"
  /\ \/ Exists(Task(w)) /\ Try(w, worker[w].attempt + 1)
     \/ Step(w, "report")
  /\ UNCHANGED <<storeVars, trail, runs, workRest>>

AuditCompleted_WithoutFailure(w) ==
  /\ worker[w].at = "complete"
  /\ Audit(w, "task_completed") \/ UNCHANGED trail
  /\ Step(w, "output")
  /\ UNCHANGED <<storeVars, runs, workRest>>

AuditCompleted(w) ==
  /\ worker[w].at = "complete"
  /\ \/ Audit(w, "task_completed") /\ Step(w, "output")
     \/ Step(w, "fail") /\ UNCHANGED trail
  /\ UNCHANGED <<storeVars, runs, workRest>>

AuditOutput(w) ==
  /\ worker[w].at = "output"
  /\ \/ Audit(w, "succeeded") /\ Step(w, "succeed")
     \/ Step(w, "fail") /\ UNCHANGED trail
  /\ UNCHANGED <<storeVars, runs, workRest>>

(* _finish_failure reports a failure that is not an audit's own, and       *)
(* commits it whether or not the report succeeds.                          *)
AuditFailed(w) ==
  /\ worker[w].at = "report"
  /\ Audit(w, "failed") \/ UNCHANGED trail
  /\ Step(w, "fail")
  /\ UNCHANGED <<storeVars, runs, workRest>>

Finish_WithRawStatus(w) ==
  /\ worker[w].at \in {"succeed", "fail"}
  /\ \/ finish(Task(w), w, worker[w].at)
     \/ ~HoldsLease(Task(w), w) /\ UNCHANGED storeVars
  /\ Release(w)
  /\ UNCHANGED <<trail, runs, workRest>>

(* A terminal record is left alone; without the lease finish raises.       *)
Finish(w) ==
  /\ worker[w].at \in {"succeed", "fail"}
  /\ \/ finish(Task(w), w, IF worker[w].at = "succeed" THEN "succeeded" ELSE "failed")
     \/ ~HoldsLease(Task(w), w) /\ UNCHANGED storeVars
  /\ Release(w)
  /\ UNCHANGED <<trail, runs, workRest>>

(* A store call of the worker fails and the exception ends the actor; the  *)
(* attempt may have been written all the same.                             *)
WorkerFails(w) ==
  /\ worker[w].at \in {"attempt", "retry", "succeed", "fail"}
  /\ Fault("redis")
  /\ \/ worker[w].at = "attempt" /\ update_attempts(Task(w), w, worker[w].attempt)
     \/ UNCHANGED storeVars
  /\ Release(w)
  /\ UNCHANGED <<call, pass, wakes, trail, runs>>

(* The worker process dies and is restarted; the broker delivers the wake  *)
(* it had not acknowledged again, at once or as part of a later one.       *)
WorkerCrash(w) ==
  /\ Busy(w)
  /\ Fault("crash")
  /\ Release(w)
  /\ wakes' \in {wakes, wakes + 1} /\ wakes' <= MaxWakes
  /\ UNCHANGED <<storeVars, call, pass, trail, runs>>

(* The heartbeat task extends a held lease, even one past its score, and   *)
(* stops at the first refusal or error.                                    *)
Heartbeat(w) ==
  /\ Busy(w) /\ ~worker[w].lost
  /\ \/ heartbeat(Task(w), w) /\ UNCHANGED worker
     \/ /\ ~HoldsLease(Task(w), w)
        /\ worker' = [worker EXCEPT ![w].lost = TRUE]
        /\ UNCHANGED storeVars
  /\ UNCHANGED <<trail, runs, workRest>>

HeartbeatFails(w) ==
  /\ Busy(w) /\ ~worker[w].lost
  /\ Fault("heartbeat")
  /\ worker' = [worker EXCEPT ![w].lost = TRUE]
  /\ UNCHANGED <<storeVars, call, pass, wakes, trail, runs>>

WorkerStep(w) ==
  \/ \E t \in Tasks : Claim(w, t)
  \/ ClaimNothing(w) \/ AuditStarted(w) \/ BeginAttempt(w) \/ AttemptRefused(w)
  \/ StartHandler(w) \/ HandlerReturns(w) \/ AuditRetry(w) \/ AuditCompleted(w)
  \/ AuditOutput(w) \/ AuditFailed(w) \/ Finish(w)

-----------------------------------------------------------------------------
(* Time.                                                                   *)

timeRest == <<call, pass, worker, wakes, trail, runs>>

StagingAges(t) == staging_ages(t) /\ UNCHANGED <<faults, timeRest>>

(* A lease nobody extends runs out ...                                     *)
Extended(t) == \E w \in Workers : /\ Busy(w) /\ ~worker[w].lost
                                  /\ Task(w) = t /\ owner[t] = w

LeaseExpires(t) ==
  /\ ~Extended(t)
  /\ lease_expires(t)
  /\ UNCHANGED <<faults, timeRest>>

(* ... and so does one whose worker is suspended for too long.             *)
LeaseStalls(t) ==
  /\ Extended(t)
  /\ Fault("stall")
  /\ lease_expires(t)
  /\ UNCHANGED timeRest

FaultStep ==
  \/ \E t \in Tasks : CallFails(t) \/ CallCrash(t) \/ LeaseStalls(t)
  \/ \E a \in Passers : PassFails(a)
  \/ \E w \in Workers : ClaimFails(w) \/ WorkerFails(w) \/ WorkerCrash(w)
                          \/ HeartbeatFails(w)

Next ==
  \/ \E t \in Tasks : SubmitStep(t) \/ PassDone(t) \/ StagingAges(t) \/ LeaseExpires(t)
  \/ \E a \in Passers : PassStep(a)
  \/ \E w \in Workers : WorkerStep(w) \/ Heartbeat(w)
  \/ FaultStep

Spec == Init /\ [][Next]_vars

(* A submit call, a loop and a worker keep running until they fail; time   *)
(* passes.  Nothing is assumed of clients, faults or heartbeats.           *)
Fairness ==
  /\ \A t \in Tasks : /\ WF_vars(call[t] # "idle" /\ SubmitStep(t))
                      /\ WF_vars(PassDone(t))
                      /\ WF_vars(StagingAges(t))
                      /\ WF_vars(LeaseExpires(t))
  /\ \A a \in Passers : WF_vars(StagingActivate(a) \/ StagingReject(a) \/ Acknowledge(a))
  /\ \A r \in Reconcilers, t \in Tasks :
       /\ SF_vars(Recover(r, t))
       /\ SF_vars(StagingRead(r, t))
       /\ SF_vars(\E m \in outbox : m[1] = t /\ Notify(r, m))
  /\ \A w \in Workers : WF_vars(WorkerStep(w))

FairSpec == Spec /\ Fairness

-----------------------------------------------------------------------------
(* Properties.                                                             *)

PassStates == [at: {"off", "ready"}, cur: {None}]
                \cup [at: {"activate", "reject"}, cur: Tasks]
                \cup [at: {"acknowledge"}, cur: Members]

BusyStates == [at: WorkPoints \ {"idle"}, task: Tasks, attempt: Nat, lost: BOOLEAN]
WorkStates == {Rest} \cup BusyStates

TypeOK ==
  /\ StoreTypeOK
  /\ call \in [Tasks -> CallPoints]
  /\ pass \in [Passers -> PassStates]
  /\ worker \in [Workers -> WorkStates]
  /\ wakes \in Nat
  /\ trail \in [Tasks -> SUBSET Stages]
  /\ runs \in [Tasks -> Nat]
  /\ faults \in Nat

(* The handler of a task is started at most max_attempts times, whatever   *)
(* crashes, lost leases and redeliveries happen in between.                *)
AttemptsBounded == \A t \in Tasks : runs[t] <= MaxAttempts

(* No handler starts before the stages task_queued and task_started of its *)
(* task are confirmed (docs/task_runtime.md: if the enqueue audit fails    *)
(* the handler does not start).                                            *)
HandlerNeedsAudit ==
  \A t \in Tasks : runs[t] > 0 => {"task_queued", "task_started"} \subseteq trail[t]

(* A success is published only with its four audit stages confirmed, the   *)
(* last of them telling of a success (docs/task_runtime.md: every          *)
(* successful task records task_queued, task_started, task_completed and   *)
(* final_output).                                                          *)
SuccessIsAudited ==
  \A t \in Tasks : status[t] = "succeeded" =>
    {"task_queued", "task_started", "task_completed", "succeeded"} \subseteq trail[t]

(* A trail tells of a success only after a completion, of a completion     *)
(* only after a handler was started, of a failure only after a worker      *)
(* announced the task, and of a rejection only of a queued task.           *)
OutcomesInOrder ==
  \A t \in Tasks : /\ "succeeded" \in trail[t] => "task_completed" \in trail[t]
                   /\ "task_completed" \in trail[t] => runs[t] > 0
                   /\ "failed" \in trail[t] => "task_started" \in trail[t]
                   /\ "rejected" \in trail[t] => "task_queued" \in trail[t]

(* The stages of a task come in their order, and a handler between those   *)
(* that announce it and those that tell of its outcome, whichever workers  *)
(* wrote them: a worker whose lease was recovered goes on auditing until   *)
(* finish refuses it, and a trail may tell of more than one outcome        *)
(* (worker_runtime.py:75, distributed.py:195).                             *)
TrailInOrder == HandlerNeedsAudit /\ OutcomesInOrder

(* The pool holds at most queue_capacity + workers tasks, although         *)
(* recovery puts tasks back into the queue without looking at its length.  *)
CapacityRespected == Cardinality(queue) + Cardinality(Leased) <= Capacity

(* The idempotency index names exactly the recorded keyed tasks: a retry   *)
(* finds the record of its first submission, and no key is left pointing   *)
(* at a record that was purged to make room.                               *)
KeyIndex ==
  /\ \A k \in Keys : idem[k] # None => Exists(idem[k]) /\ KeyOf[idem[k]] = k
  /\ \A t \in Records : KeyOf[t] # None => idem[KeyOf[t]] = t

(* Every queued task is still announced: there are at least as many wakes  *)
(* and unnotified outbox entries as tasks waiting in the queue.  It is the *)
(* reason why acknowledging after notifying, and a fresh outbox entry per  *)
(* recovery, are enough to lose no task.                                   *)
Notified == {m \in outbox : \E a \in Passers : pass[a].at = "acknowledge" /\ pass[a].cur = m}
QueueAnnounced == Cardinality(queue) <= wakes + Cardinality(outbox \ Notified)

(* With all faults: the tasks waiting beyond what is announced become more *)
(* only when a claim raises before its transaction (ClaimFails), and then  *)
(* by one.  No crash, lost answer, stall or redelivery, and no race of two *)
(* passes over one outbox entry, loses an announcement.                    *)
Shortfall == Cardinality(queue) - wakes - Cardinality(outbox \ Notified)
ClaimLost == \E w \in Workers : ClaimFails(w) /\ UNCHANGED queue
OnlyClaimsLoseWakes ==
  [][ \/ Shortfall' <= Shortfall
      \/ Shortfall' <= 0
      \/ ClaimLost /\ Shortfall' = Shortfall + 1 ]_vars

(* A client sees the contract of module TaskContract.                      *)
Phase(t) == CASE status[t] = "absent"        -> "unknown"
              [] status[t] \in LiveStatuses  -> "open"
              [] status[t] = "purged"        -> "forgotten"
              [] OTHER                       -> status[t]

Contract == INSTANCE TaskContract WITH phase   <- [t \in Tasks |-> Phase(t)],
                                       granted <- attempts
KeepsContract == Contract!Spec

(* Every recorded task gets an outcome.                                    *)
EventuallyDecided ==
  \A t \in Tasks : (status[t] \in LiveStatuses) ~> (status[t] \notin LiveStatuses)

(* A submit call whose task is queued does not fail because the delivery   *)
(* it attempts itself did: that delivery is "best-effort", its failure     *)
(* "leaves the durable outbox intact" (distributed.py:201).                *)
DeliveryIsBestEffort == \A t \in Tasks : call[t] # "undelivered"

(* A task that entered the queue does not stay there: "the reconciler      *)
(* retries without losing the accepted task" (distributed.py:202).         *)
QueuedTaskNotLost == \A t \in Tasks : (t \in queue) ~> (t \notin queue)
=============================================================================
