------------------------ MODULE RedisTaskRuntimeProofs ------------------------
(***************************************************************************)
(* Proofs about the distributed task runtime, for every number of tasks,   *)
(* workers, keys and reconcilers, every capacity, and any faults.          *)
(*                                                                         *)
(* The store is reached through its transactions only (StoreOnly), so what *)
(* concerns the store alone is proved per transaction of module TaskStore; *)
(* what relates the store to the actors is proved per action.              *)
(***************************************************************************)
EXTENDS RedisTaskRuntime, FiniteSetTheorems, TLAPS

-----------------------------------------------------------------------------
(* The store on its own.                                                   *)

(* Every transaction keeps the store well typed.                           *)
LEMMA StoreTyping ==
  ASSUME StoreTypeOK, [StoreNext]_storeVars
  PROVE  StoreTypeOK'
<1> USE StoreAssumption DEF StoreTypeOK, Statuses, LiveStatuses, TerminalStatuses
<1>1. CASE UNCHANGED storeVars
  BY <1>1 DEF storeVars
<1>2. ASSUME NEW t \in Tasks, create(t)
      PROVE  StoreTypeOK'
  BY <1>2 DEF create
<1>3. ASSUME NEW t \in Tasks, purge_oldest_terminal(t)
      PROVE  StoreTypeOK'
  BY <1>3 DEF purge_oldest_terminal
<1>4. ASSUME NEW t \in Tasks, increment_audit(t) \/ activate(t) \/ staging_ages(t)
      PROVE  StoreTypeOK'
  BY <1>4 DEF increment_audit, activate, staging_ages
<1>5. ASSUME NEW t \in Tasks, reject(t)
      PROVE  StoreTypeOK'
  BY <1>5 DEF reject, storeVars
<1>6. ASSUME NEW t \in Tasks, recover_one(t)
      PROVE  StoreTypeOK'
  BY <1>6 DEF recover_one
<1>7. ASSUME NEW t \in Tasks, lease_expires(t)
      PROVE  StoreTypeOK'
  BY <1>7 DEF lease_expires
<1>8. ASSUME NEW t \in Tasks, NEW n \in Nat, acknowledge_outbox(<<t, n>>)
      PROVE  StoreTypeOK'
  BY <1>8 DEF acknowledge_outbox
<1>9. ASSUME NEW t \in Tasks, NEW w \in Workers, claim_next(t, w)
      PROVE  StoreTypeOK'
  BY <1>9 DEF claim_next
<1>10. ASSUME NEW t \in Tasks, NEW w \in Workers, heartbeat(t, w)
       PROVE  StoreTypeOK'
  BY <1>10 DEF heartbeat
<1>11. ASSUME NEW t \in Tasks, NEW w \in Workers, NEW n \in Nat, update_attempts(t, w, n)
       PROVE  StoreTypeOK'
  BY <1>11 DEF update_attempts
<1>12. ASSUME NEW t \in Tasks, NEW w \in Workers,
              NEW outcome \in {"succeeded", "failed"}, finish(t, w, outcome)
       PROVE  StoreTypeOK'
  BY <1>12 DEF finish
<1> HIDE DEF StoreTypeOK, Placement
<1> QED
  BY <1>1, <1>2, <1>3, <1>4, <1>5, <1>6, <1>7, <1>8, <1>9, <1>10, <1>11, <1>12 DEF StoreNext

(* Every transaction moves a task from one index to exactly one other.     *)
LEMMA StorePlacement ==
  ASSUME StoreTypeOK, Placement, [StoreNext]_storeVars
  PROVE  Placement'
<1> USE StoreAssumption DEF StoreTypeOK, Placement, Statuses, LiveStatuses, TerminalStatuses
<1>1. CASE UNCHANGED storeVars
  BY <1>1 DEF storeVars
<1>2. ASSUME NEW t \in Tasks, create(t)
      PROVE  Placement'
  BY <1>2 DEF create
<1>3. ASSUME NEW t \in Tasks, purge_oldest_terminal(t)
      PROVE  Placement'
  BY <1>3 DEF purge_oldest_terminal
<1>4. ASSUME NEW t \in Tasks, increment_audit(t) \/ staging_ages(t)
      PROVE  Placement'
  BY <1>4 DEF increment_audit, staging_ages
<1>5. ASSUME NEW t \in Tasks, activate(t)
      PROVE  Placement'
  BY <1>5 DEF activate, AlreadyPlaced
<1>6. ASSUME NEW t \in Tasks, reject(t)
      PROVE  Placement'
  BY <1>6 DEF reject, storeVars
<1>7. ASSUME NEW t \in Tasks, recover_one(t)
      PROVE  Placement'
  BY <1>7 DEF recover_one
<1>8. ASSUME NEW t \in Tasks, lease_expires(t)
      PROVE  Placement'
  BY <1>8 DEF lease_expires
<1>9. ASSUME NEW t \in Tasks, NEW n \in Nat, acknowledge_outbox(<<t, n>>)
      PROVE  Placement'
  BY <1>9 DEF acknowledge_outbox
<1>10. ASSUME NEW t \in Tasks, NEW w \in Workers, claim_next(t, w)
       PROVE  Placement'
  BY <1>10 DEF claim_next
<1>11. ASSUME NEW t \in Tasks, NEW w \in Workers, heartbeat(t, w)
       PROVE  Placement'
  BY <1>11 DEF heartbeat, HoldsLease
<1>12. ASSUME NEW t \in Tasks, NEW w \in Workers, NEW n \in Nat, update_attempts(t, w, n)
       PROVE  Placement'
  BY <1>12 DEF update_attempts
<1>13. ASSUME NEW t \in Tasks, NEW w \in Workers,
              NEW outcome \in {"succeeded", "failed"}, finish(t, w, outcome)
       PROVE  Placement'
  BY <1>13 DEF finish, HoldsLease
<1> HIDE DEF StoreTypeOK, Placement
<1> QED
  BY <1>1, <1>2, <1>3, <1>4, <1>5, <1>6, <1>7, <1>8, <1>9, <1>10, <1>11, <1>12, <1>13
     DEF StoreNext

-----------------------------------------------------------------------------
(* The runtime and the store.                                              *)

(* A busy worker holds a task and an attempt number (execute_claimed).     *)
LEMMA BusyState ==
  ASSUME TypeOK, NEW w \in Workers, Busy(w)
  PROVE  /\ worker[w] \in BusyStates
         /\ Task(w) \in Tasks
         /\ worker[w].attempt \in Nat
  BY DEF TypeOK, WorkStates, BusyStates, Rest, Busy, Task

(* Moving a busy worker on leaves its state well formed.                   *)
LEMMA BusyUpdate ==
  ASSUME NEW x \in BusyStates, NEW point \in WorkPoints \ {"idle"}, NEW n \in Nat
  PROVE  /\ [x EXCEPT !.at = point] \in BusyStates
         /\ [x EXCEPT !.at = point, !.attempt = n] \in BusyStates
  BY DEF BusyStates

(* So does the heartbeat's cancellation (_heartbeat_loop).                 *)
LEMMA BusyLost ==
  ASSUME NEW x \in BusyStates
  PROVE  [x EXCEPT !.lost = TRUE] \in BusyStates
  BY DEF BusyStates

(* What a worker's step changes of its state, field by field.              *)
LEMMA StepFields ==
  ASSUME TypeOK, NEW w \in Workers, Busy(w), NEW point, Step(w, point)
  PROVE  /\ worker'[w].at = point
         /\ worker'[w].task = worker[w].task
         /\ worker'[w].attempt = worker[w].attempt
         /\ \A v \in Workers \ {w} : worker'[v] = worker[v]
<1>1. worker[w] \in BusyStates
  BY BusyState
<1> QED
  BY <1>1 DEF TypeOK, Step, BusyStates

(* The retry loop of execute_claimed: what moving to attempt n changes.    *)
LEMMA TryFields ==
  ASSUME TypeOK, NEW w \in Workers, Busy(w), NEW n \in Nat, Try(w, n)
  PROVE  /\ worker'[w].at = IF n > MaxAttempts THEN "report" ELSE "attempt"
         /\ worker'[w].task = worker[w].task
         /\ worker'[w].attempt = n
         /\ \A v \in Workers \ {w} : worker'[v] = worker[v]
<1>1. worker[w] \in BusyStates
  BY BusyState
<1> QED
  BY <1>1 DEF TypeOK, Try, BusyStates

(* What a stopped heartbeat changes (_heartbeat_loop): nothing else.       *)
LEMMA LostFields ==
  ASSUME TypeOK, NEW w \in Workers, Busy(w),
         worker' = [worker EXCEPT ![w].lost = TRUE]
  PROVE  \A v \in Workers : /\ worker'[v].at = worker[v].at
                            /\ worker'[v].task = worker[v].task
                            /\ worker'[v].attempt = worker[v].attempt
<1>1. worker[w] \in BusyStates
  BY BusyState
<1> QED
  BY <1>1 DEF TypeOK, BusyStates

(* What the submit calls, passes, workers and faults do to Redis, they do  *)
(* by one transaction per step.                                            *)
LEMMA StoreOnly ==
  ASSUME TypeOK, [Next]_vars
  PROVE  [StoreNext]_storeVars
<1> USE DEF TypeOK
<1>1. CASE UNCHANGED vars
  BY <1>1 DEF vars, storeVars
<1>2. ASSUME NEW t \in Tasks, SubmitStep(t)
      PROVE  [StoreNext]_storeVars
  <2>1. ASSUME NEW old \in Tasks, PurgeForRoom(t, old)
        PROVE  StoreNext
    BY <2>1 DEF PurgeForRoom, StoreNext
  <2>2. CASE RefuseCreate(t) \/ Replay(t) \/ AuditQueued(t) \/ ActivateRaises(t) \/ AuditRejected(t)
    BY <2>2 DEF RefuseCreate, Replay, AuditQueued, ActivateRaises, AuditRejected
  <2>3. CASE Create(t) \/ ConfirmQueued(t) \/ RejectUnaudited(t) \/ Activate(t) \/ RejectFull(t)
    BY <2>3 DEF Create, ConfirmQueued, RejectUnaudited, Activate, RejectFull, StoreNext
  <2> QED
    BY <1>2, <2>1, <2>2, <2>3 DEF SubmitStep
<1>3. ASSUME NEW a \in Passers, PassStep(a)
      PROVE  [StoreNext]_storeVars
  <2>1. ASSUME NEW t \in Tasks, Recover(a, t) \/ StagingRead(a, t)
        PROVE  [StoreNext]_storeVars
    BY <2>1 DEF Recover, StagingRead, StoreNext
  <2>2. ASSUME NEW m \in outbox, Notify(a, m)
        PROVE  [StoreNext]_storeVars
    BY <2>2 DEF Notify
  <2>3. CASE StagingActivate(a) \/ StagingReject(a)
    <3>1. pass[a].cur \in Tasks
      BY <2>3 DEF StagingActivate, StagingReject, PassStates
    <3> QED
      BY <2>3, <3>1 DEF StagingActivate, StagingReject, StoreNext
  <2>4. CASE Acknowledge(a)
    <3>1. pass[a].cur \in Members
      BY <2>4 DEF Acknowledge, PassStates
    <3>2. PICK t \in Tasks, n \in Nat : pass[a].cur = <<t, n>>
      BY <3>1 DEF Members
    <3> QED
      BY <2>4, <3>2 DEF Acknowledge, StoreNext
  <2> QED
    BY <1>3, <2>1, <2>2, <2>3, <2>4 DEF PassStep
<1>4. ASSUME NEW w \in Workers, WorkerStep(w) \/ Heartbeat(w)
      PROVE  [StoreNext]_storeVars
  <2>1. Busy(w) => Task(w) \in Tasks /\ worker[w].attempt \in Nat
    BY BusyState
  <2>2. ASSUME NEW t \in Tasks, Claim(w, t)
        PROVE  [StoreNext]_storeVars
    BY <2>2 DEF Claim, StoreNext
  <2>3. CASE \/ ClaimNothing(w) \/ AuditStarted(w) \/ AttemptRefused(w) \/ StartHandler(w)
             \/ HandlerReturns(w) \/ AuditRetry(w) \/ AuditCompleted(w) \/ AuditOutput(w)
             \/ AuditFailed(w)
    BY <2>3 DEF ClaimNothing, AuditStarted, AttemptRefused, StartHandler, HandlerReturns,
                AuditRetry, AuditCompleted, AuditOutput, AuditFailed
  <2>4. CASE BeginAttempt(w)
    BY <2>1, <2>4 DEF BeginAttempt, Busy, StoreNext
  <2>5. CASE Finish(w)
    <3>1. Task(w) \in Tasks
      BY <2>1, <2>5 DEF Finish, Busy
    <3> QED
      BY <2>5, <3>1 DEF Finish, StoreNext
  <2>6. CASE Heartbeat(w)
    BY <2>1, <2>6 DEF Heartbeat, StoreNext
  <2> QED
    BY <1>4, <2>2, <2>3, <2>4, <2>5, <2>6 DEF WorkerStep
<1>5. CASE FaultStep
  <2>1. ASSUME NEW t \in Tasks, CallFails(t)
        PROVE  [StoreNext]_storeVars
    BY <2>1 DEF CallFails, StoreCall, StoreNext
  <2>2. ASSUME NEW t \in Tasks, CallCrash(t) \/ LeaseStalls(t)
        PROVE  [StoreNext]_storeVars
    BY <2>2 DEF CallCrash, LeaseStalls, StoreNext
  <2>3. ASSUME NEW a \in Passers, PassFails(a)
        PROVE  [StoreNext]_storeVars
    BY <2>3 DEF PassFails
  <2>4. ASSUME NEW w \in Workers, WorkerCrash(w) \/ HeartbeatFails(w)
        PROVE  [StoreNext]_storeVars
    BY <2>4 DEF WorkerCrash, HeartbeatFails
  <2>5. ASSUME NEW w \in Workers, ClaimFails(w)
        PROVE  [StoreNext]_storeVars
    BY <2>5 DEF ClaimFails, StoreNext, StoreTypeOK
  <2>6. ASSUME NEW w \in Workers, WorkerFails(w)
        PROVE  [StoreNext]_storeVars
    <3>1. Task(w) \in Tasks /\ worker[w].attempt \in Nat
      BY <2>6, BusyState DEF WorkerFails, Busy
    <3> QED
      BY <2>6, <3>1 DEF WorkerFails, StoreNext
  <2> QED
    BY <1>5, <2>1, <2>2, <2>3, <2>4, <2>5, <2>6 DEF FaultStep
<1>6. ASSUME NEW t \in Tasks, PassDone(t) \/ StagingAges(t) \/ LeaseExpires(t)
      PROVE  [StoreNext]_storeVars
  BY <1>6 DEF PassDone, StagingAges, LeaseExpires, StoreNext
<1> QED
  BY <1>1, <1>2, <1>3, <1>4, <1>5, <1>6 DEF Next

(* The volatile state of calls, passes, workers and broker keeps its type  *)
(* in every step of the runtime.                                           *)
LEMMA RuntimeTyping ==
  ASSUME TypeOK, [Next]_vars
  PROVE  TypeOK'
<1> USE RuntimeAssumption DEF CallPoints, CallEnds, Stages, FinalOutputs
<1>1. StoreTypeOK'
  BY StoreOnly, StoreTyping DEF TypeOK
<1>2. CASE UNCHANGED vars
  BY <1>1, <1>2 DEF vars, TypeOK
<1>3. ASSUME NEW t \in Tasks, SubmitStep(t)
      PROVE  TypeOK'
  <2>1. t \in Passers /\ Loop \in PassStates
    BY DEF Passers, PassStates, Loop
  <2>2. CASE \/ RefuseCreate(t) \/ Replay(t) \/ Create(t) \/ ConfirmQueued(t)
             \/ RejectUnaudited(t) \/ ActivateRaises(t) \/ RejectFull(t)
             \/ \E old \in Tasks : PurgeForRoom(t, old)
    BY <1>1, <2>2 DEF TypeOK, RefuseCreate, Replay, Create, ConfirmQueued, RejectUnaudited,
                      ActivateRaises, RejectFull, PurgeForRoom, submitRest, Goto
  <2>3. CASE AuditQueued(t) \/ AuditRejected(t)
    BY <1>1, <2>3 DEF TypeOK, AuditQueued, AuditRejected, submitRest, Goto, Log
  <2>4. CASE Activate(t)
    BY <1>1, <2>1, <2>4 DEF TypeOK, Activate, Goto, Ready
  <2> QED
    BY <1>3, <2>2, <2>3, <2>4 DEF SubmitStep
<1>4. ASSUME NEW a \in Passers, PassStep(a)
      PROVE  TypeOK'
  <2>1. Loop \in PassStates /\ NoPass \in PassStates /\ (a \in Tasks \/ a \in Reconcilers)
    BY DEF Passers, PassStates, Loop, NoPass
  <2>2. CASE StagingActivate(a) \/ StagingReject(a) \/ Acknowledge(a)
    BY <1>1, <2>1, <2>2 DEF TypeOK, StagingActivate, StagingReject, Acknowledge, passRest,
                            Ready, EndPass, Goto
  <2>3. ASSUME NEW t \in Tasks, Recover(a, t)
        PROVE  TypeOK'
    BY <1>1, <2>3 DEF TypeOK, Recover, passRest
  <2>4. ASSUME NEW t \in Tasks, StagingRead(a, t)
        PROVE  TypeOK'
    BY <1>1, <2>4 DEF TypeOK, StagingRead, passRest, PassStates
  <2>5. ASSUME NEW m \in outbox, Notify(a, m)
        PROVE  TypeOK'
    <3>1. m \in Members
      BY DEF TypeOK, StoreTypeOK, Members
    <3> QED
      BY <1>1, <2>5, <3>1 DEF TypeOK, Notify, passRest, PassStates
  <2> QED
    BY <1>4, <2>2, <2>3, <2>4, <2>5 DEF PassStep
<1>5. ASSUME NEW w \in Workers, WorkerStep(w) \/ Heartbeat(w)
      PROVE  TypeOK'
  <2> USE DEF WorkPoints
  <2>1. Rest \in WorkStates
    BY DEF WorkStates
  <2>2. ASSUME NEW t \in Tasks, Claim(w, t)
        PROVE  TypeOK'
    <3>1. Started(t) \in WorkStates
      BY DEF WorkStates, BusyStates, Started
    <3> QED
      BY <1>1, <2>2, <3>1 DEF TypeOK, Claim
  <2>3. CASE ClaimNothing(w)
    BY <1>1, <2>3 DEF TypeOK, ClaimNothing
  <2>4. ASSUME NEW point \in WorkPoints \ {"idle"}, Busy(w)
        PROVE  [worker[w] EXCEPT !.at = point] \in WorkStates
    BY <2>4, BusyState, BusyUpdate DEF WorkStates
  <2>5. Busy(w) => Task(w) \in Tasks
    BY BusyState
  <2>try. ASSUME NEW n \in Nat, Busy(w), Try(w, n)
         PROVE  worker' \in [Workers -> WorkStates]
    <3> DEFINE point == IF n > MaxAttempts THEN "report" ELSE "attempt"
    <3>1. point \in WorkPoints \ {"idle"}
      OBVIOUS
    <3>2. [worker[w] EXCEPT !.at = point, !.attempt = n] \in WorkStates
      BY <2>try, <3>1, BusyState, BusyUpdate DEF WorkStates
    <3> QED
      BY <2>try, <3>2 DEF TypeOK, Try
  <2>6. CASE AuditStarted(w)
    <3>1. attempts[Task(w)] + 1 \in Nat
      BY <2>5, <2>6 DEF AuditStarted, Busy, TypeOK, StoreTypeOK
    <3>2. worker' \in [Workers -> WorkStates]
      BY <2>4, <2>6, <2>try, <3>1 DEF TypeOK, AuditStarted, Step, Busy
    <3> QED
      BY <1>1, <2>5, <2>6, <3>2 DEF TypeOK, AuditStarted, Audit, Log, workRest, Busy
  <2>7. CASE BeginAttempt(w) \/ StartHandler(w)
    BY <1>1, <2>4, <2>5, <2>7 DEF TypeOK, BeginAttempt, StartHandler, Step, Busy, workRest
  <2>8. CASE AttemptRefused(w) \/ Finish(w)
    BY <1>1, <2>1, <2>8 DEF TypeOK, AttemptRefused, Finish, Release, workRest
  <2>9. CASE HandlerReturns(w)
    BY <1>1, <2>4, <2>9 DEF TypeOK, HandlerReturns, Step, Busy, workRest
  <2>10. CASE AuditRetry(w)
    <3>1. worker[w].attempt + 1 \in Nat
      BY <2>10, BusyState DEF AuditRetry, Busy
    <3> QED
      BY <1>1, <2>4, <2>10, <2>try, <3>1 DEF TypeOK, AuditRetry, Step, Busy, workRest
  <2>11. CASE AuditCompleted(w) \/ AuditOutput(w) \/ AuditFailed(w)
    BY <1>1, <2>4, <2>5, <2>11 DEF TypeOK, AuditCompleted, AuditOutput, AuditFailed, Audit, Log,
                                   Step, Busy, workRest
  <2>12. CASE Heartbeat(w)
    <3>1. [worker[w] EXCEPT !.lost = TRUE] \in WorkStates
      BY <2>12, BusyState, BusyLost DEF WorkStates, Heartbeat
    <3> QED
      BY <1>1, <2>12, <3>1 DEF TypeOK, Heartbeat, workRest
  <2> QED
    BY <1>5, <2>2, <2>3, <2>6, <2>7, <2>8, <2>9, <2>10, <2>11, <2>12 DEF WorkerStep
<1>6. CASE FaultStep
  <2>1. faults' \in Nat
    BY <1>6 DEF TypeOK, FaultStep, CallFails, CallCrash, LeaseStalls, PassFails, ClaimFails,
                WorkerFails, WorkerCrash, HeartbeatFails, Fault
  <2>2. NoPass \in PassStates /\ Loop \in PassStates /\ Rest \in WorkStates
    BY DEF NoPass, Loop, PassStates, WorkStates
  <2>3. ASSUME NEW t \in Tasks, CallFails(t) \/ CallCrash(t) \/ LeaseStalls(t)
        PROVE  TypeOK'
    BY <1>1, <2>1, <2>2, <2>3 DEF TypeOK, CallFails, CallCrash, LeaseStalls, Goto, timeRest
  <2>4. ASSUME NEW a \in Passers, PassFails(a)
        PROVE  TypeOK'
    BY <1>1, <2>1, <2>2, <2>4 DEF TypeOK, PassFails, EndPass, Ready, Goto, Passers
  <2>5. ASSUME NEW w \in Workers, ClaimFails(w) \/ WorkerFails(w) \/ WorkerCrash(w)
        PROVE  TypeOK'
    BY <1>1, <2>1, <2>2, <2>5 DEF TypeOK, ClaimFails, WorkerFails, WorkerCrash, Release
  <2>6. ASSUME NEW w \in Workers, HeartbeatFails(w)
        PROVE  TypeOK'
    <3>1. [worker[w] EXCEPT !.lost = TRUE] \in WorkStates
      BY <2>6, BusyState, BusyLost DEF WorkStates, HeartbeatFails
    <3> QED
      BY <1>1, <2>1, <2>6, <3>1 DEF TypeOK, HeartbeatFails
  <2> QED
    BY <1>6, <2>3, <2>4, <2>5, <2>6 DEF FaultStep
<1>7. ASSUME NEW t \in Tasks, PassDone(t) \/ StagingAges(t) \/ LeaseExpires(t)
      PROVE  TypeOK'
  <2>1. NoPass \in PassStates /\ Loop \in PassStates /\ t \in Passers
    BY DEF NoPass, Loop, PassStates, Passers
  <2> QED
    BY <1>1, <1>7, <2>1 DEF TypeOK, PassDone, StagingAges, LeaseExpires, EndPass, Ready, Goto,
                            passRest, timeRest
<1> QED
  BY <1>2, <1>3, <1>4, <1>5, <1>6, <1>7 DEF Next

(* An empty store with idle callers and workers is well typed.             *)
LEMMA InitTypeOK == Init => TypeOK
  BY StoreAssumption, RuntimeAssumption
     DEF Init, StoreInit, TypeOK, StoreTypeOK, Statuses, LiveStatuses, TerminalStatuses,
         CallPoints, CallEnds, PassStates, WorkStates, Rest, Loop, NoPass, Passers

(* No task is in any index of an empty store.                              *)
LEMMA InitPlacement == Init => Placement
  BY StoreAssumption DEF Init, StoreInit, Placement

(* The state of store, calls, passes and workers is always well formed: in *)
(* particular a pass acts on a task or an outbox member it has read, and a *)
(* busy worker has a task (RedisDistributedDispatcher, execute_claimed).   *)
THEOREM TypeCorrect == Spec => []TypeOK
<1>1. Init => TypeOK
  BY InitTypeOK
<1>2. TypeOK /\ [Next]_vars => TypeOK'
  BY RuntimeTyping
<1> QED
  BY <1>1, <1>2, PTL DEF Spec

(* No task falls between queue, staging and lease set or into two of them, *)
(* whatever runs concurrently (redis_store.py).                            *)
THEOREM PlacementCorrect == Spec => []Placement
<1>1. Init => Placement
  BY InitPlacement
<1>2. TypeOK /\ Placement /\ [Next]_vars => Placement'
  BY StoreOnly, StorePlacement DEF TypeOK
<1> QED
  BY <1>1, <1>2, TypeCorrect, PTL DEF Spec

-----------------------------------------------------------------------------
(* The inductive invariant of the actors.                                  *)

(* The attempt number a worker carries is the recorded one as long as the  *)
(* task is its own; a worker that lost the task can no longer write it.    *)
AttemptInv ==
  /\ \A t \in Tasks : attempts[t] <= MaxAttempts
  /\ \A w \in Workers :
       /\ worker[w].at = "attempt" =>
            /\ worker[w].attempt <= MaxAttempts
            /\ owner[Task(w)] = w => worker[w].attempt = attempts[Task(w)] + 1
       /\ worker[w].at \in {"invoke", "handler", "retry"} /\ owner[Task(w)] = w =>
            worker[w].attempt = attempts[Task(w)]

(* The workers that have been granted an attempt and not used it: a start  *)
(* is counted only against a written attempt, even when the task has been  *)
(* taken from its worker meanwhile.                                        *)
Invoking(t) == {w \in Workers : worker[w].at = "invoke" /\ Task(w) = t}

RunsCounted ==
  \A t \in Tasks : /\ IsFiniteSet(Invoking(t))
                   /\ runs[t] + Cardinality(Invoking(t)) <= attempts[t]

Begun     == {"attempt", "invoke", "report"}
Tried     == {"handler", "retry", "complete", "output", "succeed"}
Completed == {"output", "succeed"}

(* What the place of a submit call, a pass, a worker or a task says about  *)
(* the audit stages confirmed so far.                                      *)
TaskAudited(t) ==
  /\ t \in audited => "task_queued" \in trail[t]
  /\ t \in queue \/ lease[t] # "none" => t \in audited
  /\ call[t] \in {"confirm", "activate", "full", "refused"} => "task_queued" \in trail[t]
  /\ call[t] = "activate" => t \in audited

WorkAudited(w) ==
  /\ Busy(w) => Task(w) \in audited
  /\ worker[w].at \in Tried \cup Begun => "task_started" \in trail[Task(w)]
  /\ worker[w].at \in Tried => runs[Task(w)] > 0
  /\ worker[w].at \in Completed => "task_completed" \in trail[Task(w)]
  /\ worker[w].at = "succeed" => "succeeded" \in trail[Task(w)]

Success == SuccessIsAudited /\ \A t \in Tasks : status[t] = "succeeded" => runs[t] > 0

AuditInv ==
  /\ \A t \in Tasks : TaskAudited(t)
  /\ \A a \in Passers : pass[a].at = "activate" => pass[a].cur \in audited
  /\ \A w \in Workers : WorkAudited(w)
  /\ HandlerNeedsAudit
  /\ OutcomesInOrder
  /\ Success

Inv == TypeOK /\ Placement /\ AttemptInv /\ RunsCounted /\ AuditInv

(* A step that leaves attempts, handler starts and workers alone and takes *)
(* tasks away from their owners at most.                                   *)
LEMMA AttemptFrame ==
  ASSUME TypeOK, AttemptInv,
         UNCHANGED <<attempts, runs, worker>>,
         \A t \in Tasks : owner'[t] \in {owner[t], None}
  PROVE  AttemptInv'
<1>1. \A w \in Workers : worker[w].at \in {"attempt", "invoke", "handler", "retry"} => Task(w) \in Tasks
  BY BusyState DEF Busy
<1> QED
  BY <1>1, StoreAssumption DEF AttemptInv, Task

(* All the steps that are not a worker's are of that kind.                 *)
LEMMA AttemptOthers ==
  ASSUME TypeOK, AttemptInv,
         \/ UNCHANGED vars
         \/ \E t \in Tasks : \/ SubmitStep(t) \/ PassDone(t) \/ StagingAges(t) \/ LeaseExpires(t)
                             \/ CallFails(t) \/ CallCrash(t) \/ LeaseStalls(t)
         \/ \E a \in Passers : PassStep(a) \/ PassFails(a)
  PROVE  AttemptInv'
<1> USE DEF TypeOK, StoreTypeOK
<1>1. CASE UNCHANGED vars
  BY <1>1, AttemptFrame DEF vars, storeVars
<1>2. ASSUME NEW t \in Tasks, SubmitStep(t)
      PROVE  AttemptInv'
  BY <1>2, AttemptFrame
     DEF SubmitStep, PurgeForRoom, RefuseCreate, Replay, Create, AuditQueued, ConfirmQueued,
         RejectUnaudited, Activate, ActivateRaises, RejectFull, AuditRejected, submitRest,
         storeVars, purge_oldest_terminal, create, increment_audit, reject, activate
<1>3. ASSUME NEW t \in Tasks, PassDone(t) \/ StagingAges(t) \/ LeaseExpires(t) \/ LeaseStalls(t)
      PROVE  AttemptInv'
  BY <1>3, AttemptFrame
     DEF PassDone, StagingAges, LeaseExpires, LeaseStalls, staging_ages, lease_expires,
         passRest, timeRest, storeVars
<1>4. ASSUME NEW t \in Tasks, CallFails(t) \/ CallCrash(t)
      PROVE  AttemptInv'
  BY <1>4, AttemptFrame
     DEF CallFails, CallCrash, StoreCall, create, increment_audit, activate, reject, storeVars
<1>5. ASSUME NEW a \in Passers, PassStep(a)
      PROVE  AttemptInv'
  <2>1. pass[a].at \in {"activate", "reject"} => pass[a].cur \in Tasks
    BY DEF PassStates
  <2> QED
    BY <1>5, <2>1, AttemptFrame
       DEF PassStep, StagingActivate, StagingReject, Acknowledge, Recover, StagingRead, Notify,
           activate, reject, acknowledge_outbox, recover_one, passRest, storeVars
<1>6. ASSUME NEW a \in Passers, PassFails(a)
      PROVE  AttemptInv'
  BY <1>6, AttemptFrame DEF PassFails, storeVars
<1> QED
  BY <1>1, <1>2, <1>3, <1>4, <1>5, <1>6

(* The attempt counter written under the lease keeps bounding the handler  *)
(* starts in every step (update, execute_claimed).                         *)
LEMMA AttemptStep ==
  ASSUME TypeOK, AttemptInv, [Next]_vars
  PROVE  AttemptInv'
<1> USE StoreAssumption DEF TypeOK, StoreTypeOK
<1>1. ASSUME NEW w \in Workers, Busy(w)
      PROVE  Task(w) \in Tasks /\ worker[w].attempt \in Nat
  BY <1>1, BusyState
<1>2. ASSUME NEW w \in Workers, NEW t \in Tasks, ~Busy(w), claim_next(t, w),
             UNCHANGED runs, worker'[w].at \in {"idle", "start"},
             \A v \in Workers \ {w} : worker'[v] = worker[v]
      PROVE  AttemptInv'
  BY <1>1, <1>2 DEF AttemptInv, claim_next, Busy, Task
<1>3. ASSUME NEW w \in Workers, UNCHANGED <<attempts, runs>>,
             worker'[w].at \notin {"attempt", "invoke", "handler", "retry"},
             \A t \in Tasks : owner'[t] \in {owner[t], None},
             \A v \in Workers \ {w} : worker'[v] = worker[v]
      PROVE  AttemptInv'
  BY <1>1, <1>3 DEF AttemptInv, Busy, Task
<1>4. ASSUME NEW w \in Workers, WorkerStep(w) \/ Heartbeat(w)
      PROVE  AttemptInv'
  <2>1. ASSUME NEW t \in Tasks, Claim(w, t)
        PROVE  AttemptInv'
    BY <1>2, <2>1 DEF Claim, Started
  <2>2. CASE ClaimNothing(w)
    BY <2>2, AttemptFrame DEF ClaimNothing, storeVars
  <2>3. CASE AuditStarted(w)
    <3>1. CASE Step(w, "fail")
      BY <1>3, <2>3, <3>1, StepFields DEF AuditStarted, Busy, storeVars
    <3>2. CASE Try(w, attempts[Task(w)] + 1)
      BY <1>1, <2>3, <3>2, TryFields DEF AttemptInv, AuditStarted, Busy, Task, storeVars
    <3> QED
      BY <2>3, <3>1, <3>2 DEF AuditStarted
  <2>start. CASE StartHandler(w)
    BY <1>1, <2>start, StepFields DEF AttemptInv, StartHandler, Busy, Task, storeVars
  <2>4. CASE BeginAttempt(w)
    BY <1>1, <2>4, StepFields DEF AttemptInv, BeginAttempt, update_attempts, Busy, Task
  <2>5. CASE AttemptRefused(w)
    BY <1>3, <2>5 DEF AttemptRefused, Release, Rest, storeVars
  <2>6. CASE HandlerReturns(w)
    <3>1. PICK point \in {"complete", "report", "retry"} : Step(w, point)
      BY <2>6 DEF HandlerReturns
    <3> QED
      BY <1>1, <2>6, <3>1, StepFields DEF AttemptInv, HandlerReturns, Busy, Task, storeVars
  <2>7. CASE AuditRetry(w)
    <3>1. CASE Step(w, "report")
      BY <1>3, <2>7, <3>1, StepFields DEF AuditRetry, Busy, storeVars
    <3>2. CASE Try(w, worker[w].attempt + 1)
      BY <1>1, <2>7, <3>2, TryFields DEF AttemptInv, AuditRetry, Busy, Task, storeVars
    <3> QED
      BY <2>7, <3>1, <3>2 DEF AuditRetry
  <2>8. CASE AuditCompleted(w) \/ AuditOutput(w) \/ AuditFailed(w)
    <3>1. PICK point \in {"output", "succeed", "fail"} : Step(w, point)
      BY <2>8 DEF AuditCompleted, AuditOutput, AuditFailed
    <3> QED
      BY <1>3, <2>8, <3>1, StepFields DEF AuditCompleted, AuditOutput, AuditFailed, Busy, storeVars
  <2>9. CASE Finish(w)
    BY <1>1, <1>3, <2>9 DEF Finish, finish, Release, Rest, Busy, storeVars
  <2>10. CASE Heartbeat(w)
    <3>1. CASE UNCHANGED worker
      BY <2>10, <3>1, AttemptFrame DEF Heartbeat, heartbeat, storeVars
    <3>2. CASE worker' = [worker EXCEPT ![w].lost = TRUE]
      BY <1>1, <2>10, <3>2, LostFields DEF AttemptInv, Heartbeat, heartbeat, Busy, Task, storeVars
    <3> QED
      BY <2>10, <3>1, <3>2 DEF Heartbeat
  <2> QED
    BY <1>4, <2>1, <2>2, <2>3, <2>start, <2>4, <2>5, <2>6, <2>7, <2>8, <2>9, <2>10 DEF WorkerStep
<1>5. ASSUME NEW w \in Workers, ClaimFails(w)
      PROVE  AttemptInv'
  <2>1. CASE UNCHANGED storeVars
    BY <1>5, <2>1, AttemptFrame DEF ClaimFails, storeVars
  <2>2. ASSUME NEW t \in queue, claim_next(t, w)
        PROVE  AttemptInv'
    BY <1>2, <1>5, <2>2 DEF ClaimFails, Busy
  <2> QED
    BY <1>5, <2>1, <2>2 DEF ClaimFails
<1>6. ASSUME NEW w \in Workers, WorkerFails(w)
      PROVE  AttemptInv'
  <2>1. CASE UNCHANGED storeVars
    BY <1>3, <1>6, <2>1 DEF WorkerFails, Release, Rest, storeVars
  <2>2. CASE worker[w].at = "attempt" /\ update_attempts(Task(w), w, worker[w].attempt)
    BY <1>1, <1>6, <2>2 DEF AttemptInv, WorkerFails, update_attempts, Release, Rest, Busy, Task
  <2> QED
    BY <1>6, <2>1, <2>2 DEF WorkerFails
<1>7. ASSUME NEW w \in Workers, WorkerCrash(w)
      PROVE  AttemptInv'
  BY <1>3, <1>7 DEF WorkerCrash, Release, Rest, storeVars
<1>8. ASSUME NEW w \in Workers, HeartbeatFails(w)
      PROVE  AttemptInv'
  BY <1>1, <1>8, LostFields DEF AttemptInv, HeartbeatFails, Busy, Task, storeVars
<1> QED
  BY <1>4, <1>5, <1>6, <1>7, <1>8, AttemptOthers DEF Next, FaultStep

(* A handler start is the only step that counts one.                       *)
LEMMA RunsStep ==
  ASSUME [Next]_vars
  PROVE  UNCHANGED runs \/ \E w \in Workers : StartHandler(w)
<1>1. ASSUME NEW t \in Tasks,
             \/ SubmitStep(t) \/ PassDone(t) \/ StagingAges(t) \/ LeaseExpires(t)
             \/ CallFails(t) \/ CallCrash(t) \/ LeaseStalls(t)
      PROVE  UNCHANGED runs
  BY <1>1 DEF SubmitStep, PurgeForRoom, RefuseCreate, Replay, Create, AuditQueued,
              ConfirmQueued, RejectUnaudited, Activate, ActivateRaises, RejectFull, AuditRejected, PassDone,
              StagingAges, LeaseExpires, CallFails, CallCrash, LeaseStalls, submitRest,
              passRest, timeRest
<1>2. ASSUME NEW a \in Passers, PassStep(a) \/ PassFails(a)
      PROVE  UNCHANGED runs
  BY <1>2 DEF PassStep, StagingActivate, StagingReject, Acknowledge, Recover, StagingRead,
              Notify, PassFails, passRest
<1>3. ASSUME NEW w \in Workers,
             \/ WorkerStep(w) \/ Heartbeat(w)
             \/ ClaimFails(w) \/ WorkerFails(w) \/ WorkerCrash(w) \/ HeartbeatFails(w)
      PROVE  UNCHANGED runs \/ StartHandler(w)
  BY <1>3 DEF WorkerStep, Claim, ClaimNothing, AuditStarted, BeginAttempt, AttemptRefused, HandlerReturns,
              AuditRetry, AuditCompleted, AuditOutput, AuditFailed, Finish, Heartbeat, ClaimFails,
              WorkerFails, WorkerCrash, HeartbeatFails
<1> QED
  BY <1>1, <1>2, <1>3 DEF Next, FaultStep, vars

(* An attempt is granted only by the write a worker makes under its lease, *)
(* even if the worker never gets to know of it (store.update).             *)
LEMMA AttemptsStep ==
  ASSUME TypeOK, [Next]_vars
  PROVE  \/ UNCHANGED attempts
         \/ \E w \in Workers : /\ worker[w].at = "attempt"
                              /\ update_attempts(Task(w), w, worker[w].attempt)
                              /\ (BeginAttempt(w) \/ WorkerFails(w))
<1>0. UNCHANGED storeVars => UNCHANGED attempts
  BY DEF storeVars
<1>1. ASSUME NEW t \in Tasks,
             \/ SubmitStep(t) \/ PassDone(t) \/ StagingAges(t) \/ LeaseExpires(t)
             \/ CallFails(t) \/ CallCrash(t) \/ LeaseStalls(t)
      PROVE  UNCHANGED attempts
  BY <1>0, <1>1
     DEF SubmitStep, PurgeForRoom, RefuseCreate, Replay, Create, AuditQueued, ConfirmQueued,
         RejectUnaudited, Activate, ActivateRaises, RejectFull, AuditRejected, PassDone,
         StagingAges, LeaseExpires, CallFails, StoreCall, CallCrash, LeaseStalls, submitRest,
         passRest, timeRest, purge_oldest_terminal, create, increment_audit, reject, activate,
         staging_ages, lease_expires
<1>2. ASSUME NEW a \in Passers, PassStep(a) \/ PassFails(a)
      PROVE  UNCHANGED attempts
  BY <1>0, <1>2
     DEF PassStep, StagingActivate, StagingReject, Acknowledge, Recover, StagingRead, Notify,
         PassFails, passRest, activate, reject, acknowledge_outbox, recover_one
<1>3. ASSUME NEW w \in Workers,
             \/ WorkerStep(w) \/ Heartbeat(w)
             \/ ClaimFails(w) \/ WorkerCrash(w) \/ HeartbeatFails(w)
      PROVE  UNCHANGED attempts \/ BeginAttempt(w)
  BY <1>0, <1>3
     DEF WorkerStep, Claim, ClaimNothing, AuditStarted, StartHandler, AttemptRefused,
         HandlerReturns, AuditRetry, AuditCompleted, AuditOutput, AuditFailed, Finish,
         Heartbeat, ClaimFails, WorkerCrash, HeartbeatFails, claim_next, finish, heartbeat
<1>4. ASSUME NEW w \in Workers, BeginAttempt(w) \/ WorkerFails(w)
      PROVE  UNCHANGED attempts \/ (/\ worker[w].at = "attempt"
                                    /\ update_attempts(Task(w), w, worker[w].attempt))
  BY <1>0, <1>4 DEF BeginAttempt, WorkerFails
<1> QED
  BY <1>1, <1>2, <1>3, <1>4 DEF Next, FaultStep, vars, storeVars

(* A worker comes to call a handler by that write only.                    *)
LEMMA InvokeStep ==
  ASSUME TypeOK, [Next]_vars, NEW v \in Workers, worker'[v].at = "invoke"
  PROVE  \/ BeginAttempt(v)
         \/ worker[v].at = "invoke" /\ worker'[v].task = worker[v].task
<1>1. CASE UNCHANGED worker
  BY <1>1
<1>2. ASSUME NEW w \in Workers, w # v, WorkerStep(w) \/ Heartbeat(w)
      PROVE  worker'[v] = worker[v]
  BY <1>2 DEF WorkerStep, Claim, ClaimNothing, AuditStarted, BeginAttempt, StartHandler,
              AttemptRefused, HandlerReturns, AuditRetry, AuditCompleted, AuditOutput,
              AuditFailed, Finish, Heartbeat, Try, Step, Release, TypeOK
<1>3. ASSUME NEW w \in Workers, w # v,
             ClaimFails(w) \/ WorkerFails(w) \/ WorkerCrash(w) \/ HeartbeatFails(w)
      PROVE  worker'[v] = worker[v]
  BY <1>3 DEF ClaimFails, WorkerFails, WorkerCrash, HeartbeatFails, Release, TypeOK
<1>4. ASSUME Release(v) \/ \E t \in Tasks : worker' = [worker EXCEPT ![v] = Started(t)]
      PROVE  FALSE
  BY <1>4 DEF Release, Rest, Started, TypeOK
<1>5. ASSUME Busy(v), NEW point \in WorkPoints \ {"invoke"}, Step(v, point)
      PROVE  FALSE
  BY <1>5, StepFields
<1>6. ASSUME Busy(v), NEW n \in Nat, Try(v, n)
      PROVE  FALSE
  BY <1>6, TryFields
<1>7. ASSUME Busy(v), worker' = [worker EXCEPT ![v].lost = TRUE]
      PROVE  worker[v].at = "invoke" /\ worker'[v].task = worker[v].task
  BY <1>7, LostFields
<1>8. Busy(v) => Task(v) \in Tasks /\ worker[v].attempt + 1 \in Nat /\ attempts[Task(v)] + 1 \in Nat
  BY BusyState DEF TypeOK, StoreTypeOK
<1>9. CASE WorkerStep(v) \/ Heartbeat(v)
  <2> USE <1>9 DEF WorkPoints, Busy
  <2>1. ASSUME NEW t \in Tasks, Claim(v, t)
        PROVE  FALSE
    BY <1>4, <2>1 DEF Claim
  <2>2. CASE AttemptRefused(v) \/ Finish(v)
    BY <1>4, <2>2 DEF AttemptRefused, Finish
  <2>3. CASE AuditStarted(v) \/ AuditRetry(v)
    BY <1>5, <1>6, <1>8, <2>3 DEF AuditStarted, AuditRetry
  <2>4. CASE \/ StartHandler(v) \/ HandlerReturns(v) \/ AuditCompleted(v) \/ AuditOutput(v)
             \/ AuditFailed(v)
    BY <1>5, <2>4 DEF StartHandler, HandlerReturns, AuditCompleted, AuditOutput, AuditFailed
  <2>5. CASE ClaimNothing(v) \/ Heartbeat(v)
    BY <1>1, <1>7, <2>5 DEF ClaimNothing, Heartbeat
  <2> QED
    BY <2>1, <2>2, <2>3, <2>4, <2>5 DEF WorkerStep
<1>10. CASE ClaimFails(v) \/ WorkerFails(v) \/ WorkerCrash(v) \/ HeartbeatFails(v)
  BY <1>1, <1>4, <1>7, <1>10 DEF ClaimFails, WorkerFails, WorkerCrash, HeartbeatFails
<1>11. ASSUME NEW t \in Tasks,
              \/ SubmitStep(t) \/ PassDone(t) \/ StagingAges(t) \/ LeaseExpires(t)
              \/ CallFails(t) \/ CallCrash(t) \/ LeaseStalls(t)
       PROVE  UNCHANGED worker
  BY <1>11 DEF SubmitStep, PurgeForRoom, RefuseCreate, Replay, Create, AuditQueued,
               ConfirmQueued, RejectUnaudited, Activate, ActivateRaises, RejectFull,
               AuditRejected, PassDone, StagingAges, LeaseExpires, CallFails, CallCrash,
               LeaseStalls, submitRest, passRest, timeRest
<1>12. ASSUME NEW a \in Passers, PassStep(a) \/ PassFails(a)
       PROVE  UNCHANGED worker
  BY <1>12 DEF PassStep, StagingActivate, StagingReject, Acknowledge, Recover, StagingRead,
               Notify, PassFails, passRest
<1> QED
  BY <1>1, <1>2, <1>3, <1>9, <1>10, <1>11, <1>12 DEF Next, FaultStep, vars

(* Every start uses up a written attempt: one that was granted to a worker *)
(* which has not started yet (execute_claimed).                            *)
LEMMA RunsCountedStep ==
  ASSUME TypeOK, TypeOK', AttemptInv, RunsCounted, [Next]_vars
  PROVE  RunsCounted'
<1> DEFINE count(t) == Cardinality(Invoking(t))
<1>1. ASSUME NEW t \in Tasks
      PROVE  /\ IsFiniteSet(Invoking(t)) /\ count(t) \in Nat
             /\ runs[t] + count(t) <= attempts[t]
             /\ runs[t] \in Nat /\ attempts[t] \in Nat
  BY FS_CardinalityType DEF RunsCounted, TypeOK, StoreTypeOK
<1>2. ASSUME NEW t \in Tasks
      PROVE  attempts'[t] \in Nat /\ attempts[t] <= attempts'[t]
  <2>1. attempts'[t] \in Nat
    BY DEF TypeOK, StoreTypeOK
  <2>2. ASSUME NEW w \in Workers, worker[w].at = "attempt",
               update_attempts(Task(w), w, worker[w].attempt)
        PROVE  attempts[t] <= attempts'[t]
    <3>1. Task(w) \in Tasks /\ worker[w].attempt \in Nat
      BY <2>2, BusyState DEF Busy
    <3>2. attempts' = [attempts EXCEPT ![Task(w)] = worker[w].attempt]
          /\ worker[w].attempt = attempts[Task(w)] + 1
      BY <2>2 DEF update_attempts, AttemptInv
    <3> QED
      BY <1>1, <3>1, <3>2 DEF TypeOK, StoreTypeOK
  <2> QED
    BY <1>1, <2>1, <2>2, AttemptsStep
<1>3. ASSUME NEW t \in Tasks, UNCHANGED runs, \A w \in Workers : Task(w) = t => ~BeginAttempt(w)
      PROVE  /\ IsFiniteSet(Invoking(t)')
             /\ runs'[t] + Cardinality(Invoking(t)') <= attempts'[t]
  <2>1. Invoking(t)' \subseteq Invoking(t)
    <3>1. ASSUME NEW w \in Workers, worker'[w].at = "invoke", worker'[w].task = t
          PROVE  worker[w].at = "invoke" /\ worker[w].task = t
      <4>1. CASE BeginAttempt(w)
        <5>1. worker'[w].task = worker[w].task
          BY <4>1, StepFields DEF BeginAttempt, Busy
        <5> QED
          BY <1>3, <3>1, <4>1, <5>1 DEF Task
      <4> QED
        BY <3>1, <4>1, InvokeStep
    <3> QED
      BY <3>1 DEF Invoking, Task
  <2>2. IsFiniteSet(Invoking(t)') /\ Cardinality(Invoking(t)') <= count(t)
    BY <1>1, <2>1, FS_Subset
  <2>3. Cardinality(Invoking(t)') \in Nat
    BY <2>2, FS_CardinalityType
  <2> QED
    BY <1>1, <1>2, <1>3, <2>2, <2>3
<1>4. ASSUME NEW w \in Workers, StartHandler(w)
      PROVE  RunsCounted'
  <2>1. /\ worker[w].at = "invoke" /\ Busy(w) /\ Task(w) \in Tasks
        /\ runs' = [runs EXCEPT ![Task(w)] = @ + 1]
        /\ UNCHANGED attempts
    BY <1>4, BusyState DEF StartHandler, Busy, storeVars
  <2>2. /\ worker'[w].at = "handler" /\ worker'[w].task = worker[w].task
        /\ \A v \in Workers \ {w} : worker'[v] = worker[v]
    BY <1>4, <2>1, StepFields DEF StartHandler
  <2>3. ASSUME NEW t \in Tasks
        PROVE  Invoking(t)' = Invoking(t) \ {w}
    BY <2>2 DEF Invoking, Task
  <2>4. ASSUME NEW t \in Tasks
        PROVE  /\ IsFiniteSet(Invoking(t)')
               /\ Cardinality(Invoking(t)') = IF w \in Invoking(t) THEN count(t) - 1 ELSE count(t)
    <3>1. PICK k : k = Invoking(t) /\ Invoking(t)' = k \ {w} /\ IsFiniteSet(k)
      BY <1>1, <2>3
    <3> QED
      BY <3>1, FS_RemoveElement
  <2>5. \A t \in Tasks : w \in Invoking(t) <=> t = Task(w)
    BY <2>1 DEF Invoking
  <2>6. ASSUME NEW t \in Tasks
        PROVE  runs'[t] = IF t = Task(w) THEN runs[t] + 1 ELSE runs[t]
    BY <2>1 DEF TypeOK
  <2>7. ASSUME NEW t \in Tasks
        PROVE  runs'[t] + Cardinality(Invoking(t)') <= attempts'[t]
    <3> HIDE DEF count
    <3> QED
      BY <1>1, <2>1, <2>4, <2>5, <2>6
  <2> QED
    BY <2>4, <2>7 DEF RunsCounted
<1>5. ASSUME NEW w \in Workers, BeginAttempt(w)
      PROVE  RunsCounted'
  <2>1. /\ worker[w].at = "attempt" /\ Busy(w) /\ Task(w) \in Tasks
        /\ worker[w].attempt = attempts[Task(w)] + 1
        /\ attempts' = [attempts EXCEPT ![Task(w)] = worker[w].attempt]
        /\ UNCHANGED runs
    BY <1>5, BusyState DEF BeginAttempt, Busy, update_attempts, AttemptInv
  <2>2. /\ worker'[w].at = "invoke" /\ worker'[w].task = worker[w].task
        /\ \A v \in Workers \ {w} : worker'[v] = worker[v]
    BY <1>5, <2>1, StepFields DEF BeginAttempt
  <2>3. ASSUME NEW t \in Tasks
        PROVE  Invoking(t)' = IF t = Task(w) THEN Invoking(t) \cup {w} ELSE Invoking(t)
    BY <2>1, <2>2 DEF Invoking, Task
  <2>4. ASSUME NEW t \in Tasks
        PROVE  /\ IsFiniteSet(Invoking(t)')
               /\ Cardinality(Invoking(t)') \in Nat
               /\ Cardinality(Invoking(t)') <= IF t = Task(w) THEN count(t) + 1 ELSE count(t)
    <3>1. PICK k : k = Invoking(t) /\ Invoking(t)' = IF t = Task(w) THEN k \cup {w} ELSE k
      BY <2>3
    <3>2. IsFiniteSet(k) /\ Cardinality(k) = count(t) /\ count(t) \in Nat
      BY <1>1, <3>1
    <3>3. IsFiniteSet(k \cup {w}) /\ Cardinality(k \cup {w}) \in {count(t), count(t) + 1}
      BY <3>2, FS_AddElement
    <3> HIDE DEF count
    <3> QED
      BY <3>1, <3>2, <3>3
  <2>5. ASSUME NEW t \in Tasks
        PROVE  attempts'[t] = IF t = Task(w) THEN attempts[t] + 1 ELSE attempts[t]
    BY <2>1 DEF TypeOK, StoreTypeOK
  <2>6. ASSUME NEW t \in Tasks
        PROVE  runs'[t] + Cardinality(Invoking(t)') <= attempts'[t]
    <3> HIDE DEF count
    <3> QED
      BY <1>1, <2>1, <2>4, <2>5
  <2> QED
    BY <2>4, <2>6 DEF RunsCounted
<1> HIDE DEF count
<1> QED
  BY <1>3, <1>4, <1>5, RunsStep DEF RunsCounted

(* Confirmed stages, the audit counter and handler starts only grow.       *)
Grows ==
  /\ audited \subseteq audited'
  /\ \A t \in Tasks : trail[t] \subseteq trail'[t] /\ runs[t] <= runs'[t]

(* A worker's claim on audits and attempts survives steps that only add    *)
(* confirmations and handler starts.                                       *)
LEMMA KeptWork ==
  ASSUME TypeOK, Grows, runs' \in [Tasks -> Nat], NEW w \in Workers, WorkAudited(w),
         worker'[w].at = worker[w].at, worker'[w].task = worker[w].task
  PROVE  WorkAudited(w)'
<1>1. worker[w].at \in Tried \cup Begun => Busy(w)
  BY DEF Tried, Begun, Busy
<1>2. Busy(w) => Task(w) \in Tasks
  BY BusyState
<1> QED
  BY <1>1, <1>2 DEF TypeOK, Grows, WorkAudited, Busy, Task, Tried, Begun, Completed

(* Steps of submit calls, passes and time: what the workers and the        *)
(* outcomes rest on is kept.                                               *)
LEMMA AuditFrame ==
  ASSUME TypeOK, AuditInv, Grows, UNCHANGED <<worker, runs>>,
         \A t \in Tasks : /\ trail'[t] \subseteq trail[t] \cup {"task_queued", "rejected"}
                          /\ "rejected" \in trail'[t] => "task_queued" \in trail'[t],
         \A t \in Tasks : status'[t] = "succeeded" => status[t] = "succeeded",
         \A t \in Tasks : TaskAudited(t)',
         \A a \in Passers : pass'[a].at = "activate" => pass'[a].cur \in audited'
  PROVE  AuditInv'
<1>1. runs' \in [Tasks -> Nat]
  BY DEF TypeOK
<1>2. \A w \in Workers : WorkAudited(w)'
  BY <1>1, KeptWork DEF AuditInv
<1>3. HandlerNeedsAudit' /\ Success'
  BY DEF AuditInv, HandlerNeedsAudit, Success, SuccessIsAudited, Grows
<1>4. OutcomesInOrder'
  BY DEF AuditInv, OutcomesInOrder, Grows
<1> QED
  BY <1>2, <1>3, <1>4 DEF AuditInv

(* Steps of worker w.                                                      *)
LEMMA WorkFrame ==
  ASSUME TypeOK, AuditInv, Grows, runs' \in [Tasks -> Nat],
         UNCHANGED <<call, pass, audited>>,
         \A t \in Tasks : /\ t \in queue' => t \in queue
                          /\ lease'[t] # "none" => t \in queue \/ lease[t] # "none",
         NEW w \in Workers, WorkAudited(w)',
         \A v \in Workers \ {w} : worker'[v] = worker[v],
         HandlerNeedsAudit', OutcomesInOrder', Success'
  PROVE  AuditInv'
<1>1. \A v \in Workers \ {w} : WorkAudited(v)'
  BY KeptWork DEF AuditInv
<1>2. \A t \in Tasks : TaskAudited(t)'
  BY DEF AuditInv, TaskAudited, Grows
<1> QED
  BY <1>1, <1>2 DEF AuditInv

(* The audit order survives every step of a submit call.                   *)
LEMMA AuditSubmit ==
  ASSUME TypeOK, AuditInv, NEW t \in Tasks,
         \/ SubmitStep(t) \/ PassDone(t) \/ StagingAges(t) \/ LeaseExpires(t)
         \/ CallFails(t) \/ CallCrash(t) \/ LeaseStalls(t)
  PROVE  AuditInv'
<1> USE DEF TypeOK, StoreTypeOK, AuditInv, TaskAudited, OutcomesInOrder, Grows
<1>1. ASSUME NEW old \in Tasks, PurgeForRoom(t, old)
      PROVE  AuditInv'
  BY <1>1, AuditFrame DEF PurgeForRoom, purge_oldest_terminal, submitRest
<1>2. CASE RefuseCreate(t) \/ Replay(t) \/ ActivateRaises(t)
  BY <1>2, AuditFrame DEF RefuseCreate, Replay, ActivateRaises, Goto, submitRest, storeVars
<1>3. CASE Create(t)
  BY <1>3, AuditFrame DEF Create, create, Goto, submitRest
<1>4. CASE AuditQueued(t) \/ AuditRejected(t)
  BY <1>4, AuditFrame DEF AuditQueued, AuditRejected, Goto, Log, submitRest, storeVars
<1>5. CASE ConfirmQueued(t)
  BY <1>5, AuditFrame DEF ConfirmQueued, increment_audit, Goto, submitRest, storeVars
<1>6. CASE RejectUnaudited(t) \/ RejectFull(t)
  BY <1>6, AuditFrame DEF RejectUnaudited, RejectFull, reject, Goto, submitRest, storeVars
<1>7. CASE Activate(t)
  BY <1>7, AuditFrame DEF Activate, activate, Goto, Ready, Loop
<1>8. CASE PassDone(t)
  BY <1>8, AuditFrame DEF PassDone, EndPass, Ready, Loop, NoPass, Goto, passRest, storeVars
<1>9. CASE StagingAges(t)
  BY <1>9, AuditFrame DEF StagingAges, staging_ages, timeRest
<1>10. CASE LeaseExpires(t) \/ LeaseStalls(t)
  BY <1>10, AuditFrame DEF LeaseExpires, LeaseStalls, lease_expires, timeRest
<1>11. CASE CallCrash(t)
  BY <1>11, AuditFrame DEF CallCrash, Goto, NoPass, storeVars
<1>12. CASE CallFails(t)
  BY <1>12, AuditFrame
     DEF CallFails, StoreCall, create, increment_audit, activate, reject, Goto, storeVars
<1> QED
  BY <1>1, <1>2, <1>3, <1>4, <1>5, <1>6, <1>7, <1>8, <1>9, <1>10, <1>11, <1>12 DEF SubmitStep

(* The audit order survives every step of a reconciliation pass: only an   *)
(* audited staging entry is activated (reconcile_staging).                 *)
LEMMA AuditPass ==
  ASSUME TypeOK, AuditInv, NEW a \in Passers, PassStep(a) \/ PassFails(a)
  PROVE  AuditInv'
<1> USE DEF TypeOK, StoreTypeOK, AuditInv, TaskAudited, OutcomesInOrder, Grows
<1>1. pass[a].at \in {"activate", "reject"} => pass[a].cur \in Tasks
  BY DEF PassStates
<1>2. ASSUME NEW t \in Tasks, Recover(a, t)
      PROVE  AuditInv'
  BY <1>2, AuditFrame DEF Recover, recover_one, passRest
<1>3. ASSUME NEW t \in Tasks, StagingRead(a, t)
      PROVE  AuditInv'
  BY <1>3, AuditFrame DEF StagingRead, passRest, storeVars
<1>4. CASE StagingActivate(a)
  BY <1>1, <1>4, AuditFrame
     DEF StagingActivate, activate, EndPass, Goto, Ready, Loop, NoPass, passRest, storeVars
<1>5. CASE StagingReject(a)
  BY <1>1, <1>5, AuditFrame DEF StagingReject, reject, Ready, Loop, passRest, storeVars
<1>6. ASSUME NEW m \in outbox, Notify(a, m)
      PROVE  AuditInv'
  BY <1>6, AuditFrame DEF Notify, passRest, storeVars
<1>7. CASE Acknowledge(a)
  BY <1>7, AuditFrame DEF Acknowledge, acknowledge_outbox, Ready, Loop, passRest
<1>8. CASE PassFails(a)
  BY <1>8, AuditFrame DEF PassFails, EndPass, Goto, Ready, Loop, NoPass, storeVars
<1> QED
  BY <1>2, <1>3, <1>4, <1>5, <1>6, <1>7, <1>8 DEF PassStep

(* The audit order survives every step of a worker: each stage is          *)
(* confirmed before the next point of execute_claimed.                     *)
LEMMA AuditWork ==
  ASSUME TypeOK, Placement, AuditInv, NEW w \in Workers,
         \/ WorkerStep(w) \/ Heartbeat(w)
         \/ ClaimFails(w) \/ WorkerFails(w) \/ WorkerCrash(w) \/ HeartbeatFails(w)
  PROVE  AuditInv'
<1> USE DEF TypeOK, StoreTypeOK, Grows, Tried, Begun, Completed
<1>1. Busy(w) => Task(w) \in Tasks
  BY BusyState
<1>2. WorkAudited(w) /\ HandlerNeedsAudit /\ OutcomesInOrder /\ Success /\ \A t \in Tasks : TaskAudited(t)
  BY DEF AuditInv
<1>3. ASSUME ~Busy(w)'
      PROVE  WorkAudited(w)'
  BY <1>3 DEF WorkAudited, Busy
<1>4. ASSUME NEW t \in Tasks, Claim(w, t)
      PROVE  AuditInv'
  <2>1. worker' = [worker EXCEPT ![w] = [at |-> "start", task |-> t, attempt |-> 0, lost |-> FALSE]]
    BY <1>4 DEF Claim, Started
  <2>2. WorkAudited(w)' /\ HandlerNeedsAudit' /\ OutcomesInOrder' /\ Success'
    BY <1>2, <1>4, <2>1 DEF Claim, claim_next, WorkAudited, TaskAudited, Busy, Task,
                            HandlerNeedsAudit, OutcomesInOrder, Success, SuccessIsAudited
  <2> QED
    BY <1>4, <2>1, <2>2, WorkFrame DEF Claim, claim_next
<1>5. CASE ClaimNothing(w)
  <2>1. UNCHANGED <<storeVars, call, pass, worker, trail, runs>>
    BY <1>5 DEF ClaimNothing
  <2> QED
    BY <2>1, AuditFrame DEF storeVars, AuditInv, TaskAudited, OutcomesInOrder
<1>6. CASE AuditStarted(w)
  <2>1. UNCHANGED <<storeVars, call, pass, runs>> /\ Busy(w)
    BY <1>6 DEF AuditStarted, workRest, Busy
  <2>2. CASE Step(w, "fail") /\ UNCHANGED trail
    BY <1>1, <1>2, <2>1, <2>2, StepFields, WorkFrame
       DEF storeVars, WorkAudited, Busy, Task, HandlerNeedsAudit, OutcomesInOrder, Success, SuccessIsAudited
  <2>3. CASE Audit(w, "task_started") /\ Try(w, attempts[Task(w)] + 1)
    <3>1. /\ worker'[w].at \in {"report", "attempt"} /\ worker'[w].task = worker[w].task
          /\ \A v \in Workers \ {w} : worker'[v] = worker[v]
      BY <1>1, <2>1, <2>3, TryFields
    <3>2. trail' = [trail EXCEPT ![Task(w)] = @ \cup {"task_started"}]
      BY <2>3 DEF Audit, Log
    <3>3. WorkAudited(w)' /\ HandlerNeedsAudit' /\ OutcomesInOrder' /\ Success'
      BY <1>1, <1>2, <2>1, <3>1, <3>2
         DEF storeVars, WorkAudited, Busy, Task, HandlerNeedsAudit, OutcomesInOrder, Success, SuccessIsAudited
    <3> QED
      BY <1>1, <2>1, <3>1, <3>2, <3>3, WorkFrame DEF storeVars
  <2> QED
    BY <1>6, <2>2, <2>3 DEF AuditStarted
<1>granted. CASE BeginAttempt(w)
  <2>1. Busy(w) /\ worker[w].at = "attempt" /\ Step(w, "invoke")
        /\ UNCHANGED <<call, pass, trail, runs, status, lease, queue, audited>>
    BY <1>granted DEF BeginAttempt, update_attempts, workRest, Busy
  <2>2. WorkAudited(w)'
    BY <1>1, <1>2, <2>1, StepFields DEF WorkAudited, Busy, Task
  <2>3. HandlerNeedsAudit' /\ OutcomesInOrder' /\ Success'
    BY <1>2, <2>1 DEF HandlerNeedsAudit, OutcomesInOrder, Success, SuccessIsAudited
  <2> QED
    BY <1>1, <2>1, <2>2, <2>3, StepFields, WorkFrame
<1>7. CASE StartHandler(w)
  <2>1. Busy(w) /\ worker[w].at = "invoke" /\ Step(w, "handler")
        /\ runs' = [runs EXCEPT ![Task(w)] = @ + 1] /\ UNCHANGED <<call, pass, trail>>
        /\ UNCHANGED <<status, lease, queue, audited>>
    BY <1>7 DEF StartHandler, storeVars, workRest, Busy
  <2>2. WorkAudited(w)'
    BY <1>1, <1>2, <2>1, StepFields DEF WorkAudited, Busy, Task
  <2>3. HandlerNeedsAudit' /\ OutcomesInOrder' /\ Success'
    BY <1>1, <1>2, <2>1 DEF WorkAudited, TaskAudited, HandlerNeedsAudit, OutcomesInOrder, Success,
                            SuccessIsAudited
  <2> QED
    BY <1>1, <2>1, <2>2, <2>3, StepFields, WorkFrame
<1>8. ASSUME UNCHANGED <<call, pass, status, lease, queue, audited, trail, runs>>, Release(w)
      PROVE  AuditInv'
  BY <1>2, <1>3, <1>8, WorkFrame
     DEF Release, Rest, Busy, HandlerNeedsAudit, OutcomesInOrder, Success, SuccessIsAudited
<1>9. CASE AttemptRefused(w)
  BY <1>8, <1>9 DEF AttemptRefused, workRest, storeVars
<1>10. CASE HandlerReturns(w)
  <2>1. PICK point \in {"complete", "report", "retry"} : Step(w, point)
    BY <1>10 DEF HandlerReturns
  <2> QED
    BY <1>1, <1>2, <1>10, <2>1, StepFields, WorkFrame
       DEF HandlerReturns, workRest, storeVars, WorkAudited, Busy, Task, HandlerNeedsAudit, OutcomesInOrder,
           Success, SuccessIsAudited
<1>11. CASE AuditRetry(w)
  <2>1. UNCHANGED <<storeVars, call, pass, trail, runs>> /\ Busy(w) /\ worker[w].at = "retry"
    BY <1>11 DEF AuditRetry, workRest, Busy
  <2>2. worker[w].attempt + 1 \in Nat
    BY <2>1, BusyState
  <2>3. /\ worker'[w].at \in {"report", "attempt"} /\ worker'[w].task = worker[w].task
        /\ \A v \in Workers \ {w} : worker'[v] = worker[v]
    BY <1>11, <2>1, <2>2, StepFields, TryFields DEF AuditRetry
  <2> QED
    BY <1>1, <1>2, <2>1, <2>3, WorkFrame
       DEF storeVars, WorkAudited, Busy, Task, HandlerNeedsAudit, OutcomesInOrder, Success, SuccessIsAudited
<1>12. ASSUME NEW here \in {"complete", "output", "report"}, NEW there, NEW stage \in Stages,
              worker[w].at = here,
              UNCHANGED <<storeVars, call, pass, runs>>,
              \/ Step(w, "fail") /\ UNCHANGED trail
              \/ Audit(w, stage) /\ Step(w, there),
              \/ here = "complete" /\ there = "output" /\ stage = "task_completed"
              \/ here = "output" /\ there = "succeed" /\ stage = "succeeded"
              \/ here = "report" /\ there = "fail" /\ stage = "failed"
       PROVE  AuditInv'
  <2>1. Busy(w)
    BY <1>12 DEF Busy
  <2>2. \/ UNCHANGED trail
        \/ trail' = [trail EXCEPT ![Task(w)] = @ \cup {stage}]
    BY <1>12 DEF Audit, Log
  <2>3. WorkAudited(w)'
    BY <1>1, <1>2, <1>12, <2>1, StepFields DEF Audit, Log, WorkAudited, Busy, Task, storeVars
  <2>4. HandlerNeedsAudit' /\ Success'
    BY <1>1, <1>2, <1>12, <2>1, <2>2 DEF HandlerNeedsAudit, Success, SuccessIsAudited, storeVars
  <2>5. OutcomesInOrder'
    <3>1. UNCHANGED runs /\ Task(w) \in Tasks
      BY <1>1, <1>12, <2>1
    <3>2. /\ stage = "task_completed" => runs[Task(w)] > 0
          /\ stage = "succeeded" => "task_completed" \in trail[Task(w)]
          /\ stage = "failed" => "task_started" \in trail[Task(w)]
      BY <1>2, <1>12 DEF WorkAudited
    <3>3. stage \in {"task_completed", "succeeded", "failed"}
      BY <1>12
    <3> QED
      BY <1>2, <2>2, <3>1, <3>2, <3>3 DEF OutcomesInOrder
  <2> QED
    BY <1>1, <1>12, <2>1, <2>2, <2>3, <2>4, <2>5, StepFields, WorkFrame DEF storeVars
<1>13. CASE AuditCompleted(w)
  BY <1>12, <1>13 DEF AuditCompleted, workRest, Stages, FinalOutputs
<1>14. CASE AuditOutput(w)
  BY <1>12, <1>14 DEF AuditOutput, workRest, Stages, FinalOutputs
<1>told. CASE AuditFailed(w)
  BY <1>12, <1>told DEF AuditFailed, workRest, Stages, FinalOutputs
<1>15. CASE Finish(w)
  <2>1. Busy(w) /\ worker[w].at \in {"succeed", "fail"}
    BY <1>15 DEF Finish, Busy
  <2>2. WorkAudited(w)'
    BY <1>3, <1>15 DEF Finish, Release, Rest, Busy
  <2>3. HandlerNeedsAudit' /\ OutcomesInOrder'
    BY <1>2, <1>15 DEF Finish, HandlerNeedsAudit, OutcomesInOrder
  <2>4. Success'
    BY <1>1, <1>2, <1>15, <2>1 DEF Finish, finish, storeVars, WorkAudited, TaskAudited,
                                   Success, SuccessIsAudited
  <2> QED
    BY <1>1, <1>15, <2>1, <2>2, <2>3, <2>4, WorkFrame
       DEF Finish, finish, Release, workRest, storeVars
<1>16. ASSUME worker' = [worker EXCEPT ![w].lost = TRUE], Busy(w),
              UNCHANGED <<storeVars, call, pass, trail, runs>>
       PROVE  AuditInv'
  <2>1. WorkAudited(w)'
    BY <1>2, <1>16, LostFields, KeptWork DEF storeVars
  <2> QED
    BY <1>2, <1>16, <2>1, WorkFrame DEF storeVars, HandlerNeedsAudit, OutcomesInOrder, Success, SuccessIsAudited
<1>17. CASE Heartbeat(w)
  <2>1. CASE heartbeat(Task(w), w) /\ UNCHANGED worker
    <3>1. Task(w) \in Tasks /\ lease[Task(w)] # "none"
      BY <1>1, <1>17, <2>1 DEF Heartbeat, heartbeat, HoldsLease, Placement
    <3> QED
      BY <1>17, <2>1, <3>1, AuditFrame
         DEF Heartbeat, heartbeat, workRest, AuditInv, TaskAudited, OutcomesInOrder
  <2> QED
    BY <1>16, <1>17, <2>1 DEF Heartbeat, workRest
<1>18. CASE HeartbeatFails(w)
  BY <1>16, <1>18 DEF HeartbeatFails
<1>19. CASE ClaimFails(w)
  <2>1. CASE UNCHANGED storeVars
    BY <1>19, <2>1, AuditFrame DEF ClaimFails, storeVars, AuditInv, TaskAudited, OutcomesInOrder
  <2>2. ASSUME NEW t \in queue, claim_next(t, w)
        PROVE  AuditInv'
    BY <1>19, <2>2, AuditFrame DEF ClaimFails, claim_next, AuditInv, TaskAudited, OutcomesInOrder
  <2> QED
    BY <1>19, <2>1, <2>2 DEF ClaimFails
<1>20. CASE WorkerFails(w) \/ WorkerCrash(w)
  BY <1>8, <1>20 DEF WorkerFails, WorkerCrash, update_attempts, storeVars
<1> QED
  BY <1>4, <1>5, <1>6, <1>granted, <1>7, <1>9, <1>10, <1>11, <1>13, <1>14, <1>told, <1>15, <1>17,
     <1>18, <1>19, <1>20
     DEF WorkerStep

(* The inductive invariant is preserved by every step.                     *)
LEMMA InvStep ==
  ASSUME Inv, [Next]_vars
  PROVE  Inv'
<1> USE DEF Inv
<1>1. TypeOK'
  BY RuntimeTyping
<1>2. Placement'
  BY StoreOnly, StorePlacement DEF TypeOK
<1>3. AttemptInv' /\ RunsCounted'
  BY <1>1, AttemptStep, RunsCountedStep
<1>4. ASSUME UNCHANGED vars
      PROVE  AuditInv'
  BY <1>4 DEF AuditInv, TaskAudited, WorkAudited, HandlerNeedsAudit, OutcomesInOrder, Success, SuccessIsAudited,
              Busy, Task, vars, storeVars
<1>5. ASSUME NEW t \in Tasks,
             \/ SubmitStep(t) \/ PassDone(t) \/ StagingAges(t) \/ LeaseExpires(t)
             \/ CallFails(t) \/ CallCrash(t) \/ LeaseStalls(t)
      PROVE  AuditInv'
  BY <1>5, AuditSubmit
<1>6. ASSUME NEW a \in Passers, PassStep(a) \/ PassFails(a)
      PROVE  AuditInv'
  BY <1>6, AuditPass
<1>7. ASSUME NEW w \in Workers,
             \/ WorkerStep(w) \/ Heartbeat(w)
             \/ ClaimFails(w) \/ WorkerFails(w) \/ WorkerCrash(w) \/ HeartbeatFails(w)
      PROVE  AuditInv'
  BY <1>7, AuditWork
<1>8. AuditInv'
  BY <1>4, <1>5, <1>6, <1>7 DEF Next, FaultStep
<1> QED
  BY <1>1, <1>2, <1>3, <1>8

(* Hence it always holds.                                                  *)
LEMMA InvCorrect == Spec => []Inv
<1>1. Init => Inv
  <2> SUFFICES ASSUME Init PROVE AttemptInv /\ RunsCounted /\ AuditInv
    BY InitTypeOK, InitPlacement DEF Inv
  <2>1. AttemptInv /\ AuditInv
    BY StoreAssumption
       DEF Init, StoreInit, AttemptInv, AuditInv, TaskAudited, WorkAudited, Busy, Tried, Begun,
           Completed, HandlerNeedsAudit, OutcomesInOrder, Success, SuccessIsAudited, Rest, Loop,
           NoPass, Passers
  <2>2. \A t \in Tasks : Invoking(t) = {} /\ runs[t] = 0 /\ attempts[t] = 0
    BY DEF Init, StoreInit, Invoking, Rest
  <2>3. RunsCounted
    BY <2>2, FS_EmptySet DEF RunsCounted
  <2> QED
    BY <2>1, <2>3
<1> QED
  BY <1>1, InvStep, PTL DEF Spec

(* The handler of a task runs at most max_attempts times (execute_claimed),*)
(* for any number of crashes, lost leases and redeliveries.                *)
THEOREM AttemptsCorrect == Spec => []AttemptsBounded
<1>1. Inv => AttemptsBounded
  <2> SUFFICES ASSUME Inv, NEW t \in Tasks
               PROVE  runs[t] <= MaxAttempts
    BY DEF AttemptsBounded
  <2>1. Cardinality(Invoking(t)) \in Nat
    BY FS_CardinalityType DEF Inv, RunsCounted
  <2> QED
    BY <2>1, StoreAssumption DEF Inv, TypeOK, StoreTypeOK, AttemptInv, RunsCounted
<1> QED
  BY <1>1, InvCorrect, PTL

(* Enqueue and start audit are confirmed before any handler starts; a      *)
(* completion is told of only after a start, a success after a completion, *)
(* a failure after task_started and a rejection after task_queued, by      *)
(* whichever workers and calls (submit, execute_claimed, _finish_failure). *)
THEOREM TrailCorrect == Spec => []TrailInOrder
<1>1. Inv => TrailInOrder
  BY DEF Inv, AuditInv, TrailInOrder
<1> QED
  BY <1>1, InvCorrect, PTL

(* A success is published after its four audit stages (execute_claimed).   *)
THEOREM SuccessCorrect == Spec => []SuccessIsAudited
<1>1. Inv => SuccessIsAudited
  BY DEF Inv, AuditInv, Success
<1> QED
  BY <1>1, InvCorrect, PTL

-----------------------------------------------------------------------------
(* Refinement of TaskContract.                                             *)

(* What a transaction may do to the status of a task.                      *)
StatusMove(t) ==
  \/ status[t] = "absent" /\ status'[t] = "queued"
  \/ status[t] \in LiveStatuses /\ status'[t] \in LiveStatuses \cup TerminalStatuses
  \/ status[t] \in TerminalStatuses /\ status'[t] = "purged"

(* A status changes only from absent to queued, within the live ones, to   *)
(* an outcome, or from an outcome to purged (redis_store.py).              *)
LEMMA StatusStep ==
  ASSUME StoreTypeOK, [StoreNext]_storeVars
  PROVE  \/ UNCHANGED status
         \/ \E t \in Tasks : StatusMove(t) /\ \A u \in Tasks \ {t} : status'[u] = status[u]
<1> USE DEF StoreTypeOK, StatusMove, LiveStatuses, TerminalStatuses
<1>1. CASE UNCHANGED storeVars
  BY <1>1 DEF storeVars
<1>2. ASSUME NEW t \in Tasks,
             \/ increment_audit(t) \/ activate(t) \/ staging_ages(t) \/ lease_expires(t)
             \/ \E n \in Nat : acknowledge_outbox(<<t, n>>)
             \/ \E w \in Workers : heartbeat(t, w) \/ \E n \in Nat : update_attempts(t, w, n)
      PROVE  UNCHANGED status
  BY <1>2 DEF increment_audit, activate, staging_ages, lease_expires, acknowledge_outbox,
              heartbeat, update_attempts
<1>3. ASSUME NEW t \in Tasks,
             \/ create(t) \/ purge_oldest_terminal(t) \/ reject(t) \/ recover_one(t)
             \/ \E w \in Workers : \/ claim_next(t, w)
                                   \/ \E outcome \in {"succeeded", "failed"} : finish(t, w, outcome)
      PROVE  UNCHANGED status
             \/ (StatusMove(t) /\ \A u \in Tasks \ {t} : status'[u] = status[u])
  BY <1>3 DEF create, purge_oldest_terminal, reject, recover_one, claim_next, finish, HoldsLease,
              storeVars
<1> HIDE DEF StatusMove
<1> QED
  BY <1>1, <1>2, <1>3 DEF StoreNext

(* Every step of the runtime is a step of the contract or leaves the       *)
(* client's view alone.                                                    *)
LEMMA ContractStep ==
  ASSUME Inv, Inv', [Next]_vars
  PROVE  [Contract!Next]_<<[t \in Tasks |-> Phase(t)], attempts, runs>>
<1> DEFINE phase == [t \in Tasks |-> Phase(t)]
<1> USE DEF Inv, TypeOK
<1>1. CASE UNCHANGED <<attempts, runs>>
  <2>1. CASE UNCHANGED status
    BY <1>1, <2>1 DEF Phase
  <2>2. ASSUME NEW t \in Tasks, StatusMove(t), \A u \in Tasks \ {t} : status'[u] = status[u]
        PROVE  [Contract!Next]_<<phase, attempts, runs>>
    <3>1. phase' = [phase EXCEPT ![t] = Phase(t)']
      <4>1. \A u \in Tasks \ {t} : Phase(u)' = Phase(u)
        BY <2>2 DEF Phase
      <4> QED
        BY <4>1
    <3>2. CASE status[t] = "absent" /\ status'[t] = "queued"
      <4>1. phase[t] = "unknown" /\ Phase(t)' = "open"
        BY <3>2 DEF Phase, LiveStatuses
      <4>2. Contract!Accept(t)
        BY <1>1, <3>1, <4>1 DEF Contract!Accept
      <4> QED
        BY <4>2 DEF Contract!Next, Contract!Record
    <3>3. CASE status[t] \in LiveStatuses /\ status'[t] \in LiveStatuses
      <4>1. phase' = phase
        BY <3>1, <3>3 DEF Phase, LiveStatuses
      <4> QED
        BY <1>1, <4>1
    <3>4. CASE status[t] \in LiveStatuses /\ status'[t] \in TerminalStatuses
      <4>1. phase[t] = "open" /\ Phase(t)' = status'[t]
        BY <3>4 DEF Phase, LiveStatuses, TerminalStatuses
      <4>2. status'[t] = "succeeded" => runs[t] > 0
        BY <1>1 DEF AuditInv, Success
      <4>3. status'[t] \in Contract!Outcomes
        BY <3>4 DEF TerminalStatuses, Contract!Outcomes
      <4>4. Contract!Decide(t, status'[t])
        BY <1>1, <3>1, <4>1, <4>2 DEF Contract!Decide
      <4> QED
        BY <4>3, <4>4 DEF Contract!Next, Contract!Record
    <3>5. CASE status[t] \in TerminalStatuses /\ status'[t] = "purged"
      <4>1. phase[t] \in Contract!Outcomes /\ Phase(t)' = "forgotten"
        BY <3>5 DEF Phase, LiveStatuses, TerminalStatuses, Contract!Outcomes
      <4>2. Contract!Forget(t)
        BY <1>1, <3>1, <4>1 DEF Contract!Forget
      <4> QED
        BY <4>2 DEF Contract!Next, Contract!Record
    <3> QED
      BY <2>2, <3>2, <3>3, <3>4, <3>5 DEF StatusMove
  <2> QED
    BY <2>1, <2>2, StoreOnly, StatusStep
<1>2. ASSUME NEW w \in Workers, worker[w].at = "attempt", UNCHANGED runs,
             update_attempts(Task(w), w, worker[w].attempt)
      PROVE  [Contract!Next]_<<phase, attempts, runs>>
  <2>1. Task(w) \in Tasks /\ worker[w].attempt \in Nat
    BY <1>2, BusyState DEF Busy
  <2>2. /\ owner[Task(w)] = w /\ UNCHANGED status
        /\ worker[w].attempt = attempts[Task(w)] + 1 /\ worker[w].attempt <= MaxAttempts
        /\ attempts' = [attempts EXCEPT ![Task(w)] = worker[w].attempt]
    BY <1>2, <2>1 DEF update_attempts, AttemptInv
  <2>3. attempts[Task(w)] < MaxAttempts /\ attempts' = [attempts EXCEPT ![Task(w)] = @ + 1]
    BY <2>1, <2>2, StoreAssumption DEF StoreTypeOK
  <2>4. phase[Task(w)] = "open"
    BY <2>1, <2>2, StoreAssumption DEF Placement, Phase, LiveStatuses
  <2>5. phase' = phase
    BY <2>2 DEF Phase
  <2>6. Contract!Grant(Task(w))
    BY <1>2, <2>3, <2>4, <2>5 DEF Contract!Grant
  <2> QED
    BY <2>1, <2>6 DEF Contract!Next
<1>3. ASSUME NEW w \in Workers, StartHandler(w)
      PROVE  [Contract!Next]_<<phase, attempts, runs>>
  <2>1. /\ Task(w) \in Tasks /\ w \in Invoking(Task(w))
        /\ UNCHANGED <<status, attempts>>
        /\ runs' = [runs EXCEPT ![Task(w)] = @ + 1]
    BY <1>3, BusyState DEF StartHandler, Busy, Invoking, storeVars
  <2>2. runs[Task(w)] < attempts[Task(w)]
    <3>1. PICK k : k = Invoking(Task(w)) /\ w \in k /\ IsFiniteSet(k)
      BY <2>1 DEF RunsCounted
    <3>2. Cardinality(k) \in Nat /\ Cardinality(k) > 0
      BY <3>1, FS_EmptySet, FS_CardinalityType
    <3>3. runs[Task(w)] + Cardinality(k) <= attempts[Task(w)]
      BY <2>1, <3>1 DEF RunsCounted
    <3> QED
      BY <2>1, <3>2, <3>3 DEF StoreTypeOK
  <2>3. phase' = phase
    BY <2>1 DEF Phase
  <2>4. Contract!Start(Task(w))
    BY <2>1, <2>2, <2>3 DEF Contract!Start
  <2> QED
    BY <2>1, <2>4 DEF Contract!Next
<1>4. ASSUME NEW w \in Workers, BeginAttempt(w) \/ WorkerFails(w)
      PROVE  UNCHANGED runs
  BY <1>4 DEF BeginAttempt, WorkerFails
<1>5. ASSUME NEW w \in Workers, StartHandler(w)
      PROVE  UNCHANGED attempts
  BY <1>5 DEF StartHandler, storeVars
<1> HIDE DEF phase
<1> QED
  BY <1>1, <1>2, <1>3, <1>4, RunsStep, AttemptsStep

(* The runtime implements TaskContract: at most MaxAttempts attempts are   *)
(* granted, all before the single outcome; a handler is started at most    *)
(* once per granted attempt, perhaps late; and a success only after a      *)
(* start (worker_runtime.py:164-171, redis_store.py).                      *)
THEOREM ContractCorrect == Spec => KeepsContract
<1>1. Init => Contract!Init
  <2>1. Init => \A t \in Tasks : Phase(t) = "unknown"
    BY DEF Init, StoreInit, Phase, LiveStatuses
  <2> QED
    BY <2>1 DEF Init, StoreInit, Contract!Init
<1>2. Inv /\ Inv' /\ [Next]_vars => [Contract!Next]_<<[t \in Tasks |-> Phase(t)], attempts, runs>>
  BY ContractStep
<1> QED
  BY <1>1, <1>2, InvCorrect, PTL DEF Spec, KeepsContract, Contract!Spec

-----------------------------------------------------------------------------
(* The idempotency index and the pool's capacity.                          *)

(* Every transaction keeps the idempotency index and the records in step   *)
(* (create_or_replay, _purge_oldest_terminal).                             *)
LEMMA StoreKeyIndex ==
  ASSUME StoreTypeOK, KeyIndex, [StoreNext]_storeVars
  PROVE  KeyIndex'
<1> USE StoreAssumption
        DEF StoreTypeOK, KeyIndex, Records, Exists, Statuses, LiveStatuses, TerminalStatuses
<1>1. CASE UNCHANGED storeVars
  BY <1>1 DEF storeVars
<1>2. ASSUME NEW t \in Tasks, create(t)
      PROVE  KeyIndex'
  BY <1>2 DEF create, Replayed
<1>3. ASSUME NEW t \in Tasks, purge_oldest_terminal(t)
      PROVE  KeyIndex'
  BY <1>3 DEF purge_oldest_terminal
<1>4. ASSUME NEW t \in Tasks,
             \/ increment_audit(t) \/ activate(t) \/ staging_ages(t) \/ lease_expires(t)
             \/ \E n \in Nat : acknowledge_outbox(<<t, n>>)
             \/ \E w \in Workers : heartbeat(t, w) \/ \E n \in Nat : update_attempts(t, w, n)
      PROVE  KeyIndex'
  BY <1>4 DEF increment_audit, activate, staging_ages, lease_expires, acknowledge_outbox,
              heartbeat, update_attempts
<1>5. ASSUME NEW t \in Tasks,
             \/ reject(t) \/ recover_one(t)
             \/ \E w \in Workers : \/ claim_next(t, w)
                                   \/ \E outcome \in {"succeeded", "failed"} : finish(t, w, outcome)
      PROVE  KeyIndex'
  BY <1>5 DEF reject, recover_one, claim_next, finish, HoldsLease, storeVars
<1> HIDE DEF KeyIndex, StoreTypeOK
<1> QED
  BY <1>1, <1>2, <1>3, <1>4, <1>5 DEF StoreNext

(* A retried submission finds the record of the first one, and purging a   *)
(* record frees its key (create_or_replay, _purge_oldest_terminal).        *)
THEOREM KeyIndexCorrect == Spec => []KeyIndex
<1>1. Init => KeyIndex
  BY StoreAssumption
     DEF Init, StoreInit, KeyIndex, Records, Exists, LiveStatuses, TerminalStatuses
<1>2. TypeOK /\ KeyIndex /\ [Next]_vars => KeyIndex'
  BY StoreOnly, StoreKeyIndex DEF TypeOK
<1> QED
  BY <1>1, <1>2, TypeCorrect, PTL DEF Spec

(* Recovery puts tasks into the queue without counting; what it adds there *)
(* it takes from the lease set.                                            *)
FinitePool == IsFiniteSet(queue) /\ IsFiniteSet(Leased)

(* No transaction overfills the pool: activate checks, claim_next and      *)
(* recovery only move tasks (activate, claim_next, _recover_one).          *)
LEMMA StoreCapacity ==
  ASSUME StoreTypeOK, Placement, FinitePool, CapacityRespected, [StoreNext]_storeVars
  PROVE  FinitePool' /\ CapacityRespected'
<1> DEFINE Q == Cardinality(queue)
           L == Cardinality(Leased)
<1>1. Q \in Nat /\ L \in Nat /\ Q + L <= Capacity /\ Capacity \in Nat
  BY FS_CardinalityType, StoreAssumption DEF FinitePool, CapacityRespected
<1>2. ASSUME UNCHANGED queue, UNCHANGED Leased
      PROVE  FinitePool' /\ CapacityRespected'
  BY <1>2 DEF FinitePool, CapacityRespected
<1>3. ASSUME NEW t \in Tasks
      PROVE  /\ IsFiniteSet(queue \cup {t}) /\ IsFiniteSet(queue \ {t})
             /\ IsFiniteSet(Leased \cup {t}) /\ IsFiniteSet(Leased \ {t})
             /\ Cardinality(queue \cup {t}) \in {Q, Q + 1}
             /\ Cardinality(queue \ {t}) \in {Q, Q - 1}
             /\ t \in queue => Cardinality(queue \ {t}) = Q - 1
             /\ Cardinality(Leased \cup {t}) \in {L, L + 1}
             /\ Cardinality(Leased \ {t}) \in {L, L - 1}
             /\ t \in Leased => Cardinality(Leased \ {t}) = L - 1
  <2>1. /\ IsFiniteSet(queue \cup {t})
        /\ Cardinality(queue \cup {t}) = IF t \in queue THEN Q ELSE Q + 1
    BY FS_AddElement DEF FinitePool
  <2>2. /\ IsFiniteSet(queue \ {t})
        /\ Cardinality(queue \ {t}) = IF t \in queue THEN Q - 1 ELSE Q
    BY FS_RemoveElement DEF FinitePool
  <2>3. /\ IsFiniteSet(Leased \cup {t})
        /\ Cardinality(Leased \cup {t}) = IF t \in Leased THEN L ELSE L + 1
    BY FS_AddElement DEF FinitePool
  <2>4. /\ IsFiniteSet(Leased \ {t})
        /\ Cardinality(Leased \ {t}) = IF t \in Leased THEN L - 1 ELSE L
    BY FS_RemoveElement DEF FinitePool
  <2> QED
    BY <2>1, <2>2, <2>3, <2>4
<1> HIDE DEF Q, L
<1>sum. ASSUME NEW x, NEW y,
               \/ x \in {Q, Q - 1} /\ y \in {L, L - 1}
               \/ x = Q - 1 /\ y \in {L, L + 1}
               \/ x \in {Q, Q + 1} /\ y = L - 1
               \/ Q + L < Capacity /\ x \in {Q, Q + 1} /\ y = L
        PROVE  x + y <= Capacity
  <2>1. x \in Int /\ y \in Int
    BY <1>1, <1>sum
  <2> QED
    BY <1>1, <1>sum, <2>1
<1>set. ASSUME NEW q, NEW l, queue' = q, Leased' = l, IsFiniteSet(q), IsFiniteSet(l),
               Cardinality(q) + Cardinality(l) <= Capacity
        PROVE  FinitePool' /\ CapacityRespected'
  BY <1>set DEF FinitePool, CapacityRespected
<1>4. ASSUME NEW t \in Tasks,
             \/ create(t) \/ purge_oldest_terminal(t) \/ increment_audit(t) \/ staging_ages(t)
             \/ lease_expires(t) \/ \E n \in Nat : acknowledge_outbox(<<t, n>>)
             \/ \E w \in Workers : heartbeat(t, w) \/ \E n \in Nat : update_attempts(t, w, n)
      PROVE  UNCHANGED queue /\ UNCHANGED Leased
  BY <1>4 DEF create, purge_oldest_terminal, increment_audit, staging_ages, lease_expires,
              acknowledge_outbox, heartbeat, update_attempts, HoldsLease, Leased, StoreTypeOK,
              Placement
<1>5. ASSUME NEW t \in Tasks, activate(t)
      PROVE  FinitePool' /\ CapacityRespected'
  <2>1. UNCHANGED Leased
    BY <1>5 DEF activate, Leased
  <2>2. queue' = queue \/ (queue' = queue \cup {t} /\ Q + L < Capacity)
    BY <1>5 DEF activate, Outstanding, Q, L
  <2> QED
    <3>1. CASE queue' = queue
      BY <1>2, <2>1, <3>1
    <3>2. CASE queue' = queue \cup {t} /\ Q + L < Capacity
      <4>1. Cardinality(queue \cup {t}) + L <= Capacity
        BY <1>3, <1>sum, <3>2
      <4> QED
        BY <1>3, <1>set, <2>1, <3>2, <4>1 DEF FinitePool, L
    <3> QED
      BY <2>2, <3>1, <3>2
<1>6. ASSUME NEW t \in Tasks, queue' = queue \ {t}, Leased' = Leased \ {t}
      PROVE  FinitePool' /\ CapacityRespected'
  <2>1. Cardinality(queue \ {t}) + Cardinality(Leased \ {t}) <= Capacity
    BY <1>3, <1>sum
  <2> QED
    BY <1>3, <1>6, <2>1, <1>set
<1>7. ASSUME NEW t \in Tasks, reject(t)
      PROVE  FinitePool' /\ CapacityRespected'
  <2>1. CASE UNCHANGED storeVars
    BY <1>2, <2>1 DEF storeVars, Leased
  <2>2. CASE status[t] \in LiveStatuses
    BY <1>6, <1>7, <2>2 DEF reject, Leased, StoreTypeOK, LiveStatuses, TerminalStatuses
  <2> QED
    BY <1>7, <2>1, <2>2 DEF reject
<1>8. ASSUME NEW t \in Tasks, NEW w \in Workers, NEW outcome \in {"succeeded", "failed"},
             finish(t, w, outcome)
      PROVE  FinitePool' /\ CapacityRespected'
  <2>1. t \notin queue
    BY <1>8 DEF finish, HoldsLease, Placement
  <2> QED
    BY <1>6, <1>8, <2>1 DEF finish, Leased, StoreTypeOK
<1>9. ASSUME NEW t \in Tasks, NEW w \in Workers, claim_next(t, w)
      PROVE  FinitePool' /\ CapacityRespected'
  <2>1. t \in queue /\ queue' = queue \ {t} /\ Leased' = Leased \cup {t}
    BY <1>9 DEF claim_next, Leased, StoreTypeOK
  <2>2. Cardinality(queue \ {t}) + Cardinality(Leased \cup {t}) <= Capacity
    BY <1>3, <1>sum, <2>1
  <2> QED
    BY <1>3, <1>set, <2>1, <2>2
<1>10. ASSUME NEW t \in Tasks, recover_one(t)
       PROVE  FinitePool' /\ CapacityRespected'
  <2>1. t \in Leased /\ queue' = queue \cup {t} /\ Leased' = Leased \ {t}
    BY <1>10 DEF recover_one, Leased, StoreTypeOK
  <2>2. Cardinality(queue \cup {t}) + Cardinality(Leased \ {t}) <= Capacity
    BY <1>3, <1>sum, <2>1
  <2> QED
    BY <1>3, <1>set, <2>1, <2>2
<1>11. CASE UNCHANGED storeVars
  BY <1>2, <1>11 DEF storeVars, Leased
<1> QED
  BY <1>2, <1>4, <1>5, <1>7, <1>8, <1>9, <1>10, <1>11 DEF StoreNext

(* Queue and leases together never exceed queue_capacity + workers         *)
(* (activate, _recover_one).                                               *)
THEOREM CapacityCorrect == Spec => []CapacityRespected
<1>1. Init => FinitePool /\ CapacityRespected
  <2>1. Init => queue = {} /\ Leased = {}
    BY DEF Init, StoreInit, Leased
  <2> QED
    BY <2>1, FS_EmptySet, StoreAssumption DEF FinitePool, CapacityRespected
<1>2. TypeOK /\ Placement /\ FinitePool /\ CapacityRespected /\ [Next]_vars
        => FinitePool' /\ CapacityRespected'
  BY StoreOnly, StoreCapacity DEF TypeOK
<1> QED
  BY <1>1, <1>2, TypeCorrect, PlacementCorrect, PTL DEF Spec

-----------------------------------------------------------------------------
(* Every queued task is announced.                                         *)

(* A reconciliation pass has sent the wake of member m and not yet         *)
(* acknowledged it.                                                        *)
Holds(a, m) == pass[a].at = "acknowledge" /\ pass[a].cur = m
Known(t, n) == <<t, n>> \in outbox \/ \E a \in Passers : Holds(a, <<t, n>>)
Unnotified  == outbox \ Notified

(* The entry activate or recovery is about to write is new: no entry of a  *)
(* task is known before its activation, none is of a generation to come.   *)
FreshEntries ==
  \A t \in Tasks, n \in Nat :
    Known(t, n) => n <= generation[t] /\ status[t] # "absent" /\ t \notin staging

AnnounceInv ==
  /\ IsFiniteSet(queue) /\ IsFiniteSet(outbox)
  /\ FreshEntries

(* What a transaction does to the queue and the outbox: it adds no work,   *)
(* or one task together with a new entry, or it acknowledges an entry.     *)
Quiet        == queue' \subseteq queue /\ outbox' = outbox
Announces(t) == \E n \in Nat : /\ ~Known(t, n)
                               /\ n <= generation'[t] /\ status'[t] # "absent" /\ t \notin staging'
                               /\ queue' = queue \cup {t}
                               /\ outbox' = outbox \cup {<<t, n>>}

(* What is known of the entries of a task only grows staler: generations   *)
(* grow, no record becomes absent, a task is staged once (create).         *)
Ages(t) == /\ generation[t] <= generation'[t]
           /\ status'[t] = "absent" => status[t] = "absent"
           /\ t \in staging' => t \in staging \/ status[t] = "absent"

(* Activation and recovery announce the task they queue (activate,         *)
(* _recover_one).                                                          *)
LEMMA Announcing ==
  ASSUME TypeOK, Placement, FreshEntries, NEW t \in Tasks, activate(t) \/ recover_one(t)
  PROVE  /\ Quiet \/ Announces(t)
         /\ \A u \in Tasks : Ages(u)
<1> USE DEF TypeOK, StoreTypeOK
<1>1. CASE activate(t)
  <2>1. \A u \in Tasks : Ages(u)
    BY <1>1 DEF activate, Ages
  <2>2. CASE UNCHANGED <<queue, outbox>>
    BY <2>1, <2>2 DEF Quiet
  <2>3. CASE /\ ~AlreadyPlaced(t)
             /\ queue' = queue \cup {t}
             /\ outbox' = outbox \cup {<<t, generation[t]>>}
    <3>1. t \in staging
      BY <1>1, <2>3 DEF activate, AlreadyPlaced, Placement
    <3>2. generation[t] \in Nat /\ ~Known(t, generation[t])
      BY <3>1 DEF FreshEntries
    <3>3. t \notin staging' /\ status'[t] # "absent" /\ generation'[t] = generation[t]
      BY <1>1 DEF activate
    <3> QED
      BY <2>1, <2>3, <3>2, <3>3 DEF Announces
  <2> QED
    BY <1>1, <2>2, <2>3 DEF activate
<1>2. CASE recover_one(t)
  <2>1. \A u \in Tasks : Ages(u)
    BY <1>2 DEF recover_one, Ages
  <2>2. t \notin staging
    BY <1>2 DEF recover_one, Placement
  <2>3. generation[t] + 1 \in Nat /\ ~Known(t, generation[t] + 1)
    BY DEF FreshEntries
  <2>4. t \notin staging' /\ status'[t] # "absent" /\ generation'[t] = generation[t] + 1
    BY <1>2, <2>2 DEF recover_one
  <2> QED
    BY <1>2, <2>1, <2>3, <2>4 DEF recover_one, Announces
<1> QED
  BY <1>1, <1>2

(* Every transaction adds no work, announces what it adds, or is an        *)
(* acknowledgement.                                                        *)
LEMMA StoreAnnounces ==
  ASSUME TypeOK, Placement, FreshEntries, [StoreNext]_storeVars
  PROVE  /\ \/ Quiet
            \/ \E t \in Tasks : Announces(t)
            \/ \E t \in Tasks, n \in Nat : acknowledge_outbox(<<t, n>>)
         /\ \A u \in Tasks : Ages(u)
<1> USE DEF TypeOK, StoreTypeOK
<1>1. CASE UNCHANGED storeVars
  BY <1>1 DEF storeVars, Quiet, Ages
<1>2. ASSUME NEW t \in Tasks,
             \/ create(t) \/ purge_oldest_terminal(t) \/ increment_audit(t) \/ reject(t)
             \/ staging_ages(t) \/ lease_expires(t)
      PROVE  Quiet /\ \A u \in Tasks : Ages(u)
  BY <1>2 DEF create, purge_oldest_terminal, increment_audit, reject, staging_ages,
              lease_expires, storeVars, LiveStatuses, TerminalStatuses, Quiet, Ages
<1>3. ASSUME NEW t \in Tasks, NEW n \in Nat, acknowledge_outbox(<<t, n>>)
      PROVE  \A u \in Tasks : Ages(u)
  BY <1>3 DEF acknowledge_outbox, Ages
<1>4. ASSUME NEW t \in Tasks, NEW w \in Workers,
             \/ claim_next(t, w) \/ heartbeat(t, w)
             \/ \E n \in Nat : update_attempts(t, w, n)
             \/ \E outcome \in {"succeeded", "failed"} : finish(t, w, outcome)
      PROVE  Quiet /\ \A u \in Tasks : Ages(u)
  BY <1>4 DEF claim_next, heartbeat, update_attempts, finish, Quiet, Ages
<1> HIDE DEF TypeOK, StoreTypeOK
<1> QED
  BY <1>1, <1>2, <1>3, <1>4, Announcing DEF StoreNext

(* A pass begins to hold an entry only while it is in the outbox, or held  *)
(* by that pass already.                                                   *)
Holding == \A a \in Passers, m \in Members : Holds(a, m)' => Holds(a, m) \/ m \in outbox

(* Entries stay fresh over every step that takes an entry up from the      *)
(* outbox only.                                                            *)
LEMMA FreshStep ==
  ASSUME TypeOK, Placement, FreshEntries, [StoreNext]_storeVars, Holding
  PROVE  FreshEntries'
<1>1. ASSUME NEW t \in Tasks, NEW n \in Nat, Known(t, n)', ~Known(t, n)
      PROVE  n <= generation'[t] /\ status'[t] # "absent" /\ t \notin staging'
  <2>1. <<t, n>> \in outbox' /\ <<t, n>> \notin outbox
    BY <1>1 DEF Known, Holding, Members
  <2>2. PICK u \in Tasks : Announces(u)
    BY <2>1, StoreAnnounces DEF Quiet, acknowledge_outbox
  <2> QED
    BY <2>1, <2>2 DEF Announces
<1>2. ASSUME NEW t \in Tasks, NEW n \in Nat, Known(t, n)
      PROVE  n <= generation'[t] /\ status'[t] # "absent" /\ t \notin staging'
  <2>1. Ages(t)
    BY StoreAnnounces
  <2>2. generation[t] \in Nat /\ generation'[t] \in Nat
    BY StoreTyping DEF TypeOK, StoreTypeOK
  <2> QED
    BY <1>2, <2>1, <2>2 DEF Ages, FreshEntries
<1> QED
  BY <1>1, <1>2 DEF FreshEntries

(* The counting: fewer tasks or more entries, a wake for an entry, a wake  *)
(* for a task.                                                             *)
LEMMA Counting ==
  ASSUME NEW q, NEW u, IsFiniteSet(q), IsFiniteSet(u)
  PROVE  /\ \A p, v : p \subseteq q /\ u \subseteq v /\ IsFiniteSet(v)
                        => Cardinality(p) - Cardinality(v) <= Cardinality(q) - Cardinality(u)
         /\ \A y, v : u \ {y} \subseteq v /\ IsFiniteSet(v) => Cardinality(u) <= Cardinality(v) + 1
         /\ \A x, v : x \in q /\ u \subseteq v /\ IsFiniteSet(v)
                        => Cardinality(q \ {x}) - Cardinality(v) <= Cardinality(q) - Cardinality(u) - 1
<1>1. Cardinality(q) \in Nat /\ Cardinality(u) \in Nat
  BY FS_CardinalityType
<1>2. ASSUME NEW v, NEW s, s \subseteq v, IsFiniteSet(v)
      PROVE  /\ IsFiniteSet(s) /\ Cardinality(s) <= Cardinality(v)
             /\ Cardinality(v) \in Nat /\ Cardinality(s) \in Nat
  BY <1>2, FS_Subset, FS_CardinalityType
<1>3. ASSUME NEW p, NEW v, p \subseteq q, u \subseteq v, IsFiniteSet(v)
      PROVE  Cardinality(p) - Cardinality(v) <= Cardinality(q) - Cardinality(u)
  <2>1. Cardinality(p) <= Cardinality(q) /\ Cardinality(p) \in Nat
    BY <1>2, <1>3
  <2>2. Cardinality(u) <= Cardinality(v) /\ Cardinality(v) \in Nat
    BY <1>2, <1>3
  <2> QED
    BY <1>1, <2>1, <2>2
<1>4. ASSUME NEW y, NEW v, u \ {y} \subseteq v, IsFiniteSet(v)
      PROVE  Cardinality(u) <= Cardinality(v) + 1
  <2>1. Cardinality(u \ {y}) \in {Cardinality(u), Cardinality(u) - 1}
    BY FS_RemoveElement
  <2>2. Cardinality(u \ {y}) <= Cardinality(v) /\ Cardinality(v) \in Nat
    BY <1>2, <1>4
  <2> QED
    BY <1>1, <2>1, <2>2
<1>5. ASSUME NEW x, NEW v, x \in q, u \subseteq v, IsFiniteSet(v)
      PROVE  Cardinality(q \ {x}) - Cardinality(v) <= Cardinality(q) - Cardinality(u) - 1
  <2>1. Cardinality(q \ {x}) = Cardinality(q) - 1
    BY <1>5, FS_RemoveElement
  <2>2. Cardinality(u) <= Cardinality(v) /\ Cardinality(v) \in Nat
    BY <1>2, <1>5
  <2> QED
    BY <1>1, <2>1, <2>2
<1> QED
  BY <1>3, <1>4, <1>5

(* One more task with one more entry.                                      *)
LEMMA CountingAdded ==
  ASSUME NEW q, NEW u, NEW v, NEW x, NEW y,
         IsFiniteSet(q), IsFiniteSet(v), y \notin u, u \cup {y} \subseteq v
  PROVE  Cardinality(q \cup {x}) - Cardinality(v) <= Cardinality(q) - Cardinality(u)
<1>1. IsFiniteSet(u) /\ Cardinality(u \cup {y}) <= Cardinality(v)
  BY FS_Subset
<1>2. Cardinality(q) \in Nat /\ Cardinality(u) \in Nat /\ Cardinality(v) \in Nat
  BY <1>1, FS_CardinalityType
<1>3. Cardinality(q \cup {x}) \in {Cardinality(q), Cardinality(q) + 1}
  BY FS_AddElement
<1>4. Cardinality(u \cup {y}) = Cardinality(u) + 1
  BY <1>1, FS_AddElement
<1> QED
  BY <1>1, <1>2, <1>3, <1>4

(* Queue and outbox stay finite.                                           *)
LEMMA FiniteStep ==
  ASSUME TypeOK, Placement, FreshEntries, IsFiniteSet(queue), IsFiniteSet(outbox),
         [StoreNext]_storeVars
  PROVE  IsFiniteSet(queue') /\ IsFiniteSet(outbox')
<1>1. CASE Quiet
  BY <1>1, FS_Subset DEF Quiet
<1>2. ASSUME NEW t \in Tasks, Announces(t)
      PROVE  IsFiniteSet(queue') /\ IsFiniteSet(outbox')
  BY <1>2, FS_AddElement DEF Announces
<1>3. ASSUME NEW t \in Tasks, NEW n \in Nat, acknowledge_outbox(<<t, n>>)
      PROVE  IsFiniteSet(queue') /\ IsFiniteSet(outbox')
  BY <1>3, FS_RemoveElement DEF acknowledge_outbox
<1> QED
  BY <1>1, <1>2, <1>3, StoreAnnounces

(* The shortfall is a number.                                              *)
LEMMA ShortfallType ==
  ASSUME TypeOK, AnnounceInv
  PROVE  /\ IsFiniteSet(queue) /\ IsFiniteSet(Unnotified) /\ wakes \in Nat
         /\ Cardinality(queue) \in Nat /\ Cardinality(Unnotified) \in Nat
<1>1. IsFiniteSet(queue) /\ IsFiniteSet(Unnotified)
  BY FS_Subset DEF AnnounceInv, Unnotified
<1> QED
  BY <1>1, FS_CardinalityType DEF TypeOK

(* A step that takes no wake and lets no pass take up an entry.            *)
LEMMA AnnounceFrame ==
  ASSUME TypeOK, AnnounceInv, IsFiniteSet(outbox'),
         wakes' \in Nat, wakes <= wakes',
         \A a \in Passers, m \in Members : Holds(a, m)' => Holds(a, m),
         Quiet \/ \E t \in Tasks : Announces(t)
  PROVE  Shortfall' <= Shortfall
<1>1. /\ IsFiniteSet(queue) /\ IsFiniteSet(Unnotified) /\ wakes \in Nat
      /\ Cardinality(queue) \in Nat /\ Cardinality(Unnotified) \in Nat
  BY ShortfallType
<1>2. IsFiniteSet(Unnotified')
  BY FS_Subset DEF Unnotified
<1>3. outbox \subseteq Members
  BY DEF TypeOK, StoreTypeOK, Members
<1>4. Unnotified \subseteq Unnotified'
  BY <1>3 DEF Unnotified, Notified, Holds, Quiet, Announces
<1>5. Cardinality(queue') - Cardinality(Unnotified') <= Cardinality(queue) - Cardinality(Unnotified)
  <2>1. CASE Quiet
    BY <1>1, <1>2, <1>4, <2>1, Counting DEF Quiet
  <2>2. ASSUME NEW t \in Tasks, Announces(t)
        PROVE  Cardinality(queue') - Cardinality(Unnotified')
                 <= Cardinality(queue) - Cardinality(Unnotified)
    <3>1. PICK n \in Nat : /\ ~Known(t, n)
                           /\ queue' = queue \cup {t}
                           /\ outbox' = outbox \cup {<<t, n>>}
      BY <2>2 DEF Announces
    <3>2. <<t, n>> \in Members /\ <<t, n>> \notin Unnotified
      BY <3>1 DEF Members, Known, Unnotified
    <3>3. <<t, n>> \in Unnotified'
      BY <3>1, <3>2 DEF Unnotified, Notified, Known, Holds
    <3>4. PICK y : y = <<t, n>> /\ y \notin Unnotified /\ Unnotified \cup {y} \subseteq Unnotified'
      BY <1>4, <3>2, <3>3
    <3>5. Cardinality(queue \cup {t}) - Cardinality(Unnotified')
            <= Cardinality(queue) - Cardinality(Unnotified)
      BY <1>1, <1>2, <3>4, CountingAdded
    <3> QED
      BY <3>1, <3>5
  <2> QED
    BY <2>1, <2>2
<1>6. Cardinality(Unnotified') \in Nat /\ Cardinality(queue') \in Nat
  <2>1. IsFiniteSet(queue')
    BY <1>1, FS_Subset, FS_AddElement DEF Quiet, Announces
  <2> QED
    BY <1>2, <2>1, FS_CardinalityType
<1> QED
  BY <1>1, <1>5, <1>6 DEF Shortfall, Unnotified

(* No pass takes up an entry.                                              *)
PassesKeep == \A a \in Passers, m \in Members : Holds(a, m)' => Holds(a, m)

(* The announcement survives every step of a submit call and of time.      *)
LEMMA AnnounceSubmit ==
  ASSUME TypeOK, Placement, AnnounceInv, IsFiniteSet(outbox'), NEW t \in Tasks,
         \/ SubmitStep(t) \/ PassDone(t) \/ StagingAges(t) \/ LeaseExpires(t)
         \/ CallFails(t) \/ CallCrash(t) \/ LeaseStalls(t)
  PROVE  PassesKeep /\ Shortfall' <= Shortfall
<1>1. UNCHANGED wakes /\ PassesKeep
  <2> USE DEF PassesKeep, Holds, TypeOK
  <2>1. CASE SubmitStep(t)
    BY <2>1 DEF SubmitStep, PurgeForRoom, RefuseCreate, Replay, Create, AuditQueued,
                ConfirmQueued, RejectUnaudited, Activate, ActivateRaises, RejectFull,
                AuditRejected, Ready, Loop, submitRest
  <2>2. CASE PassDone(t)
    BY <2>2 DEF PassDone, EndPass, Ready, Loop, NoPass, passRest
  <2>3. CASE StagingAges(t) \/ LeaseExpires(t) \/ LeaseStalls(t)
    BY <2>3 DEF StagingAges, LeaseExpires, LeaseStalls, timeRest
  <2>4. CASE CallFails(t) \/ CallCrash(t)
    BY <2>4 DEF CallFails, CallCrash, NoPass
  <2> QED
    BY <2>1, <2>2, <2>3, <2>4
<1>2. Quiet \/ \E u \in Tasks : Announces(u)
  <2>1. CASE activate(t)
    BY <2>1, Announcing DEF AnnounceInv
  <2>2. CASE UNCHANGED storeVars
    BY <2>2 DEF storeVars, Quiet
  <2>3. ASSUME NEW u \in Tasks,
               \/ create(u) \/ purge_oldest_terminal(u) \/ increment_audit(u) \/ reject(u)
               \/ staging_ages(u) \/ lease_expires(u)
        PROVE  Quiet
    BY <2>3 DEF create, purge_oldest_terminal, increment_audit, reject, staging_ages,
                lease_expires, storeVars, Quiet
  <2>4. CASE SubmitStep(t)
    BY <2>1, <2>2, <2>3, <2>4
       DEF SubmitStep, PurgeForRoom, RefuseCreate, Replay, Create, AuditQueued, ConfirmQueued,
           RejectUnaudited, Activate, ActivateRaises, RejectFull, AuditRejected
  <2>5. CASE \/ PassDone(t) \/ StagingAges(t) \/ LeaseExpires(t)
             \/ CallFails(t) \/ CallCrash(t) \/ LeaseStalls(t)
    BY <2>1, <2>2, <2>3, <2>5
       DEF PassDone, StagingAges, LeaseExpires, CallFails, StoreCall, CallCrash, LeaseStalls
  <2> QED
    BY <2>4, <2>5
<1> QED
  BY <1>1, <1>2, AnnounceFrame DEF PassesKeep, TypeOK

(* The announcement survives every step of a pass: the wake is sent before *)
(* the entry is acknowledged (_deliver_outbox).                            *)
LEMMA AnnouncePass ==
  ASSUME TypeOK, Placement, AnnounceInv, IsFiniteSet(outbox'), NEW a \in Passers,
         PassStep(a) \/ PassFails(a)
  PROVE  Holding /\ Shortfall' <= Shortfall
<1>1. pass[a].at \in {"activate", "reject"} => pass[a].cur \in Tasks
  BY DEF TypeOK, PassStates
<1>2. outbox \subseteq Members
  BY DEF TypeOK, StoreTypeOK, Members
<1>3. ASSUME Quiet \/ \E u \in Tasks : Announces(u), UNCHANGED wakes, PassesKeep
      PROVE  Holding /\ Shortfall' <= Shortfall
  BY <1>3, AnnounceFrame DEF PassesKeep, Holding, TypeOK
<1>4. ASSUME NEW t \in Tasks, Recover(a, t)
      PROVE  Holding /\ Shortfall' <= Shortfall
  BY <1>3, <1>4, Announcing DEF Recover, AnnounceInv, PassesKeep, Holds
<1>5. ASSUME NEW t \in Tasks, StagingRead(a, t)
      PROVE  Holding /\ Shortfall' <= Shortfall
  BY <1>3, <1>5 DEF StagingRead, storeVars, Quiet, PassesKeep, Holds, TypeOK
<1>6. CASE StagingActivate(a)
  <2>1. UNCHANGED wakes /\ PassesKeep
    BY <1>6 DEF StagingActivate, EndPass, Ready, Loop, NoPass, PassesKeep, Holds, TypeOK
  <2>2. activate(pass[a].cur) \/ UNCHANGED storeVars
    BY <1>6 DEF StagingActivate
  <2>3. pass[a].cur \in Tasks
    BY <1>1, <1>6 DEF StagingActivate
  <2> QED
    BY <1>3, <2>1, <2>2, <2>3, Announcing DEF AnnounceInv, storeVars, Quiet
<1>7. CASE StagingReject(a)
  BY <1>3, <1>7 DEF StagingReject, reject, storeVars, Quiet, Ready, Loop, PassesKeep, Holds, TypeOK
<1>8. CASE PassFails(a)
  BY <1>3, <1>8
     DEF PassFails, EndPass, Ready, Loop, NoPass, storeVars, Quiet, PassesKeep, Holds, TypeOK
<1>9. ASSUME NEW m \in outbox, Notify(a, m)
      PROVE  Holding /\ Shortfall' <= Shortfall
  <2>1. /\ UNCHANGED <<queue, outbox>> /\ wakes' = wakes + 1
        /\ pass' = [pass EXCEPT ![a] = [at |-> "acknowledge", cur |-> m]]
    BY <1>9 DEF Notify, storeVars
  <2>2. Holding
    BY <1>9, <2>1 DEF Holding, Holds, TypeOK
  <2>3. Unnotified \ {m} \subseteq Unnotified'
    BY <1>9, <2>1 DEF Unnotified, Notified, TypeOK
  <2>4. /\ IsFiniteSet(queue) /\ IsFiniteSet(Unnotified) /\ wakes \in Nat
        /\ Cardinality(queue) \in Nat /\ Cardinality(Unnotified) \in Nat
    BY ShortfallType
  <2>5. IsFiniteSet(Unnotified') /\ Cardinality(Unnotified') \in Nat
    BY FS_Subset, FS_CardinalityType DEF Unnotified
  <2>6. Cardinality(Unnotified) <= Cardinality(Unnotified') + 1
    BY <2>3, <2>4, <2>5, Counting
  <2> QED
    BY <2>1, <2>2, <2>4, <2>5, <2>6 DEF Shortfall, Unnotified
<1>10. CASE Acknowledge(a)
  <2>1. /\ UNCHANGED <<queue, wakes>> /\ outbox' = outbox \ {pass[a].cur}
        /\ pass' = [pass EXCEPT ![a] = Loop]
        /\ pass[a].at = "acknowledge"
    BY <1>10 DEF Acknowledge, acknowledge_outbox, Ready
  <2>2. Holding
    BY <2>1 DEF Holding, Holds, Loop, TypeOK
  <2>3. Unnotified \subseteq Unnotified'
    BY <2>1 DEF Unnotified, Notified, Loop, TypeOK
  <2>4. /\ IsFiniteSet(queue) /\ IsFiniteSet(Unnotified) /\ wakes \in Nat
        /\ Cardinality(queue) \in Nat /\ Cardinality(Unnotified) \in Nat
    BY ShortfallType
  <2>5. IsFiniteSet(Unnotified') /\ Cardinality(Unnotified') \in Nat
    BY FS_Subset, FS_CardinalityType DEF Unnotified
  <2>6. Cardinality(queue) - Cardinality(Unnotified') <= Cardinality(queue) - Cardinality(Unnotified)
    BY <2>3, <2>4, <2>5, Counting
  <2> QED
    BY <2>1, <2>2, <2>4, <2>5, <2>6 DEF Shortfall, Unnotified
<1> QED
  BY <1>4, <1>5, <1>6, <1>7, <1>8, <1>9, <1>10 DEF PassStep

(* What a step may do to the announcements.                                *)
AnnounceKept ==
  \/ Shortfall' <= Shortfall
  \/ Shortfall' <= 0
  \/ ClaimLost /\ Shortfall' = Shortfall + 1

(* A wake is spent on a task, on an empty queue, or on a claim that fails  *)
(* before its transaction (claim_next, process_next).                      *)
LEMMA AnnounceWork ==
  ASSUME TypeOK, Placement, AnnounceInv, IsFiniteSet(outbox'), wakes' \in Nat,
         NEW w \in Workers,
         \/ WorkerStep(w) \/ Heartbeat(w)
         \/ ClaimFails(w) \/ WorkerFails(w) \/ WorkerCrash(w) \/ HeartbeatFails(w)
  PROVE  UNCHANGED pass /\ AnnounceKept
<1>1. /\ IsFiniteSet(queue) /\ IsFiniteSet(Unnotified) /\ wakes \in Nat
      /\ Cardinality(queue) \in Nat /\ Cardinality(Unnotified) \in Nat
  BY ShortfallType
<1>2. ASSUME NEW t \in Tasks, claim_next(t, w), wakes' = wakes - 1, UNCHANGED pass
      PROVE  AnnounceKept
  <2>1. t \in queue /\ queue' = queue \ {t} /\ UNCHANGED outbox
    BY <1>2 DEF claim_next
  <2>2. Unnotified' = Unnotified
    BY <1>2, <2>1 DEF Unnotified, Notified
  <2>3. Cardinality(queue \ {t}) = Cardinality(queue) - 1
    BY <1>1, <2>1, FS_RemoveElement
  <2>4. Shortfall' = Cardinality(queue \ {t}) - (wakes - 1) - Cardinality(Unnotified)
    BY <1>2, <2>1, <2>2 DEF Shortfall, Unnotified
  <2>5. Shortfall = Cardinality(queue) - wakes - Cardinality(Unnotified)
    BY DEF Shortfall, Unnotified
  <2>6. Shortfall' = Shortfall
    BY <1>1, <2>3, <2>4, <2>5
  <2> QED
    BY <1>1, <2>5, <2>6 DEF AnnounceKept
<1>3. ASSUME UNCHANGED <<queue, outbox, pass>>, wakes <= wakes'
      PROVE  AnnounceKept
  BY <1>3, AnnounceFrame DEF Quiet, Holds, AnnounceKept
<1>4. ASSUME NEW t \in Tasks, Claim(w, t)
      PROVE  UNCHANGED pass /\ AnnounceKept
  BY <1>2, <1>4 DEF Claim
<1>5. CASE ClaimNothing(w)
  <2>1. queue' = {} /\ UNCHANGED <<outbox, pass>>
    BY <1>5 DEF ClaimNothing, storeVars
  <2>2. Cardinality(queue') = 0 /\ Cardinality(Unnotified') \in Nat
    BY <2>1, FS_EmptySet, FS_Subset, FS_CardinalityType DEF Unnotified
  <2> QED
    BY <2>1, <2>2 DEF Shortfall, Unnotified, AnnounceKept
<1>6. CASE ClaimFails(w)
  <2>1. UNCHANGED pass /\ wakes' = wakes - 1
    BY <1>6 DEF ClaimFails
  <2>2. CASE UNCHANGED storeVars
    <3>1. UNCHANGED <<queue, outbox>>
      BY <2>2 DEF storeVars
    <3>2. Unnotified' = Unnotified
      BY <2>1, <3>1 DEF Unnotified, Notified
    <3>3. ClaimLost
      BY <1>6, <3>1 DEF ClaimLost
    <3> QED
      BY <1>1, <2>1, <3>1, <3>2, <3>3 DEF Shortfall, Unnotified, AnnounceKept
  <2>3. ASSUME NEW t \in queue, claim_next(t, w)
        PROVE  AnnounceKept
    BY <1>2, <2>1, <2>3 DEF TypeOK, StoreTypeOK
  <2> QED
    BY <1>6, <2>1, <2>2, <2>3 DEF ClaimFails
<1>7. CASE \/ AuditStarted(w) \/ BeginAttempt(w) \/ StartHandler(w) \/ AttemptRefused(w)
           \/ HandlerReturns(w) \/ AuditRetry(w) \/ AuditCompleted(w) \/ AuditOutput(w)
           \/ AuditFailed(w) \/ Finish(w)
  BY <1>1, <1>3, <1>7
     DEF AuditStarted, BeginAttempt, StartHandler, AttemptRefused, HandlerReturns, AuditRetry,
         AuditCompleted, AuditOutput, AuditFailed, Finish, update_attempts, finish, storeVars,
         workRest
<1>8. CASE Heartbeat(w) \/ WorkerFails(w) \/ WorkerCrash(w) \/ HeartbeatFails(w)
  BY <1>1, <1>3, <1>8
     DEF Heartbeat, WorkerFails, WorkerCrash, HeartbeatFails, heartbeat, update_attempts,
         storeVars, workRest
<1> QED
  BY <1>4, <1>5, <1>6, <1>7, <1>8 DEF WorkerStep

(* Finiteness and freshness are inductive, and every step keeps the        *)
(* announcements or is a claim that fails.                                 *)
LEMMA AnnounceStep ==
  ASSUME TypeOK, TypeOK', Placement, AnnounceInv, [Next]_vars
  PROVE  /\ AnnounceInv'
         /\ UNCHANGED vars \/ AnnounceKept
<1>1. [StoreNext]_storeVars
  BY StoreOnly
<1>2. IsFiniteSet(queue') /\ IsFiniteSet(outbox')
  BY <1>1, FiniteStep DEF AnnounceInv
<1>3. ASSUME Holding
      PROVE  AnnounceInv'
  BY <1>1, <1>2, <1>3, FreshStep DEF AnnounceInv
<1>4. CASE UNCHANGED vars
  BY <1>3, <1>4 DEF vars, Holding, Holds
<1>5. ASSUME NEW t \in Tasks,
             \/ SubmitStep(t) \/ PassDone(t) \/ StagingAges(t) \/ LeaseExpires(t)
             \/ CallFails(t) \/ CallCrash(t) \/ LeaseStalls(t)
      PROVE  AnnounceInv' /\ AnnounceKept
  BY <1>2, <1>3, <1>5, AnnounceSubmit DEF PassesKeep, Holding, AnnounceKept
<1>6. ASSUME NEW a \in Passers, PassStep(a) \/ PassFails(a)
      PROVE  AnnounceInv' /\ AnnounceKept
  BY <1>2, <1>3, <1>6, AnnouncePass DEF AnnounceKept
<1>7. ASSUME NEW w \in Workers,
             \/ WorkerStep(w) \/ Heartbeat(w)
             \/ ClaimFails(w) \/ WorkerFails(w) \/ WorkerCrash(w) \/ HeartbeatFails(w)
      PROVE  AnnounceInv' /\ AnnounceKept
  <2>1. UNCHANGED pass /\ AnnounceKept
    BY <1>2, <1>7, AnnounceWork DEF TypeOK
  <2> QED
    BY <1>3, <2>1 DEF Holding, Holds
<1> QED
  BY <1>4, <1>5, <1>6, <1>7 DEF Next, FaultStep

(* Before the first step nothing is queued and nothing announced.          *)
LEMMA AnnounceInit == Init => AnnounceInv /\ QueueAnnounced
<1> SUFFICES ASSUME Init
             PROVE  AnnounceInv /\ QueueAnnounced
  OBVIOUS
<1>1. /\ queue = {} /\ outbox = {} /\ wakes = 0 /\ outbox \ Notified = {}
      /\ \A a \in Passers : pass[a].at # "acknowledge"
  BY DEF Init, StoreInit, Loop, NoPass
<1>2. FreshEntries
  BY <1>1 DEF FreshEntries, Known, Holds
<1>3. QueueAnnounced
  BY <1>1, FS_EmptySet DEF QueueAnnounced
<1> QED
  BY <1>1, <1>2, <1>3, FS_EmptySet DEF AnnounceInv

(* Under all faults an announcement is lost by a claim that raises before  *)
(* its transaction only, one at a time (activate, _recover_one,            *)
(* _deliver_outbox, claim_next): crashes, lost answers, stalled workers    *)
(* and failing passes lose none.                                           *)
THEOREM LossesCorrect == Spec => OnlyClaimsLoseWakes
<1>1. TypeOK /\ TypeOK' /\ Placement /\ AnnounceInv /\ [Next]_vars => AnnounceInv'
  BY AnnounceStep
<1>2. TypeOK /\ TypeOK' /\ Placement /\ AnnounceInv /\ [Next]_vars
        => [ \/ Shortfall' <= Shortfall
             \/ Shortfall' <= 0
             \/ ClaimLost /\ Shortfall' = Shortfall + 1 ]_vars
  BY AnnounceStep DEF AnnounceKept
<1> QED
  BY <1>1, <1>2, AnnounceInit, TypeCorrect, PlacementCorrect, PTL DEF Spec, OnlyClaimsLoseWakes

(* Where no claim raises like that, every queued task is announced by a    *)
(* wake or by an entry still to be notified.                               *)
THEOREM QueueAnnouncedCorrect ==
  ASSUME "claim" \notin FaultKinds
  PROVE  Spec => []QueueAnnounced
<1>1. ASSUME TypeOK, AnnounceInv
      PROVE  QueueAnnounced <=> Shortfall <= 0
  <2> DEFINE q == Cardinality(queue)
             u == Cardinality(Unnotified)
  <2>1. q \in Nat /\ u \in Nat /\ wakes \in Nat
    BY <1>1, ShortfallType
  <2>2. (QueueAnnounced <=> q <= wakes + u) /\ Shortfall = q - wakes - u
    BY DEF QueueAnnounced, Shortfall, Unnotified
  <2> HIDE DEF q, u
  <2> QED
    BY <2>1, <2>2
<1>2. ASSUME ClaimLost
      PROVE  FALSE
  BY <1>2 DEF ClaimLost, ClaimFails, Fault, claim_next
<1>3. ASSUME TypeOK, TypeOK', Placement, AnnounceInv, QueueAnnounced, [Next]_vars
      PROVE  AnnounceInv' /\ QueueAnnounced'
  <2>1. AnnounceInv' /\ (UNCHANGED vars \/ AnnounceKept)
    BY <1>3, AnnounceStep
  <2>2. CASE UNCHANGED vars
    BY <1>3, <2>1, <2>2 DEF vars, storeVars, QueueAnnounced, Notified
  <2>3. CASE AnnounceKept
    <3>1. QueueAnnounced' <=> Shortfall' <= 0
      <4>1. /\ Cardinality(queue') \in Nat /\ Cardinality(Unnotified') \in Nat
            /\ wakes' \in Nat
        <5>1. IsFiniteSet(queue') /\ IsFiniteSet(Unnotified')
          BY <2>1, FS_Subset DEF AnnounceInv, Unnotified
        <5> QED
          BY <1>3, <5>1, FS_CardinalityType DEF TypeOK
      <4> QED
        BY <4>1 DEF QueueAnnounced, Shortfall, Unnotified
    <3>2. Shortfall \in Int /\ Shortfall' \in Int
      <4>1. Shortfall' \in Int
        <5>1. IsFiniteSet(queue') /\ IsFiniteSet(Unnotified')
          BY <2>1, FS_Subset DEF AnnounceInv, Unnotified
        <5>2. Cardinality(queue') \in Nat /\ Cardinality(Unnotified') \in Nat
          BY <5>1, FS_CardinalityType
        <5> QED
          BY <1>3, <5>2 DEF Shortfall, Unnotified, TypeOK
      <4> QED
        BY <1>3, <4>1, ShortfallType DEF Shortfall, Unnotified
    <3>3. Shortfall <= 0
      BY <1>1, <1>3
    <3> QED
      BY <1>2, <2>1, <2>3, <3>1, <3>2, <3>3 DEF AnnounceKept
  <2> QED
    BY <2>1, <2>2, <2>3
<1> QED
  BY <1>3, AnnounceInit, TypeCorrect, PlacementCorrect, PTL DEF Spec
=============================================================================
