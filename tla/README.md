# TLA+ models of GovSafeAgent

GovSafeAgent wraps an LLM agent in a governance layer: untrusted input is screened, tool
calls pass a policy gateway with approvals and one-time capabilities, long-running work goes
through a task runtime, and every decision is written to a hash-chained audit trail.  This
directory holds the specifications of its stateful parts, the TLC configurations that check
them on small instances, and TLAPS proofs for every instance.

Paths below are relative to the repository.  `redis_store.py:390` abbreviates
`safeagent_gov/task_runtime/redis_store.py`, line 390.

## 1. Inventory

| component | code | state | operations | talks to |
|---|---|---|---|---|
| task store | `safeagent_gov/task_runtime/redis_store.py` | records, queue/lease/staging/outbox/terminal indexes, idempotency keys, metrics in Redis | `create_or_replay`, `increment_audit`, `activate`, `acknowledge_outbox`, `reject`, `claim_next`, `heartbeat`, `recover_expired`, `reconcile_staging`, `update`, `finish` | API and worker processes |
| distributed task runtime | `distributed.py`, `worker_runtime.py`, `dramatiq_workers.py`, `execution.py` | call stacks of submits, passes and workers; wake messages in the broker | `submit`, `_reconcile_loop`, `process_next`, `execute_claimed`, `_heartbeat_loop` | store, audit hook, broker |
| in-memory task runtime | `dispatcher.py` | bounded record table, one asyncio queue and worker set per pool | `submit`, `_worker`, `stop`, `wait` | audit hook, handlers |
| approvals and guarded calls | `research_technology/mcp/gateway/{approvals,runtime,capabilities,task_graph}.py` | SQLite rows of approval requests, ticket usage ledger, usage counters of plan steps | `create`, `decide`, `consume`, `revoke`, `expire`; ticket `issue`/`authorize`/`consume`; `guarded_tool_call`, `resume_approved_tool_call` | policy guard, audit, simulated tools |
| policy releases | `policy_releases.py` | release rows: stable, canary, percentage | `configure_canary`, `promote`, `rollback`, `select_policy` | guard |
| policy guard, taint | `guard.py`, `taint.py` | none | `check_tool_call` | gateway runtime |
| model gateway | `safeagent_gov/model_gateway/` | provider registry, circuit breakers, semaphores, response cache | `refresh`, `chat` | providers, audit |
| planner resilience | `agent_demo/planners/resilience.py` | one circuit breaker | `plan` | remote planner, fallback |
| skill runtime | `safeagent_gov/skill_runtime/executor.py` | active-call counter, metrics | `execute`, `reset_metrics` | skill modules, audit |
| safe router | `safeagent_gov/router/executor.py` | route run: results of parallel nodes | `run_one`, `record_audit`, fan-in | skill runtime, audit |
| trace audit | `research_technology/skills/traceaudit-gov/src/{audit,integrity}.py` | traces, hash-chained events, approvals in SQLite | `create_trace`, `log_event`, `verify_trace`, `record_approval`, legacy migration | everything above |
| agent flow | `agent_demo/langgraph_agent/` | graph state of one request | guard, plan, approval, execute, output nodes | gateway, skills |
| graphify | `safeagent_gov/graphify/` | versioned signed capability graphs | scan, store, load | skill catalogue |
| rate limiter, auth, database, APIs | `backend/` | sliding window, sessions | HTTP handlers | components above |
| desktop shell | `desktop/src-tauri/src/lib.rs` | sidecar process handle | `start_sidecar`, `desktop_bootstrap`, exit | backend |
| detection skills | `research_technology/skills/*` | none | text and package scanning | skill runtime |
| web console, benchmarks, scripts | `frontend-vue/`, `benchmarks/`, `eval/`, `scripts/` | none of interest | | |

What is hard, and what makes each part correct:

- **Task runtime.**  Many API processes and workers share Redis.  A task lives in several
  indexes; each multi-step operation (submit, delivery, execution, recovery) can be
  interrupted between any two transactions, and recovery runs beside the worker it gave up.
  Correct means: a task is in exactly the index its status names; the handler starts at most
  `max_attempts` times, each time for an attempt granted before the outcome; at most one outcome;
  no handler without the enqueue audit, no success without the complete audit; the pool is not overfilled;
  idempotency keys name live records; every recorded task gets an outcome.
- **Approvals and capabilities.**  Several resumes, decisions, revocations and expiries race
  on one row; what was approved (with arguments masked) must be what is executed, once.
- **Model gateway, planner.**  A half-open breaker admits one probe, which must end the
  half-open state whatever its outcome; slots and cache are touched across awaits.
- **Router, skills, in-memory runtime.**  Cooperative interleavings at every `await`,
  cancellation, shutdown while work is being admitted.
- **Trace audit.**  Appends from several processes must form one chain per trace;
  verification must accept exactly the untouched chain.

`PROJECT.json` lists the hazards line by line, with the properties that would notice each.

## 2. Plan

All steps are done.

| step | modules | composes | abstract specification | theorems |
|---|---|---|---|---|
| 1 | `TaskStore`, `RedisTaskRuntime`, `TaskContract` | runtime EXTENDS store | `TaskContract`: what a client may rely on | typing, placement, attempts, audit order, key index, capacity, refinement |
| 2 | `ApprovalStore`, `ToolGateway`, `ApprovalContract` | gateway EXTENDS store, and takes its verdicts from `PolicyGuard` | `ApprovalContract`: one decision, one use, execution only of a used grant | every safety property of the passing runs, refinement |
| 3 | `CircuitBreaker`, `ModelProvider`, `ModelGateway` | gateway and planner share the breaker's operators | | every property of the run, action property included |
| 4 | `TraceAudit`, `TaskDispatcher` | dispatcher EXTENDS the traces it writes | `TaskContract` again | every property of the run, refinement |
| 5 | `SkillExecutor`, `Planners`, `CapabilityScan`, `CapabilityGraph`, `AgentFlow`, `FlowContract` | flow EXTENDS the four and `CircuitBreaker` | `FlowContract`: what the answer of a task says of its calls | every property of the passing runs, refinement |
| 6 | `PolicyGuard`, `PolicyReleases`, `EventChain` (pure) | evaluated by the MC modules of steps 2 and 4 | | soundness of decisions, releases and chains |

What could follow: liveness of the in-memory runtime, an abstract specification of the Model
Gateway, larger routes in `AgentFlow`.

Conventions.  A definition keeps the name of the function it models where there is one.  An
operator named `X_Without...` or `X_With...` is `X` with a plausible bug; nothing uses it, it
documents what a property would notice.  Variables marked "(history)" record something for a
property and no guard reads them.  A comment that cites `docs/...` means
`research_technology/paper_sources/docs/...`.

## 3. The distributed task runtime

### Modules

`TaskStore` has the Redis state as variables and one operator per transaction.  Each
transaction of the code watches the keys it decides on and retries on a conflict, so it is
one step.  `RedisTaskRuntime` EXTENDS it with the volatile state of the processes:

| variable | code |
|---|---|
| `status`, `owner`, `attempts`, `generation`, `audited` | fields `status`, `last_worker_id`, `attempts`, `recovered_count`, `audit_events` of a record |
| `queue`, `lease`, `staging`, `outbox`, `idem` | the sorted sets and hashes of those names |
| `overdue` | staging entries older than the staging timeout |
| `accepted` | tasks counted by the accepted metric |
| `call[t]` | where the `submit` call that may create task `t` stands |
| `pass[a]` | the `_reconcile_once` in progress of a submit call or background loop |
| `worker[w]` | where a worker thread stands in `process_next`/`execute_claimed` |
| `wakes` | wake messages in the broker |
| `trail`, `runs` | history: audit stages confirmed (a `final_output` by the status it tells), handler starts |

| actions | code |
|---|---|
| `PurgeForRoom`, `RefuseCreate`, `Replay`, `Create`, `AuditQueued`, `ConfirmQueued`, `RejectUnaudited`, `Activate`, `ActivateRaises`, `RejectFull`, `AuditRejected` | `submit`, `distributed.py:140-204` |
| `CallFails`, `CallCrash` | an exception of a store call, the death of the API process |
| `Recover`, `StagingRead`, `StagingActivate`, `StagingReject`, `Notify`, `Acknowledge`, `PassDone`, `PassFails` | `_reconcile_once`, `reconcile_staging`, `_recover_one` |
| `Claim`, `ClaimNothing`, `ClaimFails` | `process_next` |
| `AuditStarted`, `BeginAttempt`, `StartHandler`, `AttemptRefused`, `HandlerReturns`, `AuditRetry`, `AuditCompleted`, `AuditOutput`, `WorkerFails` | `execute_claimed`; the write of an attempt (`worker_runtime.py:164`) and the call of the handler (`:171`) are two steps |
| `AuditFailed`, `Finish` | `_finish_failure` (the report of a failure, `worker_runtime.py:85-97`, and its commit) and `finish` |
| `Heartbeat`, `HeartbeatFails` | `_heartbeat_loop` |
| `WorkerCrash` | death and restart of a worker process, redelivery by the broker |
| `StagingAges`, `LeaseExpires`, `LeaseStalls` | the passing of time; a worker suspended longer than its lease |

### Abstractions

- One isolated pool.  Pools share only the record count.
- A timestamp is known by its comparison with now: a lease is live or expired, a staging
  entry overdue or not.  Queue order within one priority, and which terminal record is the
  oldest, are left open.
- A pass works through three lists read at its start.  Each item is read again before it is
  touched, so the model takes items straight from the store, in any order; a stale item
  corresponds to a step that does nothing.
- `audit_events` matters only as positive.  The increments by workers change nothing then: a
  leased task is audited already.
- A failing store call may or may not have been applied.  Exhausted transaction retries are
  such a failure.  An audit call may fail at any moment.
- The worker id is fresh per claim in the code.  Here a worker's name is reused, which is
  sound because a busy worker does not claim.
- Branches `Placement` excludes are left out: a queue head that is not queued
  (`claim_next`), a lease without running record (`_recover_one`), index entries without
  record.
- Not modelled: the running/stopping flag, unknown task kinds and payload validation (both
  before any state changes), metrics, event listings, timeouts of the handler other than as
  a transient or permanent error.

### Behaviour a reader might not expect

- A handler may start after the outcome of its task.  The attempt is written under the lease
  (`worker_runtime.py:164-169`) and the handler called after that await (`:171`); a rejection
  (`redis_store.py:390` accepts running records) or a recovery out of attempts may end the task in
  between.  `TaskContract` therefore promises that attempts are granted before the outcome and
  that a handler starts at most once per attempt (`Spec`); the in-memory runtime keeps the strict
  form, in which granting and starting are one step (`PromptSpec`, section 5).
- A trail may tell of more than one outcome.  A failure is reported as `final_output` before
  `finish` decides whether the worker may still publish it (`worker_runtime.py:85-98`), and a
  submit whose `activate` found the pool full audits its rejection (`distributed.py:195`) although
  another pass may have activated the task meanwhile.  `OutcomesInOrder` says what does hold:
  what each outcome in the trail presupposes.

### Runs

`MCRedisTaskRuntime` instantiates the module.  `CHECK_DEADLOCK FALSE` because the system
rests when no task is left to work on.  `MaxFaults` bounds the faults of one behaviour, drawn
from `FaultKinds`; `MaxWakes` bounds undelivered wakes (a notifier waits, as with a slow
broker).

| run | instance | shows |
|---|---|---|
| `task_races` | 1 task, 2 workers, 2 attempts, 2 faults of any kind | `TypeOK`, `Placement`, `AttemptsBounded`, `SuccessIsAudited`, `TrailInOrder`, the action property `OnlyClaimsLoseWakes` and the refinement `KeepsContract` under stale workers, stale staging decisions and retries |
| `task_pool` | 2 tasks, 1 worker, capacity 1, 1 crash | `CapacityRespected` |
| `task_retry` | 3 submissions, two with one key, room for 2 records, no worker (records end by rejection), 2 faults (crash, Redis) | `KeyIndex` |
| `task_liveness` | 1 task, 2 attempts, 2 faults (crash, stall, heartbeat, Redis) | `EventuallyDecided` under fairness |
| `task_delivery` | 2 tasks, no fault | **violated**: `DeliveryIsBestEffort` |
| `task_stranded` | 1 task, 1 failing claim | **violated**: `QueuedTaskNotLost` |

Why these bounds: the races concern one record and the actors around it - its submit call,
one loop, a worker that was given up and one that took over - so one task with two workers
and two attempts reaches them; two faults are needed for "recovered, then recovered again"
and for a stale attempt after a crash.  Interactions between tasks go through the pool's
capacity, the record limit, the key and the shared outbox; two tasks meet in each of these.

### Fairness

A submit call, the end of a pass and a worker with work make progress (weak fairness); time
passes.  For the background loop, fairness is strong per item: `_reconcile_loop`
(`distributed.py:81-99`) starts a new pass forever, whatever the last one raised, and every
pass reads all three lists, so an item that stays on its list again and again is reached.
Nothing is assumed of clients, faults or heartbeats.  A crashed worker is assumed to be
replaced; the compose files declare no restart policy, so this is the operator's duty.

### Findings

1. `task_delivery`: `submit` runs a reconciliation pass after its task is queued
   (`distributed.py:203`) and lets its exception escape.  With two submissions and no fault,
   `reconcile_staging` reads a staged record, the record's own submit activates it and a
   worker claims it, and `activate` then raises "only queued tasks".  The caller of the
   other submit gets an error for a task that is queued and will run; `task_api.py:79-86`
   audits it as rejected.  The comment above the call promises best-effort delivery.
2. `task_stranded`: the actor consumes its wake even when `claim_next` raises
   (`dramatiq_workers.py:11`, no retries), the outbox entry is acknowledged by then, and no
   part of a reconciliation looks at the queue.  The task waits until another submission
   happens to wake the pool.

### Proofs

`RedisTaskRuntimeProofs` proves, for every value of the constants allowed by
`StoreAssumption` and `RuntimeAssumption`:

| theorem | establishes |
|---|---|
| `TypeCorrect` | `[]TypeOK` |
| `PlacementCorrect` | `[]Placement` |
| `AttemptsCorrect` | `[]AttemptsBounded` |
| `SuccessCorrect` | `[]SuccessIsAudited` |
| `TrailCorrect` | `[]TrailInOrder` (`HandlerNeedsAudit` and `OutcomesInOrder`): also where workers without the lease go on auditing, failures are reported before they are decided and rejections of decided tasks audited |
| `KeyIndexCorrect` | `[]KeyIndex` |
| `CapacityCorrect` | `[]CapacityRespected` |
| `LossesCorrect` | `OnlyClaimsLoseWakes`, under all faults |
| `QueueAnnouncedCorrect` | `[]QueueAnnounced`, when `FaultKinds` has no `"claim"` |
| `ContractCorrect` | `KeepsContract`: the runtime implements `TaskContract!Spec` |

The argument has two layers.  `StoreOnly` shows that a step of the runtime touches Redis by
one transaction of `StoreNext` or not at all; whatever every transaction preserves (store
typing, `Placement`, `KeyIndex`, capacity) then holds of the runtime without looking at its
actors.  The rest needs strengthening:

- `AttemptsBounded` is not inductive: it says nothing about the counter.  `AttemptInv` adds
  `attempts <= MaxAttempts`, and that the attempt a worker carries is the recorded one (or the next,
  before it is written) as long as the task is its own.  A worker that lost the task is not
  constrained: the write under the lease stops it.  `RunsCounted` relates the two steps of an
  attempt: the handler starts and the workers about to start one are together no more than the
  attempts written, whoever owns the task by then.
- The audit properties need what every point of a submit, pass and worker has already had
  confirmed, and that tasks in the queue or lease set are audited (`AuditInv`).

- `QueueAnnounced` counts, and a count is not inductive: a new entry must add one.  `AnnounceInv`
  adds `FreshEntries`: no entry of a task is in the outbox or in the hands of a pass before the
  task's activation, and none is of a generation to come, so the entry `activate` or
  `_recover_one` writes is always new.  A wake then stands for an entry (`Notify`) or for a task
  (`Claim`).  `Shortfall` is the number of queued tasks beyond what is announced;
  `LossesCorrect` says for every fault that it becomes positive, or more, only by a claim that
  raises before its transaction, which spends one wake on nothing: the finding of
  `task_stranded` is the only way to lose an announcement.  Without that fault `QueueAnnounced`
  follows: its theorem assumes `"claim" \notin FaultKinds`, and no run checks it, since
  `OnlyClaimsLoseWakes` says more.
  Finiteness of queue and outbox is part of the invariant, not an assumption.

`Inv` is the conjunction of `AttemptInv`, `RunsCounted` and `AuditInv` with `TypeOK` and `Placement`.  `ContractCorrect` uses
it to map every step to a step or a stutter of `TaskContract`; `StatusStep` and `RunsStep` say
how one step may change a status and the count of starts.  The strengthened invariants were
model-checked before they were proved.

Only model-checked: `EventuallyDecided` (liveness under fairness), and the two violations.

## 4. The approval gateway

### Modules

`ApprovalStore` has the rows of `tool_approvals` and one operator per `BEGIN IMMEDIATE`
transaction of `SQLiteApprovalStore`.  `ToolGateway` EXTENDS it with what the two call paths of
`research_technology/mcp/gateway/runtime.py` share and read.

| variable | code |
|---|---|
| `row`, `key`, `masked`, `stale` | `status` and `idempotency_key` of a row, whether it has `masked_args`, whether `expires_at` has passed |
| `ticket`, `late` | what an issued capability is bound to, and whether it has expired |
| `uses` | `capability_usage.uses` |
| `steps` | `task_step_usage.uses` |
| `policy` | the policy version `select_policy` returns |
| `job[j]` | where a run of `guarded_tool_call` or `resume_approved_tool_call` stands; the row, arguments, version and ticket it holds |
| `ran` | history: the jobs that called their tool |

| actions | code |
|---|---|
| `Begin`, `Check`, `Graph`, `Create`, `Spend`, `TakeStep`, `Run` | `guarded_tool_call`, `runtime.py:143-257` |
| `Read`, `Check`, `Graph`, `Preview`, `Consume`, `Spend`, `TakeStep`, `Run` | `resume_approved_tool_call`, `runtime.py:260-361` |
| `Abort` | an exception of an audit hook or store, the death of the process |
| `ApproverStep`, `CheckTool` | decisions, revocation, expiry; `/api/tool/check` |
| `Issue`, `TicketAges`, `PolicyChanges` | `issue_tool_capability`, time, `PolicyReleaseStore._mutate` |

### Abstractions

- A call has an intent (tool, arguments, context: what `request_hash` and the ticket's scope
  cover) and a form, "plain" or as an approver masked it.  The two forms of an intent have the
  same argument names, so comparing the ticket's `exact_args` one by one is comparing forms.
- Nothing rewrites the snapshot of a row, so the fingerprint test of `consume` cannot fail and
  is left out.  A repeated decision with the same key answers from the row and changes nothing.
- `Verdict` gives the guard's ruling on an intent under a version: `guard.py` has no state of its
  own.  The instances take it from module `PolicyGuard` (section 8).  A call bound to a version by
  its context, which is blocked under any other, is left out.
- The version in force may change to any other at any time; canary selection picks one version
  per principal and task, so one job sees it as such a change.
- `get` and the `expire` it may call are one step: the row is read again in the second
  transaction, and a row that left "requested" in between is returned as it then is.
- Steps and intents match: a call whose tool or arguments differ from its plan step is refused
  before any state changes.
- The ledgers are the SQLite ones; the in-memory ledger behaves alike within one process.
- A job that ends without calling its tool is reset to `Over`.

### Runs

`CHECK_DEADLOCK FALSE`: tickets, calls and resumes are used up and the system rests.

| run | instance | shows |
|---|---|---|
| `gateway_approvals` | 2 calls with one intent and one key, 2 resumes, 1 ticket of two uses, 3 policy versions with the 3 verdicts | `ApprovalRunsOnce`, `WithdrawnNeverRuns`, `RunsAreAuthorized`, `ApprovalNotBypassed`, refinement of `ApprovalContract` |
| `gateway_plans` | 2 calls of a step to be taken once, 2 of a later step to be taken twice, 2 tickets of one use | `TypeOK`, `TicketRespected`, `PlanRespected` |
| `gateway_masking` | 1 approval, 1 resume, 1 ticket | **violated**: `ExecutedAsDecided` |

Why these bounds: rows meet only in their keys, so two calls with one key and two resumes reach
every race on a row; the ticket has a use for each resume and the calls follow no plan, so that
only the approval stands between a second resume and its execution.  For the same reason
`gateway_plans` has a step that two calls want and one may take, each with a ticket of its own,
and a step that both its calls may take, but with one ticket.  The three
versions - 2.0.0 of the repository, one that lets staff write to the database, and 2.1.0, which
bars them from it - give `db_write` the three verdicts, so every switch between two verdicts
occurs.  The theorems below remove the bounds.

No fairness is assumed: a job may stop anywhere, and nothing is promised to one that does.
What at-most-once costs is visible in the model: a resume that is refused its ticket or step
after `Consume` leaves its approval consumed and never executed.

### Finding

3. `gateway_masking`: `resume_approved_tool_call` computes the arguments from the row as
   `store.get` returned it (`runtime.py:272-274`) and ignores the record `store.consume` returns
   (`runtime.py:315`).  A resume that starts before the decision and consumes after a
   `mask_and_allow` executes the arguments as requested, given a ticket for them.  The test
   `test_masked_approval_executes_only_masked_snapshot` (`tests/test_approvals.py:99`) covers the
   order decide, then resume.

### Proofs

`ToolGatewayProofs` proves every property of the passing runs, for every value of the constants
allowed by `ApprovalAssumption` and `GatewayAssumption`:

| theorem | establishes |
|---|---|
| `GatewayTypeCorrect` | `[]TypeOK`, and that a job that has run is over |
| `ApprovalRunsOnceCorrect`, `WithdrawnNeverRunsCorrect` | an approval is executed at most once, and only one that was consumed |
| `RunsAreAuthorizedCorrect`, `ApprovalNotBypassedCorrect` | what runs has its ticket and its verdict |
| `TicketRespectedCorrect`, `PlanRespectedCorrect` | the usage bounds |
| `KeepsContractCorrect` | the gateway implements `ApprovalContract` |

`StepKinds` reduces `Next` once: every step keeps what is consumed or issued and changes at
most one job, in one of eight ways.  `Past(j, points)` says that a job is at one of these points
or has run, and `Progress` that it gets past a point only by the step that point stands for and
then keeps what it has read.  None of the properties is inductive, because each speaks only of
jobs that have run; the invariants say the same of jobs on their way.  `HoldInv`: a resume past
`Consume` holds a consumed row, and no other resume past it holds the same.  `PassInv`,
`DirectInv` and `BindInv`: what is past the check, the direct branch and the ticket.
`SpendInv` and `CountInv`: the jobs past a ledger are no more than the uses it has counted.

## 5. The in-memory task runtime and its traces

### Modules

`TaskDispatcher` models `safeagent_gov/task_runtime/dispatcher.py` with the handler of
`backend/api/task_api.py` that submits to it; it EXTENDS `TraceAudit`, the audit store it writes
to.  All of it runs in one event loop, so a step ends at an `await`; audits run in threads under
a timeout.

| variable | code |
|---|---|
| `status`, `attempts`, `index` | `_records`, `TaskRecord.attempts`, `_idempotency` |
| `queue`, `unfinished` | the pool's `PriorityQueue` and its count for `join` |
| `worker[w]`, `call[t]`, `found[t]` | where a worker task and a submit call stand, the task a replay has found |
| `server`, `max_records` | `_running`, `_stopping` and the steps of `stop`; a setting of the process |
| `chain[t]`, `late`, `keyfile`, `faults` (`TraceAudit`) | the events of a trace, those of audits left behind, whether the signing key file has been written, the faults so far |
| `pending` | history: tasks recorded as live that nobody held when the last stop began |

| actions | code |
|---|---|
| `Submit`, `AuditReplay`, `Insert`, `AuditQueued`, `Put`, `PutUrgent`, `AuditRefusal`, `Return` | `submit`, `dispatcher.py:197-316` |
| `Get`, `AuditStarted`, `Invoke`, `HandlerAudits`, `HandlerReturns`, `AuditRetry`, `AuditCompleted`, `AuditOutput`, `AuditFailure`, `Done` | `_worker`, `_fail`, `dispatcher.py:335-430` |
| `StopDraining`, `StopAtOnce`, `Drained`, `CancelWorkers`, `Stopped`, `Start` | `stop`, `start` |
| `LateAppend`, `WriteKey` | the thread of an audit whose caller has given up; the creation of the key file |

### Abstractions

- One pool: pools share only records and keys.  Backoff, metrics and listings are left out.
- An audit is written in time, refused, or left behind: its caller sees a timeout and its event
  may still be appended at any later moment, after a restart too.
- An event is its stage and the key it was signed with.  What a chain of rows is, and why place
  in the sequence stands for the hashes, is the subject of `EventChain` (section 8).
- The handlers of `security_check` and `skill_scan` tasks run a skill whose executor logs
  `skill_execution_*` events into the trace of the task (`handlers.py:59-67`, `118-134`).  `Skilled`
  is the set of these tasks.  Successive events of one attempt count as one, "skill"; the thread of
  an audit or of a handler that timed out or was cancelled may append its own later, after the
  outcome too.
- The key file is read again for every signature that is checked or made (`integrity.py:71-82`),
  so it may get written at any moment of an append: before, during or after the verification, which
  then fails, or before the signature of the new event, which then has another key than the chain.
- A submission whose trace never reaches the dispatcher; a payload of an
  unknown kind is refused before any state changes.

### Run

`task_dispatch` (2,708,217 states): three submissions, two of them with one idempotency key and
one urgent with two attempts and a handler that logs; two workers, a queue of one, room for one or
two records, one stop and restart, one audit fault.  `CHECK_DEADLOCK FALSE`: a stopped runtime
rests.  Two submissions with one key reach replay, eviction and recreation; the queue of one makes
both the refusal and the waiting put happen; one fault is a failing audit, one left behind, or a
key file read while it is empty.  What a stop leaves behind meets a restart; a second stop over
tasks abandoned by the first is covered by the theorem `DrainIsComplete` only.  It shows `TypeOK`,
`JoinCounts`, `HeldOnce`, `KeyIndex`, `EvidenceOfSuccess`, `OneVerdict`, `DrainLosesNothing`, and
that the runtime implements the same `TaskContract` as the distributed one, in its strict form: a
worker sets the status and calls the handler without an await in between, and nobody else settles
a running task.  No fairness is assumed.

What the properties have to grant the code, and why they are stated as they are:

- `DrainLosesNothing` speaks of what was queued or held when `stop(drain=True)` began.  A submit
  that was waiting for its enqueue audit puts its task into the queue after the drain; there it
  stays, and `start` refuses from then on because the queue is not empty.  `stop(drain=False)`
  abandons running records, and a later drain cannot finish them.
- `OneVerdict` allows "rejected" beside an outcome when the record was evicted while its submit
  call was still waiting to be answered.  A `final_output` "succeeded" that is left behind and
  lands later may stand in the trace of a record that says failed.
- `EvidenceOfSuccess` asks for one key of all events but the last: nothing is appended to a chain
  that does not verify, so keys that diverge fail the task, unless the last event is the one that
  met the key's write.  A success whose last event did, or whose chain was signed with the empty key
  throughout before the key was written, does not verify afterwards: that is the code's, and the
  property does not exclude it.
- A skill event may stand anywhere after "started", the end included, because a late audit may
  land after the `final_output`.  No skill task succeeds without one (`HandlerReturns`).

### Proofs

`TaskDispatcherProofs` (`JoinIsExact`, `NothingIsHeldTwice`, `IndexIsExact`, `DrainIsComplete`,
`DispatcherKeepsContract`) and `DispatcherTraceProofs` (`DispatchTypeCorrect`,
`SuccessHasEvidence`, `NoTwoVerdicts`) prove all properties of the run, for every value of the
constants that `DispatcherAssumption` and `AuditAssumption` allow.  Every step is
one of a few moves; each move keeps `Inv`, which adds to the properties what a submit call and
a worker know of their task across an await (`CallsKnow`, `WorkersKnow`), that nobody works
while the runtime is down (`QuietWhenDown`) and what draining has left (`Draining`).
`TraceInv` relates each chain, and the events left behind, to where the submit call, the worker
and the record of its task are; `Grows` and `Left` say what a step may append and what it may
leave to be appended.

## 6. The Model Gateway

### Modules

`ModelGateway` models `ModelGateway.chat`, `refresh` and the reload of the API.  Calls run in
threads with event loops of their own (`agent_demo/planners/model_gateway.py:33`), so a step ends
at every `await` and wherever a lock is released and another thread can change what the call
goes on with.  `CircuitBreaker` has the methods of both breakers of the repository, each of
which holds a lock, as operators on one breaker; `ModelProvider` has what one call of a provider
can end in, by protocol, for everything an endpoint may do.

| variable | code |
|---|---|
| `registry` | the registry file in force, known by its digest |
| `slot`, `active` | the semaphore with its bound, `_active_requests` |
| `breaker[p]` | `ProviderCircuitBreaker` of a provider |
| `cache` | `_cache`, by recency of use |
| `chat[c]`, `reload[r]` | where a call or a reload stands and what it has read |
| `prober`, `slipped` | history: the call that is a breaker's probe; a refresh ran beside a call that was entering or leaving its slot |

| actions | code |
|---|---|
| `LookUp`, `AuditHit`, `ReadDefinitions`, `ReadRule`, `AuditRouted` | `chat` up to the candidates, `service.py:228-422` |
| `Acquire`, `Enter`, `Leave`, `Release` | `_slot` |
| `Try`, `AuditSkipped`, `AuditAttempt`, `Generate`, `Tell`, `AuditResponse`, `Put`, `RecordFailure`, `AuditRetry`, `AuditFailed`, `Again`, `AuditRequestFailed` | the loop over candidates and attempts, `service.py:423-580` |
| `ReadConfig`, `Refresh`, `ClearCache`, `Load` | `refresh`, `clear_cache`, `ModelRegistry.load`, `reload_providers` |
| `RecoveryElapses` | time |

### Run

`model_calls` (420,037 states): two calls of one restricted, cacheable request, two providers
(one remote with two attempts that fails in every way, one offline), two registry files of
which the second withdraws a private deployment, one reload, one slot after it, one cache entry,
thresholds of one.  `CHECK_DEADLOCK FALSE`: calls end.  Two calls reach every race for a slot, a
probe and a cache entry; a third only adds waiting.

Left out: request counters and token budgets, the health calls, bodies and prompts, the parsing
of the registry file.  `RetriesEnd` is an action property: each step of a call takes it further in
a lexicographic order (where it is outside and inside its slot; the candidates left; for one
candidate, whether it has its verdict; its attempts, bounded by `max_attempts`; the steps of one
attempt).  So a call takes a bounded number of steps whatever fails; that each of them is taken,
a matter of fairness and of a slot becoming free, is not claimed.

What the run shows about behaviour a reader might not expect:

- An audit that raises `TimeoutError` inside the `try` counts as a provider failure and is
  retried, although the comment at `service.py:532` and `docs/model_gateway.md:44` say that
  audits fail closed.  `ProviderResult` refuses a content of more than 1,000,000 characters or an
  empty finish reason with a `ValidationError` nothing catches: the request fails without
  fallback and the breaker learns nothing.
- A probe that ends in such an exception leaves the breaker half-open, and it refuses everyone
  until the next refresh (`service.py:522-534`).  `ProbeOwned` accounts for it (`prober = None`).
- `refresh` looks at `_active_requests`, which a call enters after it has acquired its semaphore and
  leaves before it releases it (`service.py:157-171`), so the docstring's "only while no request
  owns a slot" (`service.py:115`) does not hold of a call in between: its semaphore is replaced, and
  it releases the new one, of which it never took a permit.  `SlotsConserved`, which is exact,
  exempts the semaphores concerned (`slipped`); `SlotsRecover` speaks of every one: it never has
  more permits than its bound, because a release beyond it raises `ValueError` (which the API
  answers with 500), and no permit is lost for good.  For a while more calls than
  `max_concurrency` may be at work; the excess ends with the overtaken calls.
- A call that reads the registry file before and the routing rule after a reload may cache an
  answer its digest does not allow; `AnswersAllowed` excludes exactly those (`torn`).
- A reload that is refused because requests are active leaves the new registry with the old
  providers and breakers.

### Proofs

`ModelGatewayProofs` proves `TypeOK` and the six properties of the run for every set of calls,
reloads, providers and registry files that `ModelGatewayAssumption` allows.  `SlotsConserved` needs
the cardinalities of the calls at each point of `_slot`; `ProbeOwned` and `FailingIsGuarded` need
that a call which was admitted is the one the breaker waits for; `AnswersAllowed` needs the same
of every cached entry under its key.  `RetriesDoEnd` needs that a retry is announced only while
attempts are left (`Counted`); `PassesOn` and `WorksOn` show for each action what it advances.

## 7. The agent flow

### Modules

`AgentFlow` models a request from `run_agent` to its answer, several side by side, with what
they share.  It EXTENDS `CapabilityGraph` (the SQLite store of capabilities with its builders and
learners), `CircuitBreaker` (the planner's breaker), `Planners` (what a planner comes to),
`SkillExecutor` (what an execution of a skill comes to) and, through the graph, `CapabilityScan`.

| variable | code |
|---|---|
| `flow[a]` | `AgentState` of a request, the node it is at, and the local state of `plan_task` and `execute_tools` |
| `sub[a][k]` | a subagent of the route in `SafeRouterExecutor.execute` |
| `events[a]`, `outputs[a]` | the events of its trace, the `final_output`s in order |
| `breaker`, `leaked` | `breaker_for(key)`; history: a probe ended without a verdict |
| `lock`, `ready` | `_GRAPH_LOCK`, `_GRAPH_READY` |
| `sources`, `graph`, `approver`, `builder[b]` | the files to scan, the content in force with its approvers, where a build stands |
| `learner[l]`, `pattern`, `observed` | where a `learn_trace` stands, the counts and the traces they come from |
| `approvals`, `scanned` | history: who approved what, what SkillScan has looked at |

| actions | code |
|---|---|
| `start_trace`, `inspect_input` | `nodes.py:100-184` |
| `EnsureGraph`, `NothingToBuild`, `Builds`, `Health`, `PlanRoute` | `route_task`, `_ensure_graph`, `orchestrator.py:47-163` |
| `CreatePlanner`, `Again`, `Remote` | `plan_task`, `ResilientPlanner.plan`, `FallbackPlanner.plan` |
| `RunOne`, `record_audit`, `FanIn` | `execute_route`, `router/executor.py:54-176` |
| `GuardCall`, `ContextGuards`, `CallTool` | `execute_tools`, `nodes.py:259-397` |
| `Finish`, `PostAudit` | `finish` and TraceAudit's post check, `nodes.py:400-493` |
| `Scan`, `Bootstrap`, `Read`, `Replace`, `Unchanged`, `Refused`, `Unscannable` | `GraphifyService.build`, `CapabilityGraphStore.replace` |
| `BeginLearn`, `Record` | `learn_trace`, `record_trace` |

`CapabilityScan` has the pure parts (a skill is known by its identifier; `exact` are those the
registry spells as their manifests do, which `scanner.py:197` needs to flag one as mandatory while
`scanner.py:404` looks up its existence by identifier): the graph a scan makes of a repository, its health, what a
search retrieves for an intent, and the route and guards of a plan.  A content of the sources
stands for the graph `Scanned` makes of it.

### Abstractions

- A skill execution is one step; `SkillExecutor` enumerates its responses and the events it
  leaves.  `asyncio.run` waits for audit threads, so an event that is late for the executor is
  in the trace before the flow goes on.
- Decisions are allow (with its logged and masked variants), require_approval and block.  What a
  subagent makes of the skills it executes is one of them.
- `execute_tools` runs data guards only for tools that send, export or write data, query a
  database or act on processes (`nodes.py:59-82`).  Other calls (`file_read`, `browser_visit`) have none and
  run behind MCPGuard alone (`nodes.py:363-364`).  Which tool is which is left open: after MCPGuard a
  call goes on at "context" or, without data guards, at "bare", and its execution is then marked
  `unscreened` in the trace's history, so that `ToolsUnderGuards` claims data guards only of the
  calls that have some.
- The gateway (`ToolGateway`) may refuse a call the guards allowed: `CallTool` ends in any
  result, "executed" only for an allowed one.
- The texts of plans, events and reasons, risks, roles, test cases and model nodes are left out;
  node and pattern signatures use a fixed key.
- The branch "skipped" of `run_one` is unreachable: every subagent of a route has a handler.

### Runs

`agent_flow` (1,655,791 states): two requests and two reviewers, the route the registry of the
instance gives (`RouteAssumption`: one mandatory subagent, one that may fail, and the AuditAgent), planner modes
that share an endpoint, subagents that allow or fail, guards that allow or block, one tool call,
a breaker threshold of one, two attempts, three contents of the sources (one with an additional
protected tool, one that cannot be scanned), and two disturbances: a failing skill, audit,
handler or planner, an edit, a request of a reviewer.  `CHECK_DEADLOCK FALSE`: requests end.
Two disturbances are what "edit, then build", "fail while probing" or "learn between two
final_outputs" take.  No fairness is assumed and no request is claimed to end.

It shows `TypeOK`, `ToolsUnderGuards`, `OneStory`, `FanInIsStrict`, `ProbeOwned`,
`ProtectedApproved`, `CountedTraces`, and that the flow implements `FlowContract`: the calls of a
plan are executed in their order, each at most once, none after the answer; a stopped task has
executed nothing and a completed one everything; an answer is taken back at most once, to say
"blocked".  In this instance a plan has one call, which covers all of that but the order of
several; the contract for longer plans, with calls that wait for approval between executed ones,
is the theorem's.

Behaviour a reader might not expect:

- Tools run also when the router's final decision is "block": `finish` reports "blocked" only if
  there are no tool results, and otherwise "partially_blocked" or what the calls came to.  The
  subagents analyse the task also when planning has failed.
- After a call that a guard blocks, `execute_tools` goes on with the next one (`nodes.py:344`,
  `nodes.py:387`), and what was executed before stays executed, although the text of
  "partially_blocked" says that the other operations were not executed (`nodes.py:417`).
  `FlowContract` therefore promises nothing of what a partially blocked task executed.
- A half-open probe of the planner that ends in another `PlanningError` or an unexpected
  exception leaves its breaker refusing everyone for good (`leaked`).  The planners' transport
  lets a server that hangs up (`OSError`) escape, where the Model Gateway's retries it, and takes
  408 and 425 as final.  In mode "auto" configuration errors are not covered by the fallback.
- `learn_trace` between the `final_output` "completed" and `audit_fail_closed` counts a trace as a
  success that ends blocked.  `_GRAPH_READY` is never reset.
- A bootstrap that read an empty store may overwrite what a reviewer built meanwhile: `replace`
  reads before `BEGIN IMMEDIATE`.  The removal of a protected capability needs no approval.  A
  capability that another build removes between the registration scan and `replace` is inserted
  again with scan level "not_applicable".  The scan's risk level refuses nothing.
- `health` looks for tools without guard or policy; a scanned graph cannot have one
  (`ToolsAreGuarded`).  A search cuts agents to `top_k` by name, but drops no mandatory skill
  (`MandatoryRetrieved`).

### Proofs

`AgentFlowProofs` proves all eight properties of the run, for any number of requests,
reviewers, subagents, calls and disturbances and any contents of the sources (`FlowAssumption`,
`GraphAssumption`), in four parts, of which the last rests on the third.

- `GraphInv`: typing; whom the store names as an approver has approved; and for each build in
  progress that what it carries rests on approvals and scans, which only grow (`Building`).
  `CountedTraces` follows because a trace is moved from "none" to one outcome once.
- `BreakerInv`: a step leaves the breaker alone, begins a call, counts one, or leaks a probe
  (`BreakerMoves`).
- `FlowInv`: every step of a request is one of a few moves of its state, events and
  final_outputs (`FlowMove`), and each move keeps `FlowOK`: what the trace tells already at each
  node (`PathOK`), what guards have let the call in progress pass and what those before came to
  (`CallOK`), that nothing ran in a flow that is stopped (`CleanOK`), and what it may answer
  (`AnswerOK`).  The properties speak of traces only; they are not inductive without the node
  the request is at.  `FanInIsStrict` adds that a decision which could not be audited is "block"
  (`LostBlocks`).
- The contract: `OrderInv` adds to `FlowInv` how far a plan has come.  The calls executed lie
  behind the call in progress, no more calls have a result than the plan has, and nothing ran in a
  flow whose input was blocked.  With it, each move of `FlowMove` is a step of `FlowContract` or
  none (`StepObeys`); that an answer is truthful comes from `CleanOK` and `AnswerOK`.

`CapabilityScanProofs` proves facts about every repository: `EdgesJoinNodes`, `ToolsAreGuarded`,
`MandatoryRetrieved`, `PlansNameGuards`, `AuditorJoins`.

## 8. Pure modules

These have no variables; TLC evaluates them in the `ASSUME`s of the MC modules, and
`EvidenceProofs` has their theorems.

- `PolicyGuard`: `check_tool_call` of `guard.py` under any policy, the two policies of the
  repository (`Shipped`), and the labels of a result (`taint.py`).  `GuardAsTested` compares it
  with the calls of `test_gateway_contract.py` and `test_taint.py`.  Theorems: `SecretsStayInside`,
  `LabelsNeverLoosen`, `ReadsAreFollowed`.  A taint override replaces what the policy states, so
  `LabelsNeverLoosen` needs a policy that does not itself block mail to external domains; both
  shipped ones satisfy it (`LabelsAreStricter`).  The `action` a policy states for `api_call`,
  `browser_visit` and `send_email` is never looked at, so an allowed URL is "allow_with_log"
  although both versions say `require_approval` for `api_call`; "~/.ssh" in `deny_paths` can never
  match an absolute path.
- `PolicyReleases`: the release row and its changes, the version a call gets.  `ReleasesAreSound`
  checks every row that six changes reach; `ReleasesStaySound` and `RollbackRestores` are proved
  for every version and order.
- `EventChain`: the rows behind a trace, `verify_rows`, `log_event`, `migrate_legacy_chains`.  A
  digest is the tuple of what it covers.  `ChangedRowsShow` and `MigratedAsLogged` check chains of
  up to three rows; proved for chains of any length: `HeadFixesRows` (a head verifies with one
  sequence of events only), `LoggedStaysValid`, `PartialNeverHealed`, `MigratedVerifies` (the
  migration of a wholly unhashed trace verifies, with the same events).  The migrated rows are a
  recursive function, of which the prover knows nothing before one is shown to exist:
  `LinkedRowsExist` does that by the least number of rows without one.  Migration resets the head of a trace
  without rows to an empty valid chain.

## 9. What is proved and what is only checked

Proved for every value of the constants: every invariant, action property and refinement of the
passing runs but the liveness property `EventuallyDecided` (liveness under fairness is out of the
prover's reach).  Of `RetriesEnd`, what is proved is that every step advances; that the order it
advances in has no infinite ascent is left to the reader.

Proved but checked by no run, because properties that are checked cover most of what they say:
`QueueAnnounced`, under one assumption on the faults (section 3), `StoppedMeansNothingRan` of the
agent flow and `TypeOK` of the Model Gateway.

Only model-checked: `EventuallyDecided` and the three violations.

Disclosed, but not caught by a property.  In these cases the code does what the hazard fears; a
property that is checked states the rest and names the exemption, and `PROJECT.json` notes it at
the hazard:

| case | exemption |
|---|---|
| a submit that awaits its enqueue audit when `stop(drain=True)` begins loses its task (`dispatcher.py:295-303`) | `pending` in `DrainLosesNothing` |
| a half-open probe that ends without a verdict leaves its breaker closed to everyone (`service.py:513`, `resilience.py:97`) | `prober = None`, `leaked` in the two `ProbeOwned` |
| a refresh replaces the semaphore of a call that is entering or leaving (`service.py:157-171`) | `slipped` in `SlotsConserved`; `SlotsRecover` has no exemption |
| a call that reads across a reload caches an answer its digest does not allow (`service.py:288`) | `torn` in `AnswersAllowed` |
| the last event of a success, or a chain wholly under the empty key, stops verifying (`integrity.py:66-82`) | `EvidenceOfSuccess` asks for one key of all events but the last |
| a bootstrap that read an empty store overwrites what a reviewer built (`store.py:172`, `graphify/service.py:91`) | a bootstrap counts as an approval in `ProtectedApproved` |

## 10. Not modelled

- Detection skills (`research_technology/skills/*/src` other than TraceAudit): matching and
  scoring of text, without state; what they return is an input of the flow.
- MCP tool servers and adapters: simulated tools without state of their own.
- Rate limiter, authentication and database sessions of `backend/`: one process, one dictionary
  or row at a time; no state shared with the components above.
- Desktop shell, backup and restore: one process or one operator, without concurrent actors.
- Web console, benchmarks, evaluation and release tooling: no protocol state.
- Of modelled components: field validation, metrics, listings, reports, replays and exports;
  the classification of a text into an intent and the evaluation of the graph; the in-memory
  ledgers of the gateway, which behave like the SQLite ones within a process; the reference agent.
