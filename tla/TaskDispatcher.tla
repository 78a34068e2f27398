---------------------------- MODULE TaskDispatcher ----------------------------
(***************************************************************************)
(* The in-memory task runtime of GovSafeAgent (task_runtime/dispatcher.py) *)
(* with the API calls that submit to it (backend/api/task_api.py) and the  *)
(* audit traces of module TraceAudit it writes to.  All of it runs in one  *)
(* event loop: a step ends at an await.  Audits run in threads under a     *)
(* timeout: one is written in time, refused, or left behind.               *)
(*                                                                         *)
(* One pool; a task stands for the submit call that would record it, and   *)
(* its trace has its name.  Handlers that run a skill log its execution    *)
(* into the trace of their task; successive events of theirs count as one, *)
(* "skill".                                                                *)
(*                                                                         *)
(* An operator named X_Without... or X_With... is X with a plausible bug,  *)
(* kept to show that a property notices it.                                *)
(***************************************************************************)
EXTENDS TraceAudit, FiniteSets, SequencesExt

CONSTANTS
  None,
  Tasks,
  IdemKeys,     \* idempotency scopes
  KeyOf,        \* the idempotency scope of a task, or None
  Rank,         \* PRIORITY_RANK: critical 0, high 1, normal 2, low 3
  Workers,
  QueueRoom,    \* queue_capacity
  RecordLimits, \* the values of max_records
  MaxAttempts,  \* max_attempts of each submission
  Skilled,      \* the tasks of kind security_check and skill_scan
  MaxStops      \* bound on stops

ASSUME DispatcherAssumption ==
  /\ None \notin Tasks \cup IdemKeys
  /\ IsFiniteSet(Tasks) /\ IsFiniteSet(Workers)
  /\ Traces = Tasks
  /\ KeyOf \in [Tasks -> IdemKeys \cup {None}]
  /\ Rank \in [Tasks -> 0..3]
  /\ QueueRoom \in Nat \ {0}
  /\ RecordLimits \subseteq Nat \ {0}
  /\ MaxAttempts \in [Tasks -> Nat \ {0}]
  /\ Skilled \subseteq Tasks
  /\ MaxStops \in Nat
  /\ Stages = {"created", "queued", "started", "retry", "skill", "completed",
               "succeeded", "failed", "rejected", "replayed"}

VARIABLES
  max_records, \* of the settings the process is started with
  status,      \* _records: "absent", a TaskStatus, or "evicted"
  attempts,    \* TaskRecord.attempts
  index,       \* _idempotency
  queue,       \* the pool's PriorityQueue, next task first
  unfinished,  \* the queue's count of unfinished items, for join
  worker,      \* what each worker task does
  call,        \* where each submit call is
  found,       \* existing_id: the task a replaying call has found
  server,      \* _running, _stopping and the steps of stop
  pending      \* tasks recorded as live that were neither queued nor with a
               \* worker when the last stop began (history)

dispatcherVars == <<max_records, status, attempts, index, queue, unfinished, worker, call, found, server,
                    pending>>
vars == <<traceVars, dispatcherVars>>

Live       == {"queued", "running"}
Outcomes   == {"succeeded", "failed", "rejected"}
CallPoints == {"idle", "replay", "audit", "put", "return", "refuse", "done"}
WorkPoints == {"idle", "start", "handler", "retry", "complete", "output", "outcome"}
Phases     == {"down", "up", "drain", "gather"}
Idle       == [at |-> "idle", task |-> None]

Records   == {t \in Tasks : status[t] \in Live \cup Outcomes}
Exists(t) == t \in Records
Busy      == {w \in Workers : worker[w].at # "idle"}
IsUrgent(t) == Rank[t] <= 1

Queued(t) == t \in ToSet(queue)
Held(t)   == \E w \in Busy : worker[w].task = t

Init ==
  /\ TraceInit
  /\ max_records \in RecordLimits
  /\ status = [t \in Tasks |-> "absent"]
  /\ attempts = [t \in Tasks |-> 0]
  /\ index = [k \in IdemKeys |-> None]
  /\ queue = <<>>
  /\ unfinished = 0
  /\ worker = [w \in Workers |-> Idle]
  /\ call = [t \in Tasks |-> "idle"]
  /\ found = [t \in Tasks |-> None]
  /\ server = [phase |-> "up", drain |-> FALSE, joined |-> FALSE, stops |-> 0]
  /\ pending = {}

Goto(t, point) == call' = [call EXCEPT ![t] = point]
Settle(t, to)  == status' = [status EXCEPT ![t] = to]

-----------------------------------------------------------------------------
(* submit_task and TaskDispatcher.submit.                                  *)

storeVars == <<status, attempts, index>>
queueVars == <<queue, unfinished>>
otherVars == <<worker, found, server, pending>>

(* An audit of the runtime has failed or was left behind.                  *)
AuditFails(t, stage, stages) == log_event_fails(t, stages) \/ log_event_late(t, stage, stages)

(* The API answers a TaskRuntimeError with a final_output of its own,      *)
(* written in the loop: a call that raises, because its audit failed or    *)
(* after the given stages, logs it in the same step.                       *)
Raise(t, stage) ==
  /\ Goto(t, "done")
  /\ \E report \in {<<"rejected">>, <<>>} : AuditFails(t, stage, report)
RaiseAfter(t, stages) ==
  /\ Goto(t, "done")
  /\ log_event(t, stages \o <<"rejected">>) \/ log_event_fails_after(t, stages)

Replayed(t) == IF KeyOf[t] = None THEN None ELSE index[KeyOf[t]]
IsFull == Cardinality(Records) >= max_records

(* Room is made by evicting the oldest terminal record (here any), with    *)
(* its key.                                                                *)
Insert_WithoutKey(t, gone) ==
  /\ status' = [u \in Tasks |-> IF u = t THEN "queued" ELSE IF u \in gone THEN "evicted" ELSE status[u]]
  /\ index' = [k \in IdemKeys |-> IF k = KeyOf[t] THEN t ELSE index[k]]
Insert(t, gone) ==
  /\ status' = [u \in Tasks |-> IF u = t THEN "queued" ELSE IF u \in gone THEN "evicted" ELSE status[u]]
  /\ index' = [k \in IdemKeys |-> IF k = KeyOf[t] THEN t
                                  ELSE IF \E u \in gone : KeyOf[u] = k THEN None ELSE index[k]]

(* A new submission is recorded, unless there is no room: the API answers  *)
(* a full runtime without a final_output.                                  *)
Record_WithoutTerminal(t) ==
  \E gone \in SUBSET Records : /\ IsFull => Cardinality(gone) = 1
                              /\ Insert(t, gone) /\ Goto(t, "audit")
Record(t) ==
  \/ ~IsFull /\ Insert(t, {}) /\ Goto(t, "audit")
  \/ IsFull /\ \E old \in Tasks : status[old] \in Outcomes /\ Insert(t, {old}) /\ Goto(t, "audit")
  \/ /\ IsFull /\ \A old \in Tasks : status[old] \notin Outcomes
     /\ Goto(t, "done") /\ UNCHANGED <<status, index>>

(* From its trace to its first audit a submit call does not let go of the  *)
(* loop.                                                                   *)
Submit(t) ==
  /\ call[t] = "idle"
  /\ \/ /\ server.phase # "up"
        /\ Goto(t, "done")
        /\ create_trace(t, <<"created", "rejected">>) \/ create_trace_fails(t, <<"created">>)
        /\ UNCHANGED <<status, index, found>>
     \/ /\ server.phase = "up" /\ Replayed(t) # None
        /\ create_trace(t, <<"created">>)
        /\ Goto(t, "replay")
        /\ found' = [found EXCEPT ![t] = Replayed(t)]
        /\ UNCHANGED <<status, index>>
     \/ /\ server.phase = "up" /\ Replayed(t) = None
        /\ create_trace(t, <<"created">>)
        /\ Record(t)
        /\ UNCHANGED found
     \/ Goto(t, "done") /\ create_trace_fails(t, <<>>) /\ UNCHANGED <<status, index, found>>
  /\ UNCHANGED <<attempts, queueVars, worker, server, pending>>

(* The record found may be evicted during the audit of the replay.         *)
AuditReplay(t) ==
  /\ call[t] = "replay"
  /\ \/ Exists(found[t]) /\ log_event(t, <<"replayed">>) /\ Goto(t, "done")
     \/ ~Exists(found[t]) /\ RaiseAfter(t, <<"replayed">>)
     \/ Raise(t, "replayed")
  /\ found' = [found EXCEPT ![t] = None]
  /\ UNCHANGED <<storeVars, queueVars, worker, server, pending>>

HasRoom == Len(queue) < QueueRoom
Placed(t) ==
  LET before == Cardinality({i \in DOMAIN queue : Rank[queue[i]] <= Rank[t]})
  IN  InsertAt(queue, before + 1, t)
Put(t) ==
  /\ HasRoom
  /\ queue' = Placed(t)
  /\ unfinished' = unfinished + 1

(* put_nowait follows the audit without an await; a critical or high task  *)
(* waits a while for room.                                                 *)
AuditQueued(t) ==
  /\ call[t] = "audit"
  /\ \/ /\ log_event(t, <<"queued">>)
        /\ \/ IsUrgent(t) /\ Goto(t, "put") /\ UNCHANGED <<status, queueVars>>
           \/ ~IsUrgent(t) /\ Put(t) /\ Goto(t, "done") /\ UNCHANGED status
           \/ /\ ~IsUrgent(t) /\ ~HasRoom
              /\ Settle(t, "rejected")
              /\ Goto(t, "refuse")
              /\ UNCHANGED queueVars
     \/ Raise(t, "queued") /\ Settle(t, "rejected") /\ UNCHANGED queueVars
  /\ UNCHANGED <<attempts, index, otherVars>>

PutUrgent(t) ==
  /\ call[t] = "put"
  /\ \/ Put(t) /\ Goto(t, "return") /\ UNCHANGED status
     \/ Settle(t, "rejected") /\ Goto(t, "refuse") /\ UNCHANGED queueVars
  /\ UNCHANGED <<traceVars, attempts, index, otherVars>>

(* By the time a waiting put is answered its task may be over and evicted. *)
Return(t) ==
  /\ call[t] = "return"
  /\ \/ Exists(t) /\ Goto(t, "done") /\ UNCHANGED traceVars
     \/ ~Exists(t) /\ RaiseAfter(t, <<>>)
  /\ UNCHANGED <<storeVars, queueVars, otherVars>>

(* The rejection is in the record before it is in the trace: when the      *)
(* record is evicted meanwhile, counting the audit raises.                 *)
AuditRefusal(t) ==
  /\ call[t] = "refuse"
  /\ \/ Exists(t) /\ log_event(t, <<"rejected">>) /\ Goto(t, "done")
     \/ ~Exists(t) /\ RaiseAfter(t, <<"rejected">>)
     \/ Raise(t, "rejected")
  /\ UNCHANGED <<storeVars, queueVars, otherVars>>

SubmitStep(t) ==
  \/ Submit(t) \/ AuditReplay(t) \/ AuditQueued(t) \/ PutUrgent(t) \/ Return(t)
  \/ AuditRefusal(t)

-----------------------------------------------------------------------------
(* _worker, its handler and _fail.                                         *)

callVars == <<call, found, pending, index>>
Work(w, point) == worker' = [worker EXCEPT ![w].at = point]

(* The finally clause of the loop body: the item is done, and a join that  *)
(* waits for the last one is released for good.                            *)
Done_WithoutCount(w) ==
  /\ worker' = [worker EXCEPT ![w] = Idle]
  /\ UNCHANGED <<unfinished, server>>
Done(w) ==
  /\ worker' = [worker EXCEPT ![w] = Idle]
  /\ unfinished' = unfinished - 1
  /\ server' = [server EXCEPT !.joined = @ \/ (server.phase = "drain" /\ unfinished = 1)]
Busily == UNCHANGED <<unfinished, server>>

Get(w) ==
  /\ worker[w].at = "idle"
  /\ server.phase \in {"up", "drain"}
  /\ queue # <<>>
  /\ LET t == Head(queue)
     IN  /\ worker' = [worker EXCEPT ![w] = [at |-> "start", task |-> t]]
         /\ Settle(t, "running")
         /\ attempts' = [attempts EXCEPT ![t] = 0]
  /\ queue' = Tail(queue)
  /\ Busily
  /\ UNCHANGED <<traceVars, callVars>>

(* The handler of the task is called for its next attempt.                 *)
Invoke(w) ==
  LET t == worker[w].task
  IN  /\ attempts' = [attempts EXCEPT ![t] = @ + 1]
      /\ Work(w, "handler")

AuditStarted(w) ==
  /\ worker[w].at = "start"
  /\ LET t == worker[w].task
     IN  \/ log_event(t, <<"started">>) /\ Invoke(w) /\ Busily /\ UNCHANGED status
         \/ /\ AuditFails(t, "started", <<>>)
            /\ Settle(t, "failed")
            /\ Done(w)
            /\ UNCHANGED attempts
  /\ UNCHANGED <<queue, callVars>>

(* The executor of the handler's skill logs into the trace of the task.    *)
SkillLogged(t) == Last(chain[t]).stage = "skill"
HandlerAudits(w) ==
  /\ worker[w].at = "handler"
  /\ LET t == worker[w].task
     IN  t \in Skilled /\ ~SkillLogged(t) /\ log_event(t, <<"skill">>)
  /\ UNCHANGED <<worker, status, attempts, queueVars, server, callVars>>

(* TimeoutError and TaskTransientError are tried again, as is a timeout    *)
(* whose handler thread is still at work; other errors are not, a failed   *)
(* audit of the skill among them.  A timeout, of the handler or of such an *)
(* audit, leaves the audit behind.  No skill succeeds unlogged.            *)
Retries(w) ==
  attempts[worker[w].task] < MaxAttempts[worker[w].task] /\ Work(w, "retry") /\ UNCHANGED status
GivesUp(w) == Settle(worker[w].task, "failed") /\ Work(w, "outcome")
HandlerReturns_WithoutLimit(w) ==
  /\ worker[w].at = "handler"
  /\ Work(w, "complete") \/ Work(w, "retry")
  /\ UNCHANGED <<traceVars, status, attempts, queueVars, server, callVars>>
HandlerReturns(w) ==
  /\ worker[w].at = "handler"
  /\ \/ /\ worker[w].task \in Skilled => SkillLogged(worker[w].task)
        /\ Work(w, "complete") /\ UNCHANGED <<traceVars, status>>
     \/ /\ Retries(w) \/ GivesUp(w)
        /\ \/ UNCHANGED traceVars
           \/ worker[w].task \in Skilled /\ log_event_late(worker[w].task, "skill", <<>>)
  /\ UNCHANGED <<attempts, queueVars, server, callVars>>

AuditRetry(w) ==
  /\ worker[w].at = "retry"
  /\ LET t == worker[w].task
     IN  \/ log_event(t, <<"retry">>) /\ Invoke(w) /\ UNCHANGED status
         \/ /\ AuditFails(t, "retry", <<>>)
            /\ Settle(t, "failed")
            /\ Work(w, "outcome")
            /\ UNCHANGED attempts
  /\ UNCHANGED <<queueVars, server, callVars>>

AuditCompleted(w) ==
  /\ worker[w].at = "complete"
  /\ LET t == worker[w].task
     IN  \/ log_event(t, <<"completed">>) /\ Work(w, "output") /\ Busily /\ UNCHANGED status
         \/ AuditFails(t, "completed", <<>>) /\ Settle(t, "failed") /\ Done(w)
  /\ UNCHANGED <<attempts, queue, callVars>>

AuditOutput_WithFailure(w) ==
  /\ worker[w].at = "output"
  /\ LET t == worker[w].task
     IN  \/ log_event(t, <<"succeeded">>) /\ Settle(t, "succeeded") /\ Done(w)
         \/ /\ AuditFails(t, "succeeded", <<>>)
            /\ Settle(t, "failed")
            /\ Work(w, "outcome")
            /\ Busily
  /\ UNCHANGED <<attempts, queue, callVars>>
AuditOutput(w) ==
  /\ worker[w].at = "output"
  /\ LET t == worker[w].task
     IN  \/ log_event(t, <<"succeeded">>) /\ Settle(t, "succeeded")
         \/ AuditFails(t, "succeeded", <<>>) /\ Settle(t, "failed")
  /\ Done(w)
  /\ UNCHANGED <<attempts, queue, callVars>>

(* _fail has set the status; whether its audit or the count of it fails,   *)
(* the worker goes on.                                                     *)
AuditFailure(w) ==
  /\ worker[w].at = "outcome"
  /\ log_event(worker[w].task, <<"failed">>) \/ AuditFails(worker[w].task, "failed", <<>>)
  /\ Done(w)
  /\ UNCHANGED <<status, attempts, queue, callVars>>

WorkerStep(w) ==
  \/ Get(w) \/ AuditStarted(w) \/ HandlerAudits(w) \/ HandlerReturns(w) \/ AuditRetry(w)
  \/ AuditCompleted(w) \/ AuditOutput(w) \/ AuditFailure(w)

-----------------------------------------------------------------------------
(* start and stop.                                                         *)

StageAt(point) == CASE point = "start"    -> "started"
                    [] point = "handler"  -> "skill"
                    [] point = "retry"    -> "retry"
                    [] point = "complete" -> "completed"
                    [] point = "output"   -> "succeeded"
                    [] point = "outcome"  -> "failed"

(* Every worker is cancelled at its await: the item it holds is done, its  *)
(* task keeps the status it has, the thread of an audit may go on.         *)
CancelWorkers_WithIdle ==
  /\ worker' = [w \in Workers |-> Idle]
  /\ unfinished' = unfinished - Cardinality(Workers)
  /\ UNCHANGED traceVars
CancelWorkers ==
  /\ worker' = [w \in Workers |-> Idle]
  /\ unfinished' = unfinished - Cardinality(Busy)
  /\ \E cut \in SUBSET {w \in Busy : worker[w].at = "handler" => worker[w].task \in Skilled} :
       late' = [r \in Traces |-> late[r] \cup
                 {StageAt(worker[w].at) : w \in {x \in cut : worker[x].task = r}}]
  /\ UNCHANGED <<keyfile, chain, faults>>

StopDraining ==
  /\ server.phase = "up"
  /\ server.stops < MaxStops
  /\ server' = [phase |-> "drain", drain |-> TRUE, joined |-> unfinished = 0,
                stops |-> server.stops + 1]
  /\ pending' = {t \in Tasks : status[t] \in Live /\ ~Queued(t) /\ ~Held(t)}
  /\ UNCHANGED <<traceVars, storeVars, queueVars, worker, call, found>>

Drained_WithoutJoin ==
  /\ server.phase = "drain"
  /\ CancelWorkers
  /\ server' = [server EXCEPT !.phase = "gather", !.joined = FALSE]
  /\ UNCHANGED <<storeVars, queue, call, found, pending>>
Drained ==
  /\ server.phase = "drain"
  /\ server.joined
  /\ CancelWorkers
  /\ server' = [server EXCEPT !.phase = "gather", !.joined = FALSE]
  /\ UNCHANGED <<storeVars, queue, call, found, pending>>

StopAtOnce ==
  /\ server.phase = "up"
  /\ server.stops < MaxStops
  /\ CancelWorkers
  /\ server' = [phase |-> "gather", drain |-> FALSE, joined |-> FALSE, stops |-> server.stops + 1]
  /\ pending' = {}
  /\ UNCHANGED <<storeVars, queue, call, found>>

Stopped ==
  /\ server.phase = "gather"
  /\ server' = [server EXCEPT !.phase = "down"]
  /\ UNCHANGED <<traceVars, storeVars, queueVars, worker, call, found, pending>>

(* start refuses to run with what an earlier run left in the queue.        *)
Start ==
  /\ server.phase = "down"
  /\ queue = <<>>
  /\ unfinished' = 0
  /\ server' = [server EXCEPT !.phase = "up", !.drain = FALSE]
  /\ pending' = {}
  /\ UNCHANGED <<traceVars, storeVars, queue, worker, call, found>>

ServerStep == StopDraining \/ Drained \/ StopAtOnce \/ Stopped \/ Start

(* Other threads and processes: the key file and the audits left behind.   *)
ThreadStep ==
  /\ WriteKey \/ \E r \in Traces : LateAppend(r)
  /\ UNCHANGED dispatcherVars

LoopStep ==
  /\ \/ \E t \in Tasks : SubmitStep(t)
     \/ \E w \in Workers : WorkerStep(w)
     \/ ServerStep
  /\ UNCHANGED max_records

Next == LoopStep \/ ThreadStep

Spec == Init /\ [][Next]_vars

-----------------------------------------------------------------------------
WorkRecords == [at: WorkPoints, task: Tasks \cup {None}]

(* Records, queue, workers and calls are well formed.                      *)
TypeOK ==
  /\ TraceTypeOK
  /\ max_records \in RecordLimits
  /\ status \in [Tasks -> {"absent", "evicted"} \cup Live \cup Outcomes]
  /\ attempts \in [Tasks -> Nat]
  /\ index \in [IdemKeys -> Tasks \cup {None}]
  /\ queue \in Seq(Tasks)
  /\ unfinished \in Nat
  /\ worker \in [Workers -> WorkRecords]
  /\ call \in [Tasks -> CallPoints]
  /\ found \in [Tasks -> Tasks \cup {None}]
  /\ server \in [phase: Phases, drain: BOOLEAN, joined: BOOLEAN, stops: Nat]
  /\ pending \in SUBSET Tasks

(* queue.join, on which stop(drain=True) relies, waits for exactly what is *)
(* queued or in a worker's hands, whatever fails, is retried or is         *)
(* cancelled (dispatcher.py:410).                                          *)
JoinCounts == unfinished = Len(queue) + Cardinality(Busy)

(* No task is queued, or held by a worker, twice, and what is held is      *)
(* recorded as what it is: the queue holds queued tasks, and eviction      *)
(* never takes a record a worker still writes to, unless its outcome is    *)
(* already set.                                                            *)
HeldOnce ==
  /\ IsInjective(queue)
  /\ \A i \in DOMAIN queue : status[queue[i]] = "queued"
  /\ \A w \in Busy : /\ status[worker[w].task] = "running" \/ worker[w].at = "outcome"
                     /\ \A x \in Busy : worker[x].task = worker[w].task => x = w

(* A task recorded as succeeded has its evidence in its chain: queued,     *)
(* started, completed and final_output in this order, nothing else but     *)
(* retries before the completion and what its handler's skill has logged,  *)
(* early or late; and nothing was ever appended to a chain that did not    *)
(* verify, so that all events but the last share a key                     *)
(* (docs/task_runtime.md: every successful task records these four stages).*)
EvidenceOfSuccess ==
  \A t \in Tasks : status[t] = "succeeded" =>
    LET told == StagesOf(t)
        n    == Len(told)
    IN  /\ OneKey(t)
        /\ n >= 5
        /\ told[1] = "created" /\ told[2] = "queued" /\ told[3] = "started"
        /\ \E c, s \in 4..n :
             /\ c < s /\ told[c] = "completed" /\ told[s] = "succeeded"
             /\ \A i \in (4..n) \ {c, s} : told[i] = "skill" \/ (told[i] = "retry" /\ i < c)

(* A trace never tells both that its task succeeded and that it failed,    *)
(* and that it was rejected besides only when the record was evicted while *)
(* its submit call was still waiting to be answered.                       *)
OneVerdict ==
  \A t \in Tasks :
    /\ ~({"succeeded", "failed"} \subseteq Recorded(t))
    /\ "rejected" \in Recorded(t) /\ Recorded(t) \cap {"succeeded", "failed"} # {} =>
         status[t] = "evicted"

(* The idempotency index names exactly the recorded keyed tasks: eviction  *)
(* frees the key with the record.                                          *)
KeyIndex ==
  /\ \A k \in IdemKeys : index[k] # None => Exists(index[k]) /\ KeyOf[index[k]] = k
  /\ \A t \in Records : KeyOf[t] # None => index[KeyOf[t]] = t

(* stop(drain=True) leaves nothing of the queue behind: what is still live *)
(* then is a submission that was waiting for its enqueue audit or for room *)
(* when stop began (dispatcher.py:295-303; once queued it stays there for  *)
(* good, and start refuses) or was abandoned by an earlier stop.           *)
DrainLosesNothing ==
  server.phase = "down" /\ server.drain => \A t \in Tasks : status[t] \in Live => t \in pending

(* Seen by its client, each task keeps the contract of module              *)
(* TaskContract, and strictly: no handler is started once a task has its   *)
(* outcome, because nobody but the worker about to start it settles a task *)
(* that is running (dispatcher.py:357-361).                                *)
Phase(t) == IF status[t] = "absent" THEN "unknown"
            ELSE IF status[t] \in Live THEN "open"
            ELSE IF status[t] = "evicted" THEN "forgotten" ELSE status[t]
Contract(t) == INSTANCE TaskContract
                 WITH Tasks <- {t}, MaxAttempts <- MaxAttempts[t],
                      phase <- [u \in {t} |-> Phase(u)],
                      granted <- [u \in {t} |-> attempts[u]],
                      runs <- [u \in {t} |-> attempts[u]]
KeepsContract ==
  /\ \A t \in Tasks : Contract(t)!Init
  /\ [][\A t \in Tasks : [Contract(t)!PromptNext]_<<Phase(t), attempts[t]>>]_vars
=============================================================================
