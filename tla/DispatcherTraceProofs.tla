------------------------ MODULE DispatcherTraceProofs ------------------------
(***************************************************************************)
(* Proofs about the audit traces of TaskDispatcher, for every instance.    *)
(*                                                                         *)
(* TraceInv relates each task's chain, and the events of audits that were  *)
(* left behind, to where its submit call, its worker and its record are.   *)
(* A step of a call or a worker touches the trace of its own task only     *)
(* (Others); what it appends is the subject of Grows, what it may still    *)
(* append of Left.                                                         *)
(***************************************************************************)
EXTENDS TaskDispatcherProofs

(* What the trace of a task tells, by where its call, its worker and its   *)
(* record are.                                                             *)
Created(t)  == Len(chain[t]) = 1 /\ chain[t][1].stage = "created"
Enqueued(t) == Len(chain[t]) = 2 /\ chain[t][1].stage = "created" /\ chain[t][2].stage = "queued"
Attempted(t, n) ==
  /\ n >= 3 /\ Len(chain[t]) >= n
  /\ chain[t][1].stage = "created" /\ chain[t][2].stage = "queued" /\ chain[t][3].stage = "started"
  /\ \A i \in 4..n : chain[t][i].stage \in {"retry", "skill"}
Completed(t, c) ==
  /\ c \in 4..Len(chain[t]) /\ Attempted(t, c - 1) /\ chain[t][c].stage = "completed"
  /\ \A i \in (c + 1)..Len(chain[t]) : chain[t][i].stage = "skill"
Finished(t, c, s) ==
  /\ c \in 4..Len(chain[t]) /\ Attempted(t, c - 1) /\ chain[t][c].stage = "completed"
  /\ s \in (c + 1)..Len(chain[t])
  /\ \A i \in (c + 1)..Len(chain[t]) : chain[t][i].stage = IF i = s THEN "succeeded" ELSE "skill"
HasCompleted(t) == \E c \in Nat : Completed(t, c)
HasFinished(t)  == \E c, s \in Nat : Finished(t, c, s)

TellsOf(t) ==
  /\ OneKey(t)
  /\ call[t] = "idle" => chain[t] = <<>> /\ late[t] = {}
  /\ call[t] = "audit" => Created(t) /\ late[t] = {}
  /\ call[t] = "put" \/ Queued(t) => Enqueued(t) /\ late[t] = {}
  /\ status[t] = "succeeded" => HasFinished(t) /\ late[t] \subseteq {"skill"}
WorkerTells(w) ==
  LET t == worker[w].task
  IN  /\ worker[w].at = "start" => Enqueued(t) /\ late[t] = {}
      /\ worker[w].at \in {"handler", "retry", "complete"} => Attempted(t, Len(chain[t]))
      /\ worker[w].at = "output" => HasCompleted(t)
      /\ worker[w].at # "outcome" => late[t] \subseteq {"skill"}

(* What the trace of a task says, or may come to say.                      *)
Says(t) == Recorded(t) \cup late[t]
VerdictOf(t) ==
  /\ ~({"succeeded", "failed"} \subseteq Says(t))
  /\ status[t] \in {"absent", "rejected", "queued"} => Says(t) \cap {"succeeded", "failed"} = {}
  /\ status[t] \in {"queued", "running", "failed", "succeeded"} => "rejected" \notin Says(t)
WorkerVerdict(w) ==
  LET t == worker[w].task
  IN  IF worker[w].at = "outcome" THEN "succeeded" \notin Says(t)
      ELSE Says(t) \cap {"succeeded", "failed"} = {}

TraceInv ==
  /\ TraceTypeOK
  /\ \A t \in Tasks : TellsOf(t) /\ VerdictOf(t)
  /\ \A w \in Busy : WorkerTells(w) /\ WorkerVerdict(w)

-----------------------------------------------------------------------------
(* What an append does to the traces.                                      *)

(* The trace of t has grown by the given stages.                           *)
Grows(t, stages) ==
  /\ chain' \in [Tasks -> Seq(Events)]
  /\ \A u \in Tasks \ {t} : chain'[u] = chain[u]
  /\ Len(chain'[t]) = Len(chain[t]) + Len(stages)
  /\ \A i \in 1..Len(chain[t]) : chain'[t][i] = chain[t][i]
  /\ \A i \in 1..Len(stages) : chain'[t][Len(chain[t]) + i].stage = stages[i]
  /\ OneKey(t) => OneKey(t)'

(* At most stage is on its way to the trace of t besides.                  *)
Left(t, stage) ==
  /\ late' \in [Tasks -> SUBSET Stages]
  /\ \A u \in Tasks \ {t} : late'[u] = late[u]
  /\ late'[t] \subseteq late[t] \cup {stage}

LEMMA ExtendedGrows ==
  ASSUME TraceTypeOK, NEW t \in Tasks, NEW stages \in Seq(Stages), NEW last \in Keys,
         chain' = Extended(t, stages, last), stages # <<>> => Verified(t)
  PROVE  Grows(t, stages)
<1> DEFINE added == [i \in DOMAIN stages |-> Event(stages[i], IF i = Len(stages) THEN last ELSE keyfile)]
           old   == chain[t]
<1> USE DispatcherAssumption
<1>1. old \in Seq(Events) /\ chain \in [Tasks -> Seq(Events)] /\ keyfile \in Keys
  BY DEF TraceTypeOK
<1>2. PICK n \in Nat : n = Len(old)
  BY <1>1
<1>3. PICK m \in Nat : m = Len(stages)
  OBVIOUS
<1>4. /\ added \in Seq(Events) /\ Len(added) = m
      /\ \A i \in 1..m : added[i].stage = stages[i] /\ (i # m => added[i].key = keyfile)
  <2>1. added = [i \in 1..m |-> Event(stages[i], IF i = m THEN last ELSE keyfile)]
    BY <1>3
  <2> HIDE DEF added
  <2>2. \A i \in 1..m : Event(stages[i], IF i = m THEN last ELSE keyfile) \in Events
    BY <1>1, <1>3 DEF Event, Events
  <2>3. added \in [1..m -> Events]
    BY <2>1, <2>2
  <2>4. added \in Seq(Events) /\ Len(added) = m
    BY <2>3
  <2>5. \A i \in 1..m : added[i] = Event(stages[i], IF i = m THEN last ELSE keyfile)
    BY <2>1
  <2>6. ASSUME NEW i \in 1..m
        PROVE  added[i].stage = stages[i] /\ (i # m => added[i].key = keyfile)
    <3>1. \A k : Event(stages[i], k).stage = stages[i] /\ Event(stages[i], k).key = k
      BY DEF Event
    <3>2. added[i] = Event(stages[i], IF i = m THEN last ELSE keyfile)
      BY <2>5
    <3>3. CASE i = m
      <4>1. added[i] = Event(stages[i], last)
        BY <3>2, <3>3
      <4> QED BY <3>1, <3>3, <4>1, Zenon
    <3>4. CASE i # m
      <4>1. added[i] = Event(stages[i], keyfile)
        BY <3>2, <3>4
      <4> QED BY <3>1, <4>1, Zenon
    <3> QED BY <3>3, <3>4
  <2> QED BY <2>4, <2>6
<1>5. chain' = [chain EXCEPT ![t] = old \o added]
  BY DEF Extended
<1> HIDE DEF added, old
<1>6. PICK new \in Seq(Events) :
        /\ new = old \o added /\ Len(new) = n + m
        /\ \A i \in 1..(n + m) : new[i] = IF i <= n THEN old[i] ELSE added[i - n]
  <2>1. old \in Seq(Events) /\ added \in Seq(Events)
    BY <1>1, <1>4
  <2>2. /\ old \o added \in Seq(Events)
        /\ Len(old \o added) = Len(old) + Len(added)
        /\ \A i \in 1..Len(old) + Len(added) :
             (old \o added)[i] = IF i <= Len(old) THEN old[i] ELSE added[i - Len(old)]
    BY <2>1, ConcatProperties, Zenon
  <2> QED BY <1>2, <1>4, <2>2
<1>7. /\ chain' \in [Tasks -> Seq(Events)] /\ chain'[t] = new
      /\ \A u \in Tasks \ {t} : chain'[u] = chain[u]
  BY <1>1, <1>5, <1>6
<1>8. \A i \in 1..n : new[i] = old[i]
  BY <1>6
<1>9. ASSUME NEW i \in 1..m
      PROVE  new[n + i].stage = stages[i] /\ (i # m => new[n + i].key = keyfile)
  <2>1. n + i \in 1..(n + m) /\ ~(n + i <= n) /\ (n + i) - n = i
    OBVIOUS
  <2>2. new[n + i] = added[i]
    BY <1>6, <2>1
  <2> QED BY <1>4, <2>2
<1>10. ASSUME OneKey(t)
       PROVE  OneKey(t)'
  <2>3. Len(chain'[t]) - 1 = n + m - 1
    BY <1>6, <1>7
  <2> SUFFICES ASSUME NEW i \in 1..(n + m - 1), NEW j \in 1..(n + m - 1)
               PROVE  new[i].key = new[j].key
    BY <1>7, <2>3, Zenon DEF OneKey
  <2>1. CASE m = 0
    <3>1. i \in 1..(n - 1) /\ j \in 1..(n - 1)
      BY <2>1
    <3>2. old[i].key = old[j].key
      BY <1>2, <1>10, <3>1 DEF OneKey, old
    <3>3. new[i] = old[i] /\ new[j] = old[j]
      BY <1>8, <3>1
    <3> QED BY <3>2, <3>3
  <2>2. CASE m > 0
    <3>1. \A k \in 1..n : old[k].key = keyfile
      <4>1. Verified(t)
        BY <1>3, <2>2
      <4>2. DOMAIN old = 1..n
        BY <1>1, <1>2
      <4> QED BY <4>1, <4>2 DEF Verified, old
    <3>2. ASSUME NEW k \in 1..(n + m - 1)
          PROVE  new[k].key = keyfile
      <4>1. CASE k <= n
        <5>1. k \in 1..n
          BY <4>1
        <5>2. new[k] = old[k] /\ old[k].key = keyfile
          BY <1>8, <3>1, <5>1, Zenon
        <5> QED BY <5>2, Zenon
      <4>2. CASE k > n
        <5>1. PICK d \in 1..m : k = n + d /\ d # m
          <6>1. k - n \in 1..m /\ k = n + (k - n) /\ k - n # m
            BY <4>2
          <6> QED BY <6>1
        <5> QED BY <1>9, <5>1
      <4> QED BY <4>1, <4>2
    <3> QED BY <3>2
  <2> QED BY <2>1, <2>2
<1> QED BY <1>2, <1>3, <1>6, <1>7, <1>8, <1>9, <1>10 DEF Grows, old

LEMMA StageSeqs ==
  /\ \A s \in Stages : <<s>> \in Seq(Stages)
  /\ \A s, r \in Stages : <<s, r>> \in Seq(Stages)
  /\ <<>> \in Seq(Stages)
OBVIOUS

LEMMA CreateGrows ==
  ASSUME TraceTypeOK, NEW t \in Tasks, NEW stages \in Seq(Stages),
         create_trace(t, stages) \/ create_trace_fails(t, stages)
  PROVE  Grows(t, stages) /\ late' = late /\ keyfile' \in Keys /\ faults' \in Nat
<1>1. Verified(t)
  BY DEF create_trace, create_trace_fails, Verified
<1>2. keyfile \in Keys /\ keyfile' \in Keys /\ faults \in Nat
  BY DEF TraceTypeOK, create_trace, create_trace_fails, Breaks, Keys
<1>3. faults' \in Nat /\ late' = late
  BY <1>2 DEF create_trace, create_trace_fails, Breaks, Fault
<1> QED BY <1>1, <1>2, <1>3, ExtendedGrows DEF create_trace, create_trace_fails

LEMMA AppendGrows ==
  ASSUME TraceTypeOK, NEW t \in Tasks, NEW stages \in Seq(Stages), appends(t, stages)
  PROVE  Grows(t, stages) /\ keyfile' \in Keys
<1>1. keyfile' \in Keys
  BY DEF TraceTypeOK, appends, Keys
<1> QED BY <1>1, ExtendedGrows DEF appends

LEMMA LogGrows ==
  ASSUME TraceTypeOK, NEW t \in Tasks, NEW stages \in Seq(Stages), log_event(t, stages)
  PROVE  Grows(t, stages) /\ UNCHANGED <<late, faults>> /\ keyfile' \in Keys
BY AppendGrows DEF log_event

LEMMA SameGrows ==
  ASSUME TraceTypeOK, NEW t \in Tasks, chain' = chain
  PROVE  Grows(t, <<>>)
<1>1. chain' \in [Tasks -> Seq(Events)] /\ chain[t] \in Seq(Events)
  BY DispatcherAssumption DEF TraceTypeOK
<1> QED BY <1>1 DEF Grows, OneKey

LEMMA FailsGrows ==
  ASSUME TraceTypeOK, NEW t \in Tasks, NEW stage \in Stages, NEW stages \in Seq(Stages),
         AuditFails(t, stage, stages)
  PROVE  Grows(t, stages) /\ Left(t, stage) /\ keyfile' \in Keys /\ faults' \in Nat
<1> USE DispatcherAssumption
<1>1. CASE ~Verified(t) /\ stages = <<>> /\ UNCHANGED traceVars
  BY <1>1, SameGrows DEF traceVars, Left, TraceTypeOK
<1>2. CASE Fault /\ appends(t, stages) /\ UNCHANGED late
  <2>1. Left(t, stage) /\ faults' \in Nat
    BY <1>2 DEF Left, TraceTypeOK, Fault
  <2> QED BY <1>2, <2>1, AppendGrows
<1>3. CASE log_event_late(t, stage, stages)
  <2>1. late' = [late EXCEPT ![t] = late[t] \cup {stage}] /\ late \in [Tasks -> SUBSET Stages]
    BY <1>3 DEF log_event_late, TraceTypeOK
  <2>2. Left(t, stage)
    BY <2>1 DEF Left
  <2>3. appends(t, stages) /\ faults' \in Nat
    BY <1>3 DEF log_event_late, TraceTypeOK, Fault
  <2> QED BY <2>2, <2>3, AppendGrows
<1> QED BY <1>1, <1>2, <1>3 DEF AuditFails, log_event_fails

LEMMA FailsAfterGrows ==
  ASSUME TraceTypeOK, NEW t \in Tasks, NEW stage \in Stages, NEW stages \in Seq(Stages),
         log_event_fails_after(t, stages)
  PROVE  Grows(t, stages) /\ Left(t, stage) /\ keyfile' \in Keys /\ faults' \in Nat
<1> USE DispatcherAssumption
<1>1. CASE ~Verified(t) /\ stages = <<>> /\ UNCHANGED traceVars
  BY <1>1, SameGrows DEF traceVars, Left, TraceTypeOK
<1>2. CASE /\ stages # <<>> => chain[t] # <<>> /\ Verified(t)
           /\ Breaks
           /\ \E last \in {keyfile, keyfile'} : chain' = Extended(t, stages, last)
           /\ UNCHANGED late
  <2>1. keyfile \in Keys /\ keyfile' \in Keys /\ faults \in Nat
    BY <1>2 DEF TraceTypeOK, Breaks, Keys
  <2>2. Left(t, stage) /\ faults' \in Nat
    BY <1>2, <2>1 DEF Left, TraceTypeOK, Breaks, Fault
  <2>3. PICK last \in Keys : chain' = Extended(t, stages, last)
    BY <1>2, <2>1
  <2> QED BY <1>2, <2>1, <2>2, <2>3, ExtendedGrows
<1> QED BY <1>1, <1>2 DEF log_event_fails_after

LEMMA GrowsSays ==
  ASSUME TraceTypeOK, NEW t \in Tasks, NEW stages \in Seq(Stages), Grows(t, stages)
  PROVE  /\ \A s \in Recorded(t)' : s \in Recorded(t) \/ \E i \in 1..Len(stages) : s = stages[i]
         /\ chain'[t] \in Seq(Events) /\ chain[t] \in Seq(Events)
<1>1. chain'[t] \in Seq(Events) /\ chain[t] \in Seq(Events)
  BY DispatcherAssumption DEF Grows, TraceTypeOK
<1>2. PICK n \in Nat : n = Len(chain[t])
  BY <1>1
<1>3. PICK m \in Nat : m = Len(stages)
  OBVIOUS
<1>4. Len(chain'[t]) = n + m /\ DOMAIN chain'[t] = 1..(n + m) /\ DOMAIN chain[t] = 1..n
  BY <1>1, <1>2, <1>3 DEF Grows
<1>5. ASSUME NEW i \in 1..(n + m)
      PROVE  chain'[t][i].stage \in Recorded(t) \/ \E j \in 1..m : chain'[t][i].stage = stages[j]
  <2>1. CASE i <= n
    <3>1. i \in 1..n
      BY <2>1
    <3>2. chain'[t][i] = chain[t][i]
      BY <1>2, <3>1 DEF Grows
    <3>3. chain[t][i].stage \in Recorded(t)
      BY <1>4, <3>1, Zenon DEF Recorded
    <3> QED BY <3>2, <3>3
  <2>2. CASE i > n
    <3>1. PICK j \in 1..m : i = n + j
      <4>1. i - n \in 1..m /\ i = n + (i - n)
        BY <2>2
      <4> QED BY <4>1
    <3>2. chain'[t][n + j].stage = stages[j]
      BY <1>2, <1>3 DEF Grows
    <3> QED BY <3>1, <3>2
  <2> QED BY <2>1, <2>2
<1>6. \A s \in Recorded(t)' : s \in Recorded(t) \/ \E j \in 1..m : s = stages[j]
  BY <1>4, <1>5 DEF Recorded
<1> QED BY <1>1, <1>3, <1>6

(* Everything a step of the call or the worker of t leaves alone.          *)
Others(t) ==
  \A u \in Tasks \ {t} :
    /\ chain'[u] = chain[u] /\ late'[u] = late[u] /\ call'[u] = call[u]
    /\ status'[u] = status[u] \/ (status'[u] = "evicted" /\ status[u] \in Outcomes)
    /\ Queued(u)' => Queued(u)

LEMMA OthersKeep ==
  ASSUME NEW t \in Tasks, Others(t), NEW u \in Tasks \ {t}, TellsOf(u), VerdictOf(u)
  PROVE  (TellsOf(u) /\ VerdictOf(u))'
<1>1. /\ chain'[u] = chain[u] /\ late'[u] = late[u] /\ call'[u] = call[u]
      /\ status'[u] = status[u] \/ status'[u] = "evicted"
      /\ Queued(u)' => Queued(u)
  BY DEF Others
<1>2. /\ OneKey(u)' <=> OneKey(u)
      /\ Created(u)' <=> Created(u)
      /\ Enqueued(u)' <=> Enqueued(u)
      /\ HasFinished(u)' <=> HasFinished(u)
      /\ Says(u)' = Says(u)
  BY <1>1 DEF OneKey, Created, Enqueued, HasFinished, Finished, Attempted, Says, Recorded
<1>3. TellsOf(u)'
  BY <1>1, <1>2 DEF TellsOf
<1>4. VerdictOf(u)'
  BY <1>1, <1>2 DEF VerdictOf
<1> QED BY <1>3, <1>4

LEMMA OtherWorkerKeeps ==
  ASSUME NEW w \in Workers, worker'[w] = worker[w], NEW t, t = worker[w].task,
         chain'[t] = chain[t], late'[t] = late[t], WorkerTells(w), WorkerVerdict(w)
  PROVE  (WorkerTells(w) /\ WorkerVerdict(w))'
<1>1. worker'[w].task = t /\ worker'[w].at = worker[w].at
  OBVIOUS
<1>2. Says(t)' = Says(t)
  BY DEF Says, Recorded
<1>3. Enqueued(t)' <=> Enqueued(t)
  BY DEF Enqueued
<1>4. /\ Attempted(t, Len(chain[t]))' <=> Attempted(t, Len(chain[t]))
      /\ HasCompleted(t)' <=> HasCompleted(t)
  BY DEF Attempted, HasCompleted, Completed
<1>5. WorkerTells(w)'
  BY <1>1, <1>3, <1>4 DEF WorkerTells
<1>6. WorkerVerdict(w)'
  BY <1>1, <1>2 DEF WorkerVerdict
<1> QED BY <1>5, <1>6

(* A step of a submit call, as its trace tells it.                         *)
CallSays == {"created", "queued", "replayed", "rejected"}
CallTale(t) ==
  /\ TraceTypeOK' /\ Others(t)
  /\ (TellsOf(t) /\ VerdictOf(t))'
  /\ \/ chain'[t] = chain[t] /\ late'[t] = late[t]
     \/ status[t] \in {"absent", "queued", "rejected", "evicted"} /\ Says(t)' \subseteq Says(t) \cup CallSays

LEMMA CallFrame ==
  ASSUME Inv, TraceTypeOK, NEW t \in Tasks, SubmitStep(t)
  PROVE  \A u \in Tasks \ {t} :
           /\ call'[u] = call[u]
           /\ status'[u] = status[u] \/ (status'[u] = "evicted" /\ status[u] \in Outcomes)
           /\ Queued(u)' => Queued(u)
<1>1. \A u \in Tasks \ {t} : call'[u] = call[u]
  <2>1. PICK to : Goto(t, to)
    BY DEF SubmitStep, Submit, Record, AuditReplay, AuditQueued, PutUrgent, Return, AuditRefusal,
           Raise, RaiseAfter
  <2> QED BY <2>1 DEF Goto, Inv, Typed
<1>2. ASSUME NEW u \in Tasks \ {t}
      PROVE  status'[u] = status[u] \/ (status'[u] = "evicted" /\ status[u] \in Outcomes)
  <2>1. CASE Submit(t)
    <3>1. CASE UNCHANGED status
      BY <3>1
    <3>2. ASSUME NEW gone \in SUBSET Tasks, \A old \in gone : status[old] \in Outcomes, Insert(t, gone)
          PROVE  status'[u] = status[u] \/ (status'[u] = "evicted" /\ status[u] \in Outcomes)
      BY <3>2 DEF Insert
    <3> QED BY <2>1, <3>1, <3>2 DEF Submit, Record
  <2>2. CASE UNCHANGED status \/ Settle(t, "rejected")
    BY <2>2 DEF Settle, Inv, Typed
  <2> QED BY <2>1, <2>2 DEF SubmitStep, AuditReplay, AuditQueued, PutUrgent, Return, AuditRefusal, storeVars
<1>3. \A u \in Tasks \ {t} : Queued(u)' => Queued(u)
  <2>1. CASE UNCHANGED queue
    BY <2>1 DEF Queued
  <2>2. CASE queue' = Placed(t)
    BY <2>2, PlacedSet DEF Queued, Inv, Typed
  <2> QED BY <2>1, <2>2 DEF SubmitStep, Submit, AuditReplay, AuditQueued, PutUrgent, Return, AuditRefusal,
                            Put, queueVars
<1> QED BY <1>1, <1>2, <1>3

LEMMA Constants ==
  /\ Traces = Tasks
  /\ Stages = {"created", "queued", "started", "retry", "skill", "completed", "succeeded", "failed", "rejected",
               "replayed"}
BY DispatcherAssumption

CallReports ==
  {<<>>, <<"created">>, <<"queued">>, <<"rejected">>, <<"replayed">>, <<"created", "rejected">>,
   <<"replayed", "rejected">>, <<"rejected", "rejected">>}
LEMMA Reports ==
  /\ \A r \in CallReports : r \in Seq(Stages) /\ \A i \in 1..Len(r) : r[i] \in CallSays
  /\ \A s : \A i \in 1..Len(<<s>>) : <<s>>[i] = s
<1> USE Constants
<1>1. /\ \A s \in CallSays : <<s>> \in Seq(Stages) /\ \A i \in 1..Len(<<s>>) : <<s>>[i] \in CallSays
      /\ \A s, r \in CallSays : <<s, r>> \in Seq(Stages) /\ \A i \in 1..Len(<<s, r>>) : <<s, r>>[i] \in CallSays
      /\ <<>> \in Seq(Stages) /\ \A i \in 1..Len(<<>>) : <<>>[i] \in CallSays
  BY DEF CallSays
<1> QED BY <1>1 DEF CallReports, CallSays

(* An append by the call of t, when nothing but its rejection can follow.  *)
LEMMA CallTaleOf ==
  ASSUME Inv, Inv', TraceInv, NEW t \in Tasks, SubmitStep(t),
         NEW stages \in CallReports, Grows(t, stages),
         NEW stage \in CallSays, Left(t, stage), keyfile' \in Keys, faults' \in Nat,
         status[t] \in {"absent", "queued", "rejected", "evicted"},
         status'[t] \in {"queued", "running"} =>
            "rejected" \notin Says(t)',
         call'[t] # "idle",
         call'[t] = "audit" => Created(t)' /\ late'[t] = {},
         call'[t] = "put" \/ Queued(t)' => Enqueued(t)' /\ late'[t] = {},
         status'[t] \notin {"running", "failed", "succeeded"},
         status[t] = "evicted" => status'[t] = "evicted"
  PROVE  CallTale(t)
<1> USE Constants
<1>1. TraceTypeOK'
  BY DEF TraceTypeOK, Grows, Left
<1>2. Others(t)
  BY CallFrame DEF Others, Grows, Left, TraceInv
<1>3. Says(t)' \subseteq Says(t) \cup CallSays
  BY GrowsSays, Reports DEF Left, Says, TraceInv
<1>4. TellsOf(t)'
  BY DEF TellsOf, TraceInv, Grows
<1>5. VerdictOf(t)'
  BY <1>3 DEF VerdictOf, TraceInv, CallSays
<1> QED BY <1>1, <1>2, <1>3, <1>4, <1>5 DEF CallTale

(* The audits of a call: in time, or on the way to an error.               *)
LEMMA CallAudits ==
  ASSUME TraceTypeOK, NEW t \in Tasks, NEW stage \in CallSays, NEW stages \in CallReports,
         log_event(t, stages) \/ AuditFails(t, stage, stages) \/ log_event_fails_after(t, stages)
  PROVE  Grows(t, stages) /\ Left(t, stage) /\ keyfile' \in Keys /\ faults' \in Nat
<1> USE Constants
<1>1. stages \in Seq(Stages) /\ stage \in Stages
  BY Reports DEF CallSays
<1>2. CASE log_event(t, stages)
  BY <1>1, <1>2, LogGrows DEF Left, TraceTypeOK
<1>3. CASE AuditFails(t, stage, stages)
  BY <1>1, <1>3, FailsGrows
<1>4. CASE log_event_fails_after(t, stages)
  BY <1>1, <1>4, FailsAfterGrows
<1> QED BY <1>2, <1>3, <1>4

LEMMA RaiseGrows ==
  ASSUME TraceTypeOK, NEW t \in Tasks, NEW stage \in CallSays, Raise(t, stage)
  PROVE  \E stages \in {<<>>, <<"rejected">>} :
           Grows(t, stages) /\ Left(t, stage) /\ keyfile' \in Keys /\ faults' \in Nat
BY CallAudits DEF Raise, CallReports

LEMMA RaiseAfterGrows ==
  ASSUME TraceTypeOK, NEW t \in Tasks,
         NEW stages \in {<<>>, <<"rejected">>, <<"replayed">>}, RaiseAfter(t, stages)
  PROVE  \E all \in {stages, stages \o <<"rejected">>} :
           /\ all \in CallReports /\ Grows(t, all)
           /\ Left(t, "rejected") /\ keyfile' \in Keys /\ faults' \in Nat
<1>1. stages \in CallReports /\ stages \o <<"rejected">> \in CallReports
  <2>1. \A a, b \in CallSays : <<a>> \o <<b>> = <<a, b>>
    <3> TAKE a, b \in CallSays
    <3>1. <<a>> \in Seq(CallSays) /\ <<b>> \in Seq(CallSays) /\ <<a, b>> \in Seq(CallSays)
      OBVIOUS
    <3>2. /\ <<a>> \o <<b>> \in Seq(CallSays) /\ Len(<<a>> \o <<b>>) = 2
          /\ (<<a>> \o <<b>>)[1] = a /\ (<<a>> \o <<b>>)[2] = b
      BY <3>1
    <3>3. /\ Len(<<a>> \o <<b>>) = Len(<<a, b>>)
          /\ \A i \in 1..Len(<<a>> \o <<b>>) : (<<a>> \o <<b>>)[i] = <<a, b>>[i]
      <4>1. \A i \in 1..2 : i = 1 \/ i = 2
        OBVIOUS
      <4> QED BY <3>1, <3>2, <4>1
    <3> QED BY <3>1, <3>2, <3>3, SeqEqual, Zenon
  <2>2. <<>> \o <<"rejected">> = <<"rejected">>
    <3>1. <<"rejected">> \in Seq(CallSays)
      BY DEF CallSays
    <3> QED BY <3>1, ConcatEmptySeq
  <2>3. "replayed" \in CallSays /\ "rejected" \in CallSays
    BY DEF CallSays
  <2>4. <<"replayed">> \o <<"rejected">> = <<"replayed", "rejected">>
    BY <2>1, <2>3, Zenon
  <2>5. <<"rejected">> \o <<"rejected">> = <<"rejected", "rejected">>
    BY <2>1, <2>3, Zenon
  <2> QED BY <2>2, <2>4, <2>5 DEF CallReports
<1>2. log_event(t, stages \o <<"rejected">>) \/ log_event_fails_after(t, stages)
  BY DEF RaiseAfter
<1> QED BY <1>1, <1>2, CallAudits DEF CallSays

LEMMA SubmitTells ==
  ASSUME Inv, Inv', TraceInv, NEW t \in Tasks, Submit(t)
  PROVE  CallTale(t)
<1> USE Constants
<1>1. SubmitStep(t) /\ TraceTypeOK /\ Len(chain[t]) = 0 /\ chain[t] = <<>> /\ late[t] = {} /\ status[t] = "absent"
  BY DEF SubmitStep, Submit, TraceInv, TellsOf, Inv, CallsKnow
<1>2. ~Queued(t) /\ ~Queued(t)'
  BY <1>1, QueuedStatus DEF Submit, queueVars, Inv, Queued
<1>3. Says(t) = {}
  BY <1>1 DEF Says, Recorded
<1>4. late \in [Tasks -> SUBSET Stages] /\ keyfile \in Keys /\ faults \in Nat
  BY <1>1 DEF TraceTypeOK
<1>5. ASSUME NEW stages \in CallReports, create_trace(t, stages) \/ create_trace_fails(t, stages),
             Goto(t, "done"), UNCHANGED <<status, index, found>>
      PROVE  CallTale(t)
  <2>1. Grows(t, stages) /\ late' = late /\ keyfile' \in Keys /\ faults' \in Nat
    BY <1>1, <1>5, Reports, CreateGrows
  <2>2. call'[t] = "done"
    BY <1>5 DEF Goto, Inv, Typed
  <2>3. Left(t, "created") /\ "created" \in CallSays
    BY <1>4, <2>1 DEF Left, CallSays
  <2> QED BY <1>1, <1>2, <1>5, <2>1, <2>2, <2>3, CallTaleOf
<1>6. ASSUME create_trace(t, <<"created">>), call'[t] \in {"replay", "audit", "done"},
             status'[t] \in {"absent", "queued"}
      PROVE  CallTale(t)
  <2>1. Grows(t, <<"created">>) /\ late' = late /\ keyfile' \in Keys /\ faults' \in Nat
    BY <1>1, <1>6, StageSeqs, CreateGrows
  <2>2. Left(t, "created") /\ late'[t] = {}
    BY <1>1, <1>4, <2>1 DEF Left
  <2>3. Created(t)'
    BY <1>1, <2>1 DEF Grows, Created
  <2>4. "rejected" \notin Says(t)'
    <3>1. \A x \in Recorded(t)' : x = "created"
      <4>1. <<"created">> \in Seq(Stages) /\ \A i \in 1..Len(<<"created">>) : <<"created">>[i] = "created"
        BY StageSeqs, Reports
      <4>2. \A x \in Recorded(t)' : x \in Recorded(t) \/ \E i \in 1..Len(<<"created">>) : x = <<"created">>[i]
        BY <1>1, <2>1, <4>1, GrowsSays, Zenon
      <4>3. Recorded(t) = {}
        BY <1>3 DEF Says
      <4> QED BY <4>1, <4>2, <4>3, Zenon
    <3> QED BY <2>2, <3>1 DEF Says
  <2> QED BY <1>1, <1>2, <1>4, <1>6, <2>1, <2>2, <2>3, <2>4, CallTaleOf DEF CallSays, CallReports
<1>7. CASE Goto(t, "replay") /\ create_trace(t, <<"created">>) /\ UNCHANGED <<status, index>>
  BY <1>1, <1>6, <1>7 DEF Goto, Inv, Typed
<1>8. CASE Record(t) /\ create_trace(t, <<"created">>)
  <2>1. call'[t] \in {"audit", "done"}
    BY <1>8 DEF Record, Goto, Inv, Typed
  <2>2. status'[t] \in {"absent", "queued"}
    BY <1>1, <1>8 DEF Record, Insert
  <2> QED BY <1>6, <1>8, <2>1, <2>2
<1> QED
  <2>1. {<<>>, <<"created">>, <<"created", "rejected">>} \subseteq CallReports
    BY DEF CallReports
  <2> QED BY <1>5, <1>7, <1>8, <2>1 DEF Submit

LEMMA ReplayTells ==
  ASSUME Inv, Inv', TraceInv, NEW t \in Tasks, AuditReplay(t)
  PROVE  CallTale(t)
<1> USE Constants
<1>1. SubmitStep(t) /\ TraceTypeOK /\ status[t] = "absent" /\ status'[t] = "absent"
  BY DEF SubmitStep, AuditReplay, TraceInv, Inv, CallsKnow, storeVars
<1>2. ~Queued(t)'
  BY <1>1, QueuedStatus DEF AuditReplay, queueVars, Inv, Queued
<1>3. late \in [Tasks -> SUBSET Stages] /\ keyfile \in Keys /\ faults \in Nat
  BY <1>1 DEF TraceTypeOK
<1>4. call'[t] = "done"
  BY DEF AuditReplay, RaiseAfter, Raise, Goto, Inv, Typed
<1>5. ASSUME NEW stages \in CallReports, Grows(t, stages),
             NEW stage \in CallSays, Left(t, stage), keyfile' \in Keys, faults' \in Nat
      PROVE  CallTale(t)
  BY <1>1, <1>2, <1>4, <1>5, CallTaleOf
<1>6. CASE log_event(t, <<"replayed">>)
  BY <1>1, <1>5, <1>6, CallAudits DEF CallSays, CallReports
<1>7. CASE RaiseAfter(t, <<"replayed">>)
  BY <1>1, <1>5, <1>7, RaiseAfterGrows DEF CallSays
<1>8. CASE Raise(t, "replayed")
  BY <1>1, <1>5, <1>8, RaiseGrows DEF CallSays, CallReports
<1> QED BY <1>6, <1>7, <1>8 DEF AuditReplay

(* A step of the call of t that leaves the traces alone.                   *)
LEMMA SilentTells ==
  ASSUME Inv, TraceInv, NEW t \in Tasks, SubmitStep(t), UNCHANGED traceVars,
         call'[t] \notin {"idle", "audit"},
         call'[t] = "put" \/ Queued(t)' => call[t] = "put" \/ Queued(t),
         status'[t] = status[t] \/ (status'[t] = "rejected" /\ status[t] = "queued")
  PROVE  CallTale(t)
<1>1. TraceTypeOK'
  BY DEF TraceTypeOK, TraceInv, traceVars
<1>2. Others(t)
  BY CallFrame DEF Others, TraceInv, traceVars
<1>3. /\ OneKey(t)' <=> OneKey(t)
      /\ Enqueued(t)' <=> Enqueued(t)
      /\ HasFinished(t)' <=> HasFinished(t)
      /\ Says(t)' = Says(t)
      /\ chain'[t] = chain[t] /\ late'[t] = late[t]
  BY DEF OneKey, Enqueued, HasFinished, Finished, Attempted, Says, Recorded, traceVars
<1>4. TellsOf(t)'
  BY <1>3 DEF TellsOf, TraceInv
<1>5. VerdictOf(t)'
  BY <1>3 DEF VerdictOf, TraceInv
<1> QED BY <1>1, <1>2, <1>3, <1>4, <1>5 DEF CallTale

LEMMA QueuedTells ==
  ASSUME Inv, Inv', TraceInv, NEW t \in Tasks, AuditQueued(t)
  PROVE  CallTale(t)
<1> USE Constants
<1>1. /\ SubmitStep(t) /\ TraceTypeOK /\ status[t] = "queued" /\ ~Queued(t)
      /\ Created(t) /\ late[t] = {}
  BY DEF SubmitStep, AuditQueued, TraceInv, TellsOf, Inv, CallsKnow
<1>2. status'[t] \in {"queued", "rejected"}
  BY <1>1 DEF AuditQueued, Settle, Inv, Typed
<1>3. CASE /\ log_event(t, <<"queued">>)
           /\ \/ IsUrgent(t) /\ Goto(t, "put") /\ UNCHANGED <<status, queueVars>>
              \/ ~IsUrgent(t) /\ Put(t) /\ Goto(t, "done") /\ UNCHANGED status
              \/ /\ ~IsUrgent(t) /\ ~HasRoom
                 /\ Settle(t, "rejected")
                 /\ Goto(t, "refuse")
                 /\ UNCHANGED queueVars
  <2>1. <<"queued">> \in CallReports /\ <<"queued">> \in Seq(Stages) /\ "queued" \in CallSays
    BY StageSeqs DEF CallReports, CallSays
  <2>2. Grows(t, <<"queued">>) /\ UNCHANGED <<late, faults>> /\ keyfile' \in Keys
    BY <1>1, <1>3, <2>1, LogGrows
  <2>3. Left(t, "queued") /\ keyfile' \in Keys /\ faults' \in Nat /\ late'[t] = {}
    BY <1>1, <2>2 DEF Left, TraceTypeOK
  <2>4. Enqueued(t)'
    <3>1. Len(chain'[t]) = 2 /\ chain'[t][1] = chain[t][1] /\ chain'[t][2].stage = "queued"
      BY <1>1, <2>2 DEF Grows, Created
    <3> QED BY <1>1, <3>1 DEF Enqueued, Created
  <2>5. "rejected" \notin Says(t)'
    <3>1. \A x \in Recorded(t)' : x \in Recorded(t) \/ \E i \in 1..Len(<<"queued">>) : x = <<"queued">>[i]
      BY <1>1, <2>1, <2>2, GrowsSays, Zenon
    <3>2. \A i \in 1..Len(<<"queued">>) : <<"queued">>[i] = "queued"
      BY Reports
    <3>3. "rejected" \notin Recorded(t)
      BY <1>1 DEF TraceInv, VerdictOf, Says
    <3>4. "rejected" \notin Recorded(t)'
      BY <3>1, <3>2, <3>3
    <3> QED BY <2>3, <3>4 DEF Says
  <2>6. call'[t] \in {"put", "done", "refuse"}
    BY <1>3 DEF Goto, Inv, Typed
  <2> QED BY <1>1, <1>2, <2>1, <2>2, <2>3, <2>4, <2>5, <2>6, CallTaleOf
<1>4. CASE Raise(t, "queued") /\ Settle(t, "rejected") /\ UNCHANGED queueVars
  <2>1. call'[t] = "done" /\ status'[t] = "rejected" /\ ~Queued(t)'
    BY <1>1, <1>4 DEF Raise, Goto, Settle, Inv, Typed, Queued, queueVars
  <2>2. PICK stages \in CallReports : Grows(t, stages) /\ Left(t, "queued") /\ keyfile' \in Keys /\ faults' \in Nat
    BY <1>1, <1>4, RaiseGrows DEF CallSays, CallReports
  <2> QED BY <1>1, <2>1, <2>2, CallTaleOf DEF CallSays
<1> QED BY <1>3, <1>4 DEF AuditQueued

LEMMA PutTells ==
  ASSUME Inv, TraceInv, NEW t \in Tasks, PutUrgent(t)
  PROVE  CallTale(t)
<1>1. SubmitStep(t) /\ status[t] = "queued" /\ UNCHANGED traceVars /\ call[t] = "put"
  BY DEF SubmitStep, PutUrgent, Inv, CallsKnow
<1>2. call'[t] \in {"return", "refuse"}
  BY DEF PutUrgent, Goto, Inv, Typed
<1>3. status'[t] = status[t] \/ status'[t] = "rejected"
  BY DEF PutUrgent, Settle, Inv, Typed
<1> QED BY <1>1, <1>2, <1>3, SilentTells

LEMMA ReturnTells ==
  ASSUME Inv, Inv', TraceInv, NEW t \in Tasks, Return(t)
  PROVE  CallTale(t)
<1> USE Constants
<1>1. SubmitStep(t) /\ TraceTypeOK /\ status' = status /\ queue' = queue
  BY DEF SubmitStep, Return, TraceInv, storeVars, queueVars
<1>2. call'[t] = "done"
  BY DEF Return, RaiseAfter, Goto, Inv, Typed
<1>3. CASE UNCHANGED traceVars
  BY <1>1, <1>2, <1>3, SilentTells DEF Queued
<1>4. CASE ~Exists(t) /\ RaiseAfter(t, <<>>)
  <2>1. status[t] \in {"absent", "evicted"}
    BY <1>4 DEF Exists, Records, Inv, Typed
  <2>2. PICK stages \in CallReports : Grows(t, stages) /\ Left(t, "rejected") /\ keyfile' \in Keys /\ faults' \in Nat
    BY <1>1, <1>4, RaiseAfterGrows
  <2>3. ~Queued(t)'
    BY <1>1, <2>1, QueuedStatus DEF Queued, Inv
  <2> QED BY <1>1, <1>2, <2>1, <2>2, <2>3, CallTaleOf DEF CallSays
<1> QED BY <1>3, <1>4 DEF Return

LEMMA RefusalTells ==
  ASSUME Inv, Inv', TraceInv, NEW t \in Tasks, AuditRefusal(t)
  PROVE  CallTale(t)
<1> USE Constants
<1>1. SubmitStep(t) /\ TraceTypeOK /\ status' = status /\ queue' = queue /\ status[t] \in {"rejected", "evicted"}
  BY DEF SubmitStep, AuditRefusal, TraceInv, storeVars, queueVars, Inv, CallsKnow
<1>2. call'[t] = "done" /\ ~Queued(t)'
  BY <1>1, QueuedStatus DEF AuditRefusal, Raise, RaiseAfter, Goto, Inv, Typed, Queued
<1>3. ASSUME NEW stages \in CallReports, Grows(t, stages),
             Left(t, "rejected"), keyfile' \in Keys, faults' \in Nat
      PROVE  CallTale(t)
  BY <1>1, <1>2, <1>3, CallTaleOf DEF CallSays
<1>4. CASE log_event(t, <<"rejected">>)
  BY <1>1, <1>3, <1>4, CallAudits DEF CallSays, CallReports
<1>5. CASE RaiseAfter(t, <<"rejected">>)
  BY <1>1, <1>3, <1>5, RaiseAfterGrows
<1>6. CASE Raise(t, "rejected")
  BY <1>1, <1>3, <1>6, RaiseGrows DEF CallSays, CallReports
<1> QED BY <1>4, <1>5, <1>6 DEF AuditRefusal

LEMMA SubmitKeepsTraces ==
  ASSUME Inv, Inv', TraceInv, NEW t \in Tasks, SubmitStep(t)
  PROVE  TraceInv'
<1>1. CallTale(t)
  BY SubmitTells, ReplayTells, QueuedTells, PutTells, ReturnTells, RefusalTells DEF SubmitStep
<1>2. worker' = worker /\ Busy' = Busy
  BY DEF SubmitStep, Submit, AuditReplay, AuditQueued, PutUrgent, Return, AuditRefusal, otherVars, Busy
<1>3. ASSUME NEW u \in Tasks
      PROVE  (TellsOf(u) /\ VerdictOf(u))'
  BY <1>1, OthersKeep DEF CallTale, TraceInv
<1>4. ASSUME NEW w \in Busy
      PROVE  (WorkerTells(w) /\ WorkerVerdict(w))'
  <2>1. PICK u \in Tasks : u = worker[w].task
    BY DEF Inv, WorkersKnow
  <2>2. w \in Workers /\ worker'[w] = worker[w] /\ WorkerTells(w) /\ WorkerVerdict(w)
    BY <1>2 DEF Busy, TraceInv
  <2>3. CASE chain'[u] = chain[u] /\ late'[u] = late[u]
    BY <2>1, <2>2, <2>3, OtherWorkerKeeps
  <2>4. CASE u = t /\ status[t] \in {"absent", "queued", "rejected", "evicted"} /\ Says(t)' \subseteq Says(t) \cup CallSays
    <3>1. worker[w].at = "outcome"
      BY <2>1, <2>4 DEF Inv, WorkersKnow
    <3>2. "succeeded" \notin Says(t)'
      BY <2>1, <2>2, <2>4, <3>1 DEF WorkerVerdict, CallSays
    <3> QED BY <2>1, <2>2, <2>4, <3>1, <3>2 DEF WorkerTells, WorkerVerdict
  <2> QED BY <1>1, <2>1, <2>3, <2>4 DEF CallTale, Others
<1> QED BY <1>1, <1>2, <1>3, <1>4 DEF TraceInv, CallTale

-----------------------------------------------------------------------------
(* Workers.                                                                *)

WorkSays == {"started", "retry", "skill", "completed", "succeeded", "failed"}

LEMMA WorkerAudits ==
  ASSUME TraceTypeOK, NEW t \in Tasks, NEW stage \in WorkSays,
         log_event(t, <<stage>>) \/ AuditFails(t, stage, <<>>)
  PROVE  /\ TraceTypeOK'
         /\ \A u \in Tasks \ {t} : chain'[u] = chain[u] /\ late'[u] = late[u]
         /\ OneKey(t) => OneKey(t)'
         /\ Says(t)' \subseteq Says(t) \cup {stage}
<1> USE Constants
<1>1. stage \in Stages /\ <<stage>> \in Seq(Stages) /\ <<>> \in Seq(Stages)
  BY DEF WorkSays
<1>2. PICK stages \in {<<stage>>, <<>>} : Grows(t, stages) /\ Left(t, stage) /\ keyfile' \in Keys /\ faults' \in Nat
  <2>1. CASE log_event(t, <<stage>>)
    BY <1>1, <2>1, LogGrows DEF Left, TraceTypeOK
  <2>2. CASE AuditFails(t, stage, <<>>)
    BY <1>1, <2>2, FailsGrows
  <2> QED BY <2>1, <2>2
<1>3. \A x \in Recorded(t)' : x \in Recorded(t) \/ x = stage
  <2>1. \A x \in Recorded(t)' : x \in Recorded(t) \/ \E i \in 1..Len(stages) : x = stages[i]
    <3>1. stages \in Seq(Stages) /\ Grows(t, stages)
      BY <1>1, <1>2
    <3> QED BY <3>1, GrowsSays, Zenon
  <2>2. \A i \in 1..Len(stages) : stages[i] = stage
    BY <1>2
  <2> QED BY <2>1, <2>2
<1>4. TraceTypeOK'
  BY <1>2 DEF TraceTypeOK, Grows, Left
<1>5. Says(t)' \subseteq Says(t) \cup {stage}
  BY <1>2, <1>3 DEF Says, Left
<1> QED BY <1>2, <1>4, <1>5 DEF Grows, Left

(* A step of worker w on its task, as its trace tells it.                  *)
WorkTale(w, t) ==
  /\ TraceTypeOK'
  /\ \A u \in Tasks \ {t} : chain'[u] = chain[u] /\ late'[u] = late[u]
  /\ OneKey(t)'
  /\ \E stage \in WorkSays \cup {"created"} :
       /\ Says(t)' \subseteq Says(t) \cup {stage}
       /\ stage = "failed" => worker[w].at = "outcome"
       /\ stage = "succeeded" => worker'[w].at = "idle" /\ worker[w].at = "output"
  /\ status'[t] = "succeeded" => HasFinished(t)' /\ late'[t] \subseteq {"skill"}
  /\ worker'[w].at # "idle" => WorkerTells(w)'

LEMMA WorkTaleKeeps ==
  ASSUME Inv, Inv', TraceInv, NEW w \in Busy,
         WorkMove(w) \/ DoneMove(w) \/ (HandlerAudits(w) /\ UNCHANGED dispatcherVars),
         NEW t \in Tasks, t = worker[w].task, WorkTale(w, t)
  PROVE  TraceInv'
<1>1. t \in Tasks /\ t = worker[w].task
  OBVIOUS
<1>2. /\ w \in Workers /\ WorkerVerdict(w)
      /\ IF worker[w].at = "outcome" THEN status[t] \in {"failed", "evicted"} ELSE status[t] = "running"
  BY <1>1 DEF Busy, TraceInv, Inv, WorkersKnow
<1>3. /\ \A u \in Tasks \ {t} : status'[u] = status[u]
      /\ call' = call /\ queue' = queue
      /\ \A x \in Workers \ {w} : worker'[x] = worker[x]
      /\ worker'[w].at # "idle" => worker'[w].task = t
      /\ status'[t] \in {"running", "failed", "succeeded"} \/ (status'[t] = "evicted" /\ worker[w].at = "outcome")
      /\ worker'[w].at # "idle" => worker[w].at # "outcome"
  <2>1. CASE WorkMove(w)
    BY <1>1, <1>2, <2>1 DEF WorkMove, queueSame, Invoke, Work, Settle, Inv, Typed, WorkRecords
  <2>2. CASE DoneMove(w)
    BY <1>1, <1>2, <2>2 DEF DoneMove, Done, Settle, Inv, Typed, Idle
  <2>3. CASE HandlerAudits(w) /\ UNCHANGED dispatcherVars
    BY <1>1, <1>2, <2>3 DEF HandlerAudits, dispatcherVars
  <2> QED BY <2>1, <2>2, <2>3
<1>4. Others(t)
  BY <1>1, <1>3 DEF Others, WorkTale, Queued
<1>5. call[t] \notin {"idle", "audit", "put"} /\ ~Queued(t)
  BY <1>2, QueuedStatus DEF Inv, CallsKnow
<1>6. TellsOf(t)'
  BY <1>1, <1>3, <1>5 DEF TellsOf, WorkTale, Queued
<1>7. PICK stage \in WorkSays \cup {"created"} :
        /\ Says(t)' \subseteq Says(t) \cup {stage}
        /\ stage = "failed" => worker[w].at = "outcome"
        /\ stage = "succeeded" => worker'[w].at = "idle" /\ worker[w].at = "output"
  BY <1>1 DEF WorkTale
<1>8. VerdictOf(t)'
  <2>1. "rejected" \in Says(t) => status[t] = "evicted"
    BY <1>2 DEF TraceInv, VerdictOf
  <2>2. status[t] = "evicted" => status'[t] = "evicted"
    BY <1>1, <1>2 DEF WorkMove, DoneMove, HandlerAudits
  <2>3. "rejected" \in Says(t)' => "rejected" \in Says(t)
    BY <1>7 DEF WorkSays
  <2>4. ~({"succeeded", "failed"} \subseteq Says(t)')
    BY <1>1, <1>2, <1>7 DEF WorkerVerdict, WorkSays
  <2> QED BY <1>3, <2>1, <2>2, <2>3, <2>4 DEF VerdictOf
<1>9. w \in Busy' => WorkerVerdict(w)'
  <2> SUFFICES ASSUME worker'[w].at # "idle" PROVE WorkerVerdict(w)'
    BY DEF Busy
  <2>1. Says(t) \cap {"succeeded", "failed"} = {} /\ worker'[w].task = t
    BY <1>1, <1>2, <1>3 DEF WorkerVerdict
  <2>2. Says(t)' \cap {"succeeded", "failed"} = {}
    BY <1>3, <1>7, <2>1
  <2> QED BY <2>1, <2>2 DEF WorkerVerdict
<1>10. ASSUME NEW u \in Tasks
       PROVE  (TellsOf(u) /\ VerdictOf(u))'
  BY <1>4, <1>6, <1>8, OthersKeep DEF TraceInv
<1>11. ASSUME NEW x \in Busy'
       PROVE  (WorkerTells(x) /\ WorkerVerdict(x))'
  <2>1. CASE x = w
    BY <1>9, <1>11, <2>1 DEF WorkTale, Busy
  <2>2. CASE x # w
    <3>1. x \in Busy /\ x \in Workers /\ worker'[x] = worker[x]
      BY <1>3, <1>11, <2>2 DEF Busy
    <3>2. PICK u \in Tasks \ {t} : u = worker[x].task
      BY <1>1, <2>2, <3>1 DEF Inv, WorkersKnow, HeldOnce
    <3>3. chain'[u] = chain[u] /\ late'[u] = late[u]
      BY <1>4, <3>2 DEF Others
    <3> QED BY <3>1, <3>2, <3>3, OtherWorkerKeeps DEF TraceInv
  <2> QED BY <2>1, <2>2
<1> QED BY <1>10, <1>11 DEF TraceInv, WorkTale

LEMMA GetKeepsTraces ==
  ASSUME Inv, Inv', TraceInv, NEW w \in Workers, Get(w)
  PROVE  TraceInv'
<1>1. PICK h \in Tasks : h = Head(queue) /\ Queued(h) /\ \A u \in Tasks : Queued(u)' => Queued(u) /\ u # h
  BY TailSet DEF Get, Inv, Typed, HeldOnce, Queued
<1>2. TellsOf(h) /\ VerdictOf(h) /\ status[h] = "queued"
  BY <1>1, QueuedStatus DEF TraceInv, Inv
<1>3. /\ UNCHANGED traceVars /\ call' = call
      /\ \A u \in Tasks : status'[u] = IF u = h THEN "running" ELSE status[u]
      /\ \A x \in Workers : worker'[x] = IF x = w THEN [at |-> "start", task |-> h] ELSE worker[x]
      /\ Busy' = Busy \cup {w} /\ w \notin Busy
  BY <1>1 DEF Get, Settle, Inv, Typed, callVars, Busy
<1>4. \A u \in Tasks : /\ OneKey(u)' <=> OneKey(u)
                       /\ Created(u)' <=> Created(u)
                       /\ Enqueued(u)' <=> Enqueued(u)
                       /\ HasFinished(u)' <=> HasFinished(u)
                       /\ Says(u)' = Says(u)
                       /\ chain'[u] = chain[u] /\ late'[u] = late[u]
  BY <1>3 DEF traceVars, OneKey, Created, Enqueued, HasFinished, Finished, Attempted, Says, Recorded
<1>5. TraceTypeOK'
  BY <1>3 DEF TraceTypeOK, traceVars, TraceInv
<1>6. ASSUME NEW u \in Tasks
      PROVE  (TellsOf(u) /\ VerdictOf(u))'
  <2>1. TellsOf(u) /\ VerdictOf(u)
    BY DEF TraceInv
  <2>2. TellsOf(u)'
    BY <1>1, <1>3, <1>4, <2>1 DEF TellsOf
  <2>3. VerdictOf(u)'
    BY <1>2, <1>3, <1>4, <2>1 DEF VerdictOf
  <2> QED BY <2>2, <2>3
<1>7. ASSUME NEW x \in Busy'
      PROVE  (WorkerTells(x) /\ WorkerVerdict(x))'
  <2>1. CASE x = w
    <3>1. Enqueued(h)' /\ late'[h] = {} /\ Says(h)' \cap {"succeeded", "failed"} = {}
      BY <1>1, <1>2, <1>4 DEF TellsOf, VerdictOf
    <3>2. worker'[w].at = "start" /\ worker'[w].task = h
      BY <1>3
    <3> QED BY <2>1, <3>1, <3>2 DEF WorkerTells, WorkerVerdict
  <2>2. CASE x # w
    <3>1. x \in Busy /\ x \in Workers /\ worker'[x] = worker[x]
      BY <1>3, <1>7, <2>2 DEF Busy
    <3>2. PICK u \in Tasks : u = worker[x].task
      BY <3>1 DEF Inv, WorkersKnow
    <3> QED BY <1>4, <3>1, <3>2, OtherWorkerKeeps DEF TraceInv
  <2> QED BY <2>1, <2>2
<1> QED BY <1>5, <1>6, <1>7 DEF TraceInv

(* The steps of a worker that holds a task.                                *)
LEMMA WorkTaleOf ==
  ASSUME Inv, TraceInv, NEW w \in Busy, NEW t \in Tasks, t = worker[w].task,
         NEW stage \in WorkSays, log_event(t, <<stage>>) \/ AuditFails(t, stage, <<>>),
         stage = "failed" => worker[w].at = "outcome",
         stage = "succeeded" => worker'[w].at = "idle" /\ worker[w].at = "output",
         status'[t] = "succeeded" => HasFinished(t)' /\ late'[t] \subseteq {"skill"},
         worker'[w].at # "idle" => WorkerTells(w)'
  PROVE  WorkTale(w, t)
<1>1. OneKey(t) /\ TraceTypeOK
  BY DEF TraceInv, TellsOf
<1> QED BY <1>1, WorkerAudits DEF WorkTale

(* One more event at the end of a chain.                                   *)
OneMore(t, stage) ==
  /\ chain[t] \in Seq(Events) /\ chain'[t] \in Seq(Events)
  /\ Len(chain'[t]) = Len(chain[t]) + 1 /\ chain'[t][Len(chain[t]) + 1].stage = stage
  /\ \A i \in 1..Len(chain[t]) : chain'[t][i] = chain[t][i]

(* What a chain tells once a worker's audit is in it.                      *)
LEMMA LogTells ==
  ASSUME TraceTypeOK, NEW t \in Tasks, NEW stage \in WorkSays, log_event(t, <<stage>>)
  PROVE  OneMore(t, stage) /\ late' = late
<1> USE Constants
<1>1. stage \in Stages /\ <<stage>> \in Seq(Stages)
  BY DEF WorkSays
<1>2. Grows(t, <<stage>>) /\ UNCHANGED <<late, faults>>
  BY <1>1, LogGrows
<1>3. chain[t] \in Seq(Events) /\ chain'[t] \in Seq(Events)
  BY <1>2 DEF Grows, TraceTypeOK
<1>4. Len(<<stage>>) = 1 /\ <<stage>>[1] = stage /\ 1 \in 1..1
  OBVIOUS
<1> QED BY <1>2, <1>3, <1>4 DEF Grows, OneMore

LEMMA AttemptedGrows ==
  ASSUME NEW t \in Tasks, NEW stage, OneMore(t, stage)
  PROVE  /\ \A n \in Nat : Attempted(t, n) => Attempted(t, n)'
         /\ Attempted(t, Len(chain[t])) /\ stage \in {"retry", "skill"} => Attempted(t, Len(chain[t]))'
         /\ Enqueued(t) /\ stage = "started" => Attempted(t, Len(chain[t]))'
         /\ Attempted(t, Len(chain[t])) /\ stage = "completed" => HasCompleted(t)'
<1> USE DEF OneMore
<1>1. ASSUME NEW n \in Nat, Attempted(t, n)
      PROVE  Attempted(t, n)'
  <2>1. n >= 3 /\ Len(chain[t]) >= n /\ \A i \in 1..n : i \in 1..Len(chain[t])
    BY <1>1 DEF Attempted
  <2>2. \A i \in 1..n : chain'[t][i] = chain[t][i]
    BY <2>1
  <2> QED BY <1>1, <2>1, <2>2 DEF Attempted
<1>2. ASSUME Attempted(t, Len(chain[t])), stage \in {"retry", "skill"}
      PROVE  Attempted(t, Len(chain[t]))'
  <2>1. PICK n \in Nat : n = Len(chain[t])
    OBVIOUS
  <2>2. /\ Attempted(t, n) /\ n >= 3 /\ Len(chain'[t]) = n + 1 /\ chain'[t][n + 1].stage = stage
        /\ \A i \in 1..n : chain'[t][i] = chain[t][i]
    BY <1>2, <2>1 DEF Attempted
  <2>3. \A i \in 4..n : i \in 1..n /\ chain[t][i].stage \in {"retry", "skill"}
    BY <2>2 DEF Attempted
  <2>4. \A i \in 4..(n + 1) : i \in 4..n \/ i = n + 1
    OBVIOUS
  <2>5. \A i \in 4..(n + 1) : chain'[t][i].stage \in {"retry", "skill"}
    BY <1>2, <2>2, <2>3, <2>4
  <2>6. Attempted(t, n)'
    BY <1>1, <2>2
  <2> QED BY <2>2, <2>5, <2>6 DEF Attempted
<1>3. ASSUME Enqueued(t), stage = "started"
      PROVE  Attempted(t, Len(chain[t]))'
  <2>1. Len(chain'[t]) = 3 /\ chain'[t][1] = chain[t][1] /\ chain'[t][2] = chain[t][2] /\ chain'[t][3].stage = "started"
    BY <1>3 DEF Enqueued
  <2> QED BY <1>3, <2>1 DEF Enqueued, Attempted
<1>4. ASSUME Attempted(t, Len(chain[t])), stage = "completed"
      PROVE  HasCompleted(t)'
  <2>1. PICK c \in Nat : c = Len(chain[t]) + 1
    OBVIOUS
  <2>2. c - 1 = Len(chain[t]) /\ c \in 4..Len(chain'[t]) /\ c = Len(chain'[t])
    BY <1>4, <2>1 DEF Attempted
  <2>3. Attempted(t, c - 1)'
    BY <1>1, <1>4, <2>2
  <2>4. Completed(t, c)'
    BY <1>4, <2>1, <2>2, <2>3 DEF Completed
  <2> QED BY <2>4 DEF HasCompleted
<1> QED BY <1>1, <1>2, <1>3, <1>4

LEMMA CompletedGrows ==
  ASSUME NEW t \in Tasks, NEW stage, OneMore(t, stage), HasCompleted(t)
  PROVE  /\ stage = "skill" => HasCompleted(t)'
         /\ stage = "succeeded" => HasFinished(t)'
<1>1. PICK n \in Nat : n = Len(chain[t])
  BY DEF OneMore
<1>2. PICK c \in Nat : Completed(t, c)
  BY DEF HasCompleted
<1>3. /\ c \in 4..n /\ c - 1 \in Nat /\ Attempted(t, c - 1) /\ chain[t][c].stage = "completed"
      /\ \A i \in (c + 1)..n : chain[t][i].stage = "skill"
  BY <1>1, <1>2 DEF Completed
<1>4. Attempted(t, c - 1)'
  BY <1>3, AttemptedGrows
<1>5. /\ Len(chain'[t]) = n + 1 /\ chain'[t][n + 1].stage = stage
      /\ \A i \in 1..n : chain'[t][i] = chain[t][i]
  BY <1>1 DEF OneMore
<1>6. /\ chain'[t][c].stage = "completed"
      /\ \A i \in (c + 1)..(n + 1) : chain'[t][i].stage = IF i = n + 1 THEN stage ELSE "skill"
  <2>1. \A i \in (c + 1)..(n + 1) : i = n + 1 \/ i \in (c + 1)..n
    OBVIOUS
  <2> QED BY <1>3, <1>5, <2>1
<1>7. ASSUME stage = "skill"
      PROVE  HasCompleted(t)'
  <2>1. Completed(t, c)'
    BY <1>3, <1>4, <1>5, <1>6, <1>7 DEF Completed
  <2> QED BY <2>1 DEF HasCompleted
<1>8. ASSUME stage = "succeeded"
      PROVE  HasFinished(t)'
  <2>1. PICK s \in Nat : s = n + 1
    OBVIOUS
  <2>2. Finished(t, c, s)'
    BY <1>3, <1>4, <1>5, <1>6, <1>8, <2>1 DEF Finished
  <2> QED BY <2>2 DEF HasFinished
<1> QED BY <1>7, <1>8

LEMMA FinishedGrows ==
  ASSUME NEW t \in Tasks, OneMore(t, "skill"), HasFinished(t)
  PROVE  HasFinished(t)'
<1>1. PICK n \in Nat : n = Len(chain[t])
  BY DEF OneMore
<1>2. PICK c \in Nat, s \in Nat : Finished(t, c, s)
  BY DEF HasFinished
<1>3. /\ c \in 4..n /\ c - 1 \in Nat /\ Attempted(t, c - 1) /\ chain[t][c].stage = "completed"
      /\ s \in (c + 1)..n
      /\ \A i \in (c + 1)..n : chain[t][i].stage = IF i = s THEN "succeeded" ELSE "skill"
  BY <1>1, <1>2 DEF Finished
<1>4. Attempted(t, c - 1)'
  BY <1>3, AttemptedGrows
<1>5. /\ Len(chain'[t]) = n + 1 /\ chain'[t][n + 1].stage = "skill"
      /\ \A i \in 1..n : chain'[t][i] = chain[t][i]
  BY <1>1 DEF OneMore
<1>6. /\ chain'[t][c].stage = "completed" /\ s \in (c + 1)..(n + 1)
      /\ \A i \in (c + 1)..(n + 1) : chain'[t][i].stage = IF i = s THEN "succeeded" ELSE "skill"
  <2>1. \A i \in (c + 1)..(n + 1) : (i = n + 1 /\ i # s) \/ i \in (c + 1)..n
    BY <1>3
  <2> QED BY <1>3, <1>5, <2>1
<1>7. Finished(t, c, s)'
  BY <1>3, <1>4, <1>5, <1>6 DEF Finished
<1> QED BY <1>7 DEF HasFinished

(* A worker that holds t, and where a step may take it.                    *)
AtWork(w, t) ==
  /\ t = worker[w].task /\ w \in Workers /\ WorkerTells(w)
  /\ chain[t] \in Seq(Events) /\ status \in [Tasks -> {"absent", "evicted"} \cup Live \cup Outcomes]
  /\ IF worker[w].at = "outcome" THEN status[t] \in {"failed", "evicted"} ELSE status[t] = "running"
  /\ \A p : Work(w, p) => worker'[w].at = p /\ worker'[w].task = t
  /\ Done(w) => worker'[w].at = "idle"

LEMMA WorkerAt ==
  ASSUME Inv, TraceInv, NEW w \in Busy
  PROVE  \E t \in Tasks : AtWork(w, t)
<1>1. PICK t \in Tasks : t = worker[w].task
  BY DEF Inv, WorkersKnow
<1>2. w \in Workers /\ worker \in [Workers -> WorkRecords]
  BY DEF Busy, Inv, Typed
<1>3. \A p : Work(w, p) => worker'[w].at = p /\ worker'[w].task = t
  BY <1>1, <1>2 DEF Work, WorkRecords
<1>4. Done(w) => worker'[w].at = "idle"
  BY <1>2 DEF Done, Idle
<1>5. chain[t] \in Seq(Events) /\ status \in [Tasks -> {"absent", "evicted"} \cup Live \cup Outcomes]
  BY DispatcherAssumption DEF TraceInv, TraceTypeOK, Inv, Typed
<1> QED BY <1>1, <1>2, <1>3, <1>4, <1>5 DEF AtWork, TraceInv, Inv, WorkersKnow

LEMMA StartedTells ==
  ASSUME Inv, TraceInv, NEW w \in Busy, AuditStarted(w)
  PROVE  \E t \in Tasks : t = worker[w].task /\ WorkTale(w, t)
<1> USE DEF AtWork
<1>1. PICK t \in Tasks : AtWork(w, t)
  BY WorkerAt
<1>2. worker[w].at = "start" /\ Enqueued(t) /\ late[t] = {} /\ "started" \in WorkSays
  BY <1>1 DEF AuditStarted, WorkerTells, WorkSays
<1>3. CASE log_event(t, <<"started">>) /\ Invoke(w) /\ UNCHANGED status
  <2>1. worker'[w].at = "handler" /\ worker'[w].task = t
    BY <1>1, <1>3 DEF Invoke
  <2>2. Attempted(t, Len(chain[t]))' /\ late' = late
    BY <1>2, <1>3, LogTells, AttemptedGrows DEF TraceInv
  <2>3. WorkerTells(w)'
    BY <1>2, <2>1, <2>2 DEF WorkerTells
  <2> QED BY <1>1, <1>2, <1>3, <2>3, WorkTaleOf
<1>4. CASE AuditFails(t, "started", <<>>) /\ Settle(t, "failed") /\ Done(w)
  <2>1. worker'[w].at = "idle" /\ status'[t] = "failed"
    BY <1>1, <1>4 DEF Settle
  <2> QED BY <1>1, <1>2, <1>4, <2>1, WorkTaleOf
<1> QED BY <1>1, <1>3, <1>4 DEF AuditStarted

LEMMA SkillTells ==
  ASSUME Inv, TraceInv, NEW w \in Busy, HandlerAudits(w)
  PROVE  \E t \in Tasks : t = worker[w].task /\ WorkTale(w, t)
<1> USE DEF AtWork
<1>1. PICK t \in Tasks : AtWork(w, t)
  BY WorkerAt
<1>2. /\ worker[w].at = "handler" /\ Attempted(t, Len(chain[t])) /\ late[t] \subseteq {"skill"}
      /\ worker' = worker /\ status'[t] = "running" /\ log_event(t, <<"skill">>) /\ "skill" \in WorkSays
  BY <1>1 DEF HandlerAudits, WorkerTells, WorkSays
<1>3. Attempted(t, Len(chain[t]))' /\ late' = late
  BY <1>2, LogTells, AttemptedGrows DEF TraceInv
<1>4. WorkerTells(w)'
  BY <1>1, <1>2, <1>3 DEF WorkerTells
<1> QED BY <1>1, <1>2, <1>4, WorkTaleOf

LEMMA HandlerTells ==
  ASSUME Inv, TraceInv, NEW w \in Busy, HandlerReturns(w)
  PROVE  \E t \in Tasks : t = worker[w].task /\ WorkTale(w, t)
<1> USE DEF AtWork
<1>1. PICK t \in Tasks : AtWork(w, t)
  BY WorkerAt
<1>2. worker[w].at = "handler" /\ Attempted(t, Len(chain[t])) /\ late[t] \subseteq {"skill"} /\ TraceTypeOK
  BY <1>1 DEF HandlerReturns, WorkerTells, TraceInv
<1>3. PICK p \in {"complete", "retry", "outcome"} : Work(w, p)
  BY DEF HandlerReturns, Retries, GivesUp
<1>4. worker'[w].at = p /\ worker'[w].task = t
  BY <1>1, <1>3
<1>5. status'[t] # "succeeded"
  BY <1>1, <1>2 DEF HandlerReturns, Retries, GivesUp, Settle
<1>6. ASSUME Len(chain'[t]) = Len(chain[t]), \A i \in 1..Len(chain[t]) : chain'[t][i] = chain[t][i],
             late'[t] \subseteq {"skill"}
      PROVE  WorkerTells(w)'
  <2>1. Attempted(t, Len(chain[t]))'
    <3>1. PICK n \in Nat : n = Len(chain[t])
      BY <1>1
    <3>2. n >= 3 /\ \A i \in 1..n : chain'[t][i] = chain[t][i]
      BY <1>2, <1>6, <3>1 DEF Attempted
    <3> QED BY <1>2, <1>6, <3>1, <3>2 DEF Attempted
  <2> QED BY <1>3, <1>4, <1>6, <2>1 DEF WorkerTells
<1>7. CASE UNCHANGED traceVars
  <2>1. WorkerTells(w)'
    BY <1>2, <1>6, <1>7 DEF traceVars
  <2>2. TraceTypeOK' /\ OneKey(t)' /\ Says(t)' = Says(t) /\ chain' = chain /\ late' = late
    BY <1>7 DEF traceVars, TraceInv, TraceTypeOK, TellsOf, OneKey, Says, Recorded
  <2>3. WorkTale(w, t)
    BY <1>5, <2>1, <2>2 DEF WorkTale
  <2> QED BY <1>1, <2>3
<1>8. CASE log_event_late(t, "skill", <<>>)
  <2>1. AuditFails(t, "skill", <<>>) /\ "skill" \in WorkSays /\ "skill" \in Stages
    BY <1>8, Constants DEF AuditFails, WorkSays
  <2>2. Grows(t, <<>>) /\ Left(t, "skill")
    BY <1>2, <2>1, StageSeqs, FailsGrows
  <2>3. WorkerTells(w)'
    <3>1. Len(<<>>) = 0
      OBVIOUS
    <3>2. Len(chain'[t]) = Len(chain[t]) /\ \A i \in 1..Len(chain[t]) : chain'[t][i] = chain[t][i]
      BY <1>1, <2>2, <3>1 DEF Grows
    <3> QED BY <1>2, <1>6, <2>2, <3>2 DEF Left
  <2> QED BY <1>1, <1>5, <2>1, <2>3, WorkTaleOf
<1> QED BY <1>1, <1>7, <1>8 DEF HandlerReturns

LEMMA RetryTells ==
  ASSUME Inv, TraceInv, NEW w \in Busy, AuditRetry(w)
  PROVE  \E t \in Tasks : t = worker[w].task /\ WorkTale(w, t)
<1> USE DEF AtWork
<1>1. PICK t \in Tasks : AtWork(w, t)
  BY WorkerAt
<1>2. worker[w].at = "retry" /\ Attempted(t, Len(chain[t])) /\ late[t] \subseteq {"skill"} /\ "retry" \in WorkSays
  BY <1>1 DEF AuditRetry, WorkerTells, WorkSays
<1>3. CASE log_event(t, <<"retry">>) /\ Invoke(w) /\ UNCHANGED status
  <2>1. worker'[w].at = "handler" /\ worker'[w].task = t
    BY <1>1, <1>3 DEF Invoke
  <2>2. Attempted(t, Len(chain[t]))' /\ late' = late
    BY <1>2, <1>3, LogTells, AttemptedGrows DEF TraceInv
  <2>3. WorkerTells(w)'
    BY <1>2, <2>1, <2>2 DEF WorkerTells
  <2> QED BY <1>1, <1>2, <1>3, <2>3, WorkTaleOf
<1>4. CASE AuditFails(t, "retry", <<>>) /\ Settle(t, "failed") /\ Work(w, "outcome")
  <2>1. worker'[w].at = "outcome" /\ status'[t] = "failed"
    BY <1>1, <1>4 DEF Settle
  <2>2. WorkerTells(w)'
    BY <2>1 DEF WorkerTells
  <2> QED BY <1>1, <1>2, <1>4, <2>1, <2>2, WorkTaleOf
<1> QED BY <1>1, <1>3, <1>4 DEF AuditRetry

LEMMA CompletedTells ==
  ASSUME Inv, TraceInv, NEW w \in Busy, AuditCompleted(w)
  PROVE  \E t \in Tasks : t = worker[w].task /\ WorkTale(w, t)
<1> USE DEF AtWork
<1>1. PICK t \in Tasks : AtWork(w, t)
  BY WorkerAt
<1>2. /\ worker[w].at = "complete" /\ Attempted(t, Len(chain[t])) /\ late[t] \subseteq {"skill"}
      /\ "completed" \in WorkSays
  BY <1>1 DEF AuditCompleted, WorkerTells, WorkSays
<1>3. CASE log_event(t, <<"completed">>) /\ Work(w, "output") /\ UNCHANGED status
  <2>1. worker'[w].at = "output" /\ worker'[w].task = t
    BY <1>1, <1>3
  <2>2. HasCompleted(t)' /\ late' = late
    BY <1>2, <1>3, LogTells, AttemptedGrows DEF TraceInv
  <2>3. WorkerTells(w)'
    BY <1>2, <2>1, <2>2 DEF WorkerTells
  <2> QED BY <1>1, <1>2, <1>3, <2>3, WorkTaleOf
<1>4. CASE AuditFails(t, "completed", <<>>) /\ Settle(t, "failed") /\ Done(w)
  <2>1. worker'[w].at = "idle" /\ status'[t] = "failed"
    BY <1>1, <1>4 DEF Settle
  <2> QED BY <1>1, <1>2, <1>4, <2>1, WorkTaleOf
<1> QED BY <1>1, <1>3, <1>4 DEF AuditCompleted

LEMMA OutputTells ==
  ASSUME Inv, TraceInv, NEW w \in Busy, AuditOutput(w)
  PROVE  \E t \in Tasks : t = worker[w].task /\ WorkTale(w, t)
<1> USE DEF AtWork
<1>1. PICK t \in Tasks : AtWork(w, t)
  BY WorkerAt
<1>3. /\ worker[w].at = "output" /\ HasCompleted(t) /\ late[t] \subseteq {"skill"} /\ "succeeded" \in WorkSays
  BY <1>1 DEF AuditOutput, WorkerTells, WorkSays
<1>4. worker'[w].at = "idle"
  BY <1>1 DEF AuditOutput
<1>5. CASE log_event(t, <<"succeeded">>)
  <2>1. HasFinished(t)' /\ late' = late
    BY <1>3, <1>5, LogTells, CompletedGrows DEF TraceInv
  <2> QED BY <1>1, <1>3, <1>4, <1>5, <2>1, WorkTaleOf
<1>6. CASE AuditFails(t, "succeeded", <<>>) /\ Settle(t, "failed")
  <2>1. status'[t] = "failed"
    BY <1>1, <1>6 DEF Settle
  <2> QED BY <1>1, <1>3, <1>4, <1>6, <2>1, WorkTaleOf
<1> QED BY <1>1, <1>5, <1>6 DEF AuditOutput

LEMMA FailureTells ==
  ASSUME Inv, TraceInv, NEW w \in Busy, AuditFailure(w)
  PROVE  \E t \in Tasks : t = worker[w].task /\ WorkTale(w, t)
<1> USE DEF AtWork
<1>1. PICK t \in Tasks : AtWork(w, t)
  BY WorkerAt
<1>2. worker[w].at = "outcome" /\ worker'[w].at = "idle" /\ status' = status /\ "failed" \in WorkSays
  BY <1>1 DEF AuditFailure, WorkSays
<1>3. log_event(t, <<"failed">>) \/ AuditFails(t, "failed", <<>>)
  BY <1>1 DEF AuditFailure
<1> QED BY <1>1, <1>2, <1>3, WorkTaleOf

LEMMA WorkerKeepsTraces ==
  ASSUME Inv, Inv', TraceInv, NEW w \in Workers, WorkerStep(w), UNCHANGED max_records
  PROVE  TraceInv'
<1>1. CASE Get(w)
  BY <1>1, GetKeepsTraces
<1>2. CASE ~Get(w)
  <2>1. w \in Busy
    BY <1>2 DEF WorkerStep, AuditStarted, HandlerAudits, HandlerReturns, AuditRetry, AuditCompleted,
                AuditOutput, AuditFailure, Busy
  <2>2. WorkMove(w) \/ DoneMove(w) \/ (HandlerAudits(w) /\ UNCHANGED dispatcherVars)
    BY <2>1, WorkerMoves DEF Busy, GetMove
  <2>3. \E t \in Tasks : t = worker[w].task /\ WorkTale(w, t)
    BY <1>2, <2>1, StartedTells, SkillTells, HandlerTells, RetryTells, CompletedTells, OutputTells, FailureTells
       DEF WorkerStep
  <2> QED BY <2>1, <2>2, <2>3, WorkTaleKeeps
<1> QED BY <1>1, <1>2

-----------------------------------------------------------------------------
(* Server and threads.                                                     *)

LEMMA CancelKeepsTraces ==
  ASSUME Inv, TraceInv, CancelWorkers, status' = status, call' = call, queue' = queue
  PROVE  TraceInv'
<1> USE Constants
<1>1. Busy' = {}
  BY DEF CancelWorkers, Busy, Idle
<1>2. PICK cut \in SUBSET Busy :
        late' = [r \in Traces |-> late[r] \cup {StageAt(worker[w].at) : w \in {x \in cut : worker[x].task = r}}]
  BY DEF CancelWorkers
<1>3. \A w \in cut : /\ w \in Busy /\ w \in Workers /\ worker[w].at \in WorkPoints \ {"idle"}
                     /\ worker[w].task \in Tasks
  BY DEF Busy, Inv, Typed, WorkRecords, WorkersKnow
<1>4. \A p \in WorkPoints \ {"idle"} :
        /\ StageAt(p) \in WorkSays
        /\ StageAt(p) = "succeeded" => p = "output"
        /\ StageAt(p) = "failed" => p = "outcome"
  BY DEF StageAt, WorkPoints, WorkSays
<1>5. /\ chain' = chain /\ keyfile' = keyfile /\ faults' = faults
      /\ late \in [Tasks -> SUBSET Stages]
  BY DEF CancelWorkers, TraceInv, TraceTypeOK
<1>6. TraceTypeOK'
  <2>1. \A w \in cut : StageAt(worker[w].at) \in Stages
    BY <1>3, <1>4 DEF WorkSays
  <2>2. late' \in [Tasks -> SUBSET Stages]
    BY <1>2, <1>5, <2>1
  <2> QED BY <1>5, <2>2 DEF TraceTypeOK, TraceInv
<1>7. ASSUME NEW u \in Tasks
      PROVE  (TellsOf(u) /\ VerdictOf(u))'
  <2>1. /\ OneKey(u)' <=> OneKey(u)
        /\ Created(u)' <=> Created(u)
        /\ Enqueued(u)' <=> Enqueued(u)
        /\ HasFinished(u)' <=> HasFinished(u)
        /\ Recorded(u)' = Recorded(u)
        /\ chain'[u] = chain[u] /\ (Queued(u)' <=> Queued(u))
    BY <1>5 DEF OneKey, Created, Enqueued, HasFinished, Finished, Attempted, Recorded, Queued
  <2>2. late'[u] = late[u] \cup {StageAt(worker[w].at) : w \in {x \in cut : worker[x].task = u}}
    BY <1>2
  <2>3. CASE \A x \in cut : worker[x].task # u
    <3>1. late'[u] = late[u]
      BY <2>2, <2>3
    <3> QED BY <2>1, <3>1 DEF TraceInv, TellsOf, VerdictOf, Says
  <2>4. ASSUME NEW w \in cut, worker[w].task = u
        PROVE  (TellsOf(u) /\ VerdictOf(u))'
    <3>1. \A x \in cut : worker[x].task = u => x = w
      BY <1>3, <2>4 DEF Inv, HeldOnce
    <3>2. late'[u] \subseteq late[u] \cup {StageAt(worker[w].at)}
      BY <2>2, <2>4, <3>1
    <3>3. /\ IF worker[w].at = "outcome" THEN status[u] \in {"failed", "evicted"} ELSE status[u] = "running"
          /\ WorkerVerdict(w)
      BY <1>3, <2>4 DEF Inv, WorkersKnow, TraceInv
    <3>4. call[u] \notin {"idle", "audit", "put"} /\ ~Queued(u)
      BY <3>3, QueuedStatus DEF Inv, CallsKnow
    <3>5. TellsOf(u)'
      BY <2>1, <3>3, <3>4 DEF TellsOf, TraceInv
    <3>6. Says(u)' \subseteq Says(u) \cup {StageAt(worker[w].at)}
      BY <2>1, <3>2 DEF Says
    <3>7. ~({"succeeded", "failed"} \subseteq Says(u)')
      BY <1>3, <1>4, <2>4, <3>3, <3>6 DEF WorkerVerdict
    <3>8. "rejected" \in Says(u)' => "rejected" \in Says(u)
      BY <1>3, <1>4, <3>6 DEF WorkSays
    <3>9. VerdictOf(u)'
      BY <3>3, <3>7, <3>8 DEF VerdictOf, TraceInv
    <3> QED BY <3>5, <3>9
  <2> QED BY <2>3, <2>4
<1> QED BY <1>1, <1>6, <1>7 DEF TraceInv

(* Traces are only read.                                                   *)
LEMMA SameKeepsTraces ==
  ASSUME TraceInv, chain' = chain, late' = late, faults' = faults, keyfile' \in Keys,
         UNCHANGED <<status, call, queue, worker>>
  PROVE  TraceInv'
<1>1. TraceTypeOK' /\ Busy' = Busy
  BY DEF TraceTypeOK, TraceInv, Busy
<1>2. \A u : /\ OneKey(u)' <=> OneKey(u)
             /\ Created(u)' <=> Created(u)
             /\ Enqueued(u)' <=> Enqueued(u)
             /\ HasFinished(u)' <=> HasFinished(u)
             /\ HasCompleted(u)' <=> HasCompleted(u)
             /\ Attempted(u, Len(chain[u]))' <=> Attempted(u, Len(chain[u]))
             /\ Says(u)' = Says(u)
             /\ Queued(u)' <=> Queued(u)
  BY DEF OneKey, Created, Enqueued, HasFinished, Finished, HasCompleted, Completed, Attempted, Says,
         Recorded, Queued
<1>3. \A u \in Tasks : (TellsOf(u) /\ VerdictOf(u))'
  BY <1>2 DEF TraceInv, TellsOf, VerdictOf
<1>4. \A w \in Busy : (WorkerTells(w) /\ WorkerVerdict(w))'
  BY <1>2 DEF TraceInv, WorkerTells, WorkerVerdict
<1> QED BY <1>1, <1>3, <1>4 DEF TraceInv

LEMMA LateKeepsTraces ==
  ASSUME Inv, Inv', TraceInv, NEW r \in Tasks, LateAppend(r), UNCHANGED dispatcherVars
  PROVE  TraceInv'
<1> USE Constants
<1>1. PICK stage \in late[r] :
        /\ appends(r, <<stage>>)
        /\ late' = [late EXCEPT ![r] = @ \ {stage}] /\ UNCHANGED faults
  BY DEF LateAppend
<1>2. late \in [Tasks -> SUBSET Stages] /\ TraceTypeOK /\ stage \in Stages
  BY DEF TraceInv, TraceTypeOK
<1>3. <<stage>> \in Seq(Stages)
  BY <1>2
<1>4. Grows(r, <<stage>>) /\ keyfile' \in Keys
  BY <1>1, <1>2, <1>3, AppendGrows
<1>5. late' \in [Tasks -> SUBSET Stages] /\ late'[r] = late[r] \ {stage} /\ \A u \in Tasks \ {r} : late'[u] = late[u]
  BY <1>1, <1>2
<1>6. Says(r)' \subseteq Says(r)
  <2>1. \A x \in Recorded(r)' : x \in Recorded(r) \/ \E i \in 1..Len(<<stage>>) : x = <<stage>>[i]
    BY <1>2, <1>3, <1>4, GrowsSays, Zenon
  <2>2. \A x \in Recorded(r)' : x \in Recorded(r) \/ x = stage
    BY <2>1
  <2> QED BY <1>1, <1>5, <2>2 DEF Says
<1>7. TraceTypeOK'
  BY <1>1, <1>2, <1>4, <1>5 DEF TraceTypeOK, Grows
<1>8. Others(r)
  BY <1>4, <1>5 DEF Others, Grows, dispatcherVars, Queued
<1>9. OneMore(r, stage)
  <2>1. chain[r] \in Seq(Events) /\ Len(<<stage>>) = 1 /\ <<stage>>[1] = stage /\ 1 \in 1..1
    BY <1>2 DEF TraceTypeOK
  <2> QED BY <1>4, <2>1 DEF Grows, OneMore
<1>10. TellsOf(r)'
  <2>1. TellsOf(r) /\ status' = status /\ call' = call /\ (Queued(r)' <=> Queued(r)) /\ OneKey(r)'
    BY <1>4 DEF TraceInv, TellsOf, Grows, dispatcherVars, Queued
  <2>2. ASSUME status[r] = "succeeded"
        PROVE  HasFinished(r)' /\ late'[r] \subseteq {"skill"}
    <3>1. HasFinished(r) /\ late[r] \subseteq {"skill"} /\ stage = "skill"
      BY <1>1, <2>1, <2>2 DEF TellsOf
    <3> QED BY <1>5, <1>9, <3>1, FinishedGrows
  <2> QED BY <1>1, <2>1, <2>2 DEF TellsOf
<1>11. VerdictOf(r)'
  BY <1>6 DEF VerdictOf, TraceInv, dispatcherVars
<1>12. ASSUME NEW w \in Busy
       PROVE  (WorkerTells(w) /\ WorkerVerdict(w))'
  <2>1. PICK u \in Tasks : u = worker[w].task
    BY DEF Inv, WorkersKnow
  <2>2. w \in Workers /\ worker' = worker /\ WorkerTells(w) /\ WorkerVerdict(w)
    BY DEF Busy, TraceInv, dispatcherVars
  <2>3. CASE u = r
    <3>1. CASE worker[w].at = "outcome"
      BY <1>6, <2>1, <2>2, <2>3, <3>1 DEF WorkerTells, WorkerVerdict
    <3>2. CASE worker[w].at # "outcome"
      <4>1. stage = "skill" /\ late'[r] \subseteq {"skill"} /\ worker[w].at # "start"
        BY <1>1, <1>5, <2>1, <2>2, <2>3, <3>2 DEF WorkerTells
      <4>2. /\ Attempted(r, Len(chain[r])) => Attempted(r, Len(chain[r]))'
            /\ HasCompleted(r) => HasCompleted(r)'
        BY <1>9, <4>1, AttemptedGrows, CompletedGrows
      <4>3. WorkerTells(w)'
        BY <2>1, <2>2, <2>3, <3>2, <4>1, <4>2 DEF WorkerTells
      <4>4. WorkerVerdict(w)'
        BY <1>6, <2>1, <2>2, <2>3 DEF WorkerVerdict
      <4> QED BY <4>3, <4>4
    <3> QED BY <3>1, <3>2
  <2>4. CASE u # r
    BY <1>8, <2>1, <2>2, <2>4, OtherWorkerKeeps DEF Others
  <2> QED BY <2>3, <2>4
<1>13. Busy' = Busy
  BY DEF Busy, dispatcherVars
<1>14. \A u \in Tasks : (TellsOf(u) /\ VerdictOf(u))'
  BY <1>8, <1>11, <1>10, OthersKeep DEF TraceInv
<1> QED BY <1>7, <1>12, <1>13, <1>14 DEF TraceInv

LEMMA TraceInvInit ==
  ASSUME Init
  PROVE  TraceInv
<1> USE Constants
<1>1. TraceTypeOK
  BY AuditAssumption DEF Init, TraceInit, TraceTypeOK, Keys
<1>2. Busy = {} /\ \A t \in Tasks : chain[t] = <<>> /\ late[t] = {} /\ status[t] = "absent" /\ call[t] = "idle" /\ ~Queued(t)
  BY DEF Init, TraceInit, Busy, Idle, Queued, ToSet
<1>3. \A t \in Tasks : OneKey(t) /\ Says(t) = {}
  BY <1>2 DEF OneKey, Says, Recorded
<1> QED BY <1>1, <1>2, <1>3 DEF TraceInv, TellsOf, VerdictOf

LEMMA TraceInvNext ==
  ASSUME Inv, Inv', TraceInv, [Next]_vars
  PROVE  TraceInv'
<1> USE Constants
<1>1. CASE UNCHANGED vars
  <2>1. UNCHANGED <<chain, late, faults, keyfile, status, call, queue, worker>> /\ keyfile \in Keys
    BY <1>1 DEF vars, traceVars, dispatcherVars, TraceInv, TraceTypeOK
  <2> QED BY <2>1, SameKeepsTraces
<1>2. CASE ThreadStep
  <2>1. CASE WriteKey
    <3>1. UNCHANGED <<chain, late, faults, status, call, queue, worker>> /\ keyfile' \in Keys
      BY <1>2, <2>1 DEF ThreadStep, WriteKey, dispatcherVars, Keys
    <3> QED BY <3>1, SameKeepsTraces
  <2>2. ASSUME NEW r \in Tasks, LateAppend(r)
        PROVE  TraceInv'
    BY <1>2, <2>2, LateKeepsTraces DEF ThreadStep
  <2> QED BY <1>2, <2>1, <2>2 DEF ThreadStep
<1>3. ASSUME NEW t \in Tasks, SubmitStep(t)
      PROVE  TraceInv'
  BY <1>3, SubmitKeepsTraces
<1>4. ASSUME NEW w \in Workers, WorkerStep(w), UNCHANGED max_records
      PROVE  TraceInv'
  BY <1>4, WorkerKeepsTraces
<1>5. CASE ServerStep
  <2>1. CASE StopDraining \/ Stopped \/ Start
    <3>1. UNCHANGED <<chain, late, faults, keyfile, status, call, queue, worker>> /\ keyfile \in Keys
      BY <2>1 DEF StopDraining, Stopped, Start, traceVars, storeVars, queueVars, TraceInv, TraceTypeOK
    <3> QED BY <3>1, SameKeepsTraces
  <2>2. CASE Drained \/ StopAtOnce
    <3>1. CancelWorkers /\ status' = status /\ call' = call /\ queue' = queue
      BY <2>2 DEF Drained, StopAtOnce, storeVars
    <3> QED BY <3>1, CancelKeepsTraces
  <2> QED BY <1>5, <2>1, <2>2 DEF ServerStep
<1> QED BY <1>1, <1>2, <1>3, <1>4, <1>5 DEF Next, LoopStep

LEMMA TraceInvAlways == Spec => [](Inv /\ TraceInv)
<1>1. Init => TraceInv
  BY TraceInvInit
<1>2. Inv /\ Inv' /\ TraceInv /\ [Next]_vars => TraceInv'
  BY TraceInvNext
<1> QED BY <1>1, <1>2, InvAlways, PTL DEF Spec

-----------------------------------------------------------------------------
(* Records, queue, workers, calls and traces stay well formed.             *)
THEOREM DispatchTypeCorrect == Spec => []TypeOK
<1>1. Inv /\ TraceInv => TypeOK
  <2> SUFFICES ASSUME Inv, TraceInv PROVE TypeOK
    OBVIOUS
  <2>1. unfinished \in Nat
    BY BusyFinite DEF Inv, JoinCounts, Typed
  <2> QED BY <2>1 DEF Inv, Typed, TypeOK, TraceInv
<1> QED BY <1>1, TraceInvAlways, PTL

(* A task recorded as succeeded has its four stages in its chain, in order,*)
(* with nothing else but retries before the completion and what its        *)
(* handler's skill has logged, early or late; and nothing was ever         *)
(* appended to a chain that did not verify.                                *)
THEOREM SuccessHasEvidence == Spec => []EvidenceOfSuccess
<1>1. ASSUME Inv, TraceInv, NEW t \in Tasks, status[t] = "succeeded", NEW told, told = StagesOf(t), NEW n, n = Len(told)
      PROVE  /\ OneKey(t) /\ n >= 5
             /\ told[1] = "created" /\ told[2] = "queued" /\ told[3] = "started"
             /\ \E c, s \in 4..n :
                  /\ c < s /\ told[c] = "completed" /\ told[s] = "succeeded"
                  /\ \A i \in (4..n) \ {c, s} : told[i] = "skill" \/ (told[i] = "retry" /\ i < c)
  <2>1. chain[t] \in Seq(Events) /\ OneKey(t) /\ HasFinished(t)
    BY <1>1, DispatcherAssumption DEF TraceInv, TraceTypeOK, TellsOf
  <2>2. PICK m \in Nat : m = Len(chain[t])
    BY <2>1
  <2>3. PICK c \in Nat, s \in Nat : Finished(t, c, s)
    BY <2>1 DEF HasFinished
  <2>4. /\ c \in 4..m /\ Attempted(t, c - 1) /\ chain[t][c].stage = "completed" /\ s \in (c + 1)..m
        /\ \A i \in (c + 1)..m : chain[t][i].stage = IF i = s THEN "succeeded" ELSE "skill"
    BY <2>2, <2>3 DEF Finished
  <2>5. told = [i \in 1..m |-> chain[t][i].stage]
    BY <1>1, <2>1, <2>2 DEF StagesOf
  <2>6. n = m /\ m >= 5 /\ c \in 4..m /\ s \in 4..m /\ c < s
    BY <1>1, <2>4, <2>5
  <2>7. \A i \in 1..m : told[i] = chain[t][i].stage
    BY <2>5
  <2>8. told[1] = "created" /\ told[2] = "queued" /\ told[3] = "started"
    BY <2>4, <2>6, <2>7 DEF Attempted
  <2>9. told[c] = "completed" /\ told[s] = "succeeded"
    BY <2>4, <2>6, <2>7
  <2>10. ASSUME NEW i \in (4..m) \ {c, s}
         PROVE  told[i] = "skill" \/ (told[i] = "retry" /\ i < c)
    <3>1. told[i] = chain[t][i].stage
      BY <2>7
    <3>2. CASE i < c
      <4>1. i \in 4..(c - 1)
        BY <2>6, <3>2
      <4> QED BY <2>4, <3>1, <3>2, <4>1 DEF Attempted
    <3>3. CASE i > c
      <4>1. i \in (c + 1)..m /\ i # s
        BY <2>6, <3>3
      <4> QED BY <2>4, <3>1, <4>1
    <3> QED BY <2>6, <3>2, <3>3
  <2> QED BY <2>1, <2>6, <2>8, <2>9, <2>10
<1>2. Inv /\ TraceInv => EvidenceOfSuccess
  BY <1>1 DEF EvidenceOfSuccess
<1> QED BY <1>2, TraceInvAlways, PTL

(* No trace tells two outcomes of its task, but for the rejection a submit *)
(* call adds after its record was evicted.                                 *)
THEOREM NoTwoVerdicts == Spec => []OneVerdict
<1>1. Inv /\ TraceInv => OneVerdict
  <2> SUFFICES ASSUME Inv, TraceInv, NEW t \in Tasks
               PROVE  /\ ~({"succeeded", "failed"} \subseteq Recorded(t))
                      /\ "rejected" \in Recorded(t) /\ Recorded(t) \cap {"succeeded", "failed"} # {} =>
                           status[t] = "evicted"
    BY DEF OneVerdict
  <2>1. VerdictOf(t) /\ status[t] \in {"absent", "evicted"} \cup Live \cup Outcomes
    BY DEF TraceInv, Inv, Typed
  <2> QED BY <2>1 DEF VerdictOf, Says, Live, Outcomes
<1> QED BY <1>1, TraceInvAlways, PTL
=============================================================================
