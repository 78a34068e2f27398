------------------------- MODULE TaskDispatcherProofs -------------------------
(***************************************************************************)
(* Proofs about TaskDispatcher, for every instance: its records, queue,    *)
(* workers and calls.  The traces are the subject of DispatcherTraceProofs.*)
(*                                                                         *)
(* Every step is one of a few moves (Moves), and Inv, the conjunction of   *)
(* what the runs check with what a submit call and a worker know of their  *)
(* task across an await, is kept by each (the lemmas ...MoveKeeps).        *)
(***************************************************************************)
EXTENDS TaskDispatcher, FiniteSetTheorems, SequenceTheorems, TLAPS

(* TypeOK but for the traces and the count of unfinished items.             *)
Typed ==
  /\ max_records \in RecordLimits
  /\ status \in [Tasks -> {"absent", "evicted"} \cup Live \cup Outcomes]
  /\ attempts \in [Tasks -> Nat]
  /\ index \in [IdemKeys -> Tasks \cup {None}]
  /\ queue \in Seq(Tasks)
  /\ worker \in [Workers -> WorkRecords]
  /\ call \in [Tasks -> CallPoints]
  /\ found \in [Tasks -> Tasks \cup {None}]
  /\ server \in [phase: Phases, drain: BOOLEAN, joined: BOOLEAN, stops: Nat]
  /\ pending \in SUBSET Tasks

(* What a submit call knows of its task.                                   *)
CallsKnow ==
  \A t \in Tasks :
    /\ call[t] \in {"idle", "replay"} => status[t] = "absent"
    /\ call[t] \in {"audit", "put"} => status[t] = "queued" /\ ~Queued(t)
    /\ call[t] = "refuse" => status[t] \in {"rejected", "evicted"}
    /\ status[t] \in {"absent", "queued", "rejected"} => attempts[t] = 0

(* What a worker knows of its task.                                        *)
WorkersKnow ==
  \A w \in Busy :
    LET t == worker[w].task
    IN  /\ t \in Tasks
        /\ IF worker[w].at = "outcome" THEN status[t] \in {"failed", "evicted"} ELSE status[t] = "running"
        /\ worker[w].at = "start" => attempts[t] = 0
        /\ worker[w].at = "retry" => attempts[t] > 0 /\ attempts[t] < MaxAttempts[t]
        /\ worker[w].at \in {"handler", "complete", "output"} =>
             attempts[t] > 0 /\ attempts[t] <= MaxAttempts[t]

QuietWhenDown == server.phase \in {"gather", "down"} => Busy = {}

LiveTasks == {t \in Tasks : status[t] \in Live}
Draining ==
  /\ server.phase = "drain" => \A t \in LiveTasks \ pending : Queued(t) \/ Held(t)
  /\ server.phase = "drain" /\ server.joined => LiveTasks \subseteq pending
  /\ server.phase \in {"gather", "down"} /\ server.drain => LiveTasks \subseteq pending

Inv == Typed /\ JoinCounts /\ HeldOnce /\ KeyIndex /\ CallsKnow /\ WorkersKnow /\ QuietWhenDown /\ Draining

-----------------------------------------------------------------------------
(* The moves of submit calls, workers and server, without their traces.    *)

storeSame == UNCHANGED <<max_records, status, attempts, index>>
queueSame == UNCHANGED <<queue, unfinished>>
workSame  == UNCHANGED <<worker, server, pending>>

CallMove(t, to) ==
  /\ \/ call[t] = "idle" /\ to \in {"done", "replay"}
     \/ call[t] \in {"replay", "return", "refuse"} /\ to = "done"
     \/ call[t] = "audit" /\ to = "put"
  /\ call' = [call EXCEPT ![t] = to]
  /\ found' \in [Tasks -> Tasks \cup {None}]
  /\ storeSame /\ queueSame /\ workSame

RecordMove(t, gone) ==
  /\ call[t] = "idle" /\ server.phase = "up" /\ Replayed(t) = None
  /\ gone \subseteq Tasks /\ \A old \in gone : status[old] \in Outcomes
  /\ Insert(t, gone)
  /\ call' = [call EXCEPT ![t] = "audit"]
  /\ UNCHANGED <<max_records, attempts, found>> /\ queueSame /\ workSame

PutMove(t, to) ==
  /\ call[t] \in {"audit", "put"} /\ to \in {"done", "return"}
  /\ Put(t)
  /\ call' = [call EXCEPT ![t] = to]
  /\ storeSame /\ workSame /\ UNCHANGED found

RefuseMove(t, to) ==
  /\ call[t] \in {"audit", "put"} /\ to \in {"done", "refuse"}
  /\ Settle(t, "rejected")
  /\ call' = [call EXCEPT ![t] = to]
  /\ UNCHANGED <<max_records, attempts, index, found>> /\ queueSame /\ workSame

GetMove(w) ==
  /\ worker[w].at = "idle" /\ server.phase \in {"up", "drain"} /\ queue # <<>>
  /\ worker' = [worker EXCEPT ![w] = [at |-> "start", task |-> Head(queue)]]
  /\ Settle(Head(queue), "running")
  /\ attempts' = [attempts EXCEPT ![Head(queue)] = 0]
  /\ queue' = Tail(queue)
  /\ UNCHANGED <<max_records, index, unfinished, call, found, server, pending>>

(* A worker goes on with its task, fails it, or calls the handler.         *)
WorkMove(w) ==
  LET t == worker[w].task IN
  /\ \/ /\ worker[w].at \in {"start", "retry"} /\ Invoke(w) /\ UNCHANGED status
     \/ /\ worker[w].at = "handler" /\ Work(w, "complete") /\ UNCHANGED <<status, attempts>>
     \/ /\ worker[w].at = "handler" /\ attempts[t] < MaxAttempts[t]
        /\ Work(w, "retry") /\ UNCHANGED <<status, attempts>>
     \/ /\ worker[w].at = "complete" /\ Work(w, "output") /\ UNCHANGED <<status, attempts>>
     \/ /\ worker[w].at \in {"handler", "retry"}
        /\ Settle(t, "failed") /\ Work(w, "outcome") /\ UNCHANGED attempts
  /\ UNCHANGED <<max_records, index, call, found, server, pending>> /\ queueSame

DoneMove(w) ==
  LET t == worker[w].task IN
  /\ \/ worker[w].at \in {"start", "complete", "output"} /\ Settle(t, "failed")
     \/ worker[w].at = "output" /\ Settle(t, "succeeded")
     \/ worker[w].at = "outcome" /\ UNCHANGED status
  /\ Done(w)
  /\ UNCHANGED <<max_records, attempts, index, queue, call, found, pending>>

CancelMove ==
  /\ \/ server.phase = "drain" /\ server.joined /\ UNCHANGED pending
        /\ server' = [server EXCEPT !.phase = "gather", !.joined = FALSE]
     \/ /\ server.phase = "up" /\ pending' = {}
        /\ server' = [phase |-> "gather", drain |-> FALSE, joined |-> FALSE, stops |-> server.stops + 1]
  /\ worker' = [w \in Workers |-> Idle]
  /\ unfinished' = unfinished - Cardinality(Busy)
  /\ UNCHANGED <<queue, call, found>> /\ storeSame

ServerMove ==
  /\ \/ StopDraining \/ Stopped \/ Start
  /\ UNCHANGED max_records

Move ==
  \/ \E t \in Tasks :
       \/ \E to \in CallPoints : CallMove(t, to) \/ PutMove(t, to) \/ RefuseMove(t, to)
       \/ \E gone \in SUBSET Tasks : RecordMove(t, gone)
  \/ \E w \in Workers : GetMove(w) \/ WorkMove(w) \/ DoneMove(w)
  \/ CancelMove \/ ServerMove
  \/ UNCHANGED dispatcherVars

LEMMA SubmitMoves ==
  ASSUME Typed, NEW t \in Tasks, SubmitStep(t), UNCHANGED max_records
  PROVE  Move
<1> USE DEF storeSame, queueSame, workSame, CallPoints, Typed
<1> SUFFICES ASSUME ~Move PROVE FALSE
  OBVIOUS
<1>1. CASE Submit(t)
  <2>1. CASE server.phase = "up" /\ Replayed(t) = None /\ Record(t) /\ UNCHANGED found
    <3>1. \A gone \in SUBSET Tasks : ~RecordMove(t, gone)
      BY DEF Move
    <3>2. CASE Insert(t, {}) /\ Goto(t, "audit")
      BY <1>1, <2>1, <3>1, <3>2 DEF Submit, RecordMove, Goto, queueVars
    <3>3. ASSUME NEW old \in Tasks, status[old] \in Outcomes, Insert(t, {old}), Goto(t, "audit")
          PROVE  FALSE
      BY <1>1, <2>1, <3>1, <3>3 DEF Submit, RecordMove, Goto, queueVars
    <3>4. CASE Goto(t, "done") /\ UNCHANGED <<status, index>>
      BY <1>1, <2>1, <3>4 DEF Submit, CallMove, Goto, Move, queueVars
    <3> QED BY <2>1, <3>2, <3>3, <3>4 DEF Record
  <2>2. CASE Goto(t, "done") /\ UNCHANGED <<status, index, found>>
    BY <1>1, <2>2 DEF Submit, CallMove, Goto, Move, queueVars
  <2>3. CASE Goto(t, "replay") /\ UNCHANGED <<status, index>>
             /\ Replayed(t) # None /\ found' = [found EXCEPT ![t] = Replayed(t)]
    <3>1. found' \in [Tasks -> Tasks \cup {None}]
      BY <2>3, DispatcherAssumption DEF Replayed
    <3> QED BY <1>1, <2>3, <3>1 DEF Submit, CallMove, Goto, Move, queueVars
  <2> QED BY <1>1, <2>1, <2>2, <2>3 DEF Submit
<1>2. CASE AuditReplay(t)
  <2>1. Goto(t, "done")
    BY <1>2 DEF AuditReplay, RaiseAfter, Raise
  <2> QED BY <1>2, <2>1 DEF AuditReplay, CallMove, Goto, Move, storeVars, queueVars
<1>3. CASE AuditQueued(t)
  <2>1. CASE Goto(t, "put") /\ UNCHANGED <<status, queueVars>>
    BY <1>3, <2>1 DEF AuditQueued, CallMove, Goto, Move, queueVars, otherVars
  <2>2. CASE Put(t) /\ Goto(t, "done") /\ UNCHANGED status
    BY <1>3, <2>2 DEF AuditQueued, PutMove, Goto, Move, queueVars, otherVars
  <2>3. CASE Settle(t, "rejected") /\ Goto(t, "refuse") /\ UNCHANGED queueVars
    BY <1>3, <2>3 DEF AuditQueued, RefuseMove, Goto, Move, queueVars, otherVars
  <2>4. CASE Settle(t, "rejected") /\ Goto(t, "done") /\ UNCHANGED queueVars
    BY <1>3, <2>4 DEF AuditQueued, RefuseMove, Goto, Move, queueVars, otherVars
  <2> QED BY <1>3, <2>1, <2>2, <2>3, <2>4 DEF AuditQueued, Raise
<1>4. CASE PutUrgent(t)
  BY <1>4 DEF PutUrgent, PutMove, RefuseMove, Goto, Move, queueVars, otherVars
<1>5. CASE Return(t)
  <2>1. Goto(t, "done")
    BY <1>5 DEF Return, RaiseAfter
  <2> QED BY <1>5, <2>1 DEF Return, CallMove, Goto, Move, storeVars, queueVars, otherVars
<1>6. CASE AuditRefusal(t)
  <2>1. Goto(t, "done")
    BY <1>6 DEF AuditRefusal, RaiseAfter, Raise
  <2> QED BY <1>6, <2>1 DEF AuditRefusal, CallMove, Goto, Move, storeVars, queueVars, otherVars
<1> QED BY <1>1, <1>2, <1>3, <1>4, <1>5, <1>6 DEF SubmitStep

LEMMA WorkerMoves ==
  ASSUME NEW w \in Workers, WorkerStep(w), UNCHANGED max_records
  PROVE  GetMove(w) \/ WorkMove(w) \/ DoneMove(w) \/ (HandlerAudits(w) /\ UNCHANGED dispatcherVars)
<1> USE DEF queueSame, callVars, queueVars
<1>1. CASE Get(w)
  BY <1>1 DEF Get, GetMove, Busily
<1>2. CASE AuditStarted(w)
  BY <1>2 DEF AuditStarted, WorkMove, DoneMove, Busily
<1>3. CASE HandlerReturns(w)
  BY <1>3 DEF HandlerReturns, Retries, GivesUp, WorkMove
<1>4. CASE AuditRetry(w)
  BY <1>4 DEF AuditRetry, WorkMove
<1>5. CASE AuditCompleted(w)
  BY <1>5 DEF AuditCompleted, WorkMove, DoneMove, Busily
<1>6. CASE AuditOutput(w)
  BY <1>6 DEF AuditOutput, DoneMove
<1>7. CASE AuditFailure(w)
  BY <1>7 DEF AuditFailure, DoneMove
<1>8. CASE HandlerAudits(w)
  BY <1>8 DEF HandlerAudits, dispatcherVars
<1> QED BY <1>1, <1>2, <1>3, <1>4, <1>5, <1>6, <1>7, <1>8 DEF WorkerStep

LEMMA Moves ==
  ASSUME Typed, [Next]_vars
  PROVE  Move
<1>1. CASE UNCHANGED vars
  BY <1>1 DEF vars, Move
<1>2. CASE ThreadStep
  BY <1>2 DEF ThreadStep, Move
<1>3. ASSUME NEW t \in Tasks, SubmitStep(t), UNCHANGED max_records
      PROVE  Move
  BY <1>3, SubmitMoves
<1>4. ASSUME NEW w \in Workers, WorkerStep(w), UNCHANGED max_records
      PROVE  Move
  BY <1>4, WorkerMoves DEF Move
<1>5. ASSUME ServerStep, UNCHANGED max_records
      PROVE  Move
  <2>1. CASE Drained
    BY <1>5, <2>1 DEF Drained, CancelWorkers, CancelMove, Move, storeVars, storeSame
  <2>2. CASE StopAtOnce
    BY <1>5, <2>2 DEF StopAtOnce, CancelWorkers, CancelMove, Move, storeVars, storeSame
  <2> QED BY <1>5, <2>1, <2>2 DEF ServerStep, ServerMove, Move
<1> QED BY <1>1, <1>2, <1>3, <1>4, <1>5 DEF Next, LoopStep

-----------------------------------------------------------------------------
(* Queues.                                                                 *)

LEMMA InsertedAt ==
  ASSUME NEW s \in Seq(Tasks), NEW e \in Tasks, NEW n \in Nat, n = Len(s), NEW b \in 0..n
  PROVE  \E q \in Seq(Tasks) :
           /\ q = InsertAt(s, b + 1, e) /\ Len(q) = n + 1
           /\ \A i \in 1..(n + 1) : q[i] = IF i < b + 1 THEN s[i] ELSE IF i = b + 1 THEN e ELSE s[i - 1]
<1> DEFINE l == SubSeq(s, 1, b)
           r == SubSeq(s, b + 1, n)
           one == <<e>>
           f == l \o one
           g == f \o r
<1>1. InsertAt(s, b + 1, e) = g
  <2>1. (b + 1) - 1 = b
    OBVIOUS
  <2> QED BY <2>1 DEF InsertAt
<1>2. \A i \in 1..n : s[i] \in Tasks
  OBVIOUS
<1>3. l \in Seq(Tasks) /\ Len(l) = b /\ \A i \in 1..b : l[i] = s[i]
  <2>1. 1 \in Int /\ b \in Int /\ \A i \in 1..b : s[i] \in Tasks
    BY <1>2
  <2> HIDE <1>2
  <2>2. /\ SubSeq(s, 1, b) \in Seq(Tasks)
        /\ Len(SubSeq(s, 1, b)) = IF 1 <= b THEN b - 1 + 1 ELSE 0
        /\ \A i \in 1..(b - 1 + 1) : SubSeq(s, 1, b)[i] = s[1 + i - 1]
    BY <2>1, SubSeqProperties
  <2>3. b - 1 + 1 = b /\ \A i \in 1..b : 1 + i - 1 = i
    OBVIOUS
  <2> HIDE DEF l
  <2>4. l \in Seq(Tasks) /\ Len(l) = (IF 1 <= b THEN b ELSE 0) /\ \A i \in 1..b : l[i] = s[i]
    BY <2>2, <2>3, Zenon DEF l
  <2> QED BY <2>4
<1>4. r \in Seq(Tasks) /\ Len(r) = n - b /\ \A i \in 1..(n - b) : r[i] = s[b + i]
  <2>1. b + 1 \in Int /\ n \in Int /\ \A i \in b + 1..n : s[i] \in Tasks
    BY <1>2
  <2>2. /\ SubSeq(s, b + 1, n) \in Seq(Tasks)
        /\ Len(SubSeq(s, b + 1, n)) = IF b + 1 <= n THEN n - (b + 1) + 1 ELSE 0
        /\ \A i \in 1..(n - (b + 1) + 1) : SubSeq(s, b + 1, n)[i] = s[(b + 1) + i - 1]
    BY <2>1, SubSeqProperties
  <2>3. n - (b + 1) + 1 = n - b /\ \A i \in 1..(n - b) : (b + 1) + i - 1 = b + i
    OBVIOUS
  <2> HIDE DEF r
  <2>4. r \in Seq(Tasks) /\ Len(r) = (IF b + 1 <= n THEN n - b ELSE 0) /\ \A i \in 1..(n - b) : r[i] = s[b + i]
    BY <2>2, <2>3, Zenon DEF r
  <2> QED BY <2>4
<1>5. one \in Seq(Tasks) /\ Len(one) = 1 /\ one[1] = e
  OBVIOUS
<1> HIDE DEF l, r, one
<1>6. /\ f \in Seq(Tasks) /\ Len(f) = Len(l) + Len(one)
      /\ \A i \in 1..(Len(l) + Len(one)) : f[i] = IF i <= Len(l) THEN l[i] ELSE one[i - Len(l)]
  BY <1>3, <1>5, ConcatProperties, Zenon
<1> HIDE DEF f
<1>7. Len(f) = b + 1 /\ \A i \in 1..(b + 1) : f[i] = IF i = b + 1 THEN e ELSE s[i]
  BY <1>3, <1>5, <1>6
<1>8. /\ g \in Seq(Tasks) /\ Len(g) = Len(f) + Len(r)
      /\ \A i \in 1..(Len(f) + Len(r)) : g[i] = IF i <= Len(f) THEN f[i] ELSE r[i - Len(f)]
  <2>1. f \in Seq(Tasks) /\ r \in Seq(Tasks)
    BY <1>4, <1>6
  <2> QED BY <2>1, ConcatProperties, Zenon
<1> HIDE DEF g
<1>9. Len(g) = n + 1 /\ \A i \in 1..(n + 1) : g[i] = IF i <= b + 1 THEN f[i] ELSE r[i - (b + 1)]
  BY <1>4, <1>7, <1>8
<1>10. ASSUME NEW i \in 1..(n + 1)
       PROVE  g[i] = IF i < b + 1 THEN s[i] ELSE IF i = b + 1 THEN e ELSE s[i - 1]
  <2>1. CASE i <= b + 1
    BY <2>1, <1>7, <1>9
  <2>2. CASE i > b + 1
    <3>1. i - (b + 1) \in 1..(n - b) /\ b + (i - (b + 1)) = i - 1
      BY <2>2
    <3>2. r[i - (b + 1)] = s[i - 1]
      BY <3>1, <1>4
    <3> QED BY <2>2, <3>2, <1>9
  <2> QED BY <2>1, <2>2
<1> QED BY <1>1, <1>8, <1>9, <1>10

LEMMA PlacedAt ==
  ASSUME NEW t \in Tasks, queue \in Seq(Tasks)
  PROVE  /\ Placed(t) \in Seq(Tasks)
         /\ Len(Placed(t)) = Len(queue) + 1
         /\ \E p \in 1..(Len(queue) + 1) : \A i \in 1..(Len(queue) + 1) :
              Placed(t)[i] = IF i < p THEN queue[i] ELSE IF i = p THEN t ELSE queue[i - 1]
<1> DEFINE lower == {i \in DOMAIN queue : Rank[queue[i]] <= Rank[t]}
           n == Len(queue)
           b == Cardinality(lower)
<1>1. n \in Nat /\ lower \in SUBSET (1..n)
  OBVIOUS
<1>2. Placed(t) = InsertAt(queue, b + 1, t)
  BY Zenon DEF Placed
<1> HIDE DEF lower, n
<1>3. IsFiniteSet(1..n) /\ Cardinality(1..n) = IF 1 > n THEN 0 ELSE n - 1 + 1
  BY <1>1, FS_Interval
<1>4. IsFiniteSet(lower) /\ b <= Cardinality(1..n)
  BY <1>1, <1>3, FS_Subset
<1>5. b \in Nat
  BY <1>4, FS_CardinalityType, Zenon
<1> HIDE DEF b
<1>6. b \in 0..n /\ b + 1 \in 1..(n + 1)
  BY <1>1, <1>3, <1>4, <1>5
<1>7. PICK q \in Seq(Tasks) :
        /\ q = InsertAt(queue, b + 1, t) /\ Len(q) = n + 1
        /\ \A i \in 1..(n + 1) : q[i] = IF i < b + 1 THEN queue[i] ELSE IF i = b + 1 THEN t ELSE queue[i - 1]
  <2>1. n = Len(queue)
    BY DEF n
  <2>2. n \in Nat /\ b \in 0..n
    BY <1>1, <1>6
  <2>3. \A s \in Seq(Tasks) : \A m \in Nat : m = Len(s) => \A c \in 0..m : \E q \in Seq(Tasks) :
          /\ q = InsertAt(s, c + 1, t) /\ Len(q) = m + 1
          /\ \A i \in 1..(m + 1) : q[i] = IF i < c + 1 THEN s[i] ELSE IF i = c + 1 THEN t ELSE s[i - 1]
    BY InsertedAt, Zenon
  <2> QED BY <2>1, <2>2, <2>3, Zenon
<1> QED BY <1>2, <1>6, <1>7 DEF n

(* The waiting items are those that waited, and t.                         *)
LEMMA PlacedSet ==
  ASSUME NEW t \in Tasks, queue \in Seq(Tasks), queue' = Placed(t)
  PROVE  /\ queue' \in Seq(Tasks) /\ Len(queue') = Len(queue) + 1
         /\ ToSet(queue') = ToSet(queue) \cup {t}
         /\ t \notin ToSet(queue) /\ IsInjective(queue) => IsInjective(queue')
<1>1. PICK p \in 1..Len(queue) + 1 : \A i \in 1..Len(queue) + 1 :
        queue'[i] = IF i < p THEN queue[i] ELSE IF i = p THEN t ELSE queue[i - 1]
  BY PlacedAt
<1>2. queue' \in Seq(Tasks) /\ Len(queue') = Len(queue) + 1
  BY PlacedAt
<1>3. DOMAIN queue' = 1..Len(queue) + 1 /\ DOMAIN queue = 1..Len(queue) /\ Len(queue) \in Nat
  BY <1>2
<1>4. ASSUME NEW i \in DOMAIN queue'
      PROVE  queue'[i] \in ToSet(queue) \cup {t}
  BY <1>1, <1>3, <1>4 DEF ToSet
<1>5. ASSUME NEW i \in DOMAIN queue
      PROVE  queue[i] \in ToSet(queue')
  <2>1. CASE i < p
    <3>1. queue'[i] = queue[i] /\ i \in DOMAIN queue'
      BY <1>1, <1>3, <2>1
    <3> QED BY <3>1 DEF ToSet
  <2>2. CASE i >= p
    <3>1. queue'[i + 1] = queue[i] /\ i + 1 \in DOMAIN queue'
      BY <1>1, <1>3, <2>2
    <3> QED BY <3>1 DEF ToSet
  <2> QED BY <2>1, <2>2, <1>3
<1>6. t \in ToSet(queue')
  BY <1>1, <1>3 DEF ToSet
<1>7. ToSet(queue') = ToSet(queue) \cup {t}
  BY <1>4, <1>5, <1>6 DEF ToSet
<1>8. ASSUME t \notin ToSet(queue), IsInjective(queue),
             NEW i \in DOMAIN queue', NEW j \in DOMAIN queue', queue'[i] = queue'[j]
      PROVE  i = j
  <2>1. \A k \in DOMAIN queue : queue[k] # t
    BY <1>8 DEF ToSet
  <2>2. \A k, m \in DOMAIN queue : queue[k] = queue[m] => k = m
    BY <1>8 DEF IsInjective
  <2> QED BY <1>1, <1>3, <1>8, <2>1, <2>2
<1> QED BY <1>2, <1>7, <1>8 DEF IsInjective

LEMMA TailSet ==
  ASSUME queue \in Seq(Tasks), queue # <<>>, queue' = Tail(queue), IsInjective(queue)
  PROVE  /\ queue' \in Seq(Tasks) /\ Len(queue') = Len(queue) - 1
         /\ Head(queue) \in ToSet(queue) /\ Head(queue) \in Tasks
         /\ ToSet(queue') = ToSet(queue) \ {Head(queue)}
         /\ IsInjective(queue')
<1>1. Len(queue) \in Nat \ {0} /\ Head(queue) = queue[1]
  OBVIOUS
<1>2. /\ queue' \in Seq(Tasks) /\ Len(queue') = Len(queue) - 1
      /\ \A i \in 1..Len(queue) - 1 : queue'[i] = queue[i + 1]
  BY <1>1
<1>3. DOMAIN queue' = 1..Len(queue) - 1 /\ DOMAIN queue = 1..Len(queue)
  BY <1>2
<1>4. \A i, j \in DOMAIN queue : queue[i] = queue[j] => i = j
  BY DEF IsInjective
<1>5. Head(queue) \in ToSet(queue) /\ Head(queue) \in Tasks
  BY <1>1, <1>3 DEF ToSet
<1>6. ASSUME NEW i \in DOMAIN queue'
      PROVE  queue'[i] \in ToSet(queue) \ {Head(queue)}
  <2>1. queue'[i] = queue[i + 1] /\ i + 1 \in DOMAIN queue /\ i + 1 # 1
    BY <1>1, <1>2, <1>3, <1>6
  <2>2. queue[i + 1] # queue[1]
    BY <2>1, <1>1, <1>3, <1>4
  <2> QED BY <1>1, <2>1, <2>2 DEF ToSet
<1>7. ASSUME NEW i \in DOMAIN queue, queue[i] # Head(queue)
      PROVE  queue[i] \in ToSet(queue')
  <2>1. i # 1
    BY <1>1, <1>7
  <2>2. i - 1 \in DOMAIN queue' /\ queue'[i - 1] = queue[i]
    BY <1>1, <1>2, <1>3, <1>7, <2>1
  <2> QED BY <2>2 DEF ToSet
<1>8. ToSet(queue') = ToSet(queue) \ {Head(queue)}
  BY <1>6, <1>7 DEF ToSet
<1>9. IsInjective(queue')
  BY <1>1, <1>2, <1>3, <1>4 DEF IsInjective
<1> QED BY <1>2, <1>5, <1>8, <1>9

(* HeldOnce, in terms of Queued.                                           *)
LEMMA QueuedStatus ==
  ASSUME HeldOnce
  PROVE  \A t \in Tasks : Queued(t) => status[t] = "queued"
BY DEF HeldOnce, Queued, ToSet

LEMMA BusyFinite == IsFiniteSet(Busy) /\ Cardinality(Busy) \in Nat
BY DispatcherAssumption, FS_Subset, FS_CardinalityType DEF Busy

-----------------------------------------------------------------------------
(* Every move keeps the invariant.                                         *)

LEMMA CallMoveKeeps ==
  ASSUME Inv, NEW t \in Tasks, NEW to \in CallPoints, CallMove(t, to)
  PROVE  Inv'
<1> USE DEF Inv, CallMove, storeSame, queueSame, workSame
<1>1. Typed'
  BY DEF Typed
<1>2. JoinCounts' /\ HeldOnce' /\ KeyIndex'
  BY DEF JoinCounts, HeldOnce, KeyIndex, Busy, Exists, Records
<1>3. CallsKnow'
  BY DEF CallsKnow, Queued, Typed
<1>4. WorkersKnow' /\ QuietWhenDown' /\ Draining'
  BY DEF WorkersKnow, QuietWhenDown, Draining, Busy, LiveTasks, Queued, Held
<1> QED BY <1>1, <1>2, <1>3, <1>4

LEMMA RecordMoveKeeps ==
  ASSUME Inv, NEW t \in Tasks, NEW gone \in SUBSET Tasks, RecordMove(t, gone)
  PROVE  Inv'
<1> USE DEF Inv, RecordMove, queueSame, workSame
<1> USE DispatcherAssumption
<1>1. status[t] = "absent" /\ t \notin gone
  BY DEF CallsKnow, Outcomes
<1>2. /\ status' \in [Tasks -> {"absent", "evicted"} \cup Live \cup Outcomes]
      /\ status'[t] = "queued"
      /\ \A u \in Tasks \ {t} : status'[u] = IF u \in gone THEN "evicted" ELSE status[u]
  BY <1>1 DEF Insert, Typed, Live, Outcomes
<1>3. index' \in [IdemKeys -> Tasks \cup {None}]
  BY DEF Insert, Typed
<1>4. Typed'
  BY <1>2, <1>3 DEF Typed, CallPoints
<1>5. \A u \in Tasks : status[u] \in Live => u # t /\ status'[u] = status[u]
  BY <1>1, <1>2 DEF Live, Outcomes
<1>6. HeldOnce'
  <2>1. \A i \in DOMAIN queue : queue[i] \in Tasks /\ status'[queue[i]] = "queued"
    BY <1>5 DEF HeldOnce, Live, Typed
  <2>2. \A w \in Busy : status[worker[w].task] = "running" => status'[worker[w].task] = "running"
    BY <1>5 DEF WorkersKnow, Live
  <2> QED BY <2>1, <2>2 DEF HeldOnce, Busy
<1>7. KeyIndex'
  <2>1. KeyOf[t] # None => index[KeyOf[t]] = None
    BY DEF Replayed
  <2>2. \A u \in Tasks : u \in Records' <=> u = t \/ (u \in Records /\ u \notin gone)
    BY <1>1, <1>2 DEF Records, Live, Outcomes
  <2>3. \A k \in IdemKeys : index'[k] = IF k = KeyOf[t] THEN t
                                       ELSE IF \E u \in gone : KeyOf[u] = k THEN None ELSE index[k]
    BY DEF Insert
  <2>4. ASSUME NEW k \in IdemKeys, index'[k] # None
        PROVE  index'[k] \in Records' /\ KeyOf[index'[k]] = k
    <3>1. CASE k = KeyOf[t]
      BY <2>2, <2>3, <3>1
    <3>2. CASE k # KeyOf[t]
      <4>1. index'[k] = index[k] /\ \A u \in gone : KeyOf[u] # k
        BY <2>3, <2>4, <3>2
      <4>2. index[k] \in Records /\ KeyOf[index[k]] = k
        BY <2>4, <4>1 DEF KeyIndex, Exists
      <4>3. index[k] \in Tasks /\ index[k] \notin gone
        BY <4>1, <4>2 DEF Records
      <4> QED BY <2>2, <4>1, <4>2, <4>3
    <3> QED BY <3>1, <3>2
  <2>5. ASSUME NEW u \in Records', KeyOf[u] # None
        PROVE  index'[KeyOf[u]] = u
    <3>1. u \in Tasks /\ KeyOf[u] \in IdemKeys
      BY <2>5 DEF Records
    <3>2. CASE u = t
      BY <2>3, <3>1, <3>2
    <3>3. CASE u # t
      <4>1. index[KeyOf[u]] = u /\ u \notin gone
        BY <2>2, <2>5, <3>1, <3>3 DEF KeyIndex
      <4>2. KeyOf[u] # KeyOf[t]
        BY <2>1, <3>1, <4>1
      <4>3. \A v \in gone : KeyOf[v] # KeyOf[u]
        <5> SUFFICES ASSUME NEW v \in gone, KeyOf[v] = KeyOf[u] PROVE FALSE
          OBVIOUS
        <5>1. v \in Records
          BY DEF Records
        <5> QED BY <4>1, <5>1, <2>5 DEF KeyIndex
      <4> QED BY <2>3, <3>1, <4>1, <4>2, <4>3
    <3> QED BY <3>2, <3>3
  <2> QED BY <2>4, <2>5 DEF KeyIndex, Exists
<1>8. CallsKnow'
  <2>1. ~Queued(t)
    BY <1>1, QueuedStatus
  <2>2. \A u \in Tasks : call'[u] = IF u = t THEN "audit" ELSE call[u]
    BY DEF Typed
  <2> QED BY <1>1, <1>2, <2>1, <2>2 DEF CallsKnow, Queued, Outcomes
<1>9. WorkersKnow'
  <2> SUFFICES ASSUME NEW w \in Busy
               PROVE  IF worker[w].at = "outcome" THEN status'[worker[w].task] \in {"failed", "evicted"}
                      ELSE status'[worker[w].task] = "running"
    BY DEF WorkersKnow, Busy
  <2> QED BY <1>1, <1>2 DEF WorkersKnow, Outcomes
<1>10. JoinCounts' /\ QuietWhenDown' /\ Draining'
  BY DEF JoinCounts, QuietWhenDown, Draining, Busy
<1> QED BY <1>4, <1>6, <1>7, <1>8, <1>9, <1>10

LEMMA PutMoveKeeps ==
  ASSUME Inv, NEW t \in Tasks, NEW to \in CallPoints, PutMove(t, to)
  PROVE  Inv'
<1> USE DEF Inv, PutMove, Put, storeSame, workSame
<1>1. status[t] = "queued" /\ ~Queued(t)
  BY DEF CallsKnow
<1>2. /\ queue' \in Seq(Tasks) /\ Len(queue') = Len(queue) + 1
      /\ ToSet(queue') = ToSet(queue) \cup {t} /\ IsInjective(queue')
  BY <1>1, PlacedSet DEF Typed, HeldOnce, Queued
<1>3. Typed'
  BY <1>2 DEF Typed
<1>4. JoinCounts'
  <2>1. Busy' = Busy
    BY DEF Busy
  <2> QED BY <1>2, <2>1, BusyFinite DEF JoinCounts, Typed
<1>5. HeldOnce'
  <2>1. \A i \in DOMAIN queue' : status[queue'[i]] = "queued"
    <3> SUFFICES ASSUME NEW i \in DOMAIN queue' PROVE status[queue'[i]] = "queued"
      OBVIOUS
    <3>1. queue'[i] \in ToSet(queue) \cup {t} /\ queue'[i] \in Tasks
      BY <1>2 DEF ToSet
    <3> QED BY <1>1, <3>1, QueuedStatus DEF Queued
  <2> QED BY <1>2, <2>1 DEF HeldOnce, Busy
<1>6. CallsKnow'
  BY <1>1, <1>2 DEF CallsKnow, Queued, Typed
<1>7. KeyIndex' /\ WorkersKnow' /\ QuietWhenDown'
  BY DEF KeyIndex, WorkersKnow, QuietWhenDown, Busy, Exists, Records
<1>8. Draining'
  BY <1>2 DEF Draining, LiveTasks, Queued, Held, Busy
<1> QED BY <1>3, <1>4, <1>5, <1>6, <1>7, <1>8

LEMMA RefuseMoveKeeps ==
  ASSUME Inv, NEW t \in Tasks, NEW to \in CallPoints, RefuseMove(t, to)
  PROVE  Inv'
<1> USE DEF Inv, RefuseMove, queueSame, workSame, Settle
<1>1. status[t] = "queued" /\ ~Queued(t) /\ attempts[t] = 0
  BY DEF CallsKnow
<1>2. \A u \in Tasks : status'[u] = IF u = t THEN "rejected" ELSE status[u]
  BY DEF Typed
<1>3. Typed'
  BY DEF Typed, Outcomes
<1>4. HeldOnce'
  <2>1. \A i \in DOMAIN queue : queue[i] \in Tasks /\ queue[i] # t
    BY <1>1 DEF Typed, Queued, ToSet
  <2>2. \A w \in Busy : worker[w].task \in Tasks /\ worker[w].task # t
    BY <1>1 DEF WorkersKnow
  <2> QED BY <1>2, <2>1, <2>2 DEF HeldOnce, Busy
<1>5. KeyIndex'
  <2>1. Records' = Records
    BY <1>1, <1>2 DEF Records, Live, Outcomes
  <2> QED BY <2>1 DEF KeyIndex, Exists
<1>6. CallsKnow'
  BY <1>1, <1>2 DEF CallsKnow, Queued, Typed
<1>7. WorkersKnow'
  <2> SUFFICES ASSUME NEW w \in Busy
               PROVE  worker[w].task \in Tasks /\ status'[worker[w].task] = status[worker[w].task]
    BY DEF WorkersKnow, Busy
  <2> QED BY <1>1, <1>2 DEF WorkersKnow
<1>8. JoinCounts' /\ QuietWhenDown'
  BY DEF JoinCounts, QuietWhenDown, Busy
<1>9. Draining'
  <2>1. LiveTasks' \subseteq LiveTasks
    BY <1>2 DEF LiveTasks, Live
  <2>2. \A u \in Tasks : (Queued(u) => Queued(u)') /\ (Held(u) => Held(u)')
    BY DEF Queued, Held, Busy
  <2> QED BY <2>1, <2>2 DEF Draining, LiveTasks
<1> QED BY <1>3, <1>4, <1>5, <1>6, <1>7, <1>8, <1>9

LEMMA GetMoveKeeps ==
  ASSUME Inv, NEW w \in Workers, GetMove(w)
  PROVE  Inv'
<1> USE DEF Inv, GetMove
<1>1. PICK h \in Tasks : h = Head(queue)
  BY TailSet DEF Typed, HeldOnce
<1>2. /\ queue' \in Seq(Tasks) /\ Len(queue') = Len(queue) - 1 /\ Queued(h)
      /\ ToSet(queue') = ToSet(queue) \ {h} /\ IsInjective(queue')
  BY <1>1, TailSet DEF Typed, HeldOnce, Queued
<1>3. status[h] = "queued"
  BY <1>2, QueuedStatus
<1>4. \A u \in Tasks : /\ status'[u] = IF u = h THEN "running" ELSE status[u]
                       /\ attempts'[u] = IF u = h THEN 0 ELSE attempts[u]
  BY <1>1 DEF Typed, Settle
<1>5. \A x \in Workers : worker'[x] = IF x = w THEN [at |-> "start", task |-> h] ELSE worker[x]
  BY <1>1 DEF Typed
<1>6. Busy' = Busy \cup {w} /\ w \notin Busy
  BY <1>5 DEF Busy
<1>7. \A x \in Busy : worker[x].task \in Tasks \ {h} /\ x \in Workers /\ x # w
  BY <1>3, <1>6 DEF WorkersKnow, Busy
<1>8. Typed'
  <2>1. worker' \in [Workers -> WorkRecords]
    BY <1>1 DEF Typed, WorkRecords, WorkPoints
  <2>2. status' \in [Tasks -> {"absent", "evicted"} \cup Live \cup Outcomes]
    BY <1>1 DEF Typed, Settle, Live
  <2>3. attempts' \in [Tasks -> Nat]
    BY <1>1 DEF Typed
  <2> QED BY <1>2, <2>1, <2>2, <2>3 DEF Typed
<1>9. JoinCounts'
  <2>1. Cardinality(Busy') = Cardinality(Busy) + 1
    BY <1>6, BusyFinite, FS_AddElement
  <2> QED BY <1>2, <2>1, BusyFinite DEF JoinCounts, Typed
<1>10. HeldOnce'
  <2>1. \A i \in DOMAIN queue' : status'[queue'[i]] = "queued"
    <3> SUFFICES ASSUME NEW i \in DOMAIN queue' PROVE status'[queue'[i]] = "queued"
      OBVIOUS
    <3>1. queue'[i] \in ToSet(queue) \ {h}
      BY <1>2, Zenon DEF ToSet
    <3>2. queue'[i] \in Tasks
      BY <1>2
    <3>3. status[queue'[i]] = "queued"
      BY <3>1, <3>2, QueuedStatus DEF Queued
    <3> QED BY <1>4, <3>1, <3>2, <3>3
  <2>2. \A x \in Busy : /\ status'[worker[x].task] = "running" \/ worker[x].at = "outcome"
                        /\ worker'[x] = worker[x]
    BY <1>4, <1>5, <1>7 DEF WorkersKnow
  <2>3. worker'[w].task = h /\ status'[h] = "running"
    BY <1>4, <1>5
  <2> QED BY <1>2, <1>6, <1>7, <2>1, <2>2, <2>3 DEF HeldOnce
<1>11. KeyIndex'
  <2>1. Records' = Records
    BY <1>3, <1>4 DEF Records, Live, Outcomes
  <2> QED BY <2>1 DEF KeyIndex, Exists
<1>12. CallsKnow'
  BY <1>2, <1>3, <1>4 DEF CallsKnow, Queued
<1>13. WorkersKnow'
  <2>1. \A x \in Busy : /\ worker'[x] = worker[x] /\ status'[worker[x].task] = status[worker[x].task]
                        /\ attempts'[worker[x].task] = attempts[worker[x].task]
    BY <1>4, <1>5, <1>7
  <2>2. worker'[w] = [at |-> "start", task |-> h] /\ status'[h] = "running" /\ attempts'[h] = 0
    BY <1>4, <1>5
  <2> SUFFICES ASSUME NEW x \in Busy', WorkersKnow
               PROVE  LET u == worker'[x].task
                      IN  /\ u \in Tasks
                          /\ IF worker'[x].at = "outcome" THEN status'[u] \in {"failed", "evicted"} ELSE status'[u] = "running"
                          /\ worker'[x].at = "start" => attempts'[u] = 0
                          /\ worker'[x].at = "retry" => attempts'[u] > 0 /\ attempts'[u] < MaxAttempts[u]
                          /\ worker'[x].at \in {"handler", "complete", "output"} =>
                               attempts'[u] > 0 /\ attempts'[u] <= MaxAttempts[u]
    BY DEF WorkersKnow
  <2>3. CASE x = w
    BY <2>2, <2>3
  <2>4. CASE x \in Busy
    BY <2>1, <2>4 DEF WorkersKnow
  <2> QED BY <1>6, <2>3, <2>4
<1>14. QuietWhenDown'
  BY DEF QuietWhenDown
<1>15. Draining'
  <2>1. LiveTasks' = LiveTasks
    BY <1>3, <1>4 DEF LiveTasks, Live
  <2>2. \A u \in Tasks : Queued(u) \/ Held(u) => (Queued(u) \/ Held(u))'
    <3>1. Held(h)'
      BY <1>5, <1>6 DEF Held
    <3>2. \A u \in Tasks \ {h} : Queued(u) => Queued(u)'
      BY <1>2 DEF Queued
    <3>3. \A u \in Tasks : Held(u) => Held(u)'
      BY <1>5, <1>6, <1>7 DEF Held
    <3> QED BY <3>1, <3>2, <3>3
  <2> QED BY <2>1, <2>2 DEF Draining, LiveTasks
<1> QED BY <1>8, <1>9, <1>10, <1>11, <1>12, <1>13, <1>14, <1>15

LEMMA WorkMoveKeeps ==
  ASSUME Inv, NEW w \in Workers, WorkMove(w)
  PROVE  Inv'
<1> USE DEF Inv, WorkMove, queueSame
<1>1. PICK t : t = worker[w].task
  OBVIOUS
<1>2. PICK p \in WorkPoints \ {"idle", "start"} : worker' = [worker EXCEPT ![w].at = p]
  BY DEF Invoke, Work, WorkPoints
<1>3. \A x \in Workers : worker'[x] = IF x = w THEN [at |-> p, task |-> t] ELSE worker[x]
  BY <1>1, <1>2 DEF Typed, WorkRecords
<1>4. Busy' = Busy /\ w \in Busy /\ t \in Tasks
  BY <1>1, <1>3 DEF Busy, WorkersKnow
<1>5. status[t] = "running"
  BY <1>1, <1>4 DEF WorkersKnow
<1>6. \A x \in Busy : worker[x].task \in Tasks /\ (x # w => worker[x].task # t)
  BY <1>1, <1>4 DEF WorkersKnow, HeldOnce
<1>7. \A u \in Tasks : u # t => status'[u] = status[u] /\ attempts'[u] = attempts[u]
  BY <1>1, <1>4 DEF Typed, Invoke, Settle
<1>8. /\ IF p = "outcome" THEN status'[t] = "failed" ELSE status'[t] = "running"
      /\ p = "retry" => attempts'[t] > 0 /\ attempts'[t] < MaxAttempts[t]
      /\ p \in {"handler", "complete", "output"} => attempts'[t] > 0 /\ attempts'[t] <= MaxAttempts[t]
  <2>1. attempts[t] \in Nat /\ MaxAttempts[t] \in Nat \ {0}
    BY <1>4, DispatcherAssumption DEF Typed
  <2>2. \A q : worker' = [worker EXCEPT ![w].at = q] => p = q
    BY <1>2 DEF Typed, WorkRecords
  <2>3. CASE worker[w].at \in {"start", "retry"} /\ Invoke(w) /\ UNCHANGED status
    <3>1. p = "handler" /\ attempts'[t] = attempts[t] + 1
      BY <1>1, <1>4, <2>2, <2>3 DEF Invoke, Work, Typed
    <3>2. attempts[t] < MaxAttempts[t]
      BY <1>1, <1>4, <2>1, <2>3 DEF WorkersKnow
    <3> QED BY <1>5, <2>1, <2>3, <3>1, <3>2
  <2>4. CASE worker[w].at = "handler" /\ Work(w, "complete") /\ UNCHANGED <<status, attempts>>
    BY <1>1, <1>4, <1>5, <2>2, <2>4 DEF Work, WorkersKnow
  <2>5. CASE worker[w].at = "handler" /\ attempts[t] < MaxAttempts[t] /\ Work(w, "retry") /\ UNCHANGED <<status, attempts>>
    BY <1>1, <1>4, <1>5, <2>2, <2>5 DEF Work, WorkersKnow
  <2>6. CASE worker[w].at = "complete" /\ Work(w, "output") /\ UNCHANGED <<status, attempts>>
    BY <1>1, <1>4, <1>5, <2>2, <2>6 DEF Work, WorkersKnow
  <2>7. CASE Settle(t, "failed") /\ Work(w, "outcome") /\ UNCHANGED attempts
    BY <1>4, <2>2, <2>7 DEF Work, Settle, Typed
  <2> QED BY <1>1, <2>3, <2>4, <2>5, <2>6, <2>7
<1>9. Typed'
  <2>1. worker' \in [Workers -> WorkRecords]
    BY <1>2 DEF Typed, WorkRecords
  <2>2. status' \in [Tasks -> {"absent", "evicted"} \cup Live \cup Outcomes]
    BY DEF Typed, Settle, Live, Outcomes
  <2>3. attempts' \in [Tasks -> Nat]
    <3>1. attempts' = attempts \/ attempts' = [attempts EXCEPT ![t] = attempts[t] + 1]
      BY <1>1 DEF Invoke
    <3>2. attempts \in [Tasks -> Nat] /\ attempts[t] + 1 \in Nat
      BY <1>4 DEF Typed
    <3> QED BY <3>1, <3>2
  <2> QED BY <2>1, <2>2, <2>3 DEF Typed
<1>10. ~Queued(t)
  BY <1>4, <1>5, QueuedStatus
<1>11. HeldOnce'
  <2>1. \A i \in DOMAIN queue : queue[i] \in Tasks \ {t}
    BY <1>10 DEF Queued, ToSet, Typed
  <2>2. \A x \in Busy : /\ worker'[x].task = worker[x].task
                        /\ status'[worker'[x].task] = "running" \/ worker'[x].at = "outcome"
    BY <1>3, <1>4, <1>6, <1>7, <1>8, <1>1 DEF WorkersKnow, Busy
  <2> QED BY <1>4, <1>7, <2>1, <2>2 DEF HeldOnce
<1>12. KeyIndex'
  <2>1. Records' = Records
    BY <1>5, <1>7, <1>8 DEF Records, Live, Outcomes
  <2> QED BY <2>1 DEF KeyIndex, Exists
<1>13. CallsKnow'
  BY <1>5, <1>7, <1>8 DEF CallsKnow, Queued
<1>14. WorkersKnow'
  <2> SUFFICES ASSUME NEW x \in Busy
               PROVE  LET u == worker'[x].task
                      IN  /\ u \in Tasks
                          /\ IF worker'[x].at = "outcome" THEN status'[u] \in {"failed", "evicted"} ELSE status'[u] = "running"
                          /\ worker'[x].at = "start" => attempts'[u] = 0
                          /\ worker'[x].at = "retry" => attempts'[u] > 0 /\ attempts'[u] < MaxAttempts[u]
                          /\ worker'[x].at \in {"handler", "complete", "output"} =>
                               attempts'[u] > 0 /\ attempts'[u] <= MaxAttempts[u]
    BY <1>4 DEF WorkersKnow
  <2>1. CASE x = w
    BY <1>3, <1>4, <1>8, <2>1
  <2>2. CASE x # w
    <3>1. worker'[x] = worker[x] /\ worker[x].task \in Tasks \ {t}
      BY <1>3, <1>6, <2>2 DEF Busy
    <3>2. status'[worker[x].task] = status[worker[x].task] /\ attempts'[worker[x].task] = attempts[worker[x].task]
      BY <1>7, <3>1
    <3> QED BY <3>1, <3>2 DEF WorkersKnow
  <2> QED BY <2>1, <2>2
<1>15. JoinCounts' /\ QuietWhenDown'
  BY <1>4 DEF JoinCounts, QuietWhenDown
<1>16. Draining'
  <2>1. LiveTasks' \subseteq LiveTasks
    BY <1>5, <1>7 DEF LiveTasks, Live
  <2>2. \A u \in Tasks : (Queued(u) => Queued(u)') /\ (Held(u) => Held(u)')
    BY <1>1, <1>3, <1>4 DEF Queued, Held, Busy
  <2> QED BY <2>1, <2>2 DEF Draining, LiveTasks
<1> QED BY <1>9, <1>11, <1>12, <1>13, <1>14, <1>15, <1>16

LEMMA DoneMoveKeeps ==
  ASSUME Inv, NEW w \in Workers, DoneMove(w)
  PROVE  Inv'
<1> USE DEF Inv, DoneMove, Done
<1>1. PICK t : t = worker[w].task
  OBVIOUS
<1>2. w \in Busy /\ Busy' = Busy \ {w} /\ t \in Tasks
  BY <1>1 DEF Busy, Typed, WorkersKnow, Idle
<1>3. \A x \in Busy \ {w} : worker'[x] = worker[x] /\ worker[x].task \in Tasks \ {t}
  BY <1>1, <1>2 DEF Busy, Typed, WorkersKnow, HeldOnce
<1>4. /\ \A u \in Tasks : u # t => status'[u] = status[u]
      /\ status[t] \in {"running", "failed", "evicted"}
      /\ status'[t] \in {"succeeded", "failed", "evicted"}
      /\ status[t] = "evicted" <=> status'[t] = "evicted"
  BY <1>1, <1>2 DEF Typed, Settle, WorkersKnow
<1>5. ~Queued(t)
  BY <1>2, <1>4, QueuedStatus
<1>6. Cardinality(Busy') = Cardinality(Busy) - 1
  BY <1>2, BusyFinite, FS_RemoveElement
<1>7. Typed'
  <2>1. worker' \in [Workers -> WorkRecords]
    BY DEF Typed, WorkRecords, WorkPoints, Idle
  <2>2. status' \in [Tasks -> {"absent", "evicted"} \cup Live \cup Outcomes]
    BY DEF Typed, Settle, Outcomes
  <2>3. server' \in [phase: Phases, drain: BOOLEAN, joined: BOOLEAN, stops: Nat]
    BY DEF Typed
  <2> QED BY <2>1, <2>2, <2>3 DEF Typed
<1>8. JoinCounts'
  BY <1>6, BusyFinite DEF JoinCounts, Typed
<1>9. HeldOnce'
  <2>1. \A i \in DOMAIN queue : queue[i] \in Tasks \ {t}
    BY <1>5 DEF Queued, ToSet, Typed
  <2>2. \A x \in Busy' : status'[worker'[x].task] = status[worker[x].task] /\ worker'[x] = worker[x]
    BY <1>2, <1>3, <1>4
  <2> QED BY <1>2, <1>4, <2>1, <2>2 DEF HeldOnce
<1>10. KeyIndex'
  <2>1. Records' = Records
    BY <1>4 DEF Records, Live, Outcomes
  <2> QED BY <2>1 DEF KeyIndex, Exists
<1>11. CallsKnow'
  BY <1>4 DEF CallsKnow, Queued
<1>12. WorkersKnow'
  <2>1. \A x \in Busy' : x \in Busy /\ status'[worker'[x].task] = status[worker[x].task] /\ worker'[x] = worker[x]
    BY <1>2, <1>3, <1>4
  <2> QED BY <2>1 DEF WorkersKnow
<1>13. QuietWhenDown'
  BY <1>2 DEF QuietWhenDown, Typed
<1>14. Draining'
  <2>1. /\ server'.phase = server.phase /\ server'.drain = server.drain
        /\ server'.joined <=> server.joined \/ (server.phase = "drain" /\ unfinished = 1)
    BY DEF Typed
  <2>2. \A u \in Tasks : (Queued(u) => Queued(u)') /\ (Held(u) /\ u # t => Held(u)')
    BY <1>1, <1>2, <1>3 DEF Queued, Held
  <2>3. LiveTasks' = LiveTasks \ {t}
    BY <1>4 DEF LiveTasks, Live
  <2>4. ASSUME server.phase = "drain", unfinished = 1
        PROVE  LiveTasks' \subseteq pending
    <3>1. IsFiniteSet(Busy') /\ Cardinality(Busy') \in Nat
      BY <1>2, BusyFinite, FS_RemoveElement, FS_CardinalityType
    <3>2. Len(queue) \in Nat /\ Len(queue) + Cardinality(Busy) = 1
      BY <2>4 DEF JoinCounts, Typed
    <3>3. Len(queue) = 0 /\ Cardinality(Busy') = 0
      BY <1>6, <3>1, <3>2, BusyFinite
    <3>4. Busy = {w}
      BY <1>2, <3>1, <3>3, FS_EmptySet
    <3>5. \A u \in Tasks : ~Queued(u) /\ (Held(u) => u = t)
      BY <1>1, <3>3, <3>4 DEF Queued, Held, ToSet, Typed
    <3>6. \A u \in LiveTasks \ pending : u = t
      BY <2>4, <3>5 DEF Draining, LiveTasks
    <3> QED BY <2>3, <3>6
  <2> QED BY <2>1, <2>2, <2>3, <2>4 DEF Draining, LiveTasks
<1> QED BY <1>7, <1>8, <1>9, <1>10, <1>11, <1>12, <1>13, <1>14

LEMMA CancelMoveKeeps ==
  ASSUME Inv, CancelMove
  PROVE  Inv'
<1> USE DEF Inv, CancelMove, storeSame
<1>1. Busy' = {} /\ Cardinality(Busy') = 0
  BY FS_EmptySet DEF Busy, Idle
<1>2. Typed'
  <2>1. worker' \in [Workers -> WorkRecords]
    BY DEF WorkRecords, WorkPoints, Idle
  <2>2. server' \in [phase: Phases, drain: BOOLEAN, joined: BOOLEAN, stops: Nat]
    <3>1. server.stops + 1 \in Nat /\ "gather" \in Phases
      BY DEF Typed, Phases
    <3>2. CASE server' = [server EXCEPT !.phase = "gather", !.joined = FALSE]
      BY <3>1, <3>2 DEF Typed
    <3>3. CASE server' = [phase |-> "gather", drain |-> FALSE, joined |-> FALSE, stops |-> server.stops + 1]
      BY <3>1, <3>3
    <3> QED BY <3>2, <3>3
  <2>3. pending' \in SUBSET Tasks
    BY DEF Typed
  <2> QED BY <2>1, <2>2, <2>3 DEF Typed
<1>3. JoinCounts'
  BY <1>1, BusyFinite DEF JoinCounts, Typed
<1>4. HeldOnce' /\ KeyIndex' /\ CallsKnow' /\ WorkersKnow' /\ QuietWhenDown'
  BY <1>1 DEF HeldOnce, KeyIndex, CallsKnow, WorkersKnow, QuietWhenDown, Exists, Records, Queued
<1>5. Draining'
  BY DEF Draining, LiveTasks, Typed
<1> QED BY <1>2, <1>3, <1>4, <1>5

LEMMA ServerMoveKeeps ==
  ASSUME Inv, ServerMove
  PROVE  Inv'
<1> USE DEF Inv, ServerMove, queueVars, storeVars
<1>1. Typed'
  <2>1. server' \in [phase: Phases, drain: BOOLEAN, joined: BOOLEAN, stops: Nat]
    <3>1. /\ server.stops + 1 \in Nat /\ {"drain", "down", "up"} \subseteq Phases
          /\ (unfinished = 0) \in BOOLEAN
      BY DEF Typed, Phases
    <3>2. CASE StopDraining
      BY <3>1, <3>2 DEF StopDraining, Typed
    <3>3. CASE Stopped
      BY <3>1, <3>3 DEF Stopped, Typed
    <3>4. CASE Start
      BY <3>1, <3>4 DEF Start, Typed
    <3> QED BY <3>2, <3>3, <3>4
  <2> QED BY <2>1 DEF Typed, StopDraining, Stopped, Start
<1>2. HeldOnce' /\ KeyIndex' /\ CallsKnow' /\ WorkersKnow'
  BY DEF StopDraining, Stopped, Start, HeldOnce, KeyIndex, CallsKnow, WorkersKnow, Exists, Records, Queued, Busy
<1>3. Busy' = Busy /\ queue' = queue /\ LiveTasks' = LiveTasks
  BY DEF StopDraining, Stopped, Start, Busy, LiveTasks
<1>4. CASE StopDraining
  <2>1. JoinCounts' /\ QuietWhenDown'
    BY <1>3, <1>4 DEF StopDraining, JoinCounts, QuietWhenDown
  <2>2. pending' = {u \in LiveTasks : ~Queued(u) /\ ~Held(u)}
    BY <1>4 DEF StopDraining, LiveTasks
  <2>3. unfinished = 0 => \A u \in Tasks : ~Queued(u) /\ ~Held(u)
    <3> SUFFICES ASSUME unfinished = 0 PROVE \A u \in Tasks : ~Queued(u) /\ ~Held(u)
      OBVIOUS
    <3>1. Len(queue) = 0 /\ Cardinality(Busy) = 0
      BY BusyFinite DEF JoinCounts, Typed
    <3>2. Busy = {}
      BY <3>1, BusyFinite, FS_EmptySet
    <3>3. DOMAIN queue = {}
      BY <3>1 DEF Typed
    <3> QED BY <3>2, <3>3 DEF Queued, Held, ToSet
  <2>4. \A u \in Tasks : (Queued(u)' <=> Queued(u)) /\ (Held(u)' <=> Held(u))
    BY <1>3, <1>4 DEF Queued, Held, StopDraining
  <2>5. server'.phase = "drain" /\ (server'.joined => unfinished = 0)
    BY <1>4 DEF StopDraining
  <2>6. Draining'
    BY <1>3, <2>2, <2>3, <2>4, <2>5 DEF Draining, LiveTasks
  <2> QED BY <1>1, <1>2, <2>1, <2>6
<1>5. CASE Stopped
  <2>1. server'.phase = "down" /\ server'.drain = server.drain /\ server.phase = "gather"
    BY <1>5 DEF Stopped, Typed
  <2>2. Draining' /\ QuietWhenDown' /\ JoinCounts'
    BY <1>3, <1>5, <2>1 DEF Stopped, Draining, QuietWhenDown, JoinCounts
  <2> QED BY <1>1, <1>2, <2>2
<1>6. CASE Start
  <2>1. server'.phase = "up" /\ Busy = {} /\ Len(queue) = 0
    BY <1>6 DEF Start, Typed, QuietWhenDown
  <2>2. Draining' /\ QuietWhenDown'
    BY <2>1 DEF Draining, QuietWhenDown
  <2>3. JoinCounts'
    BY <1>3, <1>6, <2>1, FS_EmptySet DEF Start, JoinCounts
  <2> QED BY <1>1, <1>2, <2>2, <2>3
<1> QED BY <1>4, <1>5, <1>6

LEMMA InvInit ==
  ASSUME Init
  PROVE  Inv
<1> USE DEF Init
<1>1. Busy = {} /\ Cardinality(Busy) = 0 /\ Len(queue) = 0
  BY FS_EmptySet DEF Busy, Idle
<1>2. Records = {} /\ LiveTasks = {}
  BY DEF Records, Live, Outcomes, LiveTasks
<1>3. Typed
  BY DispatcherAssumption DEF Typed, WorkRecords, WorkPoints, Idle, CallPoints, Phases
<1>4. JoinCounts /\ HeldOnce /\ KeyIndex
  BY <1>1, <1>2 DEF JoinCounts, HeldOnce, KeyIndex, IsInjective
<1>5. CallsKnow /\ WorkersKnow /\ QuietWhenDown /\ Draining
  BY <1>1, <1>2 DEF CallsKnow, WorkersKnow, QuietWhenDown, Draining
<1> QED BY <1>3, <1>4, <1>5 DEF Inv

LEMMA InvNext ==
  ASSUME Inv, [Next]_vars
  PROVE  Inv'
<1>1. Move
  BY Moves DEF Inv
<1>2. CASE UNCHANGED dispatcherVars
  BY <1>2 DEF dispatcherVars, Inv, Typed, JoinCounts, HeldOnce, KeyIndex, CallsKnow, WorkersKnow,
              QuietWhenDown, Draining, Busy, Exists, Records, Queued, Held, LiveTasks
<1> QED BY <1>1, <1>2, CallMoveKeeps, RecordMoveKeeps, PutMoveKeeps, RefuseMoveKeeps, GetMoveKeeps,
           WorkMoveKeeps, DoneMoveKeeps, CancelMoveKeeps, ServerMoveKeeps DEF Move

LEMMA InvAlways == Spec => []Inv
<1>1. Init => Inv
  BY InvInit
<1>2. Inv /\ [Next]_vars => Inv'
  BY InvNext
<1> QED BY <1>1, <1>2, PTL DEF Spec

-----------------------------------------------------------------------------
(* A step, as the client of one task may see it.                           *)
ClientStep(t) ==
  \/ Phase(t) = "unknown" /\ Phase(t)' = "open" /\ attempts'[t] = attempts[t]
  \/ /\ Phase(t) = "open" /\ attempts[t] < MaxAttempts[t]
     /\ Phase(t)' = Phase(t) /\ attempts'[t] = attempts[t] + 1
  \/ /\ Phase(t) = "open" /\ Phase(t)' \in Outcomes /\ attempts'[t] = attempts[t]
     /\ Phase(t)' = "succeeded" => attempts[t] > 0
  \/ Phase(t) \in Outcomes /\ Phase(t)' = "forgotten" /\ attempts'[t] = attempts[t]
  \/ Phase(t)' = Phase(t) /\ attempts'[t] = attempts[t]

LEMMA ContractStep ==
  ASSUME NEW t \in Tasks, ClientStep(t)
  PROVE  [Contract(t)!PromptNext]_<<Phase(t), attempts[t]>>
<1>1. CASE Phase(t) = "unknown" /\ Phase(t)' = "open" /\ attempts'[t] = attempts[t]
  <2>1. Contract(t)!Accept(t)
    BY <1>1 DEF Contract!Accept
  <2> QED BY <2>1 DEF Contract!PromptNext, Contract!Record
<1>2. CASE /\ Phase(t) = "open" /\ attempts[t] < MaxAttempts[t]
           /\ Phase(t)' = Phase(t) /\ attempts'[t] = attempts[t] + 1
  <2>1. Contract(t)!GrantAndStart(t)
    BY <1>2 DEF Contract!GrantAndStart
  <2> QED BY <2>1 DEF Contract!PromptNext
<1>3. CASE /\ Phase(t) = "open" /\ Phase(t)' \in Outcomes /\ attempts'[t] = attempts[t]
           /\ Phase(t)' = "succeeded" => attempts[t] > 0
  <2>1. PICK outcome : outcome = Phase(t)'
    OBVIOUS
  <2>2. Contract(t)!Decide(t, outcome)
    BY <1>3, <2>1 DEF Contract!Decide
  <2>3. outcome \in Contract(t)!Outcomes
    BY <1>3, <2>1 DEF Contract!Outcomes, Outcomes
  <2> QED BY <2>2, <2>3 DEF Contract!PromptNext, Contract!Record
<1>4. CASE Phase(t) \in Outcomes /\ Phase(t)' = "forgotten" /\ attempts'[t] = attempts[t]
  <2>1. Contract(t)!Forget(t)
    BY <1>4 DEF Contract!Forget, Contract!Outcomes, Outcomes
  <2> QED BY <2>1 DEF Contract!PromptNext, Contract!Record
<1> QED BY <1>1, <1>2, <1>3, <1>4 DEF ClientStep

LEMMA ClientSteps ==
  ASSUME Inv, [Next]_vars, NEW t \in Tasks
  PROVE  ClientStep(t)
<1>1. Move
  BY Moves DEF Inv
<1>2. status \in [Tasks -> {"absent", "evicted"} \cup Live \cup Outcomes] /\ attempts \in [Tasks -> Nat]
  BY DEF Inv, Typed
<1>3. CASE status' = status /\ attempts' = attempts
  BY <1>3 DEF ClientStep, Phase
<1>4. ASSUME NEW u \in Tasks, NEW gone \in SUBSET Tasks, RecordMove(u, gone)
      PROVE  ClientStep(t)
  <2>1. status[u] = "absent"
    BY <1>4 DEF RecordMove, Inv, CallsKnow
  <2>2. /\ status'[t] = IF t = u THEN "queued" ELSE IF t \in gone THEN "evicted" ELSE status[t]
        /\ t \in gone => status[t] \in Outcomes
        /\ attempts' = attempts
    BY <1>4 DEF RecordMove, Insert
  <2> QED BY <1>2, <2>1, <2>2 DEF ClientStep, Phase, Live, Outcomes
<1>5. ASSUME NEW u \in Tasks, NEW to, RefuseMove(u, to)
      PROVE  ClientStep(t)
  <2>1. status[u] = "queued"
    BY <1>5 DEF RefuseMove, Inv, CallsKnow
  <2>2. status'[t] = (IF t = u THEN "rejected" ELSE status[t]) /\ attempts' = attempts
    BY <1>2, <1>5 DEF RefuseMove, Settle
  <2> QED BY <1>2, <2>1, <2>2 DEF ClientStep, Phase, Live, Outcomes
<1>6. ASSUME NEW w \in Workers, GetMove(w)
      PROVE  ClientStep(t)
  <2>1. PICK h \in Tasks : h = Head(queue) /\ Queued(h)
    BY <1>6, TailSet DEF Inv, Typed, HeldOnce, GetMove, Queued
  <2>2. status[h] = "queued" /\ attempts[h] = 0
    BY <2>1, QueuedStatus DEF Inv, CallsKnow
  <2>3. /\ status'[t] = IF t = h THEN "running" ELSE status[t]
        /\ attempts'[t] = IF t = h THEN 0 ELSE attempts[t]
    BY <1>2, <1>6, <2>1 DEF GetMove, Settle
  <2> QED BY <1>2, <2>2, <2>3 DEF ClientStep, Phase, Live, Outcomes
<1>7. ASSUME NEW w \in Workers, WorkMove(w)
      PROVE  ClientStep(t)
  <2>1. PICK u : u = worker[w].task
    OBVIOUS
  <2>2. w \in Busy /\ u \in Tasks
    BY <1>7, <2>1 DEF WorkMove, Busy, Inv, WorkersKnow
  <2>3. status[u] = "running" /\ attempts[u] \in Nat /\ MaxAttempts[u] \in Nat \ {0}
    BY <1>2, <1>7, <2>1, <2>2, DispatcherAssumption DEF WorkMove, Inv, WorkersKnow
  <2>4. CASE worker[w].at \in {"start", "retry"} /\ Invoke(w) /\ UNCHANGED status
    <3>1. attempts[u] < MaxAttempts[u]
      BY <2>1, <2>2, <2>3, <2>4 DEF Inv, WorkersKnow
    <3>2. attempts'[t] = IF t = u THEN attempts[t] + 1 ELSE attempts[t]
      BY <1>2, <2>1, <2>4 DEF Invoke
    <3> QED BY <2>3, <2>4, <3>1, <3>2 DEF ClientStep, Phase, Live
  <2>5. CASE Settle(u, "failed") /\ UNCHANGED attempts
    <3>1. status'[t] = IF t = u THEN "failed" ELSE status[t]
      BY <1>2, <2>5 DEF Settle
    <3> QED BY <2>3, <2>5, <3>1 DEF ClientStep, Phase, Live, Outcomes
  <2> QED BY <1>3, <1>7, <2>1, <2>4, <2>5 DEF WorkMove
<1>8. ASSUME NEW w \in Workers, DoneMove(w)
      PROVE  ClientStep(t)
  <2>1. PICK u : u = worker[w].task
    OBVIOUS
  <2>2. w \in Busy /\ u \in Tasks
    BY <1>8, <2>1 DEF DoneMove, Busy, Inv, WorkersKnow
  <2>3. attempts' = attempts
    BY <1>8 DEF DoneMove
  <2>4. CASE worker[w].at \in {"start", "complete", "output"} /\ Settle(u, "failed")
    <3>1. status'[t] = IF t = u THEN "failed" ELSE status[t]
      BY <1>2, <2>4 DEF Settle
    <3>2. status[u] = "running"
      BY <2>1, <2>2, <2>4 DEF Inv, WorkersKnow
    <3> QED BY <2>3, <3>1, <3>2 DEF ClientStep, Phase, Live, Outcomes
  <2>5. CASE worker[w].at = "output" /\ Settle(u, "succeeded")
    <3>1. status'[t] = IF t = u THEN "succeeded" ELSE status[t]
      BY <1>2, <2>5 DEF Settle
    <3>2. status[u] = "running" /\ attempts[u] > 0
      BY <2>1, <2>2, <2>5 DEF Inv, WorkersKnow
    <3> QED BY <2>3, <3>1, <3>2 DEF ClientStep, Phase, Live, Outcomes
  <2> QED BY <1>3, <1>8, <2>1, <2>3, <2>4, <2>5 DEF DoneMove
<1> QED
  <2>1. ASSUME NEW u \in Tasks, NEW to \in CallPoints, CallMove(u, to) \/ PutMove(u, to)
        PROVE  status' = status /\ attempts' = attempts
    BY <2>1 DEF CallMove, PutMove, storeSame
  <2>2. CASE CancelMove \/ ServerMove \/ UNCHANGED dispatcherVars
    <3>1. CASE CancelMove
      BY <1>3, <3>1 DEF CancelMove, storeSame
    <3>2. CASE ServerMove
      BY <1>3, <3>2 DEF ServerMove, StopDraining, Stopped, Start, storeVars
    <3>3. CASE UNCHANGED dispatcherVars
      BY <1>3, <3>3 DEF dispatcherVars
    <3> QED BY <2>2, <3>1, <3>2, <3>3
  <2> QED BY <1>1, <1>3, <1>4, <1>5, <1>6, <1>7, <1>8, <2>1, <2>2 DEF Move

-----------------------------------------------------------------------------
(* The invariants the runs check, for every instance.                      *)

(* queue.join counts what is queued or in a worker's hands.                *)
THEOREM JoinIsExact == Spec => []JoinCounts
<1>1. Inv => JoinCounts
  BY DEF Inv
<1> QED BY <1>1, InvAlways, PTL

(* No task is queued or held twice.                                        *)
THEOREM NothingIsHeldTwice == Spec => []HeldOnce
<1>1. Inv => HeldOnce
  BY DEF Inv
<1> QED BY <1>1, InvAlways, PTL

(* The idempotency index names exactly the recorded keyed tasks.           *)
THEOREM IndexIsExact == Spec => []KeyIndex
<1>1. Inv => KeyIndex
  BY DEF Inv
<1> QED BY <1>1, InvAlways, PTL

(* stop(drain=True) leaves behind only what was neither queued nor held    *)
(* when it began.                                                          *)
THEOREM DrainIsComplete == Spec => []DrainLosesNothing
<1>1. Inv => DrainLosesNothing
  BY DEF Inv, Draining, DrainLosesNothing, LiveTasks
<1> QED BY <1>1, InvAlways, PTL

(* The in-memory runtime keeps the contract of module TaskContract for     *)
(* each task, strictly: no handler is started for a task with its outcome. *)
THEOREM DispatcherKeepsContract == Spec => KeepsContract
<1>1. Init => \A t \in Tasks : Contract(t)!Init
  BY DEF Init, Contract!Init, Phase
<1>2. Inv /\ [Next]_vars => [\A t \in Tasks : [Contract(t)!PromptNext]_<<Phase(t), attempts[t]>>]_vars
  BY ClientSteps, ContractStep
<1> QED BY <1>1, <1>2, InvAlways, PTL DEF Spec, KeepsContract
=============================================================================
