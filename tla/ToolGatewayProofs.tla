-------------------------- MODULE ToolGatewayProofs --------------------------
(***************************************************************************)
(* Proofs about ToolGateway, for any number of calls, resumes, tickets,    *)
(* plans and policy versions.                                              *)
(***************************************************************************)
EXTENDS ToolGateway, FiniteSetTheorems, TLAPS

(* An approval transaction keeps the rows well typed and never takes a     *)
(* consumed row back (SQLiteApprovalStore).                                *)
RowsKept ==
  /\ row' \in [Calls -> RowStatuses]
  /\ key' \in [Calls -> Keys \cup {None}]
  /\ masked' \subseteq Calls
  /\ stale' \subseteq Calls
  /\ \A d \in Calls : row[d] = "consumed" => row'[d] = "consumed"

(* A row is inserted under the caller's key or a made-up one.              *)
Creates(c) == \E k \in Keys \cup {None} : create(c, k)

(* Both callers of SQLiteApprovalStore.create insert at most one row.      *)
LEMMA Creation ==
  ASSUME ApprovalAssumption, NEW c \in Calls
  PROVE  /\ CheckTool(c) => Creates(c)
         /\ Create(c) => Creates(c) \/ UNCHANGED approvalVars
  BY DEF CheckTool, Create, Creates

(* Each transaction of SQLiteApprovalStore keeps the rows as RowsKept says.*)
LEMMA RowStep ==
  ASSUME ApprovalTypeOK, NEW c \in Calls,
         \/ Creates(c) \/ (\E decision \in Decided : decide(c, decision))
         \/ consume(c) \/ consume_refused(c) \/ revoke(c) \/ expire(c) \/ row_ages(c)
         \/ UNCHANGED approvalVars
  PROVE  RowsKept
<1> USE DEF ApprovalTypeOK, RowsKept, RowStatuses, Granted, Closed, Decided, SetRow
<1>1. CASE Creates(c)
  BY <1>1 DEF Creates, create
<1>2. CASE \E decision \in Decided : decide(c, decision)
  BY <1>2 DEF decide
<1>3. CASE consume(c)
  BY <1>3 DEF consume
<1>4. CASE consume_refused(c)
  BY <1>4 DEF consume_refused, approvalVars
<1>5. CASE revoke(c) \/ expire(c)
  BY <1>5 DEF revoke, expire
<1>6. CASE row_ages(c)
  BY <1>6 DEF row_ages
<1>7. CASE UNCHANGED approvalVars
  BY <1>7 DEF approvalVars
<1> QED
  BY <1>1, <1>2, <1>3, <1>4, <1>5, <1>6, <1>7

(* What a step of one job leaves of the others.                            *)
Alone(j) ==
  /\ job' \in [Jobs -> JobStates]
  /\ \A i \in Jobs \ {j} : job'[i] = job[i]

(* A job that is given a new state leaves the other jobs alone (request    *)
(* threads share no memory, runtime.py).                                   *)
LEMMA JobUpdate ==
  ASSUME TypeOK, NEW j \in Jobs, NEW x \in JobStates, job' = [job EXCEPT ![j] = x]
  PROVE  Alone(j) /\ job'[j] = x
  BY DEF TypeOK, Alone

(* Going on to another point keeps what the job has read (the locals of    *)
(* guarded_tool_call and resume_approved_tool_call).                       *)
LEMMA JobGoto ==
  ASSUME TypeOK, NEW j \in Jobs, NEW point \in Points, Goto(j, point)
  PROVE  /\ Alone(j)
         /\ job'[j].at = point
         /\ job'[j].row = job[j].row /\ job'[j].form = job[j].form
         /\ job'[j].ticket = job[j].ticket /\ job'[j].version = job[j].version
<1>1. job[j] \in JobStates /\ job \in [Jobs -> JobStates]
  BY DEF TypeOK
<1> QED
  BY <1>1 DEF Goto, Alone, JobStates

(* A call that returns or raises early is over (runtime.py).               *)
LEMMA JobEnd ==
  ASSUME TypeOK, NEW j \in Jobs, End(j)
  PROVE  Alone(j) /\ job'[j].at = "over"
<1>1. Over \in JobStates /\ Over.at = "over"
  BY DEF Over, Rest, JobStates, Points, Forms
<1> QED
  BY <1>1, JobUpdate DEF End

(* A job that has called its tool is over and stays as it is.              *)
RanOver == \A j \in ran : job[j].at = "over"

(* How one step of job j may change it, unless it calls its tool: it goes  *)
(* on with the row it has read, or it ends.                                *)
Moves(j) ==
  /\ Alone(j)
  /\ job[j].at # "over"
  /\ ran' = ran
  /\ \/ job'[j].at = "over"
     \/ /\ job'[j].at \notin {"idle", "over"}
        /\ j \in Resumes => job'[j].row # None

(* A move keeps the jobs well formed (runtime.py).                         *)
LEMMA TypeByMove ==
  ASSUME TypeOK, RanOver, NEW j \in Jobs, Moves(j)
  PROVE  /\ job' \in [Jobs -> JobStates]
         /\ \A r \in Resumes : job'[r].at \notin {"idle", "over"} \/ r \in ran' => job'[r].row # None
         /\ ran' \subseteq Jobs
         /\ RanOver'
<1>1. \A i \in Jobs \ {j} : job'[i] = job[i]
  BY DEF Moves, Alone
<1>2. j \notin ran
  BY DEF Moves, RanOver
<1> QED
  BY <1>1, <1>2 DEF TypeOK, RanOver, Moves, Alone, Jobs

(* Every job action but Run is such a move.                                *)
LEMMA JobMoves ==
  ASSUME TypeOK, GatewayAssumption
  PROVE  /\ \A c \in Calls : CheckTool(c) \/ Create(c) \/ (\E k \in Issued \cup {None} : Begin(c, k)) => Moves(c)
         /\ \A r \in Resumes : Preview(r) \/ Consume(r)
                               \/ (\E c \in Calls, k \in Issued : Read(r, c, k)) => Moves(r)
         /\ \A j \in Jobs : Check(j) \/ Graph(j) \/ Spend(j) \/ TakeStep(j) \/ Abort(j) => Moves(j)
<1>1. ASSUME NEW j \in Jobs, job[j].at \notin {"idle", "over"}, End(j), ran' = ran
      PROVE  Moves(j)
  BY <1>1, JobEnd DEF Moves
<1>2. ASSUME NEW j \in Jobs, job[j].at \notin {"idle", "over"}, ran' = ran,
             NEW point \in Points \ {"idle", "over"}, Goto(j, point)
      PROVE  Moves(j)
  BY <1>2, JobGoto DEF Moves, TypeOK
<1>3. ASSUME NEW c \in Calls, CheckTool(c) \/ Create(c)
      PROVE  Moves(c)
  BY <1>3, JobEnd DEF Moves, CheckTool, Create, Jobs, jobRest
<1>4. ASSUME NEW c \in Calls, NEW k \in Issued \cup {None}, Begin(c, k)
      PROVE  Moves(c)
  <2>1. c \in Jobs /\ job[c] \in JobStates /\ c \notin Resumes
    BY GatewayAssumption DEF Jobs, TypeOK
  <2>2. [job[c] EXCEPT !.at = "check", !.ticket = k] \in JobStates
    BY <2>1 DEF JobStates, Points, Issued
  <2>3. [job[c] EXCEPT !.at = "check", !.ticket = k].at = "check"
    BY <2>1 DEF JobStates
  <2>4. Alone(c) /\ job'[c] = [job[c] EXCEPT !.at = "check", !.ticket = k]
    BY <1>4, <2>1, <2>2, JobUpdate DEF Begin
  <2> QED
    BY <1>4, <2>1, <2>3, <2>4 DEF Moves, Begin, jobRest
<1>5. ASSUME NEW r \in Resumes, NEW c \in Calls, NEW k \in Issued, Read(r, c, k)
      PROVE  Moves(r)
  <2> DEFINE x == [at |-> "check", row |-> c, form |-> IF c \in masked THEN "masked" ELSE "plain",
                   version |-> None, ticket |-> k]
  <2>1. r \in Jobs /\ c # None
    BY ApprovalAssumption DEF Jobs
  <2>2. x \in JobStates
    BY DEF JobStates, Points, Forms, Issued
  <2>3. Alone(r) /\ job'[r] = x
    BY <1>5, <2>1, <2>2, JobUpdate DEF Read
  <2> QED
    BY <1>5, <2>1, <2>3 DEF Moves, Read, jobRest
<1>6. ASSUME NEW r \in Resumes, Preview(r) \/ Consume(r)
      PROVE  Moves(r)
  BY <1>1, <1>2, <1>6 DEF Preview, Consume, jobRest, Points, Jobs
<1>7. ASSUME NEW j \in Jobs, Check(j)
      PROVE  Moves(j)
  <2> DEFINE x == [job[j] EXCEPT !.at = "graph", !.version = policy]
  <2>1. CASE End(j)
    BY <1>1, <1>7, <2>1 DEF Check, jobRest
  <2>2. CASE job' = [job EXCEPT ![j] = x]
    <3>1. job[j] \in JobStates /\ policy \in Versions
      BY DEF TypeOK
    <3>2. x \in JobStates /\ x.at = "graph" /\ x.row = job[j].row
      BY <3>1 DEF JobStates, Points
    <3>3. Alone(j) /\ job'[j] = x
      BY <2>2, <3>2, JobUpdate
    <3> QED
      BY <1>7, <3>2, <3>3 DEF Moves, Check, jobRest, TypeOK
  <2> QED
    BY <1>7, <2>1, <2>2 DEF Check
<1>8. ASSUME NEW j \in Jobs, Graph(j) \/ Spend(j) \/ TakeStep(j) \/ Abort(j)
      PROVE  Moves(j)
  <2>1. CASE Graph(j)
    BY <1>1, <1>2, <2>1 DEF Graph, jobRest, Points
  <2>2. CASE Spend(j) \/ TakeStep(j)
    BY <1>1, <1>2, <2>2 DEF Spend, TakeStep, Points
  <2>3. CASE Abort(j)
    BY <1>1, <2>3 DEF Abort, jobRest
  <2> QED
    BY <1>8, <2>1, <2>2, <2>3
<1> QED
  BY <1>3, <1>4, <1>5, <1>6, <1>7, <1>8

-----------------------------------------------------------------------------
(* Types.                                                                  *)

(* The parts of TypeOK beside the rows.                                    *)
LedgersOK ==
  /\ ticket \in [Tickets -> Bound \cup {None}]
  /\ late \subseteq Tickets
  /\ uses \in [Tickets -> 0 .. MaxUses]
  /\ steps \in [Steps -> Nat]
  /\ policy \in Versions

JobsOK ==
  /\ job \in [Jobs -> JobStates]
  /\ \A r \in Resumes : job[r].at \notin {"idle", "over"} \/ r \in ran => job[r].row # None
  /\ ran \subseteq Jobs

(* Only the ledger, the plan counters, the policy and issuing touch what   *)
(* rows and jobs do not (capabilities.py, task_graph.py).                  *)
LEMMA TypeStep ==
  ASSUME TypeOK, RanOver, GatewayAssumption, ApprovalAssumption, [Next]_vars
  PROVE  TypeOK' /\ RanOver'
<1>1. ASSUME RowsKept PROVE ApprovalTypeOK'
  BY <1>1 DEF RowsKept, ApprovalTypeOK
<1>2. ASSUME UNCHANGED approvalVars PROVE ApprovalTypeOK'
  BY <1>2 DEF approvalVars, ApprovalTypeOK, TypeOK
<1>3. ASSUME UNCHANGED <<ticket, late, uses, steps, policy>> PROVE LedgersOK'
  BY <1>3 DEF TypeOK, LedgersOK
<1>4. ASSUME UNCHANGED <<job, ran>> PROVE JobsOK' /\ RanOver'
  BY <1>4 DEF TypeOK, JobsOK, RanOver
<1>5. ASSUME NEW j \in Jobs, Moves(j) PROVE JobsOK' /\ RanOver'
  BY <1>5, TypeByMove DEF JobsOK
<1>6. ASSUME NEW k \in Tickets, NEW i \in Intents, NEW f \in Forms, Issue(k, i, f)
      PROVE  ApprovalTypeOK' /\ LedgersOK' /\ JobsOK' /\ RanOver'
  <2>1. [intent |-> i, form |-> f, version |-> policy] \in Bound
    BY DEF TypeOK, Bound
  <2>2. LedgersOK'
    BY <1>6, <2>1 DEF Issue, TypeOK, LedgersOK
  <2> QED
    BY <1>2, <1>4, <1>6, <2>2 DEF Issue
<1>7. ASSUME \/ \E k \in Tickets : TicketAges(k)
             \/ PolicyChanges
      PROVE  ApprovalTypeOK' /\ LedgersOK' /\ JobsOK' /\ RanOver'
  <2>1. LedgersOK'
    BY <1>7 DEF TicketAges, PolicyChanges, TypeOK, LedgersOK, Issued
  <2> QED
    BY <1>2, <1>4, <1>7, <2>1 DEF TicketAges, PolicyChanges
<1>8. ASSUME NEW c \in Calls, ApproverStep(c)
      PROVE  ApprovalTypeOK' /\ LedgersOK' /\ JobsOK' /\ RanOver'
  BY <1>1, <1>3, <1>4, <1>8, RowStep DEF ApproverStep, gatewayVars, TypeOK
<1>9. ASSUME NEW c \in Calls, CheckTool(c) \/ Create(c) \/ (\E k \in Issued \cup {None} : Begin(c, k))
      PROVE  ApprovalTypeOK' /\ LedgersOK' /\ JobsOK' /\ RanOver'
  <2>1. JobsOK' /\ RanOver'
    BY <1>5, <1>9, JobMoves DEF Jobs
  <2>2. LedgersOK'
    BY <1>3, <1>9 DEF CheckTool, Create, Begin, jobRest
  <2>3. ApprovalTypeOK'
    BY <1>1, <1>2, <1>9, RowStep, Creation DEF Begin, TypeOK
  <2> QED
    BY <2>1, <2>2, <2>3
<1>10. ASSUME NEW r \in Resumes, \/ Preview(r) \/ Consume(r)
                                 \/ \E c \in Calls, k \in Issued : Read(r, c, k)
       PROVE  ApprovalTypeOK' /\ LedgersOK' /\ JobsOK' /\ RanOver'
  <2>1. JobsOK' /\ RanOver'
    BY <1>5, <1>10, JobMoves DEF Jobs
  <2>2. LedgersOK'
    BY <1>3, <1>10 DEF Preview, Consume, Read, jobRest
  <2>3. CASE Preview(r)
    BY <1>2, <2>1, <2>2, <2>3 DEF Preview
  <2>4. CASE Consume(r)
    <3>1. job[r].row \in Calls
      BY <2>4 DEF Consume, TypeOK, JobStates, Jobs
    <3>2. RowsKept
      BY <2>4, <3>1, RowStep DEF Consume, TypeOK
    <3> QED
      BY <1>1, <2>1, <2>2, <3>2
  <2>5. CASE \E c \in Calls, k \in Issued : Read(r, c, k)
    BY <1>1, <1>2, <2>1, <2>2, <2>5, RowStep DEF Read, TypeOK
  <2> QED
    BY <1>10, <2>1, <2>2, <2>3, <2>4, <2>5
<1>11. ASSUME NEW j \in Jobs, Check(j) \/ Graph(j) \/ Spend(j) \/ TakeStep(j) \/ Abort(j)
       PROVE  ApprovalTypeOK' /\ LedgersOK' /\ JobsOK' /\ RanOver'
  <2>1. JobsOK' /\ RanOver'
    BY <1>5, <1>11, JobMoves
  <2>2. ApprovalTypeOK'
    BY <1>2, <1>11 DEF Check, Graph, Spend, TakeStep, Abort
  <2>3. CASE Check(j) \/ Graph(j) \/ Abort(j)
    BY <1>3, <2>1, <2>2, <2>3 DEF Check, Graph, Abort, jobRest
  <2>4. CASE Spend(j)
    <3> DEFINE k == job[j].ticket
    <3>1. /\ UNCHANGED <<ticket, late, steps, policy>>
          /\ \/ /\ k \in Tickets /\ uses[k] < MaxUses
                /\ uses' = [uses EXCEPT ![k] = @ + 1]
             \/ UNCHANGED uses
      BY <2>4 DEF Spend, Authorized, Unspent, Issued
    <3>2. uses \in [Tickets -> 0 .. MaxUses] /\ MaxUses \in Nat
      BY GatewayAssumption DEF TypeOK
    <3>3. uses' \in [Tickets -> 0 .. MaxUses]
      <4> HIDE DEF k
      <4> QED
        BY <3>1, <3>2
    <3>4. LedgersOK'
      BY <3>1, <3>3 DEF TypeOK, LedgersOK
    <3> QED
      BY <2>1, <2>2, <3>4
  <2>5. CASE TakeStep(j)
    <3>1. LedgersOK'
      BY <2>5, GatewayAssumption DEF TakeStep, TypeOK, LedgersOK
    <3> QED
      BY <2>1, <2>2, <3>1
  <2> QED
    BY <1>11, <2>1, <2>2, <2>3, <2>4, <2>5
<1>12. ASSUME NEW j \in Jobs, Run(j)
       PROVE  ApprovalTypeOK' /\ LedgersOK' /\ JobsOK' /\ RanOver'
  <2>1. ApprovalTypeOK' /\ LedgersOK'
    BY <1>2, <1>3, <1>12 DEF Run
  <2>2. Alone(j) /\ job'[j].at = "over" /\ job'[j].row = job[j].row
    BY <1>12, JobGoto DEF Run, Points
  <2> QED
    BY <1>12, <2>1, <2>2 DEF Run, Alone, TypeOK, JobsOK, RanOver, Jobs
<1>13. ASSUME UNCHANGED vars
       PROVE  ApprovalTypeOK' /\ LedgersOK' /\ JobsOK' /\ RanOver'
  BY <1>2, <1>3, <1>4, <1>13 DEF vars, gatewayVars
<1>14. ApprovalTypeOK' /\ LedgersOK' /\ JobsOK' /\ RanOver'
  BY <1>6, <1>7, <1>8, <1>9, <1>10, <1>11, <1>12, <1>13 DEF Next, JobStep
<1> QED
  BY <1>14 DEF TypeOK, LedgersOK, JobsOK

(* Rows, ledgers and jobs are well formed in every reachable state: a      *)
(* ticket is never used more often than max_uses, and a resume that is     *)
(* under way has a row (SQLiteCapabilityLedger, resume_approved_tool_call).*)
THEOREM GatewayTypeCorrect == Spec => [](TypeOK /\ RanOver)
<1>1. Init => TypeOK /\ RanOver
  BY GatewayAssumption
     DEF Init, ApprovalInit, TypeOK, ApprovalTypeOK, RowStatuses, RanOver, Rest, JobStates,
         Points, Forms, Jobs
<1>2. TypeOK /\ RanOver /\ [Next]_vars => TypeOK' /\ RanOver'
  BY TypeStep, GatewayAssumption, ApprovalAssumption
<1> QED
  BY <1>1, <1>2, PTL DEF Spec

-----------------------------------------------------------------------------
(* What a step does to a job.                                              *)

Same(j) ==
  /\ job'[j].row = job[j].row /\ job'[j].form = job[j].form
  /\ job'[j].ticket = job[j].ticket /\ job'[j].version = job[j].version

From(j, p, q) == job[j].at = p /\ job'[j].at = q /\ Alone(j)
NoCount       == UNCHANGED <<uses, steps, ran>>

Starts(j)   == Alone(j) /\ j \notin ran /\ job'[j].at \in {"over", "check"} /\ NoCount
Passes(j)   == /\ From(j, "check", "graph") /\ NoCount
               /\ job'[j].row = job[j].row
               /\ job'[j].version = policy /\ Verdict[policy][IntentOf(j)] # "block"
Waits(j)    == \E p, q \in {"graph", "create", "preview", "consume"} :
                 From(j, p, q) /\ Same(j) /\ NoCount
Direct(j)   == /\ From(j, "graph", "spend") /\ Same(j) /\ NoCount
               /\ j \in Calls /\ Verdict[job[j].version][Intent[j]] # "require_approval"
Consumes(r) == /\ From(r, "consume", "spend") /\ Same(r) /\ NoCount
               /\ r \in Resumes /\ consume(job[r].row)
Spends(j)   == /\ From(j, "spend", "step") /\ Same(j) /\ UNCHANGED <<steps, ran>>
               /\ Authorized(j) /\ Unspent(job[j].ticket)
               /\ uses' = [uses EXCEPT ![job[j].ticket] = @ + 1]
Counts(j)   == /\ From(j, "step", "run") /\ Same(j) /\ UNCHANGED <<uses, ran>>
               /\ StepAllowed(Step[IntentOf(j)])
               /\ steps' = IF Step[IntentOf(j)] = None THEN steps
                           ELSE [steps EXCEPT ![Step[IntentOf(j)]] = @ + 1]
Runs(j)     == /\ From(j, "run", "over") /\ Same(j) /\ UNCHANGED <<uses, steps>>
               /\ ran' = ran \cup {j}

Kinds(j) == Starts(j) \/ Passes(j) \/ Waits(j) \/ Direct(j) \/ Consumes(j)
            \/ Spends(j) \/ Counts(j) \/ Runs(j)

TicketsKept == \A k \in Issued : ticket'[k] = ticket[k]

(* Every step keeps what is consumed or issued, and changes at most one    *)
(* job, in one of the ways above (guarded_tool_call,                       *)
(* resume_approved_tool_call).                                             *)
LEMMA StepKinds ==
  ASSUME TypeOK, RanOver, GatewayAssumption, ApprovalAssumption, [Next]_vars
  PROVE  /\ RowsKept /\ TicketsKept
         /\ UNCHANGED <<job, uses, steps, ran>> \/ \E j \in Jobs : Kinds(j)
<1> DEFINE Goal == /\ RowsKept /\ TicketsKept
                   /\ UNCHANGED <<job, uses, steps, ran>> \/ \E j \in Jobs : Kinds(j)
<1>1. ASSUME UNCHANGED approvalVars PROVE RowsKept
  <2>1. ApprovalTypeOK
    BY DEF TypeOK
  <2> QED
    BY <1>1, <2>1 DEF RowsKept, ApprovalTypeOK, approvalVars
<1>2. ASSUME UNCHANGED ticket PROVE TicketsKept
  BY <1>2 DEF TicketsKept
<1>3. ASSUME NEW j \in Jobs, job[j].at # "over", End(j), NoCount PROVE Starts(j)
  BY <1>3, JobEnd DEF Starts, RanOver
<1>4. ASSUME NEW k \in Tickets, NEW i \in Intents, NEW f \in Forms, Issue(k, i, f)
      PROVE  Goal
  BY <1>1, <1>4 DEF Issue, TicketsKept, Issued, TypeOK
<1>5. ASSUME (\E k \in Tickets : TicketAges(k)) \/ PolicyChanges
      PROVE  Goal
  BY <1>1, <1>2, <1>5 DEF TicketAges, PolicyChanges
<1>6. ASSUME NEW c \in Calls, ApproverStep(c)
      PROVE  Goal
  BY <1>2, <1>6, RowStep DEF ApproverStep, gatewayVars, TypeOK
<1>7. ASSUME NEW c \in Calls, CheckTool(c) \/ Create(c)
      PROVE  Goal
  <2>1. c \in Jobs
    BY DEF Jobs
  <2>2. RowsKept
    BY <1>1, <1>7, RowStep, Creation DEF TypeOK
  <2>3. Starts(c)
    BY <1>3, <1>7, <2>1 DEF CheckTool, Create, jobRest, NoCount
  <2> QED
    BY <1>2, <1>7, <2>1, <2>2, <2>3 DEF CheckTool, Create, jobRest, Kinds
<1>8. ASSUME NEW c \in Calls, NEW k \in Issued \cup {None}, Begin(c, k)
      PROVE  Goal
  <2>1. c \in Jobs /\ job[c] \in JobStates
    BY DEF Jobs, TypeOK
  <2>2. /\ [job[c] EXCEPT !.at = "check", !.ticket = k] \in JobStates
        /\ [job[c] EXCEPT !.at = "check", !.ticket = k].at = "check"
    BY <2>1 DEF JobStates, Points, Issued
  <2>3. Starts(c)
    BY <1>8, <2>1, <2>2, JobUpdate DEF Begin, Starts, NoCount, jobRest, RanOver
  <2> QED
    BY <1>1, <1>2, <1>8, <2>1, <2>3 DEF Begin, jobRest, Kinds
<1>9. ASSUME NEW r \in Resumes, NEW c \in Calls, NEW k \in Issued, Read(r, c, k)
      PROVE  Goal
  <2> DEFINE x == [at |-> "check", row |-> c, form |-> IF c \in masked THEN "masked" ELSE "plain",
                   version |-> None, ticket |-> k]
  <2>1. r \in Jobs
    BY DEF Jobs
  <2>2. x \in JobStates
    BY DEF JobStates, Points, Forms, Issued
  <2>3. Alone(r) /\ job'[r] = x
    BY <1>9, <2>1, <2>2, JobUpdate DEF Read
  <2>4. Starts(r)
    BY <1>9, <2>3 DEF Read, Starts, NoCount, jobRest, RanOver
  <2>5. RowsKept
    BY <1>1, <1>9, RowStep DEF Read, TypeOK
  <2> QED
    BY <1>2, <1>9, <2>1, <2>4, <2>5 DEF Read, jobRest, Kinds
<1>10. ASSUME NEW j \in Jobs, Check(j)
       PROVE  Goal
  <2> DEFINE x == [job[j] EXCEPT !.at = "graph", !.version = policy]
  <2>1. job[j] \in JobStates /\ policy \in Versions
    BY DEF TypeOK
  <2>2. /\ x \in JobStates /\ x.at = "graph" /\ x.row = job[j].row
        /\ x.version = policy
    BY <2>1 DEF JobStates, Points
  <2>3. Starts(j) \/ Passes(j)
    <3>1. CASE End(j)
      BY <1>3, <1>10, <3>1 DEF Check, NoCount, jobRest
    <3>2. CASE job' = [job EXCEPT ![j] = x] /\ Verdict[policy][IntentOf(j)] # "block"
      BY <1>10, <2>2, <3>2, JobUpdate DEF Check, Passes, From, NoCount, jobRest
    <3> QED
      BY <1>10, <3>1, <3>2 DEF Check
  <2> QED
    BY <1>1, <1>2, <1>10, <2>3 DEF Check, jobRest, Kinds
<1>11. ASSUME NEW r \in Resumes, Preview(r) \/ Consume(r)
       PROVE  Goal
  <2>1. r \in Jobs
    BY DEF Jobs
  <2>2. CASE Preview(r)
    <3>1. Starts(r) \/ Waits(r)
      BY <1>3, <2>1, <2>2, JobGoto DEF Preview, Waits, From, Same, NoCount, jobRest, Points
    <3> QED
      BY <1>1, <1>2, <2>1, <2>2, <3>1 DEF Preview, jobRest, Kinds
  <2>3. CASE Consume(r)
    <3>1. job[r].row \in Calls
      BY <2>1, <2>3 DEF Consume, TypeOK, JobStates
    <3>2. RowsKept
      BY <2>3, <3>1, RowStep DEF Consume, TypeOK
    <3>3. Starts(r) \/ Consumes(r)
      BY <1>3, <2>1, <2>3, JobGoto DEF Consume, Consumes, From, Same, NoCount, jobRest, Points
    <3> QED
      BY <1>2, <2>1, <2>3, <3>2, <3>3 DEF Consume, jobRest, Kinds
  <2> QED
    BY <1>11, <2>2, <2>3
<1>12. ASSUME NEW j \in Jobs, Graph(j)
       PROVE  Goal
  <2>1. Starts(j) \/ Waits(j) \/ Direct(j)
    <3>1. CASE End(j)
      BY <1>3, <1>12, <3>1 DEF Graph, NoCount, jobRest
    <3>2. CASE Goto(j, "preview") \/ Goto(j, "create")
      BY <1>12, <3>2, JobGoto DEF Graph, Waits, From, Same, NoCount, jobRest, Points
    <3>3. CASE /\ j \in Calls /\ Goto(j, "spend")
               /\ Verdict[job[j].version][Intent[j]] # "require_approval"
      BY <1>12, <3>3, JobGoto DEF Graph, Direct, From, Same, NoCount, jobRest, Points
    <3> QED
      BY <1>12, <3>1, <3>2, <3>3 DEF Graph, Jobs
  <2> QED
    BY <1>1, <1>2, <1>12, <2>1 DEF Graph, jobRest, Kinds
<1>13. ASSUME NEW j \in Jobs, Spend(j)
       PROVE  Goal
  <2>1. Starts(j) \/ Spends(j)
    BY <1>3, <1>13, JobGoto DEF Spend, Spends, From, Same, NoCount, Points
  <2> QED
    BY <1>1, <1>2, <1>13, <2>1 DEF Spend, Kinds
<1>14. ASSUME NEW j \in Jobs, TakeStep(j)
       PROVE  Goal
  <2>1. Starts(j) \/ Counts(j)
    BY <1>3, <1>14, JobGoto DEF TakeStep, Counts, From, Same, NoCount, Points
  <2> QED
    BY <1>1, <1>2, <1>14, <2>1 DEF TakeStep, Kinds
<1>15. ASSUME NEW j \in Jobs, Run(j) \/ Abort(j)
       PROVE  Goal
  <2>1. Starts(j) \/ Runs(j)
    BY <1>3, <1>15, JobGoto DEF Run, Abort, Runs, From, Same, NoCount, Points, jobRest
  <2> QED
    BY <1>1, <1>2, <1>15, <2>1 DEF Run, Abort, jobRest, Kinds
<1>16. ASSUME UNCHANGED vars
       PROVE  Goal
  BY <1>1, <1>2, <1>16 DEF vars, gatewayVars
<1> HIDE DEF Goal
<1>17. Goal
  BY <1>4, <1>5, <1>6, <1>7, <1>8, <1>9, <1>10, <1>11, <1>12, <1>13, <1>14, <1>15, <1>16
     DEF Next, JobStep
<1> QED
  BY <1>17 DEF Goal

-----------------------------------------------------------------------------
(* How far a job has come.  Each set of points leads only to the next one, *)
(* so a job is past a point if it is at a later one or has run.            *)

Past(j, points) == j \in ran \/ job[j].at \in points

Counted == {"run"}
Spent   == {"step"} \cup Counted
Held    == {"spend"} \cup Spent
Passed  == {"graph", "create", "preview", "consume"} \cup Held

(* A job gets past a point only by the step that point stands for, and     *)
(* from then on keeps what it was decided on (runtime.py passes the record,*)
(* the arguments and the token down unchanged).                            *)
LEMMA Progress ==
  ASSUME TypeOK, RanOver, NEW j \in Jobs, Kinds(j), NEW i \in Jobs
  PROVE  /\ Past(i, Counted)' => (Past(i, Counted) /\ Same(i)) \/ (i = j /\ Counts(j))
         /\ Past(i, Spent)' => (Past(i, Spent) /\ Same(i)) \/ (i = j /\ Spends(j))
         /\ Past(i, Held)' => (Past(i, Held) /\ Same(i)) \/ (i = j /\ (Direct(j) \/ Consumes(j)))
         /\ Past(i, Passed)' => (Past(i, Passed) /\ Same(i)) \/ (i = j /\ Passes(j))
<1> USE DEF Past, Counted, Spent, Held, Passed
<1>1. CASE i # j
  <2>1. job'[i] = job[i] /\ (i \in ran' => i \in ran)
    BY <1>1 DEF Kinds, Starts, Passes, Waits, Direct, Consumes, Spends, Counts, Runs, From,
                NoCount, Alone
  <2> QED
    BY <2>1 DEF Same
<1>2. CASE i = j
  <2>1. CASE Starts(j)
    BY <1>2, <2>1 DEF Starts, NoCount
  <2>2. CASE Passes(j) \/ Waits(j)
    BY <1>2, <2>2 DEF Passes, Waits, From, NoCount, RanOver
  <2>3. CASE Direct(j) \/ Consumes(j)
    BY <1>2, <2>3 DEF Direct, Consumes, From, NoCount, RanOver
  <2>4. CASE Spends(j) \/ Counts(j)
    BY <1>2, <2>4 DEF Spends, Counts, From, RanOver
  <2>5. CASE Runs(j)
    BY <1>2, <2>5 DEF Runs, From
  <2> QED
    BY <2>1, <2>2, <2>3, <2>4, <2>5 DEF Kinds
<1> QED
  BY <1>1, <1>2

(* Steps of approvers, tickets and policies leave every job where it is    *)
(* (approvals.py, capabilities.py, policy_releases.py).                    *)
LEMMA Still ==
  ASSUME UNCHANGED <<job, ran>>, NEW i \in Jobs
  PROVE  /\ Same(i)
         /\ Past(i, Counted)' = Past(i, Counted) /\ Past(i, Spent)' = Past(i, Spent)
         /\ Past(i, Held)' = Past(i, Held) /\ Past(i, Passed)' = Past(i, Passed)
  BY DEF Same, Past, Counted, Spent, Held, Passed

-----------------------------------------------------------------------------
(* Approvals.                                                              *)

(* A resume past consume holds the one consumption of its approval.        *)
HoldInv ==
  /\ \A r \in Resumes : Past(r, Held) => row[job[r].row] = "consumed"
  /\ \A r, q \in Resumes : Past(r, Held) /\ Past(q, Held) /\ job[r].row = job[q].row => r = q

(* A call that asks for no approval passed under a verdict to allow it.    *)
DirectInv == \A c \in Calls : Past(c, Held) => Verdict[job[c].version][Intent[c]] = "allow"

(* Whatever got past the policy check was not blocked by it.               *)
PassInv ==
  \A j \in Jobs : Past(j, Passed) => /\ job[j].version \in Versions
                                     /\ Verdict[job[j].version][IntentOf(j)] # "block"

(* What spent a use of a ticket presented one bound to just what it does.  *)
BindInv ==
  \A j \in Jobs : Past(j, Spent) =>
    /\ job[j].ticket \in Issued
    /\ ticket[job[j].ticket] =
         [intent |-> IntentOf(j), form |-> job[j].form, version |-> job[j].version]

DecisionInv == TypeOK /\ RanOver /\ HoldInv /\ DirectInv /\ PassInv /\ BindInv

(* Only the consume transaction makes a resume a holder, and it takes a    *)
(* row that nobody holds (SQLiteApprovalStore.consume).                    *)
LEMMA HoldStep ==
  ASSUME TypeOK, RanOver, HoldInv, GatewayAssumption, ApprovalAssumption, [Next]_vars
  PROVE  HoldInv'
<1>1. /\ RowsKept
      /\ UNCHANGED <<job, uses, steps, ran>> \/ \E j \in Jobs : Kinds(j)
  BY StepKinds
<1>2. \A r \in Resumes : r \in Jobs /\ (Past(r, Held) => job[r].row \in Calls)
  <2>1. "consumed" # "none" /\ None \notin Calls
    BY ApprovalAssumption
  <2> QED
    BY <2>1 DEF Jobs, TypeOK, JobStates, Past, Held, Spent, Counted
<1>3. CASE UNCHANGED <<job, uses, steps, ran>>
  BY <1>1, <1>2, <1>3, Still DEF HoldInv, Same, RowsKept
<1>4. ASSUME NEW j \in Jobs, Kinds(j)
      PROVE  HoldInv'
  <2>1. CASE Consumes(j)
    <3>1. /\ j \in Resumes /\ job[j].row \in Calls /\ ~Past(j, Held)
          /\ job'[j].row = job[j].row /\ ran' = ran
      BY <2>1 DEF Consumes, From, Same, NoCount, Alone, TypeOK, JobStates, Past, Held, Spent,
                  Counted, RanOver
    <3>2. row[job[j].row] # "consumed" /\ row'[job[j].row] = "consumed"
      BY <2>1, <3>1 DEF Consumes, consume, SetRow, Granted, TypeOK, ApprovalTypeOK
    <3>3. \A r \in Resumes : Past(r, Held)' => r = j \/ (Past(r, Held) /\ job'[r].row = job[r].row)
      BY <1>2, <1>4, Progress DEF Same
    <3> QED
      BY <1>1, <1>2, <3>1, <3>2, <3>3 DEF HoldInv, RowsKept
  <2>2. CASE ~Consumes(j)
    <3>1. \A r \in Resumes : Past(r, Held)' => Past(r, Held) /\ job'[r].row = job[r].row
      <4>1. \A r \in Resumes : r \notin Calls
        BY GatewayAssumption
      <4> QED
        BY <1>2, <1>4, <2>2, <4>1, Progress DEF Same, Direct
    <3> QED
      BY <1>1, <1>2, <3>1 DEF HoldInv, RowsKept
  <2> QED
    BY <2>1, <2>2
<1> QED
  BY <1>1, <1>3, <1>4

-----------------------------------------------------------------------------
(* Verdicts and tickets.                                                   *)

(* The arguments of a resume are those of its row (runtime.py).            *)
LEMMA IntentKept ==
  ASSUME NEW i \in Jobs, job'[i].row = job[i].row
  PROVE  IntentOf(i)' = IntentOf(i)
  BY DEF IntentOf

(* guard.check precedes everything else of a call, and its version is the  *)
(* one the rest of the call goes by (runtime.py).                          *)
LEMMA PassStep ==
  ASSUME TypeOK, RanOver, PassInv, GatewayAssumption, ApprovalAssumption, [Next]_vars
  PROVE  PassInv'
<1>1. UNCHANGED <<job, uses, steps, ran>> \/ \E j \in Jobs : Kinds(j)
  BY StepKinds
<1>2. \A i \in Jobs : Past(i, Passed)' =>
         \/ Past(i, Passed) /\ Same(i)
         \/ Passes(i)
  BY <1>1, Progress, Still
<1>3. ASSUME NEW i \in Jobs, Past(i, Passed)'
      PROVE  /\ job'[i].version \in Versions
             /\ Verdict[job'[i].version][IntentOf(i)'] # "block"
  <2>1. CASE Past(i, Passed) /\ Same(i)
    BY <2>1, IntentKept DEF PassInv, Same
  <2>2. CASE Passes(i)
    BY <2>2, IntentKept DEF Passes, TypeOK
  <2> QED
    BY <1>2, <1>3, <2>1, <2>2
<1> QED
  BY <1>3 DEF PassInv

(* The one way around an approval is a verdict to allow (runtime.py).      *)
LEMMA DirectStep ==
  ASSUME TypeOK, RanOver, PassInv, DirectInv, GatewayAssumption, ApprovalAssumption, [Next]_vars
  PROVE  DirectInv'
<1>1. UNCHANGED <<job, uses, steps, ran>> \/ \E j \in Jobs : Kinds(j)
  BY StepKinds
<1>2. ASSUME NEW c \in Calls, Past(c, Held)'
      PROVE  Verdict[job'[c].version][Intent[c]] = "allow"
  <2>1. c \in Jobs /\ c \notin Resumes
    BY GatewayAssumption DEF Jobs
  <2>2. (Past(c, Held) /\ Same(c)) \/ Direct(c)
    BY <1>1, <1>2, <2>1, Progress, Still DEF Consumes
  <2>3. CASE Past(c, Held) /\ Same(c)
    BY <2>3 DEF DirectInv, Same
  <2>4. CASE Direct(c)
    <3>1. /\ job[c].version \in Versions
          /\ Verdict[job[c].version][Intent[c]] \notin {"block", "require_approval"}
      BY <2>1, <2>4 DEF Direct, From, PassInv, Past, Passed, IntentOf
    <3>2. Intent[c] \in Intents
      BY ApprovalAssumption
    <3>3. Verdict[job[c].version][Intent[c]] \in Verdicts
      BY <3>1, <3>2, GatewayAssumption
    <3> QED
      BY <2>4, <3>1, <3>3 DEF Direct, Same, Verdicts
  <2> QED
    BY <2>2, <2>3, <2>4
<1> QED
  BY <1>2 DEF DirectInv

(* Only authorize spends a use, and what it has compared stays equal       *)
(* (CapabilityTicketService.authorize).                                    *)
LEMMA BindStep ==
  ASSUME TypeOK, RanOver, BindInv, GatewayAssumption, ApprovalAssumption, [Next]_vars
  PROVE  BindInv'
<1>1. /\ TicketsKept
      /\ UNCHANGED <<job, uses, steps, ran>> \/ \E j \in Jobs : Kinds(j)
  BY StepKinds
<1>2. \A k \in Issued : k \in Issued' /\ ticket'[k] = ticket[k]
  BY <1>1 DEF TicketsKept, Issued
<1>3. ASSUME NEW i \in Jobs, Past(i, Spent)'
      PROVE  /\ job'[i].ticket \in Issued'
             /\ ticket'[job'[i].ticket] =
                  [intent |-> IntentOf(i)', form |-> job'[i].form, version |-> job'[i].version]
  <2>1. Same(i) /\ (Past(i, Spent) \/ Spends(i))
    BY <1>1, <1>3, Progress, Still DEF Spends
  <2>2. IntentOf(i)' = IntentOf(i)
    BY <2>1, IntentKept DEF Same
  <2>3. CASE Past(i, Spent)
    BY <1>2, <2>1, <2>2, <2>3 DEF BindInv, Same
  <2>4. CASE Spends(i)
    <3>1. /\ job[i].ticket \in Issued
          /\ ticket[job[i].ticket].intent = IntentOf(i)
          /\ ticket[job[i].ticket].form = job[i].form
          /\ ticket[job[i].ticket].version = job[i].version
      BY <2>4 DEF Spends, Authorized
    <3>2. ticket[job[i].ticket] \in Bound
      BY <3>1 DEF Issued, TypeOK
    <3>3. ticket[job[i].ticket] =
            [intent |-> IntentOf(i), form |-> job[i].form, version |-> job[i].version]
      BY <3>1, <3>2 DEF Bound
    <3> QED
      BY <1>2, <2>1, <2>2, <3>1, <3>3 DEF Same
  <2> QED
    BY <2>1, <2>3, <2>4
<1> QED
  BY <1>3 DEF BindInv

(* The decision part of the inductive invariant: what guarded_tool_call and*)
(* resume_approved_tool_call keep between any two steps.                   *)
LEMMA Inductive == Spec => []DecisionInv
<1>1. Init => DecisionInv
  <2>1. Init => TypeOK /\ RanOver
    BY GatewayAssumption
       DEF Init, ApprovalInit, TypeOK, ApprovalTypeOK, RowStatuses, RanOver, Rest, JobStates,
           Points, Forms, Jobs
  <2>2. Init => \A j \in Jobs : ~Past(j, Passed) /\ ~Past(j, Held) /\ ~Past(j, Spent)
    BY DEF Init, Rest, Past, Passed, Held, Spent, Counted
  <2> QED
    BY <2>1, <2>2 DEF DecisionInv, HoldInv, DirectInv, PassInv, BindInv, Jobs
<1>2. DecisionInv /\ [Next]_vars => DecisionInv'
  BY TypeStep, HoldStep, PassStep, DirectStep, BindStep, GatewayAssumption, ApprovalAssumption
     DEF DecisionInv
<1> QED
  BY <1>1, <1>2, PTL DEF Spec

(* Of all resumes of one approval that ever race, at most one calls the    *)
(* tool (test_concurrent_resume_has_exactly_one_execution).                *)
THEOREM ApprovalRunsOnceCorrect == Spec => []ApprovalRunsOnce
<1>1. DecisionInv => ApprovalRunsOnce
  <2> SUFFICES ASSUME DecisionInv, NEW c \in Calls
               PROVE  Cardinality(Resumed(c)) <= 1
    BY DEF ApprovalRunsOnce
  <2>1. \A r, q \in Resumed(c) : r = q
    BY DEF DecisionInv, HoldInv, Resumed, Past
  <2>2. CASE Resumed(c) = {}
    <3>1. Cardinality(Resumed(c)) = 0
      BY <2>2, FS_EmptySet, ZenonT(30)
    <3> QED
      BY <3>1
  <2>3. CASE Resumed(c) # {}
    <3>1. PICK r \in Resumed(c) : TRUE
      BY <2>3
    <3>2. Resumed(c) = {r}
      BY <2>1, <3>1
    <3>3. Cardinality({r}) = 1
      BY FS_Singleton
    <3> QED
      BY <3>2, <3>3
  <2> QED
    BY <2>2, <2>3
<1> QED
  BY <1>1, Inductive, PTL

(* What was denied, revoked or expired is never executed                   *)
(* (SQLiteApprovalStore.revoke, decide, expire).                           *)
THEOREM WithdrawnNeverRunsCorrect == Spec => []WithdrawnNeverRuns
<1>1. DecisionInv => WithdrawnNeverRuns
  BY DEF DecisionInv, HoldInv, WithdrawnNeverRuns, Resumed, Past
<1> QED
  BY <1>1, Inductive, PTL

(* Every call of a tool is bound to a ticket for these arguments under the *)
(* version that did not block them, however the policy was switched and    *)
(* the tickets were issued meanwhile (guarded_tool_call, authorize).       *)
THEOREM RunsAreAuthorizedCorrect == Spec => []RunsAreAuthorized
<1>1. DecisionInv => RunsAreAuthorized
  BY DEF DecisionInv, PassInv, BindInv, RunsAreAuthorized, Past, TypeOK
<1> QED
  BY <1>1, Inductive, PTL

(* A call whose verdict asked for an approval is never executed by itself  *)
(* (guarded_tool_call).                                                    *)
THEOREM ApprovalNotBypassedCorrect == Spec => []ApprovalNotBypassed
<1>1. DecisionInv => ApprovalNotBypassed
  BY DEF DecisionInv, DirectInv, ApprovalNotBypassed, Past
<1> QED
  BY <1>1, Inductive, PTL

-----------------------------------------------------------------------------
(* Tickets and plan steps: every job past a ledger has its own use of it.  *)

Spenders(k) == {j \in Jobs : Past(j, Spent) /\ job[j].ticket = k}
SpendInv    == \A k \in Tickets : Cardinality(Spenders(k)) <= uses[k]

Counters(s) == {j \in Jobs : Past(j, Counted) /\ Step[IntentOf(j)] = s}
CountInv ==
  \A s \in Steps : /\ Cardinality(Counters(s)) <= steps[s]
                   /\ steps[s] <= MaxCalls[s]
                   /\ steps[s] > 0 => \A p \in Predecessors[s] : steps[p] > 0

(* Sets of jobs are finite; at most one member more counts at most one     *)
(* more (the ledgers count what the model has to enumerate).               *)
LEMMA CountJobs ==
  ASSUME GatewayAssumption, NEW S \in SUBSET Jobs
  PROVE  /\ IsFiniteSet(S) /\ Cardinality(S) \in Nat
         /\ \A T \in SUBSET S : Cardinality(T) <= Cardinality(S)
         /\ \A j \in Jobs : \A T \in SUBSET (S \cup {j}) : Cardinality(T) <= Cardinality(S) + 1
<1>1. IsFiniteSet(S) /\ Cardinality(S) \in Nat
  BY FS_Subset, FS_CardinalityType, GatewayAssumption
<1>2. ASSUME NEW T \in SUBSET S
      PROVE  Cardinality(T) <= Cardinality(S)
  BY <1>1, FS_Subset
<1>3. ASSUME NEW j \in Jobs, NEW T \in SUBSET (S \cup {j})
      PROVE  Cardinality(T) <= Cardinality(S) + 1
  <2>1. /\ IsFiniteSet(S \cup {j}) /\ Cardinality(S \cup {j}) \in Nat
        /\ Cardinality(S \cup {j}) <= Cardinality(S) + 1
    <3>1. /\ IsFiniteSet(S \cup {j})
          /\ Cardinality(S \cup {j}) = IF j \in S THEN Cardinality(S) ELSE Cardinality(S) + 1
      BY <1>1, FS_AddElement
    <3> QED
      BY <1>1, <3>1
  <2>2. Cardinality(T) <= Cardinality(S \cup {j}) /\ Cardinality(T) \in Nat
    BY <2>1, FS_Subset, FS_CardinalityType
  <2> QED
    BY <1>1, <2>1, <2>2
<1> QED
  BY <1>1, <1>2, <1>3

(* A use is counted in the same transaction that lets the job pass         *)
(* (SQLiteCapabilityLedger.consume).                                       *)
LEMMA SpendStep ==
  ASSUME TypeOK, RanOver, SpendInv, GatewayAssumption, ApprovalAssumption, [Next]_vars
  PROVE  SpendInv'
<1>1. UNCHANGED <<job, uses, steps, ran>> \/ \E j \in Jobs : Kinds(j)
  BY StepKinds
<1>2. uses \in [Tickets -> 0 .. MaxUses] /\ MaxUses \in Nat
  BY GatewayAssumption DEF TypeOK
<1>3. ASSUME NEW k \in Tickets
      PROVE  Cardinality(Spenders(k)') <= uses'[k]
  <2>1. Spenders(k) \in SUBSET Jobs /\ Spenders(k)' \in SUBSET Jobs
    BY DEF Spenders
  <2>2. /\ Cardinality(Spenders(k)) \in Nat /\ Cardinality(Spenders(k)') \in Nat
        /\ Cardinality(Spenders(k)) <= uses[k]
    BY <2>1, CountJobs DEF SpendInv
  <2>3. ASSUME NEW j \in Jobs, Spends(j), Kinds(j), job[j].ticket = k
        PROVE  Cardinality(Spenders(k)') <= uses'[k]
    <3>1. Spenders(k)' \subseteq Spenders(k) \cup {j}
      BY <2>3, Progress DEF Spenders, Same
    <3>2. Cardinality(Spenders(k)') <= Cardinality(Spenders(k)) + 1
      BY <2>1, <3>1, CountJobs
    <3>3. uses'[k] = uses[k] + 1
      BY <1>2, <2>3 DEF Spends
    <3> QED
      BY <1>2, <2>2, <3>2, <3>3
  <2>4. ASSUME Spenders(k)' \subseteq Spenders(k), uses'[k] = uses[k]
        PROVE  Cardinality(Spenders(k)') <= uses'[k]
    BY <1>2, <2>1, <2>2, <2>4, CountJobs
  <2>5. CASE UNCHANGED <<job, uses, steps, ran>>
    <3>1. Spenders(k)' \subseteq Spenders(k)
      BY <2>5, Still DEF Spenders, Same
    <3> QED
      BY <2>4, <2>5, <3>1
  <2>6. ASSUME NEW j \in Jobs, Kinds(j), ~(Spends(j) /\ job[j].ticket = k)
        PROVE  Cardinality(Spenders(k)') <= uses'[k]
    <3>1. Spenders(k)' \subseteq Spenders(k)
      <4>1. ASSUME NEW i \in Jobs, Past(i, Spent)', job'[i].ticket = k
            PROVE  Past(i, Spent) /\ job[i].ticket = k
        BY <2>6, <4>1, Progress DEF Same, Spends
      <4> QED
        BY <4>1 DEF Spenders
    <3>2. CASE Spends(j)
      <4>1. job[j].ticket \in Tickets \ {k}
        BY <2>6, <3>2 DEF Spends, Authorized, Issued
      <4>2. uses'[k] = uses[k]
        BY <1>2, <3>2, <4>1 DEF Spends
      <4> QED
        BY <2>4, <3>1, <4>2
    <3>3. CASE ~Spends(j)
      <4>1. uses' = uses
        BY <2>6, <3>3 DEF Kinds, Starts, Passes, Waits, Direct, Consumes, Counts, Runs, NoCount
      <4> QED
        BY <2>4, <3>1, <4>1
    <3> QED
      BY <3>2, <3>3
  <2> QED
    BY <1>1, <2>3, <2>5, <2>6
<1> QED
  BY <1>3 DEF SpendInv

(* The step is counted in the same transaction that validates it again     *)
(* (TaskGraphGuard.consume).                                               *)
LEMMA CountStep ==
  ASSUME TypeOK, RanOver, CountInv, GatewayAssumption, ApprovalAssumption, [Next]_vars
  PROVE  CountInv'
<1>1. UNCHANGED <<job, uses, steps, ran>> \/ \E j \in Jobs : Kinds(j)
  BY StepKinds
<1>2. /\ steps \in [Steps -> Nat] /\ MaxCalls \in [Steps -> Nat]
      /\ Predecessors \in [Steps -> SUBSET Steps] /\ None \notin Steps
  BY GatewayAssumption DEF TypeOK
<1>3. ASSUME NEW s \in Steps
      PROVE  Counters(s) \in SUBSET Jobs /\ Counters(s)' \in SUBSET Jobs
  BY DEF Counters
<1>4. ASSUME UNCHANGED steps, \A s \in Steps : Counters(s)' \subseteq Counters(s)
      PROVE  CountInv'
  <2>1. \A s \in Steps : /\ Cardinality(Counters(s)') <= Cardinality(Counters(s))
                         /\ Cardinality(Counters(s)) \in Nat /\ Cardinality(Counters(s)') \in Nat
    BY <1>3, <1>4, CountJobs
  <2> QED
    BY <1>2, <1>4, <2>1 DEF CountInv
<1>5. CASE UNCHANGED <<job, uses, steps, ran>>
  <2>1. \A i \in Jobs : IntentOf(i)' = IntentOf(i)
    BY <1>5 DEF IntentOf
  <2>2. \A s \in Steps : Counters(s)' \subseteq Counters(s)
    BY <1>5, <2>1, Still DEF Counters
  <2> QED
    BY <1>4, <1>5, <2>2
<1>6. ASSUME NEW j \in Jobs, Kinds(j)
      PROVE  CountInv'
  <2>1. \A i \in Jobs : Past(i, Counted)' =>
          /\ IntentOf(i)' = IntentOf(i)
          /\ Past(i, Counted) \/ (i = j /\ Counts(j))
    BY <1>6, Progress, IntentKept DEF Same, Counts
  <2>2. CASE ~Counts(j) \/ Step[IntentOf(j)] = None
    <3>1. steps' = steps
      BY <1>6, <2>2
         DEF Kinds, Starts, Passes, Waits, Direct, Consumes, Spends, Counts, Runs, NoCount
    <3>2. \A s \in Steps : Counters(s)' \subseteq Counters(s)
      BY <1>2, <2>1, <2>2 DEF Counters
    <3> QED
      BY <1>4, <3>1, <3>2
  <2>3. CASE Counts(j) /\ Step[IntentOf(j)] # None
    <3>1. PICK t \in Steps : t = Step[IntentOf(j)]
      <4>1. j \in Calls \/ job[j].row \in Calls
        BY <1>6, <2>3 DEF Jobs, TypeOK, JobStates, Counts, From
      <4>2. IntentOf(j) \in Intents
        BY <4>1, ApprovalAssumption DEF IntentOf
      <4> QED
        BY <2>3, <4>2, GatewayAssumption
    <3>2. /\ steps' = [steps EXCEPT ![t] = @ + 1] /\ steps[t] < MaxCalls[t]
          /\ \A p \in Predecessors[t] : steps[p] > 0
      BY <2>3, <3>1 DEF Counts, StepAllowed
    <3>3. Counters(t)' \subseteq Counters(t) \cup {j}
      BY <2>1 DEF Counters
    <3>4. \A s \in Steps \ {t} : Counters(s)' \subseteq Counters(s)
      BY <2>1, <3>1 DEF Counters
    <3>5. /\ Cardinality(Counters(t)') <= Cardinality(Counters(t)) + 1
          /\ \A s \in Steps \ {t} : Cardinality(Counters(s)') <= Cardinality(Counters(s))
          /\ \A s \in Steps : /\ Cardinality(Counters(s)) \in Nat
                              /\ Cardinality(Counters(s)') \in Nat
      BY <1>3, <1>6, <3>1, <3>3, <3>4, CountJobs
    <3>6. \A s \in Steps : steps'[s] = (IF s = t THEN steps[s] + 1 ELSE steps[s])
      BY <1>2, <3>1, <3>2
    <3>7. ASSUME NEW s \in Steps
          PROVE  /\ Cardinality(Counters(s)') <= steps'[s]
                 /\ steps'[s] <= MaxCalls[s]
                 /\ steps'[s] > 0 => \A p \in Predecessors[s] : steps'[p] > 0
      <4>1. \A p \in Predecessors[s] : p \in Steps /\ steps[p] \in Nat
        BY <1>2
      <4>2. steps[s] \in Nat /\ MaxCalls[s] \in Nat
        BY <1>2
      <4>3. /\ Cardinality(Counters(s)) <= steps[s] /\ steps[s] <= MaxCalls[s]
            /\ steps[s] > 0 => \A p \in Predecessors[s] : steps[p] > 0
        BY DEF CountInv
      <4> QED
        <5>1. CASE s = t
          BY <3>2, <3>5, <3>6, <4>1, <4>2, <4>3, <5>1
        <5>2. CASE s # t
          BY <3>5, <3>6, <4>1, <4>2, <4>3, <5>2
        <5> QED
          BY <5>1, <5>2
    <3> QED
      BY <3>7 DEF CountInv
  <2> QED
    BY <2>2, <2>3
<1> QED
  BY <1>1, <1>5, <1>6

LedgerInv == TypeOK /\ RanOver /\ SpendInv /\ CountInv

(* The counting part of it (capability_usage, task_step_usage).            *)
LEMMA LedgerInductive == Spec => []LedgerInv
<1>1. Init => LedgerInv
  <2> SUFFICES ASSUME Init PROVE LedgerInv
    OBVIOUS
  <2>1. TypeOK /\ RanOver
    BY GatewayAssumption
       DEF Init, ApprovalInit, TypeOK, ApprovalTypeOK, RowStatuses, RanOver, Rest, JobStates,
           Points, Forms, Jobs
  <2>2. \A j \in Jobs : ~Past(j, Spent) /\ ~Past(j, Counted)
    BY DEF Init, Rest, Past, Spent, Counted
  <2>3. /\ \A k \in Tickets : Spenders(k) = {}
        /\ \A s \in Steps : Counters(s) = {}
    BY <2>2 DEF Spenders, Counters
  <2>4. Cardinality({}) = 0
    BY FS_EmptySet
  <2> QED
    <3>0. \A k \in Tickets : uses[k] = 0
      BY DEF Init
    <3>1. SpendInv
      BY <2>3, <2>4, <3>0 DEF SpendInv
    <3>2. \A s \in Steps : steps[s] = 0 /\ MaxCalls[s] \in Nat
      BY GatewayAssumption DEF Init
    <3>3. CountInv
      BY <2>3, <2>4, <3>2 DEF CountInv
    <3> QED
      BY <2>1, <3>1, <3>3 DEF LedgerInv
<1>2. LedgerInv /\ [Next]_vars => LedgerInv'
  BY TypeStep, SpendStep, CountStep, GatewayAssumption, ApprovalAssumption DEF LedgerInv
<1> QED
  BY <1>1, <1>2, PTL DEF Spec

(* No ticket pays for more than max_uses calls, however many jobs present  *)
(* it at once (SQLiteCapabilityLedger.consume).                            *)
THEOREM TicketRespectedCorrect == Spec => []TicketRespected
<1>1. LedgerInv => TicketRespected
  <2> SUFFICES ASSUME LedgerInv, NEW k \in Tickets
               PROVE  Cardinality({j \in ran : job[j].ticket = k}) <= MaxUses
    BY DEF TicketRespected
  <2> DEFINE T == {j \in ran : job[j].ticket = k}
  <2>1. Spenders(k) \in SUBSET Jobs /\ T \in SUBSET Spenders(k) /\ T \in SUBSET Jobs
    BY DEF LedgerInv, TypeOK, Spenders, Past
  <2>2. Cardinality(T) <= Cardinality(Spenders(k)) /\ Cardinality(T) \in Nat
        /\ Cardinality(Spenders(k)) \in Nat
    BY <2>1, CountJobs, GatewayAssumption
  <2>3. Cardinality(Spenders(k)) <= uses[k] /\ uses[k] \in 0 .. MaxUses /\ MaxUses \in Nat
    BY GatewayAssumption DEF LedgerInv, SpendInv, TypeOK
  <2> QED
    BY <2>2, <2>3
<1> QED
  BY <1>1, LedgerInductive, PTL

(* No plan step is executed more often than max_calls or before its        *)
(* predecessors were started (TaskGraphGuard.validate).                    *)
THEOREM PlanRespectedCorrect == Spec => []PlanRespected
<1>1. LedgerInv => PlanRespected
  <2> SUFFICES ASSUME LedgerInv, NEW s \in Steps
               PROVE  LET done == {j \in ran : Step[IntentOf(j)] = s} IN
                      /\ Cardinality(done) <= MaxCalls[s]
                      /\ done # {} => \A p \in Predecessors[s] : steps[p] > 0
    BY DEF PlanRespected
  <2> DEFINE done == {j \in ran : Step[IntentOf(j)] = s}
  <2>1. Counters(s) \in SUBSET Jobs /\ done \in SUBSET Counters(s) /\ done \in SUBSET Jobs
    BY DEF LedgerInv, TypeOK, Counters, Past
  <2>2. /\ Cardinality(done) <= Cardinality(Counters(s)) /\ Cardinality(done) \in Nat
        /\ Cardinality(Counters(s)) \in Nat /\ IsFiniteSet(done)
    BY <2>1, CountJobs, GatewayAssumption
  <2>3. /\ Cardinality(Counters(s)) <= steps[s] /\ steps[s] <= MaxCalls[s]
        /\ steps[s] > 0 => \A p \in Predecessors[s] : steps[p] > 0
        /\ steps[s] \in Nat /\ MaxCalls[s] \in Nat
    BY GatewayAssumption DEF LedgerInv, CountInv, TypeOK
  <2>4. done # {} => Cardinality(done) # 0
    BY <2>2, FS_EmptySet
  <2> HIDE DEF done
  <2>5. Cardinality(done) <= MaxCalls[s] /\ (done # {} => steps[s] > 0)
    BY <2>2, <2>3, <2>4
  <2> QED
    BY <2>3, <2>5 DEF done
<1> QED
  BY <1>1, LedgerInductive, PTL

-----------------------------------------------------------------------------
(* The gateway implements ApprovalContract.                                *)

RowOp(c) == \/ Creates(c) \/ (\E decision \in Decided : decide(c, decision)) \/ consume(c)
            \/ consume_refused(c) \/ revoke(c) \/ expire(c) \/ row_ages(c)

Phases   == [c \in Calls |-> Phase(c)]
Executed == {c \in Calls : Resumed(c) # {}}

(* A step is a transaction on one row, or a tool is called, or neither.    *)
LEMMA RowOrRun ==
  ASSUME TypeOK, RanOver, GatewayAssumption, ApprovalAssumption, [Next]_vars
  PROVE  \/ ran' = ran /\ (UNCHANGED approvalVars \/ \E c \in Calls : RowOp(c))
         \/ UNCHANGED approvalVars /\ \E j \in Jobs : Runs(j)
<1>1. ASSUME NEW r \in Resumes, Consume(r)
      PROVE  ran' = ran /\ \E c \in Calls : RowOp(c)
  <2>1. job[r].row \in Calls
    BY <1>1 DEF Consume, TypeOK, JobStates, Jobs
  <2> QED
    BY <1>1, <2>1 DEF Consume, RowOp, jobRest
<1>2. ASSUME NEW r \in Resumes, NEW c \in Calls, NEW k \in Issued, Read(r, c, k)
      PROVE  ran' = ran /\ (UNCHANGED approvalVars \/ \E d \in Calls : RowOp(d))
  BY <1>2 DEF Read, RowOp, jobRest
<1>3. ASSUME NEW c \in Calls, ApproverStep(c) \/ CheckTool(c) \/ Create(c)
      PROVE  ran' = ran /\ (UNCHANGED approvalVars \/ \E d \in Calls : RowOp(d))
  BY <1>3, Creation DEF ApproverStep, CheckTool, Create, RowOp, jobRest, gatewayVars
<1>4. ASSUME NEW j \in Jobs, Run(j)
      PROVE  UNCHANGED approvalVars /\ Runs(j)
  BY <1>4, JobGoto DEF Run, Runs, From, Same, Points
<1>5. ASSUME \/ \E k \in Tickets : TicketAges(k) \/ \E i \in Intents, f \in Forms : Issue(k, i, f)
             \/ PolicyChanges
             \/ \E c \in Calls : \E k \in Issued \cup {None} : Begin(c, k)
             \/ \E r \in Resumes : Preview(r)
             \/ \E j \in Jobs : Check(j) \/ Graph(j) \/ Spend(j) \/ TakeStep(j) \/ Abort(j)
             \/ UNCHANGED vars
      PROVE  ran' = ran /\ UNCHANGED approvalVars
  BY <1>5 DEF TicketAges, Issue, PolicyChanges, Begin, Preview, Check, Graph, Spend, TakeStep,
              Abort, jobRest, vars, gatewayVars
<1> QED
  BY <1>1, <1>2, <1>3, <1>4, <1>5 DEF Next, JobStep

(* What has run stays as it was.                                           *)
LEMMA RanKept ==
  ASSUME TypeOK, RanOver, GatewayAssumption, ApprovalAssumption, [Next]_vars
  PROVE  \A i \in ran : job'[i] = job[i]
<1>1. UNCHANGED <<job, uses, steps, ran>> \/ \E j \in Jobs : Kinds(j)
  BY StepKinds
<1>2. ASSUME NEW j \in Jobs, Kinds(j), NEW i \in ran
      PROVE  job'[i] = job[i]
  <2>1. job[i].at = "over" /\ i \in Jobs
    BY DEF RanOver, TypeOK
  <2> QED
    BY <1>2, <2>1 DEF Kinds, Starts, Passes, Waits, Direct, Consumes, Spends, Counts, Runs,
                      From, Alone
<1> QED
  BY <1>1, <1>2

(* One row moves, in the contract's eyes, as the row does.                 *)
LEMMA PhaseMoves ==
  ASSUME ApprovalTypeOK, NEW c \in Calls, NEW s \in RowStatuses, SetRow(c, s), NEW p,
         Phase(c)' = p
  PROVE  Phases' = [Phases EXCEPT ![c] = p]
<1>1. \A d \in Calls \ {c} : Phase(d)' = Phase(d)
  BY DEF SetRow, ApprovalTypeOK, Phase
<1> QED
  BY <1>1 DEF Phases

(* Every transaction of the store is a step of the contract: one decision, *)
(* one use, no return from closed (SQLiteApprovalStore).                   *)
LEMMA RowContract ==
  ASSUME ApprovalTypeOK, NEW c \in Calls, RowOp(c), Executed' = Executed
  PROVE  Contract!Next \/ UNCHANGED approvalVars
<1> DEFINE Moved(from, to) == /\ Phase(c) \in from
                              /\ Phases' = [Phases EXCEPT ![c] = to]
                              /\ stale' = stale
<1>1. ASSUME NEW from, NEW to, Moved(from, to)
      PROVE  Contract!Move(c, from, to)
  BY <1>1 DEF Contract!Move, Phases, Executed
<1>2. ASSUME NEW s \in RowStatuses, SetRow(c, s)
      PROVE  row'[c] = s
  BY <1>2 DEF SetRow, ApprovalTypeOK
<1>3. RowStatuses = {"none", "requested", "consumed", "approved", "masked_and_approved",
                     "denied", "expired", "revoked"}
  BY DEF RowStatuses, Granted, Closed
<1>4. CASE Creates(c)
  <2>1. Moved({"none"}, "pending")
    BY <1>2, <1>3, <1>4, PhaseMoves DEF Creates, create, Phase, Granted, Closed
  <2> QED
    BY <1>1, <2>1 DEF Contract!Next, Contract!Ask
<1>5. ASSUME NEW s \in Granted, row[c] = "requested", c \notin stale, SetRow(c, s), stale' = stale
      PROVE  Contract!Next
  <2>1. Moved({"pending"}, "granted")
    BY <1>2, <1>3, <1>5, PhaseMoves DEF Phase, Granted, Closed
  <2> QED
    BY <1>1, <1>5, <2>1 DEF Contract!Next, Contract!Grant
<1>6. ASSUME NEW s \in Closed, row[c] \in {"requested"} \cup Granted, SetRow(c, s), stale' = stale
      PROVE  Contract!Next
  <2>1. Moved({"pending", "granted"}, "closed")
    BY <1>2, <1>3, <1>6, PhaseMoves DEF Phase, Granted, Closed
  <2> QED
    BY <1>1, <2>1 DEF Contract!Next, Contract!Close
<1>7. CASE \E decision \in Decided : decide(c, decision)
  BY <1>5, <1>6, <1>7 DEF decide, Decided, Closed
<1>8. CASE consume(c)
  <2>1. Moved({"granted"}, "used") /\ c \notin stale
    BY <1>2, <1>3, <1>8, PhaseMoves DEF consume, Phase, Granted, Closed
  <2> QED
    BY <1>1, <2>1 DEF Contract!Next, Contract!Use
<1>9. CASE revoke(c) \/ expire(c) \/ (consume_refused(c) /\ row[c] \in Granted)
  BY <1>6, <1>9 DEF revoke, expire, consume_refused, Closed
<1>10. CASE row_ages(c)
  BY <1>10 DEF row_ages, Contract!Next, Contract!Age, Phases, Phase, Executed
<1> QED
  BY <1>4, <1>7, <1>8, <1>9, <1>10 DEF RowOp, consume_refused

(* A tool is called for an approval that is used and was not executed.     *)
LEMMA RunContract ==
  ASSUME TypeOK, RanOver, HoldInv, GatewayAssumption, ApprovalAssumption,
         NEW j \in Jobs, Runs(j), UNCHANGED approvalVars
  PROVE  Contract!Next \/ (Phases' = Phases /\ Executed' = Executed /\ stale' = stale)
<1>1. /\ Phases' = Phases /\ stale' = stale
      /\ j \notin ran /\ job'[j].row = job[j].row
      /\ \A i \in Jobs \ {j} : job'[i] = job[i]
  BY DEF Runs, From, Alone, Same, RanOver, Phases, Phase, approvalVars
<1>2. CASE j \notin Resumes
  <2>1. \A c \in Calls : Resumed(c)' = Resumed(c)
    BY <1>1, <1>2 DEF Resumed, Runs, TypeOK
  <2> QED
    BY <1>1, <2>1 DEF Executed
<1>3. CASE j \in Resumes
  <2>1. PICK c \in Calls : c = job[j].row
    BY <1>3 DEF Runs, From, TypeOK, JobStates
  <2>2. row[c] = "consumed" /\ Past(j, Held)
    BY <1>3, <2>1 DEF HoldInv, Runs, From, Past, Held, Spent, Counted
  <2>3. Resumed(c) = {}
    BY <1>1, <1>3, <2>1, <2>2 DEF HoldInv, Resumed, Past
  <2>4. j \in Resumed(c)'
    BY <1>1, <1>3, <2>1 DEF Resumed, Runs
  <2>5. \A d \in Calls \ {c} : Resumed(d)' = Resumed(d)
    BY <1>1, <2>1 DEF Resumed, Runs, TypeOK
  <2>6. c \notin Executed /\ Executed' = Executed \cup {c}
    BY <2>3, <2>4, <2>5 DEF Executed
  <2>7. Phases[c] = "used"
    BY <2>2 DEF Phases, Phase, Granted, Closed
  <2>8. Contract!Execute(c)
    BY <1>1, <2>6, <2>7 DEF Contract!Execute, Phases, Executed
  <2> QED
    BY <2>8 DEF Contract!Next
<1> QED
  BY <1>2, <1>3

(* Approvers and requesters see no more than ApprovalContract: a grant is  *)
(* used once and in time, only a used grant is executed, and what is       *)
(* closed stays closed (SQLiteApprovalStore, resume_approved_tool_call).   *)
THEOREM KeepsContractCorrect == Spec => KeepsContract
<1>1. Init => Contract!Init
  <2> SUFFICES ASSUME Init PROVE Contract!Init
    OBVIOUS
  <2>1. \A c \in Calls : Phase(c) = "none" /\ Resumed(c) = {}
    BY DEF Init, ApprovalInit, Phase, Resumed, Granted, Closed
  <2> QED
    BY <2>1 DEF Contract!Init, Init, ApprovalInit
<1>2. DecisionInv /\ [Next]_vars => [Contract!Next]_<<Phases, stale, Executed>>
  <2> SUFFICES ASSUME DecisionInv, [Next]_vars
               PROVE  Contract!Next \/ (Phases' = Phases /\ Executed' = Executed /\ stale' = stale)
    OBVIOUS
  <2>1. TypeOK /\ RanOver /\ HoldInv /\ ApprovalTypeOK
    BY DEF DecisionInv, TypeOK
  <2>2. CASE ran' = ran /\ (UNCHANGED approvalVars \/ \E c \in Calls : RowOp(c))
    <3>1. \A i \in ran : job'[i] = job[i]
      BY <2>1, RanKept, GatewayAssumption, ApprovalAssumption
    <3>2. Executed' = Executed
      BY <2>2, <3>1 DEF Executed, Resumed
    <3>3. UNCHANGED approvalVars => Phases' = Phases /\ stale' = stale
      BY DEF approvalVars, Phases, Phase
    <3> QED
      BY <2>1, <2>2, <3>2, <3>3, RowContract
  <2>3. CASE UNCHANGED approvalVars /\ \E j \in Jobs : Runs(j)
    BY <2>1, <2>3, RunContract, GatewayAssumption, ApprovalAssumption
  <2> QED
    BY <2>1, <2>2, <2>3, RowOrRun, GatewayAssumption, ApprovalAssumption
<1> QED
  BY <1>1, <1>2, Inductive, PTL DEF Spec, KeepsContract, Contract!Spec, Phases, Executed
=============================================================================
