----------------------------- MODULE ToolGateway -----------------------------
(***************************************************************************)
(* Guarded tool calls of GovSafeAgent and the resumption of approved ones  *)
(* (research_technology/mcp/gateway/runtime.py), over the approval rows of *)
(* module ApprovalStore, the usage ledger of capability tickets            *)
(* (capabilities.py) and the usage counters of plan steps (task_graph.py). *)
(*                                                                         *)
(* A job is one run of guarded_tool_call or resume_approved_tool_call; one *)
(* that ends without having called its tool is forgotten.                  *)
(* Jobs run in request threads of several processes and meet only in       *)
(* SQLite, so every transaction and every policy lookup is a step.         *)
(*                                                                         *)
(* Arguments are an intent and a form: as requested ("plain") or as an     *)
(* approver masked them ("masked").  A ticket is known by what it is bound *)
(* to: identities, trace and scope are part of the intent.                 *)
(*                                                                         *)
(* An operator named X_Without... or X_With... is X with a plausible bug,  *)
(* kept to show that a property notices it.                                *)
(***************************************************************************)
EXTENDS ApprovalStore

CONSTANTS
  Resumes,       \* runs of resume_approved_tool_call
  Tickets,       \* capability tickets that may be issued
  MaxUses,       \* CapabilityGrant.max_uses
  Steps,         \* steps of the declared task plans
  Step,          \* the plan step of an intent, or None
  MaxCalls,      \* max_calls of a plan step
  Predecessors,  \* the steps a plan step waits for
  Versions,      \* policy versions
  Verdict        \* what a policy version says of an intent

Forms    == {"plain", "masked"}
Verdicts == {"block", "require_approval", "allow"}
Jobs     == Calls \cup Resumes

ASSUME GatewayAssumption ==
  /\ Calls \cap Resumes = {}
  /\ None \notin Tickets \cup Steps \cup Versions
  /\ IsFiniteSet(Jobs)
  /\ MaxUses \in Nat \ {0}
  /\ Step \in [Intents -> Steps \cup {None}]
  /\ MaxCalls \in [Steps -> Nat \ {0}]
  /\ Predecessors \in [Steps -> SUBSET Steps]
  /\ Verdict \in [Versions -> [Intents -> Verdicts]]

VARIABLES
  ticket,  \* what each ticket is bound to, None before it is issued
  late,    \* the tickets whose expires_at has passed
  uses,    \* capability_usage.uses of each ticket
  steps,   \* task_step_usage.uses of each plan step
  policy,  \* the policy version in force
  job,     \* where each job is and what it has read
  ran      \* the jobs that called their tool (history)

gatewayVars == <<ticket, late, uses, steps, policy, job, ran>>
vars == <<approvalVars, gatewayVars>>

Points == {"idle", "check", "graph", "create", "preview", "consume", "spend", "step",
           "run", "over"}
Rest   == [at |-> "idle", row |-> None, form |-> "plain", version |-> None, ticket |-> None]
Over   == [Rest EXCEPT !.at = "over"]
Bound  == [intent: Intents, form: Forms, version: Versions]

Init ==
  /\ ApprovalInit
  /\ ticket = [k \in Tickets |-> None]
  /\ late = {}
  /\ uses = [k \in Tickets |-> 0]
  /\ steps = [s \in Steps |-> 0]
  /\ policy \in Versions
  /\ job = [j \in Jobs |-> Rest]
  /\ ran = {}

Goto(j, point) == job' = [job EXCEPT ![j].at = point]
End(j)         == job' = [job EXCEPT ![j] = Over]
IntentOf(j)    == IF j \in Calls THEN Intent[j] ELSE Intent[job[j].row]
Issued         == {k \in Tickets : ticket[k] # None}

-----------------------------------------------------------------------------
(* Tickets, time and policy.                                               *)

(* Approved calls need a ticket too, so one is issued for any verdict but  *)
(* block, for the requested or for the masked arguments.                   *)
Issue(k, i, f) ==
  /\ ticket[k] = None
  /\ Verdict[policy][i] # "block"
  /\ ticket' = [ticket EXCEPT ![k] = [intent |-> i, form |-> f, version |-> policy]]
  /\ UNCHANGED <<approvalVars, late, uses, steps, policy, job, ran>>

TicketAges(k) ==
  /\ k \in Issued \ late
  /\ late' = late \cup {k}
  /\ UNCHANGED <<approvalVars, ticket, uses, steps, policy, job, ran>>

PolicyChanges ==
  /\ policy' \in Versions \ {policy}
  /\ UNCHANGED <<approvalVars, ticket, late, uses, steps, job, ran>>

-----------------------------------------------------------------------------
(* Approvers.                                                              *)

ApproverStep(c) ==
  /\ \/ \E decision \in Decided : decide(c, decision)
     \/ revoke(c) \/ expire(c) \/ row_ages(c)
  /\ UNCHANGED gatewayVars

(* /api/tool/check only asks for the verdict, and for the approval if one  *)
(* is required; its idempotency key is always fresh.                       *)
CheckTool(c) ==
  /\ job[c].at = "idle"
  /\ Verdict[policy][Intent[c]] = "require_approval"
  /\ create(c, None)
  /\ End(c)
  /\ UNCHANGED <<ticket, late, uses, steps, policy, ran>>

-----------------------------------------------------------------------------
(* Jobs.                                                                   *)

jobRest == <<ticket, late, uses, steps, policy, ran>>

Begin(c, k) ==
  /\ job[c].at = "idle"
  /\ job' = [job EXCEPT ![c] = [@ EXCEPT !.at = "check", !.ticket = k]]
  /\ UNCHANGED <<approvalVars, jobRest>>

(* SQLiteApprovalStore.get, which closes a request found too late.  The    *)
(* arguments to execute are those of the row as it is now.                 *)
Read(r, c, k) ==
  /\ job[r].at = "idle"
  /\ row[c] # "none"
  /\ expire(c) \/ (~(row[c] = "requested" /\ c \in stale) /\ UNCHANGED approvalVars)
  /\ job' = [job EXCEPT ![r] =
       [at |-> "check", row |-> c, form |-> IF c \in masked THEN "masked" ELSE "plain",
        version |-> None, ticket |-> k]]
  /\ UNCHANGED jobRest

Check(j) ==
  /\ job[j].at = "check"
  /\ IF Verdict[policy][IntentOf(j)] = "block" THEN End(j)
     ELSE job' = [job EXCEPT ![j] = [@ EXCEPT !.at = "graph", !.version = policy]]
  /\ UNCHANGED <<approvalVars, jobRest>>

(* TaskGraphGuard.validate: predecessors used, the step itself not used up *)
StepAllowed(s) ==
  \/ s = None
  \/ /\ \A p \in Predecessors[s] : steps[p] > 0
     /\ steps[s] < MaxCalls[s]

Graph_WithCurrentPolicy(j) ==
  /\ job[j].at = "graph"
  /\ IF ~StepAllowed(Step[IntentOf(j)]) THEN End(j)
     ELSE Goto(j, IF j \in Resumes THEN "preview"
                  ELSE IF Verdict[policy][Intent[j]] = "require_approval" THEN "create"
                  ELSE "spend")
  /\ UNCHANGED <<approvalVars, jobRest>>

Graph(j) ==
  /\ job[j].at = "graph"
  /\ IF ~StepAllowed(Step[IntentOf(j)]) THEN End(j)
     ELSE Goto(j, IF j \in Resumes THEN "preview"
                  ELSE IF Verdict[job[j].version][Intent[j]] = "require_approval" THEN "create"
                  ELSE "spend")
  /\ UNCHANGED <<approvalVars, jobRest>>

(* A call that needs approval ends here: its row is inserted, or an        *)
(* earlier one answers, or the key belongs to another intent.              *)
Create(c) ==
  /\ job[c].at = "create"
  /\ create(c, Key[c]) \/ (Existing(Key[c]) # {} /\ UNCHANGED approvalVars)
  /\ End(c)
  /\ UNCHANGED jobRest

Authorized_WithoutVersion(j) ==
  LET k == job[j].ticket IN
  /\ k \in Issued \ late
  /\ ticket[k].intent = IntentOf(j)
  /\ ticket[k].form = job[j].form

(* CapabilityTicketService.authorize up to the ledger.                     *)
Authorized(j) ==
  LET k == job[j].ticket IN
  /\ k \in Issued \ late
  /\ ticket[k].intent = IntentOf(j)
  /\ ticket[k].form = job[j].form
  /\ ticket[k].version = job[j].version

Preview(r) ==
  /\ job[r].at = "preview"
  /\ IF Authorized(r) THEN Goto(r, "consume") ELSE End(r)
  /\ UNCHANGED <<approvalVars, jobRest>>

Consume(r) ==
  /\ job[r].at = "consume"
  /\ \/ consume(job[r].row) /\ Goto(r, "spend")
     \/ consume_refused(job[r].row) /\ End(r)
  /\ UNCHANGED jobRest

Unspent_WithoutLimit(k) == TRUE
Unspent(k) == uses[k] < MaxUses

Spend_WithoutCount(j) ==
  /\ job[j].at = "spend"
  /\ IF Authorized(j) /\ Unspent(job[j].ticket) THEN Goto(j, "step") ELSE End(j)
  /\ UNCHANGED <<approvalVars, ticket, late, uses, steps, policy, ran>>

Spend(j) ==
  /\ job[j].at = "spend"
  /\ IF Authorized(j) /\ Unspent(job[j].ticket)
     THEN uses' = [uses EXCEPT ![job[j].ticket] = @ + 1] /\ Goto(j, "step")
     ELSE End(j) /\ UNCHANGED uses
  /\ UNCHANGED <<approvalVars, ticket, late, steps, policy, ran>>

TakeStep_WithoutValidation(j) ==
  /\ job[j].at = "step"
  /\ LET s == Step[IntentOf(j)] IN
       steps' = IF s = None THEN steps ELSE [steps EXCEPT ![s] = @ + 1]
  /\ Goto(j, "run")
  /\ UNCHANGED <<approvalVars, ticket, late, uses, policy, ran>>

TakeStep(j) ==
  /\ job[j].at = "step"
  /\ LET s == Step[IntentOf(j)] IN
       IF StepAllowed(s)
       THEN /\ steps' = IF s = None THEN steps ELSE [steps EXCEPT ![s] = @ + 1]
            /\ Goto(j, "run")
       ELSE End(j) /\ UNCHANGED steps
  /\ UNCHANGED <<approvalVars, ticket, late, uses, policy, ran>>

(* The consumption is audited and the tool called.                         *)
Run(j) ==
  /\ job[j].at = "run"
  /\ ran' = ran \cup {j}
  /\ Goto(j, "over")
  /\ UNCHANGED <<approvalVars, ticket, late, uses, steps, policy>>

(* An audit hook raises, a store call fails or the process dies: whatever  *)
(* the job has done in SQLite stays.                                       *)
Abort(j) ==
  /\ job[j].at \notin {"idle", "over"}
  /\ End(j)
  /\ UNCHANGED <<approvalVars, jobRest>>

JobStep(j) ==
  \/ Check(j) \/ Graph(j) \/ Spend(j) \/ TakeStep(j) \/ Run(j) \/ Abort(j)

Next ==
  \/ \E k \in Tickets : TicketAges(k) \/ \E i \in Intents, f \in Forms : Issue(k, i, f)
  \/ PolicyChanges
  \/ \E c \in Calls : \/ ApproverStep(c) \/ CheckTool(c) \/ Create(c)
                      \/ \E k \in Issued \cup {None} : Begin(c, k)
  \/ \E r \in Resumes : \/ Preview(r) \/ Consume(r)
                        \/ \E c \in Calls, k \in Issued : Read(r, c, k)
  \/ \E j \in Jobs : JobStep(j)

Spec == Init /\ [][Next]_vars

-----------------------------------------------------------------------------
(* Properties.                                                             *)

JobStates == [at: Points, row: Calls \cup {None}, form: Forms,
              version: Versions \cup {None}, ticket: Tickets \cup {None}]

TypeOK ==
  /\ ApprovalTypeOK
  /\ ticket \in [Tickets -> Bound \cup {None}]
  /\ late \subseteq Tickets
  /\ uses \in [Tickets -> 0 .. MaxUses]
  /\ steps \in [Steps -> Nat]
  /\ policy \in Versions
  /\ job \in [Jobs -> JobStates]
  /\ \A r \in Resumes : job[r].at \notin {"idle", "over"} \/ r \in ran => job[r].row # None
  /\ ran \subseteq Jobs

Resumed(c) == {r \in ran \cap Resumes : job[r].row = c}

(* However many resumes of one approval race, at most one calls the tool   *)
(* (test_concurrent_resume_has_exactly_one_execution).                     *)
ApprovalRunsOnce == \A c \in Calls : Cardinality(Resumed(c)) <= 1

(* No more calls than max_uses are made with one ticket, whoever presents  *)
(* it (SQLiteCapabilityLedger.consume).                                    *)
TicketRespected == \A k \in Tickets : Cardinality({j \in ran : job[j].ticket = k}) <= MaxUses

(* A step of a plan is executed at most max_calls times and only once its  *)
(* predecessors were started, although the step is validated long before   *)
(* it is counted (TaskGraphGuard.validate).                                *)
PlanRespected ==
  \A s \in Steps :
    LET done == {j \in ran : Step[IntentOf(j)] = s} IN
    /\ Cardinality(done) <= MaxCalls[s]
    /\ done # {} => \A p \in Predecessors[s] : steps[p] > 0

(* What runs was authorized by a ticket for exactly these arguments, under *)
(* the policy version whose verdict let it pass - which was not block.     *)
RunsAreAuthorized ==
  \A j \in ran :
    /\ job[j].ticket \in Issued
    /\ ticket[job[j].ticket] =
         [intent |-> IntentOf(j), form |-> job[j].form, version |-> job[j].version]
    /\ Verdict[job[j].version][IntentOf(j)] # "block"

(* A call that the policy wants approved never runs without a resume.      *)
ApprovalNotBypassed ==
  \A c \in ran \cap Calls : Verdict[job[c].version][Intent[c]] = "allow"

(* A denied, revoked or expired approval was not and will not be executed: *)
(* what has run is consumed and stays so.                                  *)
WithdrawnNeverRuns ==
  \A c \in Calls : Resumed(c) # {} => row[c] = "consumed"

(* A client of the approval store sees the contract of ApprovalContract.   *)
Phase(c) == CASE row[c] = "none"      -> "none"
              [] row[c] = "requested" -> "pending"
              [] row[c] \in Granted   -> "granted"
              [] row[c] \in Closed    -> "closed"
              [] row[c] = "consumed"  -> "used"

Contract == INSTANCE ApprovalContract WITH
  Requests <- Calls,
  phase <- [c \in Calls |-> Phase(c)],
  expired <- stale,
  executed <- {c \in Calls : Resumed(c) # {}}
KeepsContract == Contract!Spec

(* A resumed call executes the arguments its approval stands for: the      *)
(* masked ones if the approver masked them ("executes only masked          *)
(* snapshot", test_approvals.py).                                          *)
ExecutedAsDecided ==
  \A r \in ran \cap Resumes : job[r].row \in masked => job[r].form = "masked"
=============================================================================
