------------------------------- MODULE AgentFlow -------------------------------
(***************************************************************************)
(* The agent flow of GovSafeAgent: run_agent of agent_demo/langgraph_agent *)
(* (trace, inspect, route, plan, analyze, tools, finish) for several       *)
(* requests at a time, with what they share: the capability graph of       *)
(* module CapabilityGraph behind _GRAPH_LOCK and _GRAPH_READY, and the     *)
(* breaker of the remote planner (agent_demo/planners/resilience.py, here  *)
(* module CircuitBreaker).  The subagents of a route run side by side      *)
(* (safeagent_gov/router).  Reviewers build the graph and learn from the   *)
(* traces meanwhile.                                                       *)
(*                                                                         *)
(* A skill execution (module SkillExecutor) is one step: its events reach  *)
(* the trace before the flow goes on.  A trace is the set of its events,   *)
(* and its final_outputs in order; what the events say is kept as far as   *)
(* the properties ask for it.  Decisions are allow (allow_with_log and     *)
(* mask_and_allow too), require_approval and block.                        *)
(*                                                                         *)
(* Disturbances (a failing skill, audit or planner, an edit of the         *)
(* sources, a request of a reviewer) are bounded by one budget.            *)
(***************************************************************************)
EXTENDS CapabilityGraph, CircuitBreaker, Planners, SkillExecutor, SequencesExt

CONSTANTS
  Agents,       \* the requests, each with its trace
  SubTasks,     \* the analysing subagents of a route
  PlannerModes, \* the planner modes requests ask for, those with the same endpoint
  Retries,      \* retries of the skills of the flow
  Verdicts,     \* the decisions subagents come to by themselves
  Rulings,      \* the decisions guards come to
  MaxCalls,     \* bound on the tool calls of a plan
  Threshold,    \* failure_threshold of the planner's breaker
  MaxAttempts,  \* max_attempts of ResilientPlanner
  Budget        \* bound on disturbances

ASSUME FlowAssumption ==
  /\ Agents \subseteq Builders /\ Agents \cap Reviewers = {}
  /\ Subjects = Agents
  /\ SubTasks \subseteq Analysts
  /\ PlannerModes \subseteq Modes
  /\ Retries \in 0..3
  /\ Verdicts \cup Rulings \subseteq {"allow", "require_approval", "block"}
  /\ MaxCalls \in Nat /\ Budget \in Nat
  /\ Threshold \in Nat \ {0} /\ MaxAttempts \in Nat \ {0}

VARIABLES
  flow,     \* AgentState of each request, and the node it is at
  sub,      \* the subagents of each route: what they decided and whether it is audited
  events,   \* the events of each trace, but for the final_outputs
  outputs,  \* the status of the final_outputs of each trace, in order
  breaker,  \* breaker_for(key) of the remote planner
  leaked,   \* a half-open probe ended without a verdict (history)
  lock,     \* who holds _GRAPH_LOCK
  ready,    \* _GRAPH_READY
  budget    \* disturbances left

flowVars   == <<flow, sub, events, outputs>>
sharedVars == <<breaker, leaked, lock, ready, budget>>
vars == <<graphVars, flowVars, sharedVars>>

Decisions == {"allow", "require_approval", "block"}
Severity(d) == CASE d = "allow" -> 0 [] d = "require_approval" -> 1 [] d = "block" -> 2
Stricter(d, e) == IF Severity(d) >= Severity(e) THEN d ELSE e
Strictest(ds) == CHOOSE d \in ds : \A e \in ds : Severity(d) >= Severity(e)

Nodes    == {"trace", "inspect", "route", "build", "health", "router", "plan", "again", "remote",
             "analyze", "tools", "context", "bare", "call", "finish", "post", "done", "raised"}
Statuses == {"none", "routing_failed", "planning_failed", "blocked", "partially_blocked",
             "pending_approval", "completed"}
Results  == {"executed", "require_approval", "block"}
SubState == [at: {"pending", "decided", "audited", "lost"}, decision: Decisions]
Pending  == [k \in SubTasks |-> [at |-> "pending", decision |-> "allow"]]

Flow == [at: Nodes, blocked: BOOLEAN, routing_failed: BOOLEAN, planning_failed: BOOLEAN,
         calls: Nat, attempt: Nat, probe: BOOLEAN, fallback: BOOLEAN, router: {"none"} \cup Decisions,
         preview: {"none"} \cup Decisions, results: Seq(Results), status: Statuses]

Started(node) ==
  [at |-> node, blocked |-> FALSE, routing_failed |-> FALSE, planning_failed |-> FALSE,
   calls |-> 0, attempt |-> 1, probe |-> FALSE, fallback |-> FALSE, router |-> "none", preview |-> "none",
   results |-> <<>>, status |-> "none"]

Init ==
  /\ GraphInit
  /\ flow = [a \in Agents |-> Started("trace")]
  /\ sub = [a \in Agents |-> Pending]
  /\ events = [a \in Agents |-> {}]
  /\ outputs = [a \in Agents |-> <<>>]
  /\ breaker = Closed
  /\ leaked = FALSE
  /\ lock = None
  /\ ready = FALSE
  /\ budget = Budget

Fault == budget > 0 /\ budget' = budget - 1
Calm  == budget' = budget

At(a, node) == flow[a].at = node
Go(a, node) == flow' = [flow EXCEPT ![a].at = node]
Logged(a, es) == events' = [events EXCEPT ![a] = @ \cup es]

(* An exception in log_event ends the flow: the request is answered with   *)
(* an error and the trace stays as it is.  A step meets one disturbance.   *)
Raises(a) ==
  /\ Fault
  /\ flow' = [flow EXCEPT ![a] = Started("raised")]
  /\ UNCHANGED <<sub, events, outputs>>

plannerVars == <<breaker, leaked>>
lockVars    == <<lock, ready>>

(* What an execution of one of the flow's skills, all of them mandatory,   *)
(* means to the flow; one that fails is a disturbance.                     *)
Manifest == [enabled |-> TRUE, mandatory |-> TRUE, policy |-> "block", retries |-> Retries]
SkillEnds == {[success |-> x.success, completed |-> "completed" \in x.told] : x \in Executions(Manifest)}
Ended(x) == IF x.success THEN Calm ELSE Fault

-----------------------------------------------------------------------------
(* start_trace and inspect_input.  PromptShield is executed two or three   *)
(* times; when one of them fails the request is blocked.                   *)

start_trace(a) ==
  /\ At(a, "trace")
  /\ \/ Logged(a, {<<"created">>}) /\ Go(a, "inspect") /\ Calm /\ UNCHANGED <<sub, outputs>>
     \/ Raises(a)
  /\ UNCHANGED <<graphVars, plannerVars, lockVars>>

Inspected(a, blocked) ==
  /\ flow' = [flow EXCEPT ![a].blocked = blocked, ![a].at = IF blocked THEN "finish" ELSE "route"]
  /\ Logged(a, IF blocked THEN {<<"input_blocked">>} ELSE {<<"input_passed">>})
  /\ UNCHANGED <<sub, outputs>>
inspect_input(a) ==
  /\ At(a, "inspect")
  /\ \/ \E x \in SkillEnds :
          /\ Ended(x)
          /\ \E blocked \in BOOLEAN : (~x.success => blocked) /\ Inspected(a, blocked)
     \/ Raises(a)
  /\ UNCHANGED <<graphVars, plannerVars, lockVars>>

-----------------------------------------------------------------------------
(* route_task.  The first request of a process makes sure of the graph     *)
(* while the others wait; it is not looked at again.                       *)

RouteFails(a) ==
  /\ flow' = [flow EXCEPT ![a].routing_failed = TRUE, ![a].at = "finish"]
  /\ Logged(a, {<<"routing_error">>})
  /\ UNCHANGED <<sub, outputs>>

EnsureGraph(a) ==
  /\ At(a, "route")
  /\ \/ ready /\ Go(a, "router") /\ UNCHANGED <<lock, buildVars>>
     \/ /\ ~ready /\ lock = None /\ Built
        /\ lock' = a /\ Go(a, "health")
        /\ UNCHANGED buildVars
     \/ ~ready /\ lock = None /\ Bootstrap(a) /\ lock' = a /\ Go(a, "build")
  /\ Calm
  /\ UNCHANGED <<learnVars, sub, events, outputs, plannerVars, ready>>
NothingToBuild(a) ==
  /\ At(a, "route") /\ ~ready /\ lock = None
  /\ ~Built /\ ~MayScan
  /\ Calm /\ RouteFails(a)
  /\ UNCHANGED <<graphVars, plannerVars, lockVars>>

Builds(a) ==
  /\ At(a, "build")
  /\ \/ /\ Read(a) /\ Calm
        /\ UNCHANGED <<flowVars, lock>>
     \/ /\ Replace(a) \/ Unchanged(a)
        /\ Go(a, "health")
        /\ UNCHANGED <<sub, events, outputs, lock>>
        /\ Calm
     \/ Refused(a) /\ ((Calm /\ RouteFails(a)) \/ Raises(a)) /\ lock' = None
     \/ Unscannable(a) /\ Fault /\ RouteFails(a) /\ lock' = None
  /\ UNCHANGED <<learnVars, plannerVars, ready>>

Health(a) ==
  /\ At(a, "health")
  /\ \/ /\ Healthy
        /\ ready' = TRUE
        /\ Go(a, "router") /\ Calm
        /\ UNCHANGED <<sub, events, outputs>>
     \/ ~Healthy /\ ((Calm /\ RouteFails(a)) \/ Raises(a)) /\ UNCHANGED ready
  /\ lock' = None
  /\ UNCHANGED <<graphVars, plannerVars>>

(* SafeRouterService.plan reads the graph several times; nodes and edges   *)
(* of different snapshots make it fail.                                    *)
PlanRoute(a) ==
  /\ At(a, "router")
  /\ \/ Calm /\ Logged(a, {<<"router_plan">>}) /\ Go(a, "plan") /\ UNCHANGED <<sub, outputs>>
     \/ Fault /\ RouteFails(a)
     \/ Raises(a)
  /\ UNCHANGED <<graphVars, plannerVars, lockVars>>

route_task(a) == EnsureGraph(a) \/ NothingToBuild(a) \/ Builds(a) \/ Health(a) \/ PlanRoute(a)

-----------------------------------------------------------------------------
(* plan_task with ResilientPlanner.plan and FallbackPlanner.plan.  The     *)
(* subagents analyse the task also when planning has failed.               *)

EndsPlanning(a, calls, failed) ==
  flow' = [flow EXCEPT ![a].planning_failed = failed, ![a].calls = calls, ![a].attempt = 1,
                       ![a].probe = FALSE, ![a].fallback = FALSE, ![a].at = "analyze"]
PlanningFails(a) ==
  /\ EndsPlanning(a, 0, TRUE)
  /\ Logged(a, {<<"planning_error">>})
  /\ UNCHANGED <<sub, outputs>>
Plan(a) ==
  /\ \E n \in 0..MaxCalls : EndsPlanning(a, n, FALSE)
  /\ Logged(a, {<<"agent_plan">>})
  /\ UNCHANGED <<sub, outputs>>
NoRemotePlan(a, fallback) == IF fallback THEN Plan(a) ELSE PlanningFails(a)

(* The breaker is asked before every attempt.                              *)
BeforeCall(a, fallback) ==
  \/ /\ Admits(breaker)
     /\ breaker' = before_call(breaker, Threshold)
     /\ flow' = [flow EXCEPT ![a].at = "remote", ![a].probe = (breaker.opened = "ripe"),
                             ![a].fallback = fallback]
     /\ Calm
     /\ UNCHANGED <<sub, events, outputs>>
  \/ ~Admits(breaker) /\ ((Calm /\ NoRemotePlan(a, fallback)) \/ Raises(a)) /\ UNCHANGED breaker

CreatePlanner(a) ==
  /\ At(a, "plan")
  /\ \E mode \in PlannerModes :
       \/ "remote" \in Created(mode) /\ BeforeCall(a, FALSE)
       \/ "fallback" \in Created(mode) /\ BeforeCall(a, TRUE)
       \/ /\ \/ Created(mode) \cap {"offline", "gateway"} # {} /\ ((Calm /\ Plan(a)) \/ Raises(a))
             \/ "gateway" \in Created(mode) /\ "planning error" \in AskedGateway /\ Fault /\ PlanningFails(a)
             \/ "planning error" \in Created(mode) /\ Fault /\ PlanningFails(a)
          /\ UNCHANGED breaker
  /\ UNCHANGED <<graphVars, leaked, lockVars>>

Again(a) ==
  /\ At(a, "again")
  /\ BeforeCall(a, flow[a].fallback)
  /\ UNCHANGED <<graphVars, leaked, lockVars>>

(* Transport errors are counted and tried again; every other error leaves  *)
(* the breaker as it is.                                                   *)
Comes(outcome) == \E mode \in PlannerModes \cap Adapters : outcome \in AskedRemote(mode)
Remote(a) ==
  /\ At(a, "remote")
  /\ \/ /\ Comes("plan")
        /\ breaker' = record_success(breaker)
        /\ leaked' = FALSE
        /\ (Calm /\ Plan(a)) \/ Raises(a)
     \/ /\ Comes("transport error") /\ Fault
        /\ breaker' = record_failure(breaker, Threshold)
        /\ leaked' = FALSE
        /\ \/ /\ flow[a].attempt < MaxAttempts
              /\ flow' = [flow EXCEPT ![a].attempt = @ + 1, ![a].probe = FALSE, ![a].at = "again"]
              /\ UNCHANGED <<sub, events, outputs>>
           \/ flow[a].attempt = MaxAttempts /\ NoRemotePlan(a, flow[a].fallback)
     \/ /\ \/ Comes("planning error") /\ Fault /\ NoRemotePlan(a, flow[a].fallback)
           \/ Comes("exception") /\ Raises(a)
        /\ leaked' = (leaked \/ flow[a].probe)
        /\ UNCHANGED breaker
  /\ UNCHANGED <<graphVars, lockVars>>

plan_task(a) == CreatePlanner(a) \/ Again(a) \/ Remote(a)

-----------------------------------------------------------------------------
(* execute_route: SafeRouterExecutor runs the subagents side by side, then *)
(* the AuditAgent.                                                         *)

(* What the handlers of orchestrator.py decide, none of them milder than   *)
(* the strictest of the skills it executes.                                *)
Answers(a) ==
  [tool_risk_agent     |-> IF flow[a].calls = 0 THEN {"allow"} ELSE Verdicts,
   compliance_agent    |-> Verdicts,
   document_risk_agent |-> Verdicts \ {"block"},
   gov_rag_agent       |-> {"allow"},
   skill_scan_agent    |-> Verdicts]
Mandatory == SubTasks \ {"gov_rag_agent"}

(* A handler that fails or times out decides for its subagent, as does a   *)
(* failing skill: only mandatory ones execute skills.                      *)
Failing(k) == IF k \in Mandatory THEN "block" ELSE "require_approval"
RunOne(a, k) ==
  /\ At(a, "analyze") /\ sub[a][k].at = "pending"
  /\ \E d \in Decisions :
       /\ (Calm /\ d \in Answers(a)[k]) \/ (Fault /\ d = Failing(k))
       /\ sub' = [sub EXCEPT ![a][k] = [at |-> "decided", decision |-> d]]
  /\ UNCHANGED <<graphVars, flow, events, outputs, plannerVars, lockVars>>

record_audit_WithoutBlock(a, k) ==
  /\ At(a, "analyze") /\ sub[a][k].at = "decided"
  /\ \/ Calm /\ sub' = [sub EXCEPT ![a][k].at = "audited"]
     \/ Fault /\ sub' = [sub EXCEPT ![a][k].at = "lost"]
  /\ UNCHANGED <<graphVars, flow, events, outputs, plannerVars, lockVars>>
record_audit(a, k) ==
  /\ At(a, "analyze") /\ sub[a][k].at = "decided"
  /\ \/ Calm /\ sub' = [sub EXCEPT ![a][k].at = "audited"]
     \/ Fault /\ sub' = [sub EXCEPT ![a][k] = [at |-> "lost", decision |-> "block"]]
  /\ UNCHANGED <<graphVars, flow, events, outputs, plannerVars, lockVars>>

(* The AuditAgent always runs, allows, and is audited itself.              *)
FanIn(a) ==
  LET decided == Strictest({sub[a][k].decision : k \in SubTasks} \cup {"allow"})
      Aggregated(decision) == flow' = [flow EXCEPT ![a].router = decision, ![a].at = "tools"]
  IN  /\ At(a, "analyze") /\ \A k \in SubTasks : sub[a][k].at \in {"audited", "lost"}
      /\ \/ Calm /\ Aggregated(decided) /\ Logged(a, {<<"router_execution">>})
         \/ Fault /\ Aggregated("block") /\ Logged(a, {<<"router_execution">>})
         \/ /\ Fault
            /\ flow' = [flow EXCEPT ![a].routing_failed = TRUE, ![a].at = "tools"]
            /\ Logged(a, {<<"router_execution_error">>})
      /\ sub' = [sub EXCEPT ![a] = Pending]
      /\ UNCHANGED <<graphVars, outputs, plannerVars, lockVars>>

execute_route(a) == (\E k \in SubTasks : RunOne(a, k) \/ record_audit(a, k)) \/ FanIn(a)

-----------------------------------------------------------------------------
(* execute_tools: one call after the other, each behind MCPGuard, then the *)
(* data and compliance guards of its kind, then guarded_tool_call.         *)

Call(a) == Len(flow[a].results) + 1
Settled(a, result) ==
  flow' = [flow EXCEPT ![a].results = Append(@, result), ![a].preview = "none", ![a].at = "tools"]

MoreCalls(a) ==
  ~flow[a].planning_failed /\ ~flow[a].routing_failed /\ Len(flow[a].results) < flow[a].calls

(* The call of a tool without data guards, as file_read and browser_visit, *)
(* is at the point "bare" after MCPGuard instead of "context".             *)
Previewed(a, d) ==
  \E point \in {"context", "bare"} : flow' = [flow EXCEPT ![a].preview = d, ![a].at = point]
GuardCall(a) ==
  /\ At(a, "tools")
  /\ \/ ~MoreCalls(a) /\ Go(a, "finish") /\ Calm /\ UNCHANGED events
     \/ /\ MoreCalls(a)
        /\ \E x \in SkillEnds, d \in Rulings :
             LET told == IF x.completed /\ d = "allow" THEN {<<"mcpguard", Call(a)>>} ELSE {}
             IN  /\ Ended(x)
                 /\ (x.success /\ Previewed(a, d)) \/ (~x.success /\ Settled(a, "block"))
                 /\ Logged(a, told)
  /\ UNCHANGED <<graphVars, sub, outputs, plannerVars, lockVars>>

(* SensitiveDataGov and the compliance guard; one that fails blocks.       *)
ContextDecided(a, d) ==
  IF d = "allow" THEN Go(a, "call") ELSE Settled(a, Stricter(flow[a].preview, d))
ContextGuards_WithoutFailure(a) ==
  /\ At(a, "context")
  /\ \E x \in SkillEnds, d \in Rulings :
       /\ Ended(x)
       /\ ContextDecided(a, d)
       /\ Logged(a, IF x.completed /\ d = "allow" THEN {<<"context", Call(a)>>} ELSE {})
  /\ UNCHANGED <<graphVars, sub, outputs, plannerVars, lockVars>>
ContextGuards(a) ==
  /\ At(a, "context")
  /\ \/ \E x \in SkillEnds, d \in Rulings :
          /\ Ended(x)
          /\ ContextDecided(a, IF x.success THEN d ELSE "block")
          /\ Logged(a, IF x.completed /\ d = "allow" THEN {<<"context", Call(a)>>} ELSE {})
     \/ Raises(a)
  /\ UNCHANGED <<graphVars, sub, outputs, plannerVars, lockVars>>

(* Only an allowed call gets a ticket, and only with one it is executed;   *)
(* the gateway (module ToolGateway) may still refuse it.  What was         *)
(* executed names its tool, <<"unscreened", i>> one without data guards.   *)
Execution(a) ==
  {<<"tool_result", Call(a)>>} \cup (IF At(a, "bare") THEN {<<"unscreened", Call(a)>>} ELSE {})
CallTool(a) ==
  /\ At(a, "call") \/ At(a, "bare")
  /\ \/ /\ Calm
        /\ \E result \in Results :
             /\ result = "executed" => flow[a].preview = "allow"
             /\ Settled(a, result)
             /\ Logged(a, IF result = "executed" THEN Execution(a) ELSE {})
     \/ Raises(a)
  /\ UNCHANGED <<graphVars, sub, outputs, plannerVars, lockVars>>

execute_tools(a) == GuardCall(a) \/ ContextGuards(a) \/ CallTool(a)

-----------------------------------------------------------------------------
(* finish: the status, its final_output, and TraceAudit over the trace.    *)

Has(a, result) == result \in ToSet(flow[a].results)
StatusOf_WithoutPartial(a) ==
  IF flow[a].routing_failed THEN "routing_failed"
  ELSE IF flow[a].planning_failed THEN "planning_failed"
  ELSE IF flow[a].blocked \/ (flow[a].router = "block" /\ flow[a].results = <<>>) THEN "blocked"
  ELSE IF flow[a].router = "require_approval" \/ Has(a, "require_approval") THEN "pending_approval"
  ELSE "completed"
StatusOf(a) ==
  IF flow[a].routing_failed THEN "routing_failed"
  ELSE IF flow[a].planning_failed THEN "planning_failed"
  ELSE IF flow[a].blocked \/ (flow[a].router = "block" /\ flow[a].results = <<>>) THEN "blocked"
  ELSE IF Has(a, "block") THEN "partially_blocked"
  ELSE IF flow[a].router = "require_approval" \/ Has(a, "require_approval") THEN "pending_approval"
  ELSE "completed"

Finish(a) ==
  /\ At(a, "finish")
  /\ \/ /\ Calm
        /\ flow' = [flow EXCEPT ![a].status = StatusOf(a), ![a].router = "none",
                                ![a].results = <<>>, ![a].at = "post"]
        /\ outputs' = [outputs EXCEPT ![a] = Append(@, StatusOf(a))]
        /\ UNCHANGED <<sub, events>>
     \/ Raises(a)
  /\ UNCHANGED <<graphVars, plannerVars, lockVars>>

(* When TraceAudit does not vouch for the trace, a second final_output     *)
(* says blocked; what was executed stays executed.                         *)
Vouched(x) == IF x.completed THEN {<<"traceaudit">>} ELSE {}
Distrusted(a) == flow' = [flow EXCEPT ![a].status = "blocked", ![a].at = "done"]
PostAudit_WithoutOutput(a) ==
  /\ At(a, "post")
  /\ \E x \in SkillEnds :
       /\ Ended(x)
       /\ IF x.success THEN Go(a, "done") /\ Logged(a, Vouched(x))
          ELSE Distrusted(a) /\ Logged(a, Vouched(x) \cup {<<"audit_fail_closed">>})
  /\ UNCHANGED <<graphVars, sub, outputs, plannerVars, lockVars>>
PostAudit(a) ==
  /\ At(a, "post")
  /\ \/ \E x \in SkillEnds :
          /\ Ended(x)
          /\ \/ /\ x.success
                /\ Go(a, "done")
                /\ Logged(a, Vouched(x))
                /\ UNCHANGED outputs
             \/ /\ ~x.success
                /\ Distrusted(a)
                /\ Logged(a, Vouched(x) \cup {<<"audit_fail_closed">>})
                /\ outputs' = [outputs EXCEPT ![a] = Append(@, "blocked")]
          /\ UNCHANGED sub
     \/ Raises(a)
  /\ UNCHANGED <<graphVars, plannerVars, lockVars>>

AgentStep(a) ==
  \/ start_trace(a) \/ inspect_input(a) \/ route_task(a) \/ plan_task(a)
  \/ execute_route(a) \/ execute_tools(a) \/ Finish(a) \/ PostAudit(a)

-----------------------------------------------------------------------------
(* The others: reviewers, processes that start, editors and time.          *)

BuildStep(b) ==
  /\ \/ Fault /\ (IF b \in Reviewers THEN Scan(b) ELSE Bootstrap(b))
     \/ Fault /\ Unscannable(b)
     \/ Calm /\ (Read(b) \/ Replace(b) \/ Unchanged(b) \/ Refused(b))
  /\ UNCHANGED <<learnVars, flowVars, plannerVars, lockVars>>

(* learn_trace takes the outcome from the last final_output there is.      *)
LearnStep(l) ==
  /\ \/ /\ Fault
        /\ \E s \in Subjects : /\ <<"router_plan">> \in events[s] /\ outputs[s] # <<>>
                               /\ BeginLearn(l, s, Last(outputs[s]) = "completed")
     \/ Calm /\ Record(l)
  /\ UNCHANGED <<buildVars, flowVars, plannerVars, lockVars>>

EditStep ==
  /\ Fault
  /\ \E c \in Contents : Edit(c)
  /\ UNCHANGED <<learnVars, flowVars, plannerVars, lockVars>>

RecoveryElapses ==
  /\ breaker.opened = "open"
  /\ breaker' = Recovered(breaker)
  /\ Calm
  /\ UNCHANGED <<graphVars, flowVars, leaked, lockVars>>

Next ==
  \/ \E a \in Agents : AgentStep(a)
  \/ \E b \in Builders \ Agents : BuildStep(b)
  \/ \E l \in Reviewers : LearnStep(l)
  \/ EditStep \/ RecoveryElapses

Spec == Init /\ [][Next]_vars

-----------------------------------------------------------------------------
(* The states of the flows, of what they share and of the graph are well   *)
(* formed.                                                                 *)
TypeOK ==
  /\ GraphTypeOK
  /\ flow \in [Agents -> Flow]
  /\ sub \in [Agents -> [SubTasks -> SubState]]
  /\ outputs \in [Agents -> Seq(Statuses)]
  /\ breaker \in Breakers
  /\ leaked \in BOOLEAN /\ ready \in BOOLEAN
  /\ lock \in Agents \cup {None}
  /\ budget \in 0..Budget

Executed(a) == {i \in 1..MaxCalls : <<"tool_result", i>> \in events[a]}

(* A tool is executed only in a trace that tells of a passed input, a      *)
(* route, a plan, of MCPGuard having allowed this very call, and of the    *)
(* data guards having allowed it when the tool has any (nodes.py:59;       *)
(* docs/skill_runtime.md: MCPGuard before every tool call, failures always *)
(* block).                                                                 *)
ToolsUnderGuards ==
  \A a \in Agents : \A i \in Executed(a) :
    /\ {<<"input_passed">>, <<"router_plan">>, <<"agent_plan">>, <<"router_execution">>} \subseteq events[a]
    /\ <<"mcpguard", i>> \in events[a]
    /\ <<"context", i>> \in events[a] \/ <<"unscreened", i>> \in events[a]

(* What the final_output of a stopped task says is true: when routing or   *)
(* planning failed, or the input was blocked, no tool was executed         *)
(* (nodes.py:404, :407); and none ever is in a trace that tells of a       *)
(* failed route.                                                           *)
StoppedMeansNothingRan ==
  \A a \in Agents :
    \/ Executed(a) = {}
    \/ /\ ~({"routing_failed", "planning_failed"} \cap ToSet(outputs[a]) # {})
       /\ events[a] \cap {<<"input_blocked">>, <<"routing_error">>, <<"planning_error">>, <<"router_execution_error">>} = {}

(* The trace and the answer agree: a flow that ends answers with the last  *)
(* final_output, and "completed" only when TraceAudit vouched for the      *)
(* trace and no call was blocked or waits for approval.                    *)
OneStory ==
  \A a \in Agents : At(a, "done") =>
    /\ outputs[a] # <<>> /\ flow[a].status = Last(outputs[a])
    /\ flow[a].status = "completed" =>
         /\ <<"traceaudit">> \in events[a]
         /\ \A i \in 1..flow[a].calls : <<"tool_result", i>> \in events[a]

(* The fan-in is never milder than what a subagent decided, and allows only*)
(* what was recorded in the trace (docs/safe_router.md: a failed audit     *)
(* raises the decision to block).                                          *)
FanInIsStrict ==
  [][\A a \in Agents : flow[a].router = "none" /\ flow'[a].router # "none" =>
       \A k \in SubTasks :
         \/ flow'[a].router = "block"
         \/ /\ sub[a][k].at = "audited"
            /\ Severity(sub[a][k].decision) <= Severity(flow'[a].router)]_vars

(* The planner's breaker is open from its threshold on, and a half-open    *)
(* breaker, which refuses everyone, is waiting for the one call that       *)
(* probes - or such a call ended in another error, after which nothing     *)
(* opens it again (agent_demo/planners/resilience.py:107).                 *)
ProbeOwned ==
  /\ breaker.opened = "no" <=> breaker.failures < Threshold
  /\ breaker.probe => leaked \/ \E a \in Agents : At(a, "remote") /\ flow[a].probe

(* The flow keeps the contract of module FlowContract.                     *)
Stage(a) == CASE At(a, "post")   -> "answered"
              [] At(a, "done")   -> "closed"
              [] At(a, "raised") -> "raised"
              [] OTHER           -> "open"

Contract == INSTANCE FlowContract WITH
  stage   <- [a \in Agents |-> Stage(a)],
  planned <- [a \in Agents |-> flow[a].calls],
  ran     <- [a \in Agents |-> Executed(a)]
KeepsContract == Contract!Spec
=============================================================================
