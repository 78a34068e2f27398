---------------------------- MODULE AgentFlowProofs ----------------------------
(***************************************************************************)
(* Proofs about the agent flow and the capability graph, for any number of *)
(* requests and reviewers, any contents of the sources, any route and any  *)
(* bounds.                                                                 *)
(*                                                                         *)
(* The graph: GraphInv says what every build in progress rests on.  The    *)
(* breaker: BreakerInv, over what a step may make of it.  The flows: every *)
(* step makes one of a few moves of one request's state and trace, and     *)
(* each move keeps FlowOK; FlowInv is that for all requests.  The          *)
(* contract: OrderInv says how far the calls of a plan have come, and each *)
(* move is a step of FlowContract, or none.                                *)
(***************************************************************************)
EXTENDS AgentFlow, FiniteSetTheorems, SequenceTheorems, TLAPS

(* Every step of the system takes one step of the graph, or none.          *)
BuildMove(b) == (Scan(b) \/ Read(b) \/ Leave(b) \/ Replace(b)) /\ UNCHANGED learnVars
LearnMove(l) ==
  /\ Record(l) \/ \E s \in Subjects, success \in BOOLEAN : BeginLearn(l, s, success)
  /\ UNCHANGED buildVars
EditMove == (\E c \in Contents : Edit(c)) /\ UNCHANGED learnVars
GraphMove ==
  (\E b \in Builders : BuildMove(b)) \/ (\E l \in Reviewers : LearnMove(l)) \/ EditMove

LEMMA GraphMoves ==
  ASSUME [Next]_vars
  PROVE  GraphMove \/ UNCHANGED graphVars
<1>1. ASSUME NEW a \in Agents, AgentStep(a)
      PROVE  BuildMove(a) \/ UNCHANGED graphVars
  <2>1. CASE EnsureGraph(a)
    BY <2>1 DEF EnsureGraph, BuildMove, Bootstrap, graphVars
  <2>2. CASE Builds(a)
    BY <2>2 DEF Builds, BuildMove, Unchanged, Refused, Unscannable
  <2>3. CASE start_trace(a) \/ inspect_input(a) \/ NothingToBuild(a) \/ Health(a) \/ PlanRoute(a)
    BY <2>3 DEF start_trace, inspect_input, NothingToBuild, Health, PlanRoute
  <2>4. CASE plan_task(a)
    BY <2>4 DEF plan_task, CreatePlanner, Again, Remote
  <2>5. CASE execute_route(a)
    BY <2>5 DEF execute_route, RunOne, record_audit, FanIn
  <2>6. CASE execute_tools(a) \/ Finish(a) \/ PostAudit(a)
    BY <2>6 DEF execute_tools, GuardCall, ContextGuards, CallTool, Finish, PostAudit
  <2> QED
    BY <1>1, <2>1, <2>2, <2>3, <2>4, <2>5, <2>6 DEF AgentStep, route_task
<1>2. ASSUME NEW b \in Builders, BuildStep(b)
      PROVE  BuildMove(b)
  BY <1>2 DEF BuildStep, BuildMove, Bootstrap, Unchanged, Refused, Unscannable
<1>3. ASSUME NEW l \in Reviewers, LearnStep(l)
      PROVE  LearnMove(l)
  BY <1>3 DEF LearnStep, LearnMove
<1>4. CASE EditStep
  BY <1>4 DEF EditStep, EditMove, GraphMove
<1>5. CASE RecoveryElapses \/ UNCHANGED vars
  BY <1>5 DEF RecoveryElapses, vars
<1> QED
  BY <1>1, <1>2, <1>3, <1>4, <1>5, FlowAssumption DEF Next, GraphMove

-----------------------------------------------------------------------------
(* The graph.  What a build goes on with is kept while others build: it    *)
(* rests on approvals and scans, which only accumulate.                    *)

BuildStates ==
  [at: {"idle", "register", "read", "govern", "write"}, scan: Contents \cup {None},
   previous: Contents \cup {None}, by: [Capabilities -> Approvers]]

Approved(c) == \E who \in Approvers : <<who, c>> \in approvals
Named(by)   == \A c \in Capabilities : by[c] \in Reviewers => <<by[c], c>> \in approvals

Building(b) ==
  /\ builder[b].at # "idle" => builder[b].scan \in Contents
  /\ builder[b].at = "write" => Named(builder[b].by)
  /\ builder[b].at \in {"read", "govern", "write"} => Protected[builder[b].scan] \subseteq scanned
  /\ builder[b].at \in {"govern", "write"} /\ b \notin Reviewers /\ builder[b].previous # None
       => \A c \in Protected[builder[b].scan] : Approved(c)
Learning == \A l \in Reviewers : learner[l].at = "record" => learner[l].subject \in Subjects

GraphInv ==
  /\ GraphTypeOK
  /\ Named(approver)
  /\ \A b \in Builders : Building(b)
  /\ Learning
  /\ ProtectedApproved

LEMMA GraphInit_GraphInv ==
  ASSUME GraphInit
  PROVE  GraphInv
<1>1. Unapproved \in [Capabilities -> Approvers]
  BY DEF Unapproved, Approvers
<1>2. None \notin Reviewers
  BY GraphAssumption
<1>3. GraphTypeOK
  BY <1>1 DEF GraphInit, GraphTypeOK, NoBuild, NoLearn
<1> QED
  BY <1>1, <1>2, <1>3 DEF GraphInit, GraphInv, Named, Building, Learning, ProtectedApproved,
     Built, NoBuild, NoLearn, Unapproved

LEMMA ProtectedCapabilities ==
  ASSUME NEW c \in Contents
  PROVE  Protected[c] \subseteq Capabilities
BY DEF Protected, Capabilities

(* What a step of builder b has to show about builders: the others stay as *)
(* they are, approvals and scans only grow.                                *)
LEMMA OthersKeepBuilding ==
  ASSUME NEW b \in Builders, Building(b), builder'[b] = builder[b],
         approvals \subseteq approvals', scanned \subseteq scanned'
  PROVE  Building(b)'
BY DEF Building, Named, Approved

LEMMA ScanKeeps ==
  ASSUME GraphInv, NEW b \in Builders, Scan(b) \/ Leave(b), UNCHANGED learnVars
  PROVE  GraphInv'
<1>t. builder \in [Builders -> BuildStates]
  BY DEF GraphInv, GraphTypeOK, BuildStates
<1>u. UNCHANGED <<sources, graph, approver, approvals, scanned, learner, pattern, observed>>
  BY DEF Scan, Leave, storeVars, rulings, learnVars
<1>1. Unapproved \in [Capabilities -> Approvers]
  BY DEF Unapproved, Approvers
<1>2. sources \in Contents
  BY DEF GraphInv, GraphTypeOK
<1>3. PICK r \in {NoBuild, [NoBuild EXCEPT !.at = "register", !.scan = sources]} :
        builder' = [builder EXCEPT ![b] = r]
  BY DEF Scan, Leave
<1>4. /\ r \in BuildStates
      /\ r.at = "idle" \/ (r.at = "register" /\ r.scan \in Contents)
  <2>1. NoBuild \in BuildStates /\ NoBuild.at = "idle"
    BY <1>1 DEF NoBuild, BuildStates
  <2>2. CASE r = NoBuild
    BY <2>1, <2>2
  <2>3. CASE r = [NoBuild EXCEPT !.at = "register", !.scan = sources]
    BY <1>2, <2>1, <2>3 DEF BuildStates
  <2> QED BY <1>3, <2>2, <2>3
<1>5. GraphTypeOK'
  BY <1>t, <1>u, <1>3, <1>4 DEF GraphInv, GraphTypeOK, BuildStates
<1>6. \A d \in Builders : Building(d)'
  <2> SUFFICES ASSUME NEW d \in Builders PROVE Building(d)'
    OBVIOUS
  <2>1. CASE d = b
    <3>1. builder'[d] = r
      BY <2>1, <1>3, <1>t
    <3> QED BY <3>1, <1>4 DEF Building
  <2>2. CASE d # b
    <3>1. builder'[d] = builder[d]
      BY <2>2, <1>3, <1>t
    <3> QED BY <3>1, <1>u, OthersKeepBuilding DEF GraphInv
  <2> QED BY <2>1, <2>2
<1>7. Named(approver)' /\ Learning' /\ ProtectedApproved'
  BY <1>u DEF GraphInv, Named, Learning, ProtectedApproved, Built
<1> QED
  BY <1>5, <1>6, <1>7 DEF GraphInv

(* The three readings of a build: the scans of new packages, the graph in  *)
(* force and its governance.                                               *)
LEMMA ReadKeeps ==
  ASSUME GraphInv, NEW b \in Builders, Read(b), UNCHANGED learnVars
  PROVE  GraphInv'
<1>t. builder \in [Builders -> BuildStates] /\ builder[b] \in BuildStates
  BY DEF GraphInv, GraphTypeOK, BuildStates
<1>g. graph \in Contents \cup {None} /\ approver \in [Capabilities -> Approvers]
  BY DEF GraphInv, GraphTypeOK
<1>u. UNCHANGED <<sources, graph, approver, approvals, learner, pattern, observed>>
  BY DEF Read, Register, ReadNodes, ReadGovernance, storeVars, rulings, learnVars
<1>c. builder[b].at # "idle" /\ builder[b].scan \in Contents
  BY DEF GraphInv, Building, Read, Register, ReadNodes, ReadGovernance
<1>p. Protected[builder[b].scan] \subseteq Capabilities
  BY <1>c, ProtectedCapabilities
<1>s. scanned \subseteq scanned' /\ scanned' \subseteq Capabilities
  BY <1>p DEF GraphInv, GraphTypeOK, Read, Register, ReadNodes, ReadGovernance, rulings
<1>1. PICK r \in BuildStates : builder' = [builder EXCEPT ![b] = r] /\ r.scan = builder[b].scan /\ Building(b)'
  <2>1. CASE Register(b)
    <3> DEFINE r == [builder[b] EXCEPT !.at = "read"]
    <3>1. builder' = [builder EXCEPT ![b] = r] /\ r \in BuildStates
      BY <2>1, <1>t DEF Register, BuildStates
    <3>2. builder'[b] = r
      BY <3>1, <1>t
    <3>3. InForce \subseteq scanned
      BY DEF InForce, GraphInv, ProtectedApproved
    <3>4. Protected[builder[b].scan] \subseteq scanned'
      BY <2>1, <3>3 DEF Register
    <3>5. r.at = "read" /\ r.scan = builder[b].scan
      BY <1>t DEF BuildStates
    <3> HIDE DEF r
    <3>6. Building(b)'
      BY <3>2, <3>4, <3>5, <1>c DEF Building
    <3> QED BY <3>1, <3>5, <3>6
  <2>2. CASE ReadNodes(b)
    <3> DEFINE r == [builder[b] EXCEPT !.at = "govern", !.previous = graph]
    <3>1. builder' = [builder EXCEPT ![b] = r] /\ r \in BuildStates
      BY <2>2, <1>t, <1>g DEF ReadNodes, BuildStates
    <3>2. builder'[b] = r
      BY <3>1, <1>t
    <3>3. r.at = "govern" /\ r.scan = builder[b].scan /\ r.previous = graph
      BY <1>t DEF BuildStates
    <3>4. Protected[builder[b].scan] \subseteq scanned /\ UNCHANGED scanned
      BY <2>2 DEF ReadNodes, GraphInv, Building, rulings
    <3>5. b \notin Reviewers /\ graph # None => \A c \in Protected[builder[b].scan] : Approved(c)
      BY <2>2 DEF ReadNodes, MayReplace, ChangesProtected, Built, GraphInv, ProtectedApproved, Approved
    <3> HIDE DEF r
    <3>6. Building(b)'
      BY <3>2, <3>3, <3>4, <3>5, <1>c, <1>u DEF Building, Approved
    <3> QED BY <3>1, <3>3, <3>6
  <2>3. CASE ReadGovernance(b)
    <3> DEFINE r == [builder[b] EXCEPT !.at = "write", !.by = approver]
    <3>1. builder' = [builder EXCEPT ![b] = r] /\ r \in BuildStates
      BY <2>3, <1>t, <1>g DEF ReadGovernance, BuildStates
    <3>2. builder'[b] = r
      BY <3>1, <1>t
    <3>3. r.at = "write" /\ r.scan = builder[b].scan /\ r.previous = builder[b].previous /\ r.by = approver
      BY <1>t DEF BuildStates
    <3>4. Building(b) /\ builder[b].at = "govern" /\ UNCHANGED scanned /\ Named(approver)
      BY <2>3 DEF ReadGovernance, GraphInv, rulings
    <3> HIDE DEF r
    <3>6. Building(b)'
      BY <3>2, <3>3, <3>4, <1>c, <1>u DEF Building, Approved, Named
    <3> QED BY <3>1, <3>3, <3>6
  <2> QED BY <2>1, <2>2, <2>3 DEF Read
<1>2. \A d \in Builders : Building(d)'
  <2> SUFFICES ASSUME NEW d \in Builders, d # b PROVE Building(d)'
    BY <1>1
  <2>1. builder'[d] = builder[d]
    BY <1>1, <1>t
  <2> QED BY <2>1, <1>u, <1>s, OthersKeepBuilding DEF GraphInv
<1>3. GraphTypeOK'
  <2>1. builder' \in [Builders -> BuildStates]
    BY <1>1, <1>t
  <2> QED BY <2>1, <1>u, <1>s DEF GraphInv, GraphTypeOK, BuildStates
<1>4. Named(approver)' /\ Learning' /\ ProtectedApproved'
  BY <1>u, <1>s DEF GraphInv, Named, Learning, ProtectedApproved, Built
<1> QED
  BY <1>2, <1>3, <1>4 DEF GraphInv

LEMMA ReplaceKeeps ==
  ASSUME GraphInv, NEW b \in Builders, Replace(b), UNCHANGED learnVars
  PROVE  GraphInv'
<1>t. builder \in [Builders -> BuildStates] /\ builder[b] \in BuildStates
  BY DEF GraphInv, GraphTypeOK, BuildStates
<1>u. UNCHANGED <<sources, scanned, learner, pattern, observed>>
  BY DEF Replace, learnVars
<1>b. Building(b) /\ builder[b].at = "write"
  BY DEF Replace, GraphInv
<1> DEFINE scan == builder[b].scan
           by   == builder[b].by
<1>s. scan \in Contents /\ Protected[scan] \subseteq Capabilities /\ by \in [Capabilities -> Approvers]
  BY <1>b, <1>t, ProtectedCapabilities DEF Building, BuildStates
<1>r. /\ graph' = scan
      /\ approver' = [c \in Capabilities |-> Approver(b, c)]
      /\ approvals' = approvals \cup (Approves(b) \X Protected[scan])
      /\ builder' = [builder EXCEPT ![b] = NoBuild]
  BY DEF Replace
<1>n. scan # None /\ None \notin Reviewers /\ "repository-bootstrap" \notin Reviewers
  BY <1>s, GraphAssumption
<1>1. \A c \in Capabilities :
        /\ approver'[c] \in Approvers
        /\ approver'[c] \in Reviewers =>
             c \in Protected[scan] /\ (approver'[c] = by[c] \/ (approver'[c] = b /\ b \in Reviewers))
  <2> SUFFICES ASSUME NEW c \in Capabilities
               PROVE  /\ Approver(b, c) \in Approvers
                      /\ Approver(b, c) \in Reviewers =>
                           c \in Protected[scan] /\ (Approver(b, c) = by[c] \/ (Approver(b, c) = b /\ b \in Reviewers))
    BY <1>r
  <2> QED
    BY <1>s, <1>n DEF Approver, Approvers
<1>2. Named(approver)'
  <2> SUFFICES ASSUME NEW c \in Capabilities, approver'[c] \in Reviewers
               PROVE  <<approver'[c], c>> \in approvals'
    BY DEF Named
  <2>1. CASE approver'[c] = by[c]
    BY <2>1, <1>b, <1>r DEF Building, Named
  <2>2. CASE approver'[c] = b /\ b \in Reviewers
    BY <2>2, <1>1, <1>r DEF Approves
  <2> QED BY <2>1, <2>2, <1>1
<1>3. \A c \in Protected[scan] : Approved(c)'
  <2>1. CASE b \in Reviewers
    BY <2>1, <1>r DEF Approves, Approved, Approvers
  <2>2. CASE b \notin Reviewers /\ builder[b].previous = None
    BY <2>2, <1>r DEF Approves, Approved, Approvers
  <2>3. CASE b \notin Reviewers /\ builder[b].previous # None
    BY <2>3, <1>b, <1>r DEF Building, Approved
  <2> QED BY <2>1, <2>2, <2>3
<1>4. Protected[scan] \subseteq scanned
  BY <1>b DEF Building
<1>5. ProtectedApproved'
  BY <1>2, <1>3, <1>4, <1>r, <1>u, <1>s DEF ProtectedApproved, Approved, Named
<1>6. GraphTypeOK'
  <2>1. NoBuild \in BuildStates
    BY DEF NoBuild, BuildStates, Unapproved, Approvers
  <2>2. builder' \in [Builders -> BuildStates]
    BY <2>1, <1>r, <1>t
  <2>3. approver' \in [Capabilities -> Approvers]
    BY <1>1, <1>r
  <2> QED
    BY <2>2, <2>3, <1>r, <1>s, <1>u DEF GraphInv, GraphTypeOK, BuildStates
<1>7. \A d \in Builders : Building(d)'
  <2> SUFFICES ASSUME NEW d \in Builders PROVE Building(d)'
    OBVIOUS
  <2>1. CASE d = b
    BY <2>1, <1>r, <1>t DEF Building, NoBuild
  <2>2. CASE d # b
    <3>1. builder'[d] = builder[d]
      BY <2>2, <1>r, <1>t
    <3> QED BY <3>1, <1>u, <1>r, OthersKeepBuilding DEF GraphInv
  <2> QED BY <2>1, <2>2
<1> QED
  BY <1>2, <1>5, <1>6, <1>7, <1>u DEF GraphInv, Learning

LEMMA LearnKeeps ==
  ASSUME GraphInv, NEW l \in Reviewers, LearnMove(l)
  PROVE  GraphInv'
<1>u. UNCHANGED <<sources, graph, approver, builder, approvals, scanned>>
  BY DEF LearnMove, buildVars, storeVars, rulings
<1>t. /\ learner \in [Reviewers -> [at: {"idle", "record"}, subject: Subjects \cup {None}, success: BOOLEAN]]
      /\ pattern \in [success: Nat, failure: Nat]
      /\ observed \in [Subjects -> {"none", "success", "failure"}]
  BY DEF GraphInv, GraphTypeOK
<1>1. CASE Record(l)
  <2>1. /\ learner' \in [Reviewers -> [at: {"idle", "record"}, subject: Subjects \cup {None}, success: BOOLEAN]]
        /\ \A k \in Reviewers : learner'[k].at = "record" => learner'[k] = learner[k]
    BY <1>1, <1>t DEF Record, NoLearn
  <2>2. /\ pattern' \in [success: Nat, failure: Nat]
        /\ observed' \in [Subjects -> {"none", "success", "failure"}]
    BY <1>1, <1>t DEF Record, Count
  <2>3. GraphTypeOK'
    BY <2>1, <2>2, <1>u DEF GraphInv, GraphTypeOK
  <2>4. Learning'
    BY <2>1 DEF GraphInv, Learning
  <2> QED
    BY <2>3, <2>4, <1>u DEF GraphInv, Named, Building, Approved, ProtectedApproved, Built
<1>2. CASE \E s \in Subjects, success \in BOOLEAN : BeginLearn(l, s, success)
  <2>1. PICK s \in Subjects, success \in BOOLEAN : BeginLearn(l, s, success)
    BY <1>2
  <2>2. /\ learner' = [learner EXCEPT ![l] = [at |-> "record", subject |-> s, success |-> success]]
        /\ UNCHANGED <<pattern, observed>>
    BY <2>1 DEF BeginLearn
  <2>3. GraphTypeOK'
    BY <2>2, <1>t, <1>u DEF GraphInv, GraphTypeOK
  <2>4. Learning'
    BY <2>2, <1>t DEF GraphInv, Learning
  <2> QED
    BY <2>3, <2>4, <1>u DEF GraphInv, Named, Building, Approved, ProtectedApproved, Built
<1> QED
  BY <1>1, <1>2 DEF LearnMove

LEMMA EditKeeps ==
  ASSUME GraphInv, EditMove
  PROVE  GraphInv'
<1>1. sources' \in Contents /\ UNCHANGED <<graph, approver, builder, approvals, scanned, learner, pattern, observed>>
  BY DEF EditMove, Edit, storeVars, rulings, learnVars
<1> QED
  BY <1>1 DEF GraphInv, GraphTypeOK, Named, Building, Approved, Learning, ProtectedApproved, Built

LEMMA Next_GraphInv ==
  ASSUME GraphInv, [Next]_vars
  PROVE  GraphInv'
<1>1. CASE UNCHANGED graphVars
  <2>1. UNCHANGED <<sources, graph, approver, builder, approvals, scanned, learner, pattern, observed>>
    BY <1>1 DEF graphVars, buildVars, storeVars, rulings, learnVars
  <2> QED
    BY <2>1 DEF GraphInv, GraphTypeOK, Named, Building, Approved, Learning, ProtectedApproved, Built
<1>2. CASE GraphMove
  BY <1>2, ScanKeeps, ReadKeeps, ReplaceKeeps, LearnKeeps, EditKeeps DEF GraphMove, BuildMove
<1> QED
  BY <1>1, <1>2, GraphMoves

(* Protected capabilities in force were approved by a reviewer, or brought *)
(* in by the first bootstrap, and looked at by SkillScan, however builds   *)
(* of any number of reviewers and processes overtake each other            *)
(* (CapabilityGraphStore.replace, store.py; docs/graphify.md).             *)
THEOREM ProtectedApprovedCorrect == Spec => []ProtectedApproved
<1>1. Init => GraphInv
  BY GraphInit_GraphInv DEF Init
<1>2. GraphInv /\ [Next]_vars => GraphInv'
  BY Next_GraphInv
<1>3. GraphInv => ProtectedApproved
  BY DEF GraphInv
<1> QED
  BY <1>1, <1>2, <1>3, PTL DEF Spec

Number(f, outcome) == Cardinality({x \in Subjects : f[x] = outcome})

LEMMA CountedOnce ==
  ASSUME NEW f \in [Subjects -> {"none", "success", "failure"}], NEW s \in Subjects, f[s] = "none",
         NEW g, NEW counted \in {"success", "failure"}, NEW other \in {"success", "failure"},
         counted # other, g = [f EXCEPT ![s] = counted]
  PROVE  Number(g, counted) = Number(f, counted) + 1 /\ Number(g, other) = Number(f, other)
<1> DEFINE S == {x \in Subjects : f[x] = counted}
<1>1. IsFiniteSet(S)
  <2>1. S \subseteq Subjects
    OBVIOUS
  <2> QED BY <2>1, FS_Subset, GraphAssumption
<1>2. {x \in Subjects : g[x] = counted} = S \cup {s} /\ s \notin S
  OBVIOUS
<1>3. {x \in Subjects : g[x] = other} = {x \in Subjects : f[x] = other}
  OBVIOUS
<1>4. Cardinality(S \cup {s}) = Cardinality(S) + 1
  BY <1>1, <1>2, FS_AddElement
<1> QED
  BY <1>2, <1>3, <1>4 DEF Number

LEMMA Next_CountedTraces ==
  ASSUME GraphInv, CountedTraces, [Next]_vars
  PROVE  CountedTraces'
<1>t. /\ pattern \in [success: Nat, failure: Nat]
      /\ observed \in [Subjects -> {"none", "success", "failure"}]
  BY DEF GraphInv, GraphTypeOK
<1>1. CASE UNCHANGED <<pattern, observed>>
  BY <1>1 DEF CountedTraces
<1>2. ASSUME NEW l \in Reviewers, Record(l), observed[learner[l].subject] = "none"
      PROVE  CountedTraces'
  <2>1. learner[l].subject \in Subjects
    BY <1>2 DEF GraphInv, Learning, Record
  <2>2. CASE learner[l].success
    <3>1. /\ observed' = [observed EXCEPT ![learner[l].subject] = "success"]
          /\ pattern' = [pattern EXCEPT !.success = @ + 1]
      BY <1>2, <2>2 DEF Record, Count
    <3>2. pattern'.success = pattern.success + 1 /\ pattern'.failure = pattern.failure
      BY <3>1, <1>t
    <3>3. /\ Number(observed', "success") = Number(observed, "success") + 1
          /\ Number(observed', "failure") = Number(observed, "failure")
      <4>1. PICK s \in Subjects : s = learner[l].subject
        BY <2>1
      <4>2. observed[s] = "none" /\ observed' = [observed EXCEPT ![s] = "success"]
        BY <4>1, <3>1, <1>2
      <4> QED BY <4>2, <1>t, CountedOnce
    <3> QED BY <3>2, <3>3 DEF CountedTraces, Number
  <2>3. CASE ~learner[l].success
    <3>1. /\ observed' = [observed EXCEPT ![learner[l].subject] = "failure"]
          /\ pattern' = [pattern EXCEPT !.failure = @ + 1]
      BY <1>2, <2>3 DEF Record, Count
    <3>2. pattern'.failure = pattern.failure + 1 /\ pattern'.success = pattern.success
      BY <3>1, <1>t
    <3>3. /\ Number(observed', "failure") = Number(observed, "failure") + 1
          /\ Number(observed', "success") = Number(observed, "success")
      <4>1. PICK s \in Subjects : s = learner[l].subject
        BY <2>1
      <4>2. observed[s] = "none" /\ observed' = [observed EXCEPT ![s] = "failure"]
        BY <4>1, <3>1, <1>2
      <4> QED BY <4>2, <1>t, CountedOnce
    <3> QED BY <3>2, <3>3 DEF CountedTraces, Number
  <2> QED BY <2>2, <2>3
<1>3. CASE GraphMove
  <2>1. ASSUME NEW l \in Reviewers, LearnMove(l) PROVE CountedTraces'
    BY <1>1, <1>2, <2>1 DEF LearnMove, BeginLearn, Record
  <2> QED
    BY <1>1, <1>3, <2>1 DEF GraphMove, BuildMove, EditMove, learnVars
<1>4. CASE UNCHANGED graphVars
  BY <1>1, <1>4 DEF graphVars, learnVars
<1> QED
  BY <1>3, <1>4, GraphMoves

(* A trace is counted once and for one outcome, and the counts behind a    *)
(* recommendation are the numbers of such traces, whatever reviewers learn *)
(* at the same time (record_trace, store.py).                              *)
THEOREM CountedTracesCorrect == Spec => []CountedTraces
<1>1. Init => GraphInv /\ CountedTraces
  <2> SUFFICES ASSUME Init PROVE GraphInv /\ CountedTraces
    OBVIOUS
  <2>1. GraphInv /\ pattern = [success |-> 0, failure |-> 0] /\ observed = [s \in Subjects |-> "none"]
    BY GraphInit_GraphInv DEF Init, GraphInit
  <2>2. /\ {s \in Subjects : observed[s] = "success"} = {}
        /\ {s \in Subjects : observed[s] = "failure"} = {}
    BY <2>1
  <2> QED BY <2>1, <2>2, FS_EmptySet DEF CountedTraces
<1>2. GraphInv /\ CountedTraces /\ [Next]_vars => GraphInv' /\ CountedTraces'
  BY Next_GraphInv, Next_CountedTraces
<1> QED
  BY <1>1, <1>2, PTL DEF Spec

-----------------------------------------------------------------------------
(* The breaker of the planner.                                             *)

Probing(a) == At(a, "remote") /\ flow[a].probe
BreakerInv ==
  /\ breaker \in Breakers /\ leaked \in BOOLEAN
  /\ ProbeOwned

(* What a step makes of the breaker: nothing, and no call in progress      *)
(* ends; a call begins; or one ends with a verdict or without.             *)
Undisturbed ==
  /\ UNCHANGED <<breaker, leaked>>
  /\ \A a \in Agents : At(a, "remote") => flow'[a] = flow[a]
CallBegins(a) ==
  /\ Admits(breaker) /\ breaker' = before_call(breaker, Threshold)
  /\ UNCHANGED leaked
  /\ flow'[a].at = "remote" /\ flow'[a].probe = (breaker.opened = "ripe")
  /\ ~At(a, "remote") /\ \A d \in Agents \ {a} : flow'[d] = flow[d]
CallCounts ==
  breaker' \in {record_success(breaker), record_failure(breaker, Threshold)} /\ leaked' = FALSE
CallLeaks(a) ==
  /\ UNCHANGED breaker /\ leaked' = (leaked \/ flow[a].probe)
  /\ \A d \in Agents \ {a} : flow'[d] = flow[d]
Recovers ==
  breaker.opened = "open" /\ breaker' = Recovered(breaker) /\ UNCHANGED <<flow, leaked>>

LEMMA BeforeCallMoves ==
  ASSUME flow \in [Agents -> Flow], NEW a \in Agents, ~At(a, "remote"), NEW fallback \in BOOLEAN,
         BeforeCall(a, fallback), UNCHANGED leaked
  PROVE  Undisturbed \/ CallBegins(a)
<1>1. CASE /\ Admits(breaker)
           /\ breaker' = before_call(breaker, Threshold)
           /\ flow' = [flow EXCEPT ![a].at = "remote", ![a].probe = (breaker.opened = "ripe"),
                                   ![a].fallback = fallback]
  BY <1>1 DEF CallBegins, Flow
<1>2. CASE (NoRemotePlan(a, fallback) \/ Raises(a)) /\ UNCHANGED breaker
  <2>1. \A d \in Agents \ {a} : flow'[d] = flow[d]
    BY <1>2 DEF NoRemotePlan, Plan, PlanningFails, EndsPlanning, Raises
  <2> QED BY <1>2, <2>1 DEF Undisturbed
<1> QED
  BY <1>1, <1>2 DEF BeforeCall

LEMMA BreakerMoves ==
  ASSUME flow \in [Agents -> Flow], [Next]_vars
  PROVE  Undisturbed \/ CallCounts \/ Recovers \/ \E a \in Agents : CallBegins(a) \/ CallLeaks(a)
<1>1. ASSUME NEW a \in Agents, AgentStep(a)
      PROVE  Undisturbed \/ CallCounts \/ CallBegins(a) \/ CallLeaks(a)
  <2>f. flow[a] \in Flow
    OBVIOUS
  <2>1. CASE start_trace(a) \/ inspect_input(a) \/ EnsureGraph(a) \/ NothingToBuild(a)
    BY <2>1 DEF start_trace, inspect_input, Inspected, EnsureGraph, NothingToBuild, RouteFails, Undisturbed,
       Go, At, Raises, plannerVars
  <2>2. CASE Builds(a) \/ Health(a) \/ PlanRoute(a)
    BY <2>2 DEF Builds, Health, PlanRoute, RouteFails, Undisturbed, Go, At, Raises, plannerVars, flowVars
  <2>3. CASE CreatePlanner(a)
    <3>1. CASE \E fallback \in BOOLEAN : BeforeCall(a, fallback)
      BY <2>3, <3>1, BeforeCallMoves DEF CreatePlanner, At
    <3>2. CASE (Plan(a) \/ PlanningFails(a) \/ Raises(a)) /\ UNCHANGED breaker
      BY <2>3, <3>2 DEF CreatePlanner, Plan, PlanningFails, EndsPlanning, Raises, Undisturbed, At
    <3> QED BY <2>3, <3>1, <3>2 DEF CreatePlanner
  <2>4. CASE Again(a)
    BY <2>4, <2>f, BeforeCallMoves DEF Again, At, Flow
  <2>5. CASE Remote(a)
    <3>1. CASE leaked' = FALSE
      BY <2>5, <3>1 DEF Remote, CallCounts, CallLeaks, NoRemotePlan, Plan, PlanningFails, EndsPlanning, Raises
    <3>2. CASE leaked' = (leaked \/ flow[a].probe) /\ UNCHANGED breaker /\
               (NoRemotePlan(a, flow[a].fallback) \/ Raises(a))
      BY <3>2 DEF CallLeaks, NoRemotePlan, Plan, PlanningFails, EndsPlanning, Raises
    <3> QED BY <2>5, <3>1, <3>2 DEF Remote
  <2>6. CASE execute_route(a)
    BY <2>6 DEF execute_route, RunOne, record_audit, FanIn, At, plannerVars, Undisturbed
  <2>7. CASE execute_tools(a)
    BY <2>7 DEF execute_tools, GuardCall, Previewed, ContextGuards, ContextDecided, CallTool, Settled, At, Go,
       Raises, plannerVars, Undisturbed
  <2>8. CASE Finish(a) \/ PostAudit(a)
    BY <2>8 DEF Finish, PostAudit, Distrusted, At, Go, Raises, plannerVars, Undisturbed
  <2> QED
    BY <1>1, <2>1, <2>2, <2>3, <2>4, <2>5, <2>6, <2>7, <2>8 DEF AgentStep, route_task, plan_task
<1>2. CASE (\E b \in Builders : BuildStep(b)) \/ (\E l \in Reviewers : LearnStep(l)) \/ EditStep
  BY <1>2 DEF BuildStep, LearnStep, EditStep, Undisturbed, flowVars, plannerVars
<1>3. CASE RecoveryElapses
  BY <1>3 DEF RecoveryElapses, Recovers, flowVars
<1>4. CASE UNCHANGED vars
  BY <1>4 DEF vars, flowVars, sharedVars, Undisturbed
<1> QED
  BY <1>1, <1>2, <1>3, <1>4 DEF Next

LEMMA Init_BreakerInv ==
  ASSUME Init
  PROVE  BreakerInv
<1>1. Threshold \in Nat \ {0}
  BY FlowAssumption
<1>2. /\ Closed \in Breakers /\ ~Closed.probe /\ Closed.opened = "no" /\ Closed.failures = 0
  BY DEF Closed, Breakers
<1>3. breaker = Closed /\ leaked = FALSE
  BY DEF Init
<1>4. breaker.failures < Threshold /\ breaker.opened = "no" /\ ~breaker.probe
  BY <1>1, <1>2, <1>3
<1>5. ProbeOwned
  BY <1>4 DEF ProbeOwned
<1> QED
  BY <1>2, <1>3, <1>5 DEF BreakerInv

LEMMA Next_BreakerInv ==
  ASSUME BreakerInv, flow \in [Agents -> Flow], [Next]_vars
  PROVE  BreakerInv'
<1>t. /\ breaker \in Breakers /\ Threshold \in Nat \ {0} /\ leaked \in BOOLEAN
      /\ \A a \in Agents : flow[a].probe \in BOOLEAN
  BY FlowAssumption DEF BreakerInv, Flow
<1>o. /\ breaker.opened = "no" <=> breaker.failures < Threshold
      /\ breaker.probe => leaked \/ \E a \in Agents : Probing(a)
  BY DEF BreakerInv, ProbeOwned, Probing
<1>1. CASE Undisturbed
  BY <1>1, <1>t, <1>o DEF Undisturbed, BreakerInv, ProbeOwned, Probing, At
<1>2. CASE CallCounts
  <2>1. breaker' \in Breakers /\ leaked' \in BOOLEAN /\ ~breaker'.probe
    <3>1. record_success(breaker) \in Breakers /\ ~record_success(breaker).probe
      BY DEF record_success, Closed, Breakers
    <3>2. record_failure(breaker, Threshold) \in Breakers /\ ~record_failure(breaker, Threshold).probe
      BY <1>t DEF record_failure, Breakers
    <3> QED BY <1>2, <3>1, <3>2 DEF CallCounts
  <2>2. breaker'.opened = "no" <=> breaker'.failures < Threshold
    <3>1. CASE breaker' = record_success(breaker)
      BY <3>1, <1>t DEF record_success, Closed
    <3>2. CASE breaker' = record_failure(breaker, Threshold)
      <4>1. /\ breaker'.failures = breaker.failures + 1
            /\ breaker'.opened = IF breaker.failures + 1 >= Threshold THEN "open" ELSE breaker.opened
        BY <3>2 DEF record_failure
      <4>2. breaker.failures \in Nat
        BY <1>t DEF Breakers
      <4> QED BY <4>1, <4>2, <1>t, <1>o
    <3> QED BY <1>2, <3>1, <3>2 DEF CallCounts
  <2> QED BY <2>1, <2>2 DEF BreakerInv, ProbeOwned
<1>3. CASE Recovers
  BY <1>3, <1>t, <1>o DEF Recovers, Recovered, Breakers, BreakerInv, ProbeOwned, Probing, At
<1>4. ASSUME NEW a \in Agents, CallBegins(a) PROVE BreakerInv'
  <2>1. breaker' \in Breakers /\ (breaker'.opened = "no" <=> breaker'.failures < Threshold)
    BY <1>4, <1>t, <1>o DEF CallBegins, before_call, Breakers
  <2>2. CASE breaker.opened = "ripe"
    BY <1>4, <1>t, <2>1, <2>2 DEF CallBegins, BreakerInv, ProbeOwned, At
  <2>3. CASE breaker.opened # "ripe"
    BY <1>4, <1>t, <2>1, <2>3 DEF CallBegins, Admits, before_call, BreakerInv, ProbeOwned
  <2> QED BY <2>2, <2>3
<1>5. ASSUME NEW a \in Agents, CallLeaks(a) PROVE BreakerInv'
  BY <1>5, <1>t, <1>o DEF CallLeaks, BreakerInv, ProbeOwned, Probing, At
<1> QED
  BY <1>1, <1>2, <1>3, <1>4, <1>5, BreakerMoves

-----------------------------------------------------------------------------
(* One request: what a step makes of its state f, the events E and the     *)
(* final_outputs o of its trace.  First the moves that agents can make.    *)

RaiseMove(f, E, o, g, F, p) == g = Started("raised") /\ F = E /\ p = o

EarlyMove(f, E, g, F) ==
  \/ f.at = "trace" /\ g = [f EXCEPT !.at = "inspect"] /\ F = E \cup {<<"created">>}
  \/ /\ f.at = "inspect"
     /\ \/ g = [f EXCEPT !.blocked = TRUE, !.at = "finish"] /\ F = E \cup {<<"input_blocked">>}
        \/ g = [f EXCEPT !.blocked = FALSE, !.at = "route"] /\ F = E \cup {<<"input_passed">>}
  \/ /\ f.at \in {"route", "build", "health"}
     /\ \E point \in {"build", "health", "router"} : g = [f EXCEPT !.at = point]
     /\ F = E
  \/ /\ f.at \in {"route", "build", "health", "router"}
     /\ g = [f EXCEPT !.routing_failed = TRUE, !.at = "finish"] /\ F = E \cup {<<"routing_error">>}
  \/ f.at = "router" /\ g = [f EXCEPT !.at = "plan"] /\ F = E \cup {<<"router_plan">>}

PlannedAs(f, n, failed) ==
  [f EXCEPT !.planning_failed = failed, !.calls = n, !.attempt = 1, !.probe = FALSE, !.fallback = FALSE,
            !.at = "analyze"]
PlanMove(f, E, g, F) ==
  \/ /\ f.at \in {"plan", "again"}
     /\ \E probe, fallback \in BOOLEAN :
          g = [f EXCEPT !.at = "remote", !.probe = probe, !.fallback = fallback]
     /\ F = E
  \/ f.at = "remote" /\ g = [f EXCEPT !.attempt = @ + 1, !.probe = FALSE, !.at = "again"] /\ F = E
  \/ /\ f.at \in {"plan", "again", "remote"}
     /\ \/ (\E n \in 0..MaxCalls : g = PlannedAs(f, n, FALSE)) /\ F = E \cup {<<"agent_plan">>}
        \/ g = PlannedAs(f, 0, TRUE) /\ F = E \cup {<<"planning_error">>}

RouteMove(f, E, g, F) ==
  /\ f.at = "analyze"
  /\ \/ /\ \E d \in Decisions : g = [f EXCEPT !.router = d, !.at = "tools"]
        /\ F = E \cup {<<"router_execution">>}
     \/ /\ g = [f EXCEPT !.routing_failed = TRUE, !.at = "tools"]
        /\ F = E \cup {<<"router_execution_error">>}

More(f)     == ~f.planning_failed /\ ~f.routing_failed /\ Len(f.results) < f.calls
NextCall(f) == Len(f.results) + 1
SettledAs(f, result) == [f EXCEPT !.results = Append(@, result), !.preview = "none", !.at = "tools"]
Guarding(f) == {<<"mcpguard", NextCall(f)>>, <<"context", NextCall(f)>>}
Points      == {"context", "bare"}
Executing(f) ==
  {<<"tool_result", NextCall(f)>>} \cup (IF f.at = "bare" THEN {<<"unscreened", NextCall(f)>>} ELSE {})
CallMove(f, E, g, F) ==
  \/ f.at = "tools" /\ ~More(f) /\ g = [f EXCEPT !.at = "finish"] /\ F = E
  \/ /\ f.at = "tools" /\ More(f)
     /\ \E d \in Decisions, point \in Points :
          /\ g = [f EXCEPT !.preview = d, !.at = point]
          /\ F = E \cup (IF d = "allow" THEN {<<"mcpguard", NextCall(f)>>} ELSE {})
  \/ /\ f.at = "context"
     /\ g = [f EXCEPT !.at = "call"] /\ F = E \cup {<<"context", NextCall(f)>>}
  \/ /\ f.at \in {"tools", "context", "bare", "call"} /\ More(f)
     /\ \E result \in {"require_approval", "block"} : g = SettledAs(f, result)
     /\ F \in {E, E \cup {<<"mcpguard", NextCall(f)>>}, E \cup {<<"context", NextCall(f)>>}}
  \/ /\ f.at \in {"bare", "call"} /\ f.preview = "allow"
     /\ g = SettledAs(f, "executed") /\ F = E \cup Executing(f)

LastMove(f, E, o, g, F, p) ==
  \/ /\ f.at = "finish"
     /\ \E status \in Statuses :
          /\ status = "completed" => /\ ~f.routing_failed /\ ~f.planning_failed
                                     /\ \A i \in 1..Len(f.results) : f.results[i] = "executed"
          /\ status = "routing_failed" => f.routing_failed
          /\ status = "planning_failed" => f.planning_failed
          /\ status = "blocked" => f.blocked \/ f.results = <<>>
          /\ status # "none"
          /\ g = [f EXCEPT !.status = status, !.router = "none", !.results = <<>>, !.at = "post"]
          /\ p = Append(o, status)
     /\ F = E
  \/ f.at = "post" /\ g = [f EXCEPT !.at = "done"] /\ F = E \cup {<<"traceaudit">>} /\ p = o
  \/ /\ f.at = "post" /\ g = [f EXCEPT !.status = "blocked", !.at = "done"]
     /\ F \in {E \cup {<<"audit_fail_closed">>}, E \cup {<<"traceaudit">>, <<"audit_fail_closed">>}}
     /\ p = Append(o, "blocked")

FlowMove(f, E, o, g, F, p) ==
  \/ RaiseMove(f, E, o, g, F, p) \/ LastMove(f, E, o, g, F, p)
  \/ (EarlyMove(f, E, g, F) \/ PlanMove(f, E, g, F) \/ RouteMove(f, E, g, F) \/ CallMove(f, E, g, F)) /\ p = o

(* What holds of a request at each point: what its trace tells already     *)
(* (PathOK), what guards have let the call in progress pass and what those *)
(* before came to (CallOK), that nothing ran in a flow that is about to be *)
(* stopped (CleanOK), and what it may answer (AnswerOK).                   *)
Routing  == {"route", "build", "health", "router"}
Planning == {"plan", "again", "remote"}
Working  == {"analyze", "tools", "context", "bare", "call"}
Early    == {"trace", "inspect"} \cup Routing \cup Planning
Errors   == {<<"input_blocked">>, <<"routing_error">>, <<"planning_error">>, <<"router_execution_error">>}

PathOK(f, E) ==
  /\ f.at \in Routing \cup Planning \cup Working => <<"input_passed">> \in E
  /\ f.at \in Planning \cup Working => <<"router_plan">> \in E
  /\ f.at \in Working => f.planning_failed \/ <<"agent_plan">> \in E
  /\ f.at \in {"tools", "context", "bare", "call"} => f.routing_failed \/ <<"router_execution">> \in E
Screened(i, E) == <<"context", i>> \in E \/ <<"unscreened", i>> \in E
Behind(i, E) ==
  /\ {<<"input_passed">>, <<"router_plan">>, <<"agent_plan">>, <<"router_execution">>} \subseteq E
  /\ <<"mcpguard", i>> \in E /\ Screened(i, E)
CallOK(f, E) ==
  /\ f.at \in {"context", "bare", "call"} => More(f) /\ f.preview \in Decisions
  /\ f.at \in {"context", "bare", "call"} /\ f.preview = "allow" => <<"mcpguard", NextCall(f)>> \in E
  /\ f.at = "call" => <<"context", NextCall(f)>> \in E
  /\ \A i \in Nat : <<"tool_result", i>> \in E => Behind(i, E)
  /\ \A i \in 1..Len(f.results) : f.results[i] = "executed" => <<"tool_result", i>> \in E
CleanOK(f, E, o) ==
  /\ f.at \in Early => E \cap Errors = {} /\ f.calls = 0
  /\ f.at \in Working => f.planning_failed \/ f.routing_failed \/ E \cap Errors = {}
  /\ f.at \in Early \cup {"analyze"} => \A i \in Nat : <<"tool_result", i>> \notin E
  /\ f.at \in Early \cup Working \cup {"finish"} => o = <<>>
  /\ \A i \in Nat : <<"tool_result", i>> \in E =>
       /\ E \cap Errors = {} /\ ~f.planning_failed /\ ~f.routing_failed
       /\ \A j \in 1..Len(o) : o[j] \notin {"routing_failed", "planning_failed"}
AnswerOK(f, E, o) ==
  /\ f.at = "finish" => f.routing_failed \/ f.planning_failed \/ Len(f.results) >= f.calls
  /\ f.at \in {"post", "done"} =>
       /\ Len(o) > 0 /\ f.status = o[Len(o)]
       /\ f.status = "completed" => \A i \in 1..f.calls : <<"tool_result", i>> \in E
  /\ f.at = "done" /\ f.status = "completed" => <<"traceaudit">> \in E
FlowOK(f, E, o) ==
  f \in Flow /\ o \in Seq(Statuses) /\ PathOK(f, E) /\ CallOK(f, E) /\ CleanOK(f, E, o) /\ AnswerOK(f, E, o)

LEMMA FlowFields ==
  ASSUME NEW f \in Flow
  PROVE  /\ f.at \in Nodes /\ f.blocked \in BOOLEAN /\ f.routing_failed \in BOOLEAN
         /\ f.planning_failed \in BOOLEAN /\ f.calls \in Nat /\ f.attempt \in Nat
         /\ f.results \in Seq(Results) /\ Len(f.results) \in Nat /\ f.status \in Statuses
BY DEF Flow

(* What a trace tells stays told: only execute_tools adds a tool_result,   *)
(* and no node takes back what stands before it (nodes.py).                *)
LEMMA BehindGrows ==
  ASSUME NEW E, NEW F, E \subseteq F, \A i \in Nat : <<"tool_result", i>> \in E => Behind(i, E),
         \A i \in Nat : <<"tool_result", i>> \in F <=> <<"tool_result", i>> \in E
  PROVE  \A i \in Nat : <<"tool_result", i>> \in F => Behind(i, F)
BY DEF Behind, Screened

LEMMA RaiseKeeps ==
  ASSUME NEW f, NEW E, NEW o, NEW g, NEW F, NEW p, FlowOK(f, E, o), RaiseMove(f, E, o, g, F, p)
  PROVE  FlowOK(g, F, p)
<1>1. /\ g \in Flow /\ g.at = "raised" /\ g.results = <<>> /\ Len(g.results) = 0
      /\ ~g.planning_failed /\ ~g.routing_failed
  BY DEF RaiseMove, Started, Flow, Nodes, Statuses
<1>2. p = o /\ F = E /\ p \in Seq(Statuses)
  BY DEF RaiseMove, FlowOK
<1>3. PathOK(g, F) /\ AnswerOK(g, F, p)
  BY <1>1 DEF PathOK, AnswerOK, Routing, Planning, Working
<1>4. CallOK(g, F) /\ CleanOK(g, F, p)
  BY <1>1, <1>2 DEF FlowOK, CallOK, CleanOK, Early, Routing, Planning, Working
<1> QED
  BY <1>1, <1>2, <1>3, <1>4 DEF FlowOK

LEMMA EarlyKeeps ==
  ASSUME NEW f, NEW E, NEW o, NEW g, NEW F, FlowOK(f, E, o), EarlyMove(f, E, g, F)
  PROVE  FlowOK(g, F, o)
<1>f. f \in Flow /\ f.at \in Early /\ f.calls = 0 /\ Len(f.results) \in Nat
  BY FlowFields DEF FlowOK, EarlyMove, Early, Routing, CleanOK
<1>1. /\ g \in Flow /\ g.at \in Early \cup {"finish"} /\ g.calls = f.calls /\ g.results = f.results
      /\ g.planning_failed = f.planning_failed /\ g.status = f.status
      /\ g.at # "finish" => g.routing_failed = f.routing_failed
  <2>1. ASSUME NEW point \in {"inspect", "build", "health", "router", "plan"}, g = [f EXCEPT !.at = point]
        PROVE  /\ g \in Flow /\ g.at = point /\ g.calls = f.calls /\ g.results = f.results
               /\ g.planning_failed = f.planning_failed /\ g.status = f.status
               /\ g.routing_failed = f.routing_failed
    BY <1>f, <2>1 DEF Flow, Nodes
  <2>2. ASSUME NEW blocked \in BOOLEAN, NEW point \in {"finish", "route"},
               g = [f EXCEPT !.blocked = blocked, !.at = point]
        PROVE  /\ g \in Flow /\ g.at = point /\ g.calls = f.calls /\ g.results = f.results
               /\ g.planning_failed = f.planning_failed /\ g.status = f.status
               /\ g.routing_failed = f.routing_failed
    BY <1>f, <2>2 DEF Flow, Nodes
  <2>3. ASSUME g = [f EXCEPT !.routing_failed = TRUE, !.at = "finish"]
        PROVE  /\ g \in Flow /\ g.at = "finish" /\ g.calls = f.calls /\ g.results = f.results
               /\ g.planning_failed = f.planning_failed /\ g.status = f.status
    BY <1>f, <2>3 DEF Flow, Nodes
  <2> QED
    BY <2>1, <2>2, <2>3 DEF EarlyMove, Early, Routing, Planning
<1>2. /\ E \subseteq F
      /\ \A i \in Nat : <<"tool_result", i>> \in F <=> <<"tool_result", i>> \in E
      /\ g.at # "finish" => F \cap Errors = E \cap Errors
  <2>1. /\ E \subseteq F
        /\ \A i \in Nat : <<"tool_result", i>> \in F <=> <<"tool_result", i>> \in E
    BY DEF EarlyMove
  <2>2. g.at # "finish" => F \in {E, E \cup {<<"created">>}, E \cup {<<"input_passed">>}, E \cup {<<"router_plan">>}}
    BY <1>f DEF EarlyMove, Flow
  <2>3. {<<"created">>, <<"input_passed">>, <<"router_plan">>} \cap Errors = {}
    BY DEF Errors
  <2> QED
    BY <2>1, <2>2, <2>3
<1>3. PathOK(g, F)
  BY <1>f, <1>1, <1>2 DEF EarlyMove, FlowOK, PathOK, Early, Routing, Planning, Working, Flow
<1>4. CallOK(g, F)
  BY <1>f, <1>1, <1>2, BehindGrows DEF FlowOK, CallOK, Early, Routing, Planning
<1>5. CleanOK(g, F, o)
  BY <1>f, <1>1, <1>2 DEF FlowOK, CleanOK, Early, Routing, Planning, Working
<1>6. AnswerOK(g, F, o)
  BY <1>f, <1>1 DEF AnswerOK, Early, Routing, Planning
<1> QED
  BY <1>1, <1>3, <1>4, <1>5, <1>6 DEF FlowOK

LEMMA PlanKeeps ==
  ASSUME NEW f, NEW E, NEW o, NEW g, NEW F, FlowOK(f, E, o), PlanMove(f, E, g, F)
  PROVE  FlowOK(g, F, o)
<1>f. f \in Flow /\ f.at \in Planning /\ f.calls = 0 /\ Len(f.results) \in Nat
  BY FlowFields DEF FlowOK, PlanMove, Early, Planning, CleanOK
<1>1. /\ g \in Flow /\ g.at \in Planning \cup {"analyze"} /\ g.results = f.results
      /\ g.at # "analyze" => g.calls = 0 /\ F = E
      /\ g.at = "analyze" => \/ F = E \cup {<<"agent_plan">>}
                             \/ g.planning_failed /\ F = E \cup {<<"planning_error">>}
  <2>1. ASSUME NEW probe \in BOOLEAN, NEW fallback \in BOOLEAN,
               g = [f EXCEPT !.at = "remote", !.probe = probe, !.fallback = fallback]
        PROVE  g \in Flow /\ g.at = "remote" /\ g.results = f.results /\ g.calls = 0
    BY <1>f, <2>1 DEF Flow, Nodes
  <2>2. ASSUME g = [f EXCEPT !.attempt = @ + 1, !.probe = FALSE, !.at = "again"]
        PROVE  g \in Flow /\ g.at = "again" /\ g.results = f.results /\ g.calls = 0
    <3>1. PICK n \in Nat : n = f.attempt + 1
      BY <1>f, FlowFields
    <3> QED BY <1>f, <2>2, <3>1 DEF Flow, Nodes
  <2>3. ASSUME NEW n \in Nat, NEW failed \in BOOLEAN, g = PlannedAs(f, n, failed)
        PROVE  g \in Flow /\ g.at = "analyze" /\ g.results = f.results /\ g.planning_failed = failed
    BY <1>f, <2>3 DEF Flow, Nodes, PlannedAs
  <2>4. 0..MaxCalls \subseteq Nat
    BY FlowAssumption
  <2> QED
    BY <2>1, <2>2, <2>3, <2>4 DEF PlanMove, Planning
<1>2. /\ E \subseteq F
      /\ \A i \in Nat : <<"tool_result", i>> \in F <=> <<"tool_result", i>> \in E
  BY <1>1 DEF Planning
<1>3. g.planning_failed \/ F \cap Errors = E \cap Errors
  <2>1. <<"agent_plan">> \notin Errors
    BY DEF Errors
  <2> QED BY <1>1, <2>1 DEF Planning
<1>4. PathOK(g, F)
  BY <1>f, <1>1, <1>2 DEF FlowOK, PathOK, Routing, Planning, Working
<1>5. CallOK(g, F)
  BY <1>f, <1>1, <1>2, BehindGrows DEF FlowOK, CallOK, Planning
<1>6. CleanOK(g, F, o)
  BY <1>f, <1>1, <1>2, <1>3 DEF FlowOK, CleanOK, Early, Routing, Planning, Working
<1>7. AnswerOK(g, F, o)
  BY <1>f, <1>1 DEF AnswerOK, Planning
<1> QED
  BY <1>1, <1>4, <1>5, <1>6, <1>7 DEF FlowOK

LEMMA RouteKeeps ==
  ASSUME NEW f, NEW E, NEW o, NEW g, NEW F, FlowOK(f, E, o), RouteMove(f, E, g, F)
  PROVE  FlowOK(g, F, o)
<1>f. f \in Flow /\ f.at = "analyze" /\ Len(f.results) \in Nat
  BY FlowFields DEF FlowOK, RouteMove
<1>1. /\ g \in Flow /\ g.at = "tools" /\ g.results = f.results /\ g.calls = f.calls
      /\ g.planning_failed = f.planning_failed
      /\ \/ F = E \cup {<<"router_execution">>} /\ g.routing_failed = f.routing_failed
         \/ g.routing_failed /\ F = E \cup {<<"router_execution_error">>}
  <2>1. ASSUME NEW d \in Decisions, g = [f EXCEPT !.router = d, !.at = "tools"]
        PROVE  /\ g \in Flow /\ g.at = "tools" /\ g.results = f.results /\ g.calls = f.calls
               /\ g.planning_failed = f.planning_failed /\ g.routing_failed = f.routing_failed
    BY <1>f, <2>1 DEF Flow, Nodes
  <2>2. ASSUME g = [f EXCEPT !.routing_failed = TRUE, !.at = "tools"]
        PROVE  /\ g \in Flow /\ g.at = "tools" /\ g.results = f.results /\ g.calls = f.calls
               /\ g.planning_failed = f.planning_failed /\ g.routing_failed
    BY <1>f, <2>2 DEF Flow, Nodes
  <2> QED
    BY <2>1, <2>2 DEF RouteMove
<1>2. /\ E \subseteq F
      /\ \A i \in Nat : <<"tool_result", i>> \in F <=> <<"tool_result", i>> \in E
  BY <1>1
<1>3. g.routing_failed \/ (F \cap Errors = E \cap Errors /\ g.routing_failed = f.routing_failed)
  <2>1. <<"router_execution">> \notin Errors
    BY DEF Errors
  <2> QED BY <1>1, <2>1
<1>4. PathOK(g, F)
  BY <1>f, <1>1, <1>2 DEF FlowOK, PathOK, Routing, Planning, Working
<1>5. CallOK(g, F)
  BY <1>f, <1>1, <1>2, BehindGrows DEF FlowOK, CallOK
<1>6. CleanOK(g, F, o)
  BY <1>f, <1>1, <1>2, <1>3 DEF FlowOK, CleanOK, Early, Routing, Planning, Working
<1>7. AnswerOK(g, F, o)
  BY <1>1 DEF AnswerOK
<1> QED
  BY <1>1, <1>4, <1>5, <1>6, <1>7 DEF FlowOK

LEMMA LastKeeps ==
  ASSUME NEW f, NEW E, NEW o, NEW g, NEW F, NEW p, FlowOK(f, E, o), LastMove(f, E, o, g, F, p)
  PROVE  FlowOK(g, F, p)
<1>f. /\ f \in Flow /\ f.at \in {"finish", "post"} /\ Len(f.results) \in Nat /\ f.calls \in Nat
      /\ f.routing_failed \in BOOLEAN /\ f.planning_failed \in BOOLEAN
      /\ o \in Seq(Statuses) /\ Len(o) \in Nat /\ \A j \in 1..Len(o) : o[j] \in Statuses
  <2>1. f \in Flow /\ o \in Seq(Statuses) /\ f.at \in {"finish", "post"}
    BY DEF FlowOK, LastMove
  <2> QED BY <2>1, FlowFields
<1>1. /\ g \in Flow /\ g.at \in {"post", "done"} /\ g.calls = f.calls
      /\ g.planning_failed = f.planning_failed /\ g.routing_failed = f.routing_failed
      /\ f.at = "finish" => g.results = <<>> /\ g.at = "post"
      /\ f.at = "post" => g.results = f.results /\ g.at = "done"
  <2>1. ASSUME NEW status \in Statuses, f.at = "finish",
               g = [f EXCEPT !.status = status, !.router = "none", !.results = <<>>, !.at = "post"]
        PROVE  /\ g \in Flow /\ g.at = "post" /\ g.results = <<>> /\ g.calls = f.calls
               /\ g.planning_failed = f.planning_failed /\ g.routing_failed = f.routing_failed
    <3>1. <<>> \in Seq(Results)
      OBVIOUS
    <3> QED BY <1>f, <2>1, <3>1 DEF Flow, Nodes
  <2>2. ASSUME g \in {[f EXCEPT !.at = "done"], [f EXCEPT !.status = "blocked", !.at = "done"]}
        PROVE  /\ g \in Flow /\ g.at = "done" /\ g.results = f.results /\ g.calls = f.calls
               /\ g.planning_failed = f.planning_failed /\ g.routing_failed = f.routing_failed
    BY <1>f, <2>2 DEF Flow, Nodes, Statuses
  <2> QED
    BY <2>1, <2>2, <1>f DEF LastMove
<1>2. /\ E \subseteq F /\ F \cap Errors = E \cap Errors
      /\ \A i \in Nat : <<"tool_result", i>> \in F <=> <<"tool_result", i>> \in E
  <2>1. {<<"traceaudit">>, <<"audit_fail_closed">>} \cap Errors = {}
    BY DEF Errors
  <2>2. F \in {E, E \cup {<<"traceaudit">>}, E \cup {<<"audit_fail_closed">>},
               E \cup {<<"traceaudit">>, <<"audit_fail_closed">>}}
    BY DEF LastMove
  <2>3. E \subseteq F /\ \A i \in Nat : <<"tool_result", i>> \in F <=> <<"tool_result", i>> \in E
    BY <2>2
  <2> QED BY <2>1, <2>2, <2>3
<1>3. \/ /\ f.at = "finish" /\ g.status \in Statuses /\ p = Append(o, g.status)
         /\ g.status = "completed" => /\ ~f.routing_failed /\ ~f.planning_failed
                                      /\ \A i \in 1..Len(f.results) : f.results[i] = "executed"
         /\ g.status = "routing_failed" => f.routing_failed
         /\ g.status = "planning_failed" => f.planning_failed
      \/ f.at = "post" /\ g.status = f.status /\ p = o /\ <<"traceaudit">> \in F
      \/ f.at = "post" /\ g.status = "blocked" /\ p = Append(o, "blocked")
  <2>1. ASSUME NEW status \in Statuses,
               g = [f EXCEPT !.status = status, !.router = "none", !.results = <<>>, !.at = "post"]
        PROVE  g.status = status
    BY <1>f, <2>1 DEF Flow
  <2>2. g = [f EXCEPT !.at = "done"] => g.status = f.status
    BY <1>f DEF Flow
  <2>3. g = [f EXCEPT !.status = "blocked", !.at = "done"] => g.status = "blocked"
    BY <1>f DEF Flow
  <2>4. CASE f.at = "finish"
    <3>1. PICK status \in Statuses :
            /\ status = "completed" => /\ ~f.routing_failed /\ ~f.planning_failed
                                       /\ \A i \in 1..Len(f.results) : f.results[i] = "executed"
            /\ status = "routing_failed" => f.routing_failed
            /\ status = "planning_failed" => f.planning_failed
            /\ g = [f EXCEPT !.status = status, !.router = "none", !.results = <<>>, !.at = "post"]
            /\ p = Append(o, status)
      BY <2>4 DEF LastMove
    <3>2. g.status = status
      BY <2>1, <3>1
    <3> QED BY <2>4, <3>1, <3>2
  <2>5. CASE f.at = "post"
    <3>1. \/ g = [f EXCEPT !.at = "done"] /\ p = o /\ <<"traceaudit">> \in F
          \/ g = [f EXCEPT !.status = "blocked", !.at = "done"] /\ p = Append(o, "blocked")
      BY <2>5 DEF LastMove
    <3> QED BY <2>2, <2>3, <2>5, <3>1
  <2> QED BY <1>f, <2>4, <2>5
<1>4. g.status \in Statuses
  BY <1>1 DEF Flow
<1>5. ASSUME NEW status \in Statuses, p = Append(o, status)
      PROVE  /\ p \in Seq(Statuses) /\ Len(p) = Len(o) + 1 /\ p[Len(p)] = status
             /\ \A j \in 1..Len(p) : p[j] = status \/ (j \in 1..Len(o) /\ p[j] = o[j])
  BY <1>f, <1>5
<1>6. /\ p \in Seq(Statuses)
      /\ \A j \in 1..Len(p) : \/ p[j] = "blocked" \/ (j \in 1..Len(o) /\ p[j] = o[j])
                              \/ f.at = "finish" /\ p[j] = g.status
  <2>1. "blocked" \in Statuses
    BY DEF Statuses
  <2> QED BY <1>f, <1>3, <1>4, <1>5, <2>1
<1>7. PathOK(g, F)
  BY <1>1 DEF PathOK, Routing, Planning, Working
<1>8. CallOK(g, F)
  <2>1. g.at \in {"post", "done"} /\ \A i \in 1..Len(g.results) : g.results[i] # "executed" \/ g.results = f.results
    BY <1>f, <1>1
  <2>2. \A i \in Nat : <<"tool_result", i>> \in F => Behind(i, F)
    BY <1>2, BehindGrows DEF FlowOK, CallOK
  <2>3. \A i \in 1..Len(g.results) : g.results[i] = "executed" => <<"tool_result", i>> \in F
    BY <1>f, <1>1, <1>2, <2>1 DEF FlowOK, CallOK
  <2> QED BY <2>1, <2>2, <2>3 DEF CallOK
<1>9. CleanOK(g, F, p)
  BY <1>f, <1>1, <1>2, <1>3, <1>6 DEF FlowOK, CleanOK, Early, Routing, Planning, Working
<1>10. AnswerOK(g, F, p)
  <2>1. CASE f.at = "finish"
    <3>1. Len(p) > 0 /\ g.status = p[Len(p)]
      BY <2>1, <1>3, <1>4, <1>5, <1>f
    <3>2. ASSUME g.status = "completed", NEW i \in 1..g.calls
          PROVE  <<"tool_result", i>> \in F
      <4>1. f.calls <= Len(f.results)
        BY <3>2, <2>1, <1>3, <1>f DEF FlowOK, AnswerOK
      <4>2. f.results[i] = "executed" /\ i \in 1..Len(f.results)
        BY <4>1, <3>2, <2>1, <1>1, <1>3, <1>f
      <4> QED BY <4>2, <1>2 DEF FlowOK, CallOK
    <3> QED BY <2>1, <1>1, <3>1, <3>2 DEF AnswerOK
  <2>2. CASE f.at = "post" /\ g.status = f.status /\ p = o /\ <<"traceaudit">> \in F
    BY <2>2, <1>1, <1>2 DEF FlowOK, AnswerOK
  <2>3. CASE f.at = "post" /\ g.status = "blocked" /\ p = Append(o, "blocked")
    BY <2>3, <1>f, <1>1, <1>4, <1>5 DEF AnswerOK
  <2> QED BY <1>3, <2>1, <2>2, <2>3
<1> QED
  BY <1>1, <1>6, <1>7, <1>8, <1>9, <1>10 DEF FlowOK

LEMMA SettledFields ==
  ASSUME NEW f \in Flow, NEW result \in Results, NEW g, g = SettledAs(f, result)
  PROVE  /\ g \in Flow /\ g.at = "tools" /\ g.calls = f.calls
         /\ g.planning_failed = f.planning_failed /\ g.routing_failed = f.routing_failed
         /\ Len(g.results) = Len(f.results) + 1 /\ g.results[NextCall(f)] = result
         /\ \A i \in 1..Len(f.results) : g.results[i] = f.results[i]
<1>1. PICK s \in Seq(Results) : s = Append(f.results, result)
  <2>1. f.results \in Seq(Results)
    BY FlowFields
  <2>2. Append(f.results, result) \in Seq(Results)
    BY <2>1
  <2> QED BY <2>2
<1>2. /\ Len(s) = Len(f.results) + 1 /\ s[NextCall(f)] = result
      /\ \A i \in 1..Len(f.results) : s[i] = f.results[i]
  BY <1>1, FlowFields DEF NextCall
<1>3. g = [f EXCEPT !.results = s, !.preview = "none", !.at = "tools"]
  BY <1>1 DEF SettledAs
<1>4. /\ g \in Flow /\ g.at = "tools" /\ g.calls = f.calls /\ g.results = s
      /\ g.planning_failed = f.planning_failed /\ g.routing_failed = f.routing_failed
  BY <1>3 DEF Flow, Nodes
<1> QED
  BY <1>2, <1>4

LEMMA CallKeeps ==
  ASSUME NEW f, NEW E, NEW o, NEW g, NEW F, FlowOK(f, E, o), CallMove(f, E, g, F)
  PROVE  FlowOK(g, F, o)
<1>f. f \in Flow /\ f.at \in {"tools", "context", "bare", "call"} /\ Len(f.results) \in Nat /\ f.calls \in Nat
      /\ f.routing_failed \in BOOLEAN /\ f.planning_failed \in BOOLEAN
  BY FlowFields DEF FlowOK, CallMove
<1>n. NextCall(f) \in Nat /\ NextCall(f) = Len(f.results) + 1
  BY <1>f DEF NextCall
<1>o. o \in Seq(Statuses)
  BY DEF FlowOK
<1>e. ASSUME NEW w \in {"mcpguard", "context", "unscreened", "tool_result"}, NEW i \in Nat
      PROVE  <<w, i>> \notin Errors
  BY DEF Errors
<1>1. CASE f.at = "tools" /\ ~More(f) /\ g = [f EXCEPT !.at = "finish"] /\ F = E
  <2>1. /\ g \in Flow /\ g.at = "finish" /\ g.calls = f.calls /\ g.results = f.results
        /\ g.planning_failed = f.planning_failed /\ g.routing_failed = f.routing_failed
    BY <1>f, <1>1 DEF Flow, Nodes
  <2>2. PathOK(g, F) /\ CallOK(g, F)
    BY <2>1, <1>1 DEF FlowOK, PathOK, CallOK, Routing, Planning, Working
  <2>3. CleanOK(g, F, o)
    BY <2>1, <1>1 DEF FlowOK, CleanOK, Early, Routing, Planning, Working
  <2>4. AnswerOK(g, F, o)
    BY <2>1, <1>1, <1>f DEF AnswerOK, More
  <2> QED BY <2>1, <2>2, <2>3, <2>4, <1>o DEF FlowOK
<1>2. ASSUME g \in Flow, g.at \in {"context", "bare", "call"}, g.calls = f.calls, g.results = f.results,
             g.planning_failed = f.planning_failed, g.routing_failed = f.routing_failed,
             More(f), g.preview \in Decisions,
             NEW es \in SUBSET Guarding(f), F = E \cup es,
             g.preview = "allow" => <<"mcpguard", NextCall(f)>> \in F,
             g.at = "call" => <<"context", NextCall(f)>> \in F
      PROVE  FlowOK(g, F, o)
  <2>1. /\ E \subseteq F /\ F \cap Errors = E \cap Errors
        /\ \A i \in Nat : <<"tool_result", i>> \in F <=> <<"tool_result", i>> \in E
    <3>1. es \cap Errors = {}
      BY <1>2, <1>e, <1>n DEF Guarding
    <3>2. \A i \in Nat : <<"tool_result", i>> \notin es
      BY <1>2 DEF Guarding
    <3> QED BY <1>2, <3>1, <3>2
  <2>2. More(g) /\ NextCall(g) = NextCall(f)
    BY <1>2 DEF More, NextCall
  <2>3. PathOK(g, F)
    BY <1>2, <1>f, <2>1 DEF FlowOK, PathOK, Routing, Planning, Working
  <2>4. CallOK(g, F)
    <3>1. \A i \in Nat : <<"tool_result", i>> \in F => Behind(i, F)
      BY <2>1, BehindGrows DEF FlowOK, CallOK
    <3> QED BY <1>2, <1>f, <2>1, <2>2, <3>1 DEF FlowOK, CallOK
  <2>5. CleanOK(g, F, o)
    BY <1>2, <1>f, <2>1 DEF FlowOK, CleanOK, Early, Routing, Planning, Working
  <2>6. AnswerOK(g, F, o)
    BY <1>2 DEF AnswerOK
  <2> QED BY <2>3, <2>4, <2>5, <2>6, <1>2, <1>o DEF FlowOK
<1>3. ASSUME NEW d \in Decisions, NEW point \in Points, f.at = "tools", More(f),
             g = [f EXCEPT !.preview = d, !.at = point],
             F = E \cup (IF d = "allow" THEN {<<"mcpguard", NextCall(f)>>} ELSE {})
      PROVE  FlowOK(g, F, o)
  <2>1. /\ g \in Flow /\ g.at \in {"context", "bare"} /\ g.calls = f.calls /\ g.results = f.results
        /\ g.planning_failed = f.planning_failed /\ g.routing_failed = f.routing_failed /\ g.preview = d
    BY <1>f, <1>3 DEF Flow, Nodes, Points
  <2>2. PICK es \in SUBSET Guarding(f) : es = IF d = "allow" THEN {<<"mcpguard", NextCall(f)>>} ELSE {}
    BY DEF Guarding
  <2>3. F = E \cup es /\ (d = "allow" => <<"mcpguard", NextCall(f)>> \in F)
    BY <1>3, <2>2
  <2> QED BY <1>2, <1>3, <2>1, <2>3
<1>4. ASSUME f.at = "context", g = [f EXCEPT !.at = "call"], F = E \cup {<<"context", NextCall(f)>>}
      PROVE  FlowOK(g, F, o)
  <2>1. /\ g \in Flow /\ g.at = "call" /\ g.calls = f.calls /\ g.results = f.results
        /\ g.planning_failed = f.planning_failed /\ g.routing_failed = f.routing_failed
        /\ g.preview = f.preview
    BY <1>f, <1>4 DEF Flow, Nodes
  <2>2. More(f) /\ f.preview \in Decisions /\ (f.preview = "allow" => <<"mcpguard", NextCall(f)>> \in E)
    BY <1>4 DEF FlowOK, CallOK
  <2>3. {<<"context", NextCall(f)>>} \in SUBSET Guarding(f) /\ <<"context", NextCall(f)>> \in F
    BY <1>4 DEF Guarding
  <2>4. g.preview = "allow" => <<"mcpguard", NextCall(f)>> \in F
    BY <1>4, <2>1, <2>2
  <2> QED BY <1>2, <1>4, <2>1, <2>2, <2>3, <2>4
<1>5. ASSUME NEW result \in Results, g = SettledAs(f, result), E \subseteq F, F \cap Errors = E \cap Errors,
             \A i \in Nat : <<"tool_result", i>> \in F =>
               <<"tool_result", i>> \in E \/ (Behind(i, F) /\ f.at \in {"bare", "call"}),
             result = "executed" => <<"tool_result", NextCall(f)>> \in F
      PROVE  FlowOK(g, F, o)
  <2>1. /\ g \in Flow /\ g.at = "tools" /\ g.calls = f.calls
        /\ g.planning_failed = f.planning_failed /\ g.routing_failed = f.routing_failed
        /\ Len(g.results) = Len(f.results) + 1 /\ g.results[NextCall(f)] = result
        /\ \A i \in 1..Len(f.results) : g.results[i] = f.results[i]
    BY <1>5, <1>f, SettledFields
  <2>3. PathOK(g, F)
    BY <1>5, <1>f, <2>1 DEF FlowOK, PathOK, Routing, Planning, Working
  <2>4. CallOK(g, F)
    <3>1. \A i \in 1..Len(g.results) : i \in 1..Len(f.results) \/ i = NextCall(f)
      BY <2>1, <1>f, <1>n
    <3>2. \A i \in 1..Len(g.results) : g.results[i] = "executed" => <<"tool_result", i>> \in F
      BY <1>5, <2>1, <3>1 DEF FlowOK, CallOK
    <3>3. \A i \in Nat : <<"tool_result", i>> \in F => Behind(i, F)
      <4>1. \A i \in Nat : Behind(i, E) => Behind(i, F)
        BY <1>5 DEF Behind, Screened
      <4> QED BY <1>5, <4>1 DEF FlowOK, CallOK
    <3> QED BY <2>1, <3>2, <3>3 DEF CallOK
  <2>5. CleanOK(g, F, o)
    <3>1. o = <<>> /\ Len(o) = 0
      BY <1>f DEF FlowOK, CleanOK, Working
    <3>2. ASSUME NEW i \in Nat, <<"tool_result", i>> \in F
          PROVE  F \cap Errors = {} /\ ~g.planning_failed /\ ~g.routing_failed
      <4>1. CASE <<"tool_result", i>> \in E
        BY <4>1, <1>5, <2>1 DEF FlowOK, CleanOK
      <4>2. CASE f.at \in {"bare", "call"}
        BY <4>2, <1>5, <2>1 DEF FlowOK, CleanOK, CallOK, More, Working
      <4> QED BY <3>2, <4>1, <4>2, <1>5
    <3>3. g.planning_failed \/ g.routing_failed \/ F \cap Errors = {}
      BY <1>5, <1>f, <2>1 DEF FlowOK, CleanOK, Working
    <3> QED BY <2>1, <3>1, <3>2, <3>3 DEF CleanOK, Early, Routing, Planning, Working
  <2>6. AnswerOK(g, F, o)
    BY <2>1 DEF AnswerOK
  <2> QED BY <2>1, <2>3, <2>4, <2>5, <2>6, <1>o DEF FlowOK
<1>6. ASSUME NEW result \in {"require_approval", "block"}, g = SettledAs(f, result),
             F \in {E, E \cup {<<"mcpguard", NextCall(f)>>}, E \cup {<<"context", NextCall(f)>>}}
      PROVE  FlowOK(g, F, o)
  <2>1. /\ E \subseteq F /\ F \cap Errors = E \cap Errors
        /\ \A i \in Nat : <<"tool_result", i>> \in F => <<"tool_result", i>> \in E
    BY <1>6, <1>e, <1>n
  <2>2. result \in Results /\ result # "executed"
    BY DEF Results
  <2> QED BY <1>5, <1>6, <2>1, <2>2
<1>7. ASSUME f.at \in {"bare", "call"}, f.preview = "allow", g = SettledAs(f, "executed"),
             F = E \cup Executing(f)
      PROVE  FlowOK(g, F, o)
  <2>1. E \subseteq F /\ F \cap Errors = E \cap Errors /\ <<"tool_result", NextCall(f)>> \in F
    BY <1>7, <1>e, <1>n DEF Executing
  <2>2. Behind(NextCall(f), F)
    <3>1. More(f) /\ <<"mcpguard", NextCall(f)>> \in E /\ Screened(NextCall(f), F)
      BY <1>7 DEF FlowOK, CallOK, Executing, Screened
    <3>2. <<"input_passed">> \in E /\ <<"router_plan">> \in E /\ <<"agent_plan">> \in E /\ <<"router_execution">> \in E
      BY <1>7, <3>1 DEF FlowOK, PathOK, More, Working
    <3> QED BY <2>1, <3>1, <3>2 DEF Behind
  <2>3. ASSUME NEW i \in Nat, <<"tool_result", i>> \in F, <<"tool_result", i>> \notin E
        PROVE  Behind(i, F)
    <3>1. i = NextCall(f)
      BY <1>7, <2>3, <1>n DEF Executing
    <3> QED BY <2>2, <3>1
  <2>4. "executed" \in Results
    BY DEF Results
  <2> QED BY <1>5, <1>7, <2>1, <2>3, <2>4
<1> QED
  BY <1>1, <1>3, <1>4, <1>6, <1>7 DEF CallMove

LEMMA MoveKeeps ==
  ASSUME NEW f, NEW E, NEW o, NEW g, NEW F, NEW p, FlowOK(f, E, o), FlowMove(f, E, o, g, F, p)
  PROVE  FlowOK(g, F, p)
BY RaiseKeeps, EarlyKeeps, PlanKeeps, RouteKeeps, CallKeeps, LastKeeps DEF FlowMove

-----------------------------------------------------------------------------
(* Every action makes one of these moves.                                  *)

Traced ==
  /\ flow \in [Agents -> Flow] /\ outputs \in [Agents -> Seq(Statuses)]
  /\ events = [a \in Agents |-> events[a]]
  /\ sub \in [Agents -> [SubTasks -> SubState]]
FlowInv ==
  /\ Traced
  /\ \A a \in Agents : FlowOK(flow[a], events[a], outputs[a])

Same(a)  == flow'[a] = flow[a] /\ events'[a] = events[a] /\ outputs'[a] = outputs[a]
Moves(a) == FlowMove(flow[a], events[a], outputs[a], flow'[a], events'[a], outputs'[a])
Only(a)  == /\ flow' = [flow EXCEPT ![a] = flow'[a]]
            /\ events' = [events EXCEPT ![a] = events'[a]]
            /\ outputs' = [outputs EXCEPT ![a] = outputs'[a]]

LEMMA Becoming ==
  ASSUME Traced, NEW a \in Agents, NEW g, flow' = [flow EXCEPT ![a] = g]
  PROVE  flow' = [flow EXCEPT ![a] = flow'[a]] /\ flow'[a] = g
BY DEF Traced

LEMMA Logging ==
  ASSUME Traced, NEW a \in Agents, NEW es, Logged(a, es)
  PROVE  events' = [events EXCEPT ![a] = events'[a]] /\ events'[a] = events[a] \cup es
BY DEF Traced, Logged

LEMMA Silent ==
  ASSUME Traced, NEW a \in Agents
  PROVE  /\ UNCHANGED flow => flow' = [flow EXCEPT ![a] = flow'[a]]
         /\ UNCHANGED events => events' = [events EXCEPT ![a] = events'[a]]
         /\ UNCHANGED outputs => outputs' = [outputs EXCEPT ![a] = outputs'[a]]
BY DEF Traced

(* A step of one request that tells es, or nothing.                        *)
Makes(a, g, F, p) == Only(a) /\ flow'[a] = g /\ events'[a] = F /\ outputs'[a] = p

LEMMA Telling ==
  ASSUME Traced, NEW a \in Agents, NEW g, NEW es,
         flow' = [flow EXCEPT ![a] = g], Logged(a, es), UNCHANGED outputs
  PROVE  Makes(a, g, events[a] \cup es, outputs[a])
<1>1. flow' = [flow EXCEPT ![a] = flow'[a]] /\ flow'[a] = g
  BY Becoming
<1>2. events' = [events EXCEPT ![a] = events'[a]] /\ events'[a] = events[a] \cup es
  BY Logging
<1>3. outputs' = [outputs EXCEPT ![a] = outputs'[a]] /\ outputs'[a] = outputs[a]
  BY Silent
<1> QED
  BY <1>1, <1>2, <1>3 DEF Makes, Only

LEMMA Keeping ==
  ASSUME Traced, NEW a \in Agents, NEW g,
         flow' = [flow EXCEPT ![a] = g], UNCHANGED <<events, outputs>>
  PROVE  Makes(a, g, events[a], outputs[a])
<1>1. flow' = [flow EXCEPT ![a] = flow'[a]] /\ flow'[a] = g
  BY Becoming
<1>2. events' = [events EXCEPT ![a] = events'[a]] /\ outputs' = [outputs EXCEPT ![a] = outputs'[a]]
  BY Silent
<1> QED
  BY <1>1, <1>2 DEF Makes, Only

LEMMA Resting ==
  ASSUME Traced, NEW a \in Agents, UNCHANGED <<flow, events, outputs>>
  PROVE  Only(a) /\ Same(a)
BY Silent DEF Only, Same

LEMMA Making ==
  ASSUME NEW a \in Agents, NEW g, NEW F, NEW p, Makes(a, g, F, p),
         FlowMove(flow[a], events[a], outputs[a], g, F, p)
  PROVE  Only(a) /\ Moves(a)
BY DEF Makes, Moves

LEMMA Raising ==
  ASSUME Traced, NEW a \in Agents, Raises(a)
  PROVE  Only(a) /\ Moves(a)
<1>1. flow' = [flow EXCEPT ![a] = flow'[a]] /\ flow'[a] = Started("raised") /\ UNCHANGED <<events, outputs>>
  BY Becoming DEF Raises
<1> QED
  BY <1>1, Silent DEF Only, Moves, FlowMove, RaiseMove

LEMMA SuccessIsTold ==
  ASSUME NEW x \in SkillEnds, x.success
  PROVE  x.completed
<1>1. PICK e \in Executions(Manifest) : x = [success |-> e.success, completed |-> "completed" \in e.told]
  BY DEF SkillEnds
<1>2. e.success
  BY <1>1
<1>3. \A m, audit, attempts, told : Response(m, audit, FALSE, attempts, told).success = FALSE
  BY DEF Response
<1>4. e \notin Rejected(Manifest) /\ e \notin Unstarted(Manifest)
  BY <1>2, <1>3 DEF Rejected, Unstarted
<1>5. PICK r \in Runs(Manifest) : e \in Ran(Manifest, r)
  BY <1>1, <1>4 DEF Executions
<1>6. e \in Completed(Manifest, r)
  BY <1>2, <1>3, <1>5 DEF Ran, Failed
<1>7. PICK audit \in Audits : e = Response(Manifest, audit, Confirmed(audit), r.attempts, Begun(r) \cup Told("completed", audit))
  BY <1>6 DEF Completed
<1>8. e.success = Confirmed(audit) /\ e.told = Begun(r) \cup Told("completed", audit)
  BY <1>7 DEF Response
<1>9. "completed" \in e.told
  BY <1>2, <1>8 DEF Confirmed, Told
<1> QED
  BY <1>1, <1>9

LEMMA RouteFailing ==
  ASSUME Traced, NEW a \in Agents, RouteFails(a), flow[a].at \in {"route", "build", "health", "router"}
  PROVE  Only(a) /\ Moves(a)
<1>1. Makes(a, [flow[a] EXCEPT !.routing_failed = TRUE, !.at = "finish"],
            events[a] \cup {<<"routing_error">>}, outputs[a])
  BY Telling DEF RouteFails
<1> QED
  BY <1>1, Making DEF FlowMove, EarlyMove

LEMMA EarlyActions ==
  ASSUME Traced, NEW a \in Agents,
         start_trace(a) \/ inspect_input(a) \/ PlanRoute(a)
  PROVE  Only(a) /\ (Same(a) \/ Moves(a))
<1>1. CASE start_trace(a)
  <2>1. CASE Raises(a)
    BY <2>1, Raising
  <2>2. CASE Logged(a, {<<"created">>}) /\ Go(a, "inspect") /\ UNCHANGED outputs
    <3>1. Makes(a, [flow[a] EXCEPT !.at = "inspect"], events[a] \cup {<<"created">>}, outputs[a])
      BY <2>2, Telling DEF Go
    <3> QED BY <1>1, <3>1, Making DEF start_trace, At, FlowMove, EarlyMove
  <2> QED BY <1>1, <2>1, <2>2 DEF start_trace
<1>2. CASE inspect_input(a)
  <2>1. CASE Raises(a)
    BY <2>1, Raising
  <2>2. CASE Inspected(a, TRUE)
    <3>1. Makes(a, [flow[a] EXCEPT !.blocked = TRUE, !.at = "finish"],
                events[a] \cup {<<"input_blocked">>}, outputs[a])
      BY <2>2, Telling DEF Inspected
    <3> QED BY <1>2, <3>1, Making DEF inspect_input, At, FlowMove, EarlyMove
  <2>3. CASE Inspected(a, FALSE)
    <3>1. Makes(a, [flow[a] EXCEPT !.blocked = FALSE, !.at = "route"],
                events[a] \cup {<<"input_passed">>}, outputs[a])
      BY <2>3, Telling DEF Inspected
    <3> QED BY <1>2, <3>1, Making DEF inspect_input, At, FlowMove, EarlyMove
  <2> QED BY <1>2, <2>1, <2>2, <2>3 DEF inspect_input
<1>3. CASE PlanRoute(a)
  <2>1. CASE Raises(a)
    BY <2>1, Raising
  <2>2. CASE Logged(a, {<<"router_plan">>}) /\ Go(a, "plan") /\ UNCHANGED outputs
    <3>1. Makes(a, [flow[a] EXCEPT !.at = "plan"], events[a] \cup {<<"router_plan">>}, outputs[a])
      BY <2>2, Telling DEF Go
    <3> QED BY <1>3, <3>1, Making DEF PlanRoute, At, FlowMove, EarlyMove
  <2>3. CASE RouteFails(a)
    BY <1>3, <2>3, RouteFailing DEF PlanRoute, At
  <2> QED BY <1>3, <2>1, <2>2, <2>3 DEF PlanRoute
<1> QED
  BY <1>1, <1>2, <1>3

LEMMA GraphActions ==
  ASSUME Traced, NEW a \in Agents,
         EnsureGraph(a) \/ NothingToBuild(a) \/ Builds(a) \/ Health(a)
  PROVE  Only(a) /\ (Same(a) \/ Moves(a))
<1>0. flow[a].at \in {"route", "build", "health"}
  BY DEF EnsureGraph, NothingToBuild, Builds, Health, At
<1>1. CASE Raises(a)
  BY <1>1, Raising
<1>2. CASE RouteFails(a)
  BY <1>0, <1>2, RouteFailing
<1>3. CASE UNCHANGED flowVars
  BY <1>3, Resting DEF flowVars
<1>4. ASSUME NEW point \in {"build", "health", "router"}, Go(a, point), UNCHANGED <<events, outputs>>
      PROVE  Only(a) /\ Moves(a)
  <2>1. Makes(a, [flow[a] EXCEPT !.at = point], events[a], outputs[a])
    BY <1>4, Keeping DEF Go
  <2> QED BY <1>0, <2>1, Making DEF FlowMove, EarlyMove
<1>5. CASE EnsureGraph(a)
  BY <1>5, <1>4 DEF EnsureGraph
<1>6. CASE NothingToBuild(a)
  BY <1>6, <1>2 DEF NothingToBuild
<1>7. CASE Builds(a)
  BY <1>7, <1>1, <1>2, <1>3, <1>4 DEF Builds
<1>8. CASE Health(a)
  BY <1>8, <1>1, <1>2, <1>4 DEF Health
<1> QED
  BY <1>5, <1>6, <1>7, <1>8

LEMMA PlanEnds ==
  ASSUME Traced, NEW a \in Agents, flow[a].at \in {"plan", "again", "remote"},
         Plan(a) \/ PlanningFails(a) \/ (\E fallback \in BOOLEAN : NoRemotePlan(a, fallback))
  PROVE  Only(a) /\ Moves(a)
<1>1. CASE Plan(a)
  <2>1. PICK n \in 0..MaxCalls : flow' = [flow EXCEPT ![a] = PlannedAs(flow[a], n, FALSE)]
    <3>1. PICK n \in 0..MaxCalls : EndsPlanning(a, n, FALSE)
      BY <1>1 DEF Plan
    <3> QED BY <3>1 DEF EndsPlanning, PlannedAs
  <2>2. Makes(a, PlannedAs(flow[a], n, FALSE), events[a] \cup {<<"agent_plan">>}, outputs[a])
    BY <1>1, <2>1, Telling DEF Plan
  <2> QED BY <2>2, Making DEF FlowMove, PlanMove
<1>2. CASE PlanningFails(a)
  <2>1. flow' = [flow EXCEPT ![a] = PlannedAs(flow[a], 0, TRUE)]
    BY <1>2 DEF PlanningFails, EndsPlanning, PlannedAs
  <2>2. Makes(a, PlannedAs(flow[a], 0, TRUE), events[a] \cup {<<"planning_error">>}, outputs[a])
    BY <1>2, <2>1, Telling DEF PlanningFails
  <2> QED BY <2>2, Making DEF FlowMove, PlanMove
<1> QED
  BY <1>1, <1>2 DEF NoRemotePlan

LEMMA PlanActions ==
  ASSUME Traced, NEW a \in Agents, CreatePlanner(a) \/ Again(a) \/ Remote(a)
  PROVE  Only(a) /\ (Same(a) \/ Moves(a))
<1>0. flow[a].at \in {"plan", "again", "remote"} /\ flow[a].probe \in BOOLEAN /\ flow[a].fallback \in BOOLEAN
  BY DEF CreatePlanner, Again, Remote, At, Traced, Flow
<1>1. CASE Raises(a)
  BY <1>1, Raising
<1>2. CASE Plan(a) \/ PlanningFails(a) \/ (\E fallback \in BOOLEAN : NoRemotePlan(a, fallback))
  BY <1>0, <1>2, PlanEnds
<1>3. ASSUME NEW fallback \in BOOLEAN, BeforeCall(a, fallback), flow[a].at \in {"plan", "again"}
      PROVE  Only(a) /\ (Same(a) \/ Moves(a))
  <2>1. ASSUME flow' = [flow EXCEPT ![a].at = "remote", ![a].probe = (breaker.opened = "ripe"),
                                    ![a].fallback = fallback],
               UNCHANGED <<events, outputs>>
        PROVE  Only(a) /\ Moves(a)
    <3>1. PICK probe \in BOOLEAN : probe = (breaker.opened = "ripe")
      OBVIOUS
    <3>2. flow' = [flow EXCEPT ![a] = [flow[a] EXCEPT !.at = "remote", !.probe = probe, !.fallback = fallback]]
      BY <2>1, <3>1
    <3>3. Makes(a, [flow[a] EXCEPT !.at = "remote", !.probe = probe, !.fallback = fallback],
                events[a], outputs[a])
      BY <2>1, <3>2, Keeping
    <3> QED BY <1>3, <3>3, Making DEF FlowMove, PlanMove
  <2>2. CASE NoRemotePlan(a, fallback)
    BY <1>2, <2>2
  <2>3. CASE Raises(a)
    BY <1>1, <2>3
  <2>4. NoRemotePlan(a, fallback) \/ Raises(a) \/
        (/\ flow' = [flow EXCEPT ![a].at = "remote", ![a].probe = (breaker.opened = "ripe"),
                                 ![a].fallback = fallback]
         /\ UNCHANGED <<events, outputs>>)
    BY <1>3 DEF BeforeCall
  <2> QED BY <2>1, <2>2, <2>3, <2>4
<1>4. CASE CreatePlanner(a)
  BY <1>4, <1>1, <1>2, <1>3 DEF CreatePlanner, At
<1>5. CASE Again(a)
  BY <1>0, <1>5, <1>3 DEF Again, At
<1>6. CASE Remote(a)
  <2>1. CASE /\ flow' = [flow EXCEPT ![a].attempt = @ + 1, ![a].probe = FALSE, ![a].at = "again"]
             /\ UNCHANGED <<sub, events, outputs>>
    <3>1. Makes(a, [flow[a] EXCEPT !.attempt = @ + 1, !.probe = FALSE, !.at = "again"], events[a], outputs[a])
      BY <2>1, Keeping
    <3> QED BY <1>6, <3>1, Making DEF Remote, At, FlowMove, PlanMove
  <2> QED BY <1>0, <1>6, <1>1, <1>2, <2>1 DEF Remote
<1> QED
  BY <1>4, <1>5, <1>6

(* The strictest of what was decided is one of the decisions, and no       *)
(* milder than any of them.                                                *)
LEMMA StrictestOf ==
  ASSUME NEW ds, ds \subseteq Decisions, ds # {}
  PROVE  Strictest(ds) \in ds /\ \A e \in ds : Severity(Strictest(ds)) >= Severity(e)
<1>1. \A d \in Decisions : Severity(d) \in Nat
  BY DEF Decisions, Severity
<1>2. \E d \in ds : \A e \in ds : Severity(d) >= Severity(e)
  <2>1. Severity("allow") = 0 /\ Severity("require_approval") = 1 /\ Severity("block") = 2
    BY DEF Severity
  <2>2. CASE "block" \in ds
    BY <2>1, <2>2 DEF Decisions
  <2>3. CASE "block" \notin ds /\ "require_approval" \in ds
    BY <2>1, <2>3 DEF Decisions
  <2>4. CASE ds = {"allow"}
    BY <2>1, <2>4
  <2> QED BY <2>2, <2>3, <2>4 DEF Decisions
<1> QED
  BY <1>2 DEF Strictest

LEMMA RouteActions ==
  ASSUME Traced, NEW a \in Agents, execute_route(a)
  PROVE  Only(a) /\ (Same(a) \/ Moves(a))
<1>1. CASE \E k \in SubTasks : RunOne(a, k) \/ record_audit(a, k)
  BY <1>1, Resting DEF RunOne, record_audit
<1>2. CASE FanIn(a)
  <2>1. PICK decided \in Decisions : decided = Strictest({sub[a][k].decision : k \in SubTasks} \cup {"allow"})
    <3>1. {sub[a][k].decision : k \in SubTasks} \cup {"allow"} \subseteq Decisions
      BY DEF Traced, SubState, Decisions
    <3> QED BY <3>1, StrictestOf
  <2>2. ASSUME NEW d \in Decisions, flow' = [flow EXCEPT ![a].router = d, ![a].at = "tools"],
               Logged(a, {<<"router_execution">>}), UNCHANGED outputs
        PROVE  Only(a) /\ Moves(a)
    <3>1. Makes(a, [flow[a] EXCEPT !.router = d, !.at = "tools"],
                events[a] \cup {<<"router_execution">>}, outputs[a])
      BY <2>2, Telling
    <3> QED BY <1>2, <3>1, Making DEF FanIn, At, FlowMove, RouteMove
  <2>3. ASSUME flow' = [flow EXCEPT ![a].routing_failed = TRUE, ![a].at = "tools"],
               Logged(a, {<<"router_execution_error">>}), UNCHANGED outputs
        PROVE  Only(a) /\ Moves(a)
    <3>1. Makes(a, [flow[a] EXCEPT !.routing_failed = TRUE, !.at = "tools"],
                events[a] \cup {<<"router_execution_error">>}, outputs[a])
      BY <2>3, Telling
    <3> QED BY <1>2, <3>1, Making DEF FanIn, At, FlowMove, RouteMove
  <2>4. "block" \in Decisions
    BY DEF Decisions
  <2> QED BY <1>2, <2>1, <2>2, <2>3, <2>4 DEF FanIn
<1> QED
  BY <1>1, <1>2 DEF execute_route

LEMMA CallActions ==
  ASSUME Traced, NEW a \in Agents, CallOK(flow[a], events[a]), execute_tools(a)
  PROVE  Only(a) /\ (Same(a) \/ Moves(a))
<1>t. /\ flow[a].at \in {"tools", "context", "bare", "call"} /\ Rulings \subseteq Decisions
      /\ Call(a) = NextCall(flow[a]) /\ (MoreCalls(a) <=> More(flow[a]))
  BY FlowAssumption DEF execute_tools, GuardCall, ContextGuards, CallTool, At, Call, NextCall, MoreCalls, More,
     Decisions
<1>1. CASE Raises(a)
  BY <1>1, Raising
<1>2. ASSUME More(flow[a]),
             NEW result \in {"require_approval", "block"}, Settled(a, result), UNCHANGED outputs,
             NEW es \in {{}, {<<"mcpguard", Call(a)>>}, {<<"context", Call(a)>>}}, Logged(a, es)
      PROVE  Only(a) /\ Moves(a)
  <2>1. Makes(a, SettledAs(flow[a], result), events[a] \cup es, outputs[a])
    BY <1>2, Telling DEF Settled, SettledAs
  <2>2. events[a] \cup es \in {events[a], events[a] \cup {<<"mcpguard", NextCall(flow[a])>>},
                               events[a] \cup {<<"context", NextCall(flow[a])>>}}
    BY <1>2, <1>t
  <2>3. CallMove(flow[a], events[a], SettledAs(flow[a], result), events[a] \cup es)
    BY <1>t, <1>2, <2>2 DEF CallMove
  <2> QED BY <2>1, <2>3, Making DEF FlowMove
<1>3. CASE GuardCall(a)
  <2>0. At(a, "tools") /\ UNCHANGED outputs
    BY <1>3 DEF GuardCall
  <2>1. CASE ~MoreCalls(a) /\ Go(a, "finish") /\ UNCHANGED events
    <3>1. Makes(a, [flow[a] EXCEPT !.at = "finish"], events[a], outputs[a])
      BY <2>0, <2>1, Keeping DEF Go
    <3>2. CallMove(flow[a], events[a], [flow[a] EXCEPT !.at = "finish"], events[a])
      BY <1>t, <2>0, <2>1 DEF CallMove, At
    <3> QED BY <3>1, <3>2, Making DEF FlowMove
  <2>2. ASSUME MoreCalls(a), NEW x \in SkillEnds, NEW d \in Rulings,
               NEW es, es = IF x.completed /\ d = "allow" THEN {<<"mcpguard", Call(a)>>} ELSE {},
               (x.success /\ Previewed(a, d)) \/ (~x.success /\ Settled(a, "block")), Logged(a, es)
        PROVE  Only(a) /\ Moves(a)
    <3>1. es \in {{}, {<<"mcpguard", Call(a)>>}}
      BY <2>2
    <3>3. CASE ~x.success /\ Settled(a, "block")
      BY <1>t, <2>0, <2>2, <3>1, <3>3, <1>2
    <3>s. ASSUME x.success
          PROVE  es = IF d = "allow" THEN {<<"mcpguard", NextCall(flow[a])>>} ELSE {}
      BY <2>2, <3>s, <1>t, SuccessIsTold
    <3>4. CASE x.success /\ Previewed(a, d)
      <4>0. PICK point \in Points : flow' = [flow EXCEPT ![a].preview = d, ![a].at = point]
        BY <3>4 DEF Previewed, Points
      <4>1. Makes(a, [flow[a] EXCEPT !.preview = d, !.at = point], events[a] \cup es, outputs[a])
        BY <2>0, <2>2, <4>0, Telling
      <4>2. CallMove(flow[a], events[a], [flow[a] EXCEPT !.preview = d, !.at = point], events[a] \cup es)
        BY <1>t, <2>0, <2>2, <3>4, <3>s DEF CallMove, At
      <4> QED BY <4>1, <4>2, Making DEF FlowMove
    <3> QED BY <2>2, <3>3, <3>4
  <2> QED BY <1>3, <2>1, <2>2 DEF GuardCall
<1>4. CASE ContextGuards(a)
  <2>0. At(a, "context") /\ flow[a].preview \in Decisions /\ More(flow[a])
    BY <1>4 DEF ContextGuards, CallOK, At
  <2>1. ASSUME UNCHANGED outputs, NEW x \in SkillEnds, NEW d \in Rulings,
               ContextDecided(a, IF x.success THEN d ELSE "block"),
               Logged(a, IF x.completed /\ d = "allow" THEN {<<"context", Call(a)>>} ELSE {})
        PROVE  Only(a) /\ Moves(a)
    <3>1. PICK es \in {{}, {<<"context", Call(a)>>}} :
            es = IF x.completed /\ d = "allow" THEN {<<"context", Call(a)>>} ELSE {}
      OBVIOUS
    <3>2. Logged(a, es)
      BY <2>1, <3>1
    <3>3. CASE x.success /\ d = "allow"
      <4>1. es = {<<"context", NextCall(flow[a])>>}
        BY <3>1, <3>3, <1>t, SuccessIsTold
      <4>2. Makes(a, [flow[a] EXCEPT !.at = "call"], events[a] \cup es, outputs[a])
        BY <2>1, <3>2, <3>3, Telling DEF ContextDecided, Go
      <4>3. CallMove(flow[a], events[a], [flow[a] EXCEPT !.at = "call"], events[a] \cup es)
        BY <2>0, <4>1 DEF CallMove, At
      <4> QED BY <4>2, <4>3, Making DEF FlowMove
    <3>4. CASE ~(x.success /\ d = "allow")
      <4>1. PICK ruling \in {"require_approval", "block"} : ruling = IF x.success THEN d ELSE "block"
        BY <3>4, <1>t DEF Decisions
      <4>2. PICK result \in {"require_approval", "block"} : result = Stricter(flow[a].preview, ruling)
        BY <2>0, <4>1 DEF Stricter, Severity, Decisions
      <4>3. Settled(a, result)
        BY <2>1, <4>1, <4>2 DEF ContextDecided
      <4> QED BY <1>2, <2>0, <2>1, <3>1, <3>2, <4>3
    <3> QED BY <3>3, <3>4
  <2> QED BY <1>1, <1>4, <2>1 DEF ContextGuards
<1>5. CASE CallTool(a)
  <2>0. flow[a].at \in {"bare", "call"} /\ More(flow[a])
    BY <1>5 DEF CallTool, CallOK, At
  <2>1. ASSUME UNCHANGED outputs, flow[a].preview = "allow", Settled(a, "executed"),
               Logged(a, Execution(a))
        PROVE  Only(a) /\ Moves(a)
    <3>0. Execution(a) = Executing(flow[a])
      BY <1>t DEF Execution, Executing, At
    <3>1. Makes(a, SettledAs(flow[a], "executed"), events[a] \cup Executing(flow[a]), outputs[a])
      BY <2>1, <3>0, Telling DEF Settled, SettledAs
    <3>2. CallMove(flow[a], events[a], SettledAs(flow[a], "executed"), events[a] \cup Executing(flow[a]))
      BY <2>0, <2>1 DEF CallMove
    <3> QED BY <3>1, <3>2, Making DEF FlowMove
  <2>2. ASSUME UNCHANGED outputs, NEW result \in {"require_approval", "block"}, Settled(a, result), Logged(a, {})
        PROVE  Only(a) /\ Moves(a)
    BY <1>2, <2>0, <2>2
  <2>3. CASE Raises(a)
    BY <1>1, <2>3
  <2> QED BY <1>5, <2>1, <2>2, <2>3 DEF CallTool, Results
<1> QED
  BY <1>3, <1>4, <1>5 DEF execute_tools

LEMMA LastActions ==
  ASSUME Traced, NEW a \in Agents, Finish(a) \/ PostAudit(a)
  PROVE  Only(a) /\ (Same(a) \/ Moves(a))
<1>1. CASE Raises(a)
  BY <1>1, Raising
<1>2. ASSUME At(a, "finish"), UNCHANGED events,
             flow' = [flow EXCEPT ![a].status = StatusOf(a), ![a].router = "none",
                                  ![a].results = <<>>, ![a].at = "post"],
             outputs' = [outputs EXCEPT ![a] = Append(@, StatusOf(a))]
      PROVE  Only(a) /\ Moves(a)
  <2>1. PICK status \in Statuses : status = StatusOf(a)
    BY DEF StatusOf, Statuses
  <2>2. /\ status = "routing_failed" => flow[a].routing_failed
        /\ status = "planning_failed" => flow[a].planning_failed
        /\ status = "blocked" => flow[a].blocked \/ flow[a].results = <<>>
        /\ status # "none"
        /\ status = "completed" => /\ ~flow[a].routing_failed /\ ~flow[a].planning_failed
                                   /\ ~Has(a, "block") /\ ~Has(a, "require_approval")
    BY <2>1 DEF StatusOf
  <2>3. ASSUME ~Has(a, "block"), ~Has(a, "require_approval"), NEW i \in 1..Len(flow[a].results)
        PROVE  flow[a].results[i] = "executed"
    <3>1. flow[a].results \in Seq(Results)
      BY DEF Traced, Flow
    <3>2. flow[a].results[i] \in Results /\ flow[a].results[i] \in ToSet(flow[a].results)
      BY <3>1 DEF ToSet
    <3> QED BY <2>3, <3>2 DEF Has, Results
  <2>4. /\ Only(a) /\ events'[a] = events[a] /\ outputs'[a] = Append(outputs[a], status)
        /\ flow'[a] = [flow[a] EXCEPT !.status = status, !.router = "none", !.results = <<>>, !.at = "post"]
    <3>1. flow' = [flow EXCEPT ![a] = flow'[a]] /\
          flow'[a] = [flow[a] EXCEPT !.status = status, !.router = "none", !.results = <<>>, !.at = "post"]
      <4>1. flow' = [flow EXCEPT ![a] = [flow[a] EXCEPT !.status = status, !.router = "none",
                                                       !.results = <<>>, !.at = "post"]]
        BY <1>2, <2>1
      <4> QED BY <4>1, Becoming
    <3>2. outputs' = [outputs EXCEPT ![a] = outputs'[a]] /\ outputs'[a] = Append(outputs[a], status)
      BY <1>2, <2>1 DEF Traced
    <3> QED BY <1>2, <3>1, <3>2, Silent DEF Only
  <2>5. LastMove(flow[a], events[a], outputs[a], flow'[a], events'[a], outputs'[a])
    BY <1>2, <2>2, <2>3, <2>4 DEF LastMove, At
  <2> QED BY <2>4, <2>5 DEF Moves, FlowMove
<1>3. ASSUME At(a, "post"), Go(a, "done"), Logged(a, {<<"traceaudit">>}), UNCHANGED outputs
      PROVE  Only(a) /\ Moves(a)
  <2>1. Makes(a, [flow[a] EXCEPT !.at = "done"], events[a] \cup {<<"traceaudit">>}, outputs[a])
    BY <1>3, Telling DEF Go
  <2> QED BY <1>3, <2>1, Making DEF FlowMove, LastMove, At
<1>4. ASSUME At(a, "post"), Distrusted(a), outputs' = [outputs EXCEPT ![a] = Append(@, "blocked")],
             NEW es \in {{<<"audit_fail_closed">>}, {<<"traceaudit">>, <<"audit_fail_closed">>}}, Logged(a, es)
      PROVE  Only(a) /\ Moves(a)
  <2>1. flow' = [flow EXCEPT ![a] = flow'[a]] /\ flow'[a] = [flow[a] EXCEPT !.status = "blocked", !.at = "done"]
    <3>1. flow' = [flow EXCEPT ![a] = [flow[a] EXCEPT !.status = "blocked", !.at = "done"]]
      BY <1>4 DEF Distrusted
    <3> QED BY <3>1, Becoming
  <2>2. events' = [events EXCEPT ![a] = events'[a]] /\ events'[a] = events[a] \cup es
    BY <1>4, Logging
  <2>3. outputs' = [outputs EXCEPT ![a] = outputs'[a]] /\ outputs'[a] = Append(outputs[a], "blocked")
    BY <1>4 DEF Traced
  <2>4. events'[a] \in {events[a] \cup {<<"audit_fail_closed">>},
                        events[a] \cup {<<"traceaudit">>, <<"audit_fail_closed">>}}
    BY <1>4, <2>2
  <2>5. LastMove(flow[a], events[a], outputs[a], flow'[a], events'[a], outputs'[a])
    BY <1>4, <2>1, <2>3, <2>4 DEF LastMove, At
  <2> QED BY <2>1, <2>2, <2>3, <2>5 DEF Only, Moves, FlowMove
<1>5. CASE Finish(a)
  BY <1>1, <1>2, <1>5 DEF Finish
<1>6. CASE PostAudit(a)
  <2>1. ASSUME NEW x \in SkillEnds, x.success, Go(a, "done"), Logged(a, Vouched(x)), UNCHANGED outputs
        PROVE  Only(a) /\ Moves(a)
    <3>1. Logged(a, {<<"traceaudit">>})
      BY <2>1, SuccessIsTold DEF Vouched
    <3> QED BY <1>3, <1>6, <2>1, <3>1 DEF PostAudit
  <2>2. ASSUME NEW x \in SkillEnds, Distrusted(a), Logged(a, Vouched(x) \cup {<<"audit_fail_closed">>}),
               outputs' = [outputs EXCEPT ![a] = Append(@, "blocked")]
        PROVE  Only(a) /\ Moves(a)
    <3>1. PICK es \in {{<<"audit_fail_closed">>}, {<<"traceaudit">>, <<"audit_fail_closed">>}} :
            es = Vouched(x) \cup {<<"audit_fail_closed">>}
      BY DEF Vouched
    <3>2. Logged(a, es)
      BY <2>2, <3>1
    <3> QED BY <1>4, <1>6, <2>2, <3>2 DEF PostAudit
  <2> QED BY <1>1, <1>6, <2>1, <2>2 DEF PostAudit
<1> QED
  BY <1>5, <1>6

-----------------------------------------------------------------------------
(* The invariant of the flows.                                             *)

LEMMA AgentMoves ==
  ASSUME FlowInv, NEW a \in Agents, AgentStep(a)
  PROVE  Only(a) /\ (Same(a) \/ Moves(a))
<1>1. Traced /\ CallOK(flow[a], events[a])
  BY DEF FlowInv, FlowOK
<1> QED
  BY <1>1, EarlyActions, GraphActions, PlanActions, RouteActions, CallActions, LastActions
  DEF AgentStep, route_task, plan_task

LEMMA OthersLeaveFlows ==
  ASSUME [Next]_vars, ~ \E a \in Agents : AgentStep(a)
  PROVE  UNCHANGED flowVars
<1>1. CASE UNCHANGED vars
  BY <1>1 DEF vars
<1>2. CASE (\E b \in Builders \ Agents : BuildStep(b)) \/ (\E l \in Reviewers : LearnStep(l))
  BY <1>2 DEF BuildStep, LearnStep
<1>3. CASE EditStep \/ RecoveryElapses
  BY <1>3 DEF EditStep, RecoveryElapses
<1> QED
  BY <1>1, <1>2, <1>3 DEF Next

(* The subagents of a route: a decision that could not be audited is block.*)
LostBlocks ==
  \A a \in Agents : \A k \in SubTasks : sub[a][k].at = "lost" => sub[a][k].decision = "block"
LEMMA SubKeeps ==
  ASSUME Traced, LostBlocks, [Next]_vars
  PROVE  sub' \in [Agents -> [SubTasks -> SubState]] /\ LostBlocks'
<1>t. sub \in [Agents -> [SubTasks -> SubState]]
  BY DEF Traced
<1>p. Pending \in [SubTasks -> SubState] /\ \A k \in SubTasks : Pending[k].at # "lost"
  BY DEF Pending, SubState, Decisions
<1>1. CASE UNCHANGED sub
  BY <1>1, <1>t DEF LostBlocks
<1>2. ASSUME NEW a \in Agents, NEW k \in SubTasks, NEW v \in SubState, v.at = "lost" => v.decision = "block",
             sub' = [sub EXCEPT ![a][k] = v]
      PROVE  sub' \in [Agents -> [SubTasks -> SubState]] /\ LostBlocks'
  BY <1>2, <1>t DEF LostBlocks
<1>3. ASSUME NEW a \in Agents, NEW k \in SubTasks, RunOne(a, k)
      PROVE  sub' \in [Agents -> [SubTasks -> SubState]] /\ LostBlocks'
  <2>1. PICK d \in Decisions : sub' = [sub EXCEPT ![a][k] = [at |-> "decided", decision |-> d]]
    BY <1>3 DEF RunOne
  <2>2. PICK v \in SubState : v = [at |-> "decided", decision |-> d]
    BY DEF SubState
  <2> QED BY <1>2, <2>1, <2>2
<1>4. ASSUME NEW a \in Agents, NEW k \in SubTasks, record_audit(a, k)
      PROVE  sub' \in [Agents -> [SubTasks -> SubState]] /\ LostBlocks'
  <2>1. CASE sub' = [sub EXCEPT ![a][k].at = "audited"]
    <3>1. PICK v \in SubState : v = [sub[a][k] EXCEPT !.at = "audited"] /\ v.at = "audited"
      <4>1. sub[a][k] \in SubState
        BY <1>t
      <4>2. /\ [sub[a][k] EXCEPT !.at = "audited"] \in SubState
            /\ [sub[a][k] EXCEPT !.at = "audited"].at = "audited"
        BY <4>1 DEF SubState
      <4> QED BY <4>2
    <3>2. sub' = [sub EXCEPT ![a][k] = v]
      BY <2>1, <3>1, <1>t
    <3> QED BY <1>2, <3>1, <3>2
  <2>2. CASE sub' = [sub EXCEPT ![a][k] = [at |-> "lost", decision |-> "block"]]
    <3>1. PICK v \in SubState : v = [at |-> "lost", decision |-> "block"]
      BY DEF SubState, Decisions
    <3> QED BY <1>2, <2>2, <3>1
  <2> QED BY <1>4, <2>1, <2>2 DEF record_audit
<1>5. ASSUME NEW a \in Agents, sub' = [sub EXCEPT ![a] = Pending]
      PROVE  sub' \in [Agents -> [SubTasks -> SubState]] /\ LostBlocks'
  BY <1>5, <1>t, <1>p DEF LostBlocks
<1>6. ASSUME NEW a \in Agents, AgentStep(a)
      PROVE  \/ UNCHANGED sub \/ sub' = [sub EXCEPT ![a] = Pending]
             \/ \E k \in SubTasks : RunOne(a, k) \/ record_audit(a, k)
  <2>1. CASE start_trace(a) \/ inspect_input(a)
    BY <2>1 DEF start_trace, inspect_input, Inspected, Raises
  <2>2. CASE route_task(a)
    BY <2>2 DEF route_task, EnsureGraph, NothingToBuild, Builds, Health, PlanRoute, RouteFails, Raises, flowVars
  <2>3. CASE plan_task(a)
    BY <2>3 DEF plan_task, CreatePlanner, Again, Remote, BeforeCall, NoRemotePlan, Plan, PlanningFails, Raises
  <2>4. CASE execute_route(a)
    BY <2>4 DEF execute_route, FanIn
  <2>5. CASE execute_tools(a) \/ Finish(a) \/ PostAudit(a)
    BY <2>5 DEF execute_tools, GuardCall, ContextGuards, CallTool, Finish, PostAudit, Raises
  <2> QED BY <1>6, <2>1, <2>2, <2>3, <2>4, <2>5 DEF AgentStep
<1>7. CASE \E a \in Agents : AgentStep(a)
  BY <1>7, <1>6, <1>1, <1>3, <1>4, <1>5
<1>8. CASE ~ \E a \in Agents : AgentStep(a)
  BY <1>8, <1>1, OthersLeaveFlows DEF flowVars
<1> QED
  BY <1>7, <1>8

LEMMA Init_FlowInv ==
  ASSUME Init
  PROVE  FlowInv /\ LostBlocks
<1>1. Started("trace") \in Flow
  <2>1. <<>> \in Seq(Results)
    OBVIOUS
  <2> QED BY <2>1 DEF Started, Flow, Nodes, Statuses
<1>2. Traced /\ LostBlocks
  <2>1. Pending \in [SubTasks -> SubState] /\ \A k \in SubTasks : Pending[k].at # "lost"
    BY DEF Pending, SubState, Decisions
  <2>2. <<>> \in Seq(Statuses)
    OBVIOUS
  <2> QED BY <1>1, <2>1, <2>2 DEF Init, Traced, LostBlocks
<1>3. FlowOK(Started("trace"), {}, <<>>)
  <2>1. /\ Started("trace").at = "trace" /\ Started("trace").calls = 0 /\ Len(Started("trace").results) = 0
    BY DEF Started
  <2>2. <<>> \in Seq(Statuses) /\ Len(<<>>) = 0
    OBVIOUS
  <2>3. PathOK(Started("trace"), {}) /\ CallOK(Started("trace"), {})
    BY <2>1 DEF PathOK, CallOK, Routing, Planning, Working
  <2>4. CleanOK(Started("trace"), {}, <<>>) /\ AnswerOK(Started("trace"), {}, <<>>)
    BY <2>1 DEF CleanOK, AnswerOK, Early, Routing, Planning, Working
  <2> QED BY <1>1, <2>2, <2>3, <2>4 DEF FlowOK
<1> QED
  BY <1>2, <1>3 DEF Init, FlowInv

LEMMA Next_FlowInv ==
  ASSUME FlowInv, LostBlocks, [Next]_vars
  PROVE  FlowInv' /\ LostBlocks'
<1>t. Traced /\ \A a \in Agents : FlowOK(flow[a], events[a], outputs[a])
  BY DEF FlowInv
<1>s. sub' \in [Agents -> [SubTasks -> SubState]] /\ LostBlocks'
  BY <1>t, SubKeeps
<1>1. ASSUME NEW a \in Agents, AgentStep(a)
      PROVE  FlowInv'
  <2>1. Only(a) /\ (Same(a) \/ Moves(a))
    BY <1>1, AgentMoves
  <2>2. FlowOK(flow'[a], events'[a], outputs'[a])
    BY <2>1, <1>t, MoveKeeps DEF Same, Moves
  <2>3. \A d \in Agents \ {a} : flow'[d] = flow[d] /\ events'[d] = events[d] /\ outputs'[d] = outputs[d]
    BY <2>1, <1>t DEF Only, Traced
  <2>4. \A d \in Agents : FlowOK(flow'[d], events'[d], outputs'[d])
    BY <2>2, <2>3, <1>t
  <2>5. /\ flow' \in [Agents -> Flow] /\ outputs' \in [Agents -> Seq(Statuses)]
        /\ events' = [d \in Agents |-> events'[d]]
    BY <2>1, <2>2, <1>t DEF Only, Traced, FlowOK
  <2> QED BY <2>4, <2>5, <1>s DEF FlowInv, Traced
<1>2. CASE ~ \E a \in Agents : AgentStep(a)
  BY <1>2, <1>t, <1>s, OthersLeaveFlows DEF flowVars, FlowInv, Traced
<1> QED
  BY <1>1, <1>2, <1>s

LEMMA SpecFlowInv == Spec => [](FlowInv /\ LostBlocks)
<1>1. Init => FlowInv /\ LostBlocks
  BY Init_FlowInv
<1>2. (FlowInv /\ LostBlocks) /\ [Next]_vars => (FlowInv /\ LostBlocks)'
  BY Next_FlowInv
<1> QED
  BY <1>1, <1>2, PTL DEF Spec

LEMMA ExecutedCalls ==
  ASSUME NEW a \in Agents, NEW i \in Executed(a)
  PROVE  i \in Nat /\ <<"tool_result", i>> \in events[a]
<1>1. MaxCalls \in Nat
  BY FlowAssumption
<1> QED
  BY <1>1 DEF Executed

(* A tool is executed only in a trace that tells of a passed input, a      *)
(* route, a plan, and of MCPGuard having allowed this very call, and of    *)
(* the data guards having allowed it when the tool has any (execute_tools, *)
(* nodes.py; docs/skill_runtime.md), for any number of requests, calls,    *)
(* retries and disturbances.                                               *)
THEOREM ToolsUnderGuardsCorrect == Spec => []ToolsUnderGuards
<1>1. ASSUME FlowInv, NEW a \in Agents, NEW i \in Executed(a)
      PROVE  Behind(i, events[a])
  <2>1. i \in Nat /\ <<"tool_result", i>> \in events[a]
    BY ExecutedCalls
  <2> QED BY <1>1, <2>1 DEF FlowInv, FlowOK, CallOK
<1>2. FlowInv => ToolsUnderGuards
  <2> SUFFICES ASSUME FlowInv, NEW a \in Agents, NEW i \in Executed(a)
               PROVE  /\ {<<"input_passed">>, <<"router_plan">>, <<"agent_plan">>, <<"router_execution">>}
                           \subseteq events[a]
                      /\ <<"mcpguard", i>> \in events[a]
                      /\ <<"context", i>> \in events[a] \/ <<"unscreened", i>> \in events[a]
    BY DEF ToolsUnderGuards
  <2>1. Behind(i, events[a])
    BY <1>1
  <2> QED BY <2>1 DEF Behind, Screened
<1> QED
  BY <1>2, SpecFlowInv, PTL

(* What the final_outputs of a stopped task say is true: after             *)
(* routing_failed or planning_failed nothing was executed, nor in a trace  *)
(* that tells of a blocked input or a failed route (finish, nodes.py).     *)
THEOREM StoppedMeansNothingRanCorrect == Spec => []StoppedMeansNothingRan
<1>1. ASSUME FlowInv, NEW a \in Agents, Executed(a) # {}
      PROVE  /\ ~({"routing_failed", "planning_failed"} \cap ToSet(outputs[a]) # {})
             /\ events[a] \cap Errors = {}
  <2>1. PICK i \in Nat : <<"tool_result", i>> \in events[a]
    BY <1>1, ExecutedCalls
  <2>2. /\ events[a] \cap Errors = {} /\ outputs[a] \in Seq(Statuses)
        /\ \A j \in 1..Len(outputs[a]) : outputs[a][j] \notin {"routing_failed", "planning_failed"}
    BY <1>1, <2>1 DEF FlowInv, FlowOK, CleanOK
  <2>3. \A s \in ToSet(outputs[a]) : \E j \in 1..Len(outputs[a]) : s = outputs[a][j]
    BY <2>2 DEF ToSet
  <2> QED BY <2>2, <2>3
<1>2. FlowInv => StoppedMeansNothingRan
  BY <1>1 DEF StoppedMeansNothingRan, Errors
<1> QED
  BY <1>2, SpecFlowInv, PTL

(* A flow that ends answers with its last final_output, "completed" only   *)
(* when TraceAudit vouched for the trace and every call was executed       *)
(* (finish and the traceaudit post check, nodes.py and orchestrator.py).   *)
THEOREM OneStoryCorrect == Spec => []OneStory
<1>1. ASSUME FlowInv, NEW a \in Agents, At(a, "done")
      PROVE  /\ outputs[a] # <<>> /\ flow[a].status = Last(outputs[a])
             /\ flow[a].status = "completed" =>
                  /\ <<"traceaudit">> \in events[a]
                  /\ \A i \in 1..flow[a].calls : <<"tool_result", i>> \in events[a]
  <2>1. /\ Len(outputs[a]) > 0 /\ flow[a].status = outputs[a][Len(outputs[a])]
        /\ flow[a].status = "completed" =>
             /\ <<"traceaudit">> \in events[a]
             /\ \A i \in 1..flow[a].calls : <<"tool_result", i>> \in events[a]
    BY <1>1 DEF FlowInv, FlowOK, AnswerOK, At
  <2>2. outputs[a] # <<>>
    BY <2>1
  <2> QED BY <2>1, <2>2 DEF Last
<1>2. FlowInv => OneStory
  BY <1>1 DEF OneStory
<1> QED
  BY <1>2, SpecFlowInv, PTL

(* The breaker of the planner is open from its threshold on, and one that  *)
(* is half-open waits for a call, or one ended without a verdict           *)
(* (ResilientPlanner.plan, agent_demo/planners/resilience.py).             *)
THEOREM ProbeOwnedCorrect == Spec => []ProbeOwned
<1>1. Init => BreakerInv
  BY Init_BreakerInv
<1>2. BreakerInv /\ FlowInv /\ [Next]_vars => BreakerInv'
  BY Next_BreakerInv DEF FlowInv, Traced
<1>3. BreakerInv => ProbeOwned
  BY DEF BreakerInv
<1> QED
  BY <1>1, <1>2, <1>3, SpecFlowInv, PTL DEF Spec

(* The states of the flows, of what they share and of the graph are well   *)
(* formed (AgentState, agent_demo/langgraph_agent/state.py).               *)
THEOREM TypeCorrect == Spec => []TypeOK
<1> DEFINE Shared == ready \in BOOLEAN /\ lock \in Agents \cup {None} /\ budget \in 0..Budget
           All == GraphInv /\ BreakerInv /\ FlowInv /\ LostBlocks /\ Shared
<1>1. Init => All
  <2> SUFFICES ASSUME Init PROVE All
    OBVIOUS
  <2>1. GraphInv /\ FlowInv /\ LostBlocks
    BY GraphInit_GraphInv, Init_FlowInv DEF Init
  <2>2. BreakerInv
    BY Init_BreakerInv
  <2>3. Shared
    <3>1. Budget \in Nat
      BY FlowAssumption
    <3>2. lock = None /\ ready = FALSE /\ budget = Budget
      BY DEF Init
    <3>3. budget \in 0..Budget
      BY <3>1, <3>2
    <3> QED BY <3>2, <3>3
  <2> QED BY <2>1, <2>2, <2>3
<1>2. All /\ [Next]_vars => All'
  <2> SUFFICES ASSUME All, [Next]_vars PROVE All'
    OBVIOUS
  <2>1. GraphInv' /\ FlowInv' /\ LostBlocks'
    BY Next_GraphInv, Next_FlowInv
  <2>2. BreakerInv'
    BY Next_BreakerInv DEF FlowInv, Traced
  <2>3. Shared'
    <3>1. CASE UNCHANGED lockVars /\ (Calm \/ Fault \/ UNCHANGED budget)
      BY <3>1, FlowAssumption DEF lockVars, Calm, Fault
    <3>2. ASSUME NEW a \in Agents, EnsureGraph(a) \/ Builds(a) \/ Health(a)
          PROVE  Shared'
      <4>1. lock' \in Agents \cup {None} /\ ready' \in BOOLEAN
        BY <3>2 DEF EnsureGraph, Builds, Health
      <4>2. Calm \/ Fault
        BY <3>2 DEF EnsureGraph, Builds, Health, Raises
      <4> QED BY <4>1, <4>2, FlowAssumption DEF Calm, Fault
    <3>3. ASSUME NEW a \in Agents, AgentStep(a), ~EnsureGraph(a), ~Builds(a), ~Health(a)
          PROVE  UNCHANGED lockVars /\ (Calm \/ Fault)
      <4>1. CASE start_trace(a) \/ inspect_input(a) \/ NothingToBuild(a) \/ PlanRoute(a)
        BY <4>1 DEF start_trace, inspect_input, NothingToBuild, PlanRoute, Raises, Ended
      <4>2. CASE plan_task(a)
        BY <4>2 DEF plan_task, CreatePlanner, Again, Remote, BeforeCall, Raises
      <4>3. CASE execute_route(a)
        BY <4>3 DEF execute_route, RunOne, record_audit, FanIn
      <4>4. CASE execute_tools(a) \/ Finish(a) \/ PostAudit(a)
        BY <4>4 DEF execute_tools, GuardCall, ContextGuards, CallTool, Finish, PostAudit, Raises, Ended
      <4> QED BY <3>3, <4>1, <4>2, <4>3, <4>4 DEF AgentStep, route_task
    <3>4. ASSUME (\E b \in Builders \ Agents : BuildStep(b)) \/ (\E l \in Reviewers : LearnStep(l))
                 \/ EditStep \/ RecoveryElapses
          PROVE  UNCHANGED lockVars /\ (Calm \/ Fault)
      BY <3>4 DEF BuildStep, LearnStep, EditStep, RecoveryElapses
    <3>5. CASE UNCHANGED vars
      BY <3>1, <3>5 DEF vars, sharedVars, lockVars
    <3> QED BY <3>1, <3>2, <3>3, <3>4, <3>5 DEF Next
  <2> QED BY <2>1, <2>2, <2>3
<1>3. All => TypeOK
  BY DEF TypeOK, GraphInv, BreakerInv, FlowInv, Traced
<1> QED
  BY <1>1, <1>2, <1>3, PTL DEF Spec

(* Which actions come to the fan-in, and with what.                        *)
LEMMA OnlyFanInDecides ==
  ASSUME FlowInv, NEW a \in Agents, [Next]_vars, flow[a].router = "none", flow'[a].router # "none"
  PROVE  FanIn(a)
<1>t. Traced /\ flow[a] \in Flow
  BY DEF FlowInv, Traced
<1>1. AgentStep(a)
  <2>1. PICK d \in Agents : AgentStep(d)
    BY OthersLeaveFlows DEF flowVars
  <2>2. Only(d)
    BY <2>1, AgentMoves
  <2>3. d = a
    BY <2>2, <1>t DEF Only, Traced
  <2> QED BY <2>1, <2>3
<1>2. Moves(a)
  BY <1>1, AgentMoves DEF Same
<1>3. flow[a].at = "analyze"
  <2>1. ~RaiseMove(flow[a], events[a], outputs[a], flow'[a], events'[a], outputs'[a])
    BY DEF RaiseMove, Started
  <2>2. ~LastMove(flow[a], events[a], outputs[a], flow'[a], events'[a], outputs'[a])
    BY <1>t DEF LastMove, Flow
  <2>3. ~EarlyMove(flow[a], events[a], flow'[a], events'[a])
    BY <1>t DEF EarlyMove, Flow
  <2>4. ~PlanMove(flow[a], events[a], flow'[a], events'[a])
    BY <1>t DEF PlanMove, PlannedAs, Flow
  <2>5. ~CallMove(flow[a], events[a], flow'[a], events'[a])
    BY <1>t DEF CallMove, SettledAs, Flow
  <2> QED BY <1>2, <2>1, <2>2, <2>3, <2>4, <2>5 DEF Moves, FlowMove, RouteMove
<1>4. execute_route(a)
  BY <1>1, <1>3 DEF AgentStep, At, start_trace, inspect_input, route_task, EnsureGraph, NothingToBuild, Builds, Health,
     PlanRoute, plan_task, CreatePlanner, Again, Remote, execute_tools, GuardCall, ContextGuards, CallTool,
     Finish, PostAudit
<1> QED
  BY <1>4 DEF execute_route, RunOne, record_audit

(* The fan-in is never milder than a subagent, and allows only what was    *)
(* audited (SafeRouterExecutor, safeagent_gov/router/executor.py;          *)
(* docs/safe_router.md).                                                   *)
THEOREM FanInIsStrictCorrect == Spec => FanInIsStrict
<1>1. ASSUME FlowInv, LostBlocks, [Next]_vars, NEW a \in Agents, flow[a].router = "none", flow'[a].router # "none",
             NEW k \in SubTasks
      PROVE  \/ flow'[a].router = "block"
             \/ /\ sub[a][k].at = "audited"
                /\ Severity(sub[a][k].decision) <= Severity(flow'[a].router)
  <2>t. /\ flow \in [Agents -> Flow] /\ flow[a] \in Flow
        /\ \A j \in SubTasks : sub[a][j] \in SubState
    BY <1>1 DEF FlowInv, Traced
  <2>1. FanIn(a)
    BY <1>1, OnlyFanInDecides
  <2>2. PICK ds \in SUBSET Decisions : ds = {sub[a][j].decision : j \in SubTasks} \cup {"allow"}
    <3>1. {sub[a][j].decision : j \in SubTasks} \cup {"allow"} \subseteq Decisions
      BY <2>t DEF SubState, Decisions
    <3> QED BY <3>1
  <2>3. \/ flow' = [flow EXCEPT ![a].router = Strictest(ds), ![a].at = "tools"]
        \/ flow' = [flow EXCEPT ![a].router = "block", ![a].at = "tools"]
        \/ flow' = [flow EXCEPT ![a].routing_failed = TRUE, ![a].at = "tools"]
    BY <2>1, <2>2 DEF FanIn
  <2>4. flow'[a].router = "block" \/ flow'[a].router = Strictest(ds)
    BY <1>1, <2>t, <2>3 DEF Flow
  <2>5. Strictest(ds) \in Decisions /\ Severity(Strictest(ds)) >= Severity(sub[a][k].decision)
    BY <2>2, StrictestOf
  <2>6. sub[a][k].at = "audited" \/ Strictest(ds) = "block"
    <3>1. sub[a][k].at = "audited" \/ sub[a][k].decision = "block"
      BY <1>1, <2>1 DEF FanIn, LostBlocks
    <3> QED BY <2>5, <3>1 DEF Severity, Decisions
  <2>7. Severity(sub[a][k].decision) \in Nat /\ Severity(Strictest(ds)) \in Nat
    BY <2>t, <2>5 DEF SubState, Severity, Decisions
  <2> QED BY <2>4, <2>5, <2>6, <2>7
<1>2. FlowInv /\ LostBlocks /\ [Next]_vars =>
      \A a \in Agents : flow[a].router = "none" /\ flow'[a].router # "none" =>
        \A k \in SubTasks :
          \/ flow'[a].router = "block"
          \/ /\ sub[a][k].at = "audited"
             /\ Severity(sub[a][k].decision) <= Severity(flow'[a].router)
  BY <1>1
<1> QED
  BY <1>2, SpecFlowInv, PTL DEF Spec, FanInIsStrict

-----------------------------------------------------------------------------
(* The contract.  Calls are executed in their order, because what is       *)
(* executed lies behind the call in progress, and nothing is executed in a *)
(* flow whose input was blocked (OrderOK).  With it every move of a        *)
(* request is one of the steps that module FlowContract allows.            *)

ToolRan(E, i) == <<"tool_result", i>> \in E
OrderOK(f, E) ==
  /\ f.at \in Early \cup Working \cup {"finish"} =>
       /\ f.calls <= MaxCalls /\ Len(f.results) <= f.calls
       /\ \A i \in Nat : ToolRan(E, i) => i <= Len(f.results)
  /\ f.at \in Early \cup Working => ~f.blocked
  /\ f.blocked => \A i \in Nat : ~ToolRan(E, i)

StageOf(f) == CASE f.at = "post" -> "answered" [] f.at = "done" -> "closed"
                [] f.at = "raised" -> "raised" [] OTHER -> "open"
Seen(E) == {i \in 1..MaxCalls : ToolRan(E, i)}

Keeps(f, E, o, g, F, p) == StageOf(g) = StageOf(f) /\ g.calls = f.calls /\ Seen(F) = Seen(E) /\ p = o
PlansSome(f, E, o, g, F, p) ==
  /\ StageOf(f) = "open" /\ f.calls = 0 /\ Seen(E) = {}
  /\ StageOf(g) = "open" /\ g.calls \in 0..MaxCalls /\ Seen(F) = Seen(E) /\ p = o
RunsNext(f, E, o, g, F, p) ==
  /\ StageOf(f) = "open" /\ StageOf(g) = "open" /\ g.calls = f.calls /\ p = o
  /\ \E i \in 1..MaxCalls : /\ i \in 1..f.calls /\ \A j \in Seen(E) : j < i
                            /\ Seen(F) = Seen(E) \cup {i}
AnswersOnce(f, E, o, g, F, p) ==
  /\ StageOf(f) = "open" /\ StageOf(g) = "answered" /\ g.calls = f.calls /\ Seen(F) = Seen(E)
  /\ \E status \in Statuses \ {"none"} :
       /\ status \in {"routing_failed", "planning_failed", "blocked"} => Seen(E) = {}
       /\ status = "completed" => Seen(E) = 1..f.calls
       /\ p = Append(o, status)
Closes(f, E, o, g, F, p) ==
  /\ StageOf(f) = "answered" /\ StageOf(g) = "closed" /\ g.calls = f.calls /\ Seen(F) = Seen(E)
  /\ p \in {o, Append(o, "blocked")}
Fails(f, E, o, g, F, p) ==
  /\ StageOf(f) \in {"open", "answered"} /\ StageOf(g) = "raised"
  /\ g.calls = 0 /\ Seen(F) = Seen(E) /\ p = o
ContractStep(f, E, o, g, F, p) ==
  \/ Keeps(f, E, o, g, F, p) \/ PlansSome(f, E, o, g, F, p) \/ RunsNext(f, E, o, g, F, p)
  \/ AnswersOnce(f, E, o, g, F, p) \/ Closes(f, E, o, g, F, p) \/ Fails(f, E, o, g, F, p)

LEMMA SameRan ==
  ASSUME NEW E, NEW F, \A i \in Nat : ToolRan(F, i) <=> ToolRan(E, i)
  PROVE  Seen(F) = Seen(E)
<1>1. 1..MaxCalls \subseteq Nat
  BY FlowAssumption
<1> QED
  BY <1>1 DEF Seen

LEMMA RaiseObeys ==
  ASSUME NEW f, NEW E, NEW o, NEW g, NEW F, NEW p, FlowOK(f, E, o), OrderOK(f, E),
         RaiseMove(f, E, o, g, F, p), f.at \notin {"done", "raised"}
  PROVE  OrderOK(g, F) /\ ContractStep(f, E, o, g, F, p)
<1>1. g.at = "raised" /\ ~g.blocked /\ g.calls = 0 /\ F = E /\ p = o
  BY DEF RaiseMove, Started
<1>2. OrderOK(g, F)
  BY <1>1 DEF OrderOK, Early, Routing, Planning, Working
<1>3. Fails(f, E, o, g, F, p)
  BY <1>1 DEF Fails, StageOf
<1> QED
  BY <1>2, <1>3 DEF ContractStep

LEMMA EarlyObeys ==
  ASSUME NEW f, NEW E, NEW o, NEW g, NEW F, FlowOK(f, E, o), OrderOK(f, E), EarlyMove(f, E, g, F)
  PROVE  OrderOK(g, F) /\ ContractStep(f, E, o, g, F, o)
<1>f. /\ f \in Flow /\ f.at \in Early /\ f.calls = 0 /\ ~f.blocked
      /\ \A i \in Nat : ~ToolRan(E, i)
  BY DEF FlowOK, EarlyMove, OrderOK, CleanOK, Early, Routing, ToolRan
<1>1. \A i \in Nat : ~ToolRan(F, i)
  <2>1. \A i \in Nat : <<"tool_result", i>> \in F <=> <<"tool_result", i>> \in E
    BY DEF EarlyMove
  <2> QED BY <1>f, <2>1 DEF ToolRan
<1>2. /\ g.at \in Early \cup {"finish"} /\ g.calls = f.calls /\ g.results = f.results
      /\ g.at # "finish" => ~g.blocked
  <2>1. ASSUME NEW point \in {"inspect", "build", "health", "router", "plan"}, g = [f EXCEPT !.at = point]
        PROVE  g.at = point /\ g.calls = f.calls /\ g.results = f.results /\ g.blocked = f.blocked
    BY <1>f, <2>1 DEF Flow
  <2>2. ASSUME NEW blocked \in BOOLEAN, NEW point \in {"finish", "route"},
               g = [f EXCEPT !.blocked = blocked, !.at = point]
        PROVE  g.at = point /\ g.calls = f.calls /\ g.results = f.results /\ g.blocked = blocked
    BY <1>f, <2>2 DEF Flow
  <2>3. ASSUME g = [f EXCEPT !.routing_failed = TRUE, !.at = "finish"]
        PROVE  g.at = "finish" /\ g.calls = f.calls /\ g.results = f.results
    BY <1>f, <2>3 DEF Flow
  <2> QED
    BY <1>f, <2>1, <2>2, <2>3 DEF EarlyMove, Early, Routing, Planning
<1>3. OrderOK(g, F)
  <2>1. f.calls <= MaxCalls /\ Len(f.results) <= f.calls
    BY <1>f DEF OrderOK
  <2> QED BY <1>1, <1>2, <2>1 DEF OrderOK, Early, Routing, Planning, Working
<1>4. StageOf(f) = "open" /\ StageOf(g) = "open"
  BY <1>f, <1>2 DEF StageOf, Early, Routing, Planning
<1>5. Keeps(f, E, o, g, F, o)
  BY <1>f, <1>1, <1>2, <1>4, SameRan DEF Keeps
<1> QED
  BY <1>3, <1>5 DEF ContractStep

LEMMA PlanObeys ==
  ASSUME NEW f, NEW E, NEW o, NEW g, NEW F, FlowOK(f, E, o), OrderOK(f, E), PlanMove(f, E, g, F)
  PROVE  OrderOK(g, F) /\ ContractStep(f, E, o, g, F, o)
<1>f. /\ f \in Flow /\ f.at \in Planning /\ f.calls = 0 /\ ~f.blocked /\ Len(f.results) \in Nat
      /\ Len(f.results) <= f.calls /\ MaxCalls \in Nat
      /\ \A i \in Nat : ~ToolRan(E, i)
  BY FlowFields, FlowAssumption DEF FlowOK, PlanMove, OrderOK, CleanOK, Early, Planning, ToolRan
<1>1. \A i \in Nat : ~ToolRan(F, i)
  <2>1. \A i \in Nat : <<"tool_result", i>> \in F <=> <<"tool_result", i>> \in E
    <3>1. F \in {E, E \cup {<<"agent_plan">>}, E \cup {<<"planning_error">>}}
      BY DEF PlanMove
    <3> QED BY <3>1
  <2> QED BY <1>f, <2>1 DEF ToolRan
<1>2. /\ g.at \in Planning \cup {"analyze"} /\ g.calls \in 0..MaxCalls
      /\ g.results = f.results /\ g.blocked = f.blocked
  <2>1. ASSUME NEW probe \in BOOLEAN, NEW fallback \in BOOLEAN,
               g = [f EXCEPT !.at = "remote", !.probe = probe, !.fallback = fallback]
        PROVE  g.at = "remote" /\ g.results = f.results /\ g.calls = f.calls /\ g.blocked = f.blocked
    BY <1>f, <2>1 DEF Flow
  <2>2. ASSUME g = [f EXCEPT !.attempt = @ + 1, !.probe = FALSE, !.at = "again"]
        PROVE  g.at = "again" /\ g.results = f.results /\ g.calls = f.calls /\ g.blocked = f.blocked
    BY <1>f, <2>2 DEF Flow
  <2>3. ASSUME NEW n \in 0..MaxCalls, NEW failed \in BOOLEAN, g = PlannedAs(f, n, failed)
        PROVE  g.at = "analyze" /\ g.results = f.results /\ g.calls = n /\ g.blocked = f.blocked
    BY <1>f, <2>3 DEF Flow, PlannedAs
  <2>4. 0 \in 0..MaxCalls
    BY <1>f
  <2> QED
    BY <1>f, <2>1, <2>2, <2>3, <2>4 DEF PlanMove, Planning
<1>3. OrderOK(g, F)
  <2>1. g.calls <= MaxCalls /\ Len(g.results) <= g.calls
    BY <1>f, <1>2
  <2> QED BY <1>f, <1>1, <1>2, <2>1 DEF OrderOK
<1>4. StageOf(f) = "open" /\ StageOf(g) = "open"
  BY <1>f, <1>2 DEF StageOf, Planning
<1>5. Seen(E) = {} /\ Seen(F) = Seen(E)
  BY <1>f, <1>1, SameRan DEF Seen
<1>6. PlansSome(f, E, o, g, F, o)
  BY <1>f, <1>2, <1>4, <1>5 DEF PlansSome
<1> QED
  BY <1>3, <1>6 DEF ContractStep

LEMMA RouteObeys ==
  ASSUME NEW f, NEW E, NEW o, NEW g, NEW F, FlowOK(f, E, o), OrderOK(f, E), RouteMove(f, E, g, F)
  PROVE  OrderOK(g, F) /\ ContractStep(f, E, o, g, F, o)
<1>f. f \in Flow /\ f.at = "analyze"
  BY DEF FlowOK, RouteMove
<1>1. \A i \in Nat : ToolRan(F, i) <=> ToolRan(E, i)
  <2>1. \A i \in Nat : <<"tool_result", i>> \in F <=> <<"tool_result", i>> \in E
    <3>1. F \in {E \cup {<<"router_execution">>}, E \cup {<<"router_execution_error">>}}
      BY DEF RouteMove
    <3> QED BY <3>1
  <2> QED BY <2>1 DEF ToolRan
<1>2. g.at = "tools" /\ g.calls = f.calls /\ g.results = f.results /\ g.blocked = f.blocked
  BY <1>f DEF RouteMove, Flow
<1>3. OrderOK(g, F)
  BY <1>f, <1>1, <1>2 DEF OrderOK, Working
<1>4. Keeps(f, E, o, g, F, o)
  BY <1>f, <1>1, <1>2, SameRan DEF Keeps, StageOf
<1> QED
  BY <1>3, <1>4 DEF ContractStep

LEMMA CallObeys ==
  ASSUME NEW f, NEW E, NEW o, NEW g, NEW F, FlowOK(f, E, o), OrderOK(f, E), CallMove(f, E, g, F)
  PROVE  OrderOK(g, F) /\ ContractStep(f, E, o, g, F, o)
<1>f. /\ f \in Flow /\ f.at \in {"tools", "context", "bare", "call"} /\ Len(f.results) \in Nat /\ f.calls \in Nat
      /\ f.calls <= MaxCalls /\ Len(f.results) <= f.calls /\ ~f.blocked /\ MaxCalls \in Nat
      /\ \A i \in Nat : ToolRan(E, i) => i <= Len(f.results)
  BY FlowFields, FlowAssumption DEF FlowOK, CallMove, OrderOK, Working
<1>n. NextCall(f) = Len(f.results) + 1 /\ NextCall(f) \in Nat
  BY <1>f DEF NextCall
<1>s. StageOf(f) = "open"
  BY <1>f DEF StageOf
<1>m. f.at \in {"context", "bare", "call"} => More(f)
  BY DEF FlowOK, CallOK
<1>1. ASSUME NEW point \in {"finish", "context", "bare", "call"},
             g.at = point, g.calls = f.calls, g.results = f.results, g.blocked = f.blocked,
             \A i \in Nat : ToolRan(F, i) <=> ToolRan(E, i)
      PROVE  OrderOK(g, F) /\ ContractStep(f, E, o, g, F, o)
  <2>1. OrderOK(g, F)
    BY <1>1, <1>f DEF OrderOK
  <2>2. Keeps(f, E, o, g, F, o)
    BY <1>1, <1>s, SameRan DEF Keeps, StageOf
  <2> QED BY <2>1, <2>2 DEF ContractStep
<1>2. ASSUME NEW result \in Results, g = SettledAs(f, result)
      PROVE  /\ g.at = "tools" /\ g.calls = f.calls /\ g.blocked = f.blocked
             /\ Len(g.results) = Len(f.results) + 1 /\ StageOf(g) = "open"
  <2>1. g.at = "tools" /\ g.calls = f.calls /\ Len(g.results) = Len(f.results) + 1
    BY <1>2, <1>f, SettledFields
  <2>2. g.blocked = f.blocked
    BY <1>2, <1>f DEF SettledAs, Flow
  <2> QED BY <2>1, <2>2 DEF StageOf
<1>3. ASSUME f.at = "tools", ~More(f), g = [f EXCEPT !.at = "finish"], F = E
      PROVE  OrderOK(g, F) /\ ContractStep(f, E, o, g, F, o)
  <2>1. g.at = "finish" /\ g.calls = f.calls /\ g.results = f.results /\ g.blocked = f.blocked
    BY <1>3, <1>f DEF Flow
  <2> QED BY <1>1, <1>3, <2>1
<1>4. ASSUME f.at = "tools", More(f), NEW d \in Decisions, NEW point \in Points,
             g = [f EXCEPT !.preview = d, !.at = point],
             F = E \cup (IF d = "allow" THEN {<<"mcpguard", NextCall(f)>>} ELSE {})
      PROVE  OrderOK(g, F) /\ ContractStep(f, E, o, g, F, o)
  <2>1. g.at = point /\ g.calls = f.calls /\ g.results = f.results /\ g.blocked = f.blocked
    BY <1>4, <1>f DEF Flow
  <2>2. \A i \in Nat : ToolRan(F, i) <=> ToolRan(E, i)
    BY <1>4 DEF ToolRan
  <2> QED BY <1>1, <2>1, <2>2 DEF Points
<1>5. ASSUME f.at = "context", g = [f EXCEPT !.at = "call"], F = E \cup {<<"context", NextCall(f)>>}
      PROVE  OrderOK(g, F) /\ ContractStep(f, E, o, g, F, o)
  <2>1. g.at = "call" /\ g.calls = f.calls /\ g.results = f.results /\ g.blocked = f.blocked
    BY <1>5, <1>f DEF Flow
  <2>2. \A i \in Nat : ToolRan(F, i) <=> ToolRan(E, i)
    BY <1>5 DEF ToolRan
  <2> QED BY <1>1, <2>1, <2>2
<1>6. ASSUME More(f), NEW result \in {"require_approval", "block"}, g = SettledAs(f, result),
             F \in {E, E \cup {<<"mcpguard", NextCall(f)>>}, E \cup {<<"context", NextCall(f)>>}}
      PROVE  OrderOK(g, F) /\ ContractStep(f, E, o, g, F, o)
  <2>1. \A i \in Nat : ToolRan(F, i) <=> ToolRan(E, i)
    BY <1>6 DEF ToolRan
  <2>2. /\ g.at = "tools" /\ g.calls = f.calls /\ g.blocked = f.blocked
        /\ Len(g.results) = Len(f.results) + 1 /\ StageOf(g) = "open"
    BY <1>6, <1>2 DEF Results
  <2>3. OrderOK(g, F)
    <3>1. Len(g.results) <= g.calls
      BY <1>6, <1>f, <2>2 DEF More
    <3>2. \A i \in Nat : ToolRan(F, i) => i <= Len(g.results)
      BY <1>f, <2>1, <2>2
    <3> QED BY <1>f, <2>2, <3>1, <3>2 DEF OrderOK
  <2>4. Keeps(f, E, o, g, F, o)
    BY <1>s, <2>1, <2>2, SameRan DEF Keeps
  <2> QED BY <2>3, <2>4 DEF ContractStep
<1>7. ASSUME More(f), g = SettledAs(f, "executed"), F = E \cup Executing(f)
      PROVE  OrderOK(g, F) /\ ContractStep(f, E, o, g, F, o)
  <2>1. \A i \in Nat : ToolRan(F, i) <=> ToolRan(E, i) \/ i = NextCall(f)
    BY <1>7, <1>n DEF ToolRan, Executing
  <2>2. /\ g.at = "tools" /\ g.calls = f.calls /\ g.blocked = f.blocked
        /\ Len(g.results) = Len(f.results) + 1 /\ StageOf(g) = "open"
    BY <1>7, <1>2 DEF Results
  <2>3. NextCall(f) \in 1..f.calls /\ NextCall(f) \in 1..MaxCalls /\ Len(g.results) <= g.calls
    BY <1>7, <1>f, <1>n, <2>2 DEF More
  <2>4. OrderOK(g, F)
    <3>1. \A i \in Nat : ToolRan(F, i) => i <= Len(g.results)
      BY <1>f, <1>n, <2>1, <2>2
    <3> QED BY <1>f, <2>2, <2>3, <3>1 DEF OrderOK
  <2>5. Seen(F) = Seen(E) \cup {NextCall(f)}
    BY <2>1, <2>3, <1>f DEF Seen
  <2>6. \A j \in Seen(E) : j < NextCall(f)
    BY <1>f, <1>n DEF Seen
  <2>7. RunsNext(f, E, o, g, F, o)
    BY <1>s, <2>2, <2>3, <2>5, <2>6 DEF RunsNext
  <2> QED BY <2>4, <2>7 DEF ContractStep
<1> QED
  BY <1>m, <1>3, <1>4, <1>5, <1>6, <1>7 DEF CallMove

LEMMA LastObeys ==
  ASSUME NEW f, NEW E, NEW o, NEW g, NEW F, NEW p, FlowOK(f, E, o), OrderOK(f, E), LastMove(f, E, o, g, F, p)
  PROVE  OrderOK(g, F) /\ ContractStep(f, E, o, g, F, p)
<1>f. /\ f \in Flow /\ f.calls \in Nat /\ Len(f.results) \in Nat /\ MaxCalls \in Nat
      /\ f.results \in Seq(Results)
  BY FlowFields, FlowAssumption DEF FlowOK
<1>1. \A i \in Nat : ToolRan(F, i) <=> ToolRan(E, i)
  <2>1. F \in {E, E \cup {<<"traceaudit">>}, E \cup {<<"audit_fail_closed">>},
               E \cup {<<"traceaudit">>, <<"audit_fail_closed">>}}
    BY DEF LastMove
  <2> QED BY <2>1 DEF ToolRan
<1>2. Seen(F) = Seen(E)
  BY <1>1, SameRan
<1>3. ASSUME g.at \in {"post", "done"}, g.blocked = f.blocked
      PROVE  OrderOK(g, F)
  BY <1>1, <1>3 DEF OrderOK, Early, Routing, Planning, Working
<1>4. CASE f.at = "finish"
  <2>1. PICK status \in Statuses :
          /\ status = "completed" => /\ ~f.routing_failed /\ ~f.planning_failed
                                     /\ \A i \in 1..Len(f.results) : f.results[i] = "executed"
          /\ status = "routing_failed" => f.routing_failed
          /\ status = "planning_failed" => f.planning_failed
          /\ status = "blocked" => f.blocked \/ f.results = <<>>
          /\ status # "none"
          /\ g = [f EXCEPT !.status = status, !.router = "none", !.results = <<>>, !.at = "post"]
          /\ p = Append(o, status)
    BY <1>4 DEF LastMove
  <2>2. g.at = "post" /\ g.calls = f.calls /\ g.blocked = f.blocked
    BY <2>1, <1>f DEF Flow
  <2>3. /\ f.calls <= MaxCalls /\ Len(f.results) <= f.calls
        /\ \A i \in Nat : ToolRan(E, i) => i <= Len(f.results)
    BY <1>4 DEF OrderOK
  <2>4. status \in {"routing_failed", "planning_failed", "blocked"} => Seen(E) = {}
    <3>1. ASSUME f.routing_failed \/ f.planning_failed PROVE \A i \in Nat : ~ToolRan(E, i)
      BY <3>1 DEF FlowOK, CleanOK, ToolRan
    <3>2. ASSUME f.blocked PROVE \A i \in Nat : ~ToolRan(E, i)
      BY <3>2 DEF OrderOK
    <3>3. ASSUME f.results = <<>>, NEW i \in 1..MaxCalls PROVE ~ToolRan(E, i)
      <4>1. Len(f.results) = 0
        BY <3>3
      <4> QED BY <2>3, <4>1, <1>f
    <3> QED BY <1>f, <2>1, <3>1, <3>2, <3>3 DEF Seen
  <2>5. ASSUME status = "completed" PROVE Seen(E) = 1..f.calls
    <3>1. Len(f.results) = f.calls
      BY <1>4, <1>f, <2>1, <2>3, <2>5 DEF FlowOK, AnswerOK
    <3>2. \A i \in 1..f.calls : ToolRan(E, i)
      BY <2>1, <2>5, <3>1 DEF FlowOK, CallOK, ToolRan
    <3> QED BY <1>f, <2>3, <3>1, <3>2 DEF Seen
  <2>6. AnswersOnce(f, E, o, g, F, p)
    BY <1>2, <1>4, <2>1, <2>2, <2>4, <2>5 DEF AnswersOnce, StageOf
  <2> QED BY <1>3, <2>2, <2>6 DEF ContractStep
<1>5. CASE f.at = "post"
  <2>1. /\ g = [f EXCEPT !.at = "done"] \/ g = [f EXCEPT !.status = "blocked", !.at = "done"]
        /\ p \in {o, Append(o, "blocked")}
    BY <1>5 DEF LastMove
  <2>2. g.at = "done" /\ g.calls = f.calls /\ g.blocked = f.blocked
    BY <2>1, <1>f DEF Flow
  <2>3. Closes(f, E, o, g, F, p)
    BY <1>2, <1>5, <2>1, <2>2 DEF Closes, StageOf
  <2> QED BY <1>3, <2>2, <2>3 DEF ContractStep
<1> QED
  BY <1>4, <1>5 DEF LastMove

LEMMA MoveObeys ==
  ASSUME NEW f, NEW E, NEW o, NEW g, NEW F, NEW p, FlowOK(f, E, o), OrderOK(f, E),
         FlowMove(f, E, o, g, F, p), f.at \notin {"done", "raised"}
  PROVE  OrderOK(g, F) /\ ContractStep(f, E, o, g, F, p)
BY RaiseObeys, EarlyObeys, PlanObeys, RouteObeys, CallObeys, LastObeys DEF FlowMove

(* A request that has ended makes no step.                                 *)
LEMMA EndedRests ==
  ASSUME NEW a \in Agents, AgentStep(a)
  PROVE  flow[a].at \notin {"done", "raised"}
<1>1. CASE start_trace(a) \/ inspect_input(a)
  BY <1>1 DEF start_trace, inspect_input, At
<1>2. CASE route_task(a)
  BY <1>2 DEF route_task, EnsureGraph, NothingToBuild, Builds, Health, PlanRoute, At
<1>3. CASE plan_task(a)
  BY <1>3 DEF plan_task, CreatePlanner, Again, Remote, At
<1>4. CASE execute_route(a)
  BY <1>4 DEF execute_route, RunOne, record_audit, FanIn, At
<1>5. CASE execute_tools(a)
  BY <1>5 DEF execute_tools, GuardCall, ContextGuards, CallTool, At
<1>6. CASE Finish(a) \/ PostAudit(a)
  BY <1>6 DEF Finish, PostAudit, At
<1> QED
  BY <1>1, <1>2, <1>3, <1>4, <1>5, <1>6 DEF AgentStep

OrderInv == \A a \in Agents : OrderOK(flow[a], events[a])

LEMMA Init_OrderInv ==
  ASSUME Init
  PROVE  OrderInv
<1>1. OrderOK(Started("trace"), {})
  <2>1. MaxCalls \in Nat /\ Started("trace").calls = 0 /\ Len(Started("trace").results) = 0
        /\ ~Started("trace").blocked
    BY FlowAssumption DEF Started
  <2> QED BY <2>1 DEF OrderOK, ToolRan
<1> QED
  BY <1>1 DEF Init, OrderInv

LEMMA AgentObeys ==
  ASSUME FlowInv, OrderInv, NEW a \in Agents, AgentStep(a)
  PROVE  /\ Only(a)
         /\ OrderOK(flow'[a], events'[a])
         /\ ContractStep(flow[a], events[a], outputs[a], flow'[a], events'[a], outputs'[a])
<1>1. Only(a) /\ (Same(a) \/ Moves(a)) /\ flow[a].at \notin {"done", "raised"}
  BY AgentMoves, EndedRests
<1>2. FlowOK(flow[a], events[a], outputs[a]) /\ OrderOK(flow[a], events[a])
  BY DEF FlowInv, OrderInv
<1>3. CASE Same(a)
  <2>1. Keeps(flow[a], events[a], outputs[a], flow'[a], events'[a], outputs'[a])
    BY <1>3 DEF Same, Keeps
  <2> QED BY <1>1, <1>2, <1>3, <2>1 DEF Same, ContractStep
<1>4. CASE Moves(a)
  BY <1>1, <1>2, <1>4, MoveObeys DEF Moves
<1> QED
  BY <1>1, <1>3, <1>4

LEMMA Next_OrderInv ==
  ASSUME FlowInv, OrderInv, [Next]_vars
  PROVE  OrderInv'
<1>1. ASSUME NEW a \in Agents, AgentStep(a)
      PROVE  OrderInv'
  <2>1. Only(a) /\ OrderOK(flow'[a], events'[a])
    BY <1>1, AgentObeys
  <2>2. \A d \in Agents \ {a} : flow'[d] = flow[d] /\ events'[d] = events[d]
    BY <2>1 DEF Only, FlowInv, Traced
  <2>3. \A d \in Agents : OrderOK(flow'[d], events'[d])
    BY <2>1, <2>2 DEF OrderInv
  <2> QED BY <2>3 DEF OrderInv
<1>2. CASE ~ \E a \in Agents : AgentStep(a)
  BY <1>2, OthersLeaveFlows DEF flowVars, OrderInv
<1> QED
  BY <1>1, <1>2

(* The view of the contract on the flows.                                  *)
stages   == [a \in Agents |-> Stage(a)]
plans    == [a \in Agents |-> flow[a].calls]
executed == [a \in Agents |-> Executed(a)]

LEMMA Views ==
  /\ stages = [a \in Agents |-> StageOf(flow[a])]
  /\ executed = [a \in Agents |-> Seen(events[a])]
BY DEF stages, executed, Stage, StageOf, At, Executed, Seen, ToolRan

LEMMA ViewsPrimed ==
  /\ stages' = [a \in Agents |-> StageOf(flow'[a])]
  /\ plans' = [a \in Agents |-> flow'[a].calls]
  /\ executed' = [a \in Agents |-> Seen(events'[a])]
BY DEF stages, plans, executed, Stage, StageOf, At, Executed, Seen, ToolRan

LEMMA OnlyViews ==
  ASSUME Traced, NEW a \in Agents, Only(a)
  PROVE  /\ stages[a] = StageOf(flow[a]) /\ plans[a] = flow[a].calls /\ executed[a] = Seen(events[a])
         /\ stages' = [stages EXCEPT ![a] = StageOf(flow'[a])]
         /\ plans' = [plans EXCEPT ![a] = flow'[a].calls]
         /\ executed' = [executed EXCEPT ![a] = Seen(events'[a])]
         /\ outputs' = [outputs EXCEPT ![a] = outputs'[a]]
<1>1. /\ \A d \in Agents \ {a} : flow'[d] = flow[d] /\ events'[d] = events[d]
      /\ outputs' = [outputs EXCEPT ![a] = outputs'[a]]
  BY DEF Only, Traced
<1>2. stages' = [stages EXCEPT ![a] = StageOf(flow'[a])] /\ stages[a] = StageOf(flow[a])
  BY <1>1, Views, ViewsPrimed
<1>3. plans' = [plans EXCEPT ![a] = flow'[a].calls] /\ plans[a] = flow[a].calls
  BY <1>1, ViewsPrimed DEF plans
<1>4. executed' = [executed EXCEPT ![a] = Seen(events'[a])] /\ executed[a] = Seen(events[a])
  BY <1>1, Views, ViewsPrimed
<1> QED
  BY <1>1, <1>2, <1>3, <1>4

LEMMA StepObeys ==
  ASSUME FlowInv, OrderInv, [Next]_vars
  PROVE  [Contract!Next]_<<stages, plans, executed, outputs>>
<1>1. ASSUME NEW a \in Agents, AgentStep(a)
      PROVE  [Contract!Next]_<<stages, plans, executed, outputs>>
  <2>t. Traced
    BY DEF FlowInv
  <2>1. Only(a) /\ ContractStep(flow[a], events[a], outputs[a], flow'[a], events'[a], outputs'[a])
    BY <1>1, AgentObeys
  <2>2. /\ stages[a] = StageOf(flow[a]) /\ plans[a] = flow[a].calls /\ executed[a] = Seen(events[a])
        /\ stages' = [stages EXCEPT ![a] = StageOf(flow'[a])]
        /\ plans' = [plans EXCEPT ![a] = flow'[a].calls]
        /\ executed' = [executed EXCEPT ![a] = Seen(events'[a])]
        /\ outputs' = [outputs EXCEPT ![a] = outputs'[a]]
    BY <2>t, <2>1, OnlyViews
  <2>3. /\ [stages EXCEPT ![a] = stages[a]] = stages /\ [plans EXCEPT ![a] = plans[a]] = plans
        /\ [executed EXCEPT ![a] = executed[a]] = executed /\ [outputs EXCEPT ![a] = outputs[a]] = outputs
    BY <2>t DEF stages, plans, executed, Traced
  <2>4. CASE Keeps(flow[a], events[a], outputs[a], flow'[a], events'[a], outputs'[a])
    <3>1. UNCHANGED <<stages, plans, executed, outputs>>
      BY <2>2, <2>3, <2>4 DEF Keeps
    <3> QED BY <3>1
  <2>5. CASE PlansSome(flow[a], events[a], outputs[a], flow'[a], events'[a], outputs'[a])
    <3>1. PICK n \in 0..MaxCalls : n = flow'[a].calls
      BY <2>5 DEF PlansSome
    <3>2. /\ stages[a] = "open" /\ plans[a] = 0 /\ executed[a] = {}
          /\ plans' = [plans EXCEPT ![a] = n]
          /\ UNCHANGED <<stages, executed, outputs>>
      BY <2>2, <2>3, <2>5, <3>1 DEF PlansSome
    <3>3. Contract!Plan(a)
      BY <3>2 DEF Contract!Plan, stages, plans, executed
    <3> QED BY <3>3 DEF Contract!Next
  <2>6. CASE RunsNext(flow[a], events[a], outputs[a], flow'[a], events'[a], outputs'[a])
    <3>1. PICK i \in 1..MaxCalls :
            /\ i \in 1..flow[a].calls /\ \A j \in Seen(events[a]) : j < i
            /\ Seen(events'[a]) = Seen(events[a]) \cup {i}
      BY <2>6 DEF RunsNext
    <3>2. /\ stages[a] = "open" /\ i \in 1..plans[a] /\ \A j \in executed[a] : j < i
          /\ executed' = [executed EXCEPT ![a] = @ \cup {i}]
          /\ UNCHANGED <<stages, plans, outputs>>
      BY <2>2, <2>3, <2>6, <3>1 DEF RunsNext
    <3>3. Contract!Execute(a)
      BY <3>2 DEF Contract!Execute, stages, plans, executed
    <3> QED BY <3>3 DEF Contract!Next
  <2>7. CASE AnswersOnce(flow[a], events[a], outputs[a], flow'[a], events'[a], outputs'[a])
    <3>1. PICK status \in Statuses \ {"none"} :
            /\ status \in {"routing_failed", "planning_failed", "blocked"} => Seen(events[a]) = {}
            /\ status = "completed" => Seen(events[a]) = 1..flow[a].calls
            /\ outputs'[a] = Append(outputs[a], status)
      BY <2>7 DEF AnswersOnce
    <3>2. /\ stages[a] = "open" /\ stages' = [stages EXCEPT ![a] = "answered"]
          /\ status \in {"routing_failed", "planning_failed", "blocked"} => executed[a] = {}
          /\ status = "completed" => executed[a] = 1..plans[a]
          /\ outputs' = [outputs EXCEPT ![a] = Append(@, status)]
          /\ UNCHANGED <<plans, executed>>
      BY <2>2, <2>3, <2>7, <3>1 DEF AnswersOnce
    <3>3. Contract!Truthful(a, status)
      BY <3>2 DEF Contract!Truthful, plans, executed
    <3>4. Contract!Answer(a)
      BY <3>2, <3>3 DEF Contract!Answer, Contract!Statuses, Statuses, stages, plans, executed
    <3> QED BY <3>4 DEF Contract!Next
  <2>8. CASE Closes(flow[a], events[a], outputs[a], flow'[a], events'[a], outputs'[a])
    <3>1. /\ stages[a] = "answered" /\ stages' = [stages EXCEPT ![a] = "closed"]
          /\ UNCHANGED outputs \/ outputs' = [outputs EXCEPT ![a] = Append(@, "blocked")]
          /\ UNCHANGED <<plans, executed>>
      BY <2>2, <2>3, <2>8 DEF Closes
    <3>2. Contract!Close(a)
      BY <3>1 DEF Contract!Close, stages, plans, executed
    <3> QED BY <3>2 DEF Contract!Next
  <2>9. CASE Fails(flow[a], events[a], outputs[a], flow'[a], events'[a], outputs'[a])
    <3>1. /\ stages[a] \in {"open", "answered"} /\ stages' = [stages EXCEPT ![a] = "raised"]
          /\ plans' = [plans EXCEPT ![a] = 0]
          /\ UNCHANGED <<executed, outputs>>
      BY <2>2, <2>3, <2>9 DEF Fails
    <3>2. Contract!Fail(a)
      BY <3>1 DEF Contract!Fail, stages, plans, executed
    <3> QED BY <3>2 DEF Contract!Next
  <2> QED BY <2>1, <2>4, <2>5, <2>6, <2>7, <2>8, <2>9 DEF ContractStep
<1>2. CASE ~ \E a \in Agents : AgentStep(a)
  BY <1>2, OthersLeaveFlows, Views, ViewsPrimed DEF flowVars, plans
<1> QED
  BY <1>1, <1>2

(* Whatever fails, and however many requests run side by side: the calls   *)
(* of a plan are executed in their order, each at most once and none after *)
(* the answer; the answer agrees with what was executed; and it is taken   *)
(* back once at most, to say blocked (module FlowContract; execute_tools   *)
(* and finish, nodes.py).                                                  *)
THEOREM KeepsContractCorrect == Spec => KeepsContract
<1>1. Init => Contract!Init
  <2> SUFFICES ASSUME Init PROVE Contract!Init
    OBVIOUS
  <2>1. stages = [a \in Agents |-> "open"]
    BY Views DEF Init, StageOf, Started
  <2>2. plans = [a \in Agents |-> 0]
    BY DEF Init, plans, Started
  <2>3. executed = [a \in Agents |-> {}]
    BY Views DEF Init, Seen, ToolRan
  <2> QED BY <2>1, <2>2, <2>3 DEF Init, Contract!Init, stages, plans, executed
<1>2. Init => OrderInv
  BY Init_OrderInv
<1>3. FlowInv /\ OrderInv /\ [Next]_vars => OrderInv'
  BY Next_OrderInv
<1>4. FlowInv /\ OrderInv /\ [Next]_vars => [Contract!Next]_<<stages, plans, executed, outputs>>
  BY StepObeys
<1> QED
  BY <1>1, <1>2, <1>3, <1>4, SpecFlowInv, PTL DEF Spec, KeepsContract, Contract!Spec, stages, plans, executed
=============================================================================
