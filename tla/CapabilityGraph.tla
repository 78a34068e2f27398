---------------------------- MODULE CapabilityGraph ----------------------------
(***************************************************************************)
(* The capability graph of GovSafeAgent (safeagent_gov/graphify: store.py, *)
(* service.py) and its API: an SQLite store that holds one signed snapshot *)
(* of the repository's capabilities and the paths learned from audit       *)
(* traces.  Agents, server processes that start and reviewers build into   *)
(* it side by side; each SQL statement outside BEGIN IMMEDIATE is a        *)
(* transaction of its own.                                                 *)
(*                                                                         *)
(* A content of the sources stands for the snapshot a scan makes of it     *)
(* (module CapabilityScan); approvers are kept for its protected nodes,    *)
(* the skills and MCP tools.  Node and pattern signatures are computed     *)
(* with a fixed key and left out, and there is one path to learn.          *)
(*                                                                         *)
(* An operator named X_Without... or X_With... is X with a plausible bug,  *)
(* kept to show that a property notices it.                                *)
(***************************************************************************)
EXTENDS CapabilityScan, Sequences

CONSTANTS
  None,
  Builders,     \* who may build: bootstrapping ones and reviewers
  Reviewers,    \* those who build and learn through the API
  Subjects,     \* the audit traces that may be learned from
  Contents,     \* contents of the sources
  Repository    \* the repository each of them is

ASSUME GraphAssumption ==
  /\ Reviewers \subseteq Builders
  /\ None \notin Builders \cup Subjects
  /\ IsFiniteSet(Subjects)
  /\ DOMAIN Repository = Contents
  /\ "repository-bootstrap" \notin Builders
  /\ None \notin Contents

VARIABLES
  sources,   \* what the scanner finds in the repository
  graph,     \* the content in force, or None before the first build
  approver,  \* capability_node_governance: who approved each capability in
             \* force, None for the others
  builder,   \* where each build() is, what it scanned and what it read of the store
  learner,   \* where each learn_trace is, its trace and the outcome it read
  pattern,   \* trace_patterns: success_count and failure_count
  observed,  \* trace_pattern_observations: the outcome counted for each trace
  approvals, \* <<who, capability>>: what reviewers built, and what a bootstrap
             \* that found no graph built (history)
  scanned    \* the capabilities whose packages SkillScan looked at (history)

storeVars == <<graph, approver>>
rulings   == <<approvals, scanned>>
buildVars == <<sources, storeVars, builder, rulings>>
learnVars == <<learner, pattern, observed>>
graphVars == <<buildVars, learnVars>>

Snapshot     == [c \in Contents |-> Scanned(Repository[c])]
Protected    == [c \in Contents |-> OfType(Snapshot[c], {"skill", "mcp"})]
Readable     == {c \in Contents : Scannable(Repository[c])}
Fit          == {c \in Contents : Sound(Snapshot[c])}
Capabilities == UNION {Protected[c] : c \in Contents}
Unapproved   == [c \in Capabilities |-> None]

NoBuild == [at |-> "idle", scan |-> None, previous |-> None, by |-> Unapproved]
NoLearn == [at |-> "idle", subject |-> None, success |-> FALSE]
Approvers == {"repository-bootstrap", None} \cup Reviewers

GraphInit ==
  /\ sources \in Contents
  /\ graph = None
  /\ approver = Unapproved
  /\ builder = [b \in Builders |-> NoBuild]
  /\ learner = [l \in Reviewers |-> NoLearn]
  /\ pattern = [success |-> 0, failure |-> 0]
  /\ observed = [s \in Subjects |-> "none"]
  /\ approvals = {}
  /\ scanned = {}

Edit(content) ==
  /\ content # sources
  /\ sources' = content
  /\ UNCHANGED <<storeVars, builder, rulings>>

-----------------------------------------------------------------------------
(* GraphifyService.build: scan the repository, have SkillScan look at the  *)
(* packages that are new or changed, read what is in force, and replace.   *)

Built == graph # None

MayScan == sources \in Readable
Scan(b) ==
  /\ builder[b].at = "idle"
  /\ MayScan
  /\ builder' = [builder EXCEPT ![b] = [NoBuild EXCEPT !.at = "register", !.scan = sources]]
  /\ UNCHANGED <<sources, storeVars, rulings>>

(* bootstrap_if_empty builds, for nobody, when there is no graph.          *)
Bootstrap(b) == ~Built /\ Scan(b)

(* _registration_scans: a node in force with the same hash was scanned     *)
(* before.  The level of risk found is recorded and refuses nothing.       *)
InForce == IF Built THEN Protected[graph] ELSE {}
Register_WithoutScan(b) ==
  /\ builder[b].at = "register"
  /\ builder' = [builder EXCEPT ![b].at = "read"]
  /\ UNCHANGED <<sources, storeVars, rulings>>
Register(b) ==
  /\ builder[b].at = "register"
  /\ builder' = [builder EXCEPT ![b].at = "read"]
  /\ scanned' = scanned \cup (Protected[builder[b].scan] \ InForce)
  /\ UNCHANGED <<sources, storeVars, approvals>>

(* Nodes added or changed; one that is removed needs no approval.          *)
ChangesProtected(b, before) == ~(Protected[builder[b].scan] \subseteq Protected[before])

(* replace reads the nodes, and then governance and source digest, before  *)
(* its transaction.  What changes protected nodes of a graph that exists   *)
(* needs a reviewer; nothing changed, nothing is written.                  *)
MayReplace_WithoutReviewer(b) == TRUE
MayReplace(b) == Built /\ ChangesProtected(b, graph) => b \in Reviewers

ReadNodes(b) ==
  /\ builder[b].at = "read"
  /\ MayReplace(b)
  /\ builder' = [builder EXCEPT ![b].at = "govern", ![b].previous = graph]
  /\ UNCHANGED <<sources, storeVars, rulings>>

IsUnchanged(b) == builder[b].previous = builder[b].scan /\ graph = builder[b].scan

ReadGovernance(b) ==
  /\ builder[b].at = "govern"
  /\ ~IsUnchanged(b)
  /\ builder' = [builder EXCEPT ![b].at = "write", ![b].by = approver]
  /\ UNCHANGED <<sources, storeVars, rulings>>

Read(b) == Register(b) \/ ReadNodes(b) \/ ReadGovernance(b)

(* The build ends without writing.                                         *)
Leave(b) ==
  /\ builder' = [builder EXCEPT ![b] = NoBuild]
  /\ UNCHANGED <<sources, storeVars, rulings>>
Unchanged(b) == builder[b].at = "govern" /\ IsUnchanged(b) /\ Leave(b)
Refused(b)   == builder[b].at = "read" /\ ~MayReplace(b) /\ Leave(b)
(* SkillScan cannot look at a package.                                     *)
Unscannable(b) == builder[b].at = "register" /\ Leave(b)

(* The transaction replaces everything.  The approval of a capability with *)
(* the content it had is carried over.                                     *)
Approver_WithBuilder(b, c) ==
  IF c \notin Protected[builder[b].scan] THEN None
  ELSE IF builder[b].by[c] # None THEN builder[b].by[c] ELSE b
Approver(b, c) ==
  IF c \notin Protected[builder[b].scan] THEN None
  ELSE IF builder[b].by[c] # None THEN builder[b].by[c]
  ELSE IF b \in Reviewers THEN b ELSE "repository-bootstrap"

Approves(b) == IF b \in Reviewers THEN {b}
               ELSE IF builder[b].previous = None THEN {"repository-bootstrap"} ELSE {}

Replace(b) ==
  /\ builder[b].at = "write"
  /\ graph' = builder[b].scan
  /\ approver' = [c \in Capabilities |-> Approver(b, c)]
  /\ approvals' = approvals \cup Approves(b) \X Protected[builder[b].scan]
  /\ builder' = [builder EXCEPT ![b] = NoBuild]
  /\ UNCHANGED <<sources, scanned>>

-----------------------------------------------------------------------------
(* health: the graph is that of the sources, and sound.                    *)
Healthy == Built /\ MayScan /\ graph = sources /\ graph \in Fit

(* learn_trace: read a finished trace, then count it in one transaction.   *)

BeginLearn(l, s, success) ==
  /\ learner[l].at = "idle"
  /\ Built
  /\ learner' = [learner EXCEPT ![l] = [at |-> "record", subject |-> s, success |-> success]]
  /\ UNCHANGED <<pattern, observed>>

Count(l) ==
  LET s == learner[l].subject
  IN  /\ pattern' = IF learner[l].success THEN [pattern EXCEPT !.success = @ + 1]
                    ELSE [pattern EXCEPT !.failure = @ + 1]
      /\ observed' = [observed EXCEPT ![s] = IF learner[l].success THEN "success" ELSE "failure"]

Record_WithoutDuplicateCheck(l) ==
  /\ learner[l].at = "record"
  /\ Count(l)
  /\ learner' = [learner EXCEPT ![l] = NoLearn]
Record(l) ==
  /\ learner[l].at = "record"
  /\ IF observed[learner[l].subject] = "none" THEN Count(l)
     ELSE UNCHANGED <<pattern, observed>>
  /\ learner' = [learner EXCEPT ![l] = NoLearn]

-----------------------------------------------------------------------------
GraphTypeOK ==
  /\ sources \in Contents
  /\ graph \in Contents \cup {None}
  /\ approver \in [Capabilities -> Approvers]
  /\ builder \in [Builders -> [at: {"idle", "register", "read", "govern", "write"}, scan: Contents \cup {None},
                               previous: Contents \cup {None}, by: [Capabilities -> Approvers]]]
  /\ learner \in [Reviewers -> [at: {"idle", "record"}, subject: Subjects \cup {None},
                                success: BOOLEAN]]
  /\ pattern \in [success: Nat, failure: Nat]
  /\ observed \in [Subjects -> {"none", "success", "failure"}]
  /\ scanned \subseteq Capabilities

(* Whatever builds overtake each other, the protected capabilities in      *)
(* force are ones a reviewer approved or a bootstrap found no graph before *)
(* (docs/graphify.md: after the first bootstrap a new or changed skill or  *)
(* MCP tool needs SkillScan and an administrator or a security reviewer),  *)
(* SkillScan looked at each of them, and nobody is named as the approver   *)
(* of a content somebody else brought in.                                  *)
ProtectedApproved ==
  Built => \A c \in Protected[graph] :
             /\ \E who \in Approvers : <<who, c>> \in approvals
             /\ c \in scanned
             /\ approver[c] \in Reviewers => <<approver[c], c>> \in approvals

(* A trace is counted once, and the pattern's counts are those of the      *)
(* traces: with two reviewers at work the recommendation rests on as many  *)
(* traces as it says (docs/graphify.md: one trace counts once).            *)
CountedTraces ==
  /\ pattern.success = Cardinality({s \in Subjects : observed[s] = "success"})
  /\ pattern.failure = Cardinality({s \in Subjects : observed[s] = "failure"})
=============================================================================
