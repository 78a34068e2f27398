------------------------- MODULE CapabilityScanProofs -------------------------
(***************************************************************************)
(* What the graph of the repository and the plans made from it keep, for   *)
(* every repository, intent and limit: proofs about module CapabilityScan. *)
(***************************************************************************)
EXTENDS TLAPS, CapabilityScan

(* A graph that scan builds joins nodes of the graph: no edge is left      *)
(* hanging by a reference to what is not on disk (scanner.py raises).      *)
THEOREM EdgesJoinNodes ==
  ASSUME NEW r, Scannable(r), NEW e \in Scanned(r).edges
  PROVE  e.source \in Scanned(r).nodes /\ e.target \in Scanned(r).nodes
<1>1. Scanned(r).nodes = NodesOf(r) /\ Scanned(r).edges = Registered(r) \cup Guards(r) \cup Governs(r)
  BY DEF Scanned
<1>2. \A type \in Types : \A name \in r.names[type] : Node(type, name) \in NodesOf(r)
  BY DEF NodesOf
<1>3. CASE e \in Registered(r)
  <2>a. PICK relation \in Relations :
          e \in {Edge(Node(Ends(relation)[1], p[1]), relation, Node(Ends(relation)[2], p[2])) :
                   p \in r.refs[relation]}
    BY <1>3 DEF Registered
  <2>1. PICK p \in r.refs[relation] :
          e = Edge(Node(Ends(relation)[1], p[1]), relation, Node(Ends(relation)[2], p[2]))
    BY <2>a
  <2>2. p \in r.names[Ends(relation)[1]] \X r.names[Ends(relation)[2]]
    BY <2>1 DEF Scannable, Resolved
  <2>3. Ends(relation)[1] \in Types /\ Ends(relation)[2] \in Types
    BY DEF Ends, Relations, Types
  <2>4. p[1] \in r.names[Ends(relation)[1]] /\ p[2] \in r.names[Ends(relation)[2]]
    BY <2>2
  <2> QED
    BY <1>1, <1>2, <2>1, <2>3, <2>4 DEF Edge
<1>4. CASE e \in Guards(r)
  BY <1>1, <1>2, <1>4 DEF Guards, Edge, MCPGuard, Scannable, Types
<1>5. CASE e \in Governs(r)
  BY <1>1, <1>2, <1>5 DEF Governs, Edge, Scannable, Types
<1> QED
  BY <1>1, <1>3, <1>4, <1>5

LEMMA ToolNodes ==
  ASSUME NEW r, NEW t \in OfType(Scanned(r), {"mcp"})
  PROVE  \E tool \in r.names["mcp"] : t = Node("mcp", tool)
<1>1. t \in NodesOf(r) /\ t[1] = "mcp"
  BY DEF OfType, Scanned
<1>2. PICK type \in Types : t \in {Node(type, name) : name \in r.names[type]}
  BY <1>1 DEF NodesOf
<1>3. PICK name \in r.names[type] : t = Node(type, name)
  BY <1>2
<1>4. type = "mcp"
  BY <1>1, <1>3 DEF Node
<1> QED
  BY <1>3, <1>4

(* Every tool of a scanned graph is guarded and governed: what health      *)
(* reports of tools can only stem from a graph that was not scanned.       *)
THEOREM ToolsAreGuarded ==
  ASSUME NEW r, Scannable(r)
  PROVE  Unguarded(Scanned(r)) = {} /\ Ungoverned(Scanned(r)) = {}
<1>1. \A tool \in r.names["mcp"] :
        /\ Edge(MCPGuard, "guards", Node("mcp", tool)) \in Scanned(r).edges
        /\ Edge(Node("mcp", tool), "governed_by", Node("policy", r.active)) \in Scanned(r).edges
  BY DEF Scanned, Guards, Governs
<1>2. ASSUME NEW t \in OfType(Scanned(r), {"mcp"})
      PROVE  Sources(Scanned(r), t, "guards") # {} /\ Targets(Scanned(r), t, "governed_by") # {}
  <2>1. PICK tool \in r.names["mcp"] : t = Node("mcp", tool)
    BY ToolNodes
  <2>2. MCPGuard \in Sources(Scanned(r), t, "guards")
    <3> DEFINE e == Edge(MCPGuard, "guards", Node("mcp", tool))
    <3>1. e \in {x \in Scanned(r).edges : x.target = t /\ x.relation = "guards"} /\ e.source = MCPGuard
      BY <1>1, <2>1 DEF Edge
    <3> HIDE DEF e
    <3> QED
      BY <3>1 DEF Sources
  <2>3. Node("policy", r.active) \in Targets(Scanned(r), t, "governed_by")
    <3> DEFINE e == Edge(Node("mcp", tool), "governed_by", Node("policy", r.active))
    <3>1. e \in {x \in Scanned(r).edges : x.source = t /\ x.relation = "governed_by"} /\ e.target = Node("policy", r.active)
      BY <1>1, <2>1 DEF Edge
    <3> HIDE DEF e
    <3> QED
      BY <3>1 DEF Targets
  <2> QED
    BY <2>2, <2>3
<1> QED
  BY <1>2 DEF Unguarded, Ungoverned

-----------------------------------------------------------------------------
(* Retrieval and planning.                                                 *)

(* However few skills a search is limited to, none that is mandatory is    *)
(* dropped, and of the others it retrieves related ones only.              *)
THEOREM MandatoryRetrieved ==
  ASSUME NEW g, NEW intent, NEW top_k, NEW skills \in CandidateSkills(g, intent, top_k)
  PROVE  /\ g.mandatory \subseteq skills
         /\ skills \subseteq Targets(g, intent, "requires_skill") \cup g.mandatory \cup SkillsOf(g, intent)
<1> DEFINE all   == Targets(g, intent, "requires_skill") \cup g.mandatory \cup SkillsOf(g, intent)
           score == [s \in all |-> IF s \in Targets(g, intent, "requires_skill") THEN 96 ELSE 82]
<1>1. skills \in Deduplicate(all, g.mandatory, score, top_k)
  BY DEF CandidateSkills
<1> HIDE DEF score
<1>2. PICK best \in Best(all \ (all \cap g.mandatory), score, top_k - Cardinality(all \cap g.mandatory)) :
        skills = (all \cap g.mandatory) \cup best
  BY <1>1 DEF Deduplicate
<1>3. best \subseteq all
  BY <1>2 DEF Best
<1> QED
  BY <1>2, <1>3

(* A plan names every guard that is mandatory, for any intent and limit.   *)
THEOREM PlansNameGuards ==
  ASSUME NEW g, NEW intent, NEW top_k, NEW skills \in CandidateSkills(g, intent, top_k),
         NEW kind \in DOMAIN GuardNames,
         {Node("skill", name) : name \in GuardNames[kind]} \subseteq g.mandatory
  PROVE  PlannedGuards(skills)[kind] = {Node("skill", name) : name \in GuardNames[kind]}
BY MandatoryRetrieved DEF PlannedGuards

(* A route that an AuditAgent could join has it, however few subagents are *)
(* allowed, and whoever else it has analyses (router/service.py).          *)
THEOREM AuditorJoins ==
  ASSUME NEW agents, NEW limit, NEW route \in Selected(agents, limit)
  PROVE  /\ AuditAgent \in agents => AuditAgent \in route
         /\ route \subseteq agents \cap (Analysts \cup {AuditAgent})
<1> DEFINE reserved == IF AuditAgent \in agents THEN {AuditAgent} ELSE {}
<1>1. PICK best \in Best(agents \cap Analysts, Priority, limit - Cardinality(reserved)) : route = best \cup reserved
  BY DEF Selected
<1>2. best \subseteq agents \cap Analysts
  BY <1>1 DEF Best
<1> QED
  BY <1>1, <1>2
=============================================================================
