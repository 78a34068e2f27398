---------------------------- MODULE CapabilityScan ----------------------------
(***************************************************************************)
(* What GovSafeAgent makes of its repository, as pure operators: the graph *)
(* RepositoryScanner.scan builds, when GraphifyService.health finds it     *)
(* sound, what search retrieves from it, and the subagents                 *)
(* SafeRouterService.plan selects (safeagent_gov/graphify/scanner.py and   *)
(* service.py, safeagent_gov/router/service.py).                           *)
(*                                                                         *)
(* A repository is                                                         *)
(*   names       the skills, MCP tools and versioned policies on disk and  *)
(*               the intents, agents, models and sources of the registry;  *)
(*               one whose content changes is another one,                 *)
(*   refs        the pairs of names the registry relates,                  *)
(*   mandatory   the skills mandatory_skills means, by their identifiers,  *)
(*   exact       the skills it spells as their manifests do: "-" and "_"   *)
(*               make the same identifier, but not the same name,          *)
(*   active      its active_policy_version,                                *)
(*   schemaless  the nodes of skills and tools without inputs or outputs.  *)
(* Risks, roles and test cases, which nothing here depends on, are left    *)
(* out; where names decide an order, any order is possible.                *)
(***************************************************************************)
EXTENDS Integers, FiniteSets

Types == {"skill", "mcp", "policy", "intent", "agent", "model", "source"}

(* The relations of the registry, and the types of the nodes they relate.  *)
Ends(relation) ==
  CASE relation = "requires_skill"  -> <<"intent", "skill">>
    [] relation = "routes_to_agent" -> <<"intent", "agent">>
    [] relation = "suitable_for"    -> <<"intent", "model">>
    [] relation = "accepts_source"  -> <<"intent", "source">>
    [] relation = "can_use_skill"   -> <<"agent", "skill">>
    [] relation = "can_call_tool"   -> <<"agent", "mcp">>
Relations == {"requires_skill", "routes_to_agent", "suitable_for", "accepts_source",
              "can_use_skill", "can_call_tool"}

Node(type, name) == <<type, name>>
Edge(source, relation, target) == [source |-> source, relation |-> relation, target |-> target]

NodesOf(r) == UNION {{Node(type, name) : name \in r.names[type]} : type \in Types}

MCPGuard   == Node("skill", "mcpguard_gov")
Registered(r) ==
  UNION {{Edge(Node(Ends(relation)[1], p[1]), relation, Node(Ends(relation)[2], p[2])) :
            p \in r.refs[relation]} : relation \in Relations}
Guards(r)   == {Edge(MCPGuard, "guards", Node("mcp", tool)) : tool \in r.names["mcp"]}
Governs(r)  == {Edge(Node("mcp", tool), "governed_by", Node("policy", r.active)) : tool \in r.names["mcp"]}

(* scan raises on a reference to what does not exist, which it looks up by *)
(* identifier; a skill it flags mandatory only by its exact name.          *)
Resolved(r) ==
  \A relation \in Relations :
    r.refs[relation] \subseteq r.names[Ends(relation)[1]] \X r.names[Ends(relation)[2]]
Scannable(r) ==
  /\ r.active \in r.names["policy"]
  /\ r.mandatory \subseteq r.names["skill"]
  /\ "mcpguard_gov" \in r.names["skill"]
  /\ Resolved(r)

Scanned(r) ==
  [nodes |-> NodesOf(r), edges |-> Registered(r) \cup Guards(r) \cup Governs(r),
   mandatory |-> {Node("skill", name) : name \in r.mandatory \cap r.exact}, schemaless |-> r.schemaless]

OfType(g, types) == {n \in g.nodes : n[1] \in types}
Targets(g, source, relation) ==
  {e.target : e \in {x \in g.edges : x.source = source /\ x.relation = relation}}
Sources(g, target, relation) ==
  {e.source : e \in {x \in g.edges : x.target = target /\ x.relation = relation}}

-----------------------------------------------------------------------------
(* health, apart from the sources having changed.                          *)

Orphans(g) ==
  {n \in OfType(g, {"intent", "agent", "skill", "mcp"}) :
     \A e \in g.edges : e.source # n /\ e.target # n}
Unguarded(g)  == {t \in OfType(g, {"mcp"}) : Sources(g, t, "guards") = {}}
Ungoverned(g) == {t \in OfType(g, {"mcp"}) : Targets(g, t, "governed_by") = {}}
Sound(g) ==
  Orphans(g) = {} /\ g.schemaless = {} /\ Unguarded(g) = {} /\ Ungoverned(g) = {}

-----------------------------------------------------------------------------
(* search: mandatory candidates, then the best of the others up to top_k.  *)

Best(options, score, n) ==
  {best \in SUBSET options :
     /\ Cardinality(best) = IF n < 0 THEN 0 ELSE IF n < Cardinality(options) THEN n ELSE Cardinality(options)
     /\ \A x \in best, y \in options \ best : score[x] >= score[y]}
Deduplicate(candidates, mandatory, score, top_k) ==
  LET kept == candidates \cap mandatory
  IN  {kept \cup best : best \in Best(candidates \ kept, score, top_k - Cardinality(kept))}

AgentsOf(g, intent) == Targets(g, intent, "routes_to_agent")
SkillsOf(g, intent) == UNION {Targets(g, agent, "can_use_skill") : agent \in AgentsOf(g, intent)}
CandidateSkills(g, intent, top_k) ==
  LET required == Targets(g, intent, "requires_skill")
      all      == required \cup g.mandatory \cup SkillsOf(g, intent)
  IN  Deduplicate(all, g.mandatory, [s \in all |-> IF s \in required THEN 96 ELSE 82], top_k)
CandidateAgents(g, intent, top_k) ==
  LET all == AgentsOf(g, intent) IN Deduplicate(all, {}, [a \in all |-> 92], top_k)

ToolsOf(g, intent) == UNION {Targets(g, agent, "can_call_tool") : agent \in AgentsOf(g, intent)}
CandidateTools(g, intent, top_k) ==
  LET all == ToolsOf(g, intent) IN Deduplicate(all, {}, [t \in all |-> 88], top_k)
RelatedPolicies(g, intent, top_k) ==
  LET all == UNION {Targets(g, tool, "governed_by") : tool \in ToolsOf(g, intent)}
  IN  Deduplicate(all, {}, [p \in all |-> 90], top_k)

-----------------------------------------------------------------------------
(* AGENT_BEHAVIOR and the selection of plan: the analysing agents by       *)
(* priority, and the AuditAgent, which comes last and waits for all.       *)

AuditAgent == "audit_agent"
Priority ==
  [tool_risk_agent |-> 3, skill_scan_agent |-> 3, document_risk_agent |-> 3, compliance_agent |-> 2,
   gov_rag_agent |-> 1]
Analysts == DOMAIN Priority

Selected(agents, max_sub_agents) ==
  LET reserved == IF AuditAgent \in agents THEN {AuditAgent} ELSE {}
  IN  {best \cup reserved :
         best \in Best(agents \cap Analysts, Priority, max_sub_agents - Cardinality(reserved))}
(* Without anyone to analyse, the AuditAgent is the route.                 *)
Routes(g, intent, max_sub_agents) ==
  {IF route = {} THEN {AuditAgent} ELSE route :
     route \in UNION {Selected({a[2] : a \in agents}, max_sub_agents) :
                        agents \in CandidateAgents(g, intent, max_sub_agents)}}

(* The subtasks of a route, and the guards a plan names among the skills   *)
(* that were retrieved.                                                    *)
SubTask(g, route, name) ==
  [required_skills |-> Targets(g, Node("agent", name), "can_use_skill"),
   allowed_tools   |-> IF name = AuditAgent THEN {} ELSE Targets(g, Node("agent", name), "can_call_tool"),
   predecessors    |-> IF name = AuditAgent THEN route \ {AuditAgent} ELSE {}]
GuardNames ==
  [prechecks |-> {"promptshield_gov"}, tool_guards |-> {"mcpguard_gov"},
   context_guards |-> {"sensitivedata_gov", "compliance_gov"}, postchecks |-> {"traceaudit_gov"}]
PlannedGuards(skills) ==
  [kind \in DOMAIN GuardNames |-> {Node("skill", name) : name \in GuardNames[kind]} \cap skills]
=============================================================================
