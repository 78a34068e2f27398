----------------------------- MODULE MCAgentFlow -----------------------------
(* Instances of AgentFlow for TLC.                                          *)
EXTENDS AgentFlow, TLC

CONSTANTS a1, a2, r1, r2

(* A registry with one intent, for an analyst that has to run and one that  *)
(* may fail, and as many tools as there are on disk.                        *)
WithTools(tools, called) ==
  [names |-> [skill |-> {"mcpguard_gov"}, mcp |-> tools, policy |-> {"2.0.0"}, intent |-> {"external_send"},
              agent |-> {"tool_risk_agent", "gov_rag_agent", "audit_agent"}, model |-> {}, source |-> {}],
   refs |-> [requires_skill  |-> {<<"external_send", "mcpguard_gov">>},
             routes_to_agent |-> {"external_send"} \X {"tool_risk_agent", "gov_rag_agent", "audit_agent"},
             suitable_for    |-> {},
             accepts_source  |-> {},
             can_use_skill   |-> {"tool_risk_agent"} \X {"mcpguard_gov"},
             can_call_tool   |-> {"tool_risk_agent"} \X called],
   mandatory |-> {"mcpguard_gov"}, exact |-> {"mcpguard_gov"}, active |-> "2.0.0", schemaless |-> {}]

(* An edit adds or removes a protected capability, or removes one that the  *)
(* registry still refers to.                                                *)
Edits ==
  [one  |-> WithTools({"file_read"}, {"file_read"}),
   two  |-> WithTools({"file_read", "send_email"}, {"file_read"}),
   torn |-> WithTools({"send_email"}, {"file_read"})]
EditNames == DOMAIN Edits

(* The subagents are those of the route the registry makes of the intent.   *)
ASSUME RouteAssumption ==
  SubTasks = UNION Routes(Scanned(Edits.one), Node("intent", "external_send"), 3) \ {AuditAgent}

FlowSymmetry == Permutations({a1, a2}) \cup Permutations({r1, r2})
=============================================================================
