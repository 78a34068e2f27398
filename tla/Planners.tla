------------------------------- MODULE Planners -------------------------------
(***************************************************************************)
(* The planners of GovSafeAgent (agent_demo/planners, agent_demo/adapters):*)
(* which planner create_planner makes of a mode, and what each comes to    *)
(* when it is asked for a plan: a plan, PlannerTransportError, another     *)
(* PlanningError, or an exception nobody expects.                          *)
(***************************************************************************)
EXTENDS ModelProvider

Adapters == {"openai_compatible", "dify", "external_agent"}
Modes    == Adapters \cup {"deterministic", "model_gateway", "auto", "unsupported"}

(* create_planner.  A wrong setting is a PlanningError, except for those   *)
(* ResilientPlanner checks itself; "auto" falls back on the offline        *)
(* planner once a remote one is made, and starts with it when none of the  *)
(* adapters is configured.                                                 *)
Created(mode) ==
  CASE mode = "deterministic" -> {"offline"}
    [] mode = "model_gateway" -> {"gateway"}
    [] mode \in Adapters      -> {"remote", "planning error", "exception"}
    [] mode = "auto"          -> {"fallback", "offline", "planning error", "exception"}
    [] mode = "unsupported"   -> {"planning error"}

(* _http_transport of the adapters, which follow redirects, take an answer *)
(* up to 1 MB and, unlike the Model Gateway, let an OSError pass that is   *)
(* no URLError.                                                            *)
Retried == {"unreachable", "timed out", "http 429", "http 5xx"}
Denied  == {"http 408 or 425", "other http error", "above 1 MB"}
Escaped == {"disconnected", "incomplete read", "no integer length"}
Transported(reply) ==
  IF reply \in Retried THEN "transport error"
  ELSE IF reply \in Denied THEN "planning error"
  ELSE "exception"

(* The members an adapter requires around the plan; ExternalAgentPlanner   *)
(* also that the answer is to this request, from the agent it expects,     *)
(* without authority to execute.                                           *)
Envelopes(adapter) ==
  {"complete", "no json", "members missing"} \cup
  (IF adapter = "external_agent" THEN {"members unknown", "other request", "other agent", "may execute"} ELSE {})

(* validate_plan_payload: what may be wrong with a plan.                   *)
Defects == {"no object", "unknown field", "no list", "above 16 steps", "step index out of order",
            "predecessor not before", "predecessor twice", "tool unknown", "arguments invalid", "no summary"}
Validated(defect) == IF defect = "none" THEN "plan" ELSE "planning error"

Answered(envelope, defect) == IF envelope = "complete" THEN Validated(defect) ELSE "planning error"

(* plan of an adapter.                                                     *)
AskedRemote(adapter) ==
  {Transported(reply) : reply \in Retried \cup Denied \cup Escaped}
  \cup {Answered(envelope, defect) : envelope \in Envelopes(adapter), defect \in Defects \cup {"none"}}

(* ModelGatewayPlanner: every error of the gateway is a PlanningError.     *)
Chatted(outcome) ==
  IF outcome = "result" THEN {Validated(defect) : defect \in Defects \cup {"none"}}
  ELSE IF outcome = "exception" THEN {"exception", "planning error"}
  ELSE {"planning error"}
AskedGateway == UNION {Chatted(outcome) : outcome \in Outcomes}
=============================================================================
