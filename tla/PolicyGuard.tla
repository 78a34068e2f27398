----------------------------- MODULE PolicyGuard -----------------------------
(***************************************************************************)
(* The decision on one tool call (research_technology/mcp/gateway/guard.py *)
(* and taint.py): check_tool_call, and the labels of what a tool returns.  *)
(*                                                                         *)
(* A call is its tool, its target, the role of its user, the user's tenant *)
(* if there is a user, its agent ([role, tenant], or NoAgent), the labels  *)
(* of its data and the recipients its context authorizes.  A target is     *)
(*   valid    whether it has the form its tool asks for (an absolute path  *)
(*            without "..", an address, an HTTP URL, a harmless SELECT),   *)
(*   place    the parts of a path, or of a domain from the top level down, *)
(*            so that being under a directory or a domain is having a      *)
(*            prefix,                                                      *)
(*   private  whether it is a private, loopback or local host.             *)
(* Of a decision only what the caller acts on is kept, not its reason.     *)
(***************************************************************************)
EXTENDS PolicyReleases, Sequences

FileTools == {"file_read", "file_write", "file_delete"}
UrlTools  == {"browser_visit", "api_call"}
Tools     == FileTools \cup UrlTools \cup {"send_email", "shell_exec", "db_query", "db_write"}
Labels    == {"public", "internal", "confidential", "restricted", "credential"}
NoTenant  == "none"
NoAgent   == [role |-> "none", tenant |-> NoTenant]

Under(place, places) ==
  \E p \in places : Len(p) <= Len(place) /\ SubSeq(place, 1, Len(p)) = p
BlockedFor(overrides, role) == IF role \in DOMAIN overrides THEN overrides[role] ELSE {}

Barred(policy, call) ==
  \/ call.tool \notin DOMAIN policy.tools
  \/ call.tool \in BlockedFor(policy.role_overrides, call.role)
  \/ call.agent # NoAgent /\ call.tool \in BlockedFor(policy.agent_role_overrides, call.agent.role)
  \/ call.agent # NoAgent /\ call.tenant \notin {NoTenant, call.agent.tenant}

Refused(config, call) ==
  \/ call.tool \in FileTools \cup UrlTools \cup {"send_email", "db_query"} /\ ~call.target.valid
  \/ /\ call.tool \in FileTools
     /\ \/ Under(call.target.place, config.deny)
        \/ config.allow # {} /\ ~Under(call.target.place, config.allow)
  \/ /\ call.tool \in UrlTools
     /\ \/ config.block_private /\ call.target.private
        \/ ~Under(call.target.place, config.domains)

(* The action of the policy, which URLs and addresses do not look at.      *)
Stated(config, call) ==
  IF call.tool = "send_email"
  THEN IF Under(call.target.place, config.domains) THEN "allow_with_log" ELSE config.external
  ELSE IF call.tool \in UrlTools THEN "allow_with_log" ELSE config.action

-----------------------------------------------------------------------------
(* taint.py.                                                               *)

ExternalSink(call) ==
  \/ call.tool \in UrlTools
  \/ /\ call.tool = "send_email"
     /\ ~call.recipient_authorized
     /\ ~Under(call.target.place, call.authorized_domains)

Secret    == {"restricted", "credential"}
Sensitive == {"internal", "confidential"}
Flow(call, decision) ==
  IF ~ExternalSink(call) THEN decision
  ELSE IF call.labels \cap Secret # {} THEN "block"
  ELSE IF call.labels \cap Sensitive # {} THEN "require_approval"
  ELSE decision

Public   == {<<"data", "public">>}
Approved == {<<"data", "approved">>}
infer_result_labels(call) ==
  LET beneath(places) == Len(call.target.place) > 2 /\ Under(call.target.place, places)
  IN  call.labels \cup
        (IF call.tool = "file_read"
         THEN IF beneath(Public) THEN {"public"} ELSE IF beneath(Approved) THEN {"confidential"} ELSE {"restricted"}
         ELSE IF call.tool = "db_query" THEN {"confidential"} ELSE {})

-----------------------------------------------------------------------------
(* check_tool_call.  The flow of labelled data has the last word over what *)
(* the policy states, and none over what it refuses.                       *)
Decision(policy, call) ==
  IF Barred(policy, call) THEN "block"
  ELSE IF Refused(policy.tools[call.tool], call) THEN "block"
  ELSE Flow(call, Stated(policy.tools[call.tool], call))

check_tool_call(files, release, call, bound, bucket) ==
  LET version == select_policy(release, bound, bucket)
  IN  IF version \notin DOMAIN files THEN "block" ELSE Decision(files[version], call)

(* What guarded_tool_call makes of a decision.                             *)
Outcome(decision) ==
  IF decision \in {"block", "require_approval"} THEN decision ELSE "allow"
Strictness(decision) ==
  IF decision = "block" THEN 2 ELSE IF decision = "require_approval" THEN 1 ELSE 0

-----------------------------------------------------------------------------
(* The policies of the repository (mcp/policies/versions).  "~/.ssh" is    *)
(* left out of what is denied: a valid path is absolute.                   *)
Config == [action |-> "block", deny |-> {}, allow |-> {}, domains |-> {}, external |-> "require_approval",
           block_private |-> TRUE]
Government == {<<"cn", "gov">>, <<"cn", "gov", "xiongan">>}
ToolRules ==
  [file_read     |-> [Config EXCEPT !.action = "allow_with_log", !.allow = Public \cup Approved,
                        !.deny = {<<"data", "secret">>, <<"system">>, <<"private">>, <<"etc">>}],
   file_write    |-> [Config EXCEPT !.action = "allow_with_log", !.allow = {<<"data", "output">>}],
   file_delete   |-> Config,
   send_email    |-> [Config EXCEPT !.action = "require_approval", !.domains = Government],
   browser_visit |-> [Config EXCEPT !.action = "allow_with_check", !.domains = Government],
   api_call      |-> [Config EXCEPT !.action = "require_approval", !.domains = Government],
   shell_exec    |-> Config,
   db_query      |-> [Config EXCEPT !.action = "allow_with_log"],
   db_write      |-> [Config EXCEPT !.action = "require_approval"]]
Shipped ==
  LET sent     == {"file_write", "file_delete", "send_email", "shell_exec", "db_write"}
      others   == [visitor |-> {"file_write", "db_query", "db_write"}, auditor |-> sent]
      staff(v) == IF v = "2.1.0" THEN {"db_write"} ELSE {}
  IN  [v \in {"2.0.0", "2.1.0"} |->
         [tools                |-> ToolRules,
          role_overrides       |-> [r \in {"staff", "visitor", "auditor"} |->
                                      IF r = "staff" THEN staff(v) ELSE others[r]],
          agent_role_overrides |-> [untrusted |-> Tools, readonly |-> sent \cup {"api_call"}]]]
=============================================================================
