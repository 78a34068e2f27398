---------------------------- MODULE MCToolGateway ----------------------------
(* Instances of ToolGateway for TLC.                                        *)
EXTENDS ToolGateway, TLC

CONSTANTS i1, i2, c1, c2, c3, c4, s1, s2, v1, v2, v3, k1

OneIntent == [c \in Calls |-> i1]
Pairs     == [c \in Calls |-> IF c \in {c1, c3} THEN i1 ELSE i2]
SharedKey == [c \in Calls |-> k1]
NoKey     == [c \in Calls |-> None]
NoStep    == [i \in Intents |-> None]
OwnStep   == [i \in Intents |-> IF i = i1 THEN s1 ELSE s2]
OnceTwice == [s \in Steps |-> IF s = s1 THEN 1 ELSE 2]
Chain     == [s \in Steps |-> IF s = s2 THEN {s1} ELSE {}]

(* What the policy guard says of the intents.  The policies are version     *)
(* 2.0.0 of the repository, one that lets staff write to the database, and  *)
(* version 2.1.0, which bars them from it.                                  *)
G == INSTANCE PolicyGuard

Relaxed == [G!Shipped["2.0.0"] EXCEPT !.tools.db_write.action = "allow_with_log"]
PolicyOf(v) ==
  CASE v = v1 -> G!Shipped["2.0.0"] [] v = v2 -> Relaxed [] v = v3 -> G!Shipped["2.1.0"]
At(place) == [valid |-> TRUE, place |-> place, private |-> FALSE]
Request(tool, place) ==
  [tool |-> tool, target |-> At(place), role |-> "staff", tenant |-> G!NoTenant, agent |-> G!NoAgent,
   labels |-> {}, recipient_authorized |-> FALSE, authorized_domains |-> {}]
Saying(request) ==
  [v \in Versions |-> [i \in Intents |-> G!Outcome(G!Decision(PolicyOf(v), request))]]

Outside  == Request("send_email", <<"com", "example">>)
Notice   == Request("file_read", <<"data", "public", "notice">>)
Approve  == Saying(Outside)
Allow    == Saying(Notice)
Changing == Saying(Request("db_write", <<>>))

ASSUME PolicyChangesMatter ==
  [v \in {v1, v2, v3} |-> G!Outcome(G!Decision(PolicyOf(v), Request("db_write", <<>>)))]
    = (v1 :> "require_approval" @@ v2 :> "allow" @@ v3 :> "block")

(* The calls of test_gateway_contract.py and test_taint.py.                 *)
Says(request, decision) == \A v \in DOMAIN G!Shipped : G!Decision(G!Shipped[v], request) = decision
Labelled(request, labels) == [request EXCEPT !.labels = labels]
ASSUME GuardAsTested ==
  /\ Says([Outside EXCEPT !.target.valid = FALSE], "block")
  /\ Says(Request("file_read", <<"data", "secret", "key">>), "block")
  /\ Says(Request("file_read", <<"tmp", "outside">>), "block")
  /\ Says([Request("browser_visit", <<"local", "service">>) EXCEPT !.target.private = TRUE], "block")
  /\ Says(Request("api_call", <<"example", "attacker">>), "block")
  /\ Says([Notice EXCEPT !.agent = [role |-> "untrusted", tenant |-> G!NoTenant]], "block")
  /\ Says([Notice EXCEPT !.tenant = "ours", !.agent = [role |-> "operator", tenant |-> "other"]], "block")
  /\ Says(Request("send_email", <<"cn", "gov", "dept">>), "allow_with_log")
  /\ Says(Request("browser_visit", <<"cn", "gov", "xiongan", "service">>), "allow_with_log")
  /\ Says(Labelled(Outside, {"confidential", "public"}), "require_approval")
  /\ Says(Labelled(Request("api_call", <<"cn", "gov", "www">>), {"restricted"}), "block")
  /\ G!infer_result_labels(Labelled(Request("file_read", <<"data", "approved", "case">>), {"internal"}))
       = {"internal", "confidential"}

(* No policy of the repository blocks mail to external domains by itself,   *)
(* which theorem LabelsNeverLoosen asks of one.                             *)
ASSUME LabelsAreStricter ==
  \A v \in DOMAIN G!Shipped : \A tool \in G!Tools : G!Shipped[v].tools[tool].external # "block"

(* Every release that six changes reach, with the versions on disk and any  *)
(* of three shares, is sound, and a call is served by a version in force.   *)
Released ==
  LET files   == DOMAIN G!Shipped
      next(R) == R \cup {r \in UNION {G!Changes(r, files) : r \in R} : r.rollout \in {0, 1, 50, 100}}
      after[n \in 0..6] == IF n = 0 THEN {G!Initial("2.0.0")} ELSE next(after[n - 1])
  IN  after[6]
ASSUME ReleasesAreSound ==
  \A r \in Released :
    /\ G!ReleaseOK(r, DOMAIN G!Shipped)
    /\ \A bucket \in {0, 49, 50, 99} : G!select_policy(r, G!NoVersion, bucket) \in G!InForce(r)
    /\ r.rollout = 100 => G!select_policy(r, G!NoVersion, 99) = r.canary

ResumeSymmetry == Permutations(Resumes) \cup Permutations(Calls)
PairSymmetry   == Permutations({c1, c3}) \cup Permutations({c2, c4}) \cup Permutations(Tickets)
=============================================================================
