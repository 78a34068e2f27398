---------------------------- MODULE ApprovalStore ----------------------------
(***************************************************************************)
(* The approval requests of the MCP gateway of GovSafeAgent                *)
(* (research_technology/mcp/gateway/approvals.py, SQLiteApprovalStore):    *)
(* one row per tool call that has to wait for a human decision, and one    *)
(* operator per BEGIN IMMEDIATE transaction on it.                         *)
(*                                                                         *)
(* A row is named after the call that may create it.  Of its snapshot only *)
(* the intent counts (tool, arguments and context: what request_hash       *)
(* covers); of its clock, whether expires_at has passed.  Nothing rewrites *)
(* a snapshot, so the fingerprint test of consume cannot fail.  A decision *)
(* key only makes a repeated decision answer with the row it left: it      *)
(* changes no row and is left out.                                         *)
(***************************************************************************)
EXTENDS Naturals, FiniteSets

CONSTANTS
  Calls,    \* tool calls, and the approval row each may create
  Intents,  \* tool, arguments and context of a call
  Keys,     \* idempotency keys chosen by callers
  None,     \* no key, no ticket, no plan step, no row
  Intent,   \* the intent of a call
  Key       \* the idempotency key its caller chose, or None

ASSUME ApprovalAssumption ==
  /\ None \notin Calls \cup Keys
  /\ Intent \in [Calls -> Intents]
  /\ Key \in [Calls -> Keys \cup {None}]

VARIABLES
  row,     \* the status of each row, "none" before it is inserted
  key,     \* its idempotency_key; None: one that the gateway made up
  masked,  \* the rows with masked_args
  stale    \* the rows whose expires_at has passed

approvalVars == <<row, key, masked, stale>>

Granted == {"approved", "masked_and_approved"}
Closed  == {"denied", "expired", "revoked"}
Decided == Granted \cup {"denied"}
RowStatuses == {"none", "requested", "consumed"} \cup Granted \cup Closed

ApprovalInit ==
  /\ row = [c \in Calls |-> "none"]
  /\ key = [c \in Calls |-> None]
  /\ masked = {}
  /\ stale = {}

ApprovalTypeOK ==
  /\ row \in [Calls -> RowStatuses]
  /\ key \in [Calls -> Keys \cup {None}]
  /\ masked \subseteq Calls
  /\ stale \subseteq Calls

SetRow(c, s) == row' = [row EXCEPT ![c] = s]

(* The row that answers to key k; a made-up key is always fresh.           *)
Existing(k) == {d \in Calls : k # None /\ key[d] = k}

create(c, k) ==
  /\ row[c] = "none"
  /\ Existing(k) = {}
  /\ SetRow(c, "requested")
  /\ key' = [key EXCEPT ![c] = k]
  /\ UNCHANGED <<masked, stale>>

(* A decision that comes too late closes the request instead.              *)
decide(c, decision) ==
  /\ row[c] = "requested"
  /\ \/ /\ c \notin stale
        /\ SetRow(c, decision)
        /\ masked' = IF decision = "masked_and_approved" THEN masked \cup {c} ELSE masked
     \/ /\ c \in stale
        /\ SetRow(c, "expired")
        /\ UNCHANGED masked
  /\ UNCHANGED <<key, stale>>

consume_WithoutStatus(c) ==
  /\ row[c] \in Granted \cup {"consumed"}
  /\ c \notin stale
  /\ SetRow(c, "consumed")
  /\ UNCHANGED <<key, masked, stale>>

consume_WithoutExpiry(c) ==
  /\ row[c] \in Granted
  /\ SetRow(c, "consumed")
  /\ UNCHANGED <<key, masked, stale>>

consume(c) ==
  /\ row[c] \in Granted
  /\ c \notin stale
  /\ SetRow(c, "consumed")
  /\ UNCHANGED <<key, masked, stale>>

(* consume refuses: too late (the row is closed), or not granted.          *)
consume_refused(c) ==
  \/ row[c] \in Granted /\ c \in stale /\ SetRow(c, "expired") /\ UNCHANGED <<key, masked, stale>>
  \/ row[c] \notin Granted /\ UNCHANGED approvalVars

revoke_WithConsumed(c) ==
  /\ row[c] \in {"requested", "consumed"} \cup Granted
  /\ SetRow(c, "revoked")
  /\ UNCHANGED <<key, masked, stale>>

revoke(c) ==
  /\ row[c] \in {"requested"} \cup Granted
  /\ SetRow(c, "revoked")
  /\ UNCHANGED <<key, masked, stale>>

expire(c) ==
  /\ row[c] = "requested"
  /\ c \in stale
  /\ SetRow(c, "expired")
  /\ UNCHANGED <<key, masked, stale>>

(* Time: expires_at passes.                                                *)
row_ages(c) ==
  /\ row[c] # "none"
  /\ c \notin stale
  /\ stale' = stale \cup {c}
  /\ UNCHANGED <<row, key, masked>>
=============================================================================
