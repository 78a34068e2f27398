------------------------------ MODULE TraceAudit ------------------------------
(***************************************************************************)
(* The audit traces of GovSafeAgent (research_technology/skills/           *)
(* traceaudit-gov/src): every trace is a chain of hashed and signed events *)
(* in SQLite, and log_event appends in one transaction that verifies the   *)
(* chain first.                                                            *)
(*                                                                         *)
(* An event is its stage and the key it is signed with; its hash and its   *)
(* sequence number are its place in the chain.  The signing key is a file  *)
(* that some thread creates and then writes (integrity.py signing_key);    *)
(* who reads it in between signs with an empty key.  It is read anew for   *)
(* every signature that is checked or made, so it may get written at any   *)
(* moment of an append.                                                    *)
(*                                                                         *)
(* An operator named X_Without... or X_With... is X with a plausible bug,  *)
(* kept to show that a property notices it.                                *)
(***************************************************************************)
EXTENDS Naturals, Sequences

CONSTANTS
  Traces,
  Stages,   \* the events
  MaxFaults \* bound on appends that fail or time out

ASSUME AuditAssumption == MaxFaults \in Nat

VARIABLES
  keyfile,  \* "empty" while its creator has not written it, then "full"
  chain,    \* the events of each trace, <<>> before create_trace
  late,     \* per trace: the events of timed-out appends still on their way
  faults    \* appends that failed or timed out so far

traceVars == <<keyfile, chain, late, faults>>

Keys   == {"empty", "full"}
Events == [stage: Stages, key: Keys]

(* A start in the middle of the key file's creation counts as a fault.     *)
TraceInit ==
  /\ \/ keyfile = "full" /\ faults = 0
     \/ keyfile = "empty" /\ faults = 1 /\ MaxFaults > 0
  /\ chain = [r \in Traces |-> <<>>]
  /\ late = [r \in Traces |-> {}]

(* signing_key: the thread that created the file, with O_EXCL, writes it.  *)
WriteKey  == keyfile = "empty" /\ keyfile' = "full" /\ UNCHANGED <<chain, late, faults>>

(* verify_rows: signatures are recomputed with the key.  When it gets      *)
(* written meanwhile, the rows or the head checked after that do not match:*)
(* as if it had been written before.                                       *)
Verified(r) == \A i \in DOMAIN chain[r] : chain[r][i].key = keyfile

Event(stage, key) == [stage |-> stage, key |-> key]
Extended(r, stages, last) ==
  [chain EXCEPT ![r] = @ \o [i \in DOMAIN stages |->
     Event(stages[i], IF i = Len(stages) THEN last ELSE keyfile)]]

(* Stages are appended one after the other, each to a chain that verifies. *)
(* A key that gets written between the verification and the signature of   *)
(* an event signs it, and nothing is appended after it.                    *)
appends(r, stages) ==
  /\ stages # <<>> => chain[r] # <<>> /\ Verified(r)
  /\ keyfile' \in {keyfile, "full"}
  /\ chain' = Extended(r, stages, keyfile')

(* An append may fail of the disk or a lock, or because the key the chain  *)
(* is signed with is replaced before it is verified.                       *)
Fault  == faults < MaxFaults /\ faults' = faults + 1
Breaks == /\ keyfile' \in {keyfile, "full"}
          /\ Fault \/ (keyfile' # keyfile /\ UNCHANGED faults)

(* create_trace: the trace head, then its first event.                     *)
create_trace(r, stages) ==
  /\ chain[r] = <<>>
  /\ keyfile' \in {keyfile, "full"}
  /\ chain' = Extended(r, stages, keyfile')
  /\ UNCHANGED <<late, faults>>
create_trace_fails(r, stages) ==
  /\ chain[r] = <<>>
  /\ Breaks
  /\ chain' = Extended(r, stages, keyfile)
  /\ UNCHANGED late

(* log_event, for each of stages: nothing is appended to an unknown or     *)
(* broken chain.                                                           *)
log_event_WithoutVerify(r, stages) ==
  /\ chain' = Extended(r, stages, keyfile)
  /\ UNCHANGED <<keyfile, late, faults>>
log_event(r, stages) == appends(r, stages) /\ UNCHANGED <<late, faults>>

(* An append fails and the caller goes on and logs other stages ...        *)
log_event_fails(r, stages) ==
  \/ ~Verified(r) /\ stages = <<>> /\ UNCHANGED traceVars
  \/ Fault /\ appends(r, stages) /\ UNCHANGED late

(* ... or it fails after other stages were logged.                         *)
log_event_fails_after(r, stages) ==
  \/ ~Verified(r) /\ stages = <<>> /\ UNCHANGED traceVars
  \/ /\ stages # <<>> => chain[r] # <<>> /\ Verified(r)
     /\ Breaks
     /\ \E last \in {keyfile, keyfile'} : chain' = Extended(r, stages, last)
     /\ UNCHANGED late

(* A caller that waits only so long leaves its thread behind: the event    *)
(* may still be appended, at any later moment.                             *)
log_event_late(r, stage, stages) ==
  /\ Fault
  /\ appends(r, stages)
  /\ late' = [late EXCEPT ![r] = @ \cup {stage}]

LateAppend(r) ==
  \E stage \in late[r] :
    /\ appends(r, <<stage>>)
    /\ late' = [late EXCEPT ![r] = @ \ {stage}]
    /\ UNCHANGED faults

StagesOf(r) == [i \in DOMAIN chain[r] |-> chain[r][i].stage]
Recorded(r) == {chain[r][i].stage : i \in DOMAIN chain[r]}

(* All events but the last are signed with one key.                        *)
OneKey(r) == \A i, j \in 1..(Len(chain[r]) - 1) : chain[r][i].key = chain[r][j].key

TraceTypeOK ==
  /\ keyfile \in Keys
  /\ chain \in [Traces -> Seq(Events)]
  /\ late \in [Traces -> SUBSET Stages]
  /\ faults \in Nat
=============================================================================
