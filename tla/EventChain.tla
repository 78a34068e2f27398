------------------------------ MODULE EventChain ------------------------------
(***************************************************************************)
(* The rows behind one trace of module TraceAudit (research_technology/    *)
(* skills/traceaudit-gov/src/integrity.py and audit.py): what verify_rows  *)
(* calls valid, what log_event appends, what migrate_legacy_chains makes   *)
(* of rows that were written before there were hashes.                     *)
(*                                                                         *)
(* A digest is the tuple of what it is computed from, and a signature that *)
(* digest with the key: both are the same only for the same content.  A    *)
(* payload is what the digest of an event covers apart from its sequence   *)
(* number and the hash before it.  head is the row of traces.              *)
(***************************************************************************)
EXTENDS Naturals, Sequences

Genesis == <<"genesis">>
NoHash  == <<"none">>
Unsigned == <<"unsigned">>

event_digest(sequence, payload, previous) == <<sequence, payload, previous>>
sign(key, digest)       == <<key, digest>>
head_signature(key, count, hash) == sign(key, <<count, hash>>)

Row(key, sequence, payload, previous) ==
  [sequence |-> sequence, payload |-> payload, prev |-> previous,
   hash |-> event_digest(sequence, payload, previous),
   signature |-> sign(key, event_digest(sequence, payload, previous))]
Legacy(payload) ==
  [sequence |-> 0, payload |-> payload, prev |-> NoHash, hash |-> NoHash, signature |-> Unsigned]
Anchor(key, count, hash) ==
  [count |-> count, hash |-> hash, signature |-> head_signature(key, count, hash)]

Before(rows, i) == IF i = 1 THEN Genesis ELSE rows[i - 1].hash
HashOf(rows)    == IF rows = <<>> THEN Genesis ELSE rows[Len(rows)].hash

(* verify_rows.                                                            *)
RowValid(key, rows, i) ==
  /\ rows[i].sequence = i
  /\ rows[i].prev = Before(rows, i)
  /\ rows[i].hash = event_digest(rows[i].sequence, rows[i].payload, rows[i].prev)
  /\ rows[i].signature = sign(key, rows[i].hash)
Valid(key, head, rows) ==
  /\ \A i \in DOMAIN rows : RowValid(key, rows, i)
  /\ head.count = Len(rows)
  /\ head.hash = HashOf(rows)
  /\ head.signature = head_signature(key, head.count, head.hash)

(* create_trace, and log_event, which appends to a valid chain only.       *)
NewHead(key) == Anchor(key, 0, Genesis)
NextRow(key, head, payload) == Row(key, head.count + 1, payload, head.hash)
Logged(key, head, rows, payload) ==
  IF Valid(key, head, rows)
  THEN LET row == NextRow(key, head, payload)
       IN  [head |-> Anchor(key, head.count + 1, row.hash), rows |-> Append(rows, row)]
  ELSE [head |-> head, rows |-> rows]

-----------------------------------------------------------------------------
(* migrate_legacy_chains: rows without any hash are hashed, in their order,*)
(* and a chain some rows of which are hashed is left as it is.             *)
Hashed(rows) == {i \in DOMAIN rows : rows[i].hash # NoHash}
Backfilled(key, rows) ==
  LET row[i \in 1..Len(rows)] ==
        Row(key, i, rows[i].payload, IF i = 1 THEN Genesis ELSE row[i - 1].hash)
  IN  [i \in DOMAIN rows |-> row[i]]
Migrated(key, head, rows) ==
  IF Hashed(rows) # {} THEN [head |-> head, rows |-> rows]
  ELSE LET all == Backfilled(key, rows)
       IN  [head |-> Anchor(key, Len(rows), HashOf(all)), rows |-> all]

=============================================================================
