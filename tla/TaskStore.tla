------------------------------ MODULE TaskStore ------------------------------
(***************************************************************************)
(* The Redis state of the distributed task runtime of GovSafeAgent         *)
(* (safeagent_gov/task_runtime/redis_store.py, class RedisTaskStore) and   *)
(* one operator per WATCH/MULTI transaction on it.  Every transaction      *)
(* watches the keys its decision reads, so each one is a single step here; *)
(* what happens between two transactions of one caller is the subject of   *)
(* module RedisTaskRuntime.                                                *)
(*                                                                         *)
(* A task is named after the submit call that may create it.  One isolated *)
(* pool is modelled: pools share nothing but the record count.             *)
(*                                                                         *)
(* Data abstractions: a timestamp is known only by how it compares with    *)
(* the present ("expired" leases, "overdue" staging entries), the audit    *)
(* counter only by being positive, and the order of queue entries of equal *)
(* priority is left open.  The terminal and dead-letter indexes are        *)
(* written in the transaction that writes the status and are read off it.  *)
(*                                                                         *)
(* An operator named X_Without... or X_With... is not part of the model:   *)
(* it is X with a plausible bug, kept to show that a property notices it.  *)
(***************************************************************************)
EXTENDS Integers, FiniteSets

CONSTANTS
  Tasks,        \* submit calls, and the task record each may create
  Workers,      \* worker threads of the pool
  Keys,         \* idempotency keys, already scoped by tenant and actor
  None,         \* absence of an owner, a key, a task
  KeyOf,        \* the idempotency key of a submission, or None
  Rank,         \* PRIORITY_RANK of a submission: 0 critical .. 3 low
  MaxAttempts,  \* TaskSubmission.max_attempts
  Capacity,     \* queue_capacity + workers of the pool
  MaxRecords    \* TaskRuntimeSettings.max_records

ASSUME StoreAssumption ==
  /\ None \notin Tasks \cup Workers \cup Keys
  /\ KeyOf \in [Tasks -> Keys \cup {None}]
  /\ Rank \in [Tasks -> 0 .. 3]
  /\ MaxAttempts \in Nat \ {0}
  /\ Capacity \in Nat \ {0}
  /\ MaxRecords \in Nat \ {0}

VARIABLES
  status,      \* TaskRecord.status, "absent" before creation, "purged" after
  owner,       \* TaskRecord.last_worker_id
  lease,       \* membership and score of the lease ZSET
  attempts,    \* TaskRecord.attempts
  generation,  \* TaskRecord.recovered_count
  audited,     \* the tasks whose audit_events > 0
  queue,       \* the pool's queue ZSET
  staging,     \* the staging ZSET: created, not yet activated
  overdue,     \* the staging entries older than the staging timeout
  outbox,      \* the outbox ZSET: task and generation still to be notified
  idem,        \* idempotency key -> task
  accepted     \* the tasks counted by the "accepted" metric

storeVars == <<status, owner, lease, attempts, generation, audited, queue,
               staging, overdue, outbox, idem, accepted>>

LiveStatuses     == {"queued", "running"}
TerminalStatuses == {"succeeded", "failed", "rejected"}
Statuses         == LiveStatuses \cup TerminalStatuses \cup {"absent", "purged"}

Exists(t)   == status[t] \in LiveStatuses \cup TerminalStatuses
Records     == {t \in Tasks : Exists(t)}
Terminal    == {t \in Tasks : status[t] \in TerminalStatuses}
Leased      == {t \in Tasks : lease[t] # "none"}
Outstanding_WithoutLeases == Cardinality(queue)
Outstanding == Cardinality(queue) + Cardinality(Leased)
StoreFull   == Cardinality(Records) >= MaxRecords
Replayed(t) == IF KeyOf[t] = None THEN None ELSE idem[KeyOf[t]]

StoreInit ==
  /\ status = [t \in Tasks |-> "absent"]
  /\ owner = [t \in Tasks |-> None]
  /\ lease = [t \in Tasks |-> "none"]
  /\ attempts = [t \in Tasks |-> 0]
  /\ generation = [t \in Tasks |-> 0]
  /\ idem = [k \in Keys |-> None]
  /\ audited = {} /\ queue = {} /\ staging = {} /\ overdue = {}
  /\ outbox = {} /\ accepted = {}

StoreTypeOK ==
  /\ status \in [Tasks -> Statuses]
  /\ owner \in [Tasks -> Workers \cup {None}]
  /\ lease \in [Tasks -> {"none", "live", "expired"}]
  /\ attempts \in [Tasks -> Nat]
  /\ generation \in [Tasks -> Nat]
  /\ audited \subseteq Tasks
  /\ queue \subseteq Tasks
  /\ staging \subseteq Tasks
  /\ overdue \subseteq Tasks
  /\ outbox \subseteq Tasks \X Nat
  /\ idem \in [Keys -> Tasks \cup {None}]
  /\ accepted \subseteq Tasks

(* No task falls between the indexes or into two of them: a queued record  *)
(* is staged or in the priority queue, a running one is in the lease set   *)
(* with its owner, a terminal one in none (activate, claim_next, reject,   *)
(* _recover_one and finish each move a task from one index to another).    *)
Placement ==
  \A t \in Tasks :
    /\ (status[t] = "queued") <=> (t \in staging \cup queue)
    /\ t \notin staging \cap queue
    /\ (status[t] = "running") <=> (lease[t] # "none")
    /\ (status[t] = "running") <=> (owner[t] # None)

-----------------------------------------------------------------------------
(* The transactions.                                                       *)

create(t) ==
  /\ status[t] = "absent"
  /\ ~StoreFull
  /\ Replayed(t) = None
  /\ status' = [status EXCEPT ![t] = "queued"]
  /\ staging' = staging \cup {t}
  /\ idem' = IF KeyOf[t] = None THEN idem ELSE [idem EXCEPT ![KeyOf[t]] = t]
  /\ UNCHANGED <<owner, lease, attempts, generation, audited, queue, overdue,
                 outbox, accepted>>

purge_oldest_terminal_WithoutKey(t) ==
  /\ status[t] \in TerminalStatuses
  /\ status' = [status EXCEPT ![t] = "purged"]
  /\ UNCHANGED <<owner, lease, attempts, generation, audited, queue, staging,
                 overdue, outbox, idem, accepted>>

(* The outbox is not purged with the record.                               *)
purge_oldest_terminal(t) ==
  /\ status[t] \in TerminalStatuses
  /\ status' = [status EXCEPT ![t] = "purged"]
  /\ idem' = IF KeyOf[t] = None THEN idem ELSE [idem EXCEPT ![KeyOf[t]] = None]
  /\ UNCHANGED <<owner, lease, attempts, generation, audited, queue, staging,
                 overdue, outbox, accepted>>

increment_audit(t) ==
  /\ Exists(t)
  /\ audited' = audited \cup {t}
  /\ UNCHANGED <<status, owner, lease, attempts, generation, queue, staging,
                 overdue, outbox, idem, accepted>>

update_attempts_WithoutOwner(t, w, n) ==
  /\ Exists(t)
  /\ attempts' = [attempts EXCEPT ![t] = n]
  /\ UNCHANGED <<status, owner, lease, generation, audited, queue, staging,
                 overdue, outbox, idem, accepted>>

(* update(expected_worker_id=w, attempts=n), made before each handler call *)
update_attempts(t, w, n) ==
  /\ Exists(t)
  /\ owner[t] = w
  /\ attempts' = [attempts EXCEPT ![t] = n]
  /\ UNCHANGED <<status, owner, lease, generation, audited, queue, staging,
                 overdue, outbox, idem, accepted>>

AlreadyPlaced(t) == t \in queue \/ lease[t] # "none"

(* activate raises TaskBackpressureError in this case                      *)
ActivateFull(t) ==
  /\ status[t] = "queued"
  /\ ~AlreadyPlaced(t)
  /\ Outstanding >= Capacity

activate(t) ==
  /\ status[t] = "queued"
  /\ \/ AlreadyPlaced(t) /\ UNCHANGED <<queue, outbox, accepted>>
     \/ /\ ~AlreadyPlaced(t)
        /\ Outstanding < Capacity
        /\ queue' = queue \cup {t}
        /\ outbox' = outbox \cup {<<t, generation[t]>>}
        /\ accepted' = accepted \cup {t}
  /\ staging' = staging \ {t}
  /\ overdue' = overdue \ {t}
  /\ UNCHANGED <<status, owner, lease, attempts, generation, audited, idem>>

acknowledge_outbox(member) ==
  /\ outbox' = outbox \ {member}
  /\ UNCHANGED <<status, owner, lease, attempts, generation, audited, queue,
                 staging, overdue, idem, accepted>>

reject_WithoutLease(t) ==
  \/ /\ status[t] \in LiveStatuses
     /\ status' = [status EXCEPT ![t] = "rejected"]
     /\ owner' = [owner EXCEPT ![t] = None]
     /\ queue' = queue \ {t}
     /\ staging' = staging \ {t}
     /\ overdue' = overdue \ {t}
     /\ UNCHANGED <<lease, attempts, generation, audited, outbox, idem, accepted>>
  \/ status[t] \in TerminalStatuses /\ UNCHANGED storeVars

(* A terminal record is returned unchanged; a running one is rejected too. *)
reject(t) ==
  \/ /\ status[t] \in LiveStatuses
     /\ status' = [status EXCEPT ![t] = "rejected"]
     /\ owner' = [owner EXCEPT ![t] = None]
     /\ lease' = [lease EXCEPT ![t] = "none"]
     /\ queue' = queue \ {t}
     /\ staging' = staging \ {t}
     /\ overdue' = overdue \ {t}
     /\ UNCHANGED <<attempts, generation, audited, outbox, idem, accepted>>
  \/ status[t] \in TerminalStatuses /\ UNCHANGED storeVars

claim_next(t, w) ==
  /\ t \in queue
  /\ \A u \in queue : Rank[t] <= Rank[u]
  /\ status[t] = "queued"
  /\ status' = [status EXCEPT ![t] = "running"]
  /\ owner' = [owner EXCEPT ![t] = w]
  /\ lease' = [lease EXCEPT ![t] = "live"]
  /\ queue' = queue \ {t}
  /\ UNCHANGED <<attempts, generation, audited, staging, overdue, outbox,
                 idem, accepted>>

HoldsLease(t, w) == status[t] = "running" /\ owner[t] = w

heartbeat(t, w) ==
  /\ HoldsLease(t, w)
  /\ lease' = [lease EXCEPT ![t] = "live"]
  /\ UNCHANGED <<status, owner, attempts, generation, audited, queue, staging,
                 overdue, outbox, idem, accepted>>

recover_one_WithOldGeneration(t) ==
  /\ lease[t] = "expired"
  /\ status[t] = "running"
  /\ status' = [status EXCEPT ![t] = "queued"]
  /\ owner' = [owner EXCEPT ![t] = None]
  /\ lease' = [lease EXCEPT ![t] = "none"]
  /\ generation' = [generation EXCEPT ![t] = @ + 1]
  /\ queue' = queue \cup {t}
  /\ outbox' = outbox \cup {<<t, generation[t]>>}
  /\ UNCHANGED <<attempts, audited, staging, overdue, idem, accepted>>

recover_one(t) ==
  /\ lease[t] = "expired"
  /\ status[t] = "running"
  /\ status' = [status EXCEPT ![t] = "queued"]
  /\ owner' = [owner EXCEPT ![t] = None]
  /\ lease' = [lease EXCEPT ![t] = "none"]
  /\ generation' = [generation EXCEPT ![t] = @ + 1]
  /\ queue' = queue \cup {t}
  /\ outbox' = outbox \cup {<<t, generation[t] + 1>>}
  /\ UNCHANGED <<attempts, audited, staging, overdue, idem, accepted>>

finish_WithoutLease(t, w, outcome) ==
  /\ Exists(t)
  /\ status' = [status EXCEPT ![t] = outcome]
  /\ owner' = [owner EXCEPT ![t] = None]
  /\ lease' = [lease EXCEPT ![t] = "none"]
  /\ UNCHANGED <<attempts, generation, audited, queue, staging, overdue,
                 outbox, idem, accepted>>

finish(t, w, outcome) ==
  /\ HoldsLease(t, w)
  /\ status' = [status EXCEPT ![t] = outcome]
  /\ owner' = [owner EXCEPT ![t] = None]
  /\ lease' = [lease EXCEPT ![t] = "none"]
  /\ UNCHANGED <<attempts, generation, audited, queue, staging, overdue,
                 outbox, idem, accepted>>

-----------------------------------------------------------------------------
(* Time: a staging entry passes the cutoff, a lease passes its score.      *)

staging_ages(t) ==
  /\ t \in staging \ overdue
  /\ overdue' = overdue \cup {t}
  /\ UNCHANGED <<status, owner, lease, attempts, generation, audited, queue,
                 staging, outbox, idem, accepted>>

lease_expires(t) ==
  /\ lease[t] = "live"
  /\ lease' = [lease EXCEPT ![t] = "expired"]
  /\ UNCHANGED <<status, owner, attempts, generation, audited, queue, staging,
                 overdue, outbox, idem, accepted>>

-----------------------------------------------------------------------------
(* Everything that may happen to the store: whoever the actors are, they   *)
(* reach it through these transactions only.                               *)
StoreNext ==
  \E t \in Tasks :
    \/ create(t) \/ purge_oldest_terminal(t) \/ increment_audit(t) \/ activate(t)
    \/ reject(t) \/ recover_one(t) \/ staging_ages(t) \/ lease_expires(t)
    \/ \E n \in Nat : acknowledge_outbox(<<t, n>>)
    \/ \E w \in Workers :
         \/ claim_next(t, w) \/ heartbeat(t, w)
         \/ \E n \in Nat : update_attempts(t, w, n)
         \/ \E outcome \in {"succeeded", "failed"} : finish(t, w, outcome)
=============================================================================
