--------------------------- MODULE MCTaskDispatcher ---------------------------
(* Instances of TaskDispatcher for TLC.                                     *)
EXTENDS TaskDispatcher, TLC

CONSTANTS t1, t2, t3, k1

AllStages == {"created", "queued", "started", "retry", "skill", "completed",
              "succeeded", "failed", "rejected", "replayed"}
FirstTwo  == [t \in Tasks |-> IF t \in {t1, t2} THEN k1 ELSE None]
LastUrgent == [t \in Tasks |-> IF t = t3 THEN 1 ELSE 2]
LastRetried == [t \in Tasks |-> IF t = t3 THEN 2 ELSE 1]

(* The rows behind a trace: whatever three of them say, logging them one by *)
(* one gives the chain that migrating them gives; and a chain verifies with *)
(* no other row in the place of one of its own, without its last row, or    *)
(* with two rows swapped.                                                   *)
C == INSTANCE EventChain
Written(payloads) ==
  LET state[n \in 0..Len(payloads)] ==
        IF n = 0 THEN [head |-> C!NewHead("key"), rows |-> <<>>]
        ELSE C!Logged("key", state[n - 1].head, state[n - 1].rows, payloads[n])
  IN  state[Len(payloads)]
Payloads == UNION {[1..n -> {"a", "b"}] : n \in 0..3}
Stored   == {Written(payloads) : payloads \in Payloads}
AnyRow   == UNION {{w.rows[i] : i \in DOMAIN w.rows} : w \in Stored}

ASSUME MigratedAsLogged ==
  \A payloads \in Payloads :
    LET old == [i \in DOMAIN payloads |-> C!Legacy(payloads[i])]
    IN  C!Migrated("key", C!NewHead("key"), old) = Written(payloads)
ASSUME ChangedRowsShow ==
  \A w \in Stored :
    /\ C!Valid("key", w.head, w.rows)
    /\ ~C!Valid("other key", w.head, w.rows)
    /\ \A i \in DOMAIN w.rows, row \in AnyRow :
         row = w.rows[i] \/ ~C!Valid("key", w.head, [w.rows EXCEPT ![i] = row])
    /\ w.rows = <<>> \/ ~C!Valid("key", w.head, SubSeq(w.rows, 1, Len(w.rows) - 1))
    /\ \A i, j \in DOMAIN w.rows :
         i = j \/ ~C!Valid("key", w.head, [w.rows EXCEPT ![i] = w.rows[j], ![j] = w.rows[i]])

DispatchSymmetry == Permutations({t1, t2}) \cup Permutations(Workers)
=============================================================================
