---------------------------- MODULE EvidenceProofs ----------------------------
(***************************************************************************)
(* What the decisions and the evidence of the gateway are worth for every  *)
(* policy, call and trace: proofs about modules PolicyGuard and EventChain.*)
(***************************************************************************)
EXTENDS TLAPS, PolicyGuard, EventChain, WellFoundedInduction

(* Every non-empty set of numbers has a least one.                         *)
LEMMA LeastNumber ==
  ASSUME NEW T \in SUBSET Nat, T # {}
  PROVE  \E m \in T : \A n \in T : ~(n < m)
<1>1. \E m \in T : \A n \in T : ~(<<n, m>> \in OpToRel(<, Nat))
  BY NatLessThanWellFounded, WFMin
<1> QED
  BY <1>1 DEF OpToRel

-----------------------------------------------------------------------------
(* Chains of events.                                                       *)

Rows(Payloads, Hashes, Signatures) ==
  Seq([sequence: Nat, payload: Payloads, prev: Hashes, hash: Hashes, signature: Signatures])

LEMMA SameHashSameRow ==
  ASSUME NEW key, NEW P, NEW H, NEW S, NEW a \in Rows(P, H, S), NEW b \in Rows(P, H, S), Len(a) = Len(b),
         NEW i \in DOMAIN a, RowValid(key, a, i), RowValid(key, b, i), a[i].hash = b[i].hash
  PROVE  a[i] = b[i] /\ Before(a, i) = Before(b, i)
<1> DEFINE R == [sequence: Nat, payload: P, prev: H, hash: H, signature: S]
<1>1. a[i] \in R /\ b[i] \in R
  <2>1. a \in Seq(R) /\ b \in Seq(R)
    BY DEF Rows
  <2> HIDE DEF R
  <2>2. i \in 1..Len(a) /\ i \in 1..Len(b)
    BY <2>1
  <2> QED
    BY <2>1, <2>2
<1>2. /\ a[i].sequence = b[i].sequence
      /\ a[i].payload = b[i].payload
      /\ a[i].prev = b[i].prev
      /\ a[i].signature = b[i].signature
  <2>1. <<a[i].sequence, a[i].payload, a[i].prev>> = <<b[i].sequence, b[i].payload, b[i].prev>>
    BY DEF RowValid, event_digest
  <2>2. a[i].sequence = b[i].sequence /\ a[i].payload = b[i].payload /\ a[i].prev = b[i].prev
    BY <2>1
  <2> QED
    BY <2>2 DEF RowValid
<1>3. a[i] = [sequence |-> a[i].sequence, payload |-> a[i].payload, prev |-> a[i].prev, hash |-> a[i].hash,
              signature |-> a[i].signature]
  BY <1>1
<1>4. b[i] = [sequence |-> b[i].sequence, payload |-> b[i].payload, prev |-> b[i].prev, hash |-> b[i].hash,
              signature |-> b[i].signature]
  BY <1>1
<1>5. a[i] = b[i]
  BY <1>2, <1>3, <1>4
<1> QED
  BY <1>2, <1>5 DEF RowValid

(* A trace verifies with one sequence of events only (verify_rows): rows   *)
(* that were changed, dropped, added or moved do not verify with the head  *)
(* of the rows they were (test_integrity_replay.py:73).                    *)
THEOREM HeadFixesRows ==
  ASSUME NEW key, NEW head, NEW P, NEW H, NEW S, NEW a \in Rows(P, H, S), NEW b \in Rows(P, H, S),
         Valid(key, head, a), Valid(key, head, b)
  PROVE  a = b
<1> DEFINE R == [sequence: Nat, payload: P, prev: H, hash: H, signature: S]
<1>1. a \in Seq(R) /\ b \in Seq(R) /\ Len(a) = Len(b) /\ Len(a) \in Nat
  BY DEF Rows, Valid
<1>2. DOMAIN a = 1..Len(a) /\ DOMAIN b = 1..Len(a)
  BY <1>1
<1>3. SUFFICES ASSUME a # b PROVE FALSE
  OBVIOUS
<1> DEFINE T == {n \in Nat : n < Len(a) /\ a[Len(a) - n] # b[Len(a) - n]}
<1>4. \E i \in 1..Len(a) : a[i] # b[i]
  BY <1>1, <1>2, <1>3
<1>5. T # {}
  <2>1. PICK i \in 1..Len(a) : a[i] # b[i]
    BY <1>4
  <2>2. Len(a) - i \in Nat /\ Len(a) - i < Len(a) /\ Len(a) - (Len(a) - i) = i
    BY <1>1
  <2> QED
    BY <2>1, <2>2
<1>6. PICK m \in T : \A n \in T : ~(n < m)
  BY <1>5, LeastNumber, T \in SUBSET Nat
<1>m. m \in Nat /\ m < Len(a) /\ a[Len(a) - m] # b[Len(a) - m]
  BY <1>6
<1> HIDE DEF R
<1>7. PICK i \in 1..Len(a) : i = Len(a) - m /\ a[i] # b[i]
  BY <1>1, <1>m
<1>8. a[i].hash = b[i].hash
  <2>1. CASE i = Len(a)
    BY <1>1, <2>1, a # <<>>, b # <<>> DEF Valid, HashOf
  <2>2. CASE i # Len(a)
    <3>1. i + 1 \in 1..Len(a) /\ (i + 1) - 1 = i /\ i + 1 # 1 /\ m - 1 \in Nat /\ m - 1 < m /\ m - 1 < Len(a)
          /\ Len(a) - (m - 1) = i + 1
      BY <1>1, <1>m, <1>7, <2>2
    <3>2. a[i + 1] = b[i + 1]
      BY <1>6, <3>1
    <3>3. RowValid(key, a, i + 1) /\ RowValid(key, b, i + 1)
      BY <1>2, <3>1 DEF Valid
    <3> QED
      BY <3>1, <3>2, <3>3 DEF RowValid, Before
  <2> QED
    BY <2>1, <2>2
<1>9. RowValid(key, a, i) /\ RowValid(key, b, i)
  BY <1>2, <1>7 DEF Valid
<1> QED
  BY <1>1, <1>2, <1>7, <1>8, <1>9, SameHashSameRow, i \in DOMAIN a

(* log_event keeps a trace valid, with the events it had before and the    *)
(* new one (test_integrity_replay.py).                                     *)
THEOREM LoggedStaysValid ==
  ASSUME NEW key, NEW head, NEW P, NEW rows \in Seq(P), NEW payload, Valid(key, head, rows)
  PROVE  LET next == Logged(key, head, rows, payload)
         IN  /\ Valid(key, next.head, next.rows)
             /\ Len(next.rows) = Len(rows) + 1
             /\ \A i \in DOMAIN rows : next.rows[i] = rows[i]
<1> DEFINE row  == NextRow(key, head, payload)
           next == Logged(key, head, rows, payload)
           n    == Len(rows)
<1>1. n \in Nat /\ head.count = n /\ head.hash = HashOf(rows) /\ DOMAIN rows = 1..n
  BY DEF Valid
<1>2. next = [head |-> Anchor(key, head.count + 1, row.hash), rows |-> Append(rows, row)]
  BY DEF Logged
<1>3. /\ DOMAIN next.rows = 1..(n + 1)
      /\ Len(next.rows) = n + 1
      /\ next.rows[n + 1] = row
      /\ \A i \in 1..n : next.rows[i] = rows[i]
  BY <1>1, <1>2
<1>4. /\ row.sequence = n + 1
      /\ row.prev = HashOf(rows)
      /\ row.hash = event_digest(row.sequence, row.payload, row.prev)
      /\ row.signature = sign(key, row.hash)
  BY <1>1 DEF NextRow, Row
<1> HIDE DEF row, next
<1>5. \A i \in 1..n : RowValid(key, next.rows, i)
  <2> SUFFICES ASSUME NEW i \in 1..n PROVE RowValid(key, next.rows, i)
    OBVIOUS
  <2>1. RowValid(key, rows, i)
    BY <1>1 DEF Valid
  <2>2. Before(next.rows, i) = Before(rows, i)
    BY <1>1, <1>3 DEF Before
  <2> QED
    BY <1>3, <2>1, <2>2 DEF RowValid
<1>6. RowValid(key, next.rows, n + 1)
  <2>1. Before(next.rows, n + 1) = HashOf(rows)
    <3>1. CASE n = 0
      BY <1>1, <3>1 DEF Before, HashOf
    <3>2. CASE n # 0
      <4>1. n \in 1..n /\ (n + 1) - 1 = n /\ n + 1 # 1 /\ rows # <<>>
        BY <1>1, <3>2
      <4> QED
        BY <1>3, <4>1 DEF Before, HashOf
    <3> QED
      BY <3>1, <3>2
  <2> QED
    BY <1>3, <1>4, <2>1 DEF RowValid
<1>7. /\ next.head.count = n + 1
      /\ next.head.hash = row.hash
      /\ next.head.signature = head_signature(key, n + 1, row.hash)
  BY <1>1, <1>2 DEF Anchor
<1>8. HashOf(next.rows) = row.hash
  <2>1. next.rows # <<>>
    BY <1>1, <1>3
  <2> QED
    BY <1>3, <2>1 DEF HashOf
<1>9. \A i \in DOMAIN next.rows : RowValid(key, next.rows, i)
  BY <1>1, <1>3, <1>5, <1>6
<1> QED
  BY <1>1, <1>3, <1>7, <1>8, <1>9 DEF Valid, next, row

(* migrate_legacy_chains never heals a partially hashed chain              *)
(* (integrity.py:174): what it leaves of one does not verify.              *)
THEOREM PartialNeverHealed ==
  ASSUME NEW key, NEW head, NEW rows, Hashed(rows) # {}, Hashed(rows) # DOMAIN rows
  PROVE  LET after == Migrated(key, head, rows)
         IN  /\ after.rows = rows
             /\ ~Valid(key, after.head, after.rows)
<1>1. Migrated(key, head, rows) = [head |-> head, rows |-> rows]
  BY DEF Migrated
<1>2. PICK i \in DOMAIN rows : rows[i].hash = NoHash
  BY DEF Hashed
<1>3. \A sequence, payload, previous : event_digest(sequence, payload, previous) # NoHash
  BY DEF event_digest, NoHash
<1>4. ~RowValid(key, rows, i)
  BY <1>2, <1>3 DEF RowValid
<1> QED
  BY <1>1, <1>2, <1>4 DEF Valid

-----------------------------------------------------------------------------
(* The versions of the policy.                                             *)

(* configure_canary, promote and rollback, in any order, keep a canary     *)
(* apart from the stable version and a version to go back to.              *)
THEOREM ReleasesStaySound ==
  ASSUME NEW files, NoVersion \notin files, NEW release, ReleaseOK(release, files),
         NEW next \in Changes(release, files)
  PROVE  ReleaseOK(next, files)
<1> DEFINE Type == [stable: files, canary: files \cup {NoVersion}, rollout: 0..100,
                    previous: files \cup {NoVersion}]
<1>0. /\ release \in Type
      /\ release.stable # release.canary
      /\ release.stable # release.previous
      /\ release.canary = NoVersion <=> release.rollout = 0
  BY DEF ReleaseOK
<1>1. CASE \E c \in files \X (1..100) :
             CanConfigure(release, files, c[1], c[2]) /\ next = Configured(release, c[1], c[2])
  <2>1. PICK version \in files, percent \in 1..100 :
          version # release.stable /\ next = Configured(release, version, percent)
    BY <1>1 DEF CanConfigure
  <2>2. /\ next \in Type
        /\ next.stable = release.stable
        /\ next.canary = version
        /\ next.rollout = percent
        /\ next.previous = release.previous
    <3>1. next = [release EXCEPT !.canary = version, !.rollout = percent] /\ percent \in 0..100
      BY <2>1 DEF Configured
    <3> QED
      BY <1>0, <3>1
  <2> QED
    BY <1>0, <2>1, <2>2 DEF ReleaseOK
<1>2. ASSUME NEW version \in files, version # release.stable, next = Replaced(release, version)
      PROVE  ReleaseOK(next, files)
  BY <1>0, <1>2 DEF Replaced, ReleaseOK
<1>3. CASE CanPromote(release) /\ next = Promoted(release)
  BY <1>0, <1>2, <1>3 DEF CanPromote, Promoted
<1>4. CASE CanRollBack(release) /\ next = RolledBack(release)
  BY <1>0, <1>2, <1>4 DEF CanRollBack, RolledBack
<1> QED
  BY <1>1, <1>3, <1>4 DEF Changes

(* Going back after a promotion restores the version that was stable, and  *)
(* going back twice the one that was promoted (test_policy_releases.py).   *)
THEOREM RollbackRestores ==
  ASSUME NEW files, NoVersion \notin files, NEW release, ReleaseOK(release, files), CanPromote(release)
  PROVE  LET back == RolledBack(Promoted(release))
         IN  /\ CanRollBack(Promoted(release))
             /\ back.stable = release.stable
             /\ CanRollBack(back)
             /\ RolledBack(back).stable = release.canary
BY DEF ReleaseOK, CanPromote, CanRollBack, Promoted, RolledBack, Replaced

-----------------------------------------------------------------------------
(* The decision on a call.                                                 *)

(* Secrets do not leave, whatever the policy, the role or the target       *)
(* (test_taint.py: even when encoded).                                     *)
THEOREM SecretsStayInside ==
  ASSUME NEW files, NEW release, NEW call, NEW bound, NEW bucket,
         ExternalSink(call), call.labels \cap Secret # {}
  PROVE  check_tool_call(files, release, call, bound, bucket) = "block"
BY DEF check_tool_call, Decision, Flow

(* More labels never make a decision milder, under a policy that does not  *)
(* itself block mail to external domains: the flow of the labels replaces  *)
(* what the policy states, and "require_approval" would replace "block".   *)
THEOREM LabelsNeverLoosen ==
  ASSUME NEW policy, NEW call, NEW more,
         \A tool \in DOMAIN policy.tools : policy.tools[tool].external # "block",
         more.tool = call.tool, more.target = call.target, more.role = call.role, more.tenant = call.tenant,
         more.agent = call.agent, more.recipient_authorized = call.recipient_authorized,
         more.authorized_domains = call.authorized_domains, call.labels \subseteq more.labels
  PROVE  Strictness(Decision(policy, call)) <= Strictness(Decision(policy, more))
<1>1. Barred(policy, more) <=> Barred(policy, call)
  BY DEF Barred
<1>2. Refused(policy.tools[call.tool], more) <=> Refused(policy.tools[call.tool], call)
  BY DEF Refused
<1>3. ExternalSink(more) <=> ExternalSink(call)
  BY DEF ExternalSink
<1>4. Stated(policy.tools[call.tool], more) = Stated(policy.tools[call.tool], call)
  BY DEF Stated
<1>5. CASE Barred(policy, call) \/ Refused(policy.tools[call.tool], call) \/ ~ExternalSink(call)
  <2>1. Decision(policy, more) = Decision(policy, call)
    BY <1>1, <1>2, <1>3, <1>4, <1>5 DEF Decision, Flow
  <2> QED
    BY <2>1 DEF Strictness
<1>6. CASE ~Barred(policy, call) /\ ~Refused(policy.tools[call.tool], call) /\ ExternalSink(call)
  <2> DEFINE said == Stated(policy.tools[call.tool], call)
  <2>1. said # "block"
    BY <1>6 DEF Barred, Stated, ExternalSink
  <2>2. Decision(policy, call) = Flow(call, said) /\ Decision(policy, more) = Flow(more, said)
    BY <1>1, <1>2, <1>4, <1>6 DEF Decision
  <2>3. Strictness(Flow(call, said)) <= Strictness(Flow(more, said))
    BY <1>3, <1>6, <2>1 DEF Flow, Strictness
  <2> QED
    BY <2>2, <2>3
<1> QED
  BY <1>5, <1>6

(* What a tool returned does not leave unseen: a call that sends what a    *)
(* file outside the public ones or the database gave needs an approval, or *)
(* is blocked.                                                             *)
THEOREM ReadsAreFollowed ==
  ASSUME NEW policy, NEW read, NEW call,
         read.tool = "db_query" \/ (read.tool = "file_read" /\ ~Under(read.target.place, Public)),
         infer_result_labels(read) \subseteq call.labels, ExternalSink(call)
  PROVE  Decision(policy, call) \in {"require_approval", "block"}
<1>1. call.labels \cap (Secret \cup Sensitive) # {}
  <2>1. infer_result_labels(read) \cap (Secret \cup Sensitive) # {}
    BY DEF infer_result_labels, Secret, Sensitive
  <2> QED
    BY <2>1
<1> QED
  BY <1>1 DEF Decision, Flow

(* The first n rows of a migrated chain: each is linked to the one before  *)
(* it.  There is such a chain for every number of events: the least number *)
(* without one would be one more than a number with one.                   *)
Linked(key, rows, n, g) ==
  g = [i \in 1..n |-> Row(key, i, rows[i].payload, IF i = 1 THEN Genesis ELSE g[i - 1].hash)]

LEMMA LinkedRowsExist ==
  ASSUME NEW key, NEW rows, NEW n \in Nat
  PROVE  \E g : Linked(key, rows, n, g)
<1> DEFINE Link(i, g) == Row(key, i, rows[i].payload, IF i = 1 THEN Genesis ELSE g[i - 1].hash)
           Broken == {m \in Nat : ~ \E g : Linked(key, rows, m, g)}
<1>1. SUFFICES ASSUME Broken # {}
               PROVE  FALSE
  BY DEF Linked
<1>2. PICK m \in Broken : \A k \in Broken : ~(k < m)
  BY <1>1, LeastNumber
<1>3. m # 0
  <2> DEFINE empty == [i \in 1..0 |-> 0]
  <2>1. empty = [i \in 1..0 |-> Link(i, empty)]
    <3> HIDE DEF Link
    <3> QED
      OBVIOUS
  <2>2. 0 \notin Broken
    BY <2>1 DEF Linked
  <2> QED
    BY <1>2, <2>2
<1>4. m - 1 \in Nat \ Broken
  BY <1>2, <1>3
<1>5. PICK g : g = [i \in 1..(m - 1) |-> Link(i, g)]
  BY <1>4 DEF Linked
<1> DEFINE longer == [i \in 1..m |-> Link(i, g)]
<1>6. ASSUME NEW i \in 1..m
      PROVE  Link(i, g) = Link(i, longer)
  <2>1. CASE i = 1
    BY <2>1
  <2>2. CASE i # 1
    <3>1. i - 1 \in 1..(m - 1) /\ i - 1 \in 1..m
      BY <1>2, <2>2
    <3> HIDE DEF Link
    <3>2. g[i - 1] = Link(i - 1, g)
      BY <1>5, <3>1
    <3>3. longer[i - 1] = Link(i - 1, g)
      BY <3>1
    <3>4. g[i - 1] = longer[i - 1]
      BY <3>2, <3>3
    <3> HIDE DEF longer
    <3> QED
      BY <3>4 DEF Link
  <2> QED
    BY <2>1, <2>2
<1>7. longer = [i \in 1..m |-> Link(i, longer)]
  <2> HIDE DEF Link
  <2> QED
    BY <1>6
<1> QED
  BY <1>2, <1>7 DEF Linked

(* The chain the migration makes.                                          *)
LEMMA BackfilledRows ==
  ASSUME NEW key, NEW R, NEW rows \in Seq(R)
  PROVE  LET all == Backfilled(key, rows)
         IN  /\ DOMAIN all = 1..Len(rows)
             /\ \A i \in 1..Len(rows) : all[i] = Row(key, i, rows[i].payload, Before(all, i))
<1> DEFINE row == CHOOSE g : Linked(key, rows, Len(rows), g)
           all == Backfilled(key, rows)
<1>1. Len(rows) \in Nat /\ DOMAIN rows = 1..Len(rows)
  OBVIOUS
<1>2. \E g : Linked(key, rows, Len(rows), g)
  BY <1>1, LinkedRowsExist
<1>3. Linked(key, rows, Len(rows), row)
  BY <1>2
<1>4. all = [i \in DOMAIN rows |-> row[i]]
  BY DEF Backfilled, Linked
<1> HIDE DEF row, all
<1>5. DOMAIN all = 1..Len(rows)
  BY <1>1, <1>4
<1>6. ASSUME NEW i \in 1..Len(rows)
      PROVE  all[i] = Row(key, i, rows[i].payload, Before(all, i))
  <2>1. all[i] = Row(key, i, rows[i].payload, IF i = 1 THEN Genesis ELSE row[i - 1].hash)
    BY <1>1, <1>3, <1>4 DEF Linked
  <2>2. i # 1 => row[i - 1] = all[i - 1]
    BY <1>1, <1>4
  <2> QED
    BY <2>1, <2>2 DEF Before
<1> QED
  BY <1>5, <1>6 DEF all

(* migrate_legacy_chains turns a trace none of whose rows is hashed, of    *)
(* any length, into one that verify_rows accepts, event for event in the   *)
(* order they were written (integrity.py:174), so that log_event goes on.  *)
THEOREM MigratedVerifies ==
  ASSUME NEW key, NEW head, NEW R, NEW rows \in Seq(R), Hashed(rows) = {}
  PROVE  LET after == Migrated(key, head, rows)
         IN  /\ Valid(key, after.head, after.rows)
             /\ Len(after.rows) = Len(rows)
             /\ \A i \in DOMAIN rows : after.rows[i].payload = rows[i].payload
<1> DEFINE all   == Backfilled(key, rows)
           after == Migrated(key, head, rows)
<1>1. DOMAIN all = 1..Len(rows) /\ DOMAIN rows = 1..Len(rows) /\ Len(rows) \in Nat
  BY BackfilledRows
<1>2. \A i \in 1..Len(rows) : all[i] = Row(key, i, rows[i].payload, Before(all, i))
  BY BackfilledRows
<1> HIDE DEF all
<1>3. Len(all) = Len(rows)
  BY <1>1
<1>4. after = [head |-> Anchor(key, Len(rows), HashOf(all)), rows |-> all]
  BY DEF Migrated, all
<1>5. ASSUME NEW i \in DOMAIN all
      PROVE  RowValid(key, all, i) /\ all[i].payload = rows[i].payload
  <2>1. all[i] = Row(key, i, rows[i].payload, Before(all, i))
    BY <1>1, <1>2
  <2> QED
    BY <2>1 DEF Row, RowValid
<1>6. Valid(key, after.head, all)
  BY <1>3, <1>4, <1>5 DEF Valid, Anchor
<1> QED
  BY <1>1, <1>3, <1>4, <1>5, <1>6
=============================================================================
