SPECIFICATION Spec
CONSTANTS
  t1 = t1
  k1 = k1
  Tasks = {t1}
  Workers = {w1, w2}
  Keys = {k1}
  None = None
  KeyOf <- NoKey
  Rank <- OnePrio
  MaxAttempts = 2
  Capacity = 2
  MaxRecords = 2
  Reconcilers = {r}
  FaultKinds = {"crash", "stall", "heartbeat", "redis", "claim"}
  MaxFaults = 2
  MaxWakes = 2
CHECK_DEADLOCK FALSE
INVARIANTS TypeOK Placement AttemptsBounded SuccessIsAudited TrailInOrder
PROPERTIES KeepsContract OnlyClaimsLoseWakes
SYMMETRY WorkerSymmetry
