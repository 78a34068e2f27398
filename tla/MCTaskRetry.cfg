SPECIFICATION Spec
CONSTANTS
  t1 = t1
  k1 = k1
  Tasks = {t1, t2, t3}
  Workers = {}
  Keys = {k1}
  None = None
  KeyOf <- SharedKey
  Rank <- OnePrio
  MaxAttempts = 1
  Capacity = 1
  MaxRecords = 2
  Reconcilers = {r}
  FaultKinds = {"crash", "redis"}
  MaxFaults = 2
  MaxWakes = 1
CHECK_DEADLOCK FALSE
INVARIANT KeyIndex
SYMMETRY SharedSymmetry
