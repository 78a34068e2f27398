SPECIFICATION FairSpec
CONSTANTS
  t1 = t1
  k1 = k1
  Tasks = {t1}
  Workers = {w1}
  Keys = {k1}
  None = None
  KeyOf <- NoKey
  Rank <- OnePrio
  MaxAttempts = 1
  Capacity = 2
  MaxRecords = 2
  Reconcilers = {r}
  FaultKinds = {"claim"}
  MaxFaults = 1
  MaxWakes = 1
CHECK_DEADLOCK FALSE
PROPERTY QueuedTaskNotLost
