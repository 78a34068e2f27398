SPECIFICATION Spec
CONSTANTS
  t1 = t1
  t2 = t2
  t3 = t3
  k1 = k1
  None = None
  Tasks = {t1, t2, t3}
  Traces = {t1, t2, t3}
  Stages <- AllStages
  IdemKeys = {k1}
  KeyOf <- FirstTwo
  Rank <- LastUrgent
  Workers = {w1, w2}
  QueueRoom = 1
  RecordLimits = {1, 2}
  MaxAttempts <- LastRetried
  Skilled = {t3}
  MaxStops = 1
  MaxFaults = 1
CHECK_DEADLOCK FALSE
INVARIANTS TypeOK JoinCounts HeldOnce EvidenceOfSuccess OneVerdict KeyIndex DrainLosesNothing
PROPERTY KeepsContract
SYMMETRY DispatchSymmetry
