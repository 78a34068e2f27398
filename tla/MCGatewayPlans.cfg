SPECIFICATION Spec
CONSTANTS
  i1 = i1
  i2 = i2
  c1 = c1
  c2 = c2
  c3 = c3
  c4 = c4
  s1 = s1
  s2 = s2
  v1 = v1
  v2 = v2
  v3 = v3
  k1 = k1
  None = None
  Keys = {k1}
  Calls = {c1, c2, c3, c4}
  Intents = {i1, i2}
  Intent <- Pairs
  Key <- NoKey
  Resumes = {}
  Tickets = {q1, q2}
  MaxUses = 1
  Steps = {s1, s2}
  Step <- OwnStep
  MaxCalls <- OnceTwice
  Predecessors <- Chain
  Versions = {v1}
  Verdict <- Allow
CHECK_DEADLOCK FALSE
INVARIANTS TypeOK TicketRespected PlanRespected
SYMMETRY PairSymmetry
