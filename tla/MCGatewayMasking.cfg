SPECIFICATION Spec
CONSTANTS
  i1 = i1
  i2 = i2
  c1 = c1
  c2 = c2
  c3 = c3
  c4 = c4
  s1 = s1
  s2 = s2
  v1 = v1
  v2 = v2
  v3 = v3
  k1 = k1
  None = None
  Keys = {k1}
  Calls = {c1}
  Intents = {i1}
  Intent <- OneIntent
  Key <- NoKey
  Resumes = {r1}
  Tickets = {q1}
  MaxUses = 1
  Steps = {}
  Step <- NoStep
  MaxCalls <- OnceTwice
  Predecessors <- Chain
  Versions = {v1}
  Verdict <- Approve
CHECK_DEADLOCK FALSE
INVARIANT ExecutedAsDecided
