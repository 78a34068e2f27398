SPECIFICATION Spec
CONSTANTS
  c1 = c1
  c2 = c2
  p1 = p1
  p2 = p2
  d1 = d1
  d2 = d2
  q1 = q1
  None = None
  Calls = {c1, c2}
  Requests = {q1}
  Request <- OneRequest
  Restricted = {q1}
  Sticky = {}
  Cacheable = {q1}
  Wanted <- Unwanted
  Reloads = {r1}
  Providers = {p1, p2}
  Definition <- RemoteFirst
  Attempts <- RetryFirst
  Threshold <- OnceEach
  Digests = {d1, d2}
  Known <- AllKnown
  Suits <- FitsAll
  Private <- Withdrawn
  Routing <- InOrder
  PrivateOnly = {}
  Slots <- SlotEach
  CacheSize <- OneEntry
CHECK_DEADLOCK FALSE
INVARIANTS SlotsConserved SlotsRecover ProbeOwned FailingIsGuarded AnswersAllowed
PROPERTIES RetriesEnd
SYMMETRY CallSymmetry
