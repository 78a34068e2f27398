SPECIFICATION Spec
CONSTANTS
  a1 = a1
  a2 = a2
  r1 = r1
  r2 = r2
  None = None
  Agents = {a1, a2}
  Reviewers = {r1, r2}
  Builders = {a1, a2, r1, r2}
  Subjects = {a1, a2}
  Contents <- EditNames
  Repository <- Edits
  SubTasks = {"tool_risk_agent", "gov_rag_agent"}
  PlannerModes = {"model_gateway", "openai_compatible", "auto"}
  Retries = 1
  Verdicts = {"allow"}
  Rulings = {"allow", "block"}
  MaxCalls = 1
  Threshold = 1
  MaxAttempts = 2
  Budget = 2
CHECK_DEADLOCK FALSE
INVARIANTS TypeOK ToolsUnderGuards OneStory ProbeOwned ProtectedApproved CountedTraces
PROPERTIES FanInIsStrict KeepsContract
SYMMETRY FlowSymmetry
