SPECIFICATION Spec
CONSTANTS
  Stages <- MCStages
  Matching <- MCMatching
  Stored = {"b"}
  DefaultPath = FALSE
  Logs = {"pass", "error", "garbage", "null"}
  Faults = TRUE
  LateCalls = TRUE
CHECK_DEADLOCK FALSE
INVARIANTS StagesIsolated NoRemainders
PROPERTY ImplementsTestRun
