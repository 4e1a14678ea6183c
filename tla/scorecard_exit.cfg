SPECIFICATION Spec
CONSTANTS
  Stages <- MCSmallStages
  Matching <- MCSmallMatching
  Stored = {"b"}
  DefaultPath = FALSE
  Logs = {"pass", "error", "empty"}
  Faults = FALSE
  LateCalls = FALSE
CHECK_DEADLOCK FALSE
INVARIANT ExitStatus
