SPECIFICATION FairSpec
CONSTANTS
  s1 = s1
  s2 = s2
  a = a
  b = b
  c = c
  Specs = {s1, s2}
  Objects = {a, b, c}
  Renders <- MCRenders
  Owned = {a}
  Keep = {c}
  MaxVersion = 7
  MaxLag = 0
  MaxFaults = 1
  MaxCrashes = 1
  MaxEdits = 1
  MaxDrifts = 1
CHECK_DEADLOCK FALSE
INVARIANTS TypeOK DeployedImpliesFinalizer RollbackRestores
PROPERTIES DeployedRecordKept FinalizerAfterPurge LastRecordAfterObjects WaitHonoursStatus
PROPERTIES DeletionCompletes Converges
