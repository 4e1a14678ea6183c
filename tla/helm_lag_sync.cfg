SPECIFICATION Spec
CONSTANTS
  s1 = s1
  s2 = s2
  a = a
  b = b
  c = c
  Specs = {s1, s2}
  Objects = {a, b, c}
  Renders <- MCRenders
  Owned = {a}
  Keep = {c}
  MaxVersion = 4
  MaxLag = 1
  MaxFaults = 0
  MaxCrashes = 0
  MaxEdits = 1
  MaxDrifts = 0
CHECK_DEADLOCK FALSE
PROPERTY DeployedRecordKept
