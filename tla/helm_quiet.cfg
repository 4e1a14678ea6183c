SPECIFICATION FairSpec
CONSTANTS
  s1 = s1
  s2 = s2
  a = a
  b = b
  c = c
  Specs = {s1, s2}
  Objects = {a, b, c}
  Renders <- MCRenders
  Owned = {a}
  Keep = {}
  MaxVersion = 6
  MaxLag = 0
  MaxFaults = 0
  MaxCrashes = 0
  MaxEdits = 2
  MaxDrifts = 1
CHECK_DEADLOCK FALSE
INVARIANT AtMostOneDeployed
PROPERTIES FinalizerAfterObjects ConvergesExactly
