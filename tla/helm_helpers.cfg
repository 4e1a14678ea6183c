CONSTANTS
  Workers = {1, 2}
  Kinds = {"Pod", "Role", "Node"}
  ClusterScoped = {"Node"}
  OwnerKind = "App"
  Releases <- MCReleases
  MaxFaults = 2
  Callers = {w1, w2, w3}
  Namespaces = {"n1", "n2"}
  MaxRestarts = 1
  Types = {"Initialized", "Deployed", "ReleaseFailed"}
  Stati = {"True", "False"}
  MaxTime = 3
  Specs <- Trees
  Overrides <- OverrideSets
SPECIFICATION Spec
INVARIANTS HookCovers SyncedBeforeUse TransitionTimeFaithful
INVARIANTS MergeIsOverride
PROPERTY Served
CHECK_DEADLOCK FALSE
