SPECIFICATION Spec
CONSTANTS
  Collections <- MCCollections
  Grants <- MCGrants
  NoneName = ""
  DefaultSA = "default"
  Sources <- MCSources
  Bases <- MCBases
  KindInfo <- MCKindInfo
  TypeFields <- MCTypeFields
  APIs <- MCAPIs
  NoGroup = "none"
  NoType = "none"
  MaxRuns = 2
  MaxDepth = 3
  HookInputs <- MCHookInputs
  URL = "url"
  Nil = "nil"
  Names <- MCNames
  Lower <- MCLower
  ImageRefs <- MCImageRefs
  Deployments <- MCDeployments
  MaxVars = 5
  TestInputs <- MCTestInputs
  KuttlTests = {"k1", "k2"}
INVARIANTS ExamplesExact PermissionsExact OwnedMerged DeploymentServes ImagesListedOnce
INVARIANTS SpecDescriptorsExact
CHECK_DEADLOCK FALSE
