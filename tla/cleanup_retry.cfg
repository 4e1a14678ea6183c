CONSTANTS
  Crds <- MCCrds
  Resources <- MCResources
  KindOf <- MCKindOf
  NoCRD = "none"
  Within <- MCWithin
  Waits <- MCWaits
  VersionCSV = "csv"
  MaxInstalls = 2
  MaxOLMAborts = 2
  ThePackage = "p"
  Versions = {1, 2}
  Supported <- MCSupported
  Modes <- MCModes
  Own = "own"
  Namespaces = {"own", "other"}
  UserGroups <- MCUserGroups
  MaxCommands = 4
  MaxAborts = 2
  AbortAt = {"delete"}
  Package = "op"
  Names = {1, 2, 3, 4, 5}
  Indexes <- MCIndexes
  Default <- NoCatalog
  DefaultChannel = "sdk"
  MaxItems = 4
  Catalogs <- MCCatalogs
  Packages <- MCPackages
  MaxRuns = 3
  MaxRegistryAborts = 2
SPECIFICATION Spec
INVARIANT CleanupComplete
CHECK_DEADLOCK FALSE
