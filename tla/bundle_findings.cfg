CONSTANTS
  Projects <- MCProjects
  Commands <- MCCommands
  InputDirs <- MCInputDirs
  Prompts = {"unset", "on", "off"}
  MaxCommands = 3
  MaxEdits = 1
  MaxFaults = 1
  Versions = {1, 2}
  Generates <- MCGenerates
  Packages <- MCPackages
  Layouts <- MCLayouts
  BaseImages = {TRUE, FALSE}
  MaxPkgCommands = 4
  Bundles <- MCBundles
  Selections = {{}, {"hub"}, {"hub", "multiarch"}}
  OptionalBad = {"multiarch"}
  Entrypoints <- MCEntrypoints
  PipeSize = 2
SPECIFICATION MCSpec
INVARIANT EveryResultCounts
CHECK_DEADLOCK FALSE
