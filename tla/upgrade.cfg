SPECIFICATION Spec
CONSTANTS
  Controllers <- Upgraded
  Specs <- Releases
  Edits <- Upgrades
  Policies = {}
  Unmarshalable <- BadRuntimes
  Unmergeable <- BadConfigs
  Unsupported <- BadConfigs
  NoSpec = NoSpec
  MaxUids = 1
  MaxEdits = 2
  MaxFaults = 0
  MaxCrashes = 1
  MaxResyncs = 0
  MaxStale = 2
INVARIANTS SettledIsConverged ConvergenceInvariant
PROPERTIES NeverRollsBack
CHECK_DEADLOCK FALSE
