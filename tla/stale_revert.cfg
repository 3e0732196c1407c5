SPECIFICATION Spec
CONSTANTS
  Controllers <- OnlyRuntime
  Specs <- Pair
  Edits <- Reverts
  Policies = {}
  Unmarshalable <- BadRuntimes
  Unmergeable <- BadConfigs
  Unsupported <- BadConfigs
  NoSpec = NoSpec
  MaxUids = 1
  MaxEdits = 2
  MaxFaults = 0
  MaxCrashes = 0
  MaxResyncs = 0
  MaxStale = 2
INVARIANTS RuntimeConfigIsUpdated
CHECK_DEADLOCK FALSE
