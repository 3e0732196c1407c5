SPECIFICATION Spec
CONSTANTS
  Controllers <- Fan
  Specs <- OneSpec
  Edits <- NoEdits
  Policies = {"Orphan"}
  Unmarshalable <- BadRuntimes
  Unmergeable <- BadConfigs
  Unsupported <- BadConfigs
  NoSpec = NoSpec
  MaxUids = 2
  MaxEdits = 0
  MaxFaults = 0
  MaxCrashes = 0
  MaxResyncs = 0
  MaxStale = 1
INVARIANTS RolloutInvariant
PROPERTIES RefsNeverLost ImplementsRollout
CHECK_DEADLOCK FALSE
