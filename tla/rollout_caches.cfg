SPECIFICATION Spec
CONSTANTS
  Controllers <- Caches
  Specs <- OneSpec
  Edits <- NoEdits
  Policies = {}
  Unmarshalable <- BadRuntimes
  Unmergeable <- BadConfigs
  Unsupported <- BadConfigs
  NoSpec = NoSpec
  MaxUids = 1
  MaxEdits = 0
  MaxFaults = 1
  MaxCrashes = 1
  MaxResyncs = 0
  MaxStale = 1
INVARIANTS GateRespected RefBacked SettledIsConverged
CHECK_DEADLOCK FALSE
