SPECIFICATION Spec
CONSTANTS
  Controllers <- Chain
  Specs <- OneSpec
  Edits <- NoEdits
  Policies = {}
  Unmarshalable <- BadRuntimes
  Unmergeable <- BadConfigs
  Unsupported <- BadConfigs
  NoSpec = NoSpec
  MaxUids = 1
  MaxEdits = 0
  MaxFaults = 1
  MaxCrashes = 0
  MaxResyncs = 0
  MaxStale = 2
INVARIANTS TypeOK GateRespected RefBacked SettledIsConverged ConvergenceInvariant
PROPERTIES RefsNeverLost ImplementsRollout
CHECK_DEADLOCK FALSE
