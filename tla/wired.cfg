SPECIFICATION TurnsSpec
CONSTANTS
  Controllers <- AllControllers
  Specs <- Accounts
  Edits <- Reshapes
  Policies = {}
  Unmarshalable <- BadRuntimes
  Unmergeable <- BadConfigs
  Unsupported <- BadConfigs
  NoSpec = NoSpec
  MaxUids = 1
  MaxEdits = 3
  MaxFaults = 0
  MaxCrashes = 0
  MaxResyncs = 0
  MaxStale = 1
INVARIANTS SettledIsConverged SettledIsWired
CHECK_DEADLOCK FALSE
