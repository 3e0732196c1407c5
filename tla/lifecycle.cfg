SPECIFICATION FairSpec
CONSTANTS
  Controllers <- Fan
  Specs <- OneSpec
  Edits <- NoEdits
  Policies = {"Background"}
  Unmarshalable <- BadRuntimes
  Unmergeable <- BadConfigs
  Unsupported <- BadConfigs
  NoSpec = NoSpec
  MaxUids = 1
  MaxEdits = 0
  MaxFaults = 0
  MaxCrashes = 1
  MaxResyncs = 0
  MaxStale = 1
PROPERTIES EventuallyDeployed EventuallyCollected
CHECK_DEADLOCK FALSE
