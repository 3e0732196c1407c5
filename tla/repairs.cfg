SPECIFICATION FairSpec
CONSTANTS
  Controllers <- Upgraded
  Specs <- Runtimes
  Edits <- Repairs
  Policies = {}
  Unmarshalable <- BadRuntimes
  Unmergeable <- BadConfigs
  Unsupported <- BadConfigs
  NoSpec = NoSpec
  MaxUids = 1
  MaxEdits = 2
  MaxFaults = 1
  MaxCrashes = 1
  MaxResyncs = 1
  MaxStale = 1
PROPERTIES EventuallyDeployed
CHECK_DEADLOCK FALSE
