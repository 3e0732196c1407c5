SPECIFICATION PromptSpec
CONSTANTS
  Controllers <- Mounted
  Specs <- TheSpecs
  Edits <- TheEdits
  Policies = {}
  Unmarshalable <- Nothing
  Unmergeable <- Nothing
  Unsupported <- Nothing
  NoSpec = NoSpec
  MaxUids = 1
  MaxEdits = 2
  MaxFaults = 0
  MaxCrashes = 0
  MaxResyncs = 0
  MaxStale = 1
  MaxRestarts = 1
INVARIANTS PodsRunTheConfig RollsOncePerRelease PodsInvariant
PROPERTIES EventuallyRunning
CHECK_DEADLOCK FALSE
