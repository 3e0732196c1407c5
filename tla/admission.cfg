SPECIFICATION AdmissionSpec
CONSTANTS
  Controllers <- JustIngester
  Specs <- TheirSpecs
  Edits <- Nobody
  Policies = {}
  Unmarshalable <- BadRuntimes
  Unmergeable <- Unmerged
  Unsupported <- Refused
  Users <- OwnerAndScaler
  Submissions <- TheirEdits
  NoSpec = NoSpec
  MaxUids = 1
  MaxEdits = 2
  MaxFaults = 0
  MaxCrashes = 0
  MaxResyncs = 0
  MaxStale = 1
INVARIANTS AdmissionInvariant AdmittedIsSafe
PROPERTIES EditsAreWhole
CHECK_DEADLOCK FALSE
