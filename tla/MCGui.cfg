CONSTANTS
  PacketSize = 2
  PageSize = 2
  CachedPages = 2
  Files <- MCFiles
  Ranges <- MCRanges
  MaxOpens = 2
  Releases <- MCReleases
  FirstVersion = 1
  MaxLaunches = 2
  Inputs <- MCInputs
  MinLimit = 2
  InitialLimit = 3
  ConfirmAbove = 3
  Requests <- MCRequests
  CliPaths = {1, 2}
  BundledCli = 1
  MaxStarts = 2
  MaxChanges = 2
SPECIFICATION MCSpec
INVARIANTS
  ShowsWhatWasAsked
  SessionConsistent
  CheckDecides
  UpdatesInOrder
PROPERTIES
  KeepsPagesViewed
  EverythingArrives
CHECK_DEADLOCK FALSE
