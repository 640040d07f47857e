CONSTANTS
  CounterModulus = 4
  HeaderSize = 3
  PayloadSize = 7
  Sizes = {3, 10}
  MaxSections = 3
  MaxPackets = 3
  ProgramOrder <- MCProgramOrder
  VersionModulus = 2
  PatTables <- MCPatTables
  PmtTables <- MCPmtTables
  NoPcr = 99
  MaxChanges = 3
  Orderly = TRUE
  MaxStarts = 6
SPECIFICATION MCSpec
INVARIANTS
  SectionsExactly
  NothingLostSilently
  HeardIsApplied
  ReportsWhatWasApplied
PROPERTIES
  ContinuityAsDefined
  NeverRollsBack
  FollowsThePat
CHECK_DEADLOCK FALSE
