CONSTANTS
  Limit = 1
  PipeSize = 1
  MaxCancels = 1
  Descendants = TRUE
SPECIFICATION FairSpec
INVARIANTS
  NeverKillsReaped
  ReapedAtTheEnd
  DeliveredWhole
PROPERTIES
  NobodyWaitsForever
  ImplementsRun
CHECK_DEADLOCK FALSE
