CONSTANTS
  Pids = {1, 2}
  Reserved = {}
  NullPid = 9
  PcrPid = 1
  ReferenceLayouts <- MCReferenceLayouts
  Steps = {60}
  PIDSilenceLimitMs = 50
  UnreferencedGraceMs = 40
  MaxClosingRuns = 1
  MaxLead = 1
  MaxScanned = 5
  MaxScanPcrs = 3
  MaxLayoutChanges = 2
  p1 = p1  p2 = p2  m1 = m1  m2 = m2
  PCRWrapTicks = 480
  PCRJumpLimit = 60
  PcrPids = {p1, p2}
  Moves = {60}
  Indicators = {FALSE, TRUE}
  MaxPackets = 7
  MaxHealthPackets = 5
  Programs = {1}
  PmtPids = {m1, m2}
  PSIRepetitionLimitTicks = 30
  MaxPcrs = 4
  MaxTimeBases = 2
  ProblemKinds = {"incomplete", "crc"}
  MaxIdentities = 3
  MaxProblems = 1
SYMMETRY MCSymmetry
SPECIFICATION MCSpec
INVARIANTS
  ReferencesAsDefined
  TablesAsDefined
  SegmentsAgree
CHECK_DEADLOCK FALSE
