CONSTANTS
  PCRWrapTicks = 6
  PCRJumpLimit = 2
  PcrPids = {1, 3}
  Moves <- MCMoves
  Indicators = {FALSE, TRUE}
  MaxPackets = 5
  Pids = {1, 2}
  MaxPendingPES = 3
  Layouts <- MCLayouts
  Faults = {"lost", "untrusted"}
  Headers <- MCHeaders
  MaxLayouts = 3
  StatStreams <- MCStatStreams
  NullPid = 9
  Second = 2
  AccuracyLimit = 0
  DvbLimit = 1
  PlausibleLimit = 2
  TolerancePercent = 1
SPECIFICATION MCSpec
INVARIANT
  WindowsHoldAllBytes
CHECK_DEADLOCK FALSE
