CONSTANTS
  Pids = {1, 2, 3}
  PTSRepetitionLimitTicks = 2
  Layouts <- MCAllLayouts
  Gaps = {1, 3}
  MaxObserved = 5
  StampPeriod = 6
  StampSets <- MCStampSets
  StampPids = {1, 2}
  StampWrap = 16
  GapRatio = 2
  GapMinTicks = 2
  StampStart = 14
  StampSteps <- MCStampSteps
  MaxStamps = 5
SPECIFICATION MCSpec
INVARIANTS
  ResultsAsDefined
  LeadsAsDefined
  AnomaliesAsDefined
PROPERTIES
  NgIsFinal
CHECK_DEADLOCK FALSE
