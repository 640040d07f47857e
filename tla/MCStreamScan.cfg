CONSTANTS
  Programs = {1, 2}
  ReadSizes = {4, 9}
  Streams <- MCStreams
  RangeEnds = {0, 5}
SPECIFICATION ScanSpec
INVARIANTS
  CompleteAsDefined
PROPERTIES
  Terminates
CHECK_DEADLOCK FALSE
