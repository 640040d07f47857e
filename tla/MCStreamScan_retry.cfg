CONSTANTS
  Programs = {1, 2}
  ReadSizes = {3, 9}
  Streams <- MCStreams
  RangeEnds = {0, 5}
SPECIFICATION ScanSpec
INVARIANTS
  RetriesAfterThePacket
CHECK_DEADLOCK FALSE
