CONSTANTS
  PacketSize = 3
  SyncOffset = 1
  ResyncSyncBytes = 2
  MaxResyncScanBytes = 4
  ResyncBufferSize = 11
  Inputs = {0, 4, 8, 11, 13}
  RangeEnds = {0, 7, 11}
  Packets <- MCTsPackets
  FirstPackets <- MCFirstPackets
  PhysicalSizes = {188, 192, 204}
  PesPackets <- MCPesPackets
  FirstPesPackets <- MCFirstPes
  Sections <- MCSections
  NextSections <- MCNextSections
  Rooms = {0, 1, 7, 8, 11, 12, 16, 20, 27, 60}
  UnitPacketSize = 2
  UnitFiles <- MCUnitFiles
  UnitRanges <- MCUnitRanges
  NullPid = 9
SPECIFICATION MCSpec
INVARIANTS
  BufferInStep
  ScanAsDefined
  PacketsAgree
  HeadersAgree
  TablesAgree
  UnitsAgree
PROPERTIES
  ScanEnds
CHECK_DEADLOCK FALSE
