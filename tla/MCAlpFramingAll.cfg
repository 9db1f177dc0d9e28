CONSTANTS
  SubStreams = {0, 1, 2}
  NumContexts = 2
  SequenceNumbers = {0, 1}
  Plps = {"plp"}
  Payloads <- MCPayloads
  MaxDatagram = 3
  CrcBytes = 1
  CheckCrc = TRUE
  CrcValid <- Whole
  Senders = {0, 1, 2}
  MaxStarted <- MCMaxStarted
  MaxSegments <- MCMaxSegments
  Lengths <- MCLengths
  Ids = {0, 1, 2, 3}
  Details = {"a", "b"}
  NoDetails = NoDetails
  Absent = Absent
  MaxServices = 2
  Tables <- MCTables
  MaxInbox = 2
  Shapes <- MCShapes
  MinHeader = 2
  MaxFramed = 2
  BlockPlps = {0, 1}
  Types = {"ip", "ts"}
  BlockSizes = {1, 2, 3}
  BlockSpaces = {2, 3}
  MaxParsed = 3
  Sessions = {0, 1, 2}
  Services = {0, 7}
  Objects = {1, 2}
  MaxSegment = 3
  SegmentSizes = {1, 2}
  SegmentSpaces = {2, 3}
  MaxPassed = 4
  MaxSelections = 1
  LctPackets <- MCLctPackets
  ServiceIds = {0, 1, 2}
  NoTables = NoTables
  MaxSignalling = 3
SPECIFICATION StreamSpec
INVARIANT EveryPacketInOrder
CHECK_DEADLOCK FALSE
