SPECIFICATION MCSpec
CONSTANTS
  Capacity = 4
  Items = {"a", "b"}
  None = None
  Simulated = Simulated
  SampleBytes = 4
  FileSizes = {4, 8, 13, 22}
  Requests = {1, 2, 3, 7}
  MaxSamples = 15
  Asked <- MCAsked
  Grid <- MCGrid
  MinGain = 0
  MaxGain = 7
  MinRate = 2
  OutputSize = 3
  PoolSize = 6
  MaxPackets = 9
  MaxDelay = 2
  Reports = {"buffering", "buffered"}
  MaxReports = 1
  MaxCalls = 3
  Identifiers = {"", "a"}
  Hour = 2
  MaxTime = 5
  Services = {1, 2}
  Types = {"video", "audio"}
  Filter = {1}
  MaxArrivals = 3
  MaxRuns = 2
  Documents <- MCDocuments
  MaxDocuments = 2
  Fields = {"locked", "services"}
  Readers = {"r1", "r2"}
  MaxUpdates = 3
  MaxRequests = 3
  Plan <- MCPlan
  Wanted <- MCWanted
INVARIANTS
  NoSlotRace
  PeekStable
  RecordingsSound
  RadioReportedTruly
  PicturesKept
  UserHasTheLastWord
  AnnouncedOncePerHour
  FilesInArrivalOrder
  CaptionsKept
  SnapshotWhole
PROPERTIES
  ImplementsFifo
  GainSettles
CHECK_DEADLOCK FALSE
