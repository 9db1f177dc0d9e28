CONSTANTS
  LockAcquireCount = 3
  LockLossCount = 2
  HoldoverFrames = 3
  SearchWindow = 8
  FrameParams <- MCFrameParams
  ChunkSizes = {3, 6}
  BootstrapOffsets <- MCBootstrapOffsets
  PastFloor = 30
  Thresholds = {1, 2}
  Delays = {0, 2}
  MaxElapsed = 2
  MaxResets = 3
  MaxInbox = 2
  None = None
  Receivers <- MCReceivers
  Keys <- MCKeys
  Values <- MCValues
  Ids <- MCIds
  Messages <- MCMessages
  MaxMessages = 2
  MaxCalls = 2
  Frames <- MCFrames
  Fields <- MCFields
  Damage <- MCDamage
  Observers = {"a", "b", "c"}
  MaxObservers = 2
  MaxFrames = 2
SPECIFICATION ControlSpec
INVARIANTS
  ResetsNumbered
  ReceiversInStep
  ObserversKnowTheBroadcast
PROPERTIES
  LockNeedsDetections
  LossThroughHoldover
  NoSignalDrains
  ResetJustified
  ReportedAfterReset
CHECK_DEADLOCK FALSE
