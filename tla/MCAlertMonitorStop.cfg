SPECIFICATION FairSpec
CONSTANTS
  HasDuration = FALSE
  Identifiers = {"a"}
  Hour = 2
  MaxTime = 3
PROPERTY CtrlCStops
CHECK_DEADLOCK FALSE
