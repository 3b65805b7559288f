SPECIFICATION Spec
CONSTANTS
  HeartbeatInterval = 2
  ReferenceInterval = 1
  MaxGapIntervals = 2
  MaxTime = 3
  MaxBooks = 2
  MaxEpoch = 3
  MaxLag = 1
INVARIANT EveryOutageRecorded
CHECK_DEADLOCK FALSE
