SPECIFICATION RecorderSpec
CONSTANTS
  HeartbeatInterval = 2
  ReferenceInterval = 1
  MaxGapIntervals = 2
  MaxTime = 4
  MaxBooks = 3
  MaxEpoch = 3
  MaxLag = 1
  Times = {0, 1, 2}
  MaxFrames = 3
INVARIANTS EpochSeparates BoundaryRecorded UncoveredIsUncovered QuietLinkIsAlive CapturedGapReported
INVARIANTS ManifestTellsTruth AckedSurvive
CHECK_DEADLOCK FALSE
