SPECIFICATION WriterSpec
CONSTANTS
  Times = {0, 1, 2}
  MaxFrames = 3
INVARIANT AckedReadable
CHECK_DEADLOCK FALSE
