SPECIFICATION FairSpec
CONSTANTS
  b1 = b1
  b2 = b2
  None = None
  Buffers <- MCBuffers
  Snaps = 1
  MaxStreams = 2
  Slips <- MCSlips
INVARIANTS
  TypeOK
  FramesMapped
  NotOverwritten
  StoppedMeansOff
  HeldIsMarked
PROPERTIES
  StopReturns
  CaptureEnds
  ReleaseReturns
CHECK_DEADLOCK FALSE
