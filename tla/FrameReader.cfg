SPECIFICATION FairReaderSpec
CONSTANTS
  Limit = 2
  MaxBytes = 5
INVARIANTS FrameInv
PROPERTIES EveryFrameArrives
CHECK_DEADLOCK FALSE
