SPECIFICATION FairSpec
CONSTANTS
  version = version
  c1 = c1
  c2 = c2
  Caller = {version, c1, c2}
  Handshake = version
  QueueDepth = 1
  EventDepth = 1
  MaxEvents = 2
INVARIANTS TableInv AnswersAreTrue
PROPERTIES CallsReturn UnusedCloses
CHECK_DEADLOCK FALSE
