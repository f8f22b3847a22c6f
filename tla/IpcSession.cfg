SPECIFICATION FairSpec
CONSTANTS
  p = p
  Client = {p}
  Patient = {p}
  Frames = {"change", "shutdown", "subscribe", "invalid", "malformed", "blank"}
  MaxFrames = 2
  MaxWrites = 3
  LaneDepth = 1
  WriterDepth = 1
  BroadcastCapacity = 1
INVARIANTS SessionInv NewestIsSent
PROPERTIES RequestsAnswered HangUpEnds
CHECK_DEADLOCK FALSE
