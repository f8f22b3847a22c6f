SPECIFICATION FairSpec
CONSTANTS
  MaxSessions = 2
  MaxVersion = 2
  MaxPresses = 2
  MaxOutages = 1
  Top = 1
  Capacity = 1
INVARIANTS SessionInv
PROPERTIES NeverGoesBack DeathIsNoticed
CHECK_DEADLOCK FALSE
