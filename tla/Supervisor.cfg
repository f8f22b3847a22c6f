SPECIFICATION SupervisorSpec
CONSTANTS
  s1 = s1
  s2 = s2
  NoSession = NoSession
  Session = {s1, s2}
  Limit = 1
  MaxAttempts = 3
  ReconnectConfig <- AllSettings
  Reloads = TRUE
SYMMETRY SessionSymmetry
INVARIANTS CommandsImplyConnected SupervisorInv
PROPERTY LinkSpec
CHECK_DEADLOCK FALSE
