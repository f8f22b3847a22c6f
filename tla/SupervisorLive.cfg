SPECIFICATION FairSupervisorSpec
CONSTANTS
  s1 = s1
  s2 = s2
  NoSession = NoSession
  Session = {s1}
  Limit = 1
  MaxAttempts = 3
  ReconnectConfig <- AllSettings
  Reloads = FALSE
PROPERTIES SupervisorEnds RequestsAreTaken TasksEndWithLink FairLinkSpec
CHECK_DEADLOCK FALSE
