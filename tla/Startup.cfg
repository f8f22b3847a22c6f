SPECIFICATION FairStartupSpec
CONSTANTS
  cli = cli
  svc = svc
  e1 = e1
  e2 = e2
  bad = bad
  Process = {cli, svc}
  Service = svc
  MaxRuns = 2
  MaxForeign = 1
  Backlog = TRUE
  Nothing = Nothing
  Foreign = Foreign
  Small <- SmallIs
  MaxName = 3
  Null = Null
  Fault = Fault
  NotUnicode = NotUnicode
  Links <- LinkedIs
  Exposed <- ExposedIs
  DefaultPath <- Etc
  MaxHost = 3
  MaxToken = 4
  MaxPassword = 2
  PowerLimit = 6
  Site <- Sites
  Missing = Missing
  NoDirectory = NoDirectory
  Unparsable = Unparsable
  Unreadable = Unreadable
  SharedDirectory = SharedDirectory
  Link = Link
  DanglingLink = DanglingLink
  NoUnit = NoUnit
  OddUnit = OddUnit
  Executable = {e1, e2, bad}
  SafeExecutable = {e1, e2}
  Patience = 10
  Situations <- SituationsAre
INVARIANTS PathInv StartupInv BackoffsEnd ServiceTruth
PROPERTIES LosesToEarlier ServiceComesUp
CHECK_DEADLOCK FALSE
