SPECIFICATION Spec
CONSTANTS
  Small       <- MCSmall
  MaxName     = 6
  Starts      <- MCStarts
  Layouts     <- MCLayouts
  Inputs      <- MCInputs
  Listings    <- MCListings
  Configs     <- MCConfigs
  Multipliers = {20000}
  Bounds      <- MCBounds
  MaxQueue    = 2
  Lines       <- MCLines
  Begun       <- MCBegun
  Percentage  <- MCPercentage
  Invocations <- MCInvocations
  Edits       <- MCEdits
  Others      <- MCOthers
  MaxHidden   = 2
  MaxTopics   = 3
INVARIANTS
  SnapshotFollows
  LinesSurvive
  ActsOnWhatWasNamed
  ExitTellsWhatHappened
CHECK_DEADLOCK FALSE
