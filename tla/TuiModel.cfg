SPECIFICATION Spec
CONSTANTS
  Trimmed <- TrimmedIs
  Normal <- NormalIs
  Daemons <- DaemonsAre
  Foreign <- ForeignIs
  OtherRows <- RowsAre
  Themes = 2
  MaxCount = 2
  LogEntries = 3
  LogRows = 1
  HalfPage = 1
  Wheel = 3
  Complete <- CompleteIs
  Seed <- SeedIs
  Lines <- LinesAre
  MaxOpens = 1
  MaxForeign = 1
  Tours <- ToursAre
INVARIANT ScreenInv
PROPERTIES NothingIsOverwritten TogglesOneScene ReadingHolds
CHECK_DEADLOCK FALSE
