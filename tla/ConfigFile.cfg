SPECIFICATION Spec
CONSTANTS
  l1 = l1
  l2 = l2
  a = a
  b = b
  Lane = {l1, l2}
  Name = {a, b}
  Hidden = {"some"}
  Theme = {"default", "dark"}
  DefaultTheme = "default"
  None = None
  Missing = Missing
  Broken = Broken
  Torn = Torn
  UserContents <- Written
  MaxCommands = 2
  MaxOutside = 2
  MaxCrashes = 1
  MaxSeconds = 1
INVARIANT ConfigInv
PROPERTIES BuildsOnFile BackedUp ThemeAlone
SYMMETRY Lanes
CHECK_DEADLOCK FALSE
