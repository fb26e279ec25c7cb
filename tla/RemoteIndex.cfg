SPECIFICATION FairSpec
CONSTANTS
  Path = {a, b}
  Absolute = 2
  Floor = 1
  Percent = 60
  MaxEvents = 2
  MaxContents = 2
  MaxTroubles = 1
  Races = {}
INVARIANTS TypeOK CursorSound MassWasConfirmed
PROPERTIES OnlyGoneFilesGo Heals
CHECK_DEADLOCK FALSE
