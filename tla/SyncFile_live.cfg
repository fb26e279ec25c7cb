SPECIFICATION FairSpec
CONSTANTS
  MaxContents = 3
  MaxCrashes = 0
  MaxLost = 1
  Races = {"exhaustion"}
PROPERTIES EditsGetSent Converges
CHECK_DEADLOCK FALSE
