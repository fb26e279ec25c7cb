SPECIFICATION Spec
CONSTANTS
  MaxContents = 3
  MaxCrashes = 0
  MaxLost = 1
  Races = {"exhaustion"}
PROPERTY UnsentBytesSurvive
CHECK_DEADLOCK FALSE
