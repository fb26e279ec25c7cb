SPECIFICATION Spec
CONSTANTS
  MaxContents = 3
  MaxCrashes = 1
  MaxLost = 1
  Races = {"receipt", "unlink"}
INVARIANTS TypeOK SettledWasSent
PROPERTIES UnsentBytesSurvive FirstUploadOverwritesOnlyMet
CHECK_DEADLOCK FALSE
