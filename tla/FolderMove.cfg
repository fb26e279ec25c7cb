SPECIFICATION Spec
CONSTANTS
  a = a
  b = b
  one = one
  two = two
  Folder <- MCFolder
  Name <- MCName
  Layouts <- MCLayouts
  Rough = FALSE
  MaxUser = 2
  MaxRefused = 1
  MaxLost = 1
  MaxCrashes = 1
INVARIANTS PlaceholderBytesSurvive QuietMeansSynced
PROPERTY OnlyGivenUpLeaves
CHECK_DEADLOCK FALSE
