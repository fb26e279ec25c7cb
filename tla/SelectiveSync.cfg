SPECIFICATION FairSpec
CONSTANTS
  a = a
  b = b
  d = d
  e = e
  File = {a, b}
  Folder = {d, e}
  Above <- AboveTree
  Namesake <- OneName
  Lists <- SomeLists
  NoLists = NoLists
  MaxContents = 3
  MaxTrashed = 1
  MaxSaves = 2
  MaxCrashes = 1
  MaxDeferred = 1
  MaxEvents = 3
  Races = {}
INVARIANT BytesSurvive
PROPERTIES OnlyTrashedLeaves KeptNeverReplaces ExcludedGoes KeptArrives
CHECK_DEADLOCK FALSE
