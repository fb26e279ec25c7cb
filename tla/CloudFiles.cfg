SPECIFICATION SpecCloudFiles
CONSTANTS
  File = {a, b}
  NativeFile = {a}
  Folder = d
  MaxContents = 3
  MaxTrashed = 1
  MaxRequests = 2
  MaxCrashes = 1
  MaxEvents = 2
  Races = {}
INVARIANT FreedBytesSurvive
PROPERTIES OnlyTrashedIsDeleted EverythingShown OpenedArrives ReportedIsQueued
CHECK_DEADLOCK FALSE
