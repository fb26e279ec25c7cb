SPECIFICATION Spec
CONSTANTS
  MaxLen = 3
  Large = 2
  Tries = 2
  MaxAttempts = 2
  MaxEdits = 2
  MaxLost = 2
  MaxExpired = 1
  MaxCrashes = 1
  Races = {}
PROPERTIES CommitIsTheFile AttemptEnds TornIsRepaired
CHECK_DEADLOCK FALSE
