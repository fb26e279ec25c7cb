SPECIFICATION Spec
CONSTANTS
  Path = {a, b}
  NoPath = NoPath
  Kinds <- UploadKinds
  MaxJobs = 3
  MaxAttempts = 2
  MaxCrashes = 1
  MaxRetries = 1
  StorageFaults = TRUE
  EarlyDrain = FALSE
SYMMETRY PathSymmetry
INVARIANTS TypeOK OneActivePerKey
PROPERTIES DebtConserved DebtSeenBeforeDone
