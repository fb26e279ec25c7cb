SPECIFICATION FairSpec
CONSTANTS
  Path = {a, b}
  NoPath = NoPath
  Kinds <- DeletionKinds
  MaxJobs = 2
  MaxAttempts = 2
  MaxCrashes = 1
  MaxRetries = 1
  StorageFaults = FALSE
  EarlyDrain = TRUE
PROPERTIES LedgerSpec JobsSettle
