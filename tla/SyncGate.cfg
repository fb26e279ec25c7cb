SPECIFICATION Spec
CONSTANTS
  a = a
  b = b
  x = x
  y = y
  z = z
  w = w
  Path <- MCPath
  Remote <- MCRemote
  Batch <- MCBatch
  From <- MCFrom
  To <- MCTo
  PendingMax = 3
  TickCap = 1
  MaxAsked = 1
  MaxFaults = 1
INVARIANTS OneAtWork
PROPERTIES KeptIsPairedFirst RenamesExamined QueueDrains
CHECK_DEADLOCK FALSE
