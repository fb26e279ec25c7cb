SPECIFICATION Spec
CONSTANTS
  p = p
  q = q
  n = n
  s = s
  t = t
  Name = {n}
  Source = {s, t}
  Launch = {p, q}
  MaxWritten = 3
  MaxBackups = 2
  MaxFails = 1
  OlderRuns = FALSE
SYMMETRY Alike
INVARIANTS TypeOK NothingLost
PROPERTY VerifiesDeletes
CHECK_DEADLOCK FALSE
