SPECIFICATION Spec
CONSTANTS
  p1 = p1
  b1 = b1
  Provider = {p1, b1}
  Backup = {b1}
  N = 2
  Connections = 1
  Owner <- PoolOwner
  Has <- PoolHas
  c1 = c1
  c2 = c2
  c3 = c3
  c4 = c4
  Checker = {c1, c2, c3, c4}
  Main = main
  Articles = 4
  Samples = 0
  MaxRuns = 1
  Complete = 3
  Everywhere = 4
  Allow = {"shrink"}
INVARIANT SlotExclusive
INVARIANT NoLostWakeup
INVARIANT BackupLast
INVARIANT FailsOnlyIfMissing
SYMMETRY Checkers
CHECK_DEADLOCK FALSE
