SPECIFICATION FairSpec
CONSTANTS
  p1 = p1
  b1 = b1
  Provider = {p1, b1}
  Backup = {b1}
  N = 2
  Connections = 1
  Owner <- PoolOwner
  Has <- PoolHas
  c1 = c1
  c2 = c2
  Checker = {c1, c2}
  Main = main
  Articles = 2
  Samples = 1
  MaxRuns = 2
  Complete = 2
  Everywhere = 2
  Allow = {"refuse", "stall", "fail", "reconfigure"}
INVARIANT TypeOK
 
CHECK_DEADLOCK FALSE
