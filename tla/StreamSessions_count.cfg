SPECIFICATION FairSpec
CONSTANTS
  Stream = {h1}
  h1 = h1
  Fd = {f1}
  f1 = f1
  Reader = {r1}
  r1 = r1
  Lister = {l1}
  l1 = l1
  Stopper = {s1}
  s1 = s1
  MaxCrashes = 1
  Allow = {"api", "stop", "abandon", "pause", "expire", "crash"}
INVARIANT TypeOK
INVARIANT LiveCounted
INVARIANT LeavesNothing
PROPERTY OverUncounted
CHECK_DEADLOCK FALSE
