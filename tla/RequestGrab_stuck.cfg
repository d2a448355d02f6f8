SPECIFICATION FairSpec
CONSTANTS
  r1 = r1
  r2 = r2
  c1 = c1
  c2 = c2
  Release = {r1, r2}
  Caller = {c1}
  MaxMoves = 0
  Allow = {"deferred"}
PROPERTY SearchedAgain
CHECK_DEADLOCK FALSE
