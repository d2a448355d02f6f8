SPECIFICATION FairSpec
CONSTANTS
  r1 = r1
  r2 = r2
  c1 = c1
  c2 = c2
  Release = {r1}
  MaxMoves = 1
  Caller = {c1}
  Allow = {"decide", "search", "choose", "sync", "error", "hardFail", "timeout", "delete", "loseImport", "profile", "deferred", "policy"}
INVARIANT TypeOK
INVARIANT NoLeakedRecovery
PROPERTY CallsEnd
PROPERTY LinkHealed
PROPERTY GrabbedHealed
PROPERTY ImportShown
CHECK_DEADLOCK FALSE
