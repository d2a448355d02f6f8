SPECIFICATION Spec
CONSTANTS
  Download = {d1, d2}
  d1 = d1
  d2 = d2
  Worker = {w1, w2}
  w1 = w1
  w2 = w2
  Handler = {h1}
  h1 = h1
  MaxJobs = 2
  MaxCrashes = 1
  Allow = {"stop", "delete", "backoff"}
INVARIANT TypeOK
 
INVARIANT NoSecondJob
 
SYMMETRY Symmetric
CHECK_DEADLOCK FALSE
