SPECIFICATION Spec
CONSTANTS
  Download = {d1}
  d1 = d1
  Worker = {w1, w2}
  w1 = w1
  w2 = w2
  Handler = {h1}
  h1 = h1
  MaxJobs = 2
  MaxCrashes = 1
  Allow = {"retry", "stop", "sabResume", "recover", "recoverByHand", "overdue", "bootTraffic", "refresh",
           "noCapacity", "noProvider", "slowLink"}
INVARIANT ActiveIsHeld
SYMMETRY Workers
CHECK_DEADLOCK FALSE
