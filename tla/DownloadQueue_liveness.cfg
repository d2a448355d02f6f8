SPECIFICATION FairSpec
CONSTANTS
  Download = {d1}
  d1 = d1
  Worker = {w1, w2}
  w1 = w1
  w2 = w2
  Handler = {h1}
  h1 = h1
  MaxJobs = 2
  MaxCrashes = 1
  Allow = {"view", "stop", "delete", "backoff"}
INVARIANT OneWorkerPerDownload
PROPERTY SlotsFreed
 
PROPERTY BootCompletes
CHECK_DEADLOCK FALSE
