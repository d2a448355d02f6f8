SPECIFICATION FairSpec
CONSTANTS
  a1 = a1
  a2 = a2
  a3 = a3
  server = server
  worker = worker
  Adder <- Calls
  Host = {server, worker}
  HostOf <- TwoHosts
  Policies = {"mark_failed", "replace_existing", "download_again_with_suffix"}
  Kinds = {"grab", "url"}
  MaxMoves = 1
  None = None
INVARIANT TypeOK
INVARIANT LockExclusive
INVARIANT OneDownloadPerKey
INVARIANT JobHasDocument
PROPERTY AddsEnd
CHECK_DEADLOCK FALSE
