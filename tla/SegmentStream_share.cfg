SPECIFICATION Spec
CONSTANTS
  p1 = p1
  b1 = b1
  Provider = {p1, b1}
  Backup = {b1}
  N = 2
  Connections = 1
  Owner <- PoolOwner
  r1 = r1
  r2 = r2
  r3 = r3
  g1 = g1
  Reader = {r1, r2, r3}
  Segment = {g1}
  Chunks = 2
  Tries = 1
  Allow = {"stop", "kept", "whole", "abort", "fail", "shrink", "evict"}
INVARIANT TypeOK
INVARIANT SlotExclusive
INVARIANT NoLostWakeup
INVARIANT NoUnreadReuse
INVARIANT SharesLiveFetch
SYMMETRY Readers
CHECK_DEADLOCK FALSE
