SPECIFICATION FairSpec
CONSTANTS
  r1 = r1
  r2 = r2
  r3 = r3
  Run = {r1, r2, r3}
  Overstay = {"sync", "cleanup"}
INVARIANTS
  TypeOK
  NoDuplicateExecution
  RegistryHonest
PROPERTIES
  KeepsPromise
  FlagReleased
