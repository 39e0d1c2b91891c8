CONSTANTS
  joor = joor
  zah = zah
  frul = frul
  Hosts <- StorageHosts
  NoHost = NoHost
  Retries = 2
  MaxRuns = 3
SPECIFICATION FairSpec
CHECK_DEADLOCK FALSE
INVARIANTS
  TypeOK
  AtMostOneDown
  NooutAccounted
PROPERTIES
  ClearedWhenHealthy
  GateEnds
