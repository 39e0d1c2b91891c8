CONSTANTS
  g0 = g0
  g1 = g1
  g2 = g2
  g3 = g3
  Gens <- AllGens
  InitGen = g0
  Unreachable = {g2}
  Degraded = {g3}
  Kernel <- MCKernel
  Unread = Unread
  Modes = {"safe"}
  Flags = {"never", "auto", "always"}
  K8sHealthCheck = TRUE
  MaxRuns = 2
  LateCommands = {"arm", "reboot"}
  FastReboot = FALSE
SPECIFICATION FairSpec
CHECK_DEADLOCK FALSE
INVARIANTS
  TypeOK
  BootEntryHealthy
  Protected
  DeployedPersisted
  DeployedRuns
PROPERTIES
  Recovers
  RunEnds
