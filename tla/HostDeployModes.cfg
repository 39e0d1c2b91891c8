CONSTANTS
  g0 = g0
  g1 = g1
  g2 = g2
  g3 = g3
  Gens <- FewGens
  InitGen = g0
  Unreachable = {g2}
  Degraded = {}
  Kernel <- MCKernel
  Unread = Unread
  Modes = {"safe", "switch", "boot"}
  Flags = {"never", "auto", "always", "ask"}
  K8sHealthCheck = TRUE
  MaxRuns = 2
  LateCommands = {}
  FastReboot = TRUE
SPECIFICATION Spec
CHECK_DEADLOCK FALSE
INVARIANTS
  DeployedPersisted
  DeployedRuns
