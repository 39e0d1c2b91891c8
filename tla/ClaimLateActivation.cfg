CONSTANTS
  g0 = g0
  g1 = g1
  g2 = g2
  g3 = g3
  Gens <- AllGens
  InitGen = g0
  Unreachable = {g2}
  Degraded = {g3}
  Kernel <- MCKernel
  Unread = Unread
  Modes = {"safe"}
  Flags = {"never"}
  K8sHealthCheck = FALSE
  MaxRuns = 1
  LateCommands = {"test"}
  FastReboot = FALSE
SPECIFICATION Spec
CHECK_DEADLOCK FALSE
INVARIANT BootEntryHealthy
