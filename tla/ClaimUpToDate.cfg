CONSTANTS
  g0 = g0
  g1 = g1
  g2 = g2
  g3 = g3
  Gens <- FewGens
  InitGen = g0
  Unreachable = {g2}
  Degraded = {}
  Kernel <- MCKernel
  Unread = Unread
  Modes = {"safe"}
  Flags = {"never"}
  K8sHealthCheck = FALSE
  MaxRuns = 2
  LateCommands = {}
  FastReboot = FALSE
SPECIFICATION Spec
CHECK_DEADLOCK FALSE
INVARIANT UpToDateBoots
