CONSTANTS
  k1 = k1
  k2 = k2
  h3 = h3
  Hosts <- TwoHosts
  BuildOnly = {b}
  K3s = {k1}
  CopyJobs = 1
  None = None
SPECIFICATION Spec
INVARIANT VerdictAfterBuild
