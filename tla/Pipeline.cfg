CONSTANTS
  k1 = k1
  k2 = k2
  h3 = h3
  Hosts <- MCHosts
  BuildOnly = {b}
  K3s = {k1, k2}
  CopyJobs = 2
  None = None
SPECIFICATION FairSpec
INVARIANTS
  TypeOK
  ActivatesCopied
  NeverBlocks
  ReportedDeployedIsDeployed
PROPERTIES
  FailureIsFinal
  ImplementsRollout
  Terminates
