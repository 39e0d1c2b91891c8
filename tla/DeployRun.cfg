CONSTANTS
  k1 = k1
  k2 = k2
  p = p
  b = b
  unknown = unknown
  AllHosts <- MCHosts
  Default = {k1, k2, p}
  K3s = {k1, k2}
  Printers = {p}
  Selections <- MCSelections
  ProbeSlots = 2
SPECIFICATION FairSpec
INVARIANTS
  TypeOK
  SuccessIsTotal
  SummaryAccounts
  QuorumGuard
  PrintSpared
PROPERTIES
  LoopImplementsRollout
  RunEnds
