CONSTANTS
  Images = {i1, i2}
  ClaimOf <- MCClaimOf
  Excluded = {}
  MaxFaults = 2
  MaxRestores = 2
  None = None
SYMMETRY Symmetry
SPECIFICATION Spec
INVARIANTS
  TypeOK
  SuccessCovers
  SuccessIsClean
  StatusTruthful
PROPERTIES
  NoTornBackup
