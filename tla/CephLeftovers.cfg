CONSTANTS
  Images = {i1, i2}
  ClaimOf <- MCClaimOf
  Excluded = {}
  MaxFaults = 2
  MaxRestores = 1
  None = None
SPECIFICATION FairSpec
PROPERTIES
  LeftoversGo
