CONSTANTS
  Images = {i1}
  ClaimOf <- MCClaimOf
  Excluded = {}
  MaxFaults = 1
  MaxRestores = 1
  None = None
SPECIFICATION FairSpec
PROPERTY ForgetsOnlyGone
