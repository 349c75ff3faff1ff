CONSTANTS
  None = None
  d1 = d1
  d2 = d2
  MaxI64 = 3
  TokenBytes = 8
  Cases <- MCCases
SPECIFICATION Spec
INVARIANT
  IdentityVerified
