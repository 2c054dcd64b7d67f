SPECIFICATION SignerSpec
CONSTANTS
  r1 = r1
  r2 = r2
  r3 = r3
  k1 = k1
  k2 = k2
  Request = {r1, r2, r3}
  Key = {k1, k2}
  None = None
  MaxCodes = 4
  MaxCrashes = 2
SYMMETRY SignerSymmetry
INVARIANTS
  SingleUse
  OneLiveCode
  UnauditedOnlyByCrash
