SPECIFICATION CustodySpec
CONSTANTS
  m1 = m1
  Manifest = {m1}
  k1 = k1
  k2 = k2
  Key = {k1, k2}
  platform = platform
  Account = {platform}
  ZeroAddress = ZeroAddress
  MaxPieces = 2
  MaxTime = 2
INVARIANTS
  CustodyTypeOK
  CustodyWasAccepted
  ClosedByReceiver
PROPERTIES
  SignedCountIsFinal
  ImplementsCustodyChain
SYMMETRY KeySymmetry
