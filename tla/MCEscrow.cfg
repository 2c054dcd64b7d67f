SPECIFICATION EscrowSpec
CONSTANTS
  m1 = m1
  m2 = m2
  Manifest = {m1, m2}
  ops = ops
  Account = {ops}
  ZeroAddress = ZeroAddress
  MaxAmount = 2
  MaxDepth = 2
INVARIANTS
  PaidOnce
  Solvent
PROPERTIES
  ImplementsPromise
