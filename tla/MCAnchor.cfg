SPECIFICATION FairAnchorSpec
CONSTANTS
  s1 = s1
  Sweep = {s1}
  MaxTs = 4
  InOrder = FALSE
  MaxAttempts = 2
  MaxFaults = 2
INVARIANTS
  ProofsVerify
PROPERTY PunctualPingProved
