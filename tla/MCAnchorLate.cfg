SPECIFICATION FairAnchorSpec
CONSTANTS
  s1 = s1
  Sweep = {s1}
  MaxTs = 3
  InOrder = FALSE
  MaxAttempts = 2
  MaxFaults = 0
INVARIANT BatchStaysProvable
