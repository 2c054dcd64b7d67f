SPECIFICATION FairPoolSpec
CONSTANTS
  r1 = r1
  r2 = r2
  r3 = r3
  Caller = {r1, r2, r3}
  PoolSize = 2
PROPERTY Served
CHECK_DEADLOCK FALSE
