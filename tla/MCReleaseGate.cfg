SPECIFICATION FairGateSpec
CONSTANTS
  p1 = p1
  x1 = x1
  r1 = r1
  r2 = r2
  Expected = {p1}
  Foreign = {x1}
  Request = {r1, r2}
  MaxFailures = 1
INVARIANTS
  CountIsTrue
  MoneyNeedsFullScan
  ShortageIsPinned
PROPERTIES
  MirrorCatchesUp
  ImplementsLoadPromise
