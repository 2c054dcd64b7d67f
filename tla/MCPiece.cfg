SPECIFICATION FairPieceSpec
CONSTANTS
  p1 = p1
  p2 = p2
  f1 = f1
  m1 = m1
  m2 = m2
  r1 = r1
  None = None
  Piece = {p1, p2}
  Fabricated = {f1}
  Watched = {p1, f1}
  Home = m1
  Other = m2
  Elsewhere <- ScannedElsewhere
  Request = {r1}
  BatchSize = 1
  MaxScans = 2
  MaxScanned = 1
  MaxCalls = 1
  MaxFailures = 1
INVARIANTS
  PieceTypeOK
  ScanIsKept
PROPERTIES
  EveryScanArrives
  GenuineMeansOneLife
CHECK_DEADLOCK FALSE
