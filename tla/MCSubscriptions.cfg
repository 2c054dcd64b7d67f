SPECIFICATION SubscriptionsSpec
CONSTANTS
  None = None
  NoCache = NoCache
  r1 = r1
  r2 = r2
  t1 = t1
  Request = {r1, r2}
  Trial = {t1}
  Toggled = {"QR_GOODS", "THEFT_DETECTION"}
  Offered = {"STARTER", "ENTERPRISE"}
  MaxCalls = 3
  MaxFailures = 1
INVARIANTS
  SubscriptionsTypeOK
  CacheWrongOnlyIfMissed
  ServedIsBilled
PROPERTY DowngradeIsDeserved
SYMMETRY RequestSymmetry
CHECK_DEADLOCK FALSE
