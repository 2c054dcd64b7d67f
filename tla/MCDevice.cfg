SPECIFICATION FairDeviceSpec
CONSTANTS
  d1 = d1
  d2 = d2
  k1 = k1
  j1 = j1
  s1 = s1
  s2 = s2
  r1 = r1
  r2 = r2
  None = None
  Device = {d1, d2}
  Truck = {k1}
  Trip = {j1}
  Secret = {s1, s2}
  Request = {r1, r2}
  TamperLimit = 2
  PerWindow = 2
  MaxCalls = 5
  MaxFailures = 1
INVARIANT DeviceTypeOK
PROPERTIES
  SuspensionHolds
  EndedTripIsSilent
  LimiterRecovers
CHECK_DEADLOCK FALSE
