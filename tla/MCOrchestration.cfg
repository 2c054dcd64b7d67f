SPECIFICATION OrchSpec
CONSTANTS
  b1 = b1
  b2 = b2
  t1 = t1
  r1 = r1
  r2 = r2
  Booking = {b1, b2}
  Truck = {t1}
  WithDevice = {t1}
  Request = {r1, r2}
  None = None
  MaxAnchors = 2
  MaxFailures = 1
SYMMETRY OrchSymmetry
INVARIANTS
  LinkIsStored
  DeliveredIsSigned
  OneOrphanPerFailure
  StartIsAtomic
