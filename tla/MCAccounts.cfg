SPECIFICATION AccountsSpec
CONSTANTS
  NoCompany = NoCompany
  None = None
  a = a
  b = b
  p = p
  c1 = c1
  c2 = c2
  s1 = s1
  s2 = s2
  d1 = d1
  d2 = d2
  r1 = r1
  r2 = r2
  User = {a, b, p}
  Company = {c1, c2}
  Home = c1
  Admin = {a, b}
  Stranger = p
  Session = {s1, s2}
  Document = {d1, d2}
  Request = {r1, r2}
  MaxCalls = 4
  MaxFailures = 1
INVARIANTS
  AccountsTypeOK
  StalePowerHasOldVersion
  AdmittedIsMember
PROPERTIES
  LastAdminLostToStaleRead
  CompanyIsTheAdminsChoice
SYMMETRY AccountsSymmetry
CHECK_DEADLOCK FALSE
