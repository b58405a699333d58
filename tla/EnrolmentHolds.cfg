SPECIFICATION Spec
CONSTANTS
  ann = ann
  bob = bob
  l1 = l1
  l2 = l2
  d1 = d1
  d2 = d2
  k1 = k1
  k2 = k2
  q1 = q1
  q2 = q2
  s1 = s1
  s2 = s2
  c1 = c1
  c2 = c2
  n1 = n1
  None = None
  Users <- MCUsers
  Logins <- MCLogins
  Callbacks = {}
  States = {}
  Requests = {}
  Admins <- MCAdmins
  Operators = {}
  Codes = {c1, n1}
  NewCodes <- MCNewCodes
  InitialUsers <- MCBothKnown
  InitialCodes <- MCInitialCodes
  Limit = 1
  Window = 1
  Lifetime = 1
  TransactionLife = 1
  MaxClock = 0
  MaxFaults = 0
INVARIANT EnrolmentHolds
SYMMETRY SessionSymmetry
CHECK_DEADLOCK FALSE
