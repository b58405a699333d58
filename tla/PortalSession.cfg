SPECIFICATION Spec
CONSTANTS
  ann = ann
  bob = bob
  l1 = l1
  l2 = l2
  d1 = d1
  d2 = d2
  k1 = k1
  k2 = k2
  q1 = q1
  q2 = q2
  s1 = s1
  s2 = s2
  c1 = c1
  c2 = c2
  n1 = n1
  None = None
  Users <- MCUsers
  Logins <- MCLogins
  Callbacks <- MCCallbacks
  States <- MCStates
  Requests <- MCRequests
  Admins <- MCTwoAdmins
  Operators <- MCOperators
  Codes = {c1, n1}
  NewCodes <- MCNewCodes
  InitialUsers <- MCInitialUsers
  InitialCodes <- MCInitialCodes
  Limit = 1
  Window = 1
  Lifetime = 1
  TransactionLife = 1
  MaxClock = 1
  MaxFaults = 1
CONSTRAINT OneScenario
INVARIANTS TypeOK FactorUsedOnce AttemptsAreLimited EnrolledMeansSecondFactor StateUsedOnce LogoutHolds
SYMMETRY SessionSymmetry
CHECK_DEADLOCK FALSE
