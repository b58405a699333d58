SPECIFICATION Spec
CONSTANTS
  l1 = l1
  l2 = l2
  Logins = {l1, l2}
  Items = {"totp", "code", "state"}
  Totp = {"totp"}
  States = {"state"}
  Offers <- MCOffers
  Limit = 1
  Tokens = {"old", "new"}
  Token <- MCToken
  Rotations <- MCRotations
  MaxRotations = 1
  MaxLosses = 1
  Exporters = {"x1", "x2"}
  BatchSize = 2
  MaxAttempts = 2
  MaxFaults = 1
  None = None
INVARIANTS TypeOK LoginsAreRecorded NothingSkipped
PROPERTIES ImplementsOneUse ImplementsDelivery
CHECK_DEADLOCK FALSE
