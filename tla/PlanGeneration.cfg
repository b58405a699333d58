SPECIFICATION Spec
CONSTANTS
  g1 = g1
  g2 = g2
  g3 = g3
  Generators = {g1, g2, g3}
  Bindings = {"full", "other", "partial", "duplicate"}
  Invalid = {"duplicate"}
  Complete = {"full", "other"}
  MaxFaults = 1
  None = None
INVARIANTS TypeOK ReadyIsWhole
PROPERTIES PlanIsImmutable PlanIsSettled
CHECK_DEADLOCK FALSE
