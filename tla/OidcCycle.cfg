SPECIFICATION Spec
CONSTANTS
  Slots = {"c1", "c2"}
  KeySets <- MCKeySets
  InitialTrust <- MCInitialTrust
  InitialAudit <- MCInitialAudit
  InitialProvider <- MCInitialProvider
  Ttl = 2
  MaxWait = 1
  MaxAge = 3
  MaxAttempts = 2
  MaxChanges = 1
  MaxFaults = 1
  Gone = Gone
  None = None
INVARIANTS TypeOK OneWithinItsLease HistoryIsTruthful
PROPERTIES ProblemsAreAlerted
