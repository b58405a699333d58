SPECIFICATION Spec
CONSTANTS
  c1 = c1
  c2 = c2
  c3 = c3
  a1 = a1
  a2 = a2
  Commands = {c1, c2, c3}
  Approvals = {a1, a2}
  Workloads <- MCWorkloads
  Targets = {"staging"}
  Paths = {"p", "q"}
  Outputs = {"e", "f"}
  Artifacts <- MCArtifacts
  Reports <- MCReports
  Earlier = Earlier
  InitialArtifacts <- MCInitialArtifacts
  InitialReports <- MCInitialReports
  MaxEdits = 1
  MaxFaults = 1
  Invalid = Invalid
  None = None
INVARIANTS TypeOK LaunchedAsSigned ReleaseIsEarned SerialAppendsChain
CHECK_DEADLOCK FALSE
