SPECIFICATION Spec
CONSTANTS
  x1 = x1
  x2 = x2
  x3 = x3
  a1 = a1
  a2 = a2
  a3 = a3
  ann = ann
  bob = bob
  Appliers = {x1, x2, x3}
  Approvals <- MCApprovals
  Kids <- MCKids
  Proposals <- MCProposals
  Purpose <- MCPurpose
  Operators = {ann, bob}
  Reviewer <- MCReviewer
  RemovesOpenFiles = TRUE
  InitialTrust <- MCInitialTrust
  MaxFaults = 0
  None = None
INVARIANTS AuditChainIntact
CHECK_DEADLOCK FALSE
