SPECIFICATION Spec
CONSTANTS
  a1 = a1
  a2 = a2
  r1 = r1
  r2 = r2
  r3 = r3
  Runs <- MCRuns
  Approvals <- MCApprovals
  Envelopes <- MCEnvelopes
  Requests <- MCRequests
  Projects <- MCProjects
  Purposes <- MCPurposes
  Artifacts <- MCArtifacts
  Reviewers <- MCReviewers
  Keys <- MCKeys
  TrustedKey = "enrolled"
  Approver = "alice"
  NoEnvelope = NoEnvelope
  NoReviewer = NoReviewer
  NoApproval = NoApproval
  MaxClock = 2
INVARIANTS TypeOK AuthorityIsRecorded ActedAsSigned
PROPERTIES BurnedStaysBurned ImplementsOneUse
CHECK_DEADLOCK FALSE
SYMMETRY Symmetric
