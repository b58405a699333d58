SPECIFICATION Spec
CONSTANTS
  h1 = h1
  h2 = h2
  h3 = h3
  g1 = g1
  g2 = g2
  v1 = v1
  v2 = v2
  a1 = a1
  a2 = a2
  p1 = p1
  p2 = p2
  Handlers = {h1, h2, h3}
  Registrars <- MCRegistrars
  Reviews <- MCReviews
  Approvals = {}
  Projects <- MCProjects
  Ids <- MCIds
  Proposals <- MCReadyProposals
  Decisions <- MCCovering
  AuthMode = "local-development"
  MaxEdits = 0
  MaxFaults = 0
  None = None
  Torn = Torn
PROPERTIES AuthorizedIsReviewed
CHECK_DEADLOCK FALSE
