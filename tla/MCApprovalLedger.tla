-------------------------- MODULE MCApprovalLedger --------------------------
(* A small instance: two approvals in four envelopes, one of them signed    *)
(* with a key that is not enrolled, for three runs with actions of their    *)
(* own.                                                                     *)
EXTENDS ApprovalLedger, TLC

CONSTANTS a1, a2, r1, r2, r3

MCRuns == {r1, r2, r3}
MCApprovals == {a1, a2}
MCProjects == {"portal"}
MCPurposes == {"api-execution", "proposal-promotion"}
MCArtifacts == {"x", "y"}
MCReviewers == {"alice", "bob"}
MCKeys == {"enrolled", "other"}

MCEnvelope(a, artifact, purpose, reviewer, key) ==
  [id |-> a, project |-> "portal", purpose |-> purpose, reviewer |-> reviewer,
   artifact |-> artifact, issued |-> 1, expires |-> 2, key |-> key]

MCEnvelopes ==
  {MCEnvelope(a1, "x", "api-execution", "alice", "enrolled"),
   MCEnvelope(a2, "y", "proposal-promotion", "alice", "enrolled"),
   MCEnvelope(a2, "x", "api-execution", "alice", "other"),
   MCEnvelope(a1, "x", "api-execution", "bob", "enrolled")}

MCRequests ==
  {[project |-> "portal", purpose |-> "api-execution", artifact |-> "x",
    reviewer |-> NoReviewer],
   [project |-> "portal", purpose |-> "api-execution", artifact |-> "y",
    reviewer |-> NoReviewer],
   [project |-> "portal", purpose |-> "proposal-promotion", artifact |-> "y",
    reviewer |-> "alice"]}

Symmetric == Permutations(MCRuns)
=============================================================================
