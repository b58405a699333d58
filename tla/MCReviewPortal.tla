--------------------------- MODULE MCReviewPortal ---------------------------
(* Two reviews that two requests register and two requests decide.  The     *)
(* proposal file may hold a ready proposal of each project version, a       *)
(* second ready one of the first version, or one that policy blocks; one    *)
(* of the decisions leaves a proposal out.                                  *)
EXTENDS ReviewPortal, TLC

CONSTANTS h1, h2, h3, g1, g2, v1, v2, a1, a2, p1, p2

MCIds == {"AI-001", "AI-002"}

MCProposals ==
  {[input |-> p1, ids |-> MCIds, ready |-> TRUE],
   [input |-> p1, ids |-> {"AI-001"}, ready |-> TRUE],
   [input |-> p1, ids |-> MCIds, ready |-> FALSE],
   [input |-> p2, ids |-> MCIds, ready |-> TRUE]}

\* The proposals of the instance without edits.
MCReadyProposals == {[input |-> p1, ids |-> MCIds, ready |-> TRUE]}

MCDecisions ==
  {("AI-001" :> "ACCEPT" @@ "AI-002" :> "REJECT"), ("AI-001" :> "ACCEPT")}

\* Decisions that cover the proposal of MCReadyProposals.
MCCovering ==
  {("AI-001" :> "ACCEPT" @@ "AI-002" :> "REJECT"),
   ("AI-001" :> "REJECT" @@ "AI-002" :> "REJECT")}

MCRegistrars == {g1, g2}
MCReviews == {v1, v2}
MCApprovals == {a1, a2}
MCProjects == {p1, p2}

\* For the runs without liveness.
Symmetric ==
  Permutations({h1, h2}) \cup Permutations(MCRegistrars)
    \cup Permutations(MCReviews) \cup Permutations(MCApprovals)
=============================================================================
