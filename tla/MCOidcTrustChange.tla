------------------------- MODULE MCOidcTrustChange -------------------------
(* The documented staged rotation A -> A+B -> B, and A+B -> A, which is as   *)
(* good a successor of A+B.  Ann reviewed all of it.                         *)
EXTENDS OidcTrustChange, TLC

CONSTANTS x1, x2, x3, a1, a2, a3, ann, bob

MCBoot == [kids |-> {"A", "B"}, bootstrap |-> TRUE]
MCKeepA == [kids |-> {"A"}, bootstrap |-> FALSE]
MCKeepB == [kids |-> {"B"}, bootstrap |-> FALSE]

MCProposals == {MCBoot, MCKeepA, MCKeepB}
MCPurpose == (a1 :> MCBoot) @@ (a2 :> MCKeepA) @@ (a3 :> MCKeepB)
MCApprovals == {a1, a2, a3}
MCReviewer == [a \in MCApprovals |-> ann]
MCKids == {"A", "B"}
MCInitialTrust == {None, {"A", "B"}}
=============================================================================
