-------------------------- MODULE MCSecurityExport --------------------------
(* Two logins that may compete for a TOTP counter and for an OIDC state, one  *)
(* of them with a token that is rotated away, next to two exporters.          *)
EXTENDS SecurityExport, TLC

CONSTANTS l1, l2

MCOffers ==
  (l1 :> {"totp", "state"}) @@ (l2 :> {"totp", "state", "code"})
MCToken == [l \in Logins |-> IF l = l1 THEN "old" ELSE "new"]
MCRotations == {{"old", "new"}, {"new"}}
=============================================================================
