-------------------------- MODULE MCPortalSession --------------------------
(* Ann has a second factor and recovery codes, Bob has none, or is unknown *)
(* until a command adds him; their versions do not tell who is enrolled.    *)
(* Three scenarios, by constraint: two logins next to a command and to an   *)
(* operator's edit within one interval; two logins next to a command over   *)
(* two intervals; two callbacks for two started logins, and two requests.   *)
EXTENDS PortalSession, TLC

CONSTANTS ann, bob, l1, l2, d1, d2, k1, k2, q1, q2, s1, s2, c1, c2, n1

MCUsers == {ann, bob}
MCLogins == {l1, l2}
MCAdmins == {d1}
MCTwoAdmins == {d1, d2}
MCOperators == {d2}
MCCallbacks == {k1, k2}
MCStates == {s1, s2}
MCRequests == {q1, q2}
MCNewCodes == [d \in Admins |-> IF d = d1 THEN {n1} ELSE {}]

MCEnrolled == [u \in Users |-> [mfa |-> u = ann, version |-> IF u = ann THEN 1 ELSE 2, active |-> TRUE]]
MCInitialUsers == {MCEnrolled, [MCEnrolled EXCEPT ![bob] = None]}
MCBothKnown == {MCEnrolled}
MCInitialCodes == [u \in Users |-> IF u = ann THEN Codes \ {n1} ELSE {}]

SessionSymmetry ==
  Permutations(Logins) \cup Permutations(Callbacks) \cup Permutations(States) \cup Permutations(Requests)

NoLogin == \A l \in Logins : login[l].pc = "idle"
NoFederation ==
  /\ \A s \in States : transactions[s].status = "fresh"
  /\ \A q \in Requests : request[q].pc = "idle"
NoEdit == \A d \in Operators : admin[d].pc = "idle"
EditScenario ==
  /\ NoFederation /\ users[bob] # None /\ clock = 0 /\ faults = 0
  /\ \A l \in Logins :
       login[l].pc # "idle" =>
         login[l].password /\ login[l].totp \in {0, None} /\ login[l].code \in {c1, None}
LoginScenario == NoFederation /\ users[bob] # None /\ NoEdit /\ clock + faults <= 1
FederatedScenario ==
  NoLogin /\ faults = 0 /\ NoEdit /\ \A d \in Admins : admin[d].kind \in {None, "add", "enable"}
OneScenario == EditScenario \/ LoginScenario \/ FederatedScenario
=============================================================================
