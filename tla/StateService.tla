---------------------------- MODULE StateService ----------------------------
(***************************************************************************)
(* Logins over the central state service: the client HttpPortalSessionStore *)
(* (portal_session_store.py) and the service state_service.py, as           *)
(* authenticate and issue_session (portal_auth.py) and the OIDC callback    *)
(* (main.py) use them.                                                      *)
(*                                                                         *)
(* A login is a client that has one call under way at a time.  The client  *)
(* repeats nothing: a call that is lost, refused or not answered in time   *)
(* ends the login with an error.  The service may still handle a call that *)
(* its client has given up.  All logins are of one subject in one window.  *)
(***************************************************************************)
EXTENDS Naturals, Sequences

CONSTANTS
  Logins,
  Items,       \* what can be claimed: TOTP counters, recovery codes, OIDC states
  Totp, States,  \* the TOTP counters and the OIDC states among them
  Offers,      \* Offers[l]: the items that login l may present
  Limit,       \* of login attempts
  Tokens,      \* bearer tokens of the service
  Token,       \* Token[l]: the one that the client of login l presents
  Rotations,   \* what the token trust file may say, see TrustAssumption
  MaxRotations, MaxLosses,  \* bounds on the environment
  None         \* no item: no second factor

ASSUME ServiceAssumption ==
  /\ Totp \subseteq Items /\ States \subseteq Items /\ Totp \cap States = {}
  /\ None \notin Items
  /\ Offers \in [Logins -> SUBSET (Items \cup {None})]
  /\ Token \in [Logins -> Tokens]
  /\ Rotations \subseteq SUBSET Tokens
  /\ Limit \in Nat /\ MaxRotations \in Nat /\ MaxLosses \in Nat

VARIABLES
  attempts,    \* table login_attempts, of the one subject
  claimed,     \* tables mfa_counters, recovery_codes (gone) and oidc_transactions (consumed)
  events,      \* table security_events; the position is the event ID
  sessions,    \* table portal_sessions, by login
  trusted,     \* the tokens that are active by the trust file
  login,       \* the state of every login
  late,        \* calls under way whose client has given up
  rotations, losses

tables == <<attempts, claimed, events, sessions>>
network == <<trusted, late, rotations, losses>>
serviceVars == <<tables, login, network>>

Calls == {"attempt", "claim", "clear", "record", "register"}
EventKinds == {"login_throttled", "login_failed", "login_succeeded", "recovery_used"}

ServiceInit ==
  /\ attempts = 0 /\ claimed = {} /\ events = <<>> /\ sessions = {}
  /\ trusted \in Rotations
  /\ login = [l \in Logins |->
       [pc |-> "idle", item |-> None, event |-> None, held |-> FALSE]]
  /\ late = {} /\ rotations = 0 /\ losses = 0

-----------------------------------------------------------------------------
(* The service: a call is one transaction of the store.                     *)

\* Defect: the claims are granted without a look at what is claimed.
GrantedAgain(call) == call.name = "attempt" => attempts < Limit

\* Defect: one attempt too many.
GrantedOnceMore(call) ==
  CASE call.name = "attempt" -> attempts <= Limit
    [] call.name = "claim" -> call.item \notin claimed
    [] OTHER -> TRUE

\* 201, 200 or 204, rather than 409 or 429.
Granted(call) ==
  CASE call.name = "attempt" -> attempts < Limit
    [] call.name = "claim" -> call.item \notin claimed
    [] OTHER -> TRUE

\* Each of the tables is changed by one kind of call.
Execute(call) ==
  /\ attempts' = CASE call.name = "attempt" /\ Granted(call) -> attempts + 1
                   [] call.name = "clear" -> 0
                   [] OTHER -> attempts
  /\ claimed' = claimed \cup (IF call.name = "claim" THEN {call.item} ELSE {})
  /\ events' = IF call.name = "record"
                 THEN Append(events, [kind |-> call.event, login |-> call.login]) ELSE events
  /\ sessions' = sessions \cup (IF call.name = "register" THEN {call.login} ELSE {})

\* _authorize.
Authorized(l) == Token[l] \in trusted

\* The operator replaces the trust file, or a validity begins or ends.
Rotate ==
  /\ rotations < MaxRotations /\ rotations' = rotations + 1
  /\ trusted' \in Rotations \ {trusted}
  /\ UNCHANGED <<tables, login, late, losses>>

-----------------------------------------------------------------------------
(* The client.                                                              *)

Calling(l) == login[l].pc \in Calls
CallOf(l) ==
  [login |-> l, name |-> login[l].pc, item |-> login[l].item, event |-> login[l].event]

Goto(l, pc) == login' = [login EXCEPT ![l].pc = pc]
Record(l, event) == login' = [login EXCEPT ![l].pc = "record", ![l].event = event]

\* A password login begins with its attempt, an OIDC callback with its state.
Arrive(l) ==
  /\ login[l].pc = "idle"
  /\ \E item \in Offers[l] :
       login' = [login EXCEPT ![l].pc = IF item \in States THEN "claim" ELSE "attempt",
                              ![l].item = item]
  /\ UNCHANGED <<tables, network>>

Federated(l) == login[l].item \in States
Success(l) == IF login[l].item \in Items \ (Totp \cup States) THEN "recovery_used" ELSE "login_succeeded"

\* The password is verified against the users file; or, after its state was
\* claimed, the identity that the provider answers for.
Verify(l) ==
  /\ login[l].pc = "verify"
  /\ \/ ~ Federated(l) /\ Record(l, "login_failed")
     \/ ~ Federated(l) /\ Goto(l, IF login[l].item = None THEN "clear" ELSE "claim")
     \/ Federated(l) /\ Goto(l, "failed")
     \/ Federated(l) /\ Record(l, Success(l))
  /\ UNCHANGED <<tables, network>>

\* Defect: the session is registered before its event is recorded.
ContinueUnrecorded(l) ==
  CASE login[l].pc = "attempt" -> Goto(l, "verify")
    [] login[l].pc = "claim" ->
         login' = [login EXCEPT ![l].pc = IF Federated(l) THEN "verify" ELSE "clear",
                                ![l].held = TRUE]
    [] login[l].pc = "clear" -> login' = [login EXCEPT ![l].pc = "register", ![l].event = Success(l)]
    [] login[l].pc = "register" -> Goto(l, IF Federated(l) THEN "granted" ELSE "record")
    [] login[l].pc = "record" -> Goto(l, IF login[l].event = Success(l) THEN "granted" ELSE "failed")

\* The call has succeeded.
Continue(l) ==
  CASE login[l].pc = "attempt" -> Goto(l, "verify")
    [] login[l].pc = "claim" ->
         login' = [login EXCEPT ![l].pc = IF Federated(l) THEN "verify" ELSE "clear",
                                ![l].held = TRUE]
    [] login[l].pc = "clear" -> Record(l, Success(l))
    [] login[l].pc = "record" -> Goto(l, IF login[l].event = Success(l) THEN "register" ELSE "failed")
    [] login[l].pc = "register" -> Goto(l, "granted")

\* Too many attempts, or an item that is taken.  No event tells of a TOTP
\* counter or an OIDC state that is presented again.
Deny(l) ==
  CASE login[l].pc = "attempt" -> Record(l, "login_throttled")
    [] login[l].pc = "claim" /\ login[l].item \in Totp \cup States -> Goto(l, "failed")
    [] OTHER -> Record(l, "login_failed")

\* The call is handled and answered.
Answer(l) ==
  /\ Calling(l) /\ Authorized(l)
  /\ Execute(CallOf(l))
  /\ IF Granted(CallOf(l)) THEN Continue(l) ELSE Deny(l)
  /\ UNCHANGED network

\* 401: RuntimeError.
Unauthorized(l) ==
  /\ Calling(l) /\ ~ Authorized(l)
  /\ Goto(l, "error")
  /\ UNCHANGED <<tables, network>>

\* httpx.HTTPError: the request is lost, or its answer is, or the service
\* handles it after the client's timeout.
Lose(l) ==
  /\ Calling(l)
  /\ losses < MaxLosses /\ losses' = losses + 1
  /\ \/ UNCHANGED <<tables, late>>
     \/ Authorized(l) /\ Execute(CallOf(l)) /\ UNCHANGED late
     \/ late' = late \cup {CallOf(l)} /\ UNCHANGED tables
  /\ Goto(l, "error")
  /\ UNCHANGED <<trusted, rotations>>

HandleLate ==
  \E call \in late :
    /\ late' = late \ {call}
    /\ IF Authorized(call.login) THEN Execute(call) ELSE UNCHANGED tables
    /\ UNCHANGED <<login, trusted, rotations, losses>>

Serve(l) == Arrive(l) \/ Verify(l) \/ Answer(l) \/ Unauthorized(l)

ServiceNext == (\E l \in Logins : Serve(l) \/ Lose(l)) \/ HandleLate \/ Rotate

ServiceSpec == ServiceInit /\ [][ServiceNext]_serviceVars

-----------------------------------------------------------------------------
CallType ==
  [login : Logins, name : Calls, item : Items \cup {None}, event : EventKinds \cup {None}]

LoginType ==
  [pc : Calls \cup {"idle", "verify", "granted", "failed", "error"},
   item : Items \cup {None}, event : EventKinds \cup {None}, held : BOOLEAN]

ServiceTypeOK ==
  /\ attempts \in 0..Limit /\ claimed \subseteq Items
  /\ events \in Seq([kind : EventKinds, login : Logins])
  /\ sessions \subseteq Logins
  /\ trusted \in Rotations
  /\ login \in [Logins -> LoginType]
  /\ late \subseteq CallType
  /\ rotations \in 0..MaxRotations /\ losses \in 0..MaxLosses

\* A claim names its item and a record its event.
Complete(call) ==
  /\ call.name = "claim" => call.item \in Items
  /\ call.name = "record" => call.event \in EventKinds

\* The types with what makes them inductive.
ServiceInv ==
  /\ ServiceTypeOK
  /\ \A l \in Logins : Complete(CallOf(l)) /\ (login[l].pc = "idle" => ~ login[l].held)
  /\ \A call \in late : Complete(call)

\* The logins that were told that they have the item.
Holders == [i \in Items |-> {l \in Logins : login[l].item = i /\ login[l].held}]

\* An item is one-use authority also over a network that loses answers and
\* delays requests: it is given to one login at most, and an item whose answer
\* was lost is burned.
Claims == INSTANCE OneUseApproval
  WITH Approvals <- Items, Callers <- Logins, spent <- claimed, holders <- Holders
ImplementsOneUse == Claims!ApprovalSpec

\* "Events cover failed, throttled and successful login" (docs/modules/35): a
\* session, granted or not, follows the claim of its own item and an event of
\* its success; a login that was turned down has left an event of that, unless
\* it is federated or presented a TOTP counter again, which leaves none.
RecordedAs(l, kinds) == \E i \in DOMAIN events : events[i].login = l /\ events[i].kind \in kinds

LoginsAreRecorded ==
  \A l \in Logins :
    /\ login[l].pc = "granted" => l \in sessions
    /\ l \in sessions =>
         /\ login[l].item # None => Holders[login[l].item] = {l}
         /\ RecordedAs(l, {Success(l)})
    /\ login[l].pc = "failed" =>
         \/ login[l].item \in Totp \cup States /\ login[l].item \in claimed
         \/ RecordedAs(l, {"login_throttled", "login_failed"})
=============================================================================
