---------------------------- MODULE PortalSession ----------------------------
(***************************************************************************)
(* Portal identities and sessions: authenticate, issue_session,            *)
(* verify_session, revoke_portal_session and the administration commands   *)
(* of portal_auth.py, the transactional store of portal_session_store.py,  *)
(* and the login by OpenID Connect (oidc_flow.py).                         *)
(*                                                                         *)
(* The store is a database: each of its operations is one transaction and  *)
(* one action here.  The users file is not: every writer reads it whole    *)
(* and later replaces it whole, and nothing locks it.  A login, a request  *)
(* and a command are each an actor of their own, and so is an operator who *)
(* edits the users file by hand to revoke sessions.  The clock counts TOTP *)
(* intervals, and a TOTP code is its counter.                              *)
(***************************************************************************)
EXTENDS Integers, FiniteSets

CONSTANTS
  Users,
  Logins,      \* POST /api/session requests
  Callbacks,   \* GET /api/session/oidc/callback requests
  States,      \* OIDC states, one for each started login
  Requests,    \* requests that carry a session cookie
  Admins,      \* executions of the administration commands and edits by hand
  Operators,   \* which of them are edits by hand
  Codes,       \* recovery codes
  NewCodes,    \* NewCodes[d]: the codes that command d generates
  InitialUsers, InitialCodes,  \* users files and the codes at the start
  Limit, Window,  \* LOGIN_ATTEMPT_LIMIT and LOGIN_ATTEMPT_WINDOW_SECONDS
  Lifetime, TransactionLife,  \* of a session and of an OIDC transaction
  MaxClock, MaxFaults,  \* bounds on the environment
  None

UserType == [mfa : BOOLEAN, version : Nat \ {0}, active : BOOLEAN]
UsersFile == [Users -> UserType \cup {None}]
SessionType == [user : Users, version : Nat, expires : Nat, revoked : BOOLEAN]
WindowType == [started : Nat, count : 1..Limit]

\* add_portal_user creates version 1; every command that touches the second
\* factor, and an operator who revokes sessions, advances it.
FreshUser == [mfa |-> FALSE, version |-> 1, active |-> TRUE]
Advanced(u) == [u EXCEPT !.version = @ + 1]

ASSUME SessionAssumption ==
  /\ InitialUsers \subseteq UsersFile
  /\ InitialCodes \in [Users -> SUBSET Codes]
  /\ NewCodes \in [Admins -> SUBSET Codes]
  /\ \A d \in Admins :
       /\ \A u \in Users : NewCodes[d] \cap InitialCodes[u] = {}
       /\ \A e \in Admins \ {d} : NewCodes[d] \cap NewCodes[e] = {}
  /\ \A u, w \in Users : u # w => InitialCodes[u] \cap InitialCodes[w] = {}
  /\ Limit \in Nat \ {0} /\ Window \in Nat \ {0}
  /\ Lifetime \in Nat /\ TransactionLife \in Nat
  /\ MaxClock \in Nat /\ MaxFaults \in Nat
  /\ None \notin UserType /\ None \notin SessionType /\ None \notin WindowType
  /\ None \notin Codes /\ None \notin Int
  /\ Codes \cap Int = {}
  /\ Logins \cap Callbacks = {} /\ Logins \cap Admins = {}
  /\ Operators \subseteq Admins

VARIABLES
  users,        \* the users file
  counters,     \* table mfa_counters
  recovery,     \* table recovery_codes
  attempts,     \* table login_attempts
  transactions, \* table oidc_transactions
  sessions,     \* table portal_sessions, by the actor that registered the row
  login, callback, request, admin,  \* the actors
  clock, faults,
  \* For the properties: the actors whose copy of the users file is younger than
  \* the last edit of an operator, whether an older copy has been written since,
  \* and the sessions that operators have revoked in an up-to-date copy.
  fresh, undone

tables == <<counters, recovery, attempts, transactions, sessions>>
actors == <<login, callback, request, admin>>
history == <<fresh, undone>>
world == <<clock, faults, history>>
vars == <<users, tables, actors, world>>

Issuers == Logins \cup Callbacks

Init ==
  /\ users \in InitialUsers
  /\ counters = [u \in Users |-> -1]
  /\ recovery = InitialCodes
  /\ attempts = [u \in Users |-> None]
  /\ transactions = [s \in States |-> [status |-> "fresh", expires |-> 0]]
  /\ sessions = [i \in Issuers |-> None]
  /\ login = [l \in Logins |->
       [pc |-> "idle", user |-> None, password |-> FALSE, totp |-> None, code |-> None,
        now |-> 0, seen |-> None, version |-> 0, used |-> None, how |-> None,
        throttle |-> "none", late |-> FALSE]]
  /\ callback = [k \in Callbacks |->
       [pc |-> "idle", state |-> None, user |-> None, version |-> 0]]
  /\ request = [q \in Requests |->
       [pc |-> "idle", session |-> None, late |-> FALSE]]
  /\ admin = [d \in Admins |-> [pc |-> "idle", kind |-> None, user |-> None, seen |-> None]]
  /\ clock = 0
  /\ faults = 0
  /\ fresh = {} /\ undone = FALSE

Usable(file, u) == file[u] # None /\ file[u].active

\* The users file is read whole, and later replaced whole by what was read and
\* changed (_write_users): whatever was written in between is undone.
Reads(x) == fresh' = fresh \cup {x} /\ UNCHANGED undone
Replaces(x, file) == users' = file /\ undone' = (undone \/ x \notin fresh)

-----------------------------------------------------------------------------
(* authenticate and issue_session, for the login with a password.           *)

LoginGoto(l, pc) == login' = [login EXCEPT ![l].pc = pc]

\* The request arrives: its instant is read before anything else.  "late"
\* remembers that the user was enrolled by then.
Arrive(l) ==
  /\ login[l].pc = "idle"
  /\ \E u \in Users, password \in BOOLEAN, totp \in (0..MaxClock) \cup {None},
        code \in Codes \cup {None} :
       login' = [login EXCEPT ![l].pc = "arrived", ![l].user = u, ![l].password = password,
                   ![l].totp = totp, ![l].code = code, ![l].now = clock,
                   ![l].late = \E d \in Admins :
                     admin[d].pc = "done" /\ admin[d].kind = "enable" /\ admin[d].user = u]
  /\ UNCHANGED <<users, tables, callback, request, admin, world>>

\* claim_login_attempt.
WindowOver(l) ==
  LET window == attempts[login[l].user] IN
  window = None \/ login[l].now - window.started >= Window

\* The attempt is counted in the window that is open, or opens one.
Counted(l) ==
  IF WindowOver(l) THEN [started |-> login[l].now, count |-> 1]
                   ELSE [attempts[login[l].user] EXCEPT !.count = @ + 1]

PassThrottle(l) ==
  /\ attempts' = [attempts EXCEPT ![login[l].user] = Counted(l)]
  /\ login' = [login EXCEPT ![l].pc = "claimed", ![l].throttle = "passed"]

\* Defect: one attempt too many.
AttemptOnceMore(l) ==
  /\ login[l].pc = "arrived"
  /\ IF WindowOver(l) \/ attempts[login[l].user].count <= Limit
       THEN PassThrottle(l)
       ELSE LoginGoto(l, "failed") /\ UNCHANGED attempts
  /\ UNCHANGED <<users, counters, recovery, transactions, sessions,
                 callback, request, admin, world>>

Attempt(l) ==
  /\ login[l].pc = "arrived"
  /\ IF WindowOver(l) \/ attempts[login[l].user].count < Limit
       THEN PassThrottle(l)
       ELSE LoginGoto(l, "failed") /\ UNCHANGED attempts
  /\ UNCHANGED <<users, counters, recovery, transactions, sessions,
                 callback, request, admin, world>>

\* The users file is read and the password verified.
Load(l) ==
  LET u == login[l].user IN
  /\ login[l].pc = "claimed"
  /\ IF Usable(users, u) /\ login[l].password
       THEN login' = [login EXCEPT ![l].seen = users, ![l].version = users[u].version,
              ![l].pc = IF users[u].mfa THEN "challenged" ELSE "passed",
              ![l].how = IF users[u].mfa THEN None ELSE "password"]
       ELSE LoginGoto(l, "failed")
  /\ Reads(l)
  /\ UNCHANGED <<users, tables, callback, request, admin, clock, faults>>

\* verify_totp accepts the previous, the current and the next interval.
TotpVerified(l) == login[l].totp # None /\ login[l].totp \in (login[l].now - 1)..(login[l].now + 1)

\* Defect: the counter is compared with >=.
ClaimCounterAgain(l) ==
  LET u == login[l].user IN
  /\ login[l].pc = "challenged" /\ TotpVerified(l)
  /\ IF counters[u] <= login[l].totp
       THEN /\ counters' = [counters EXCEPT ![u] = login[l].totp]
            /\ login' = [login EXCEPT ![l].pc = "passed", ![l].used = login[l].totp,
                           ![l].how = "totp"]
       ELSE LoginGoto(l, "failed") /\ UNCHANGED counters
  /\ UNCHANGED <<users, recovery, attempts, transactions, sessions,
                 callback, request, admin, world>>

\* claim_mfa_counter: the conditional UPSERT.
ClaimCounter(l) ==
  LET u == login[l].user IN
  /\ login[l].pc = "challenged" /\ TotpVerified(l)
  /\ IF counters[u] < login[l].totp
       THEN /\ counters' = [counters EXCEPT ![u] = login[l].totp]
            /\ login' = [login EXCEPT ![l].pc = "passed", ![l].used = login[l].totp,
                           ![l].how = "totp"]
       ELSE LoginGoto(l, "failed") /\ UNCHANGED counters
  /\ UNCHANGED <<users, recovery, attempts, transactions, sessions,
                 callback, request, admin, world>>

\* claim_recovery_code, when the TOTP code does not verify.
ClaimRecovery(l) ==
  LET u == login[l].user IN
  /\ login[l].pc = "challenged" /\ ~ TotpVerified(l)
  /\ IF login[l].code \in recovery[u]
       THEN /\ recovery' = [recovery EXCEPT ![u] = @ \ {login[l].code}]
            /\ login' = [login EXCEPT ![l].pc = "recovered", ![l].used = login[l].code,
                           ![l].how = "recovery"]
       ELSE LoginGoto(l, "failed") /\ UNCHANGED recovery
  /\ UNCHANGED <<users, counters, attempts, transactions, sessions,
                 callback, request, admin, world>>

\* The session version is advanced in the file as it was read by Load.
AdvanceVersion(l) ==
  LET u == login[l].user IN
  /\ login[l].pc = "recovered"
  /\ Replaces(l, [login[l].seen EXCEPT ![u] = Advanced(@)])
  /\ login' = [login EXCEPT ![l].pc = "passed", ![l].version = @ + 1]
  /\ UNCHANGED <<tables, callback, request, admin, clock, faults, fresh>>

\* clear_login_attempts.
ClearAttempts(l) ==
  /\ login[l].pc = "passed"
  /\ attempts' = [attempts EXCEPT ![login[l].user] = None]
  /\ login' = [login EXCEPT ![l].pc = "cleared", ![l].throttle = "reset"]
  /\ UNCHANGED <<users, counters, recovery, transactions, sessions,
                 callback, request, admin, world>>

Registered(user, version) ==
  [user |-> user, version |-> version, expires |-> clock + Lifetime, revoked |-> FALSE]

\* issue_session: the cookie carries the version that the login knows.
Issue(l) ==
  /\ login[l].pc = "cleared"
  /\ sessions' = [sessions EXCEPT ![l] = Registered(login[l].user, login[l].version)]
  /\ LoginGoto(l, "done")
  /\ UNCHANGED <<users, counters, recovery, attempts, transactions,
                 callback, request, admin, world>>

LogIn(l) ==
  \/ Attempt(l) \/ Load(l) \/ ClaimCounter(l) \/ ClaimRecovery(l)
  \/ AdvanceVersion(l) \/ ClearAttempts(l) \/ Issue(l)

-----------------------------------------------------------------------------
(* begin_oidc_login and complete_oidc_login.                                *)

CallbackGoto(k, pc) == callback' = [callback EXCEPT ![k].pc = pc]

Begin(s) ==
  /\ transactions[s].status = "fresh"
  /\ transactions' = [transactions EXCEPT ![s] =
       [status |-> "pending", expires |-> clock + TransactionLife]]
  /\ UNCHANGED <<users, counters, recovery, attempts, sessions, actors, world>>

InTime(s) == transactions[s].status = "pending" /\ clock < transactions[s].expires

\* Defect: the row is read and not deleted.
ClaimStateAgain(k) ==
  /\ callback[k].pc = "idle"
  /\ \E s \in States :
       /\ transactions[s].status # "fresh"
       /\ callback' = [callback EXCEPT ![k].state = s, ![k].pc =
            IF InTime(s) THEN "exchanging" ELSE "failed"]
  /\ UNCHANGED <<users, tables, login, request, admin, world>>

\* claim_oidc_transaction deletes the row, be it in time or not.
ClaimState(k) ==
  /\ callback[k].pc = "idle"
  /\ \E s \in States :
       /\ transactions[s].status # "fresh"
       /\ transactions' = [transactions EXCEPT ![s].status = "claimed"]
       /\ callback' = [callback EXCEPT ![k].state = s, ![k].pc =
            IF InTime(s) THEN "exchanging" ELSE "failed"]
  /\ UNCHANGED <<users, counters, recovery, attempts, sessions, login, request, admin, world>>

\* The provider names a user (or the exchange fails), who must be an active one.
AuthorizeIdentity(k) ==
  /\ callback[k].pc = "exchanging"
  /\ \/ \E u \in Users :
          IF Usable(users, u)
            THEN callback' = [callback EXCEPT ![k].pc = "authorized", ![k].user = u,
                                ![k].version = users[u].version]
            ELSE CallbackGoto(k, "failed")
     \/ CallbackGoto(k, "failed")
  /\ UNCHANGED <<users, tables, login, request, admin, world>>

IssueFederated(k) ==
  /\ callback[k].pc = "authorized"
  /\ sessions' = [sessions EXCEPT ![k] = Registered(callback[k].user, callback[k].version)]
  /\ CallbackGoto(k, "done")
  /\ UNCHANGED <<users, counters, recovery, attempts, transactions, login, request, admin, world>>

CallBack(k) == ClaimState(k) \/ AuthorizeIdentity(k) \/ IssueFederated(k)

-----------------------------------------------------------------------------
(* verify_session and revoke_portal_session.                                *)

LoggedOut(i) == \E q \in Requests : request[q].pc = "loggedOut" /\ request[q].session = i

\* Defect: the revocation is not looked at.
CheckActiveIgnoringLogout(q) ==
  /\ request[q].pc = "idle"
  /\ \E i \in Issuers :
       /\ sessions[i] # None
       /\ request' = [request EXCEPT ![q].session = i, ![q].late = LoggedOut(i),
            ![q].pc = IF clock < sessions[i].expires THEN "active" ELSE "refused"]
  /\ UNCHANGED <<users, tables, login, callback, admin, world>>

\* session_is_active.  "late" remembers a request that came after the logout.
CheckActive(q) ==
  /\ request[q].pc = "idle"
  /\ \E i \in Issuers :
       /\ sessions[i] # None
       /\ request' = [request EXCEPT ![q].session = i, ![q].late = LoggedOut(i),
            ![q].pc = IF ~ sessions[i].revoked /\ clock < sessions[i].expires
                        THEN "active" ELSE "refused"]
  /\ UNCHANGED <<users, tables, login, callback, admin, world>>

\* The cookie's version is that of the users file.
Current(s) == Usable(users, s.user) /\ users[s.user].version = s.version

Admit(q) ==
  /\ request[q].pc = "active"
  /\ request' = [request EXCEPT ![q].pc =
       IF Current(sessions[request[q].session]) THEN "accepted" ELSE "refused"]
  /\ UNCHANGED <<users, tables, login, callback, admin, world>>

\* The accepted request is a logout: revoke_portal_session.
Logout(q) ==
  /\ request[q].pc = "accepted"
  /\ sessions' = [sessions EXCEPT ![request[q].session].revoked = TRUE]
  /\ request' = [request EXCEPT ![q].pc = "loggedOut"]
  /\ UNCHANGED <<users, counters, recovery, attempts, transactions,
                 login, callback, admin, world>>

-----------------------------------------------------------------------------
(* add_portal_user, enable_portal_mfa, generate_portal_recovery_codes, and  *)
(* an operator at an editor: "Setting active to false or incrementing       *)
(* session_version revokes existing sessions" (docs/modules/24).            *)

Commands == {"add", "enable", "generate"}
Edits == {"deactivate", "increment"}

Applicable(kind, u) ==
  CASE kind = "add" -> users[u] = None
    [] kind = "enable" -> users[u] # None /\ ~ users[u].mfa
    [] kind = "generate" -> users[u] # None /\ users[u].mfa
    [] kind \in Edits -> users[u] # None

\* The command reads the users file and checks the user; the operator opens it.
ReadUsers(d) ==
  /\ admin[d].pc = "idle"
  /\ \E kind \in IF d \in Operators THEN Edits ELSE Commands, u \in Users :
       /\ Applicable(kind, u)
       /\ admin' = [admin EXCEPT ![d].kind = kind, ![d].user = u, ![d].seen = users,
                      ![d].pc = IF kind = "generate" THEN "generating" ELSE "writing"]
  /\ Reads(d)
  /\ UNCHANGED <<users, tables, login, callback, request, clock, faults>>

\* replace_recovery_codes.
ReplaceCodes(d) ==
  /\ admin[d].pc = "generating"
  /\ recovery' = [recovery EXCEPT ![admin[d].user] = NewCodes[d]]
  /\ admin' = [admin EXCEPT ![d].pc = "writing"]
  /\ UNCHANGED <<users, counters, attempts, transactions, sessions,
                 login, callback, request, world>>

\* Defect: enrolment does not advance the session version.
WrittenWithoutRevoking(kind, user) ==
  CASE kind = "add" -> FreshUser
    [] kind = "enable" -> [user EXCEPT !.mfa = TRUE]
    [] kind \in {"generate", "increment"} -> Advanced(user)
    [] kind = "deactivate" -> [user EXCEPT !.active = FALSE]

Written(kind, user) ==
  CASE kind = "add" -> FreshUser
    [] kind = "enable" -> Advanced([user EXCEPT !.mfa = TRUE])
    [] kind \in {"generate", "increment"} -> Advanced(user)
    [] kind = "deactivate" -> [user EXCEPT !.active = FALSE]

\* _write_users, or the operator saves the file.
WriteUsers(d) ==
  LET u == admin[d].user IN
  /\ admin[d].pc = "writing"
  /\ Replaces(d, [admin[d].seen EXCEPT ![u] = Written(admin[d].kind, @)])
  /\ admin' = [admin EXCEPT ![d].pc = "done"]
  /\ fresh' = IF d \in Operators THEN {} ELSE fresh
  /\ UNCHANGED <<tables, login, callback, request, clock, faults>>

Administer(d) == ReadUsers(d) \/ ReplaceCodes(d) \/ WriteUsers(d)

-----------------------------------------------------------------------------
\* A login or a command dies, or the store does not answer it (security events
\* are written to the store, too: a login that cannot record one fails).
Fail ==
  /\ faults < MaxFaults
  /\ faults' = faults + 1
  /\ \/ /\ \E l \in Logins :
             login[l].pc \notin {"idle", "done", "failed"} /\ LoginGoto(l, "failed")
        /\ UNCHANGED admin
     \/ /\ \E d \in Admins :
             /\ admin[d].pc \in {"generating", "writing"}
             /\ admin' = [admin EXCEPT ![d].pc = "failed"]
        /\ UNCHANGED login
  /\ UNCHANGED <<users, tables, callback, request, clock, history>>

Tick ==
  /\ clock < MaxClock
  /\ clock' = clock + 1
  /\ UNCHANGED <<users, tables, actors, faults, history>>

Next ==
  \/ \E l \in Logins : Arrive(l) \/ LogIn(l)
  \/ \E s \in States : Begin(s)
  \/ \E k \in Callbacks : CallBack(k)
  \/ \E q \in Requests : CheckActive(q) \/ Admit(q) \/ Logout(q)
  \/ \E d \in Admins : Administer(d)
  \/ Fail \/ Tick

Spec == Init /\ [][Next]_vars

-----------------------------------------------------------------------------
LoginType ==
  [pc : {"idle", "arrived", "claimed", "challenged", "recovered", "passed", "cleared",
         "done", "failed"},
   user : Users \cup {None}, password : BOOLEAN, totp : Nat \cup {None},
   code : Codes \cup {None}, now : Nat, seen : UsersFile \cup {None}, version : Nat,
   used : Nat \cup Codes \cup {None}, how : {"password", "totp", "recovery", None},
   throttle : {"none", "passed", "reset"}, late : BOOLEAN]

CallbackType ==
  [pc : {"idle", "exchanging", "authorized", "done", "failed"},
   state : States \cup {None}, user : Users \cup {None}, version : Nat]

RequestType ==
  [pc : {"idle", "active", "accepted", "refused", "loggedOut"},
   session : Issuers \cup {None}, late : BOOLEAN]

AdminType ==
  [pc : {"idle", "generating", "writing", "done", "failed"},
   kind : Commands \cup Edits \cup {None}, user : Users \cup {None},
   seen : UsersFile \cup {None}]

TransactionType == [status : {"fresh", "pending", "claimed"}, expires : Nat]

TypeOK ==
  /\ users \in UsersFile
  /\ counters \in [Users -> Nat \cup {-1}]
  /\ recovery \in [Users -> SUBSET Codes]
  /\ attempts \in [Users -> WindowType \cup {None}]
  /\ transactions \in [States -> TransactionType]
  /\ sessions \in [Issuers -> SessionType \cup {None}]
  /\ login \in [Logins -> LoginType]
  /\ callback \in [Callbacks -> CallbackType]
  /\ request \in [Requests -> RequestType]
  /\ admin \in [Admins -> AdminType]
  /\ clock \in 0..MaxClock /\ faults \in 0..MaxFaults
  /\ fresh \subseteq Logins \cup Admins /\ undone \in BOOLEAN

\* The session of issuer i passes verify_session but for its expiry.
Valid(i) == sessions[i] # None /\ ~ sessions[i].revoked /\ Current(sessions[i])

\* "Once enrolled, password-only login fails" and enrolment revokes the
\* sessions from before (docs/modules/27): however commands and logins overwrite
\* each other's users file, a session that is valid for an enrolled user rests
\* on a second factor, or on the identity provider.  Operators may revoke what
\* they like, but once an older copy is written over what an operator saved, a
\* version that he has passed returns, and a session with it: the property ends
\* there, and the code gives no more.
EnrolledMeansSecondFactor ==
  ~ undone =>
    \A l \in Logins :
      Valid(l) /\ users[sessions[l].user].mfa => login[l].how \in {"totp", "recovery"}

\* A TOTP counter and a recovery code let one login pass, of one user (modules
\* 27 and 34), whatever the commands replace meanwhile.
FactorUsedOnce ==
  \A l, m \in Logins :
    login[l].used # None /\ login[l].used = login[m].used
      /\ login[l].user = login[m].user => l = m

\* "A fixed authentication budget" (docs/modules/33): until a login succeeds,
\* no more attempts on a user get past the throttle than Limit for each window
\* begun, in total.
AttemptsAreLimited ==
  \A u \in Users :
    LET tried == {l \in Logins : login[l].user = u} IN
    (\A l \in tried : login[l].throttle # "reset") =>
      Cardinality({l \in tried : login[l].throttle = "passed"})
        <= Limit * (1 + clock \div Window)

\* A state admits one callback (docs/modules/38), however many race for it.
StateUsedOnce ==
  \A k, j \in Callbacks :
    {callback[k].pc, callback[j].pc} \subseteq {"exchanging", "authorized", "done"} =>
      (callback[k].state = callback[j].state => k = j)

\* "A copied cookie cannot be used again after logout" (docs/modules/28): a
\* request that comes after the logout is refused, whichever requests are still
\* under way.
LogoutHolds == \A q \in Requests : request[q].late => request[q].pc = "refused"

\* "Once enrolled, password-only login fails" (docs/modules/27): a login that
\* begins after the enrolment does not pass on the password.
EnrolmentHolds == \A l \in Logins : login[l].late => login[l].how # "password"
=============================================================================
