------------------------- MODULE PortalSession_proof -------------------------
(* For any number of logins, callbacks, requests, commands and faults, and   *)
(* for every limit: what the portal's identities and sessions guarantee.     *)
EXTENDS PortalSession, FiniteSetTheorems, TLAPS

\* ------------------------------------------------------- what the actors know

\* What login l knows, of its record, its session's row and the clock.
LoginKnows(e, row, now) ==
  /\ e.pc # "idle" => e.user \in Users
  /\ e.pc \in {"challenged", "recovered"} => e.seen \in UsersFile /\ e.seen[e.user] # None
  /\ e.now <= now
  /\ row # None => e.pc = "done" /\ row.user = e.user /\ row.version = e.version

CallbackKnows(e, row) ==
  /\ e.pc \in {"exchanging", "authorized", "done"} => e.state \in States
  /\ e.pc \in {"authorized", "done"} => e.user \in Users
  /\ row # None => e.pc = "done"

RequestKnows(e, rows) == e.pc # "idle" => e.session \in Issuers /\ rows[e.session] # None

AdminKnows(e) ==
  e.pc \in {"generating", "writing"} =>
    /\ e.user \in Users /\ e.seen \in UsersFile
    /\ e.kind \in Commands \cup Edits
    /\ e.kind # "add" => e.seen[e.user] # None
    /\ e.pc = "generating" => e.kind = "generate"

ActorsKnow ==
  /\ \A l \in Logins : LoginKnows(login[l], sessions[l], clock)
  /\ \A k \in Callbacks : CallbackKnows(callback[k], sessions[k])
  /\ \A q \in Requests : RequestKnows(request[q], sessions)
  /\ \A d \in Admins : AdminKnows(admin[d])

\* Types, and what the actors know.
BaseInv == TypeOK /\ ActorsKnow

\* Nobody has arrived at the start.
LEMMA InitBase == Init => BaseInv
<1> SUFFICES ASSUME Init PROVE BaseInv
  OBVIOUS
<1> USE SessionAssumption DEF Init, Issuers
<1>1. TypeOK
  <2>1. login \in [Logins -> LoginType]
    BY DEF LoginType
  <2>2. callback \in [Callbacks -> CallbackType] /\ request \in [Requests -> RequestType]
    BY DEF CallbackType, RequestType
  <2>3. admin \in [Admins -> AdminType] /\ transactions \in [States -> TransactionType]
    BY DEF AdminType, TransactionType
  <2>4. /\ fresh \subseteq Logins \cup Admins /\ undone \in BOOLEAN
        /\ users \in UsersFile /\ recovery \in [Users -> SUBSET Codes]
    OBVIOUS
  <2>5. /\ clock \in 0..MaxClock /\ faults \in 0..MaxFaults
        /\ counters \in [Users -> Nat \cup {-1}] /\ attempts \in [Users -> WindowType \cup {None}]
        /\ sessions \in [Issuers -> SessionType \cup {None}]
    OBVIOUS
  <2> QED
    BY <2>1, <2>2, <2>3, <2>4, <2>5 DEF TypeOK
<1>2. ActorsKnow
  BY DEF ActorsKnow, LoginKnows, CallbackKnows, RequestKnows, AdminKnows, Issuers
<1> QED
  BY <1>1, <1>2 DEF BaseInv

\* Tables and files with their types, whoever writes them.
FilesTyped ==
  /\ users \in UsersFile
  /\ counters \in [Users -> Nat \cup {-1}] /\ recovery \in [Users -> SUBSET Codes]
  /\ attempts \in [Users -> WindowType \cup {None}]
  /\ fresh \subseteq Logins \cup Admins /\ undone \in BOOLEAN

\* A step of a login: it may register its own session.
LEMMA LoginStep ==
  ASSUME BaseInv, NEW l \in Logins, NEW new \in LoginType,
         login' = [login EXCEPT ![l] = new], LoginKnows(new, sessions'[l], clock),
         FilesTyped', faults' \in 0..MaxFaults,
         \/ sessions' = sessions
         \/ \E row \in SessionType : sessions' = [sessions EXCEPT ![l] = row],
         UNCHANGED <<transactions, callback, request, admin, clock>>
  PROVE  BaseInv'
<1> USE SessionAssumption DEF BaseInv, TypeOK, FilesTyped
<1>1. sessions' \in [Issuers -> SessionType \cup {None}]
  BY DEF Issuers
<1>2. TypeOK'
  BY <1>1
<1>3. \A i \in Issuers : sessions[i] # None => sessions'[i] # None
  BY DEF Issuers
<1>4. \A i \in Issuers \ {l} : sessions'[i] = sessions[i]
  BY DEF Issuers
<1>5. ActorsKnow'
  <2>1. ASSUME NEW m \in Logins PROVE LoginKnows(login'[m], sessions'[m], clock')
    <3>1. CASE m = l
      BY <3>1
    <3>2. CASE m # l
      BY <1>4, <3>2 DEF ActorsKnow, Issuers
    <3> QED
      BY <3>1, <3>2
  <2>2. ASSUME NEW k \in Callbacks PROVE CallbackKnows(callback'[k], sessions'[k])
    BY <1>4 DEF ActorsKnow, Issuers
  <2>3. ASSUME NEW q \in Requests PROVE RequestKnows(request'[q], sessions')
    BY <1>3 DEF ActorsKnow, RequestKnows
  <2> QED
    BY <2>1, <2>2, <2>3 DEF ActorsKnow
<1> QED
  BY <1>2, <1>5

\* A login that fails leaves everything but its phase.
LEMMA LoginFails ==
  ASSUME BaseInv, NEW l \in Logins, LoginGoto(l, "failed"), login[l].pc \notin {"idle", "done"},
         FilesTyped', faults' \in 0..MaxFaults,
         UNCHANGED <<sessions, transactions, callback, request, admin, clock>>
  PROVE  BaseInv'
<1> DEFINE new == [login[l] EXCEPT !.pc = "failed"]
<1>1. login' = [login EXCEPT ![l] = new]
  BY DEF LoginGoto
<1>2. /\ new \in LoginType /\ new.pc = "failed" /\ new.user = login[l].user
      /\ new.now = login[l].now
  BY DEF BaseInv, TypeOK, LoginType
<1>3. LoginKnows(login[l], sessions[l], clock)
  BY DEF BaseInv, ActorsKnow
<1>4. LoginKnows(new, sessions'[l], clock)
  BY <1>2, <1>3 DEF LoginKnows
<1> HIDE DEF new
<1> QED
  BY <1>1, <1>2, <1>4, LoginStep

\* A step of a login that registers nothing and is not its first.
LEMMA LoginAdvances ==
  ASSUME BaseInv, NEW l \in Logins, NEW new \in LoginType,
         login' = [login EXCEPT ![l] = new], login[l].pc \notin {"idle", "done"},
         new.user = login[l].user, new.now = login[l].now,
         new.pc \in {"challenged", "recovered"} =>
           new.seen \in UsersFile /\ new.seen[new.user] # None,
         FilesTyped',
         UNCHANGED <<sessions, transactions, callback, request, admin, clock, faults>>
  PROVE  BaseInv'
<1>1. LoginKnows(login[l], sessions[l], clock)
  BY DEF BaseInv, ActorsKnow
<1>2. LoginKnows(new, sessions'[l], clock)
  BY <1>1 DEF LoginKnows
<1>3. /\ faults' \in 0..MaxFaults
      /\ UNCHANGED <<sessions, transactions, callback, request, admin, clock>>
  BY DEF BaseInv, TypeOK
<1> QED
  BY <1>2, <1>3, LoginStep

\* The request of a login arrives: its user and its instant are new.
LEMMA Arrives ==
  ASSUME BaseInv, NEW l \in Logins, Arrive(l)
  PROVE  \E new \in LoginType :
           /\ login' = [login EXCEPT ![l] = new]
           /\ new.pc = "arrived" /\ new.user \in Users /\ new.now = clock
           /\ new.used = login[l].used /\ new.throttle = login[l].throttle
<1>1. PICK u \in Users, password \in BOOLEAN, totp \in (0..MaxClock) \cup {None},
           code \in Codes \cup {None}, late \in BOOLEAN :
        login' = [login EXCEPT ![l].pc = "arrived", ![l].user = u, ![l].password = password,
                    ![l].totp = totp, ![l].code = code, ![l].now = clock, ![l].late = late]
  <2> DEFINE late(u) == \E d \in Admins :
               admin[d].pc = "done" /\ admin[d].kind = "enable" /\ admin[d].user = u
  <2>1. PICK u \in Users, password \in BOOLEAN, totp \in (0..MaxClock) \cup {None},
             code \in Codes \cup {None} :
          login' = [login EXCEPT ![l].pc = "arrived", ![l].user = u, ![l].password = password,
                    ![l].totp = totp, ![l].code = code, ![l].now = clock, ![l].late = late(u)]
    BY DEF Arrive
  <2>2. late(u) \in BOOLEAN
    OBVIOUS
  <2> HIDE DEF late
  <2> QED
    BY <2>1, <2>2
<1> DEFINE first == [login[l] EXCEPT !.pc = "arrived", !.user = u, !.password = password]
           second == [first EXCEPT !.totp = totp, !.code = code]
           third == [second EXCEPT !.now = clock]
           new == [third EXCEPT !.late = late]
           Kept(e) == e.used = login[l].used /\ e.throttle = login[l].throttle
<1>2. login' = [login EXCEPT ![l] = new]
  BY <1>1 DEF BaseInv, TypeOK
<1>3. totp \in Nat \cup {None} /\ clock \in Nat /\ login[l] \in LoginType
  BY SessionAssumption DEF BaseInv, TypeOK
<1>4. first \in LoginType /\ first.pc = "arrived" /\ first.user = u /\ Kept(first)
  BY <1>3 DEF LoginType
<1> HIDE DEF first
<1>5. second \in LoginType /\ second.pc = "arrived" /\ second.user = u /\ Kept(second)
  BY <1>3, <1>4 DEF LoginType
<1> HIDE DEF second
<1>6. third \in LoginType /\ third.pc = "arrived" /\ third.user = u /\ third.now = clock /\ Kept(third)
  BY <1>3, <1>5 DEF LoginType
<1> HIDE DEF third
<1>7. new \in LoginType /\ new.pc = "arrived" /\ new.user = u /\ new.now = clock /\ Kept(new)
  BY <1>6 DEF LoginType
<1> HIDE DEF new
<1> QED
  BY <1>2, <1>7

\* A login arrives.
LEMMA ArriveBase ==
  ASSUME BaseInv, NEW l \in Logins, Arrive(l)
  PROVE  BaseInv'
<1>1. PICK new \in LoginType :
        /\ login' = [login EXCEPT ![l] = new]
        /\ new.pc = "arrived" /\ new.user \in Users /\ new.now = clock
  BY Arrives
<1>2. LoginKnows(login[l], sessions[l], clock) /\ login[l].pc = "idle"
  BY DEF BaseInv, ActorsKnow, Arrive
<1>3. /\ UNCHANGED <<users, counters, recovery, attempts, sessions, transactions,
                     callback, request, admin, clock, faults, history>>
  BY DEF Arrive, tables, world
<1>4. LoginKnows(new, sessions'[l], clock)
  BY SessionAssumption, <1>1, <1>2, <1>3 DEF LoginKnows, BaseInv, TypeOK
<1>5. FilesTyped' /\ faults' \in 0..MaxFaults
  BY <1>3 DEF FilesTyped, history, world, BaseInv, TypeOK
<1> QED
  BY <1>1, <1>3, <1>4, <1>5, LoginStep

\* The throttle.
LEMMA AttemptBase ==
  ASSUME BaseInv, NEW l \in Logins, Attempt(l)
  PROVE  BaseInv'
<1> DEFINE u == login[l].user
<1> USE SessionAssumption
<1>1. u \in Users /\ login[l].pc = "arrived" /\ login[l] \in LoginType
  BY DEF BaseInv, TypeOK, ActorsKnow, LoginKnows, Attempt
<1>2. UNCHANGED <<users, counters, recovery, transactions, sessions, callback, request, admin, world>>
  BY DEF Attempt
<1>3. CASE PassThrottle(l) /\ (WindowOver(l) \/ attempts[u].count < Limit)
  <2>1. Counted(l) \in WindowType
    <3>1. CASE WindowOver(l)
      BY <1>1, <3>1 DEF Counted, WindowType, LoginType
    <3>2. CASE ~ WindowOver(l)
      <4>1. attempts[u] \in WindowType /\ attempts[u].count < Limit
        BY <1>1, <1>3, <3>2 DEF WindowOver, BaseInv, TypeOK
      <4> QED
        BY <3>2, <4>1 DEF Counted, WindowType
    <3> QED
      BY <3>1, <3>2
  <2>2. attempts' \in [Users -> WindowType \cup {None}]
    BY <1>1, <1>3, <2>1 DEF PassThrottle, BaseInv, TypeOK
  <2>3. FilesTyped'
    BY <1>2, <2>2 DEF BaseInv, TypeOK, FilesTyped, world, history
  <2> DEFINE new == [login[l] EXCEPT !.pc = "claimed", !.throttle = "passed"]
  <2>4. login' = [login EXCEPT ![l] = new]
    BY <1>3 DEF PassThrottle, BaseInv, TypeOK
  <2>5. new \in LoginType /\ new.pc = "claimed" /\ new.user = u /\ new.now = login[l].now
    BY <1>1 DEF LoginType
  <2> HIDE DEF new
  <2> QED
    BY <1>1, <1>2, <2>3, <2>4, <2>5, LoginAdvances DEF world
<1>4. CASE LoginGoto(l, "failed") /\ UNCHANGED attempts
  <2>1. FilesTyped' /\ faults' \in 0..MaxFaults /\ UNCHANGED clock
    BY <1>2, <1>4 DEF BaseInv, TypeOK, FilesTyped, world, history
  <2> QED
    BY <1>1, <1>2, <1>4, <2>1, LoginFails
<1> QED
  BY <1>3, <1>4 DEF Attempt

\* The reading of the users file and the check of the password.
LEMMA LoadBase ==
  ASSUME BaseInv, NEW l \in Logins, Load(l)
  PROVE  BaseInv'
<1> DEFINE u == login[l].user
<1>1. u \in Users /\ login[l].pc = "claimed" /\ login[l] \in LoginType
  BY DEF BaseInv, TypeOK, ActorsKnow, LoginKnows, Load
<1>2. UNCHANGED <<users, counters, recovery, attempts, transactions, sessions,
                  callback, request, admin, clock, faults>>
  BY DEF Load, tables
<1>3. FilesTyped'
  BY <1>2 DEF Load, Reads, BaseInv, TypeOK, FilesTyped, world, history
<1>4. CASE Usable(users, u) /\ login[l].password
  <2> DEFINE new == [login[l] EXCEPT !.seen = users, !.version = users[u].version,
              !.pc = IF users[u].mfa THEN "challenged" ELSE "passed",
              !.how = IF users[u].mfa THEN None ELSE "password"]
  <2>1. login' = [login EXCEPT ![l] = new]
    BY <1>4 DEF Load, BaseInv, TypeOK
  <2>2. users \in UsersFile /\ users[u] \in UserType /\ users[u] # None
    BY <1>1, <1>4 DEF BaseInv, TypeOK, UsersFile, Usable
  <2>3. /\ new \in LoginType /\ new.pc \in {"challenged", "passed"} /\ new.seen = users
        /\ new.user = u /\ new.now = login[l].now
    BY <1>1, <2>2 DEF LoginType, UserType
  <2> HIDE DEF new
  <2> QED
    BY <1>1, <1>2, <1>3, <2>1, <2>2, <2>3, LoginAdvances
<1>5. CASE LoginGoto(l, "failed")
  <2>1. faults' \in 0..MaxFaults /\ UNCHANGED clock
    BY <1>2 DEF BaseInv, TypeOK, world
  <2> QED
    BY <1>1, <1>2, <1>3, <1>5, <2>1, LoginFails
<1> QED
  BY <1>4, <1>5 DEF Load

\* The claim of a TOTP counter.
LEMMA ClaimCounterBase ==
  ASSUME BaseInv, NEW l \in Logins, ClaimCounter(l)
  PROVE  BaseInv'
<1> DEFINE u == login[l].user
<1>1. /\ u \in Users /\ login[l].pc = "challenged" /\ login[l] \in LoginType
      /\ login[l].totp # None
  BY DEF BaseInv, TypeOK, ActorsKnow, LoginKnows, ClaimCounter, TotpVerified
<1>2. UNCHANGED <<users, recovery, attempts, transactions, sessions,
                  callback, request, admin, world>>
  BY DEF ClaimCounter
<1>3. CASE /\ counters' = [counters EXCEPT ![u] = login[l].totp]
           /\ login' = [login EXCEPT ![l].pc = "passed", ![l].used = login[l].totp, ![l].how = "totp"]
  <2> DEFINE new == [login[l] EXCEPT !.pc = "passed", !.used = login[l].totp, !.how = "totp"]
  <2>0. login[l].totp \in Nat
    BY <1>1 DEF LoginType
  <2>1. login' = [login EXCEPT ![l] = new]
    BY <1>3 DEF BaseInv, TypeOK
  <2>2. new \in LoginType /\ new.pc = "passed" /\ new.user = u /\ new.now = login[l].now
    BY <1>1, <2>0 DEF LoginType
  <2>3. FilesTyped'
    BY <1>1, <1>2, <1>3, <2>0 DEF BaseInv, TypeOK, FilesTyped, world, history
  <2> HIDE DEF new
  <2> QED
    BY <1>1, <1>2, <2>1, <2>2, <2>3, LoginAdvances DEF world
<1>4. CASE LoginGoto(l, "failed") /\ UNCHANGED counters
  <2>1. FilesTyped' /\ faults' \in 0..MaxFaults /\ UNCHANGED clock
    BY <1>2, <1>4 DEF BaseInv, TypeOK, FilesTyped, world, history
  <2> QED
    BY <1>1, <1>2, <1>4, <2>1, LoginFails
<1> QED
  BY <1>3, <1>4 DEF ClaimCounter

\* The claim of a recovery code.
LEMMA ClaimRecoveryBase ==
  ASSUME BaseInv, NEW l \in Logins, ClaimRecovery(l)
  PROVE  BaseInv'
<1> DEFINE u == login[l].user
<1>1. u \in Users /\ login[l].pc = "challenged" /\ login[l] \in LoginType
  BY DEF BaseInv, TypeOK, ActorsKnow, LoginKnows, ClaimRecovery
<1>2. UNCHANGED <<users, counters, attempts, transactions, sessions,
                  callback, request, admin, world>>
  BY DEF ClaimRecovery
<1>3. CASE /\ recovery' = [recovery EXCEPT ![u] = @ \ {login[l].code}]
           /\ login' = [login EXCEPT ![l].pc = "recovered", ![l].used = login[l].code,
                          ![l].how = "recovery"]
           /\ login[l].code \in recovery[u]
  <2> DEFINE new == [login[l] EXCEPT !.pc = "recovered", !.used = login[l].code, !.how = "recovery"]
  <2>1. login' = [login EXCEPT ![l] = new]
    BY <1>3 DEF BaseInv, TypeOK
  <2>2. /\ new \in LoginType /\ new.user = u /\ new.now = login[l].now
        /\ new.seen = login[l].seen
    BY <1>1 DEF LoginType
  <2>3. FilesTyped'
    BY <1>1, <1>2, <1>3 DEF BaseInv, TypeOK, FilesTyped, world, history
  <2>4. login[l].seen \in UsersFile /\ login[l].seen[u] # None
    BY <1>1 DEF BaseInv, ActorsKnow, LoginKnows
  <2> HIDE DEF new
  <2> QED
    BY <1>1, <1>2, <2>1, <2>2, <2>3, <2>4, LoginAdvances DEF world
<1>4. CASE LoginGoto(l, "failed") /\ UNCHANGED recovery
  <2>1. FilesTyped' /\ faults' \in 0..MaxFaults /\ UNCHANGED clock
    BY <1>2, <1>4 DEF BaseInv, TypeOK, FilesTyped, world, history
  <2> QED
    BY <1>1, <1>2, <1>4, <2>1, LoginFails
<1> QED
  BY <1>3, <1>4 DEF ClaimRecovery

\* The file of a command or of a recovery.
LEMMA AdvancedType ==
  ASSUME NEW u \in UserType
  PROVE  /\ Advanced(u) \in UserType /\ Advanced([u EXCEPT !.mfa = TRUE]) \in UserType
         /\ FreshUser \in UserType
<1>1. u.version + 1 \in Nat \ {0} /\ u.version \in Nat
  BY DEF UserType
<1>2. [u EXCEPT !.mfa = TRUE] \in UserType /\ [u EXCEPT !.mfa = TRUE].version = u.version
  BY DEF UserType
<1>3. \A w \in UserType : w.version = u.version => Advanced(w) \in UserType
  BY <1>1 DEF Advanced, UserType
<1>4. FreshUser \in UserType
  BY DEF FreshUser, UserType
<1> QED
  BY <1>2, <1>3, <1>4

\* The replacement of the users file after a recovery code.
LEMMA AdvanceVersionBase ==
  ASSUME BaseInv, NEW l \in Logins, AdvanceVersion(l)
  PROVE  BaseInv'
<1> DEFINE u == login[l].user
<1>1. u \in Users /\ login[l].pc = "recovered" /\ login[l] \in LoginType
  BY DEF BaseInv, TypeOK, ActorsKnow, LoginKnows, AdvanceVersion
<1>2. login[l].seen \in UsersFile /\ login[l].seen[u] # None
  BY <1>1 DEF BaseInv, ActorsKnow, LoginKnows
<1>3. login[l].seen[u] \in UserType
  BY <1>1, <1>2 DEF UsersFile
<1>4. users' \in UsersFile
  <2>1. Advanced(login[l].seen[u]) \in UserType
    BY <1>3, AdvancedType
  <2> QED
    BY <1>1, <1>2, <2>1 DEF AdvanceVersion, Replaces, UsersFile
<1>5. UNCHANGED <<counters, recovery, attempts, transactions, sessions,
                  callback, request, admin, clock, faults, fresh>>
  BY DEF AdvanceVersion, tables
<1>6. FilesTyped'
  BY <1>4, <1>5 DEF AdvanceVersion, Replaces, BaseInv, TypeOK, FilesTyped, world, history
<1> DEFINE new == [login[l] EXCEPT !.pc = "passed", !.version = @ + 1]
<1>7. login' = [login EXCEPT ![l] = new]
  BY DEF AdvanceVersion, BaseInv, TypeOK
<1>8. new \in LoginType /\ new.pc = "passed" /\ new.user = u /\ new.now = login[l].now
  <2>1. login[l].version + 1 \in Nat
    BY <1>1 DEF LoginType
  <2> QED
    BY <1>1, <2>1 DEF LoginType
<1> HIDE DEF new
<1> QED
  BY <1>1, <1>5, <1>6, <1>7, <1>8, LoginAdvances

\* The removal of the counted attempts.
LEMMA ClearAttemptsBase ==
  ASSUME BaseInv, NEW l \in Logins, ClearAttempts(l)
  PROVE  BaseInv'
<1>1. login[l].user \in Users /\ login[l].pc = "passed" /\ login[l] \in LoginType
  BY DEF BaseInv, TypeOK, ActorsKnow, LoginKnows, ClearAttempts
<1>2. UNCHANGED <<users, counters, recovery, transactions, sessions, callback, request, admin, world>>
  BY DEF ClearAttempts
<1>3. FilesTyped'
  BY <1>1, <1>2 DEF BaseInv, TypeOK, FilesTyped, world, history, ClearAttempts
<1> DEFINE new == [login[l] EXCEPT !.pc = "cleared", !.throttle = "reset"]
<1>4. login' = [login EXCEPT ![l] = new]
  BY DEF ClearAttempts, BaseInv, TypeOK
<1>5. new \in LoginType /\ new.pc = "cleared" /\ new.user = login[l].user /\ new.now = login[l].now
  BY <1>1 DEF LoginType
<1> HIDE DEF new
<1> QED
  BY <1>1, <1>2, <1>3, <1>4, <1>5, LoginAdvances DEF world

\* A row of the sessions table is registered.
LEMMA RegisteredType ==
  ASSUME BaseInv, NEW u \in Users, NEW version \in Nat
  PROVE  /\ Registered(u, version) \in SessionType /\ Registered(u, version) # None
         /\ Registered(u, version).user = u /\ Registered(u, version).version = version
         /\ ~ Registered(u, version).revoked
<1>1. clock + Lifetime \in Nat
  BY SessionAssumption DEF BaseInv, TypeOK
<1>2. Registered(u, version) \in SessionType
  BY <1>1 DEF Registered, SessionType
<1> QED
  BY <1>2, SessionAssumption DEF Registered

\* The registration of the session.
LEMMA IssueBase ==
  ASSUME BaseInv, NEW l \in Logins, Issue(l)
  PROVE  BaseInv'
<1>1. login[l].user \in Users /\ login[l].pc = "cleared" /\ login[l] \in LoginType
  BY DEF BaseInv, TypeOK, ActorsKnow, LoginKnows, Issue
<1> DEFINE row == Registered(login[l].user, login[l].version)
           new == [login[l] EXCEPT !.pc = "done"]
<1>2. /\ row \in SessionType /\ row # None
      /\ row.user = login[l].user /\ row.version = login[l].version
  BY <1>1, RegisteredType DEF LoginType
<1>3. login' = [login EXCEPT ![l] = new] /\ sessions' = [sessions EXCEPT ![l] = row]
  BY DEF Issue, LoginGoto
<1>4. /\ new \in LoginType /\ new.pc = "done" /\ new.user = login[l].user
      /\ new.now = login[l].now /\ new.version = login[l].version
  BY <1>1 DEF LoginType
<1>5. /\ UNCHANGED <<users, counters, recovery, attempts, transactions, callback, request, admin>>
      /\ UNCHANGED <<clock, faults, history>>
  BY DEF Issue, world
<1>6. FilesTyped' /\ faults' \in 0..MaxFaults
  BY <1>5 DEF BaseInv, TypeOK, FilesTyped, world, history
<1> HIDE DEF row, new
<1>7. sessions'[l] = row
  BY <1>3 DEF BaseInv, TypeOK, Issuers
<1>8. LoginKnows(login[l], sessions[l], clock)
  BY DEF BaseInv, ActorsKnow
<1>9. LoginKnows(new, sessions'[l], clock)
  BY <1>1, <1>2, <1>4, <1>7, <1>8 DEF LoginKnows
<1> QED
  BY <1>2, <1>3, <1>4, <1>5, <1>6, <1>9, LoginStep

\* A step of a callback: it may register its own session.
LEMMA CallbackStep ==
  ASSUME BaseInv, NEW k \in Callbacks, NEW new \in CallbackType,
         callback' = [callback EXCEPT ![k] = new], CallbackKnows(new, sessions'[k]),
         transactions' \in [States -> TransactionType],
         \/ sessions' = sessions
         \/ \E row \in SessionType : sessions' = [sessions EXCEPT ![k] = row],
         UNCHANGED <<users, counters, recovery, attempts, login, request, admin, world>>
  PROVE  BaseInv'
<1> USE SessionAssumption DEF BaseInv, TypeOK, world, history
<1>1. sessions' \in [Issuers -> SessionType \cup {None}]
  BY DEF Issuers
<1>2. TypeOK'
  BY <1>1
<1>3. \A i \in Issuers : sessions[i] # None => sessions'[i] # None
  BY DEF Issuers
<1>4. \A i \in Issuers \ {k} : sessions'[i] = sessions[i]
  BY DEF Issuers
<1>5. ActorsKnow'
  <2>1. ASSUME NEW m \in Callbacks PROVE CallbackKnows(callback'[m], sessions'[m])
    <3>1. CASE m = k
      BY <3>1
    <3>2. CASE m # k
      BY <1>4, <3>2 DEF ActorsKnow, Issuers
    <3> QED
      BY <3>1, <3>2
  <2>2. ASSUME NEW l \in Logins PROVE LoginKnows(login'[l], sessions'[l], clock')
    BY <1>4 DEF ActorsKnow, Issuers
  <2>3. ASSUME NEW q \in Requests PROVE RequestKnows(request'[q], sessions')
    BY <1>3 DEF ActorsKnow, RequestKnows
  <2> QED
    BY <2>1, <2>2, <2>3 DEF ActorsKnow
<1> QED
  BY <1>2, <1>5

\* The steps of an OIDC callback.
LEMMA CallBackBase ==
  ASSUME BaseInv, NEW k \in Callbacks, CallBack(k)
  PROVE  BaseInv'
<1>0. /\ callback[k] \in CallbackType /\ CallbackKnows(callback[k], sessions[k])
      /\ transactions \in [States -> TransactionType]
  BY DEF BaseInv, TypeOK, ActorsKnow
<1>1. CASE ClaimState(k)
  <2>1. PICK s \in States :
          /\ transactions' = [transactions EXCEPT ![s].status = "claimed"]
          /\ callback' = [callback EXCEPT ![k].state = s, ![k].pc =
               IF InTime(s) THEN "exchanging" ELSE "failed"]
    BY <1>1 DEF ClaimState
  <2> DEFINE new == [callback[k] EXCEPT !.state = s,
                       !.pc = IF InTime(s) THEN "exchanging" ELSE "failed"]
  <2>2. callback' = [callback EXCEPT ![k] = new]
    BY <2>1 DEF BaseInv, TypeOK
  <2>3. new \in CallbackType /\ new.pc \in {"exchanging", "failed"} /\ new.state = s
    BY <1>0 DEF CallbackType
  <2>4. transactions' \in [States -> TransactionType]
    BY <1>0, <2>1 DEF TransactionType
  <2>5. UNCHANGED <<users, counters, recovery, attempts, sessions, login, request, admin, world>>
    BY <1>1 DEF ClaimState
  <2>6. callback[k].pc = "idle"
    BY <1>1 DEF ClaimState
  <2>7. CallbackKnows(new, sessions'[k])
    BY <1>0, <2>3, <2>5, <2>6 DEF CallbackKnows
  <2> HIDE DEF new
  <2> QED
    BY <2>2, <2>3, <2>4, <2>5, <2>7, CallbackStep
<1>2. ASSUME NEW new \in CallbackType, callback' = [callback EXCEPT ![k] = new],
             new.pc \in {"authorized", "failed"}, new.state = callback[k].state,
             new.pc = "authorized" => new.user \in Users, callback[k].pc = "exchanging",
             UNCHANGED <<users, tables, login, request, admin, world>>
      PROVE  BaseInv'
  <2>1. CallbackKnows(new, sessions'[k])
    BY <1>0, <1>2 DEF CallbackKnows, tables
  <2> QED
    BY <1>0, <1>2, <2>1, CallbackStep DEF tables
<1>3. CASE AuthorizeIdentity(k)
  <2>1. callback[k].pc = "exchanging" /\ UNCHANGED <<users, tables, login, request, admin, world>>
    BY <1>3 DEF AuthorizeIdentity
  <2>2. CASE CallbackGoto(k, "failed")
    <3> DEFINE new == [callback[k] EXCEPT !.pc = "failed"]
    <3>1. callback' = [callback EXCEPT ![k] = new]
      BY <2>2 DEF CallbackGoto
    <3>2. new \in CallbackType /\ new.pc = "failed" /\ new.state = callback[k].state
      BY <1>0 DEF CallbackType
    <3> HIDE DEF new
    <3> QED
      BY <1>2, <2>1, <3>1, <3>2
  <2>3. ASSUME NEW u \in Users, Usable(users, u),
               callback' = [callback EXCEPT ![k].pc = "authorized", ![k].user = u,
                                            ![k].version = users[u].version]
        PROVE  BaseInv'
    <3> DEFINE new == [callback[k] EXCEPT !.pc = "authorized", !.user = u,
                                          !.version = users[u].version]
    <3>1. callback' = [callback EXCEPT ![k] = new]
      BY <2>3 DEF BaseInv, TypeOK
    <3>2. users[u].version \in Nat
      BY <2>3 DEF BaseInv, TypeOK, UsersFile, UserType, Usable
    <3>3. /\ new \in CallbackType /\ new.pc = "authorized" /\ new.state = callback[k].state
          /\ new.user = u
      BY <1>0, <3>2 DEF CallbackType
    <3> HIDE DEF new
    <3> QED
      BY <1>2, <2>1, <3>1, <3>3
  <2> QED
    BY <1>3, <2>2, <2>3 DEF AuthorizeIdentity
<1>4. CASE IssueFederated(k)
  <2> DEFINE row == Registered(callback[k].user, callback[k].version)
             new == [callback[k] EXCEPT !.pc = "done"]
  <2>1. callback[k].pc = "authorized" /\ callback[k].user \in Users
    BY <1>0, <1>4 DEF IssueFederated, CallbackKnows
  <2>2. row \in SessionType /\ row # None
    BY <1>0, <2>1, RegisteredType DEF CallbackType
  <2>3. callback' = [callback EXCEPT ![k] = new] /\ sessions' = [sessions EXCEPT ![k] = row]
    BY <1>4 DEF IssueFederated, CallbackGoto
  <2>4. /\ new \in CallbackType /\ new.pc = "done" /\ new.user = callback[k].user
        /\ new.state = callback[k].state
    BY <1>0 DEF CallbackType
  <2>5. UNCHANGED <<users, counters, recovery, attempts, transactions, login, request, admin, world>>
    BY <1>4 DEF IssueFederated
  <2> HIDE DEF row, new
  <2>6. CallbackKnows(new, sessions'[k])
    BY <1>0, <2>1, <2>4 DEF CallbackKnows
  <2> QED
    BY <1>0, <2>2, <2>3, <2>4, <2>5, <2>6, CallbackStep
<1> QED
  BY <1>1, <1>3, <1>4 DEF CallBack

\* A row that is revoked keeps its user and its version.
LEMMA RevokedRow ==
  ASSUME NEW row \in SessionType
  PROVE  LET off == [row EXCEPT !.revoked = TRUE] IN
         off \in SessionType /\ off.user = row.user /\ off.version = row.version
BY DEF SessionType

\* A step of a request, which may revoke the session it is about.
LEMMA RequestStep ==
  ASSUME BaseInv, NEW q \in Requests, NEW new \in RequestType,
         request' = [request EXCEPT ![q] = new],
         new.session \in Issuers /\ sessions[new.session] # None,
         \/ sessions' = sessions
         \/ sessions' = [sessions EXCEPT ![new.session].revoked = TRUE],
         UNCHANGED <<users, counters, recovery, attempts, transactions,
                     login, callback, admin, world>>
  PROVE  BaseInv'
<1> USE SessionAssumption DEF BaseInv, TypeOK, world, history
<1>1. sessions' \in [Issuers -> SessionType \cup {None}]
  <2>1. sessions[new.session] \in SessionType
    OBVIOUS
  <2>2. [sessions[new.session] EXCEPT !.revoked = TRUE] \in SessionType
    BY <2>1 DEF SessionType
  <2> QED
    BY <2>2
<1>2. TypeOK'
  BY <1>1
<1>3. \A i \in Issuers :
        /\ (sessions'[i] = None) = (sessions[i] = None)
        /\ sessions'[i].user = sessions[i].user \/ sessions[i] = None
        /\ sessions'[i].version = sessions[i].version \/ sessions[i] = None
  <2> SUFFICES ASSUME NEW i \in Issuers
               PROVE  /\ (sessions'[i] = None) = (sessions[i] = None)
                      /\ sessions'[i].user = sessions[i].user \/ sessions[i] = None
                      /\ sessions'[i].version = sessions[i].version \/ sessions[i] = None
    OBVIOUS
  <2>1. CASE sessions'[i] = sessions[i]
    BY <2>1
  <2>2. CASE i = new.session /\ sessions' = [sessions EXCEPT ![new.session].revoked = TRUE]
    <3>1. sessions[i] \in SessionType /\ sessions'[i] = [sessions[i] EXCEPT !.revoked = TRUE]
      BY <2>2
    <3>2. sessions'[i] \in SessionType
      BY <3>1, RevokedRow
    <3>3. (sessions'[i] = None) = (sessions[i] = None)
      BY <3>1, <3>2
    <3> QED
      BY <3>1, <3>3, RevokedRow
  <2> QED
    BY <2>1, <2>2
<1>4. ActorsKnow'
  <2>1. ASSUME NEW r \in Requests PROVE RequestKnows(request'[r], sessions')
    <3>1. CASE r = q
      BY <1>3, <3>1 DEF RequestKnows
    <3>2. CASE r # q
      BY <1>3, <3>2 DEF ActorsKnow, RequestKnows
    <3> QED
      BY <3>1, <3>2
  <2>2. ASSUME NEW l \in Logins PROVE LoginKnows(login'[l], sessions'[l], clock')
    BY <1>3 DEF ActorsKnow, LoginKnows, Issuers
  <2>3. ASSUME NEW k \in Callbacks PROVE CallbackKnows(callback'[k], sessions'[k])
    BY <1>3 DEF ActorsKnow, CallbackKnows, Issuers
  <2> QED
    BY <2>1, <2>2, <2>3 DEF ActorsKnow
<1> QED
  BY <1>2, <1>4

\* The steps of the requests with a cookie.
LEMMA RequestBase ==
  ASSUME BaseInv, NEW q \in Requests, CheckActive(q) \/ Admit(q) \/ Logout(q)
  PROVE  BaseInv'
<1>0. request[q] \in RequestType /\ RequestKnows(request[q], sessions)
  BY DEF BaseInv, TypeOK, ActorsKnow
<1>1. CASE CheckActive(q)
  <2>1. PICK i \in Issuers, late \in BOOLEAN, pc \in {"active", "refused"} :
          /\ sessions[i] # None
          /\ request' = [request EXCEPT ![q].session = i, ![q].late = late, ![q].pc = pc]
    <3>1. \A i : LoggedOut(i) \in BOOLEAN
      BY DEF LoggedOut
    <3> QED
      BY <1>1, <3>1 DEF CheckActive
  <2> DEFINE new == [request[q] EXCEPT !.session = i, !.late = late, !.pc = pc]
  <2>2. request' = [request EXCEPT ![q] = new]
    BY <2>1 DEF BaseInv, TypeOK
  <2>3. new \in RequestType /\ new.session = i
    BY <1>0 DEF RequestType
  <2> HIDE DEF new
  <2>4. UNCHANGED <<users, tables, login, callback, admin, world>>
    BY <1>1 DEF CheckActive
  <2> QED
    BY <2>1, <2>2, <2>3, <2>4, RequestStep DEF tables
<1>2. ASSUME NEW pc \in {"accepted", "refused", "loggedOut"}, request[q].pc # "idle",
             request' = [request EXCEPT ![q].pc = pc],
             \/ sessions' = sessions
             \/ sessions' = [sessions EXCEPT ![request[q].session].revoked = TRUE],
             UNCHANGED <<users, counters, recovery, attempts, transactions,
                         login, callback, admin, world>>
      PROVE  BaseInv'
  <2> DEFINE new == [request[q] EXCEPT !.pc = pc]
  <2>1. request' = [request EXCEPT ![q] = new]
    BY <1>2
  <2>2. new \in RequestType /\ new.session = request[q].session
    BY <1>0 DEF RequestType
  <2>3. new.session \in Issuers /\ sessions[new.session] # None
    BY <1>0, <1>2, <2>2 DEF RequestKnows
  <2> HIDE DEF new
  <2> QED
    BY <1>2, <2>1, <2>2, <2>3, RequestStep
<1>3. CASE Admit(q)
  BY <1>2, <1>3 DEF Admit, tables
<1>4. CASE Logout(q)
  BY <1>2, <1>4 DEF Logout
<1> QED
  BY <1>1, <1>3, <1>4

\* A step of an administration command.
LEMMA AdminStep ==
  ASSUME BaseInv, NEW d \in Admins, NEW new \in AdminType,
         admin' = [admin EXCEPT ![d] = new], AdminKnows(new),
         users' \in UsersFile, recovery' \in [Users -> SUBSET Codes],
         UNCHANGED <<counters, attempts, transactions, sessions, login, callback, request>>,
         UNCHANGED clock, faults' \in 0..MaxFaults,
         fresh' \subseteq Logins \cup Admins, undone' \in BOOLEAN
  PROVE  BaseInv'
<1>1. TypeOK'
  BY DEF BaseInv, TypeOK
<1>2. \A e \in Admins : AdminKnows(admin'[e])
  BY DEF BaseInv, TypeOK, ActorsKnow
<1>3. ActorsKnow'
  BY <1>2 DEF BaseInv, ActorsKnow
<1> QED
  BY <1>1, <1>3 DEF BaseInv

\* What a command writes for its user.
LEMMA WrittenType ==
  ASSUME NEW e \in AdminType, AdminKnows(e), e.pc = "writing"
  PROVE  /\ Written(e.kind, e.seen[e.user]) \in UserType
         /\ e.kind = "add" => Written(e.kind, e.seen[e.user]) = FreshUser
         /\ e.kind = "enable" =>
              /\ e.seen[e.user] \in UserType
              /\ Written(e.kind, e.seen[e.user]) = Advanced([e.seen[e.user] EXCEPT !.mfa = TRUE])
         /\ e.kind \in {"generate", "increment"} =>
              /\ e.seen[e.user] \in UserType
              /\ Written(e.kind, e.seen[e.user]) = Advanced(e.seen[e.user])
         /\ e.kind = "deactivate" =>
              /\ e.seen[e.user] \in UserType
              /\ Written(e.kind, e.seen[e.user]) = [e.seen[e.user] EXCEPT !.active = FALSE]
<1>1. e.kind \in {"add", "enable", "generate", "deactivate", "increment"}
  BY DEF AdminType, AdminKnows, Commands, Edits
<1>2. e.kind # "add" => e.seen[e.user] \in UserType
  BY DEF AdminKnows, UsersFile
<1>3. FreshUser \in UserType
  BY DEF FreshUser, UserType
<1>4. CASE e.kind = "add"
  BY <1>3, <1>4 DEF Written
<1>5. CASE e.kind = "enable"
  BY <1>2, <1>5, AdvancedType DEF Written
<1>6. CASE e.kind \in {"generate", "increment"}
  BY <1>2, <1>6, AdvancedType DEF Written
<1>7. CASE e.kind = "deactivate"
  <2>1. Written(e.kind, e.seen[e.user]) = [e.seen[e.user] EXCEPT !.active = FALSE]
    BY <1>7 DEF Written
  <2>2. [e.seen[e.user] EXCEPT !.active = FALSE] \in UserType
    BY <1>2, <1>7 DEF UserType
  <2> QED
    BY <1>2, <1>7, <2>1, <2>2
<1> QED
  BY <1>1, <1>4, <1>5, <1>6, <1>7

\* The steps of the administration commands.
LEMMA AdministerBase ==
  ASSUME BaseInv, NEW d \in Admins, Administer(d)
  PROVE  BaseInv'
<1>0. /\ admin[d] \in AdminType /\ AdminKnows(admin[d])
      /\ users \in UsersFile /\ recovery \in [Users -> SUBSET Codes] /\ faults \in 0..MaxFaults
      /\ fresh \subseteq Logins \cup Admins /\ undone \in BOOLEAN
  BY DEF BaseInv, TypeOK, ActorsKnow
<1>1. CASE ReadUsers(d)
  <2>1. PICK kind \in Commands \cup Edits, u \in Users :
          /\ Applicable(kind, u)
          /\ admin' = [admin EXCEPT ![d].kind = kind, ![d].user = u, ![d].seen = users,
                         ![d].pc = IF kind = "generate" THEN "generating" ELSE "writing"]
    BY <1>1 DEF ReadUsers
  <2> DEFINE new == [admin[d] EXCEPT !.kind = kind, !.user = u, !.seen = users,
                       !.pc = IF kind = "generate" THEN "generating" ELSE "writing"]
  <2>2. admin' = [admin EXCEPT ![d] = new]
    BY <2>1 DEF BaseInv, TypeOK
  <2>3. /\ new \in AdminType /\ new.kind = kind /\ new.user = u /\ new.seen = users
        /\ new.pc = "generating" => kind = "generate"
    BY <1>0 DEF AdminType
  <2>4. kind # "add" => users[u] # None
    BY <2>1 DEF Applicable, Commands, Edits
  <2>5. AdminKnows(new)
    BY <1>0, <2>3, <2>4 DEF AdminKnows
  <2>6. UNCHANGED <<users, tables, login, callback, request, clock, faults>>
        /\ fresh' \subseteq Logins \cup Admins /\ UNCHANGED undone
    BY <1>0, <1>1 DEF ReadUsers, Reads
  <2> HIDE DEF new
  <2> QED
    BY <1>0, <2>2, <2>3, <2>5, <2>6, AdminStep DEF tables
<1>2. ASSUME NEW pc \in {"writing", "done"}, admin' = [admin EXCEPT ![d].pc = pc],
             admin[d].pc \in {"generating", "writing"},
             users' \in UsersFile, recovery' \in [Users -> SUBSET Codes],
             UNCHANGED <<counters, attempts, transactions, sessions, login, callback, request>>,
             UNCHANGED <<clock, faults>>,
             fresh' \subseteq Logins \cup Admins, undone' \in BOOLEAN
      PROVE  BaseInv'
  <2> DEFINE new == [admin[d] EXCEPT !.pc = pc]
  <2>1. admin' = [admin EXCEPT ![d] = new]
    BY <1>2
  <2>2. /\ new \in AdminType /\ new.pc = pc /\ new.kind = admin[d].kind
        /\ new.user = admin[d].user /\ new.seen = admin[d].seen
    BY <1>0 DEF AdminType
  <2>3. AdminKnows(new)
    BY <1>0, <1>2, <2>2 DEF AdminKnows
  <2> HIDE DEF new
  <2> QED
    BY <1>0, <1>2, <2>1, <2>2, <2>3, AdminStep
<1>3. CASE ReplaceCodes(d)
  <2>1. admin[d].user \in Users /\ NewCodes[d] \subseteq Codes
    BY <1>0, <1>3, SessionAssumption DEF ReplaceCodes, AdminKnows
  <2>2. recovery' \in [Users -> SUBSET Codes]
    BY <1>0, <1>3, <2>1 DEF ReplaceCodes
  <2> QED
    BY <1>0, <1>2, <1>3, <2>2 DEF ReplaceCodes, world, history
<1>4. CASE WriteUsers(d)
  <2>1. users' = [admin[d].seen EXCEPT ![admin[d].user] =
                    Written(admin[d].kind, admin[d].seen[admin[d].user])]
    BY <1>4 DEF WriteUsers, Replaces
  <2>2. /\ Written(admin[d].kind, admin[d].seen[admin[d].user]) \in UserType
        /\ admin[d].seen \in UsersFile
    BY <1>0, <1>4, WrittenType DEF WriteUsers, AdminKnows
  <2>3. users' \in UsersFile
    BY <2>1, <2>2 DEF UsersFile
  <2>4. /\ fresh' \subseteq Logins \cup Admins /\ undone' \in BOOLEAN
    BY <1>0, <1>4 DEF WriteUsers, Replaces
  <2> QED
    BY <1>0, <1>2, <1>4, <2>3, <2>4 DEF WriteUsers, tables
<1> QED
  BY <1>1, <1>3, <1>4 DEF Administer

\* What the environment does.
LEMMA WorldBase ==
  ASSUME BaseInv, Fail \/ Tick \/ \E s \in States : Begin(s)
  PROVE  BaseInv'
<1> USE SessionAssumption
<1>0. /\ users \in UsersFile /\ clock \in 0..MaxClock /\ faults \in 0..MaxFaults
      /\ FilesTyped /\ transactions \in [States -> TransactionType]
  BY DEF BaseInv, TypeOK, FilesTyped
<1>2. CASE Fail
  <2>1. faults' \in 0..MaxFaults /\ UNCHANGED <<users, tables, callback, request, clock, history>>
    BY <1>0, <1>2 DEF Fail
  <2>2. FilesTyped'
    BY <1>0, <2>1 DEF FilesTyped, world, history, tables
  <2>3. ASSUME NEW l \in Logins, login[l].pc \notin {"idle", "done", "failed"},
               LoginGoto(l, "failed"), UNCHANGED admin
        PROVE  BaseInv'
    BY <2>1, <2>2, <2>3, LoginFails DEF tables
  <2>4. ASSUME NEW d \in Admins, admin' = [admin EXCEPT ![d].pc = "failed"], UNCHANGED login
        PROVE  BaseInv'
    <3> DEFINE new == [admin[d] EXCEPT !.pc = "failed"]
    <3>1. admin' = [admin EXCEPT ![d] = new]
      BY <2>4
    <3>2. new \in AdminType /\ new.pc = "failed"
      BY DEF BaseInv, TypeOK, AdminType
    <3> HIDE DEF new
    <3>3. AdminKnows(new)
      BY <3>2 DEF AdminKnows
    <3>4. /\ recovery' \in [Users -> SUBSET Codes] /\ users' \in UsersFile
          /\ fresh' \subseteq Logins \cup Admins /\ undone' \in BOOLEAN
      BY <2>2 DEF FilesTyped
    <3> QED
      BY <2>1, <2>4, <3>1, <3>2, <3>3, <3>4, AdminStep DEF tables
  <2> QED
    BY <1>2, <2>3, <2>4 DEF Fail
<1>3. CASE Tick
  <2>1. clock' \in 0..MaxClock /\ clock' = clock + 1
    BY <1>0, <1>3 DEF Tick
  <2>2. UNCHANGED <<users, tables, actors, faults, history>>
    BY <1>3 DEF Tick
  <2>3. TypeOK'
    BY <2>1, <2>2 DEF BaseInv, TypeOK, tables, actors, history
  <2>4. ASSUME NEW l \in Logins PROVE LoginKnows(login[l], sessions[l], clock')
    <3>1. LoginKnows(login[l], sessions[l], clock) /\ login[l].now \in Nat
      BY DEF BaseInv, ActorsKnow, TypeOK, LoginType
    <3> QED
      BY <1>0, <2>1, <3>1 DEF LoginKnows
  <2> QED
    BY <2>2, <2>3, <2>4 DEF BaseInv, ActorsKnow, tables, actors
<1>4. ASSUME NEW s \in States, Begin(s) PROVE BaseInv'
  <2>1. clock + TransactionLife \in Nat
    BY <1>0
  <2>2. transactions' \in [States -> TransactionType]
    BY <1>0, <1>4, <2>1 DEF Begin, TransactionType
  <2>3. UNCHANGED <<users, counters, recovery, attempts, sessions, actors, world>>
    BY <1>4 DEF Begin
  <2>4. TypeOK'
    BY <2>2, <2>3 DEF BaseInv, TypeOK, actors, world, history
  <2> QED
    BY <2>3, <2>4 DEF BaseInv, ActorsKnow, actors, world
<1> QED
  BY <1>2, <1>3, <1>4

\* The steps, one by one; UNCHANGED vars and the environment together.
LEMMA EveryStep ==
  ASSUME [Next]_vars
  PROVE  \/ \E l \in Logins : Arrive(l) \/ LogIn(l)
         \/ \E k \in Callbacks : CallBack(k)
         \/ \E q \in Requests : CheckActive(q) \/ Admit(q) \/ Logout(q)
         \/ \E d \in Admins : Administer(d)
         \/ Fail \/ Tick \/ (\E s \in States : Begin(s))
         \/ UNCHANGED vars
BY DEF Next

\* Every step preserves types and knowledge.
LEMMA BaseStep == BaseInv /\ [Next]_vars => BaseInv'
<1> SUFFICES ASSUME BaseInv, [Next]_vars PROVE BaseInv'
  OBVIOUS
<1>1. ASSUME NEW l \in Logins, Arrive(l) \/ LogIn(l) PROVE BaseInv'
  BY <1>1, ArriveBase, AttemptBase, LoadBase, ClaimCounterBase, ClaimRecoveryBase,
     AdvanceVersionBase, ClearAttemptsBase, IssueBase DEF LogIn
<1>2. CASE UNCHANGED vars
  BY <1>2 DEF BaseInv, TypeOK, ActorsKnow, vars, tables, actors, world, history
<1> QED
  BY <1>1, <1>2, CallBackBase, RequestBase, AdministerBase, WorldBase, EveryStep

\* Types and knowledge hold in every reachable state.
LEMMA BaseInvariant == Spec => []BaseInv
BY InitBase, BaseStep, PTL DEF Spec

\* The users file, the store's tables and every actor keep their types,
\* whoever overwrites whose users file.
THEOREM TypeCorrect == Spec => []TypeOK
<1>1. BaseInv => TypeOK
  BY DEF BaseInv
<1> QED
  BY <1>1, BaseInvariant, PTL

\* ------------------------------------------------------------ OIDC states

Holds(k) == callback[k].pc \in {"exchanging", "authorized", "done"}

\* A state that a callback holds is claimed, and stays claimed.
StateInv ==
  /\ \A k \in Callbacks : Holds(k) => transactions[callback[k].state].status = "claimed"
  /\ StateUsedOnce

\* Every step keeps the states with their callbacks.
LEMMA StateStep == BaseInv /\ StateInv /\ [Next]_vars => StateInv'
<1> SUFFICES ASSUME BaseInv, StateInv, [Next]_vars PROVE StateInv'
  OBVIOUS
<1>0. /\ transactions \in [States -> TransactionType]
      /\ callback \in [Callbacks -> CallbackType]
      /\ \A k \in Callbacks : Holds(k) => callback[k].state \in States
  BY DEF BaseInv, TypeOK, ActorsKnow, CallbackKnows, Holds
<1>1. CASE UNCHANGED <<callback, transactions>>
  BY <1>1 DEF StateInv, StateUsedOnce, Holds
<1>2. ASSUME NEW s \in States, Begin(s) PROVE StateInv'
  <2>1. /\ UNCHANGED callback
        /\ \A t \in States : transactions[t].status = "claimed" => transactions'[t] = transactions[t]
    BY <1>0, <1>2 DEF Begin, actors
  <2> QED
    BY <1>0, <2>1 DEF StateInv, StateUsedOnce, Holds
<1>3. ASSUME NEW k \in Callbacks, ClaimState(k) PROVE StateInv'
  <2>1. PICK s \in States :
          /\ transactions' = [transactions EXCEPT ![s].status = "claimed"]
          /\ callback' = [callback EXCEPT ![k].state = s, ![k].pc =
               IF InTime(s) THEN "exchanging" ELSE "failed"]
    BY <1>3 DEF ClaimState
  <2>2. /\ transactions'[s].status = "claimed"
        /\ \A t \in States : transactions[t].status = "claimed" =>
             transactions'[t].status = "claimed"
    BY <1>0, <2>1 DEF TransactionType
  <2>3. /\ callback'[k].state = s
        /\ callback'[k].pc = IF InTime(s) THEN "exchanging" ELSE "failed"
        /\ \A j \in Callbacks \ {k} : callback'[j] = callback[j]
    BY <1>0, <2>1 DEF CallbackType
  <2>4. Holds(k)' => transactions[s].status = "pending"
    BY <2>3 DEF Holds, InTime
  <2>5. \A j \in Callbacks \ {k} : Holds(j)' <=> Holds(j)
    BY <2>3 DEF Holds
  <2>6. \A j \in Callbacks \ {k} : Holds(j) =>
          transactions[callback[j].state].status = "claimed" /\ callback[j].state \in States
    BY <1>0 DEF StateInv
  <2>7. \A j \in Callbacks : Holds(j)' => transactions'[callback'[j].state].status = "claimed"
    BY <2>2, <2>3, <2>5, <2>6
  <2>8. \A j \in Callbacks \ {k} : Holds(k)' /\ Holds(j)' => callback'[j].state # callback'[k].state
    BY <2>3, <2>4, <2>5, <2>6
  <2>9. StateUsedOnce'
    <3> SUFFICES ASSUME NEW i \in Callbacks, NEW j \in Callbacks, Holds(i)', Holds(j)',
                        callback'[i].state = callback'[j].state
                 PROVE  i = j
      BY DEF StateUsedOnce, Holds
    <3>1. CASE i # k /\ j # k
      BY <2>3, <2>5, <3>1 DEF StateInv, StateUsedOnce, Holds
    <3> QED
      BY <2>8, <3>1
  <2> QED
    BY <2>7, <2>9 DEF StateInv
<1>4. ASSUME NEW k \in Callbacks, AuthorizeIdentity(k) \/ IssueFederated(k) PROVE StateInv'
  <2>1. UNCHANGED transactions
    BY <1>4 DEF AuthorizeIdentity, IssueFederated, tables
  <2>2. /\ Holds(k) /\ callback'[k].state = callback[k].state
        /\ \A j \in Callbacks \ {k} : callback'[j] = callback[j]
    <3>1. callback \in [Callbacks -> CallbackType] /\ callback[k] \in CallbackType
      BY <1>0
    <3>2. CASE AuthorizeIdentity(k)
      <4>1. Holds(k)
        BY <3>2 DEF AuthorizeIdentity, Holds
      <4>2. \/ \E u \in Users : callback' = [callback EXCEPT ![k].pc = "authorized", ![k].user = u,
                                               ![k].version = users[u].version]
            \/ CallbackGoto(k, "failed")
        BY <3>2 DEF AuthorizeIdentity
      <4>3. CASE CallbackGoto(k, "failed")
        BY <3>1, <4>1, <4>3 DEF CallbackGoto, CallbackType
      <4>4. ASSUME NEW u \in Users, NEW version,
                   callback' = [callback EXCEPT ![k].pc = "authorized", ![k].user = u,
                                                ![k].version = version]
            PROVE  /\ callback'[k].state = callback[k].state
                   /\ \A j \in Callbacks \ {k} : callback'[j] = callback[j]
        BY <3>1, <4>4 DEF CallbackType
      <4> QED
        BY <4>1, <4>2, <4>3, <4>4
    <3>3. CASE IssueFederated(k)
      <4>1. Holds(k) /\ CallbackGoto(k, "done")
        BY <3>3 DEF IssueFederated, Holds
      <4> QED
        BY <3>1, <4>1 DEF CallbackGoto, CallbackType
    <3> QED
      BY <1>4, <3>2, <3>3
  <2>3. \A j \in Callbacks : callback'[j].state = callback[j].state /\ (Holds(j)' => Holds(j))
    BY <2>2 DEF Holds
  <2> QED
    BY <2>1, <2>3 DEF StateInv, StateUsedOnce, Holds
<1>5. ASSUME NEW l \in Logins, Arrive(l) \/ LogIn(l) PROVE UNCHANGED <<callback, transactions>>
  BY <1>5 DEF Arrive, LogIn, Attempt, Load, ClaimCounter, ClaimRecovery, AdvanceVersion,
              ClearAttempts, Issue, tables
<1>6. ASSUME NEW q \in Requests, CheckActive(q) \/ Admit(q) \/ Logout(q)
      PROVE  UNCHANGED <<callback, transactions>>
  BY <1>6 DEF CheckActive, Admit, Logout, tables
<1>7. ASSUME NEW d \in Admins, Administer(d) PROVE UNCHANGED <<callback, transactions>>
  BY <1>7 DEF Administer, ReadUsers, ReplaceCodes, WriteUsers, tables
<1>8. CASE Fail \/ Tick \/ UNCHANGED vars
  <2>1. UNCHANGED <<callback, transactions>>
    BY <1>8 DEF Fail, Tick, vars, tables, actors
  <2> QED
    BY <1>1, <2>1
<1> QED
  BY <1>1, <1>2, <1>3, <1>4, <1>5, <1>6, <1>7, <1>8, EveryStep DEF CallBack

\* However callbacks race for a state and whenever it expires, a state admits
\* one callback.
THEOREM StateOnce == Spec => []StateUsedOnce
<1>1. Init => StateInv
  BY DEF Init, StateInv, StateUsedOnce, Holds
<1>2. StateInv => StateUsedOnce
  BY DEF StateInv
<1> QED
  BY <1>1, <1>2, StateStep, BaseInvariant, PTL DEF Spec

\* ------------------------------------------------------------------ logout

\* A session that a request has logged out is revoked, and no later login
\* registers its row again.
LogoutInv ==
  /\ \A q \in Requests : request[q].pc = "loggedOut" => sessions[request[q].session].revoked
  /\ LogoutHolds

\* A row that was registered is never registered again, nor unrevoked.
LEMMA RowsStay ==
  ASSUME BaseInv, [Next]_vars, NEW i \in Issuers, sessions[i] # None
  PROVE  sessions[i].revoked => sessions'[i].revoked
<1>0. sessions \in [Issuers -> SessionType \cup {None}] /\ sessions[i] \in SessionType
  BY DEF BaseInv, TypeOK
<1>1. ASSUME NEW l \in Logins, Issue(l) PROVE sessions'[i] = sessions[i]
  <2>1. sessions[l] = None
    BY <1>1 DEF Issue, BaseInv, ActorsKnow, LoginKnows
  <2> QED
    BY <1>0, <1>1, <2>1 DEF Issue
<1>2. ASSUME NEW k \in Callbacks, IssueFederated(k) PROVE sessions'[i] = sessions[i]
  <2>1. sessions[k] = None
    BY <1>2 DEF IssueFederated, BaseInv, ActorsKnow, CallbackKnows
  <2> QED
    BY <1>0, <1>2, <2>1 DEF IssueFederated
<1>3. ASSUME NEW q \in Requests, Logout(q)
      PROVE  sessions'[i] = sessions[i] \/ sessions'[i].revoked
  BY <1>0, <1>3 DEF Logout, SessionType
<1>4. \/ UNCHANGED sessions
      \/ \E l \in Logins : Issue(l)
      \/ \E k \in Callbacks : IssueFederated(k)
      \/ \E q \in Requests : Logout(q)
  BY EveryStep DEF LogIn, Arrive, Attempt, Load, ClaimCounter, ClaimRecovery, AdvanceVersion,
     ClearAttempts, CallBack, ClaimState, AuthorizeIdentity, CheckActive, Admit, Administer,
     ReadUsers, ReplaceCodes, WriteUsers, Fail, Tick, Begin, vars, tables
<1> QED
  BY <1>1, <1>2, <1>3, <1>4

\* Every step keeps a session that was logged out revoked.
LEMMA LogoutStep == BaseInv /\ LogoutInv /\ [Next]_vars => LogoutInv'
<1> SUFFICES ASSUME BaseInv, LogoutInv, [Next]_vars PROVE LogoutInv'
  OBVIOUS
<1>0. request \in [Requests -> RequestType] /\ sessions \in [Issuers -> SessionType \cup {None}]
  BY DEF BaseInv, TypeOK
<1>1. \A q \in Requests : request[q].pc # "idle" =>
        request[q].session \in Issuers /\ sessions[request[q].session] # None
  BY DEF BaseInv, ActorsKnow, RequestKnows
<1>2. ASSUME NEW q \in Requests, request'[q] = request[q]
      PROVE  /\ request'[q].pc = "loggedOut" => sessions'[request'[q].session].revoked
             /\ request'[q].late => request'[q].pc = "refused"
  BY <1>1, <1>2, RowsStay DEF LogoutInv, LogoutHolds
<1>3. CASE UNCHANGED request
  BY <1>2, <1>3 DEF LogoutInv, LogoutHolds
<1>4. ASSUME NEW q \in Requests, CheckActive(q) \/ Admit(q) \/ Logout(q)
      PROVE  LogoutInv'
  <2>1. \A r \in Requests \ {q} : request'[r] = request[r]
    BY <1>0, <1>4 DEF CheckActive, Admit, Logout
  <2>2. /\ request'[q].pc = "loggedOut" => sessions'[request'[q].session].revoked
        /\ request'[q].late => request'[q].pc = "refused"
    <3>1. CASE CheckActive(q)
      <4>1. PICK i \in Issuers :
              /\ request'[q].late = LoggedOut(i)
              /\ request'[q].pc = IF ~ sessions[i].revoked /\ clock < sessions[i].expires
                                    THEN "active" ELSE "refused"
        BY <1>0, <3>1 DEF CheckActive, RequestType
      <4>2. LoggedOut(i) => sessions[i].revoked
        BY DEF LoggedOut, LogoutInv
      <4> QED
        BY <4>1, <4>2
    <3>2. CASE Admit(q)
      <4>1. request[q].pc = "active" /\ request'[q].late = request[q].late
            /\ request'[q].pc # "loggedOut"
        BY <1>0, <3>2 DEF Admit, RequestType
      <4> QED
        BY <4>1 DEF LogoutInv, LogoutHolds
    <3>3. CASE Logout(q)
      <4>1. /\ request[q].pc = "accepted" /\ request'[q].late = request[q].late
            /\ request'[q].session = request[q].session
        BY <1>0, <3>3 DEF Logout, RequestType
      <4>2. sessions[request[q].session] \in SessionType /\ request[q].session \in Issuers
        BY <1>0, <1>1, <4>1
      <4>3. sessions'[request[q].session].revoked
        BY <1>0, <3>3, <4>2 DEF Logout, SessionType
      <4> QED
        BY <4>1, <4>3 DEF LogoutInv, LogoutHolds
    <3> QED
      BY <1>4, <3>1, <3>2, <3>3
  <2> QED
    BY <1>2, <2>1, <2>2 DEF LogoutInv, LogoutHolds
<1>5. UNCHANGED request \/ \E q \in Requests : CheckActive(q) \/ Admit(q) \/ Logout(q)
  BY EveryStep DEF LogIn, Arrive, Attempt, Load, ClaimCounter, ClaimRecovery, AdvanceVersion,
     ClearAttempts, Issue, CallBack, ClaimState, AuthorizeIdentity, IssueFederated, Administer,
     ReadUsers, ReplaceCodes, WriteUsers, Fail, Tick, Begin, vars, actors
<1> QED
  BY <1>3, <1>4, <1>5

\* A request that comes after the logout is refused, for any number of requests
\* of the session that are under way.
THEOREM LogoutFinal == Spec => []LogoutHolds
<1>1. Init => LogoutInv
  BY DEF Init, LogoutInv, LogoutHolds
<1>2. LogoutInv => LogoutHolds
  BY DEF LogoutInv
<1> QED
  BY <1>1, <1>2, LogoutStep, BaseInvariant, PTL DEF Spec

\* ----------------------------------------------------------- second factor

\* What a users file says of a user; one that it lacks is as add_portal_user
\* will write him.
Known(file, u) == IF file[u] = None THEN FreshUser ELSE file[u]

\* Two files agree on a user: without a second factor his version is the same
\* in both, and with one it is higher.
Agree(known, other) ==
  /\ ~ known.mfa /\ ~ other.mfa => known.version = other.version
  /\ ~ known.mfa /\ other.mfa => known.version < other.version

\* The users file, and what an actor has read since the last edit of an
\* operator and may still write back.
Copy(file) ==
  \/ file = users
  \/ \E l \in Logins \cap fresh :
       login[l].pc \in {"challenged", "recovered"} /\ file = login[l].seen
  \/ \E d \in Admins \cap fresh :
       admin[d].pc \in {"generating", "writing"} /\ file = admin[d].seen

OnPassword(e) == e.pc \in {"passed", "cleared", "done"} /\ e.how = "password"

\* A session of this version is not valid for a user with a second factor.
Below(version, known) ==
  version <= known.version /\ (known.mfa => version < known.version)

\* As long as nobody has undone an edit: all copies agree, and a login that
\* rests on the password is below the second factor in each of them.
CopiesAgree ==
  /\ \A f, g \in UsersFile : Copy(f) /\ Copy(g) => \A u \in Users : Agree(Known(f, u), Known(g, u))
  /\ \A l \in Logins : OnPassword(login[l]) =>
       \A f \in UsersFile : Copy(f) => Below(login[l].version, Known(f, login[l].user))

\* A login that asks for the second factor has read a user that has one.
LoginRests(e) ==
  /\ e.pc \in {"challenged", "recovered"} => e.seen[e.user].mfa
  /\ e.pc = "recovered" => e.how = "recovery"
  /\ e.pc \in {"passed", "cleared", "done"} => e.how \in {"password", "totp", "recovery"}

\* A command has checked its user in the file that it has read.
AdminRests(d, e) ==
  e.pc \in {"generating", "writing"} =>
    /\ e.kind \in IF d \in Operators THEN Edits ELSE Commands
    /\ e.kind = "add" => e.seen[e.user] = None
    /\ e.kind = "enable" => ~ e.seen[e.user].mfa
    /\ e.kind = "generate" => e.seen[e.user].mfa

FilesInv ==
  /\ ~ undone => CopiesAgree
  /\ \A l \in Logins : LoginRests(login[l])
  /\ \A d \in Admins : AdminRests(d, admin[d])

\* What a file says of a user has its type.
LEMMA KnownType ==
  ASSUME NEW file \in UsersFile, NEW u \in Users
  PROVE  /\ Known(file, u) \in UserType
         /\ Known(file, u).mfa \in BOOLEAN /\ Known(file, u).version \in Nat
<1>1. FreshUser \in UserType
  BY DEF FreshUser, UserType
<1>2. Known(file, u) \in UserType
  BY <1>1 DEF Known, UsersFile
<1> QED
  BY <1>2 DEF UserType

\* The files agree after a step that adds no copy but the users file, when that
\* agrees with every copy and no login on a password reaches it.
LEMMA CopiesStep ==
  ASSUME CopiesAgree, users' \in UsersFile,
         \A f \in UsersFile : Copy(f)' => Copy(f) \/ f = users',
         \A f \in UsersFile, u \in Users : Copy(f) =>
           Agree(Known(users', u), Known(f, u)) /\ Agree(Known(f, u), Known(users', u)),
         \A l \in Logins : OnPassword(login'[l]) =>
           \A f \in UsersFile : Copy(f) \/ f = users' =>
             Below(login'[l].version, Known(f, login'[l].user))
  PROVE  CopiesAgree'
<1>1. \A u \in Users : Agree(Known(users', u), Known(users', u))
  BY DEF Agree
<1>2. ASSUME NEW f \in UsersFile, NEW g \in UsersFile, Copy(f)', Copy(g)', NEW u \in Users
      PROVE  Agree(Known(f, u), Known(g, u))
  <2>1. (Copy(f) \/ f = users') /\ (Copy(g) \/ g = users')
    BY <1>2
  <2> QED
    BY <1>1, <2>1 DEF CopiesAgree
<1>3. ASSUME NEW l \in Logins, OnPassword(login'[l]), NEW f \in UsersFile, Copy(f)'
      PROVE  Below(login'[l].version, Known(f, login'[l].user))
  BY <1>3
<1> QED
  BY <1>2, <1>3 DEF CopiesAgree, OnPassword, Below, Agree, Known

\* Who writes a copy back with nothing changed for the second factor, or with a
\* second factor and a higher version, agrees with every copy.
LEMMA WriteAgrees ==
  ASSUME CopiesAgree, NEW source \in UsersFile, Copy(source), NEW u \in Users,
         NEW file \in UsersFile, \A w \in Users \ {u} : file[w] = source[w],
         \/ /\ Known(file, u).mfa = Known(source, u).mfa
            /\ Known(file, u).version = Known(source, u).version
         \/ Known(file, u).mfa /\ Known(file, u).version > Known(source, u).version
  PROVE  \A f \in UsersFile, w \in Users : Copy(f) =>
           Agree(Known(file, w), Known(f, w)) /\ Agree(Known(f, w), Known(file, w))
<1> SUFFICES ASSUME NEW f \in UsersFile, NEW w \in Users, Copy(f)
             PROVE  Agree(Known(file, w), Known(f, w)) /\ Agree(Known(f, w), Known(file, w))
  OBVIOUS
<1>1. Agree(Known(source, w), Known(f, w)) /\ Agree(Known(f, w), Known(source, w))
  BY DEF CopiesAgree
<1>2. CASE w # u
  <2>1. Known(file, w) = Known(source, w)
    BY <1>2 DEF Known
  <2> QED
    BY <1>1, <2>1
<1>3. CASE w = u
  <2>1. /\ Known(file, u).version \in Nat /\ Known(source, u).version \in Nat
        /\ Known(f, u).version \in Nat
    BY KnownType
  <2> QED
    BY <1>1, <1>3, <2>1 DEF Agree
<1> QED
  BY <1>2, <1>3

\* A login that rests on the password stays below, when a copy is written back
\* with a version that does not fall, and rises with the second factor.
LEMMA StaysBelow ==
  ASSUME BaseInv, CopiesAgree, NEW source \in UsersFile, Copy(source), NEW u \in Users,
         NEW file \in UsersFile, \A w \in Users \ {u} : file[w] = source[w],
         \/ /\ Known(file, u).mfa = Known(source, u).mfa
            /\ Known(file, u).version >= Known(source, u).version
         \/ Known(file, u).mfa /\ Known(file, u).version > Known(source, u).version,
         NEW l \in Logins, OnPassword(login[l])
  PROVE  Below(login[l].version, Known(file, login[l].user))
<1>1. Below(login[l].version, Known(source, login[l].user))
  BY DEF CopiesAgree
<1>2. login[l].user \in Users /\ login[l].version \in Nat
  BY DEF BaseInv, TypeOK, LoginType, ActorsKnow, LoginKnows, OnPassword
<1>3. CASE login[l].user # u
  <2>1. Known(file, login[l].user) = Known(source, login[l].user)
    BY <1>2, <1>3 DEF Known
  <2> QED
    BY <1>1, <2>1
<1>4. CASE login[l].user = u
  <2>1. Known(file, u).version \in Nat /\ Known(source, u).version \in Nat
    BY KnownType
  <2> QED
    BY <1>1, <1>2, <1>4, <2>1 DEF Below
<1> QED
  BY <1>3, <1>4

\* What a login or a command does to the record of its user.
LEMMA AdvancedRises ==
  ASSUME NEW u \in UserType
  PROVE  /\ Advanced(u).mfa = u.mfa /\ Advanced(u).version > u.version
         /\ Advanced([u EXCEPT !.mfa = TRUE]).mfa
         /\ Advanced([u EXCEPT !.mfa = TRUE]).version > u.version
<1>1. u.version \in Nat
  BY DEF UserType
<1>2. [u EXCEPT !.mfa = TRUE] \in UserType /\ [u EXCEPT !.mfa = TRUE].mfa
      /\ [u EXCEPT !.mfa = TRUE].version = u.version
  BY DEF UserType
<1>3. \A w \in UserType : w.version = u.version =>
        Advanced(w).mfa = w.mfa /\ Advanced(w).version > u.version
  BY <1>1 DEF Advanced, UserType
<1> QED
  BY <1>2, <1>3

\* A login reads the file, or passes on what it has read; what it has on the
\* password, it has from the file.
LEMMA LoginKeepsCopies ==
  ASSUME BaseInv, FilesInv, NEW l \in Logins, LoginRests(login'[l]),
         \A m \in Logins \ {l} : login'[m] = login[m],
         UNCHANGED <<users, admin, undone>>,
         fresh \subseteq fresh', fresh' \subseteq fresh \cup {l},
         l \in fresh' /\ login'[l].pc \in {"challenged", "recovered"} => Copy(login'[l].seen),
         OnPassword(login'[l]) =>
           \/ /\ OnPassword(login[l]) /\ login'[l].version = login[l].version
              /\ login'[l].user = login[l].user
           \/ /\ login'[l].user \in Users /\ ~ Known(users, login'[l].user).mfa
              /\ login'[l].version = Known(users, login'[l].user).version
  PROVE  FilesInv'
<1>0. users \in UsersFile /\ Copy(users)
  BY DEF BaseInv, TypeOK, Copy
<1>1. ASSUME CopiesAgree PROVE CopiesAgree'
  <2>1. \A f \in UsersFile : Copy(f)' => Copy(f) \/ f = users'
    <3> SUFFICES ASSUME NEW f \in UsersFile, Copy(f)', f # users' PROVE Copy(f)
      OBVIOUS
    <3>1. CASE \E m \in Logins \cap fresh' :
                 login'[m].pc \in {"challenged", "recovered"} /\ f = login'[m].seen
      BY <3>1 DEF Copy
    <3>2. CASE \E d \in Admins \cap fresh' :
                 admin'[d].pc \in {"generating", "writing"} /\ f = admin'[d].seen
      BY <3>2, SessionAssumption DEF Copy
    <3> QED
      BY <3>1, <3>2 DEF Copy
  <2>2. \A f \in UsersFile, u \in Users : Copy(f) =>
          Agree(Known(users', u), Known(f, u)) /\ Agree(Known(f, u), Known(users', u))
    BY <1>0, <1>1 DEF CopiesAgree
  <2>3. ASSUME NEW m \in Logins, OnPassword(login'[m]),
               NEW f \in UsersFile, Copy(f) \/ f = users'
        PROVE  Below(login'[m].version, Known(f, login'[m].user))
    <3>1. Copy(f)
      BY <1>0, <2>3
    <3>2. CASE OnPassword(login[m]) /\ login'[m].version = login[m].version
               /\ login'[m].user = login[m].user
      BY <1>1, <3>1, <3>2 DEF CopiesAgree
    <3>3. CASE /\ login'[m].user \in Users /\ ~ Known(users, login'[m].user).mfa
               /\ login'[m].version = Known(users, login'[m].user).version
      <4>1. Agree(Known(users, login'[m].user), Known(f, login'[m].user))
        BY <1>0, <1>1, <3>1, <3>3 DEF CopiesAgree
      <4>2. /\ Known(users, login'[m].user).version \in Nat
            /\ Known(f, login'[m].user).version \in Nat
            /\ Known(f, login'[m].user).mfa \in BOOLEAN
        BY <1>0, <3>3, KnownType
      <4> QED
        BY <3>3, <4>1, <4>2 DEF Agree, Below
    <3> QED
      BY <2>3, <3>2, <3>3
  <2> QED
    BY <1>0, <1>1, <2>1, <2>2, <2>3, CopiesStep
<1>2. \A m \in Logins : LoginRests(login'[m])
  BY DEF FilesInv
<1> QED
  BY <1>1, <1>2 DEF FilesInv

\* The recovery writes the file of its copy, with the version advanced.
LEMMA AdvanceVersionFiles ==
  ASSUME BaseInv, FilesInv, NEW l \in Logins, AdvanceVersion(l)
  PROVE  FilesInv'
<1> DEFINE u == login[l].user
           source == login[l].seen
<1>0. /\ login \in [Logins -> LoginType] /\ login[l] \in LoginType /\ users \in UsersFile
      /\ LoginKnows(login[l], sessions[l], clock) /\ LoginRests(login[l])
  BY DEF BaseInv, TypeOK, ActorsKnow, FilesInv
<1>1. /\ login[l].pc = "recovered" /\ u \in Users /\ source \in UsersFile
      /\ source[u] \in UserType /\ source[u].mfa /\ source[u] # None
  BY <1>0 DEF AdvanceVersion, LoginKnows, LoginRests, UsersFile
<1>2. /\ users' = [source EXCEPT ![u] = Advanced(source[u])]
      /\ undone' = (undone \/ l \notin fresh)
      /\ UNCHANGED <<admin, fresh>>
  BY DEF AdvanceVersion, Replaces
<1>3. /\ \A m \in Logins \ {l} : login'[m] = login[m]
      /\ login'[l].pc = "passed" /\ login'[l].how = "recovery"
  BY <1>0, <1>1 DEF AdvanceVersion, LoginRests, LoginType
<1>4. users' \in UsersFile
  BY <1>1, <1>2, AdvancedType DEF UsersFile
<1>5. ASSUME ~ undone' PROVE CopiesAgree'
  <2>1. l \in fresh /\ CopiesAgree
    BY <1>2, <1>5 DEF FilesInv
  <2>2. Copy(source)
    BY <1>1, <2>1 DEF Copy
  <2>3. /\ \A w \in Users \ {u} : users'[w] = source[w]
        /\ Known(users', u).mfa /\ Known(users', u).version > Known(source, u).version
    <3>1. Advanced(source[u]) \in UserType /\ users'[u] = Advanced(source[u])
      BY <1>1, <1>2, AdvancedType DEF UsersFile
    <3>2. users'[u] # None
      BY <3>1, SessionAssumption
    <3> QED
      BY <1>1, <1>2, <3>1, <3>2, AdvancedRises DEF Known, UsersFile
  <2>4. \A f \in UsersFile : Copy(f)' => Copy(f) \/ f = users'
    <3> SUFFICES ASSUME NEW f \in UsersFile, Copy(f)', f # users' PROVE Copy(f)
      OBVIOUS
    <3> QED
      BY <1>2, <1>3 DEF Copy
  <2> HIDE DEF u, source
  <2>5. \A f \in UsersFile, w \in Users : Copy(f) =>
          Agree(Known(users', w), Known(f, w)) /\ Agree(Known(f, w), Known(users', w))
    BY <1>1, <1>4, <2>1, <2>2, <2>3, WriteAgrees
  <2>6. ASSUME NEW m \in Logins, OnPassword(login'[m]), NEW f \in UsersFile, Copy(f) \/ f = users'
        PROVE  Below(login'[m].version, Known(f, login'[m].user))
    <3>1. login'[m] = login[m] /\ OnPassword(login[m])
      BY <1>3, <2>6 DEF OnPassword
    <3>2. CASE Copy(f)
      BY <2>1, <3>1, <3>2 DEF CopiesAgree
    <3>3. Below(login[m].version, Known(users', login[m].user))
      BY <1>1, <1>4, <2>1, <2>2, <2>3, <3>1, StaysBelow
    <3> QED
      BY <2>6, <3>1, <3>2, <3>3
  <2> QED
    BY <1>4, <2>1, <2>4, <2>5, <2>6, CopiesStep
<1>6. \A m \in Logins : LoginRests(login'[m])
  BY <1>3 DEF FilesInv, LoginRests
<1> QED
  BY <1>2, <1>5, <1>6 DEF FilesInv

\* Every step of a login keeps the copies in agreement.
LEMMA LogInFiles ==
  ASSUME BaseInv, FilesInv, NEW l \in Logins, Arrive(l) \/ LogIn(l)
  PROVE  FilesInv'
<1>0. /\ login \in [Logins -> LoginType] /\ login[l] \in LoginType /\ users \in UsersFile
      /\ LoginKnows(login[l], sessions[l], clock) /\ LoginRests(login[l]) /\ Copy(users)
  BY DEF BaseInv, TypeOK, ActorsKnow, FilesInv, Copy
<1>1. CASE AdvanceVersion(l)
  BY <1>1, AdvanceVersionFiles
<1>2. CASE ~ AdvanceVersion(l)
  <2>1. /\ UNCHANGED <<users, admin, undone>> /\ fresh \subseteq fresh' /\ fresh' \subseteq fresh \cup {l}
        /\ Load(l) \/ UNCHANGED fresh
    BY <1>2 DEF LogIn, Arrive, Attempt, Load, Reads, ClaimCounter, ClaimRecovery, ClearAttempts, Issue,
       tables, world, history
  <2>2. \A m \in Logins \ {l} : login'[m] = login[m]
    <3>1. CASE Arrive(l)
      <4>1. \E new \in LoginType : login' = [login EXCEPT ![l] = new]
        BY <3>1, Arrives
      <4> QED
        BY <1>0, <4>1
    <3> QED
      BY <1>0, <1>2, <3>1 DEF LogIn, Attempt, PassThrottle, LoginGoto, Load, ClaimCounter,
         ClaimRecovery, ClearAttempts, Issue
  <2>3. CASE login'[l].pc \in {"arrived", "claimed", "failed"}
    BY <2>1, <2>2, <2>3, LoginKeepsCopies DEF LoginRests, OnPassword
  <2>4. CASE Arrive(l)
    <3>1. login'[l].pc = "arrived"
      BY <1>0, <2>4, Arrives
    <3> QED
      BY <2>3, <3>1
  <2>5. CASE Attempt(l)
    <3>1. login'[l].pc \in {"claimed", "failed"}
      BY <1>0, <2>5 DEF Attempt, PassThrottle, LoginGoto, LoginType
    <3> QED
      BY <2>3, <3>1
  <2>6. CASE LoginGoto(l, "failed")
    <3>1. login'[l].pc = "failed"
      BY <1>0, <2>6 DEF LoginGoto, LoginType
    <3> QED
      BY <2>3, <3>1
  <2>7. CASE Load(l)
    <3> DEFINE u == login[l].user
    <3>1. u \in Users
      BY <1>0, <2>7 DEF Load, LoginKnows
    <3>2. CASE Usable(users, u) /\ login[l].password
      <4>1. /\ login'[l].seen = users /\ login'[l].version = users[u].version
            /\ login'[l].pc = IF users[u].mfa THEN "challenged" ELSE "passed"
            /\ login'[l].how = IF users[u].mfa THEN None ELSE "password"
            /\ login'[l].user = u
        BY <1>0, <2>7, <3>2 DEF Load, LoginType
      <4>2. users[u] # None /\ Known(users, u) = users[u]
        BY <3>2 DEF Usable, Known
      <4>3. LoginRests(login'[l])
        BY <4>1 DEF LoginRests
      <4>4. CASE users[u].mfa
        <5>1. login'[l].pc = "challenged" /\ Copy(login'[l].seen)
          BY <1>0, <4>1, <4>4
        <5> QED
          BY <2>1, <2>2, <4>3, <5>1, LoginKeepsCopies DEF OnPassword
      <4>5. CASE ~ users[u].mfa
        <5>1. /\ login'[l].pc = "passed" /\ login'[l].user \in Users
              /\ ~ Known(users, login'[l].user).mfa
              /\ login'[l].version = Known(users, login'[l].user).version
          BY <3>1, <4>1, <4>2, <4>5
        <5> QED
          BY <2>1, <2>2, <4>3, <5>1, LoginKeepsCopies
      <4> QED
        BY <4>4, <4>5
    <3> QED
      BY <2>6, <2>7, <3>2 DEF Load
  <2>8. CASE ClaimCounter(l)
    <3>1. ASSUME login' = [login EXCEPT ![l].pc = "passed", ![l].used = login[l].totp, ![l].how = "totp"]
          PROVE  FilesInv'
      <4>1. login'[l].pc = "passed" /\ login'[l].how = "totp"
        BY <1>0, <3>1 DEF LoginType
      <4> QED
        BY <2>1, <2>2, <4>1, LoginKeepsCopies DEF LoginRests, OnPassword
    <3> QED
      BY <2>6, <2>8, <3>1 DEF ClaimCounter
  <2>9. CASE ClaimRecovery(l)
    <3>1. login[l].pc = "challenged" /\ UNCHANGED fresh
      BY <2>9 DEF ClaimRecovery, world, history
    <3>2. ASSUME login' = [login EXCEPT ![l].pc = "recovered", ![l].used = login[l].code,
                             ![l].how = "recovery"]
          PROVE  FilesInv'
      <4>1. /\ login'[l].pc = "recovered" /\ login'[l].how = "recovery"
            /\ login'[l].seen = login[l].seen /\ login'[l].user = login[l].user
        BY <1>0, <3>2 DEF LoginType
      <4>2. LoginRests(login'[l]) /\ ~ OnPassword(login'[l])
        BY <1>0, <3>1, <4>1 DEF LoginRests, OnPassword
      <4>3. l \in fresh' => Copy(login'[l].seen)
        BY <3>1, <4>1 DEF Copy
      <4> QED
        BY <2>1, <2>2, <4>2, <4>3, LoginKeepsCopies
    <3> QED
      BY <2>6, <2>9, <3>2 DEF ClaimRecovery
  <2>10. CASE ClearAttempts(l) \/ Issue(l)
    <3>1. /\ login[l].pc \in {"passed", "cleared"} /\ login'[l].pc \in {"cleared", "done"}
          /\ login'[l].how = login[l].how /\ login'[l].version = login[l].version
          /\ login'[l].user = login[l].user
      BY <1>0, <2>10 DEF ClearAttempts, Issue, LoginGoto, LoginType
    <3>2. LoginRests(login'[l]) /\ (OnPassword(login'[l]) => OnPassword(login[l]))
      BY <1>0, <3>1 DEF LoginRests, OnPassword
    <3> QED
      BY <2>1, <2>2, <3>1, <3>2, LoginKeepsCopies
  <2> QED
    BY <1>2, <2>4, <2>5, <2>7, <2>8, <2>9, <2>10 DEF LogIn
<1> QED
  BY <1>1, <1>2

\* What a command or an operator writes of its user, by what it has read.
LEMMA WrittenRises ==
  ASSUME BaseInv, FilesInv, NEW d \in Admins, WriteUsers(d)
  PROVE  LET u == admin[d].user
             source == admin[d].seen IN
         /\ u \in Users /\ source \in UsersFile /\ users' \in UsersFile
         /\ \A w \in Users \ {u} : users'[w] = source[w]
         /\ \/ /\ Known(users', u).mfa = Known(source, u).mfa
               /\ Known(users', u).version >= Known(source, u).version
               /\ d \notin Operators => Known(users', u).version = Known(source, u).version
            \/ Known(users', u).mfa /\ Known(users', u).version > Known(source, u).version
<1> DEFINE u == admin[d].user
           source == admin[d].seen
           kind == admin[d].kind
<1>0. /\ admin[d] \in AdminType /\ AdminKnows(admin[d]) /\ AdminRests(d, admin[d])
      /\ admin[d].pc = "writing"
  BY DEF BaseInv, TypeOK, ActorsKnow, FilesInv, WriteUsers
<1>1. /\ u \in Users /\ source \in UsersFile
      /\ kind \in IF d \in Operators THEN Edits ELSE Commands
      /\ kind # "add" => source[u] # None /\ source[u] \in UserType
      /\ kind = "add" => source[u] = None
      /\ kind = "generate" => source[u].mfa
  BY <1>0 DEF AdminKnows, AdminRests, UsersFile
<1>2. /\ users' = [source EXCEPT ![u] = Written(kind, source[u])]
      /\ Written(kind, source[u]) \in UserType
  BY <1>0, WrittenType DEF WriteUsers, Replaces
<1>3. /\ users' \in UsersFile /\ \A w \in Users \ {u} : users'[w] = source[w]
      /\ users'[u] = Written(kind, source[u])
  BY <1>1, <1>2 DEF UsersFile
<1>4. Known(users', u) = Written(kind, source[u])
  BY <1>2, <1>3, SessionAssumption DEF Known
<1>5. CASE kind = "add"
  <2>1. Known(source, u) = FreshUser /\ Known(users', u) = FreshUser
    BY <1>0, <1>1, <1>4, <1>5, WrittenType DEF Known
  <2>2. FreshUser.version \in Nat
    BY DEF FreshUser
  <2> QED
    BY <1>1, <1>3, <2>1, <2>2
<1>6. CASE kind # "add"
  <2>1. Known(source, u) = source[u] /\ source[u] \in UserType /\ source[u].version \in Nat
    BY <1>1, <1>6 DEF Known, UserType
  <2>2. CASE kind = "enable"
    <3>1. Known(users', u) = Advanced([source[u] EXCEPT !.mfa = TRUE])
      BY <1>0, <1>4, <2>2, WrittenType
    <3>2. Known(users', u).mfa /\ Known(users', u).version > Known(source, u).version
      BY <2>1, <3>1, AdvancedRises
    <3> QED
      BY <1>1, <1>3, <3>2
  <2>3. CASE kind \in {"generate", "increment"}
    <3>1. Known(users', u) = Advanced(source[u])
      BY <1>0, <1>4, <2>3, WrittenType
    <3>2. /\ Known(users', u).mfa = Known(source, u).mfa
          /\ Known(users', u).version > Known(source, u).version
          /\ Known(users', u).version \in Nat
      BY <1>2, <1>4, <2>1, <3>1, AdvancedRises DEF UserType
    <3>3. d \notin Operators => Known(users', u).mfa
      BY <1>1, <2>1, <2>3, <3>2 DEF Commands, Edits
    <3> QED
      BY <1>1, <1>3, <2>1, <3>2, <3>3
  <2>4. CASE kind = "deactivate"
    <3>1. Known(users', u) = [source[u] EXCEPT !.active = FALSE]
      BY <1>0, <1>4, <2>4, WrittenType
    <3>2. /\ Known(users', u).mfa = Known(source, u).mfa
          /\ Known(users', u).version = Known(source, u).version
      BY <2>1, <3>1 DEF UserType
    <3> QED
      BY <1>1, <1>3, <2>1, <3>2
  <2> QED
    BY <1>1, <1>6, <2>2, <2>3, <2>4 DEF Commands, Edits
<1> QED
  BY <1>5, <1>6

\* A command writes its copy back, or an operator saves it.
LEMMA WriteUsersFiles ==
  ASSUME BaseInv, FilesInv, NEW d \in Admins, WriteUsers(d)
  PROVE  FilesInv'
<1> DEFINE u == admin[d].user
           source == admin[d].seen
<1>0. admin \in [Admins -> AdminType] /\ admin[d].pc = "writing"
  BY DEF BaseInv, TypeOK, WriteUsers
<1>1. /\ u \in Users /\ source \in UsersFile /\ users' \in UsersFile
      /\ \A w \in Users \ {u} : users'[w] = source[w]
      /\ \/ /\ Known(users', u).mfa = Known(source, u).mfa
            /\ Known(users', u).version >= Known(source, u).version
            /\ d \notin Operators => Known(users', u).version = Known(source, u).version
         \/ Known(users', u).mfa /\ Known(users', u).version > Known(source, u).version
  BY WrittenRises
<1>2. /\ UNCHANGED login /\ undone' = (undone \/ d \notin fresh)
      /\ fresh' = IF d \in Operators THEN {} ELSE fresh
      /\ \A e \in Admins \ {d} : admin'[e] = admin[e]
      /\ admin'[d].pc = "done"
  BY <1>0 DEF WriteUsers, Replaces, AdminType
<1>3. ASSUME ~ undone' PROVE CopiesAgree'
  <2>1. d \in fresh /\ CopiesAgree
    BY <1>2, <1>3 DEF FilesInv
  <2>2. Copy(source)
    BY <1>0, <2>1 DEF Copy
  <2> HIDE DEF u, source
  <2>3. \A m \in Logins : OnPassword(login[m]) => Below(login[m].version, Known(users', login[m].user))
    BY <1>1, <2>1, <2>2, StaysBelow
  <2>4. CASE d \in Operators
    <3>1. \A f \in UsersFile : Copy(f)' => f = users'
      BY <1>2, <2>4 DEF Copy
    <3>2. \A w \in Users : Agree(Known(users', w), Known(users', w))
      BY DEF Agree
    <3>3. ASSUME NEW f \in UsersFile, NEW g \in UsersFile, Copy(f)', Copy(g)', NEW w \in Users
          PROVE  Agree(Known(f, w), Known(g, w))
      BY <3>1, <3>2, <3>3
    <3>4. ASSUME NEW m \in Logins, OnPassword(login[m]), NEW f \in UsersFile, Copy(f)'
          PROVE  Below(login[m].version, Known(f, login[m].user))
      BY <2>3, <3>1, <3>4
    <3> QED
      BY <1>2, <3>3, <3>4 DEF CopiesAgree, OnPassword, Below, Agree, Known
  <2>5. CASE d \notin Operators
    <3>1. \A f \in UsersFile : Copy(f)' => Copy(f) \/ f = users'
      <4> SUFFICES ASSUME NEW f \in UsersFile, Copy(f)', f # users' PROVE Copy(f)
        OBVIOUS
      <4> QED
        BY <1>2, <2>5 DEF Copy
    <3>2. \A f \in UsersFile, w \in Users : Copy(f) =>
            Agree(Known(users', w), Known(f, w)) /\ Agree(Known(f, w), Known(users', w))
      BY <1>1, <2>1, <2>2, <2>5, WriteAgrees
    <3>3. \A m \in Logins : OnPassword(login'[m]) =>
            \A f \in UsersFile : Copy(f) \/ f = users' =>
              Below(login'[m].version, Known(f, login'[m].user))
      BY <1>2, <2>1, <2>3 DEF CopiesAgree
    <3> QED
      BY <1>1, <2>1, <3>1, <3>2, <3>3, CopiesStep
  <2> QED
    BY <2>4, <2>5
<1>4. \A e \in Admins : AdminRests(e, admin'[e])
  BY <1>2 DEF FilesInv, AdminRests
<1> QED
  BY <1>2, <1>3, <1>4 DEF FilesInv

\* A step that leaves the users file and no login or command with a copy that
\* is new.
LEMMA QuietCopies ==
  ASSUME BaseInv, FilesInv, UNCHANGED <<users, undone>>,
         \A f \in UsersFile : Copy(f)' => Copy(f),
         \A l \in Logins : login'[l] = login[l] \/ login'[l].pc = "failed",
         \A d \in Admins : AdminRests(d, admin'[d])
  PROVE  FilesInv'
<1>0. users \in UsersFile /\ Copy(users)
  BY DEF BaseInv, TypeOK, Copy
<1>1. ASSUME CopiesAgree PROVE CopiesAgree'
  <2>1. \A f \in UsersFile, u \in Users : Copy(f) =>
          Agree(Known(users', u), Known(f, u)) /\ Agree(Known(f, u), Known(users', u))
    BY <1>0, <1>1 DEF CopiesAgree
  <2>2. ASSUME NEW l \in Logins, OnPassword(login'[l]),
               NEW f \in UsersFile, Copy(f) \/ f = users'
        PROVE  Below(login'[l].version, Known(f, login'[l].user))
    <3>1. login'[l] = login[l]
      BY <2>2 DEF OnPassword
    <3>2. OnPassword(login[l]) /\ Copy(f)
      BY <1>0, <2>2, <3>1
    <3> QED
      BY <1>1, <3>1, <3>2 DEF CopiesAgree
  <2> QED
    BY <1>0, <1>1, <2>1, <2>2, CopiesStep
<1>2. \A l \in Logins : LoginRests(login'[l])
  BY DEF FilesInv, LoginRests
<1> QED
  BY <1>1, <1>2 DEF FilesInv

\* A command or an operator reads the file.
LEMMA ReadUsersFiles ==
  ASSUME BaseInv, FilesInv, NEW d \in Admins, ReadUsers(d)
  PROVE  FilesInv'
<1>0. admin \in [Admins -> AdminType] /\ Copy(users) /\ users \in UsersFile
  BY DEF BaseInv, TypeOK, Copy
<1>1. PICK kind \in IF d \in Operators THEN Edits ELSE Commands, u \in Users :
        /\ Applicable(kind, u)
        /\ admin' = [admin EXCEPT ![d].kind = kind, ![d].user = u, ![d].seen = users,
                       ![d].pc = IF kind = "generate" THEN "generating" ELSE "writing"]
  BY DEF ReadUsers
<1>2. /\ UNCHANGED <<users, login, undone>> /\ fresh' = fresh \cup {d}
      /\ admin'[d].kind = kind /\ admin'[d].user = u /\ admin'[d].seen = users
      /\ \A e \in Admins \ {d} : admin'[e] = admin[e]
  BY <1>0, <1>1 DEF ReadUsers, Reads, AdminType
<1>3. \A f \in UsersFile : Copy(f)' => Copy(f)
  <2> SUFFICES ASSUME NEW f \in UsersFile, Copy(f)' PROVE Copy(f)
    OBVIOUS
  <2>1. CASE f = users'
    BY <1>0, <1>2, <2>1
  <2>2. CASE \E l \in Logins \cap fresh' :
               login'[l].pc \in {"challenged", "recovered"} /\ f = login'[l].seen
    BY <1>2, <2>2, SessionAssumption DEF Copy
  <2>3. CASE \E e \in Admins \cap fresh' :
               admin'[e].pc \in {"generating", "writing"} /\ f = admin'[e].seen
    BY <1>0, <1>2, <2>3 DEF Copy
  <2> QED
    BY <2>1, <2>2, <2>3 DEF Copy
<1>4. AdminRests(d, admin'[d])
  BY <1>1, <1>2 DEF AdminRests, Applicable, Edits, Commands
<1>5. \A e \in Admins : AdminRests(e, admin'[e])
  BY <1>2, <1>4 DEF FilesInv
<1> QED
  BY <1>2, <1>3, <1>5, QuietCopies

\* Every step keeps the copies in agreement.
LEMMA FilesStep == BaseInv /\ FilesInv /\ [Next]_vars => FilesInv'
<1> SUFFICES ASSUME BaseInv, FilesInv, [Next]_vars PROVE FilesInv'
  OBVIOUS
<1>0. login \in [Logins -> LoginType] /\ admin \in [Admins -> AdminType]
  BY DEF BaseInv, TypeOK
<1>1. ASSUME NEW d \in Admins, ReplaceCodes(d) PROVE FilesInv'
  <2>1. /\ UNCHANGED <<users, login, fresh, undone>> /\ admin[d].pc = "generating"
        /\ admin'[d].kind = admin[d].kind /\ admin'[d].user = admin[d].user
        /\ admin'[d].seen = admin[d].seen
        /\ \A e \in Admins \ {d} : admin'[e] = admin[e]
    BY <1>0, <1>1 DEF ReplaceCodes, AdminType, world, history
  <2>2. \A f \in UsersFile : Copy(f)' => Copy(f)
    BY <2>1 DEF Copy
  <2>3. \A e \in Admins : AdminRests(e, admin'[e])
    BY <2>1 DEF FilesInv, AdminRests
  <2> QED
    BY <2>1, <2>2, <2>3, QuietCopies
<1>2. CASE Fail
  <2>1. UNCHANGED <<users, fresh, undone>>
    BY <1>2 DEF Fail, history
  <2>2. \A l \in Logins : login'[l] = login[l] \/ login'[l].pc = "failed"
    BY <1>0, <1>2 DEF Fail, LoginGoto, LoginType
  <2>3. \A d \in Admins : admin'[d] = admin[d] \/ admin'[d].pc = "failed"
    BY <1>0, <1>2 DEF Fail, AdminType
  <2>4. \A f \in UsersFile : Copy(f)' => Copy(f)
    BY <2>1, <2>2, <2>3 DEF Copy
  <2>5. \A d \in Admins : AdminRests(d, admin'[d])
    BY <2>3 DEF FilesInv, AdminRests
  <2> QED
    BY <2>1, <2>2, <2>4, <2>5, QuietCopies
<1>3. ASSUME \/ \E k \in Callbacks : CallBack(k)
             \/ \E q \in Requests : CheckActive(q) \/ Admit(q) \/ Logout(q)
             \/ Tick \/ (\E s \in States : Begin(s)) \/ UNCHANGED vars
      PROVE  UNCHANGED <<users, login, admin, fresh, undone>>
  BY <1>3 DEF CallBack, ClaimState, AuthorizeIdentity, IssueFederated, CheckActive, Admit, Logout,
     Tick, Begin, vars, tables, actors, world, history
<1>4. ASSUME UNCHANGED <<users, login, admin, fresh, undone>> PROVE FilesInv'
  <2>1. \A f \in UsersFile : Copy(f)' => Copy(f)
    BY <1>4 DEF Copy
  <2>2. \A d \in Admins : AdminRests(d, admin'[d])
    BY <1>4 DEF FilesInv
  <2> QED
    BY <1>4, <2>1, <2>2, QuietCopies
<1> QED
  BY <1>1, <1>2, <1>3, <1>4, LogInFiles, ReadUsersFiles, WriteUsersFiles, EveryStep DEF Administer

\* The copies agree in every reachable state.
LEMMA FilesInvariant == Spec => []FilesInv
<1>1. Init => FilesInv
  <2> SUFFICES ASSUME Init PROVE FilesInv
    OBVIOUS
  <2>1. \A l \in Logins : LoginRests(login[l]) /\ ~ OnPassword(login[l])
    BY DEF Init, LoginRests, OnPassword
  <2>2. \A d \in Admins : AdminRests(d, admin[d])
    BY DEF Init, AdminRests
  <2>3. \A f \in UsersFile : Copy(f) => f = users
    BY DEF Init, Copy
  <2>4. \A u \in Users : Agree(Known(users, u), Known(users, u))
    BY DEF Agree
  <2> QED
    BY <2>1, <2>2, <2>3, <2>4 DEF FilesInv, CopiesAgree
<1> QED
  BY <1>1, FilesStep, BaseInvariant, PTL DEF Spec

\* However commands and logins overwrite each other's users file, and whatever
\* operators edit in it: a valid session of an enrolled user rests on a second
\* factor, until somebody writes back what he has read before an edit.
THEOREM SecondFactor == Spec => []EnrolledMeansSecondFactor
<1>1. BaseInv /\ FilesInv => EnrolledMeansSecondFactor
  <2> SUFFICES ASSUME BaseInv, FilesInv, ~ undone,
                      NEW l \in Logins, Valid(l), users[sessions[l].user].mfa
               PROVE  login[l].how \in {"totp", "recovery"}
    BY DEF EnrolledMeansSecondFactor
  <2>1. /\ login[l].pc = "done" /\ login[l].user = sessions[l].user
        /\ login[l].version = sessions[l].version /\ login[l].user \in Users
    BY DEF Valid, BaseInv, ActorsKnow, LoginKnows
  <2>2. users[login[l].user] # None /\ users[login[l].user].version = login[l].version
    BY <2>1 DEF Valid, Current, Usable
  <2>3. users \in UsersFile /\ Copy(users) /\ Known(users, login[l].user) = users[login[l].user]
    BY <2>2 DEF BaseInv, TypeOK, Copy, Known
  <2>4. Known(users, login[l].user).version \in Nat
    BY <2>1, <2>3, KnownType
  <2>5. login[l].how \in {"password", "totp", "recovery"}
    BY <2>1 DEF FilesInv, LoginRests
  <2>6. OnPassword(login[l]) => Below(login[l].version, Known(users, login[l].user))
    BY <2>3 DEF FilesInv, CopiesAgree
  <2> QED
    BY <2>1, <2>2, <2>3, <2>4, <2>5, <2>6 DEF OnPassword, Below
<1> QED
  BY <1>1, BaseInvariant, FilesInvariant, PTL

\* --------------------------------------------- TOTP counters, recovery codes

\* The codes of command d are not in the store yet.
Unissued(d) == admin[d].pc \in {"idle", "generating"}

Unproved(l) == login[l].pc \in {"idle", "arrived", "claimed", "challenged"}

\* What a login used is gone, and no command can bring it back: the counter is
\* past a TOTP code, and a recovery code is of no later generation.
FactorGone(l) ==
  /\ Unproved(l) => login[l].used = None
  /\ login[l].used \in Nat => login[l].used <= counters[login[l].user]
  /\ login[l].used \in Codes =>
       /\ login[l].used \notin recovery[login[l].user]
       /\ \A d \in Admins : Unissued(d) => login[l].used \notin NewCodes[d]

\* A code of the table is an initial or an issued one, and what was used is gone.
FactorInv ==
  /\ \A u \in Users : \A c \in recovery[u] :
       c \in InitialCodes[u] \/ \E d \in Admins : ~ Unissued(d) /\ c \in NewCodes[d]
  /\ \A l \in Logins : FactorGone(l)
  /\ FactorUsedOnce

\* A step that neither uses a factor nor issues codes.
LEMMA QuietStep ==
  ASSUME BaseInv, FactorInv, UNCHANGED <<counters, recovery>>,
         \A l \in Logins :
           /\ login'[l].used = login[l].used
           /\ login[l].used # None => login'[l].user = login[l].user
           /\ Unproved(l)' => Unproved(l),
         \A d \in Admins : Unissued(d)' => Unissued(d)
  PROVE  FactorInv'
<1>1. \A l \in Logins : FactorGone(l)'
  BY SessionAssumption DEF FactorInv, FactorGone
<1>2. FactorUsedOnce'
  BY DEF FactorInv, FactorUsedOnce
<1> QED
  BY <1>1, <1>2 DEF FactorInv

\* A login that used a factor, and the factor that no one else used.
LEMMA UsesFactor ==
  ASSUME BaseInv, FactorInv, NEW l \in Logins, FactorGone(l)', ~ Unproved(l)',
         login'[l].user = login[l].user, login[l].user \in Users,
         \A m \in Logins \ {l} : login'[m] = login[m], UNCHANGED admin,
         \A m \in Logins \ {l} : login[m].user = login[l].user => login[m].used # login'[l].used,
         \A u \in Users : recovery'[u] \subseteq recovery[u],
         counters \in [Users -> Nat \cup {-1}], counters' \in [Users -> Nat \cup {-1}],
         \A u \in Users : counters[u] <= counters'[u]
  PROVE  FactorInv'
<1>1. ASSUME NEW m \in Logins PROVE FactorGone(m)'
  <2>1. CASE m = l
    BY <2>1
  <2>2. CASE m # l
    <3>1. login'[m] = login[m] /\ FactorGone(m) /\ login[m] \in LoginType
      BY <2>2 DEF FactorInv, BaseInv, TypeOK
    <3>2. login[m].used # None => login[m].user \in Users
      BY <3>1 DEF FactorGone, Unproved, BaseInv, ActorsKnow, LoginKnows
    <3>3. Unproved(m)' <=> Unproved(m)
      BY <3>1 DEF Unproved
    <3>4. login[m].used \in Nat => login[m].used <= counters'[login[m].user]
      <4> SUFFICES ASSUME login[m].used \in Nat PROVE login[m].used <= counters'[login[m].user]
        OBVIOUS
      <4>1. login[m].user \in Users
        BY <3>2, SessionAssumption
      <4>2. /\ counters[login[m].user] \in Int /\ counters'[login[m].user] \in Int
            /\ counters[login[m].user] <= counters'[login[m].user]
        BY <4>1
      <4>3. login[m].used <= counters[login[m].user]
        BY <3>1 DEF FactorGone
      <4> QED
        BY <4>2, <4>3
    <3>5. login[m].used \in Codes => login[m].used \notin recovery'[login[m].user]
      BY <3>1, <3>2, SessionAssumption DEF FactorGone
    <3>6. \A d \in Admins : Unissued(d)' <=> Unissued(d)
      BY DEF Unissued
    <3> QED
      BY <3>1, <3>3, <3>4, <3>5, <3>6 DEF FactorGone
  <2> QED
    BY <2>1, <2>2
<1>2. FactorUsedOnce'
  BY DEF FactorInv, FactorUsedOnce
<1>3. \A u \in Users : \A c \in recovery'[u] :
        c \in InitialCodes[u] \/ \E d \in Admins : ~ Unissued(d)' /\ c \in NewCodes[d]
  BY DEF FactorInv, Unissued
<1> QED
  BY <1>1, <1>2, <1>3 DEF FactorInv

\* The claimed counter is above every one that was used.
LEMMA CounterFactor ==
  ASSUME BaseInv, FactorInv, NEW l \in Logins, login[l].pc = "challenged", TotpVerified(l),
         counters[login[l].user] < login[l].totp,
         counters' = [counters EXCEPT ![login[l].user] = login[l].totp],
         login' = [login EXCEPT ![l].pc = "passed", ![l].used = login[l].totp, ![l].how = "totp"],
         UNCHANGED <<recovery, admin>>
  PROVE  FactorInv'
<1> DEFINE u == login[l].user
           t == login[l].totp
<1>1. /\ login \in [Logins -> LoginType] /\ login[l] \in LoginType
      /\ counters \in [Users -> Nat \cup {-1}]
      /\ u \in Users
  BY DEF BaseInv, TypeOK, ActorsKnow, LoginKnows
<1>2. t \in Nat
  BY <1>1 DEF TotpVerified, LoginType
<1>3. /\ login'[l].pc = "passed" /\ login'[l].used = t /\ login'[l].user = u
      /\ \A m \in Logins \ {l} : login'[m] = login[m]
  BY <1>1 DEF LoginType
<1>4. /\ counters' \in [Users -> Nat \cup {-1}] /\ counters'[u] = t
      /\ \A w \in Users \ {u} : counters'[w] = counters[w]
  BY <1>1, <1>2
<1>5. t \notin Codes
  BY <1>2, SessionAssumption
<1>6. FactorGone(l)' /\ ~ Unproved(l)'
  BY <1>2, <1>3, <1>4, <1>5 DEF FactorGone, Unproved
<1>7. \A w \in Users : counters[w] <= counters'[w]
  BY <1>1, <1>2, <1>4
<1>8. ASSUME NEW m \in Logins \ {l}, login[m].user = u PROVE login[m].used # t
  BY <1>1, <1>2, <1>8 DEF FactorInv, FactorGone
<1> QED
  BY <1>1, <1>3, <1>4, <1>6, <1>7, <1>8, UsesFactor

\* The claimed code leaves the table, to which it never returns.
LEMMA RecoveryFactor ==
  ASSUME BaseInv, FactorInv, NEW l \in Logins, login[l].pc = "challenged",
         login[l].code \in recovery[login[l].user],
         recovery' = [recovery EXCEPT ![login[l].user] = @ \ {login[l].code}],
         login' = [login EXCEPT ![l].pc = "recovered", ![l].used = login[l].code,
                                ![l].how = "recovery"],
         UNCHANGED <<counters, admin>>
  PROVE  FactorInv'
<1> DEFINE u == login[l].user
           c == login[l].code
<1>1. /\ login \in [Logins -> LoginType] /\ login[l] \in LoginType
      /\ counters \in [Users -> Nat \cup {-1}] /\ recovery \in [Users -> SUBSET Codes]
      /\ u \in Users
  BY DEF BaseInv, TypeOK, ActorsKnow, LoginKnows
<1>2. c \in Codes /\ c \notin Nat
  BY <1>1, SessionAssumption
<1>3. /\ login'[l].pc = "recovered" /\ login'[l].used = c /\ login'[l].user = u
      /\ \A m \in Logins \ {l} : login'[m] = login[m]
  BY <1>1 DEF LoginType
<1>4. c \notin recovery'[u] /\ \A w \in Users : recovery'[w] \subseteq recovery[w]
  BY <1>1
<1>5. ASSUME NEW d \in Admins, Unissued(d) PROVE c \notin NewCodes[d]
  <2>1. c \in InitialCodes[u] \/ \E e \in Admins : ~ Unissued(e) /\ c \in NewCodes[e]
    BY <1>1 DEF FactorInv
  <2> QED
    BY <1>1, <1>5, <2>1, SessionAssumption
<1>6. FactorGone(l)' /\ ~ Unproved(l)'
  BY <1>2, <1>3, <1>4, <1>5 DEF FactorGone, Unproved, Unissued
<1>7. \A w \in Users : counters[w] <= counters'[w]
  BY <1>1
<1>8. ASSUME NEW m \in Logins \ {l}, login[m].user = u PROVE login[m].used # c
  BY <1>2, <1>8 DEF FactorInv, FactorGone
<1> QED
  BY <1>1, <1>3, <1>4, <1>6, <1>7, <1>8, UsesFactor

\* The steps of a login.
LEMMA LogInFactor ==
  ASSUME BaseInv, FactorInv, NEW l \in Logins, Arrive(l) \/ LogIn(l)
  PROVE  FactorInv'
<1>0. login \in [Logins -> LoginType] /\ login[l] \in LoginType /\ FactorGone(l)
  BY DEF BaseInv, TypeOK, FactorInv
<1>1. ASSUME UNCHANGED <<counters, recovery, admin>>,
             \A m \in Logins \ {l} : login'[m] = login[m],
             login'[l].used = login[l].used,
             login[l].used # None => login'[l].user = login[l].user,
             Unproved(l)' => Unproved(l)
      PROVE  FactorInv'
  <2>1. \A m \in Logins :
          /\ login'[m].used = login[m].used
          /\ login[m].used # None => login'[m].user = login[m].user
          /\ Unproved(m)' => Unproved(m)
    BY <1>1 DEF Unproved
  <2>2. \A d \in Admins : Unissued(d)' => Unissued(d)
    BY <1>1 DEF Unissued
  <2> QED
    BY <1>1, <2>1, <2>2, QuietStep
<1>2. CASE Arrive(l)
  <2>1. PICK new \in LoginType :
          login' = [login EXCEPT ![l] = new] /\ new.pc = "arrived" /\ new.used = login[l].used
    BY <1>2, Arrives
  <2>2. login[l].pc = "idle" /\ UNCHANGED <<counters, recovery, admin>>
    BY <1>2 DEF Arrive, tables
  <2>3. Unproved(l) /\ login[l].used = None
    BY <1>0, <2>2 DEF Unproved, FactorGone
  <2>4. login'[l] = new /\ \A m \in Logins \ {l} : login'[m] = login[m]
    BY <1>0, <2>1
  <2> QED
    BY <1>1, <2>1, <2>2, <2>3, <2>4
<1>3. CASE LoginGoto(l, "failed") /\ UNCHANGED <<counters, recovery, admin>>
  <2>1. /\ login'[l].pc = "failed" /\ login'[l].used = login[l].used
        /\ login'[l].user = login[l].user
        /\ \A m \in Logins \ {l} : login'[m] = login[m]
    BY <1>0, <1>3 DEF LoginGoto, LoginType
  <2> QED
    BY <1>1, <1>3, <2>1 DEF Unproved
<1>4. CASE Attempt(l) \/ Load(l)
  <2>1. login[l].pc \in {"arrived", "claimed"} /\ UNCHANGED <<counters, recovery, admin>>
    BY <1>4 DEF Attempt, Load, tables
  <2>2. /\ login'[l].used = login[l].used /\ login'[l].user = login[l].user
        /\ \A m \in Logins \ {l} : login'[m] = login[m]
    BY <1>0, <1>4 DEF Attempt, PassThrottle, Load, LoginGoto, LoginType
  <2> QED
    BY <1>1, <2>1, <2>2 DEF Unproved
<1>5. CASE ClaimCounter(l)
  BY <1>3, <1>5, CounterFactor DEF ClaimCounter
<1>6. CASE ClaimRecovery(l)
  BY <1>3, <1>6, RecoveryFactor DEF ClaimRecovery
<1>7. CASE AdvanceVersion(l) \/ ClearAttempts(l) \/ Issue(l)
  <2>1. UNCHANGED <<counters, recovery, admin>>
    BY <1>7 DEF AdvanceVersion, ClearAttempts, Issue, tables
  <2>2. /\ login'[l].used = login[l].used /\ login'[l].user = login[l].user
        /\ login'[l].pc \in {"passed", "cleared", "done"}
        /\ \A m \in Logins \ {l} : login'[m] = login[m]
    BY <1>0, <1>7 DEF AdvanceVersion, ClearAttempts, Issue, LoginGoto, LoginType
  <2> QED
    BY <1>1, <2>1, <2>2 DEF Unproved
<1> QED
  BY <1>2, <1>4, <1>5, <1>6, <1>7 DEF LogIn

\* The codes that a command issues are those of no login.
LEMMA ReplaceFactor ==
  ASSUME BaseInv, FactorInv, NEW d \in Admins, ReplaceCodes(d)
  PROVE  FactorInv'
<1>0. /\ admin \in [Admins -> AdminType] /\ recovery \in [Users -> SUBSET Codes]
      /\ admin[d].pc = "generating" /\ admin'[d].pc = "writing"
      /\ admin[d].user \in Users
      /\ recovery' = [recovery EXCEPT ![admin[d].user] = NewCodes[d]]
      /\ UNCHANGED <<login, counters>> /\ \A e \in Admins \ {d} : admin'[e] = admin[e]
  BY DEF BaseInv, TypeOK, ActorsKnow, AdminKnows, ReplaceCodes, AdminType
<1>1. Unissued(d) /\ ~ Unissued(d)' /\ \A e \in Admins \ {d} : Unissued(e)' <=> Unissued(e)
  BY <1>0 DEF Unissued
<1>2. ASSUME NEW u \in Users, NEW c \in recovery'[u]
      PROVE  c \in InitialCodes[u] \/ \E e \in Admins : ~ Unissued(e)' /\ c \in NewCodes[e]
  <2>1. CASE c \in NewCodes[d]
    BY <1>1, <2>1
  <2>2. CASE c \in recovery[u]
    BY <1>1, <2>2 DEF FactorInv
  <2> QED
    BY <1>0, <2>1, <2>2
<1>3. ASSUME NEW l \in Logins PROVE FactorGone(l)'
  <2>1. FactorGone(l) /\ (Unproved(l)' <=> Unproved(l))
    BY <1>0 DEF FactorInv, Unproved
  <2>2. ASSUME login[l].used \in Codes
        PROVE  /\ login[l].used \notin recovery'[login[l].user]
               /\ \A e \in Admins : Unissued(e)' => login[l].used \notin NewCodes[e]
    <3>0. login[l].user \in Users
      <4>1. login[l].used # None
        BY <2>2, SessionAssumption
      <4> QED
        BY <2>1, <4>1 DEF FactorGone, Unproved, BaseInv, ActorsKnow, LoginKnows
    <3>1. login[l].used \notin NewCodes[d] /\ login[l].used \notin recovery[login[l].user]
      BY <1>1, <2>1, <2>2 DEF FactorGone
    <3>2. login[l].used \notin recovery'[login[l].user]
      BY <1>0, <3>0, <3>1
    <3> QED
      BY <1>1, <2>1, <2>2, <3>2 DEF FactorGone
  <2> QED
    BY <1>0, <2>1, <2>2 DEF FactorGone
<1>4. FactorUsedOnce'
  BY <1>0 DEF FactorInv, FactorUsedOnce
<1> QED
  BY <1>2, <1>3, <1>4 DEF FactorInv

\* Every step keeps the used factors gone.
LEMMA FactorStep == BaseInv /\ FactorInv /\ [Next]_vars => FactorInv'
<1> SUFFICES ASSUME BaseInv, FactorInv, [Next]_vars PROVE FactorInv'
  OBVIOUS
<1>0. login \in [Logins -> LoginType] /\ admin \in [Admins -> AdminType]
  BY DEF BaseInv, TypeOK
<1>1. CASE UNCHANGED <<counters, recovery, login>> /\ \A d \in Admins : Unissued(d)' => Unissued(d)
  BY <1>1, QuietStep DEF Unproved
<1>2. ASSUME NEW d \in Admins, ReadUsers(d) \/ WriteUsers(d) PROVE FactorInv'
  <2>1. UNCHANGED <<counters, recovery, login>>
    BY <1>2 DEF ReadUsers, WriteUsers, tables
  <2>2. \A e \in Admins \ {d} : admin'[e] = admin[e]
    BY <1>0, <1>2 DEF ReadUsers, WriteUsers
  <2>3. Unissued(d)' => Unissued(d)
    <3>1. CASE ReadUsers(d)
      BY <3>1 DEF ReadUsers, Unissued
    <3>2. CASE WriteUsers(d)
      <4>1. admin'[d].pc = "done"
        BY <1>0, <3>2 DEF WriteUsers, AdminType
      <4> QED
        BY <4>1 DEF Unissued
    <3> QED
      BY <1>2, <3>1, <3>2
  <2> QED
    BY <1>1, <2>1, <2>2, <2>3 DEF Unissued
<1>3. CASE Fail
  <2>1. UNCHANGED <<counters, recovery>>
    BY <1>3 DEF Fail, tables
  <2>2. \A l \in Logins :
          /\ login'[l].used = login[l].used /\ login'[l].user = login[l].user
          /\ login'[l].pc \in {login[l].pc, "failed"}
    BY <1>0, <1>3 DEF Fail, LoginGoto, LoginType
  <2>3. \A d \in Admins : admin'[d].pc \in {admin[d].pc, "failed"}
    BY <1>0, <1>3 DEF Fail, AdminType
  <2> QED
    BY <2>1, <2>2, <2>3, QuietStep DEF Unproved, Unissued
<1>4. ASSUME \/ \E k \in Callbacks : CallBack(k)
             \/ \E q \in Requests : CheckActive(q) \/ Admit(q) \/ Logout(q)
             \/ Tick \/ (\E s \in States : Begin(s)) \/ UNCHANGED vars
      PROVE  UNCHANGED <<counters, recovery, login, admin>>
  BY <1>4 DEF CallBack, ClaimState, AuthorizeIdentity, IssueFederated, CheckActive, Admit, Logout,
     Tick, Begin, vars, tables, actors
<1>5. UNCHANGED <<counters, recovery, login, admin>> => FactorInv'
  BY <1>1 DEF Unissued
<1> QED
  BY <1>2, <1>3, <1>4, <1>5, LogInFactor, ReplaceFactor, EveryStep DEF Administer

\* A TOTP counter and a recovery code let one login of a user pass, for any
\* number of concurrent logins and of commands that replace codes.
THEOREM FactorOnce == Spec => []FactorUsedOnce
<1>1. Init => FactorInv
  BY SessionAssumption DEF Init, FactorInv, FactorGone, FactorUsedOnce, Unproved
<1>2. FactorInv => FactorUsedOnce
  BY DEF FactorInv
<1> QED
  BY <1>1, <1>2, FactorStep, BaseInvariant, PTL DEF Spec

\* ---------------------------------------------------------- login attempts

\* The windows of a clock that advances.
LEMMA WindowsPass ==
  ASSUME NEW a \in Nat, NEW b \in Nat, NEW w \in Nat \ {0}, a <= b
  PROVE  /\ a \div w \in Nat /\ b \div w \in Nat /\ a \div w <= b \div w
         /\ b - a >= w => a \div w + 1 <= b \div w
<1> DEFINE p == a \div w
           q == b \div w
<1>1. /\ p \in Nat /\ w * p <= a /\ a < w * (p + 1)
      /\ q \in Nat /\ w * q <= b /\ b < w * (q + 1)
  OBVIOUS
<1> HIDE DEF p, q
<1>2. w * p < w * (q + 1)
  <2>1. w * p \in Nat /\ w * (q + 1) \in Nat
    BY <1>1
  <2> QED
    BY <1>1, <2>1
<1>3. p <= q
  BY <1>1, <1>2
<1>4. ASSUME b - a >= w PROVE p + 1 <= q
  <2>1. w * (p + 1) = w * p + w /\ w * p \in Nat /\ w * (q + 1) \in Nat
    BY <1>1
  <2>2. w * (p + 1) < w * (q + 1)
    BY <1>1, <1>4, <2>1
  <2>3. p + 1 \in Nat
    BY <1>1
  <2> QED
    BY <1>1, <2>2, <2>3
<1> QED
  BY <1>1, <1>3, <1>4 DEF p, q

\* The allowance of whole windows, as windows pass.
LEMMA AllowanceGrows ==
  ASSUME NEW p \in Nat, NEW q \in Nat, p <= q
  PROVE  /\ Limit * p \in Nat /\ Limit * q \in Nat /\ Limit * p <= Limit * q
         /\ Limit * (p + 1) = Limit * p + Limit /\ Limit * (1 + p) = Limit * p + Limit
         /\ p + 1 <= q => Limit * p + Limit <= Limit * q
<1>1. Limit \in Nat \ {0}
  BY SessionAssumption
<1>2. Limit * p \in Nat /\ Limit * q \in Nat
  BY <1>1
<1>3. Limit * (p + 1) = Limit * p + Limit /\ Limit * (1 + p) = Limit * p + Limit
  BY <1>1
<1>4. Limit * p <= Limit * q
  BY <1>1
<1>5. p + 1 <= q => Limit * (p + 1) <= Limit * q
  BY <1>1
<1> QED
  BY <1>2, <1>3, <1>4, <1>5

\* The logins of u that got past the throttle.
Tries(u) == {l \in Logins : login[l].user = u /\ login[l].throttle = "passed"}

Untouched(u) == \A l \in Logins : login[l].user = u => login[l].throttle # "reset"

\* Of a user nobody has logged in as yet, the table counts every attempt of the
\* open window, and each window before it allowed no more than Limit.
Budget(u) ==
  /\ IsFiniteSet(Tries(u))
  /\ attempts[u] = None => Tries(u) = {}
  /\ attempts[u] # None =>
       /\ attempts[u].started <= clock
       /\ Cardinality(Tries(u)) <= Limit * (attempts[u].started \div Window) + attempts[u].count

Untried(l) == login[l].pc \in {"idle", "arrived"} => login[l].throttle = "none"

\* While no login of a user has succeeded, its attempts are within the budget.
ThrottleInv ==
  /\ \A l \in Logins : Untried(l)
  /\ \A u \in Users : Untouched(u) => Budget(u)

\* A step of one login, or none, that counts nothing.
LEMMA CountsNothing ==
  ASSUME BaseInv, ThrottleInv, clock <= clock', clock' \in Nat, UNCHANGED attempts,
         \A l \in Logins :
           /\ Untried(l)'
           /\ login'[l].throttle = login[l].throttle
           /\ login[l].throttle # "none" => login'[l].user = login[l].user
  PROVE  ThrottleInv'
<1>1. ASSUME NEW u \in Users, Untouched(u)' PROVE Budget(u)'
  <2>1. Untouched(u)
    BY <1>1 DEF Untouched
  <2>2. Budget(u)
    BY <2>1 DEF ThrottleInv
  <2>3. Tries(u)' = Tries(u)
    BY DEF Tries
  <2>4. attempts[u] # None => attempts[u].started \in Nat /\ clock \in Nat
    BY SessionAssumption DEF BaseInv, TypeOK, WindowType
  <2>5. attempts[u] # None => attempts[u].started <= clock'
    BY <2>2, <2>4 DEF Budget
  <2> QED
    BY <2>2, <2>3, <2>5 DEF Budget
<1> QED
  BY <1>1 DEF ThrottleInv

\* The attempt that gets past the throttle is counted in the window it is in.
LEMMA PassesThrottle ==
  ASSUME BaseInv, ThrottleInv, NEW l \in Logins, login[l].pc = "arrived", PassThrottle(l),
         WindowOver(l) \/ attempts[login[l].user].count < Limit, UNCHANGED clock
  PROVE  ThrottleInv'
<1> PICK u \in Users : u = login[l].user
  BY DEF BaseInv, ActorsKnow, LoginKnows
<1> DEFINE a == attempts[u]
           b == attempts'[u]
<1>0. /\ login \in [Logins -> LoginType] /\ login[l] \in LoginType
      /\ attempts \in [Users -> WindowType \cup {None}] /\ clock \in Nat
      /\ u \in Users /\ login[l].now \in Nat /\ login[l].now <= clock
      /\ login[l].throttle = "none"
  <2>1. Untried(l) /\ clock \in 0..MaxClock /\ MaxClock \in Nat
    BY SessionAssumption DEF ThrottleInv, BaseInv, TypeOK
  <2> QED
    BY <2>1 DEF BaseInv, TypeOK, ActorsKnow, LoginKnows, LoginType, Untried
<1>1. /\ login'[l].pc = "claimed" /\ login'[l].throttle = "passed" /\ login'[l].user = u
      /\ \A m \in Logins \ {l} : login'[m] = login[m]
  BY <1>0 DEF PassThrottle, LoginType
<1>2. /\ b = Counted(l) /\ \A w \in Users \ {u} : attempts'[w] = attempts[w]
  BY <1>0 DEF PassThrottle
<1>3. \A m \in Logins : Untried(m)'
  BY <1>1 DEF ThrottleInv, Untried
<1>4. /\ Tries(u)' = Tries(u) \cup {l} /\ l \notin Tries(u)
      /\ \A w \in Users \ {u} : Tries(w)' = Tries(w)
  BY <1>0, <1>1 DEF Tries
<1>5. ASSUME NEW w \in Users \ {u}, Untouched(w)' PROVE Budget(w)'
  <2>1. Untouched(w)
    BY <1>1, <1>5 DEF Untouched
  <2>2. Budget(w)
    BY <2>1 DEF ThrottleInv
  <2> QED
    BY <1>2, <1>4, <2>2 DEF Budget
<1>6. ASSUME Untouched(u)' PROVE Budget(u)'
  <2>1. Untouched(u)
    BY <1>0, <1>1, <1>6 DEF Untouched
  <2>2. Budget(u)
    BY <1>0, <2>1 DEF ThrottleInv
  <2> DEFINE n == Cardinality(Tries(u))
             m == Cardinality(Tries(u)')
  <2>3. /\ IsFiniteSet(Tries(u)') /\ n \in Nat /\ m = n + 1
    BY <1>4, <2>2, FS_AddElement, FS_CardinalityType DEF Budget
  <2>4. a # None => a \in WindowType /\ a.started \in Nat /\ a.count \in 1..Limit
    BY <1>0 DEF WindowType
  <2>5. Limit \in Nat \ {0} /\ Window \in Nat \ {0} /\ None \notin WindowType
    BY SessionAssumption
  <2>6. /\ b # None /\ b.started \in Nat /\ b.count \in Nat /\ b.started <= clock
        /\ m <= Limit * (b.started \div Window) + b.count
    <3>1. CASE WindowOver(l)
      <4>1. b = [started |-> login[l].now, count |-> 1]
        BY <1>2, <3>1 DEF Counted
      <4>2. b \in WindowType /\ b.started = login[l].now /\ b.count = 1
        BY <1>0, <2>5, <4>1 DEF WindowType
      <4>3. CASE a = None
        <5>1. n = 0
          BY <2>2, <4>3, FS_EmptySet DEF Budget
        <5>2. Limit * (login[l].now \div Window) \in Nat
          BY <1>0, <2>5, WindowsPass, AllowanceGrows
        <5> QED
          BY <1>0, <2>3, <2>5, <4>2, <5>1, <5>2
      <4>4. CASE a # None
        <5>1. login[l].now - a.started >= Window
          BY <3>1, <4>4 DEF WindowOver
        <5>2. a.started <= login[l].now
          BY <1>0, <2>4, <2>5, <4>4, <5>1
        <5> DEFINE p == a.started \div Window
                   q == login[l].now \div Window
        <5>3. p \in Nat /\ q \in Nat /\ p <= q /\ p + 1 <= q
          BY <1>0, <2>4, <2>5, <4>4, <5>1, <5>2, WindowsPass
        <5>4. n <= Limit * p + a.count
          BY <2>2, <4>4 DEF Budget
        <5> HIDE DEF p, q
        <5>5. Limit * p \in Nat /\ Limit * q \in Nat /\ Limit * p + Limit <= Limit * q
          BY <5>3, AllowanceGrows
        <5>6. n + 1 <= Limit * q + 1
          BY <2>3, <2>4, <2>5, <4>4, <5>4, <5>5
        <5> QED
          BY <1>0, <2>3, <2>5, <4>2, <5>6 DEF q
      <4> QED
        BY <4>3, <4>4
    <3>2. CASE ~ WindowOver(l)
      <4>1. a # None /\ b = [a EXCEPT !.count = @ + 1]
        BY <1>2, <3>2 DEF Counted, WindowOver
      <4>2. a.count < Limit
        BY <3>2
      <4>3. a.count + 1 \in 1..Limit /\ a.count \in Nat
        BY <2>4, <2>5, <4>1, <4>2
      <4>4. b \in WindowType /\ b.started = a.started /\ b.count = a.count + 1
        BY <2>4, <4>1, <4>3 DEF WindowType
      <4>5. n <= Limit * (a.started \div Window) + a.count /\ a.started <= clock
        BY <2>2, <4>1 DEF Budget
      <4>6. Limit * (a.started \div Window) \in Nat
        BY <2>4, <2>5, <4>1, WindowsPass, AllowanceGrows
      <4>7. n + 1 <= Limit * (a.started \div Window) + (a.count + 1)
        BY <2>3, <4>3, <4>5, <4>6
      <4> QED
        BY <2>3, <2>4, <2>5, <4>1, <4>3, <4>4, <4>5, <4>7
    <3> QED
      BY <3>1, <3>2
  <2> QED
    BY <2>3, <2>6 DEF Budget
<1> QED
  BY <1>3, <1>5, <1>6 DEF ThrottleInv

\* A login that succeeds: its user is no longer one that nobody logged in as.
LEMMA ResetThrottle ==
  ASSUME BaseInv, ThrottleInv, NEW l \in Logins, ClearAttempts(l)
  PROVE  ThrottleInv'
<1> DEFINE u == login[l].user
<1>0. /\ login \in [Logins -> LoginType] /\ login[l] \in LoginType
      /\ attempts \in [Users -> WindowType \cup {None}] /\ u \in Users /\ UNCHANGED clock
  BY DEF BaseInv, TypeOK, ActorsKnow, LoginKnows, ClearAttempts, world
<1>1. /\ login'[l].pc = "cleared" /\ login'[l].throttle = "reset" /\ login'[l].user = u
      /\ \A m \in Logins \ {l} : login'[m] = login[m]
  BY <1>0 DEF ClearAttempts, LoginType
<1>2. \A w \in Users \ {u} : attempts'[w] = attempts[w]
  BY <1>0 DEF ClearAttempts
<1>3. \A m \in Logins : Untried(m)'
  BY <1>1 DEF ThrottleInv, Untried
<1>4. ASSUME NEW w \in Users, Untouched(w)' PROVE Budget(w)'
  <2>1. w # u
    BY <1>1, <1>4 DEF Untouched
  <2>2. Untouched(w)
    BY <1>1, <1>4, <2>1 DEF Untouched
  <2>3. Budget(w) /\ Tries(w)' = Tries(w)
    BY <1>1, <2>1, <2>2 DEF ThrottleInv, Tries
  <2> QED
    BY <1>0, <1>2, <2>1, <2>3 DEF Budget
<1> QED
  BY <1>3, <1>4 DEF ThrottleInv

\* Every step keeps the attempts that passed within what was counted.
LEMMA ThrottleStep == BaseInv /\ ThrottleInv /\ [Next]_vars => ThrottleInv'
<1> SUFFICES ASSUME BaseInv, ThrottleInv, [Next]_vars PROVE ThrottleInv'
  OBVIOUS
<1>0. /\ login \in [Logins -> LoginType] /\ clock \in Nat /\ clock' \in Nat /\ clock <= clock'
      /\ \A m \in Logins : Untried(m)
  <2>1. clock \in 0..MaxClock /\ MaxClock \in Nat
    BY SessionAssumption DEF BaseInv, TypeOK
  <2>2. clock' = clock \/ clock' = clock + 1
    BY EveryStep DEF LogIn, Arrive, Attempt, Load, ClaimCounter, ClaimRecovery, AdvanceVersion,
       ClearAttempts, Issue, CallBack, ClaimState, AuthorizeIdentity, IssueFederated, CheckActive,
       Admit, Logout, Administer, ReadUsers, ReplaceCodes, WriteUsers, Fail, Tick,
       Begin, vars, world
  <2> QED
    BY <2>1, <2>2 DEF BaseInv, TypeOK, ThrottleInv
<1>1. ASSUME UNCHANGED attempts,
             \A m \in Logins : \/ login'[m] = login[m]
                               \/ /\ login'[m].pc \notin {"idle", "arrived"}
                                  /\ login'[m].throttle = login[m].throttle
                                  /\ login'[m].user = login[m].user
      PROVE  ThrottleInv'
  <2>1. \A m \in Logins :
          /\ Untried(m)'
          /\ login'[m].throttle = login[m].throttle
          /\ login'[m].user = login[m].user
    BY <1>0, <1>1 DEF Untried
  <2> QED
    BY <1>0, <1>1, <2>1, CountsNothing
<1>2. ASSUME NEW l \in Logins, Arrive(l) PROVE ThrottleInv'
  <2>1. PICK new \in LoginType :
          /\ login' = [login EXCEPT ![l] = new]
          /\ new.pc = "arrived" /\ new.throttle = login[l].throttle
    BY <1>2, Arrives
  <2>2. login[l].throttle = "none" /\ UNCHANGED attempts
    BY <1>0, <1>2 DEF Arrive, Untried, tables
  <2>3. \A m \in Logins :
          /\ Untried(m)'
          /\ login'[m].throttle = login[m].throttle
          /\ login[m].throttle # "none" => login'[m].user = login[m].user
    BY <1>0, <2>1, <2>2 DEF Untried
  <2> QED
    BY <1>0, <2>2, <2>3, CountsNothing
<1>3. ASSUME NEW l \in Logins, Attempt(l) PROVE ThrottleInv'
  <2>1. login[l].pc = "arrived" /\ UNCHANGED clock
    BY <1>3 DEF Attempt, world
  <2>2. CASE LoginGoto(l, "failed") /\ UNCHANGED attempts
    BY <1>0, <1>1, <2>2 DEF LoginGoto, LoginType
  <2> QED
    BY <1>3, <2>1, <2>2, PassesThrottle DEF Attempt
<1>4. ASSUME NEW l \in Logins,
             Load(l) \/ ClaimCounter(l) \/ ClaimRecovery(l) \/ AdvanceVersion(l) \/ Issue(l)
      PROVE  ThrottleInv'
  <2>1. UNCHANGED attempts /\ \A m \in Logins \ {l} : login'[m] = login[m]
    BY <1>0, <1>4 DEF Load, ClaimCounter, ClaimRecovery, AdvanceVersion, Issue, LoginGoto, tables
  <2>2. /\ login'[l].pc \notin {"idle", "arrived"}
        /\ login'[l].throttle = login[l].throttle /\ login'[l].user = login[l].user
    BY <1>0, <1>4 DEF Load, ClaimCounter, ClaimRecovery, AdvanceVersion, Issue, LoginGoto, LoginType
  <2> QED
    BY <1>1, <2>1, <2>2
<1>5. CASE Fail
  <2>1. UNCHANGED attempts
    BY <1>5 DEF Fail, tables
  <2>2. \A m \in Logins : \/ login'[m] = login[m]
                          \/ /\ login'[m].pc \notin {"idle", "arrived"}
                             /\ login'[m].throttle = login[m].throttle
                             /\ login'[m].user = login[m].user
    BY <1>0, <1>5 DEF Fail, LoginGoto, LoginType
  <2> QED
    BY <1>1, <2>1, <2>2
<1>6. ASSUME \/ \E k \in Callbacks : CallBack(k)
             \/ \E q \in Requests : CheckActive(q) \/ Admit(q) \/ Logout(q)
             \/ \E d \in Admins : Administer(d)
             \/ Tick \/ (\E s \in States : Begin(s)) \/ UNCHANGED vars
      PROVE  UNCHANGED <<attempts, login>>
  BY <1>6 DEF CallBack, ClaimState, AuthorizeIdentity, IssueFederated, CheckActive, Admit, Logout,
     Administer, ReadUsers, ReplaceCodes, WriteUsers, Tick, Begin, vars, tables, actors
<1> QED
  BY <1>1, <1>2, <1>3, <1>4, <1>5, <1>6, ResetThrottle, EveryStep DEF LogIn

\* For every limit, every window and any number of concurrent logins: until one
\* succeeds, no more than Limit attempts of each window get past the throttle.
THEOREM AttemptsLimited == Spec => []AttemptsAreLimited
<1>1. Init => ThrottleInv
  <2> SUFFICES ASSUME Init PROVE ThrottleInv
    OBVIOUS
  <2>1. \A u \in Users : Tries(u) = {}
    BY DEF Init, Tries
  <2>2. \A l \in Logins : Untried(l)
    BY DEF Init, Untried
  <2> QED
    BY <2>1, <2>2, FS_EmptySet DEF Init, ThrottleInv, Budget
<1>2. BaseInv /\ ThrottleInv => AttemptsAreLimited
  <2> SUFFICES ASSUME BaseInv, ThrottleInv, NEW u \in Users, Untouched(u)
               PROVE  Cardinality(Tries(u)) <= Limit * (1 + clock \div Window)
    <3>1. \A u \in Users :
            {l \in {l \in Logins : login[l].user = u} : login[l].throttle = "passed"} = Tries(u)
      BY DEF Tries
    <3> QED
      BY <3>1 DEF AttemptsAreLimited, Untouched
  <2>1. Budget(u) /\ clock \in Nat
    BY SessionAssumption DEF ThrottleInv, BaseInv, TypeOK
  <2>2. Limit \in Nat \ {0} /\ Window \in Nat \ {0}
    BY SessionAssumption
  <2>3. CASE attempts[u] = None
    <3>1. Cardinality(Tries(u)) = 0
      BY <2>1, <2>3, FS_EmptySet DEF Budget
    <3>2. clock \div Window \in Nat
      BY <2>1, <2>2, WindowsPass
    <3>3. Limit * (1 + clock \div Window) \in Nat
      BY <2>2, <3>2
    <3> QED
      BY <3>1, <3>3
  <2>4. CASE attempts[u] # None
    <3> DEFINE p == attempts[u].started \div Window
               q == clock \div Window
    <3>1. attempts[u].started \in Nat /\ attempts[u].count \in 1..Limit
      BY <2>4 DEF BaseInv, TypeOK, WindowType
    <3>2. /\ attempts[u].started <= clock
          /\ Cardinality(Tries(u)) <= Limit * p + attempts[u].count
          /\ Cardinality(Tries(u)) \in Nat
      BY <2>1, <2>4, FS_CardinalityType DEF Budget
    <3>3. p \in Nat /\ q \in Nat /\ p <= q
      BY <2>1, <2>2, <3>1, <3>2, WindowsPass
    <3> HIDE DEF p, q
    <3>4. /\ Limit * p \in Nat /\ Limit * q \in Nat /\ Limit * p <= Limit * q
          /\ Limit * (1 + q) = Limit * q + Limit
      BY <3>3, AllowanceGrows
    <3>5. Cardinality(Tries(u)) <= Limit * (1 + q)
      BY <2>2, <3>1, <3>2, <3>4
    <3> QED
      BY <3>5 DEF q
  <2> QED
    BY <2>3, <2>4
<1> QED
  BY <1>1, <1>2, ThrottleStep, BaseInvariant, PTL DEF Spec
=============================================================================
