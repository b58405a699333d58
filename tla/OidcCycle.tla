------------------------------ MODULE OidcCycle ------------------------------
(***************************************************************************)
(* Leased monitoring of the OIDC trust file: run_oidc_monitor_cycle        *)
(* (oidc_cycle.py) with monitor_oidc_trust (oidc_monitor.py) and           *)
(* deliver_oidc_alert (oidc_alert.py), next to what changes the file: the  *)
(* approved trust changes, in their two steps (see OidcTrustChange), and   *)
(* refresh_oidc_trust (oidc_trust.py), which asks nobody.                  *)
(*                                                                         *)
(* A scheduler keeps starting cycles in a few slots.  Time is relative:    *)
(* every cycle has an age, counted from the instant it read, and the lease *)
(* a rest, which is negative once it has expired.                          *)
(***************************************************************************)
EXTENDS Integers

CONSTANTS
  Slots,       \* of the scheduler
  KeySets,     \* JWK sets: sets of keys, a key being its ID and its material
  InitialTrust, InitialAudit, InitialProvider,
  Ttl,         \* lease_seconds
  MaxWait,     \* the longest wait for a transaction (busy timeout)
  MaxAge,      \* the longest run that the scheduler allows
  MaxAttempts, \* posts of one alert: 3 in the code
  MaxChanges, MaxFaults,  \* bounds on the environment
  Gone,        \* the owner of a lease that died
  None         \* no file, no lease, nothing yet

\* The key IDs of a JWK set; two sets may differ in the material alone.
Kids(keys) == {key[1] : key \in keys}

LeaseType == [owner : Slots \cup {Gone}, left : (- MaxAge)..Ttl]

ASSUME CycleAssumption ==
  /\ None \notin KeySets /\ None \notin LeaseType
  /\ InitialTrust \subseteq KeySets \cup {None} /\ InitialAudit \subseteq KeySets \cup {None}
  /\ InitialProvider \subseteq KeySets
  /\ Gone \notin Slots
  /\ Ttl \in Nat /\ MaxWait \in Nat /\ MaxAge \in Nat /\ MaxWait < Ttl /\ MaxWait <= MaxAge
  /\ MaxAttempts \in Nat \ {0} /\ MaxChanges \in Nat /\ MaxFaults \in Nat

VARIABLES
  trust,       \* the trust file
  audit,       \* the keys of the last record of the trust audit log; None
               \* stands for no log and for one whose chain is broken
  audited,     \* those of all its records
  provider,    \* the keys that the provider publishes
  applying,    \* the approved change between its file and its record
  refresh,     \* the state of refresh_oidc_trust
  lease,       \* table oidc_monitor_leases
  history,     \* table oidc_monitor_history
  receiver,    \* the alerts that the receiver has, by alert ID
  cycle,       \* the state of every slot
  changes, faults

governance == <<trust, audit, audited, provider, applying, refresh>>
monitoring == <<lease, history, receiver, cycle>>
vars == <<governance, monitoring, changes, faults>>

Idle == [pc |-> "idle", age |-> 0, current |-> None, discovered |-> None, finding |-> None,
         attempt |-> 0, delivery |-> None]

Init ==
  /\ trust \in InitialTrust /\ audit \in InitialAudit
  /\ audited = {audit} \ {None}
  /\ provider \in InitialProvider
  /\ applying = None
  /\ refresh = [pc |-> "idle", keys |-> None]
  /\ lease = None /\ history = {} /\ receiver = {}
  /\ cycle = [c \in Slots |-> Idle]
  /\ changes = 0 /\ faults = 0

-----------------------------------------------------------------------------
(* What the monitor watches.                                                *)

Change == changes < MaxChanges /\ changes' = changes + 1
Fault == faults < MaxFaults /\ faults' = faults + 1

Rotate ==
  /\ Change
  /\ provider' \in KeySets \ {provider}
  /\ UNCHANGED <<trust, audit, audited, applying, refresh, monitoring, faults>>

\* apply_approved_oidc_trust_change replaces the file and then appends its
\* record, or dies in between.
ApplyFile ==
  /\ Change
  /\ applying = None
  /\ \E keys \in KeySets :
       /\ trust # None => Kids(keys) \cap Kids(trust) # {}
       /\ applying' = keys /\ trust' = keys
  /\ UNCHANGED <<audit, audited, provider, refresh, monitoring, faults>>

ApplyRecord ==
  /\ applying # None
  /\ applying' = None
  /\ audit' = applying /\ audited' = audited \cup {applying}
  /\ UNCHANGED <<trust, provider, refresh, monitoring, changes, faults>>

ApplyDies ==
  /\ Fault
  /\ applying # None
  /\ applying' = None
  /\ UNCHANGED <<trust, audit, audited, provider, refresh, monitoring, changes>>

\* refresh_oidc_trust: a bootstrap wants no file, a rotation wants one; the
\* keys are fetched, the overlap is checked, and the file is replaced.
RefreshDiscover ==
  /\ Change
  /\ refresh.pc = "idle"
  /\ refresh' = [pc |-> IF trust = None THEN "checked" ELSE "discovered", keys |-> provider]
  /\ UNCHANGED <<trust, audit, audited, provider, applying, monitoring, faults>>

RefreshCheck ==
  /\ refresh.pc = "discovered"
  /\ refresh' = IF trust # None /\ Kids(trust) \cap Kids(refresh.keys) # {}
                  THEN [refresh EXCEPT !.pc = "checked"] ELSE [pc |-> "idle", keys |-> None]
  /\ UNCHANGED <<trust, audit, audited, provider, applying, monitoring, changes, faults>>

RefreshReplace ==
  /\ refresh.pc = "checked"
  /\ trust' = refresh.keys
  /\ refresh' = [pc |-> "idle", keys |-> None]
  /\ UNCHANGED <<audit, audited, provider, applying, monitoring, changes, faults>>

Govern ==
  \/ Rotate \/ ApplyFile \/ ApplyRecord \/ ApplyDies
  \/ RefreshDiscover \/ RefreshCheck \/ RefreshReplace

-----------------------------------------------------------------------------
(* One cycle.                                                               *)

At(c, pc) == cycle[c].pc = pc
Working(c) == cycle[c].pc \notin {"idle", "started"}
Report(c, finding) == cycle' = [cycle EXCEPT ![c].pc = "reported", ![c].finding = finding]

\* The instant is read before the database is opened.
Start(c) ==
  /\ At(c, "idle")
  /\ cycle' = [cycle EXCEPT ![c].pc = "started"]
  /\ UNCHANGED <<governance, lease, history, receiver, changes, faults>>

\* Defect: only a released lease is given again.
ExpiredNever(c) == lease = None

\* acquire: the conditional UPSERT compares with the instant, not with now.
Expired(c) == lease = None \/ lease.left <= - cycle[c].age

Acquire(c) ==
  /\ At(c, "started")
  /\ IF Expired(c)
       THEN /\ lease' = [owner |-> c, left |-> Ttl - cycle[c].age]
            /\ cycle' = [cycle EXCEPT ![c].pc = "acquired"]
       ELSE cycle' = [cycle EXCEPT ![c] = Idle] /\ UNCHANGED lease
  /\ UNCHANGED <<governance, history, receiver, changes, faults>>

\* monitor_oidc_trust reads the trust file, ...
ReadTrust(c) ==
  /\ At(c, "acquired")
  /\ IF trust = None
       THEN Report(c, "TRUST_FILE_INVALID")
       ELSE cycle' = [cycle EXCEPT ![c].pc = "current", ![c].current = trust]
  /\ UNCHANGED <<governance, lease, history, receiver, changes, faults>>

\* Defect: an unaudited trust file passes.
ReadAuditLeniently(c) ==
  /\ At(c, "current")
  /\ IF audit = None
       THEN Report(c, "AUDIT_INVALID")
       ELSE cycle' = [cycle EXCEPT ![c].pc = "governed"]
  /\ UNCHANGED <<governance, lease, history, receiver, changes, faults>>

\* ... the audit log, ...
ReadAudit(c) ==
  /\ At(c, "current")
  /\ CASE audit = None -> Report(c, "AUDIT_INVALID")
       [] audit \notin {None, cycle[c].current} -> Report(c, "TRUST_AUDIT_MISMATCH")
       [] OTHER -> cycle' = [cycle EXCEPT ![c].pc = "governed"]
  /\ UNCHANGED <<governance, lease, history, receiver, changes, faults>>

\* By their hashes, and then by their key IDs.
Comparison(current, discovered) ==
  CASE current = discovered -> "HEALTHY"
    [] current # discovered /\ Kids(current) \cap Kids(discovered) # {} -> "PROVIDER_KEYS_CHANGED"
    [] OTHER -> "TRUST_DISCONTINUITY"

\* ... and what the provider publishes.
Discover(c) ==
  /\ At(c, "governed")
  /\ cycle' = [cycle EXCEPT ![c].pc = "reported", ![c].discovered = provider,
                 ![c].finding = Comparison(cycle[c].current, provider)]
  /\ UNCHANGED <<governance, lease, history, receiver, changes, faults>>

DiscoveryFails(c) ==
  /\ Fault
  /\ At(c, "governed")
  /\ Report(c, "DISCOVERY_UNAVAILABLE")
  /\ UNCHANGED <<governance, lease, history, receiver, changes>>

\* The alert ID is a hash of the signal, which leaves out the time.
Signal(c) ==
  [finding |-> cycle[c].finding, current |-> cycle[c].current, discovered |-> cycle[c].discovered]

Delivered(c, status) == cycle' = [cycle EXCEPT ![c].pc = "delivered", ![c].delivery = status]

NoAlert(c) ==
  /\ At(c, "reported") /\ cycle[c].finding = "HEALTHY"
  /\ Delivered(c, "NO_ALERT")
  /\ UNCHANGED <<governance, lease, history, receiver, changes, faults>>

Post(c) ==
  /\ At(c, "reported") /\ cycle[c].finding # "HEALTHY"
  /\ receiver' = receiver \cup {Signal(c)}
  /\ Delivered(c, "DELIVERED")
  /\ UNCHANGED <<governance, lease, history, changes, faults>>

\* Defect: a status that the history does not know.
FailPostUnknown(c) ==
  /\ Fault
  /\ At(c, "reported") /\ cycle[c].finding # "HEALTHY"
  /\ Delivered(c, "REJECTED")
  /\ UNCHANGED <<governance, lease, history, receiver, changes>>

\* An error, 429 or 5xx, whether or not the receiver has the alert; another
\* status, or a third failure, gives up.
FailPost(c) ==
  /\ Fault
  /\ At(c, "reported") /\ cycle[c].finding # "HEALTHY"
  /\ \/ receiver' = receiver \cup {Signal(c)}
     \/ UNCHANGED receiver
  /\ \/ /\ cycle[c].attempt + 1 < MaxAttempts
        /\ cycle' = [cycle EXCEPT ![c].attempt = @ + 1]
     \/ Delivered(c, "DELIVERY_FAILED")
  /\ UNCHANGED <<governance, lease, history, changes>>

Record(c) ==
  /\ At(c, "delivered")
  /\ history' = history \cup {[signal |-> Signal(c), delivery |-> cycle[c].delivery]}
  /\ cycle' = [cycle EXCEPT ![c].pc = "recorded"]
  /\ UNCHANGED <<governance, lease, receiver, changes, faults>>

RecordFails(c) ==
  /\ Fault
  /\ At(c, "delivered")
  /\ cycle' = [cycle EXCEPT ![c].pc = "recorded"]
  /\ UNCHANGED <<governance, lease, history, receiver, changes>>

\* Defect: the lease is deleted whoever owns it.
ReleaseAny(c) ==
  /\ At(c, "recorded")
  /\ lease' = None
  /\ cycle' = [cycle EXCEPT ![c] = Idle]
  /\ UNCHANGED <<governance, history, receiver, changes, faults>>

\* The finally clause deletes the lease if its owner is still this cycle.
Release(c) ==
  /\ At(c, "recorded")
  /\ lease' = IF lease # None /\ lease.owner = c THEN None ELSE lease
  /\ cycle' = [cycle EXCEPT ![c] = Idle]
  /\ UNCHANGED <<governance, history, receiver, changes, faults>>

\* The process dies, or cannot open the database; its lease stays.
Crash(c) ==
  /\ Fault
  /\ ~ At(c, "idle")
  /\ cycle' = [cycle EXCEPT ![c] = Idle]
  /\ lease' = IF lease # None /\ lease.owner = c THEN [lease EXCEPT !.owner = Gone] ELSE lease
  /\ UNCHANGED <<governance, history, receiver, changes>>

Proceed(c) ==
  \/ Start(c) \/ Acquire(c) \/ ReadTrust(c) \/ ReadAudit(c) \/ Discover(c)
  \/ NoAlert(c) \/ Post(c) \/ Record(c) \/ Release(c)

Fail(c) == DiscoveryFails(c) \/ FailPost(c) \/ RecordFails(c) \/ Crash(c)

\* Time passes, no further than the limits on a wait and on a run.
Tick ==
  /\ \A c \in Slots :
       /\ At(c, "started") => cycle[c].age < MaxWait
       /\ Working(c) => cycle[c].age < MaxAge
  /\ cycle' = [c \in Slots |-> IF At(c, "idle") THEN Idle ELSE [cycle[c] EXCEPT !.age = @ + 1]]
  /\ lease' = IF lease # None /\ lease.left > - MaxAge THEN [lease EXCEPT !.left = @ - 1] ELSE lease
  /\ UNCHANGED <<governance, history, receiver, changes, faults>>

Next == Govern \/ (\E c \in Slots : Proceed(c) \/ Fail(c)) \/ Tick

\* The scheduler starts cycles for ever and each of them runs; time passes.
Spec ==
  /\ Init /\ [][Next]_vars
  /\ \A c \in Slots : WF_vars(Proceed(c))
  /\ WF_vars(Tick)

-----------------------------------------------------------------------------
Files == KeySets \cup {None}
Findings ==
  {"HEALTHY", "TRUST_FILE_INVALID", "AUDIT_INVALID", "TRUST_AUDIT_MISMATCH",
   "DISCOVERY_UNAVAILABLE", "PROVIDER_KEYS_CHANGED", "TRUST_DISCONTINUITY"}
Deliveries == {"NO_ALERT", "DELIVERED", "DELIVERY_FAILED"}
SignalType == [finding : Findings, current : Files, discovered : Files]
RefreshType == [pc : {"idle", "discovered", "checked"}, keys : Files]
RowType == [signal : SignalType, delivery : Deliveries]
CycleType ==
  [pc : {"idle", "started", "acquired", "current", "governed", "reported", "delivered",
         "recorded"},
   age : 0..MaxAge, current : Files, discovered : Files, finding : Findings \cup {None},
   attempt : 0..MaxAttempts, delivery : Deliveries \cup {None}]

TypeOK ==
  /\ trust \in Files /\ audit \in Files /\ audited \subseteq KeySets
  /\ provider \in KeySets /\ applying \in Files
  /\ refresh \in RefreshType
  /\ lease \in LeaseType \cup {None}
  /\ history \subseteq RowType /\ receiver \subseteq SignalType
  /\ cycle \in [Slots -> CycleType]
  /\ changes \in 0..MaxChanges /\ faults \in 0..MaxFaults

\* "A transactional SQLite lease admits only one owner for a named monitor at a
\* time" (docs/modules/44): two cycles work at the same time only if one has
\* outlived its lease, although an instant may be stale when it is compared,
\* and although the older one releases after it was succeeded.
OneWithinItsLease ==
  \A c, d \in Slots :
    Working(c) /\ Working(d) /\ c # d => cycle[c].age >= Ttl \/ cycle[d].age >= Ttl

\* HEALTHY is for keys whose hash "matches the last governed audit record" and
\* that the provider publishes (docs/modules/42): whoever else writes the trust
\* file, a cycle is recorded as HEALTHY only for such keys; what is recorded as
\* delivered the receiver has; and an alert is never about healthy keys.
HistoryIsTruthful ==
  /\ \A row \in history :
       /\ row.signal.finding = "HEALTHY" =>
            row.signal.current \in audited /\ row.signal.discovered = row.signal.current
       /\ row.delivery = "DELIVERED" => row.signal \in receiver
       /\ row.delivery = "NO_ALERT" <=> row.signal.finding = "HEALTHY"
  /\ \A alert \in receiver : alert.finding # "HEALTHY"

\* What is wrong with the files and the provider as they are.
Diagnosis ==
  CASE trust = None ->
         [finding |-> "TRUST_FILE_INVALID", current |-> None, discovered |-> None]
    [] trust # None /\ audit = None ->
         [finding |-> "AUDIT_INVALID", current |-> trust, discovered |-> None]
    [] trust # None /\ audit \notin {None, trust} ->
         [finding |-> "TRUST_AUDIT_MISMATCH", current |-> trust, discovered |-> None]
    [] OTHER ->
         [finding |-> Comparison(trust, provider), current |-> trust, discovered |-> provider]

\* Leases "can be reclaimed after interruption or process loss" (docs/modules/44)
\* and alerts are repeated by the next cycle: whatever is wrong for good, an
\* unapproved refresh or half a trust change included, is alerted in the end.
ProblemsAreAlerted ==
  (Diagnosis.finding # "HEALTHY") ~> (Diagnosis.finding = "HEALTHY" \/ Diagnosis \in receiver)
=============================================================================
