--------------------------- MODULE OidcCycle_proof ---------------------------
(* For any number of scheduler slots, key sets, changes and faults, and for  *)
(* every lease longer than the wait for a transaction: what the leased       *)
(* monitoring of the trust file guarantees.                                  *)
EXTENDS OidcCycle, TLAPS

\* The steps of Next that are not governance, one by one.
LEMMA EveryStep ==
  ASSUME [Next]_vars
  PROVE  \/ Govern
         \/ \E c \in Slots : Proceed(c)
         \/ \E c \in Slots : Fail(c)
         \/ Tick \/ UNCHANGED vars
BY DEF Next

\* --------------------------------------------------------------- the types

\* What a slot has found out when it reports, delivers and records.
Finds(e) ==
  /\ e.pc \in {"reported", "delivered"} => e.finding \in Findings
  /\ e.pc = "delivered" => e.delivery \in Deliveries

\* A slot is young while it waits for its transaction.
Waits(e) == (e.pc = "idle" => e.age = 0) /\ (e.pc = "started" => e.age <= MaxWait)

TypeInv ==
  /\ TypeOK
  /\ \A c \in Slots : Finds(cycle[c]) /\ Waits(cycle[c])

\* The steps of governance and of the provider.
LEMMA GovernType == TypeInv /\ Govern => TypeInv'
<1> SUFFICES ASSUME TypeInv, Govern PROVE TypeInv'
  OBVIOUS
<1> USE CycleAssumption
<1>0. /\ trust \in Files /\ audit \in Files /\ audited \subseteq KeySets
      /\ provider \in KeySets /\ applying \in Files /\ refresh \in RefreshType
      /\ changes \in 0..MaxChanges /\ faults \in 0..MaxFaults
  BY DEF TypeInv, TypeOK
<1>1. UNCHANGED monitoring
  BY DEF Govern, Rotate, ApplyFile, ApplyRecord, ApplyDies, RefreshDiscover, RefreshCheck,
         RefreshReplace
<1>2. changes' \in 0..MaxChanges /\ faults' \in 0..MaxFaults
  BY <1>0 DEF Govern, Rotate, ApplyFile, ApplyRecord, ApplyDies, RefreshDiscover, RefreshCheck,
         RefreshReplace, Change, Fault
<1>3. /\ trust' \in Files /\ audit' \in Files /\ audited' \subseteq KeySets
      /\ provider' \in KeySets /\ applying' \in Files
  BY <1>0 DEF Govern, Rotate, ApplyFile, ApplyRecord, ApplyDies, RefreshDiscover, RefreshCheck,
         RefreshReplace, RefreshType, Files
<1>4. refresh' \in RefreshType
  BY <1>0 DEF Govern, Rotate, ApplyFile, ApplyRecord, ApplyDies, RefreshDiscover, RefreshCheck,
         RefreshReplace, RefreshType, Files
<1> QED
  BY <1>1, <1>2, <1>3, <1>4 DEF TypeInv, TypeOK, At, monitoring

\* A step of one slot.
LEMMA SlotType ==
  ASSUME TypeInv, NEW c \in Slots, NEW new \in CycleType, cycle' = [cycle EXCEPT ![c] = new],
         Finds(new), Waits(new),
         UNCHANGED governance, UNCHANGED changes, faults' \in 0..MaxFaults,
         lease' \in LeaseType \cup {None}, history' \subseteq RowType, receiver' \subseteq SignalType
  PROVE  TypeInv'
<1>1. TypeOK'
  BY DEF TypeInv, TypeOK, governance
<1> QED
  BY <1>1 DEF TypeInv, TypeOK, At

\* The alert of a finding is a signal.
LEMMA SignalTyped ==
  ASSUME TypeInv, NEW c \in Slots, cycle[c].pc \in {"reported", "delivered"}
  PROVE  Signal(c) \in SignalType
<1>1. cycle[c] \in CycleType /\ cycle[c].finding \in Findings
  BY DEF TypeInv, TypeOK, Finds
<1> QED
  BY <1>1 DEF Signal, SignalType, CycleType

\* The state between two cycles.
LEMMA IdleType == Idle \in CycleType /\ Finds(Idle) /\ Waits(Idle) /\ Idle.pc = "idle" /\ Idle.age = 0
BY CycleAssumption DEF Idle, CycleType, Finds, Waits, Files

\* The steps that change nothing but the phase, the report or the delivery.
LEMMA ReportType ==
  ASSUME TypeInv, NEW c \in Slots, NEW finding \in Findings, Report(c, finding),
         UNCHANGED <<governance, lease, history, receiver, changes>>, faults' \in 0..MaxFaults
  PROVE  TypeInv'
<1> DEFINE new == [cycle[c] EXCEPT !.pc = "reported", !.finding = finding]
<1>1. cycle' = [cycle EXCEPT ![c] = new]
  BY DEF Report, TypeInv, TypeOK
<1>2. new \in CycleType /\ new.pc = "reported" /\ new.finding = finding
  BY DEF TypeInv, TypeOK, CycleType
<1> HIDE DEF new
<1>3. Finds(new)
  BY <1>2 DEF Finds
<1>4. Waits(new)
  BY <1>2 DEF Waits
<1>5. lease' \in LeaseType \cup {None} /\ history' \subseteq RowType /\ receiver' \subseteq SignalType
  BY DEF TypeInv, TypeOK
<1> QED
  BY <1>1, <1>2, <1>3, <1>4, <1>5, SlotType

\* The end of a delivery, however it ended.
LEMMA DeliveredType ==
  ASSUME TypeInv, NEW c \in Slots, At(c, "reported"), NEW status \in Deliveries, Delivered(c, status),
         UNCHANGED <<governance, lease, history, changes>>, faults' \in 0..MaxFaults,
         receiver' \subseteq SignalType
  PROVE  TypeInv'
<1> DEFINE new == [cycle[c] EXCEPT !.pc = "delivered", !.delivery = status]
<1>1. cycle' = [cycle EXCEPT ![c] = new]
  BY DEF Delivered, TypeInv, TypeOK
<1>2. /\ new \in CycleType /\ new.pc = "delivered" /\ new.finding = cycle[c].finding
      /\ new.delivery = status
  BY DEF TypeInv, TypeOK, CycleType
<1> HIDE DEF new
<1>3. Finds(new)
  BY <1>2 DEF Finds, TypeInv, At
<1>4. Waits(new)
  BY <1>2 DEF Waits
<1>5. lease' \in LeaseType \cup {None} /\ history' \subseteq RowType
  BY DEF TypeInv, TypeOK
<1> QED
  BY <1>1, <1>2, <1>3, <1>4, <1>5, SlotType

\* A step that moves a slot and changes nothing else of it.
LEMMA AdvanceType ==
  ASSUME TypeInv, NEW c \in Slots, NEW pc \in {"started", "acquired", "governed", "recorded"},
         cycle' = [cycle EXCEPT ![c].pc = pc],
         pc = "started" => At(c, "idle"),
         UNCHANGED <<governance, receiver, changes>>, faults' \in 0..MaxFaults,
         lease' \in LeaseType \cup {None}, history' \subseteq RowType
  PROVE  TypeInv'
<1> DEFINE new == [cycle[c] EXCEPT !.pc = pc]
<1>1. cycle' = [cycle EXCEPT ![c] = new]
  BY DEF TypeInv, TypeOK
<1>2. /\ new \in CycleType /\ new.pc = pc /\ new.age = cycle[c].age
  BY DEF TypeInv, TypeOK, CycleType
<1> HIDE DEF new
<1>3. Finds(new)
  BY <1>2 DEF Finds, TypeInv, At
<1>4. receiver' \subseteq SignalType
  BY DEF TypeInv, TypeOK
<1>5. Waits(new)
  BY <1>2, CycleAssumption DEF TypeInv, At, Waits
<1> QED
  BY <1>1, <1>2, <1>3, <1>4, <1>5, SlotType

\* The end of a cycle.
LEMMA ResetType ==
  ASSUME TypeInv, NEW c \in Slots, cycle' = [cycle EXCEPT ![c] = Idle],
         UNCHANGED <<governance, history, receiver, changes>>, faults' \in 0..MaxFaults,
         lease' \in LeaseType \cup {None}
  PROVE  TypeInv'
<1>1. history' \subseteq RowType /\ receiver' \subseteq SignalType
  BY DEF TypeInv, TypeOK
<1> QED
  BY <1>1, IdleType, SlotType

\* The steps of a cycle.
LEMMA ProceedType ==
  ASSUME TypeInv, NEW c \in Slots, Proceed(c)
  PROVE  TypeInv'
<1>0. /\ cycle \in [Slots -> CycleType] /\ cycle[c] \in CycleType /\ Finds(cycle[c])
      /\ lease \in LeaseType \cup {None} /\ history \subseteq RowType /\ receiver \subseteq SignalType
      /\ trust \in Files /\ audit \in Files /\ provider \in KeySets /\ faults \in 0..MaxFaults
  BY DEF TypeInv, TypeOK
<1>1. UNCHANGED <<governance, changes, faults>>
  BY DEF Proceed, Start, Acquire, ReadTrust, ReadAudit, Discover, NoAlert, Post, Record, Release
<1>2. faults' \in 0..MaxFaults
  BY <1>0, <1>1
<1>3. CASE Start(c)
  <2>1. At(c, "idle") /\ cycle' = [cycle EXCEPT ![c].pc = "started"]
        /\ UNCHANGED <<lease, history, receiver>>
    BY <1>3 DEF Start
  <2> QED
    BY <1>0, <1>1, <1>2, <2>1, AdvanceType
<1>4. CASE Acquire(c)
  <2>1. UNCHANGED <<history, receiver>>
    BY <1>4 DEF Acquire
  <2>2. CASE Expired(c)
    <3>1. lease' = [owner |-> c, left |-> Ttl - cycle[c].age]
          /\ cycle' = [cycle EXCEPT ![c].pc = "acquired"]
      BY <1>4, <2>2 DEF Acquire
    <3>2. Ttl - cycle[c].age \in (- MaxAge)..Ttl
      BY <1>0, CycleAssumption DEF CycleType
    <3>3. lease' \in LeaseType \cup {None}
      BY <3>1, <3>2 DEF LeaseType
    <3> QED
      BY <1>0, <1>1, <1>2, <2>1, <3>1, <3>3, AdvanceType
  <2>3. CASE ~ Expired(c)
    BY <1>0, <1>1, <1>2, <1>4, <2>1, <2>3, ResetType DEF Acquire
  <2> QED
    BY <2>2, <2>3
<1>5. CASE ReadTrust(c)
  <2>1. UNCHANGED <<lease, history, receiver>>
    BY <1>5 DEF ReadTrust
  <2>2. CASE Report(c, "TRUST_FILE_INVALID")
    BY <1>1, <1>2, <2>1, <2>2, ReportType DEF Findings
  <2>3. CASE cycle' = [cycle EXCEPT ![c].pc = "current", ![c].current = trust]
    <3> DEFINE new == [cycle[c] EXCEPT !.pc = "current", !.current = trust]
    <3>1. cycle' = [cycle EXCEPT ![c] = new]
      BY <1>0, <2>3
    <3>2. new \in CycleType /\ new.pc = "current"
      BY <1>0 DEF CycleType
    <3> HIDE DEF new
    <3>3. Finds(new) /\ Waits(new)
      BY <3>2 DEF Finds, Waits
    <3> QED
      BY <1>0, <1>1, <1>2, <2>1, <3>1, <3>2, <3>3, SlotType
  <2> QED
    BY <1>5, <2>2, <2>3 DEF ReadTrust
<1>6. CASE ReadAudit(c)
  <2>1. UNCHANGED <<lease, history, receiver>>
    BY <1>6 DEF ReadAudit
  <2>2. \/ \E finding \in {"AUDIT_INVALID", "TRUST_AUDIT_MISMATCH"} : Report(c, finding)
        \/ cycle' = [cycle EXCEPT ![c].pc = "governed"]
    BY <1>6 DEF ReadAudit
  <2>3. ASSUME NEW finding \in {"AUDIT_INVALID", "TRUST_AUDIT_MISMATCH"}, Report(c, finding)
        PROVE  TypeInv'
    BY <1>1, <1>2, <2>1, <2>3, ReportType DEF Findings
  <2>4. CASE cycle' = [cycle EXCEPT ![c].pc = "governed"]
    BY <1>0, <1>1, <1>2, <2>1, <2>4, AdvanceType
  <2> QED
    BY <2>2, <2>3, <2>4
<1>7. CASE Discover(c)
  <2> DEFINE finding == Comparison(cycle[c].current, provider)
             new == [cycle[c] EXCEPT !.pc = "reported", !.discovered = provider, !.finding = finding]
  <2>1. cycle' = [cycle EXCEPT ![c] = new] /\ UNCHANGED <<lease, history, receiver>>
    BY <1>0, <1>7 DEF Discover
  <2>2. finding \in Findings
    BY DEF Comparison, Findings
  <2> HIDE DEF finding
  <2>3. new \in CycleType /\ new.pc = "reported" /\ new.finding = finding
    BY <1>0, <2>2 DEF CycleType, Files
  <2> HIDE DEF new
  <2>4. Finds(new) /\ Waits(new)
    BY <2>2, <2>3 DEF Finds, Waits
  <2> QED
    BY <1>0, <1>1, <1>2, <2>1, <2>3, <2>4, SlotType
<1>8. CASE NoAlert(c)
  <2>1. /\ At(c, "reported") /\ Delivered(c, "NO_ALERT") /\ UNCHANGED <<lease, history, receiver>>
    BY <1>8 DEF NoAlert
  <2> QED
    BY <1>0, <1>1, <1>2, <2>1, DeliveredType DEF Deliveries
<1>9. CASE Post(c)
  <2>1. /\ At(c, "reported") /\ Delivered(c, "DELIVERED") /\ UNCHANGED <<lease, history>>
        /\ receiver' = receiver \cup {Signal(c)}
    BY <1>9 DEF Post
  <2>2. Signal(c) \in SignalType
    BY <2>1, SignalTyped DEF At
  <2> QED
    BY <1>0, <1>1, <1>2, <2>1, <2>2, DeliveredType DEF Deliveries
<1>10. CASE Record(c)
  <2>1. /\ At(c, "delivered") /\ cycle' = [cycle EXCEPT ![c].pc = "recorded"]
        /\ history' = history \cup {[signal |-> Signal(c), delivery |-> cycle[c].delivery]}
        /\ UNCHANGED <<lease, receiver>>
    BY <1>10 DEF Record
  <2>2. Signal(c) \in SignalType /\ cycle[c].delivery \in Deliveries
    BY <1>0, <2>1, SignalTyped DEF At, Finds
  <2>3. history' \subseteq RowType
    BY <1>0, <2>1, <2>2 DEF RowType
  <2> QED
    BY <1>0, <1>1, <1>2, <2>1, <2>3, AdvanceType
<1>11. CASE Release(c)
  <2>1. /\ cycle' = [cycle EXCEPT ![c] = Idle] /\ lease' \in LeaseType \cup {None}
        /\ UNCHANGED <<history, receiver>>
    BY <1>0, <1>11 DEF Release
  <2> QED
    BY <1>0, <1>1, <1>2, <2>1, ResetType
<1> QED
  BY <1>3, <1>4, <1>5, <1>6, <1>7, <1>8, <1>9, <1>10, <1>11 DEF Proceed

\* The ways in which a cycle fails.
LEMMA FailType ==
  ASSUME TypeInv, NEW c \in Slots, Fail(c)
  PROVE  TypeInv'
<1>0. /\ cycle \in [Slots -> CycleType] /\ cycle[c] \in CycleType /\ Finds(cycle[c])
      /\ lease \in LeaseType \cup {None} /\ history \subseteq RowType /\ receiver \subseteq SignalType
      /\ faults \in 0..MaxFaults
  BY DEF TypeInv, TypeOK
<1>1. UNCHANGED <<governance, changes>> /\ faults' \in 0..MaxFaults
  BY <1>0, CycleAssumption DEF Fail, DiscoveryFails, FailPost, RecordFails, Crash, Fault
<1>2. CASE DiscoveryFails(c)
  <2>1. Report(c, "DISCOVERY_UNAVAILABLE") /\ UNCHANGED <<lease, history, receiver>>
    BY <1>2 DEF DiscoveryFails
  <2> QED
    BY <1>1, <2>1, ReportType DEF Findings
<1>3. CASE FailPost(c)
  <2>1. At(c, "reported") /\ UNCHANGED <<lease, history>>
    BY <1>3 DEF FailPost
  <2>2. Signal(c) \in SignalType
    BY <2>1, SignalTyped DEF At
  <2>3. receiver' \subseteq SignalType
    BY <1>0, <1>3, <2>2 DEF FailPost
  <2>4. CASE cycle[c].attempt + 1 < MaxAttempts /\ cycle' = [cycle EXCEPT ![c].attempt = @ + 1]
    <3> DEFINE new == [cycle[c] EXCEPT !.attempt = @ + 1]
    <3>1. cycle' = [cycle EXCEPT ![c] = new]
      BY <2>4
    <3>2. cycle[c].attempt + 1 \in 0..MaxAttempts
      BY <1>0, <2>4, CycleAssumption DEF CycleType
    <3>3. /\ new \in CycleType /\ new.pc = "reported" /\ new.finding = cycle[c].finding
      BY <1>0, <2>1, <3>2 DEF CycleType, At
    <3> HIDE DEF new
    <3>4. Finds(new) /\ Waits(new)
      BY <1>0, <2>1, <3>3 DEF Finds, Waits, At
    <3> QED
      BY <1>0, <1>1, <2>1, <2>3, <3>1, <3>3, <3>4, SlotType
  <2>5. CASE Delivered(c, "DELIVERY_FAILED")
    BY <1>1, <2>1, <2>3, <2>5, DeliveredType DEF Deliveries
  <2> QED
    BY <1>3, <2>4, <2>5 DEF FailPost
<1>4. CASE RecordFails(c)
  <2>1. cycle' = [cycle EXCEPT ![c].pc = "recorded"] /\ UNCHANGED <<lease, history, receiver>>
    BY <1>4 DEF RecordFails
  <2> QED
    BY <1>0, <1>1, <2>1, AdvanceType
<1>5. CASE Crash(c)
  <2>1. /\ cycle' = [cycle EXCEPT ![c] = Idle] /\ UNCHANGED <<history, receiver>>
        /\ \/ lease' = lease
           \/ lease # None /\ lease' = [lease EXCEPT !.owner = Gone]
    BY <1>5 DEF Crash
  <2>2. lease' \in LeaseType \cup {None}
    BY <1>0, <2>1 DEF LeaseType
  <2> QED
    BY <1>0, <1>1, <2>1, <2>2, ResetType
<1> QED
  BY <1>2, <1>3, <1>4, <1>5 DEF Fail

\* What a tick does to a slot and to the lease.
LEMMA Ticks ==
  ASSUME TypeInv, Tick
  PROVE  /\ \A c \in Slots :
              /\ At(c, "idle") => cycle'[c] = Idle
              /\ ~ At(c, "idle") =>
                   /\ cycle[c].age + 1 \in 0..MaxAge /\ cycle'[c] \in CycleType
                   /\ cycle'[c] = [cycle[c] EXCEPT !.age = @ + 1]
                   /\ cycle'[c].age = cycle[c].age + 1 /\ cycle'[c].pc = cycle[c].pc
                   /\ At(c, "started") => cycle[c].age < MaxWait
         /\ lease' \in LeaseType \cup {None}
         /\ UNCHANGED <<governance, history, receiver, changes, faults>>
<1> USE CycleAssumption
<1>1. ASSUME NEW c \in Slots, ~ At(c, "idle")
      PROVE  /\ cycle[c].age + 1 \in 0..MaxAge /\ cycle'[c] \in CycleType
             /\ cycle'[c] = [cycle[c] EXCEPT !.age = @ + 1]
             /\ cycle'[c].age = cycle[c].age + 1 /\ cycle'[c].pc = cycle[c].pc
             /\ At(c, "started") => cycle[c].age < MaxWait
  <2>1. cycle[c] \in CycleType /\ cycle[c].age \in 0..MaxAge
    BY DEF TypeInv, TypeOK, CycleType
  <2>2. cycle[c].age < MaxAge /\ (At(c, "started") => cycle[c].age < MaxWait)
    BY <1>1, <2>1 DEF Tick, Working, At
  <2>3. cycle[c].age + 1 \in 0..MaxAge
    BY <2>1, <2>2
  <2>4. cycle'[c] = [cycle[c] EXCEPT !.age = @ + 1]
    BY <1>1 DEF Tick
  <2> QED
    BY <2>1, <2>2, <2>3, <2>4 DEF CycleType
<1>2. lease' \in LeaseType \cup {None}
  <2>1. CASE lease # None /\ lease.left > - MaxAge
    <3>1. lease \in LeaseType /\ lease.left - 1 \in (- MaxAge)..Ttl
      BY <2>1 DEF TypeInv, TypeOK, LeaseType
    <3> QED
      BY <2>1, <3>1 DEF Tick, LeaseType
  <2> QED
    BY <2>1 DEF Tick, TypeInv, TypeOK
<1> QED
  BY <1>1, <1>2 DEF Tick

\* Time passes for the lease and for every cycle.
LEMMA TickType == TypeInv /\ Tick => TypeInv'
<1> SUFFICES ASSUME TypeInv, Tick PROVE TypeInv'
  OBVIOUS
<1>1. ASSUME NEW c \in Slots
      PROVE  cycle'[c] \in CycleType /\ Finds(cycle'[c]) /\ Waits(cycle'[c])
  <2>1. CASE At(c, "idle")
    BY <2>1, Ticks, IdleType
  <2>2. CASE ~ At(c, "idle")
    <3>1. /\ cycle'[c] \in CycleType /\ cycle'[c] = [cycle[c] EXCEPT !.age = @ + 1]
          /\ cycle'[c].age = cycle[c].age + 1 /\ cycle'[c].pc = cycle[c].pc
          /\ At(c, "started") => cycle[c].age < MaxWait
      BY <2>2, Ticks
    <3>2. cycle[c] \in CycleType /\ Finds(cycle[c])
      BY DEF TypeInv, TypeOK
    <3>3. cycle'[c].finding = cycle[c].finding /\ cycle'[c].delivery = cycle[c].delivery
      BY <3>1, <3>2 DEF CycleType
    <3>4. Finds(cycle'[c])
      BY <3>1, <3>2, <3>3 DEF Finds
    <3>5. Waits(cycle'[c])
      BY <2>2, <3>1, <3>2, CycleAssumption DEF At, CycleType, Waits
    <3> QED
      BY <3>1, <3>4, <3>5
  <2> QED
    BY <2>1, <2>2
<1>2. cycle' \in [Slots -> CycleType]
  BY <1>1 DEF Tick
<1>3. lease' \in LeaseType \cup {None} /\ UNCHANGED <<governance, history, receiver, changes, faults>>
  BY Ticks
<1> QED
  BY <1>1, <1>2, <1>3 DEF TypeInv, TypeOK, At, governance

\* The types hold in every reachable state.
LEMMA TypeInvariant == Spec => []TypeInv
<1>1. Init => TypeInv
  <2> SUFFICES ASSUME Init PROVE TypeInv
    OBVIOUS
  <2>1. [pc |-> "idle", keys |-> None] \in RefreshType
    BY DEF RefreshType, Files
  <2> QED
    BY <2>1, IdleType, CycleAssumption DEF Init, TypeInv, TypeOK, Files, At
<1>2. TypeInv /\ [Next]_vars => TypeInv'
  <2>1. TypeInv /\ UNCHANGED vars => TypeInv'
    BY DEF TypeInv, TypeOK, At, vars, governance, monitoring
  <2> QED
    BY <2>1, GovernType, ProceedType, FailType, TickType, EveryStep
<1> QED
  BY <1>1, <1>2, PTL DEF Spec

\* Whatever governance, the provider and the cycles do, the files, the lease,
\* the history and every cycle keep their types: a cycle records a finding and
\* a delivery that the history has a name for.
THEOREM TypeCorrect == Spec => []TypeOK
<1>1. TypeInv => TypeOK
  BY DEF TypeInv
<1> QED
  BY <1>1, TypeInvariant, PTL

\* --------------------------------------------------------------- the lease

\* The lease of a slot is that of its cycle, and rests as long as the cycle is
\* young; a working cycle without it has outlived it.
LeaseInv ==
  /\ lease # None /\ lease.owner \in Slots =>
       Working(lease.owner) /\ lease.left = Ttl - cycle[lease.owner].age
  /\ \A c \in Slots : Working(c) /\ cycle[c].age < Ttl => lease # None /\ lease.owner = c

\* A step that leaves the lease, the ages and who works.
LEMMA LeaseStays ==
  ASSUME LeaseInv, UNCHANGED lease,
         \A c \in Slots : (Working(c)' <=> Working(c)) /\ cycle'[c].age = cycle[c].age
  PROVE  LeaseInv'
BY DEF LeaseInv

\* Who acquires the lease is young, and no cycle that is young had it.
LEMMA LeaseAcquired ==
  ASSUME TypeInv, LeaseInv, NEW c \in Slots, Acquire(c)
  PROVE  LeaseInv'
<1>0. /\ cycle \in [Slots -> CycleType] /\ cycle[c] \in CycleType
      /\ lease \in LeaseType \cup {None} /\ At(c, "started") /\ ~ Working(c)
  BY DEF TypeInv, TypeOK, Acquire, At, Working
<1>1. CASE Expired(c)
  <2>1. /\ lease' = [owner |-> c, left |-> Ttl - cycle[c].age]
        /\ cycle' = [cycle EXCEPT ![c].pc = "acquired"]
    BY <1>1 DEF Acquire
  <2>2. /\ Working(c)' /\ cycle'[c].age = cycle[c].age
        /\ \A d \in Slots \ {c} : cycle'[d] = cycle[d]
    BY <1>0, <2>1 DEF Working, CycleType
  <2>3. lease'.owner = c /\ lease'.left = Ttl - cycle[c].age /\ lease' # None
    <3>1. Ttl - cycle[c].age \in (- MaxAge)..Ttl
      BY <1>0, CycleAssumption DEF CycleType
    <3>2. lease' \in LeaseType
      BY <2>1, <3>1 DEF LeaseType
    <3> QED
      BY <2>1, <3>2, CycleAssumption
  <2>4. ASSUME NEW d \in Slots \ {c}, Working(d), cycle[d].age < Ttl PROVE FALSE
    <3>1. lease # None /\ lease.owner = d /\ lease.left = Ttl - cycle[d].age
      BY <2>4 DEF LeaseInv
    <3>2. lease.left <= - cycle[c].age
      BY <1>1, <3>1 DEF Expired
    <3> QED
      BY <1>0, <2>4, <3>1, <3>2, CycleAssumption DEF TypeInv, TypeOK, CycleType
  <2>5. \A d \in Slots \ {c} : Working(d)' <=> Working(d)
    BY <2>2 DEF Working
  <2> QED
    BY <2>2, <2>3, <2>4, <2>5 DEF LeaseInv
<1>2. CASE ~ Expired(c)
  <2>1. UNCHANGED lease /\ cycle' = [cycle EXCEPT ![c] = Idle]
    BY <1>2 DEF Acquire
  <2>2. ~ Working(c)' /\ \A d \in Slots \ {c} : cycle'[d] = cycle[d]
    BY <1>0, <2>1, IdleType DEF Working
  <2> QED
    BY <1>0, <2>1, <2>2 DEF LeaseInv, Working
<1> QED
  BY <1>1, <1>2

\* A cycle that ends takes its lease along, and only its own.
LEMMA LeaseGivenUp ==
  ASSUME TypeInv, LeaseInv, NEW c \in Slots, Release(c) \/ Crash(c)
  PROVE  LeaseInv'
<1>0. cycle \in [Slots -> CycleType] /\ lease \in LeaseType \cup {None}
  BY DEF TypeInv, TypeOK
<1>1. ~ Working(c)' /\ \A d \in Slots \ {c} : cycle'[d] = cycle[d]
  BY <1>0, IdleType DEF Release, Crash, Working
<1>2. \A d \in Slots \ {c} : Working(d)' <=> Working(d)
  BY <1>1 DEF Working
<1>3. CASE lease # None /\ lease.owner = c
  <2>1. lease' = None \/ lease'.owner = Gone
    BY <1>0, <1>3 DEF Release, Crash, LeaseType
  <2>2. \A d \in Slots \ {c} : ~ (Working(d) /\ cycle[d].age < Ttl)
    BY <1>3 DEF LeaseInv
  <2> QED
    BY <1>1, <1>2, <2>1, <2>2, CycleAssumption DEF LeaseInv
<1>4. CASE ~ (lease # None /\ lease.owner = c)
  <2>1. UNCHANGED lease
    BY <1>4 DEF Release, Crash
  <2> QED
    BY <1>1, <1>2, <1>4, <2>1 DEF LeaseInv
<1> QED
  BY <1>3, <1>4

\* Lease and owner age together.
LEMMA LeaseTicks == TypeInv /\ LeaseInv /\ Tick => LeaseInv'
<1> SUFFICES ASSUME TypeInv, LeaseInv, Tick PROVE LeaseInv'
  OBVIOUS
<1> USE CycleAssumption
<1>1. ASSUME NEW c \in Slots
      PROVE  /\ Working(c)' <=> Working(c)
             /\ Working(c) => /\ cycle[c].age + 1 \in 0..MaxAge
                              /\ cycle'[c].age = cycle[c].age + 1
                              /\ cycle[c].age \in Nat
  <2>1. CASE At(c, "idle")
    BY <2>1, Ticks, IdleType DEF Working, At
  <2>2. CASE ~ At(c, "idle")
    <3>1. /\ cycle[c].age + 1 \in 0..MaxAge
          /\ cycle'[c].age = cycle[c].age + 1 /\ cycle'[c].pc = cycle[c].pc
      BY <2>2, Ticks
    <3>2. cycle[c].age \in Nat
      BY DEF TypeInv, TypeOK, CycleType
    <3> QED
      BY <3>1, <3>2 DEF Working
  <2> QED
    BY <2>1, <2>2
<1>2. ASSUME NEW c \in Slots, lease # None, lease.owner = c
      PROVE  lease' # None /\ lease'.owner = c /\ lease'.left = lease.left - 1
  <2>1. Working(c) /\ lease.left = Ttl - cycle[c].age /\ lease \in LeaseType
    BY <1>2 DEF LeaseInv, TypeInv, TypeOK
  <2>2. lease.left > - MaxAge
    BY <1>1, <2>1
  <2>3. lease' = [lease EXCEPT !.left = @ - 1]
    BY <1>2, <2>2 DEF Tick
  <2>4. lease.left - 1 \in (- MaxAge)..Ttl
    BY <2>1, <2>2 DEF LeaseType
  <2>5. lease' \in LeaseType
    BY <2>1, <2>3, <2>4 DEF LeaseType
  <2> QED
    BY <1>2, <2>1, <2>3, <2>5 DEF LeaseType
<1>3. lease' # None => lease # None /\ lease'.owner = lease.owner
  <2>1. CASE lease # None /\ lease.left > - MaxAge
    BY <2>1 DEF Tick, TypeInv, TypeOK, LeaseType
  <2> QED
    BY <2>1 DEF Tick
<1>4. ASSUME lease' # None, lease'.owner \in Slots
      PROVE  /\ cycle'[lease'.owner].pc \notin {"idle", "started"}
             /\ lease'.left = Ttl - cycle'[lease'.owner].age
  <2>1. PICK c \in Slots : lease'.owner = c /\ lease # None /\ lease.owner = c
    BY <1>3, <1>4
  <2>2. Working(c) /\ lease.left = Ttl - cycle[c].age
    BY <2>1 DEF LeaseInv
  <2>3. lease'.left = lease.left - 1
    BY <1>2, <2>1
  <2>4. Working(c)' /\ cycle'[c].age = cycle[c].age + 1 /\ cycle[c].age \in Nat
    BY <1>1, <2>2
  <2>5. lease'.left = Ttl - cycle'[c].age
    BY <2>2, <2>3, <2>4
  <2> QED
    BY <2>1, <2>4, <2>5 DEF Working
<1>5. ASSUME NEW c \in Slots, Working(c)', cycle'[c].age < Ttl
      PROVE  lease' # None /\ lease'.owner = c
  <2>1. Working(c) /\ cycle[c].age < Ttl
    BY <1>1, <1>5
  <2>2. lease # None /\ lease.owner = c
    BY <2>1 DEF LeaseInv
  <2> QED
    BY <1>2, <2>2
<1> QED
  BY <1>4, <1>5 DEF LeaseInv, Working

\* Every step keeps the lease with the youngest working cycle.
LEMMA LeaseStep == TypeInv /\ LeaseInv /\ [Next]_vars => LeaseInv'
<1> SUFFICES ASSUME TypeInv, LeaseInv, [Next]_vars PROVE LeaseInv'
  OBVIOUS
<1>0. cycle \in [Slots -> CycleType]
  BY DEF TypeInv, TypeOK
<1>1. CASE Govern \/ UNCHANGED vars
  <2>1. UNCHANGED <<lease, cycle>>
    BY <1>1 DEF Govern, Rotate, ApplyFile, ApplyRecord, ApplyDies, RefreshDiscover, RefreshCheck,
       RefreshReplace, monitoring, vars
  <2> QED
    BY <2>1, LeaseStays DEF Working
<1>2. ASSUME NEW c \in Slots, UNCHANGED lease, \A d \in Slots \ {c} : cycle'[d] = cycle[d],
             cycle'[c].age = cycle[c].age, Working(c)' <=> Working(c)
      PROVE  LeaseInv'
  <2>1. \A d \in Slots : (Working(d)' <=> Working(d)) /\ cycle'[d].age = cycle[d].age
    BY <1>2 DEF Working
  <2> QED
    BY <1>2, <2>1, LeaseStays
<1>3. ASSUME NEW c \in Slots, Start(c) \/ ReadTrust(c) \/ ReadAudit(c) \/ Discover(c) \/ NoAlert(c)
             \/ Post(c) \/ Record(c) \/ DiscoveryFails(c) \/ FailPost(c) \/ RecordFails(c)
      PROVE  LeaseInv'
  <2>1. UNCHANGED lease /\ \A d \in Slots \ {c} : cycle'[d] = cycle[d]
    BY <1>0, <1>3 DEF Start, ReadTrust, ReadAudit, Discover, NoAlert, Post, Record, DiscoveryFails,
       FailPost, RecordFails, Report, Delivered
  <2>2. cycle'[c].age = cycle[c].age
    BY <1>0, <1>3 DEF Start, ReadTrust, ReadAudit, Discover, NoAlert, Post, Record, DiscoveryFails,
       FailPost, RecordFails, Report, Delivered, CycleType
  <2>3. Working(c)' <=> Working(c)
    <3>1. CASE Start(c)
      BY <1>0, <3>1 DEF Start, At, Working, CycleType
    <3>2. CASE ~ Start(c)
      <4>1. At(c, "acquired") \/ At(c, "current") \/ At(c, "governed") \/ At(c, "reported")
            \/ At(c, "delivered")
        BY <1>3, <3>2 DEF ReadTrust, ReadAudit, Discover, NoAlert, Post, Record, DiscoveryFails,
           FailPost, RecordFails
      <4>2. cycle'[c].pc \notin {"idle", "started"}
        BY <1>0, <1>3, <3>2 DEF ReadTrust, ReadAudit, Discover, NoAlert, Post, Record, DiscoveryFails,
           FailPost, RecordFails, Report, Delivered, CycleType, At
      <4> QED
        BY <4>1, <4>2 DEF At, Working
    <3> QED
      BY <3>1, <3>2
  <2> QED
    BY <1>2, <2>1, <2>2, <2>3
<1> QED
  BY <1>1, <1>3, LeaseAcquired, LeaseGivenUp, LeaseTicks, EveryStep DEF Proceed, Fail

\* However stale the instant a cycle read, and whoever crashes or releases
\* late: of two cycles at work one has outlived its lease.
THEOREM OneAtWork == Spec => []OneWithinItsLease
<1>1. Init => LeaseInv
  BY IdleType DEF Init, LeaseInv, Working
<1>2. TypeInv /\ LeaseInv => OneWithinItsLease
  BY CycleAssumption DEF LeaseInv, OneWithinItsLease, TypeInv, TypeOK, CycleType
<1> QED
  BY <1>1, <1>2, LeaseStep, TypeInvariant, PTL DEF Spec

\* ------------------------------------------------------------- the history

\* What a cycle reports and delivers, of the audit log and the receiver.
Truthful(e, records, received) ==
  /\ e.pc = "governed" => e.current \in records
  /\ e.pc \in {"reported", "delivered"} /\ e.finding = "HEALTHY" =>
       e.current \in records /\ e.discovered = e.current
  /\ e.pc = "delivered" =>
       /\ e.delivery = "DELIVERED" =>
            [finding |-> e.finding, current |-> e.current, discovered |-> e.discovered] \in received
       /\ e.delivery = "NO_ALERT" <=> e.finding = "HEALTHY"

\* The inductive invariant of TruthfulHistory.
HistoryInv ==
  /\ audit # None => audit \in audited
  /\ \A c \in Slots : Truthful(cycle[c], audited, receiver)
  /\ HistoryIsTruthful

\* A step of one slot: the log and the receiver keep what they have.
LEMMA SlotHistory ==
  ASSUME HistoryInv, NEW c \in Slots, NEW new, Truthful(new, audited, receiver'),
         cycle \in [Slots -> CycleType], cycle' = [cycle EXCEPT ![c] = new],
         UNCHANGED <<governance, history>>,
         receiver \subseteq receiver', \A alert \in receiver' : alert.finding # "HEALTHY"
  PROVE  HistoryInv'
<1>1. UNCHANGED <<audit, audited>>
  BY DEF governance
<1>2. \A d \in Slots : Truthful(cycle[d], audited, receiver) => Truthful(cycle[d], audited, receiver')
  BY DEF Truthful
<1>3. \A d \in Slots : Truthful(cycle'[d], audited, receiver')
  BY <1>2 DEF HistoryInv
<1>4. HistoryIsTruthful'
  BY <1>1 DEF HistoryInv, HistoryIsTruthful
<1> QED
  BY <1>1, <1>3, <1>4 DEF HistoryInv

\* A report that is not that the keys are healthy.
LEMMA AlertHistory ==
  ASSUME TypeInv, HistoryInv, NEW c \in Slots, NEW finding \in Findings \ {"HEALTHY"},
         Report(c, finding), UNCHANGED <<governance, history, receiver>>
  PROVE  HistoryInv'
<1> DEFINE new == [cycle[c] EXCEPT !.pc = "reported", !.finding = finding]
<1>1. cycle \in [Slots -> CycleType] /\ cycle' = [cycle EXCEPT ![c] = new]
  BY DEF Report, TypeInv, TypeOK
<1>2. new.pc = "reported" /\ new.finding = finding
  BY DEF TypeInv, TypeOK, CycleType
<1> HIDE DEF new
<1>3. Truthful(new, audited, receiver')
  BY <1>2 DEF Truthful
<1>4. \A alert \in receiver' : alert.finding # "HEALTHY"
  BY DEF HistoryInv, HistoryIsTruthful
<1> QED
  BY <1>1, <1>3, <1>4, SlotHistory

\* What a cycle knows of its delivery is true of the receiver.
LEMMA DeliveredHistory ==
  ASSUME TypeInv, HistoryInv, NEW c \in Slots, At(c, "reported"), NEW status, Delivered(c, status),
         UNCHANGED <<governance, history>>, receiver \subseteq receiver',
         receiver' \subseteq receiver \cup {Signal(c)},
         (status = "NO_ALERT") <=> (cycle[c].finding = "HEALTHY"),
         status = "DELIVERED" => Signal(c) \in receiver',
         receiver' = receiver \/ cycle[c].finding # "HEALTHY"
  PROVE  HistoryInv'
<1> DEFINE new == [cycle[c] EXCEPT !.pc = "delivered", !.delivery = status]
<1>1. /\ cycle \in [Slots -> CycleType] /\ cycle[c] \in CycleType
      /\ cycle' = [cycle EXCEPT ![c] = new]
  BY DEF Delivered, TypeInv, TypeOK
<1>2. /\ new.pc = "delivered" /\ new.delivery = status /\ new.finding = cycle[c].finding
      /\ new.current = cycle[c].current /\ new.discovered = cycle[c].discovered
  BY <1>1 DEF CycleType
<1> HIDE DEF new
<1>3. /\ cycle[c].finding = "HEALTHY" =>
           cycle[c].current \in audited /\ cycle[c].discovered = cycle[c].current
  BY DEF HistoryInv, Truthful, At
<1>4. Truthful(new, audited, receiver')
  BY <1>2, <1>3 DEF Truthful, Signal
<1>5. \A alert \in receiver' : alert.finding # "HEALTHY"
  <2>1. Signal(c).finding = cycle[c].finding
    BY DEF Signal
  <2> QED
    BY <2>1 DEF HistoryInv, HistoryIsTruthful
<1> QED
  BY <1>1, <1>4, <1>5, SlotHistory

\* The steps and failures of a slot.
LEMMA SlotsHistory ==
  ASSUME TypeInv, HistoryInv, NEW c \in Slots, Proceed(c) \/ Fail(c)
  PROVE  HistoryInv'
<1>0. /\ cycle \in [Slots -> CycleType] /\ cycle[c] \in CycleType
      /\ Truthful(cycle[c], audited, receiver)
      /\ \A alert \in receiver : alert.finding # "HEALTHY"
  BY DEF TypeInv, TypeOK, HistoryInv, HistoryIsTruthful
<1>1. UNCHANGED governance
  BY DEF Proceed, Fail, Start, Acquire, ReadTrust, ReadAudit, Discover, NoAlert, Post, Record, Release,
     DiscoveryFails, FailPost, RecordFails, Crash
<1>2. ASSUME UNCHANGED <<history, receiver>>, NEW new,
             new.pc \notin {"governed", "reported", "delivered"}, cycle' = [cycle EXCEPT ![c] = new]
      PROVE  HistoryInv'
  <2>1. Truthful(new, audited, receiver')
    BY <1>2 DEF Truthful
  <2> QED
    BY <1>0, <1>1, <1>2, <2>1, SlotHistory
<1>3. ASSUME UNCHANGED <<history, receiver>>, cycle' = [cycle EXCEPT ![c] = Idle]
      PROVE  HistoryInv'
  BY <1>2, <1>3, IdleType
<1>4. ASSUME UNCHANGED <<history, receiver>>, NEW pc \in {"started", "acquired", "recorded"},
             cycle' = [cycle EXCEPT ![c].pc = pc]
      PROVE  HistoryInv'
  <2> DEFINE new == [cycle[c] EXCEPT !.pc = pc]
  <2>1. cycle' = [cycle EXCEPT ![c] = new] /\ new.pc = pc
    BY <1>0, <1>4 DEF CycleType
  <2> HIDE DEF new
  <2> QED
    BY <1>2, <1>4, <2>1
<1>5. CASE Start(c) \/ RecordFails(c) \/ Release(c) \/ Crash(c)
  BY <1>3, <1>4, <1>5 DEF Start, RecordFails, Release, Crash
<1>6. CASE Acquire(c)
  BY <1>3, <1>4, <1>6 DEF Acquire
<1>7. CASE ReadTrust(c)
  <2>1. CASE Report(c, "TRUST_FILE_INVALID")
    BY <1>1, <1>7, <2>1, AlertHistory DEF ReadTrust, Findings
  <2>2. CASE cycle' = [cycle EXCEPT ![c].pc = "current", ![c].current = trust]
    <3> DEFINE new == [cycle[c] EXCEPT !.pc = "current", !.current = trust]
    <3>1. cycle' = [cycle EXCEPT ![c] = new] /\ new.pc = "current"
      BY <1>0, <2>2 DEF CycleType
    <3> HIDE DEF new
    <3> QED
      BY <1>2, <1>7, <3>1 DEF ReadTrust
  <2> QED
    BY <1>7, <2>1, <2>2 DEF ReadTrust
<1>8. CASE ReadAudit(c)
  <2>1. UNCHANGED <<history, receiver>>
    BY <1>8 DEF ReadAudit
  <2>2. CASE audit = None
    BY <1>1, <1>8, <2>1, <2>2, AlertHistory DEF ReadAudit, Findings
  <2>3. CASE audit \notin {None, cycle[c].current}
    BY <1>1, <1>8, <2>1, <2>3, AlertHistory DEF ReadAudit, Findings
  <2>4. CASE audit # None /\ audit = cycle[c].current
    <3> DEFINE new == [cycle[c] EXCEPT !.pc = "governed"]
    <3>1. cycle' = [cycle EXCEPT ![c].pc = "governed"]
      BY <1>8, <2>4 DEF ReadAudit
    <3>2. cycle' = [cycle EXCEPT ![c] = new] /\ new.pc = "governed" /\ new.current = audit
      BY <1>0, <2>4, <3>1 DEF CycleType
    <3> HIDE DEF new
    <3>3. Truthful(new, audited, receiver')
      BY <2>4, <3>2 DEF Truthful, HistoryInv
    <3> QED
      BY <1>0, <1>1, <2>1, <3>2, <3>3, SlotHistory
  <2> QED
    BY <2>2, <2>3, <2>4
<1>9. CASE Discover(c)
  <2> DEFINE finding == Comparison(cycle[c].current, provider)
             new == [cycle[c] EXCEPT !.pc = "reported", !.discovered = provider, !.finding = finding]
  <2>1. /\ At(c, "governed") /\ cycle' = [cycle EXCEPT ![c] = new]
        /\ UNCHANGED <<history, receiver>>
    BY <1>0, <1>9 DEF Discover
  <2>2. finding = "HEALTHY" => cycle[c].current = provider
    BY DEF Comparison
  <2> HIDE DEF finding
  <2>3. /\ new.pc = "reported" /\ new.finding = finding /\ new.current = cycle[c].current
        /\ new.discovered = provider
    BY <1>0 DEF CycleType
  <2> HIDE DEF new
  <2>4. Truthful(new, audited, receiver')
    BY <1>0, <2>1, <2>2, <2>3 DEF Truthful, At
  <2> QED
    BY <1>0, <1>1, <2>1, <2>4, SlotHistory
<1>10. CASE DiscoveryFails(c)
  BY <1>1, <1>10, AlertHistory DEF DiscoveryFails, Findings
<1>11. CASE NoAlert(c)
  BY <1>1, <1>11, DeliveredHistory DEF NoAlert
<1>12. CASE Post(c)
  BY <1>1, <1>12, DeliveredHistory DEF Post
<1>13. CASE FailPost(c)
  <2>1. /\ At(c, "reported") /\ cycle[c].finding # "HEALTHY" /\ UNCHANGED history
        /\ receiver \subseteq receiver' /\ receiver' \subseteq receiver \cup {Signal(c)}
    BY <1>13 DEF FailPost
  <2>2. CASE Delivered(c, "DELIVERY_FAILED")
    BY <1>1, <2>1, <2>2, DeliveredHistory
  <2>3. CASE cycle' = [cycle EXCEPT ![c].attempt = @ + 1]
    <3> DEFINE new == [cycle[c] EXCEPT !.attempt = @ + 1]
    <3>1. /\ cycle' = [cycle EXCEPT ![c] = new] /\ new.pc = "reported"
          /\ new.finding = cycle[c].finding
      BY <1>0, <2>1, <2>3 DEF CycleType, At
    <3> HIDE DEF new
    <3>2. Truthful(new, audited, receiver')
      BY <2>1, <3>1 DEF Truthful
    <3>3. \A alert \in receiver' : alert.finding # "HEALTHY"
      <4>1. Signal(c).finding # "HEALTHY"
        BY <2>1 DEF Signal
      <4> QED
        BY <1>0, <2>1, <4>1
    <3> QED
      BY <1>0, <1>1, <2>1, <3>1, <3>2, <3>3, SlotHistory
  <2> QED
    BY <1>13, <2>2, <2>3 DEF FailPost
<1>14. CASE Record(c)
  <2> DEFINE new == [cycle[c] EXCEPT !.pc = "recorded"]
             row == [signal |-> Signal(c), delivery |-> cycle[c].delivery]
  <2>1. /\ At(c, "delivered") /\ cycle' = [cycle EXCEPT ![c].pc = "recorded"]
        /\ history' = history \cup {row} /\ UNCHANGED receiver
    BY <1>14 DEF Record
  <2>2. /\ row.signal.finding = "HEALTHY" =>
             row.signal.current \in audited /\ row.signal.discovered = row.signal.current
        /\ row.delivery = "DELIVERED" => row.signal \in receiver
        /\ row.delivery = "NO_ALERT" <=> row.signal.finding = "HEALTHY"
    BY <1>0, <2>1 DEF Truthful, At, Signal
  <2> HIDE DEF row
  <2>3. UNCHANGED <<audit, audited>>
    BY <1>1 DEF governance
  <2>4. HistoryIsTruthful'
    BY <2>1, <2>2, <2>3 DEF HistoryInv, HistoryIsTruthful
  <2>5. cycle'[c].pc = "recorded" /\ \A d \in Slots \ {c} : cycle'[d] = cycle[d]
    BY <1>0, <2>1 DEF CycleType
  <2>6. \A d \in Slots : Truthful(cycle'[d], audited', receiver')
    BY <2>1, <2>3, <2>5 DEF HistoryInv, Truthful
  <2> QED
    BY <2>3, <2>4, <2>6 DEF HistoryInv
<1> QED
  BY <1>5, <1>6, <1>7, <1>8, <1>9, <1>10, <1>11, <1>12, <1>13, <1>14 DEF Proceed, Fail

\* Governance only adds to the records of the audit log.
LEMMA GovernHistory == HistoryInv /\ Govern => HistoryInv'
<1> SUFFICES ASSUME HistoryInv, Govern PROVE HistoryInv'
  OBVIOUS
<1>1. UNCHANGED <<history, receiver, cycle>>
  BY DEF Govern, Rotate, ApplyFile, ApplyRecord, ApplyDies, RefreshDiscover, RefreshCheck,
     RefreshReplace, monitoring
<1>2. audited \subseteq audited' /\ (audit' # None => audit' \in audited')
  BY DEF Govern, Rotate, ApplyFile, ApplyRecord, ApplyDies, RefreshDiscover, RefreshCheck,
     RefreshReplace, HistoryInv
<1>3. \A c \in Slots : Truthful(cycle'[c], audited', receiver')
  BY <1>1, <1>2 DEF HistoryInv, Truthful
<1>4. HistoryIsTruthful'
  BY <1>1, <1>2 DEF HistoryInv, HistoryIsTruthful
<1> QED
  BY <1>2, <1>3, <1>4 DEF HistoryInv

\* Time changes neither findings nor deliveries.
LEMMA TickHistory == TypeInv /\ HistoryInv /\ Tick => HistoryInv'
<1> SUFFICES ASSUME TypeInv, HistoryInv, Tick PROVE HistoryInv'
  OBVIOUS
<1>1. UNCHANGED <<audit, audited, history, receiver>>
  BY Ticks DEF governance
<1>2. ASSUME NEW c \in Slots PROVE Truthful(cycle'[c], audited, receiver)
  <2>1. CASE At(c, "idle")
    BY <2>1, Ticks, IdleType DEF Truthful
  <2>2. CASE ~ At(c, "idle")
    <3>1. cycle'[c] = [cycle[c] EXCEPT !.age = @ + 1] /\ cycle[c] \in CycleType
      BY <2>2, Ticks DEF TypeInv, TypeOK
    <3>2. /\ cycle'[c].pc = cycle[c].pc /\ cycle'[c].finding = cycle[c].finding
          /\ cycle'[c].current = cycle[c].current /\ cycle'[c].discovered = cycle[c].discovered
          /\ cycle'[c].delivery = cycle[c].delivery
      BY <3>1 DEF CycleType
    <3> QED
      BY <3>2 DEF HistoryInv, Truthful
  <2> QED
    BY <2>1, <2>2
<1> QED
  BY <1>1, <1>2 DEF HistoryInv, HistoryIsTruthful

\* Whoever else writes the trust file and however alerts fail: the history tells
\* the truth about health and about delivery.
THEOREM TruthfulHistory == Spec => []HistoryIsTruthful
<1>1. Init => HistoryInv
  BY IdleType DEF Init, HistoryInv, HistoryIsTruthful, Truthful
<1>2. TypeInv /\ HistoryInv /\ [Next]_vars => HistoryInv'
  <2>1. HistoryInv /\ UNCHANGED vars => HistoryInv'
    BY DEF HistoryInv, HistoryIsTruthful, vars, governance, monitoring
  <2> QED
    BY <2>1, SlotsHistory, GovernHistory, TickHistory, EveryStep
<1>3. HistoryInv => HistoryIsTruthful
  BY DEF HistoryInv
<1> QED
  BY <1>1, <1>2, <1>3, TypeInvariant, PTL DEF Spec
=============================================================================
