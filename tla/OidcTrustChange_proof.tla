------------------------ MODULE OidcTrustChange_proof ------------------------
(***************************************************************************)
(* What is trusted and audited was approved, for any number of executions, *)
(* faults and approvals, also where the lock file excludes nobody.  What   *)
(* rests on the lock holds for any number of executions where a file that  *)
(* is open cannot be removed.                                              *)
(***************************************************************************)
EXTENDS OidcTrustChange, TLAPS

\* Who is between the consumption and the audit record holds the approval, alone,
\* for the proposal that it is about to apply and record.
ChangerHolds(x) ==
  LET a == applier[x].approval IN
  applier[x].pc \in {"consumed", "replaced", "appending"} =>
    /\ a \in Approvals /\ a \in spent
    /\ holders[a] = {x}
    /\ Purpose[a] = applier[x].proposal
    /\ \A i \in 1..Len(audit) : audit[i].change.approval # a

\* Who has started knows its files.
StartedHasFiles(x) ==
  applier[x].pc \notin {"idle", "failed"} =>
    /\ applier[x].approval \in Approvals /\ applier[x].proposal \in Proposals
    /\ applier[x].operator \in Operators
    /\ applier[x].operator # Reviewer[applier[x].approval]

\* Who holds an approval asked for it, for an operator who did not review it.
HolderIsIndependent(x) ==
  \A a \in Approvals : x \in holders[a] =>
    applier[x].pc # "idle" /\ applier[x].approval = a /\ applier[x].operator # Reviewer[a]

\* Nobody holds an approval that the ledger does not have.
UnspentIsFree == \A a \in Approvals : a \notin spent => holders[a] = {}

TrustInv ==
  /\ TypeOK
  /\ TrustIsApproved
  /\ UnspentIsFree
  /\ \A x \in Appliers : StartedHasFiles(x) /\ HolderIsIndependent(x) /\ ChangerHolds(x)

\* The initial states satisfy the invariant.
LEMMA InitTrust == Init => TrustInv
  <1> SUFFICES ASSUME Init PROVE TrustInv
    OBVIOUS
  <1> USE TrustAssumption DEF Init, Ledger!ApprovalInit
  <1>1. TypeOK
    <2>1. applier \in [Appliers -> ApplierType]
      BY DEF Genesis, ApplierType, Phases
    <2>2. audit \in Seq(RecordType)
      OBVIOUS
    <2>3. faults \in 0..MaxFaults
      OBVIOUS
    <2> QED
      BY <2>1, <2>2, <2>3 DEF TypeOK, Ledger!ApprovalTypeOK
  <1>2. TrustIsApproved
    BY DEF TrustIsApproved
  <1>3. UnspentIsFree
    BY DEF UnspentIsFree
  <1>4. \A x \in Appliers : StartedHasFiles(x) /\ HolderIsIndependent(x) /\ ChangerHolds(x)
    BY DEF StartedHasFiles, HolderIsIndependent, ChangerHolds
  <1> QED
    BY <1>1, <1>2, <1>3, <1>4 DEF TrustInv

\* Goto changes the program counter of one execution and nothing else.
LEMMA GotoStep ==
  ASSUME TypeOK, NEW x \in Appliers, NEW pc \in Phases, Goto(x, pc)
  PROVE  /\ applier' \in [Appliers -> ApplierType]
         /\ applier'[x].pc = pc
         /\ \A y \in Appliers : /\ applier'[y].approval = applier[y].approval
                                /\ applier'[y].proposal = applier[y].proposal
                                /\ applier'[y].operator = applier[y].operator
                                /\ y # x => applier'[y] = applier[y]
  <1>1. applier \in [Appliers -> ApplierType] /\ applier[x] \in ApplierType
    BY DEF TypeOK
  <1>2. [applier[x] EXCEPT !.pc = pc] \in ApplierType
    BY <1>1 DEF ApplierType
  <1>3. applier' = [applier EXCEPT ![x] = [applier[x] EXCEPT !.pc = pc]]
    BY DEF Goto
  <1>4. applier' \in [Appliers -> ApplierType]
    BY <1>1, <1>2, <1>3
  <1>5. \A y \in Appliers : y # x => applier'[y] = applier[y]
    BY <1>1, <1>3
  <1>6. /\ applier'[x].pc = pc
        /\ applier'[x].approval = applier[x].approval
        /\ applier'[x].proposal = applier[x].proposal
        /\ applier'[x].operator = applier[x].operator
    BY <1>1, <1>3 DEF ApplierType
  <1> QED
    BY <1>4, <1>5, <1>6

\* A step that touches neither the trust file nor the log nor the ledger, and
\* brings nobody to the point of change from outside of it.
LEMMA QuietStep ==
  ASSUME TrustInv, NEW x \in Appliers,
         UNCHANGED <<trust, audit, ledger>>, lock' \in BOOLEAN, faults' \in 0..MaxFaults,
         applier' \in [Appliers -> ApplierType],
         \A y \in Appliers \ {x} : applier'[y] = applier[y],
         StartedHasFiles(x)',
         applier[x].pc # "idle" =>
           /\ applier'[x].pc # "idle"
           /\ applier'[x].approval = applier[x].approval
           /\ applier'[x].operator = applier[x].operator,
         applier'[x].pc \in {"consumed", "replaced", "appending"} =>
           /\ applier[x].pc \in {"consumed", "replaced", "appending"}
           /\ applier'[x].approval = applier[x].approval
           /\ applier'[x].proposal = applier[x].proposal
  PROVE  TrustInv'
  <1> USE DEF ledger
  <1>1. TypeOK'
    BY DEF TrustInv, TypeOK, Ledger!ApprovalTypeOK
  <1>2. ASSUME NEW y \in Appliers PROVE HolderIsIndependent(y)'
    <2>1. HolderIsIndependent(y)
      BY DEF TrustInv
    <2>2. CASE y = x
      BY <2>1, <2>2 DEF HolderIsIndependent
    <2>3. CASE y # x
      BY <2>1, <2>3 DEF HolderIsIndependent
    <2> QED
      BY <2>2, <2>3
  <1>3. TrustIsApproved'
    <2>1. ASSUME NEW a \in Approvals, NEW kids, Applied(a, kids) PROVE Applied(a, kids)'
      BY <1>2, <2>1 DEF Applied, HolderIsIndependent
    <2>2. ASSUME NEW i \in 1..Len(audit) PROVE audit[i].change.approval \in Approvals
      <3>1. audit[i] \in RecordType
        BY DEF TrustInv, TypeOK
      <3> QED
        BY <3>1 DEF RecordType, ChangeType
    <2> QED
      BY <2>1, <2>2 DEF TrustInv, TrustIsApproved
  <1>4. UnspentIsFree'
    BY DEF TrustInv, UnspentIsFree
  <1>5. ASSUME NEW y \in Appliers PROVE StartedHasFiles(y)' /\ ChangerHolds(y)'
    <2>1. StartedHasFiles(y) /\ ChangerHolds(y)
      BY DEF TrustInv
    <2>2. CASE y = x
      BY <2>1, <2>2 DEF ChangerHolds
    <2>3. CASE y # x
      BY <2>1, <2>3 DEF StartedHasFiles, ChangerHolds
    <2> QED
      BY <2>2, <2>3
  <1> QED
    BY <1>1, <1>2, <1>3, <1>4, <1>5 DEF TrustInv

\* The consumption makes one execution the holder of an approval that no record
\* names yet.
LEMMA ConsumeStep ==
  ASSUME TrustInv, NEW x \in Appliers, Consume(x)
  PROVE  TrustInv'
  <1> DEFINE a == applier[x].approval
  <1> USE DEF Consume, Ledger!Grant, Goto, ledger
  <1>1. /\ a \in Approvals /\ a \notin spent /\ a \in spent'
        /\ applier[x].proposal \in Proposals
        /\ applier[x].operator \in Operators /\ applier[x].operator # Reviewer[a]
    BY DEF TrustInv, StartedHasFiles
  <1>2. holders[a] = {} /\ holders'[a] = {x}
    BY <1>1 DEF TrustInv, UnspentIsFree, TypeOK, Ledger!ApprovalTypeOK
  <1>3. \A b \in Approvals \ {a} : holders'[b] = holders[b] /\ (b \in spent' <=> b \in spent)
    BY DEF TrustInv, TypeOK, Ledger!ApprovalTypeOK
  <1>4. \A i \in 1..Len(audit) : audit[i].change.approval \in Approvals \ {a}
    <2>1. \A i \in 1..Len(audit) : audit[i] \in RecordType /\ audit[i].change.approval \in spent
      BY DEF TrustInv, TypeOK, TrustIsApproved, Applied
    <2> QED
      BY <1>1, <2>1 DEF RecordType, ChangeType
  <1>5. /\ applier' \in [Appliers -> ApplierType]
        /\ applier'[x].pc = "consumed"
        /\ applier'[x].approval = a /\ applier'[x].proposal = applier[x].proposal
        /\ applier'[x].operator = applier[x].operator
        /\ \A y \in Appliers \ {x} : applier'[y] = applier[y]
    BY GotoStep DEF TrustInv, Phases
  <1>6. TypeOK'
    BY <1>1, <1>5 DEF TrustInv, TypeOK, Ledger!ApprovalTypeOK
  <1>7. ASSUME NEW y \in Appliers PROVE HolderIsIndependent(y)'
    <2>1. HolderIsIndependent(y)
      BY DEF TrustInv
    <2>2. CASE y = x
      BY <1>1, <1>2, <1>3, <1>5, <2>1, <2>2 DEF HolderIsIndependent
    <2>3. CASE y # x
      BY <1>2, <1>3, <1>5, <2>1, <2>3 DEF HolderIsIndependent
    <2> QED
      BY <2>2, <2>3
  <1>8. TrustIsApproved'
    <2>1. ASSUME NEW b \in Approvals, NEW kids, Applied(b, kids) PROVE Applied(b, kids)'
      BY <1>1, <1>3, <1>7, <2>1 DEF Applied, HolderIsIndependent
    <2>2. UNCHANGED <<trust, audit>>
      OBVIOUS
    <2> QED
      BY <1>4, <2>1, <2>2 DEF TrustInv, TrustIsApproved
  <1>9. UnspentIsFree'
    BY <1>1, <1>3 DEF TrustInv, UnspentIsFree
  <1>10. ASSUME NEW y \in Appliers PROVE StartedHasFiles(y)' /\ ChangerHolds(y)'
    <2>1. CASE y = x
      BY <1>1, <1>2, <1>4, <1>5, <2>1 DEF StartedHasFiles, ChangerHolds
    <2>2. CASE y # x
      BY <1>1, <1>3, <1>5, <2>2 DEF TrustInv, StartedHasFiles, ChangerHolds
    <2> QED
      BY <2>1, <2>2
  <1> QED
    BY <1>6, <1>7, <1>8, <1>9, <1>10 DEF TrustInv

\* The trust file gets the keys of the proposal whose approval its writer holds.
LEMMA ReplaceStep ==
  ASSUME TrustInv, NEW x \in Appliers, Replace(x)
  PROVE  TrustInv'
  <1> USE TrustAssumption DEF Replace, Goto, ledger
  <1>1. Applied(applier[x].approval, applier[x].proposal.kids)
        /\ applier[x].approval \in Approvals /\ applier[x].proposal \in Proposals
    BY DEF TrustInv, ChangerHolds, StartedHasFiles, Applied
  <1>2. applier' \in [Appliers -> ApplierType] /\ applier'[x].pc = "replaced"
        /\ \A y \in Appliers : /\ applier'[y].approval = applier[y].approval
                               /\ applier'[y].proposal = applier[y].proposal
                               /\ applier'[y].operator = applier[y].operator
                               /\ y # x => applier'[y] = applier[y]
    BY GotoStep DEF TrustInv, Phases
  <1>3. TypeOK'
    BY <1>1, <1>2 DEF TrustInv, TypeOK, Ledger!ApprovalTypeOK, ProposalType
  <1>4. ASSUME NEW b \in Approvals, NEW kids, Applied(b, kids) PROVE Applied(b, kids)'
    BY <1>2, <1>4 DEF Applied
  <1>5. TrustIsApproved'
    <2>1. trust' = applier[x].proposal.kids /\ UNCHANGED audit
      OBVIOUS
    <2>2. ASSUME NEW i \in 1..Len(audit) PROVE audit[i].change.approval \in Approvals
      <3>1. audit[i] \in RecordType
        BY DEF TrustInv, TypeOK
      <3> QED
        BY <3>1 DEF RecordType, ChangeType
    <2> QED
      BY <1>1, <1>4, <2>1, <2>2 DEF TrustInv, TrustIsApproved
  <1>6. UnspentIsFree'
    BY DEF TrustInv, UnspentIsFree
  <1>7. ASSUME NEW y \in Appliers
        PROVE  StartedHasFiles(y)' /\ HolderIsIndependent(y)' /\ ChangerHolds(y)'
    <2>1. StartedHasFiles(y) /\ HolderIsIndependent(y) /\ ChangerHolds(y)
      BY DEF TrustInv
    <2>2. CASE y = x
      BY <1>1, <1>2, <2>1, <2>2 DEF StartedHasFiles, HolderIsIndependent, ChangerHolds
    <2>3. CASE y # x
      BY <1>2, <2>1, <2>3 DEF StartedHasFiles, HolderIsIndependent, ChangerHolds
    <2> QED
      BY <2>2, <2>3
  <1> QED
    BY <1>3, <1>5, <1>6, <1>7 DEF TrustInv

\* The new record names the approval that its writer holds, which no record named
\* before and which nobody else holds.
LEMMA AppendStep ==
  ASSUME TrustInv, NEW x \in Appliers, AppendAudit(x)
  PROVE  TrustInv'
  <1> DEFINE a == applier[x].approval
             change == [approval |-> a, operator |-> applier[x].operator,
                        kids |-> applier[x].proposal.kids]
             record == [previous |-> applier[x].previous, change |-> change,
                        hash |-> RecordHash(applier[x].previous, change)]
  <1> USE TrustAssumption DEF AppendAudit, Goto, ledger
  <1>1. /\ a \in Approvals /\ applier[x].proposal \in Proposals
        /\ Applied(a, change.kids) /\ applier[x].operator # Reviewer[a]
        /\ applier[x].operator \in Operators
        /\ \A i \in 1..Len(audit) : audit[i].change.approval # a
        /\ \A y \in Appliers \ {x} : applier[y].pc \in {"consumed", "replaced", "appending"}
             => applier[y].approval # a
    <2>1. /\ a \in Approvals /\ a \in spent /\ holders[a] = {x}
          /\ Purpose[a] = applier[x].proposal /\ applier[x].proposal \in Proposals
          /\ \A i \in 1..Len(audit) : audit[i].change.approval # a
          /\ applier[x].operator # Reviewer[a] /\ applier[x].operator \in Operators
      BY DEF TrustInv, ChangerHolds, StartedHasFiles
    <2>2. \A y \in Appliers \ {x} : applier[y].pc \in {"consumed", "replaced", "appending"}
            => applier[y].approval # a
      <3> SUFFICES ASSUME NEW y \in Appliers \ {x}, applier[y].approval = a,
                          applier[y].pc \in {"consumed", "replaced", "appending"}
                   PROVE  FALSE
        OBVIOUS
      <3>1. holders[a] = {y}
        BY DEF TrustInv, ChangerHolds
      <3>2. x \in {y}
        BY <2>1, <3>1
      <3> QED
        BY <3>2
    <2> QED
      BY <2>1, <2>2 DEF Applied
  <1>2. change \in ChangeType
    BY <1>1 DEF ChangeType, ProposalType
  <1>3. applier[x].previous \in Seq(ChangeType)
    BY DEF TrustInv, TypeOK, ApplierType
  <1>4. record \in RecordType
    BY <1>2, <1>3 DEF RecordType, RecordHash
  <1>5. audit \in Seq(RecordType) /\ audit' = Append(audit, record)
    BY DEF TrustInv, TypeOK
  <1> HIDE DEF record
  <1>6. /\ audit' \in Seq(RecordType) /\ Len(audit') = Len(audit) + 1
        /\ \A i \in 1..Len(audit) : audit'[i] = audit[i]
        /\ audit'[Len(audit) + 1] = record
    BY <1>4, <1>5
  <1>7. record.change = change
    BY DEF record
  <1>8. applier' \in [Appliers -> ApplierType] /\ applier'[x].pc = "appended"
        /\ \A y \in Appliers : /\ applier'[y].approval = applier[y].approval
                               /\ applier'[y].proposal = applier[y].proposal
                               /\ applier'[y].operator = applier[y].operator
                               /\ y # x => applier'[y] = applier[y]
    BY GotoStep DEF TrustInv, Phases
  <1>9. Len(audit) \in Nat /\ 1..Len(audit') = 1..Len(audit) \cup {Len(audit) + 1}
    BY <1>5, <1>6
  <1>10. TypeOK'
    BY <1>6, <1>8 DEF TrustInv, TypeOK, Ledger!ApprovalTypeOK
  <1>11. TrustIsApproved'
    <2>9. UNCHANGED <<spent, holders>>
      OBVIOUS
    <2>0. ASSUME NEW b, NEW kids, Applied(b, kids) PROVE Applied(b, kids)'
      BY <1>8, <2>0 DEF Applied
    <2>1. trust' \in InitialTrust \/ \E b \in Approvals : Applied(b, trust)'
      <3>1. UNCHANGED trust
        OBVIOUS
      <3> QED
        BY <2>0, <3>1 DEF TrustInv, TrustIsApproved
    <2>2. ASSUME NEW i \in 1..Len(audit')
          PROVE  /\ Applied(audit[i].change.approval, audit[i].change.kids)'
                 /\ audit'[i].change.operator # Reviewer[audit'[i].change.approval]
      <3>1. CASE i \in 1..Len(audit)
        <4>1. PICK c : c = audit[i].change
          OBVIOUS
        <4>2. Applied(c.approval, c.kids) /\ c.operator # Reviewer[c.approval]
          BY <3>1, <4>1 DEF TrustInv, TrustIsApproved
        <4>3. Applied(c.approval, c.kids)'
          BY <2>0, <4>2
        <4>4. audit'[i].change = c
          BY <1>6, <3>1, <4>1
        <4> QED
          BY <4>2, <4>3, <4>4
      <3>2. CASE i = Len(audit) + 1
        <4>1. /\ audit'[i].change.approval = a /\ audit'[i].change.kids = change.kids
              /\ audit'[i].change.operator = applier[x].operator
          BY <1>6, <1>7, <3>2
        <4> QED
          BY <1>1, <1>8, <4>1 DEF Applied
      <3> QED
        BY <1>9, <2>2, <3>1, <3>2
    <2>3. ASSUME NEW i \in 1..Len(audit'), NEW j \in 1..Len(audit'),
                 audit'[i].change.approval = audit'[j].change.approval
          PROVE  i = j
      BY <1>1, <1>6, <1>7, <1>9, <2>3 DEF TrustInv, TrustIsApproved
    <2> QED
      BY <2>1, <2>2, <2>3 DEF TrustIsApproved
  <1>12. UnspentIsFree'
    BY DEF TrustInv, UnspentIsFree
  <1>13. ASSUME NEW y \in Appliers
         PROVE  StartedHasFiles(y)' /\ HolderIsIndependent(y)' /\ ChangerHolds(y)'
    BY <1>1, <1>6, <1>7, <1>8, <1>9
    DEF TrustInv, StartedHasFiles, HolderIsIndependent, ChangerHolds
  <1> QED
    BY <1>10, <1>11, <1>12, <1>13 DEF TrustInv

\* Every step preserves the invariant.
LEMMA NextTrust == TrustInv /\ [Next]_vars => TrustInv'
  <1> SUFFICES ASSUME TrustInv, [Next]_vars PROVE TrustInv'
    OBVIOUS
  <1>1. TypeOK
    BY DEF TrustInv
  <1>2. CASE UNCHANGED vars
    BY <1>2 DEF vars, ledger, TrustInv, TypeOK, Ledger!ApprovalTypeOK, TrustIsApproved, Applied,
       UnspentIsFree, StartedHasFiles, HolderIsIndependent, ChangerHolds
  <1>3. ASSUME NEW x \in Appliers, Start(x) PROVE TrustInv'
    <2>1. PICK a \in Approvals, p \in Proposals, o \in Operators :
            /\ Reviewer[a] # o
            /\ applier' = [applier EXCEPT ![x].pc = "started", ![x].approval = a,
                             ![x].proposal = p, ![x].operator = o]
      BY <1>3 DEF Start
    <2> DEFINE next == [applier[x] EXCEPT !.pc = "started", !.approval = a,
                                          !.proposal = p, !.operator = o]
    <2>2. applier \in [Appliers -> ApplierType] /\ applier[x] \in ApplierType
      BY <1>1 DEF TypeOK
    <2>3. /\ next \in ApplierType /\ next.pc = "started"
          /\ next.approval = a /\ next.proposal = p /\ next.operator = o
      BY <2>2 DEF ApplierType, Phases
    <2>4. applier' = [applier EXCEPT ![x] = next]
      BY <2>1
    <2> HIDE DEF next
    <2>5. /\ applier' \in [Appliers -> ApplierType] /\ applier'[x] = next
          /\ \A y \in Appliers \ {x} : applier'[y] = applier[y]
      BY <2>2, <2>3, <2>4
    <2>6. /\ UNCHANGED <<trust, audit, ledger>> /\ lock' \in BOOLEAN
          /\ faults' \in 0..MaxFaults /\ applier[x].pc = "idle"
      BY <1>1, <1>3 DEF Start, TypeOK
    <2> QED
      BY <2>1, <2>3, <2>5, <2>6, QuietStep DEF StartedHasFiles
  <1>4. ASSUME NEW x \in Appliers,
               TakeLock(x) \/ ValidateTransition(x) \/ VerifyAudit(x) \/ Refuse(x) \/ Unlock(x)
               \/ RejectInput(x) \/ Raise(x) \/ Crash(x)
        PROVE  TrustInv'
    <2>1. /\ \E pc \in Phases \ {"idle", "consumed", "replaced", "appending"} : Goto(x, pc)
          /\ applier[x].pc \in {"idle", "failed"} => Goto(x, "failed")
      BY <1>4 DEF Phases, TakeLock, ValidateTransition, VerifyAudit, Refuse, Unlock, RejectInput,
         Raise, Crash
    <2>2. /\ applier' \in [Appliers -> ApplierType]
          /\ applier'[x].pc \notin {"idle", "consumed", "replaced", "appending"}
          /\ applier'[x].approval = applier[x].approval
          /\ applier'[x].proposal = applier[x].proposal
          /\ applier'[x].operator = applier[x].operator
          /\ applier[x].pc \in {"idle", "failed"} => applier'[x].pc = "failed"
          /\ \A y \in Appliers \ {x} : applier'[y] = applier[y]
      BY <1>1, <2>1, GotoStep DEF Phases
    <2>7. StartedHasFiles(x)'
      BY <2>2 DEF TrustInv, StartedHasFiles
    <2>3. UNCHANGED <<trust, audit, ledger>>
      BY <1>4 DEF TakeLock, ValidateTransition, VerifyAudit, Refuse, Unlock,
         RejectInput, Raise, Crash
    <2>4. lock' \in BOOLEAN
      BY <1>1, <1>4 DEF TypeOK, TakeLock, ValidateTransition, VerifyAudit, Refuse, Unlock,
         RejectInput, Raise, Crash
    <2>5. faults' = faults \/ (faults < MaxFaults /\ faults' = faults + 1)
      BY <1>4 DEF TakeLock, ValidateTransition, VerifyAudit, Refuse, Unlock,
         RejectInput, Raise, Crash
    <2>6. faults' \in 0..MaxFaults
      BY <1>1, <2>5, TrustAssumption DEF TypeOK
    <2> QED
      BY <2>2, <2>3, <2>4, <2>6, <2>7, QuietStep
  <1>5. ASSUME NEW x \in Appliers, ReadLast(x) PROVE TrustInv'
    <2>1. (IF audit = <<>> THEN Genesis ELSE audit[Len(audit)].hash) \in Seq(ChangeType)
      <3>1. CASE audit = <<>>
        BY <3>1 DEF Genesis
      <3>2. CASE audit # <<>>
        <4>1. audit[Len(audit)] \in RecordType
          BY <1>1, <3>2 DEF TypeOK
        <4> QED
          BY <3>2, <4>1 DEF RecordType
      <3> QED
        BY <3>1, <3>2
    <2> DEFINE last == IF audit = <<>> THEN Genesis ELSE audit[Len(audit)].hash
               next == [applier[x] EXCEPT !.pc = "appending", !.previous = last]
    <2>2. applier \in [Appliers -> ApplierType] /\ applier[x] \in ApplierType
      BY <1>1 DEF TypeOK
    <2>3. /\ next \in ApplierType
          /\ next.approval = applier[x].approval /\ next.proposal = applier[x].proposal
          /\ next.operator = applier[x].operator /\ next.pc = "appending"
      <3> HIDE DEF last
      <3> QED
        BY <2>1, <2>2 DEF ApplierType, Phases, last
    <2>4. applier' = [applier EXCEPT ![x] = next]
      BY <1>5 DEF ReadLast
    <2> HIDE DEF next
    <2>5. /\ applier' \in [Appliers -> ApplierType] /\ applier'[x] = next
          /\ \A y \in Appliers \ {x} : applier'[y] = applier[y]
      BY <2>2, <2>3, <2>4
    <2>6. /\ applier[x].pc = "replaced" /\ UNCHANGED <<trust, audit, ledger>>
          /\ lock' \in BOOLEAN /\ faults' \in 0..MaxFaults
      BY <1>1, <1>5 DEF ReadLast, TypeOK
    <2>7. StartedHasFiles(x)'
      BY <2>3, <2>5, <2>6 DEF TrustInv, StartedHasFiles
    <2> QED
      BY <2>3, <2>5, <2>6, <2>7, QuietStep
  <1> QED
    BY <1>2, <1>3, <1>4, <1>5, ConsumeStep, ReplaceStep, AppendStep DEF Next, Proceed

\* The invariant holds in every reachable state.
LEMMA AlwaysTrust == Spec => []TrustInv
  BY InitTrust, NextTrust, PTL DEF Spec

\* Every variable keeps its type.
THEOREM TypeCorrect == Spec => []TypeOK
  BY AlwaysTrust, PTL DEF TrustInv

\* Whatever is trusted and audited (apply_approved_oidc_trust_change) was signed
\* for by an approver, one approval for each record, also where the lock file
\* excludes nobody.
THEOREM TrustApproved == Spec => []TrustIsApproved
  BY AlwaysTrust, PTL DEF TrustInv

-----------------------------------------------------------------------------
(***************************************************************************)
(* What does rest on the lock, for any number of executions where a file   *)
(* that a process has open cannot be removed.                              *)
(***************************************************************************)

\* Whoever is within is alone there, and who comes finds the lock.
AloneWithin ==
  \A x \in Appliers : Within(x) => lock /\ \A y \in Appliers \ {x} : ~ Within(y)

LastHash(log) == IF log = <<>> THEN Genesis ELSE log[Len(log)].hash

\* What one knows who is within: its transition fits the trust file that it will
\* replace, and its record the log to which it will be appended.
WithinKnows(x) ==
  /\ applier[x].pc \in {"valid", "verified", "consumed"} => ValidTransition(applier[x].proposal)
  /\ applier[x].pc \in {"replaced", "appending"} => trust = applier[x].proposal.kids
  /\ applier[x].pc = "appending" => applier[x].previous = LastHash(audit)

LockInv ==
  /\ AloneWithin
  /\ \A x \in Appliers : WithinKnows(x)
  /\ AuditChainIntact
  /\ TrustIsAccounted

Step(x) == Start(x) \/ RejectInput(x) \/ Proceed(x) \/ Raise(x) \/ Crash(x)

\* What one step of an execution does to the others: nothing; and its own files stay.
LEMMA OthersStay ==
  ASSUME TypeOK, NEW x \in Appliers, Step(x)
  PROVE  /\ \A y \in Appliers \ {x} : applier'[y] = applier[y]
         /\ applier[x].pc # "idle" =>
              /\ applier'[x].proposal = applier[x].proposal
              /\ applier'[x].approval = applier[x].approval
  <1>1. CASE ReadLast(x)
    <2> DEFINE last == IF audit = <<>> THEN Genesis ELSE audit[Len(audit)].hash
    <2>1. applier' = [applier EXCEPT ![x].pc = "appending", ![x].previous = last]
      BY <1>1 DEF ReadLast
    <2> HIDE DEF last
    <2> QED
      BY <2>1 DEF TypeOK, ApplierType
  <1>2. CASE Start(x)
    <2>1. PICK a \in Approvals, p \in Proposals, o \in Operators :
            applier' = [applier EXCEPT ![x].pc = "started", ![x].approval = a,
                          ![x].proposal = p, ![x].operator = o]
      BY <1>2 DEF Start
    <2> QED
      BY <1>2, <2>1 DEF Start, TypeOK
  <1>3. CASE ~ ReadLast(x) /\ ~ Start(x)
    <2>1. \E pc \in Phases : Goto(x, pc)
      BY <1>3 DEF Step, Proceed, TakeLock, ValidateTransition, VerifyAudit, Consume, Refuse,
         Replace, AppendAudit, Unlock, RejectInput, Raise, Crash, Phases
    <2> QED
      BY <2>1, GotoStep
  <1> QED
    BY <1>1, <1>2, <1>3

\* Where an execution gets to, and what becomes of the lock.
LEMMA LockStep ==
  ASSUME TypeOK, NEW x \in Appliers, Step(x)
  PROVE  \/ ~ Within(x) /\ ~ lock /\ lock' /\ Within(x)'
         \/ ~ Within(x)' /\ lock' = lock
         \/ Within(x) /\ lock' = lock
         \/ /\ ~ Within(x)' /\ ~ Within(x)
            /\ lock' = (lock /\ ~ (RemovesOpenFiles \/ \A y \in Appliers \ {x} : ~ Within(y)))
  <1> USE DEF Phases, Within
  <1>1. CASE TakeLock(x)
    BY <1>1, GotoStep DEF TakeLock, TypeOK
  <1>2. CASE ValidateTransition(x) \/ VerifyAudit(x) \/ Consume(x) \/ Replace(x) \/ ReadLast(x)
             \/ AppendAudit(x) \/ Refuse(x) \/ Raise(x)
    BY <1>2, GotoStep DEF ValidateTransition, VerifyAudit, Consume, Replace, ReadLast, AppendAudit,
       Refuse, Raise
  <1>3. CASE Unlock(x)
    <2>1. applier'[x].pc \in {"applied", "failed"}
      BY <1>3, GotoStep DEF Unlock
    <2> QED
      BY <1>3, <2>1 DEF Unlock
  <1>4. CASE RejectInput(x) \/ Crash(x)
    BY <1>4, GotoStep DEF RejectInput, Crash
  <1>5. CASE Start(x)
    <2>1. PICK a \in Approvals, p \in Proposals, o \in Operators :
            applier' = [applier EXCEPT ![x].pc = "started", ![x].approval = a,
                          ![x].proposal = p, ![x].operator = o]
      BY <1>5 DEF Start
    <2>2. applier'[x].pc = "started" /\ lock' = lock
      BY <1>5, <2>1 DEF Start, TypeOK, ApplierType
    <2> QED
      BY <2>2
  <1> QED
    BY <1>1, <1>2, <1>3, <1>4, <1>5 DEF Step, Proceed

\* Nobody joins the one that is within: it is there that the lock file is open.
LEMMA AloneStep ==
  ASSUME ~ RemovesOpenFiles, TypeOK, AloneWithin, NEW x \in Appliers, Step(x)
  PROVE  AloneWithin'
  <1>1. \A y \in Appliers \ {x} : Within(y)' <=> Within(y)
    BY OthersStay DEF Within
  <1> QED
    BY <1>1, LockStep DEF AloneWithin

\* A half-made change stays one while file, log and its approval do.
LEMMA HalfStays ==
  ASSUME TrustInv, NEW x \in Appliers, Step(x), NEW y \in Appliers, HalfApplied(y),
         UNCHANGED <<trust, audit>>,
         spent \subseteq spent',
         \A a \in spent : holders'[a] = holders[a],
         applier'[x].pc \in {"raised", "failed", "crashed"}
           \/ applier[x].pc \notin {"raised", "failed", "crashed"}
  PROVE  HalfApplied(y)'
  <1>1. y # x => applier'[y] = applier[y]
    BY OthersStay DEF TrustInv
  <1>2. applier'[y].approval = applier[y].approval
    BY <1>1, OthersStay DEF TrustInv, HalfApplied
  <1>3. applier'[y].pc \in {"raised", "failed", "crashed"}
    BY <1>1 DEF HalfApplied
  <1> QED
    BY <1>2, <1>3 DEF HalfApplied

\* A step that leaves the trust file and the log as they are and is not one of
\* those between the replacement and the record.
LEMMA CalmStep ==
  ASSUME TrustInv, LockInv, NEW x \in Appliers, Step(x), UNCHANGED <<trust, audit>>, AloneWithin',
         spent \subseteq spent',
         \A a \in spent : holders'[a] = holders[a],
         applier'[x].pc \notin {"replaced", "appending"},
         applier[x].pc \notin {"replaced", "appending"},
         applier'[x].pc \in {"raised", "failed", "crashed"}
           \/ applier[x].pc \notin {"raised", "failed", "crashed"},
         applier'[x].pc \in {"valid", "verified", "consumed"} =>
           ValidTransition(applier'[x].proposal)
  PROVE  LockInv'
  <1>0. \A y \in Appliers \ {x} : applier'[y] = applier[y]
    BY OthersStay DEF TrustInv
  <1>1. ASSUME NEW y \in Appliers PROVE WithinKnows(y)'
    BY <1>0 DEF LockInv, WithinKnows, ValidTransition, LastHash
  <1>2. AuditChainIntact'
    BY DEF LockInv, AuditChainIntact, ChainIntact
  <1>3. TrustIsAccounted'
    <2> SUFFICES ASSUME \A y \in Appliers : applier'[y].pc \notin {"replaced", "appending"}
                 PROVE  Matched' \/ \E y \in Appliers : HalfApplied(y)'
      BY DEF TrustIsAccounted
    <2>1. Matched \/ \E y \in Appliers : HalfApplied(y)
      BY <1>0 DEF LockInv, TrustIsAccounted
    <2>2. Matched => Matched'
      BY DEF Matched
    <2> QED
      BY <2>1, <2>2, HalfStays
  <1> QED
    BY <1>1, <1>2, <1>3 DEF LockInv

\* An execution that breaks off between replacement and record leaves half a change.
LEMMA BreakStep ==
  ASSUME TrustInv, LockInv, NEW x \in Appliers, Raise(x) \/ Crash(x), AloneWithin',
         applier[x].pc \in {"replaced", "appending"}
  PROVE  LockInv'
  <1>1. /\ \A y \in Appliers \ {x} : applier'[y] = applier[y]
        /\ applier'[x].approval = applier[x].approval
        /\ applier'[x].pc \in {"raised", "crashed"}
    BY GotoStep DEF Raise, Crash, Phases, TrustInv
  <1>2. UNCHANGED <<trust, audit, spent, holders>>
    BY DEF Raise, Crash, ledger
  <1>3. ASSUME NEW y \in Appliers PROVE WithinKnows(y)'
    BY <1>1, <1>2 DEF LockInv, WithinKnows, ValidTransition, LastHash
  <1>4. AuditChainIntact'
    BY <1>2 DEF LockInv, AuditChainIntact, ChainIntact
  <1>5. HalfApplied(x)'
    BY <1>1, <1>2 DEF TrustInv, ChangerHolds, LockInv, WithinKnows, HalfApplied
  <1> QED
    BY <1>3, <1>4, <1>5 DEF LockInv, TrustIsAccounted

\* The replacement finds nobody else within whose knowledge it could spoil.
LEMMA LockReplaceStep ==
  ASSUME TrustInv, LockInv, NEW x \in Appliers, Replace(x), AloneWithin'
  PROVE  LockInv'
  <1>1. /\ \A y \in Appliers \ {x} : applier'[y] = applier[y]
        /\ applier'[x].proposal = applier[x].proposal
        /\ applier'[x].pc = "replaced"
    BY GotoStep DEF Replace, Phases, TrustInv
  <1>2. ASSUME NEW y \in Appliers PROVE WithinKnows(y)'
    BY <1>1 DEF WithinKnows, Replace, AloneWithin, Within
  <1>3. AuditChainIntact'
    BY DEF LockInv, AuditChainIntact, ChainIntact, Replace
  <1>4. TrustIsAccounted'
    BY <1>1 DEF TrustIsAccounted
  <1> QED
    BY <1>2, <1>3, <1>4 DEF LockInv

\* Reading the last hash.
LEMMA LockReadStep ==
  ASSUME TrustInv, LockInv, NEW x \in Appliers, ReadLast(x), AloneWithin'
  PROVE  LockInv'
  <1>1. applier' = [applier EXCEPT ![x].pc = "appending", ![x].previous = LastHash(audit)]
    BY DEF ReadLast, LastHash
  <1>2. /\ \A y \in Appliers \ {x} : applier'[y] = applier[y]
        /\ applier'[x].proposal = applier[x].proposal
        /\ applier'[x].previous = LastHash(audit)
        /\ applier'[x].pc = "appending"
    BY <1>1 DEF TrustInv, TypeOK, ApplierType
  <1>3. applier[x].pc = "replaced" /\ UNCHANGED <<trust, audit>>
    BY DEF ReadLast
  <1>4. ASSUME NEW y \in Appliers PROVE WithinKnows(y)'
    BY <1>2, <1>3 DEF LockInv, WithinKnows, AloneWithin, Within, LastHash
  <1>5. AuditChainIntact'
    BY <1>3 DEF LockInv, AuditChainIntact, ChainIntact
  <1>6. TrustIsAccounted'
    BY <1>2 DEF TrustIsAccounted
  <1> QED
    BY <1>4, <1>5, <1>6 DEF LockInv

\* The record continues the log as it still is, and names the keys of the file.
LEMMA LockAppendStep ==
  ASSUME TrustInv, LockInv, NEW x \in Appliers, AppendAudit(x), AloneWithin'
  PROVE  LockInv'
  <1> DEFINE change == [approval |-> applier[x].approval, operator |-> applier[x].operator,
                        kids |-> applier[x].proposal.kids]
             record == [previous |-> applier[x].previous, change |-> change,
                        hash |-> RecordHash(applier[x].previous, change)]
  <1>1. /\ \A y \in Appliers \ {x} : applier'[y] = applier[y]
        /\ applier'[x].pc = "appended"
    BY GotoStep DEF AppendAudit, Phases, TrustInv
  <1>2. /\ applier[x].pc = "appending" /\ trust' = trust
        /\ audit' = Append(audit, record)
    BY DEF AppendAudit
  <1>3. /\ record.previous = LastHash(audit) /\ record.change.kids = trust
        /\ record.hash = RecordHash(record.previous, record.change)
    BY <1>2 DEF LockInv, WithinKnows
  <1> HIDE DEF record
  <1>4. /\ Len(audit) \in Nat /\ Len(audit') = Len(audit) + 1
        /\ \A i \in 1..Len(audit) : audit'[i] = audit[i]
        /\ audit'[Len(audit')] = record
        /\ audit' # <<>>
    BY <1>2 DEF TrustInv, TypeOK
  <1>5. ASSUME NEW y \in Appliers PROVE WithinKnows(y)'
    BY <1>1, <1>2 DEF LockInv, WithinKnows, AloneWithin, Within
  <1>6. AuditChainIntact'
    <2> SUFFICES ASSUME NEW i \in 1..Len(audit')
                 PROVE  /\ audit'[i].previous = IF i = 1 THEN Genesis ELSE audit'[i - 1].hash
                        /\ audit'[i].hash = RecordHash(audit'[i].previous, audit'[i].change)
      BY DEF AuditChainIntact, ChainIntact
    <2>1. CASE i \in 1..Len(audit)
      <3>1. audit'[i] = audit[i] /\ (i # 1 => audit'[i - 1] = audit[i - 1])
        BY <1>4, <2>1
      <3> QED
        BY <2>1, <3>1 DEF LockInv, AuditChainIntact, ChainIntact
    <2>2. CASE i = Len(audit')
      <3>1. i = 1 <=> audit = <<>>
        BY <1>4, <2>2 DEF TrustInv, TypeOK
      <3>2. i # 1 => audit'[i - 1] = audit[Len(audit)]
        BY <1>4, <2>2
      <3> QED
        BY <1>3, <1>4, <2>2, <3>1, <3>2 DEF LastHash
    <2> QED
      BY <1>4, <2>1, <2>2
  <1>7. TrustIsAccounted'
    BY <1>2, <1>3, <1>4 DEF TrustIsAccounted, Matched
  <1> QED
    BY <1>5, <1>6, <1>7 DEF LockInv

\* Every step preserves the invariant.
LEMMA NextLock ==
  ~ RemovesOpenFiles /\ TrustInv /\ LockInv /\ [Next]_vars => LockInv'
  <1> SUFFICES ASSUME ~ RemovesOpenFiles, TrustInv, LockInv, [Next]_vars PROVE LockInv'
    OBVIOUS
  <1>1. CASE UNCHANGED vars
    BY <1>1 DEF vars, ledger, LockInv, AloneWithin, Within, WithinKnows, AuditChainIntact,
       ChainIntact, TrustIsAccounted, Matched, HalfApplied, ValidTransition, LastHash
  <1>2. ASSUME NEW x \in Appliers, Step(x) PROVE AloneWithin'
    BY <1>2, AloneStep DEF TrustInv, LockInv
  <1>3. ASSUME NEW x \in Appliers, Start(x) PROVE LockInv'
    <2>1. PICK a \in Approvals, p \in Proposals, o \in Operators :
            applier' = [applier EXCEPT ![x].pc = "started", ![x].approval = a,
                          ![x].proposal = p, ![x].operator = o]
      BY <1>3 DEF Start
    <2>2. applier'[x].pc = "started"
      BY <2>1 DEF TrustInv, TypeOK, ApplierType
    <2>3. applier[x].pc = "idle" /\ UNCHANGED <<trust, audit, spent, holders>>
      BY <1>3 DEF Start, ledger
    <2> QED
      BY <1>2, <1>3, <2>2, <2>3, CalmStep DEF Step
  <1>4. ASSUME NEW x \in Appliers,
               TakeLock(x) \/ ValidateTransition(x) \/ VerifyAudit(x) \/ Consume(x) \/ Refuse(x)
               \/ Unlock(x) \/ RejectInput(x) \/ Raise(x) \/ Crash(x),
               applier[x].pc \notin {"replaced", "appending"}
        PROVE  LockInv'
    <2>1. Step(x)
      BY <1>4 DEF Step, Proceed
    <2>2. AloneWithin'
      BY <1>2, <2>1
    <2>3. UNCHANGED <<trust, audit>>
      BY <1>4 DEF TakeLock, ValidateTransition, VerifyAudit, Consume, Refuse, Unlock, RejectInput,
         Raise, Crash
    <2>4. spent \subseteq spent' /\ \A a \in spent : holders'[a] = holders[a]
      <3>1. CASE Consume(x)
        BY <3>1 DEF Consume, Ledger!Grant, TrustInv, TypeOK, Ledger!ApprovalTypeOK
      <3>2. CASE ~ Consume(x)
        BY <1>4, <3>2 DEF TakeLock, ValidateTransition, VerifyAudit, Refuse, Unlock, RejectInput,
           Raise, Crash, ledger
      <3> QED
        BY <3>1, <3>2
    <2>5. \E pc \in Phases \ {"replaced", "appending"} :
             /\ Goto(x, pc)
             /\ \/ pc \in {"raised", "failed", "crashed"}
                \/ applier[x].pc \notin {"raised", "failed", "crashed"}
      BY <1>4 DEF TakeLock, ValidateTransition, VerifyAudit, Consume, Refuse, Unlock, RejectInput,
         Raise, Crash, Phases
    <2>6. /\ applier'[x].pc \notin {"replaced", "appending"}
          /\ \/ applier'[x].pc \in {"raised", "failed", "crashed"}
             \/ applier[x].pc \notin {"raised", "failed", "crashed"}
      BY <2>5, GotoStep DEF TrustInv
    <2>7. applier'[x].pc \in {"valid", "verified", "consumed"} =>
            ValidTransition(applier'[x].proposal)
      <3>1. CASE ValidateTransition(x)
        BY <3>1, GotoStep DEF ValidateTransition, Phases, TrustInv
      <3>2. CASE VerifyAudit(x) \/ Consume(x)
        <4>1. ValidTransition(applier[x].proposal) /\ applier[x].pc # "idle"
          BY <3>2 DEF LockInv, WithinKnows, VerifyAudit, Consume
        <4> QED
          BY <2>1, <4>1, OthersStay DEF TrustInv
      <3>3. CASE ~ ValidateTransition(x) /\ ~ VerifyAudit(x) /\ ~ Consume(x)
        <4>1. \E pc \in Phases \ {"valid", "verified", "consumed"} : Goto(x, pc)
          BY <1>4, <3>3 DEF TakeLock, Refuse, Unlock, RejectInput, Raise, Crash, Phases
        <4> QED
          BY <4>1, GotoStep DEF TrustInv
      <3> QED
        BY <3>1, <3>2, <3>3
    <2> QED
      BY <1>4, <2>1, <2>2, <2>3, <2>4, <2>6, <2>7, CalmStep
  <1>5. ASSUME NEW x \in Appliers, Raise(x) \/ Crash(x),
               applier[x].pc \in {"replaced", "appending"}
        PROVE  LockInv'
    BY <1>2, <1>5, BreakStep DEF Step
  <1>6. ASSUME NEW x \in Appliers, Replace(x) \/ ReadLast(x) \/ AppendAudit(x)
        PROVE  LockInv'
    BY <1>2, <1>6, LockReplaceStep, LockReadStep, LockAppendStep DEF Step, Proceed
  <1>7. ASSUME NEW x \in Appliers,
               TakeLock(x) \/ ValidateTransition(x) \/ VerifyAudit(x) \/ Consume(x) \/ Refuse(x)
               \/ Unlock(x) \/ RejectInput(x)
        PROVE  applier[x].pc \notin {"replaced", "appending"}
    BY <1>7 DEF TakeLock, ValidateTransition, VerifyAudit, Consume, Refuse, Unlock, RejectInput
  <1> QED
    BY <1>1, <1>3, <1>4, <1>5, <1>6, <1>7 DEF Next, Proceed

\* The initial states satisfy the invariant.
LEMMA InitLock == Init => LockInv
  <1> SUFFICES ASSUME Init PROVE LockInv
    OBVIOUS
  <1>1. AloneWithin
    BY DEF Init, AloneWithin, Within
  <1>2. \A x \in Appliers : WithinKnows(x)
    BY DEF Init, WithinKnows
  <1>3. AuditChainIntact /\ TrustIsAccounted
    BY DEF Init, AuditChainIntact, ChainIntact, TrustIsAccounted, Matched
  <1> QED
    BY <1>1, <1>2, <1>3 DEF LockInv

\* The invariant holds in every reachable state.
LEMMA AlwaysLock == ~ RemovesOpenFiles => (Spec => []LockInv)
  <1> SUFFICES ASSUME ~ RemovesOpenFiles PROVE Spec => []LockInv
    OBVIOUS
  <1>1. TrustInv /\ LockInv /\ [Next]_vars => LockInv'
    BY NextLock
  <1> QED
    BY InitLock, AlwaysTrust, <1>1, PTL DEF Spec

\* Where an open file cannot be removed, any number of executions, of which any
\* number die or fail, leave the trust file as the last record has it or as a
\* half-made change that its spent approval betrays.
THEOREM TrustAccounted == ~ RemovesOpenFiles => (Spec => []TrustIsAccounted)
  <1> SUFFICES ASSUME ~ RemovesOpenFiles PROVE Spec => []TrustIsAccounted
    OBVIOUS
  <1>1. LockInv => TrustIsAccounted
    BY DEF LockInv
  <1> QED
    BY AlwaysLock, <1>1, PTL

\* Where an open file cannot be removed, the chain that any number of executions
\* write (_append_audit) is one that verify_oidc_trust_audit accepts.
THEOREM ChainKept == ~ RemovesOpenFiles => (Spec => []AuditChainIntact)
  <1> SUFFICES ASSUME ~ RemovesOpenFiles PROVE Spec => []AuditChainIntact
    OBVIOUS
  <1>1. LockInv => AuditChainIntact
    BY DEF LockInv
  <1> QED
    BY AlwaysLock, <1>1, PTL

\* Where an open file cannot be removed, a rotation shares a key with the set that
\* it replaces, as _validate_transition demands of the set that it read, for any
\* number of executions.
THEOREM OverlapKept == ~ RemovesOpenFiles => (Spec => RotationOverlaps)
  <1> SUFFICES ASSUME ~ RemovesOpenFiles PROVE Spec => RotationOverlaps
    OBVIOUS
  <1>1. LockInv /\ [Next]_vars => [trust # None => trust' \cap trust # {}]_trust
    <2> SUFFICES ASSUME LockInv, NEW x \in Appliers, Replace(x), trust # None
                 PROVE  trust' \cap trust # {}
      BY DEF Next, Proceed, vars, Start, TakeLock, ValidateTransition, VerifyAudit, Consume,
         Refuse, ReadLast, AppendAudit, Unlock, RejectInput, Raise, Crash
    <2> QED
      BY DEF LockInv, WithinKnows, ValidTransition, Replace
  <1> QED
    BY AlwaysLock, <1>1, PTL DEF Spec, RotationOverlaps
=============================================================================
