--------------------------- MODULE OidcTrustChange ---------------------------
(***************************************************************************)
(* Application of approved OIDC trust changes: the whole of                *)
(* apply_approved_oidc_trust_change (oidc_trust_approval.py) with          *)
(* _validate_transition, verify_oidc_trust_audit, _atomic_replace and      *)
(* _append_audit.                                                          *)
(*                                                                         *)
(* Appliers are operator processes.  They share the trust file, the audit  *)
(* log, the approval ledger and a lock file created with open("x").  The   *)
(* "finally" that removes the lock file encloses its creation, so that an  *)
(* applier which finds the lock taken removes it as well, if the file      *)
(* system lets it: the owner keeps the lock file open, and Windows, for    *)
(* which scripts/ is written, refuses to remove a file that is open.       *)
(***************************************************************************)
EXTENDS Naturals, Sequences

CONSTANTS
  Appliers,    \* executions of apply_approved_oidc_trust_change
  Approvals,   \* approval UUIDs
  Kids,        \* key IDs
  Proposals,   \* trust proposals, see ProposalType
  Purpose,     \* Purpose[a]: the proposal whose bytes approval a was signed for
  Operators,   \* persons, by name without case and outer blanks
  Reviewer,    \* Reviewer[a]: the person that approval a names as its reviewer
  RemovesOpenFiles,  \* the file system removes a file that a process has open
  InitialTrust,  \* trust files from before the first governed change
  MaxFaults,   \* bound on dying processes and failing writes
  None         \* no trust file, no proposal, no approval

ProposalType == [kids : SUBSET Kids \ {{}}, bootstrap : BOOLEAN]

ASSUME TrustAssumption ==
  /\ Proposals \subseteq ProposalType
  /\ Purpose \in [Approvals -> Proposals]
  /\ Reviewer \in [Approvals -> Operators]
  /\ RemovesOpenFiles \in BOOLEAN
  /\ InitialTrust \subseteq {None} \cup SUBSET Kids
  /\ MaxFaults \in Nat
  /\ \A kids \in SUBSET Kids : kids # None

VARIABLES
  trust,           \* the key IDs of the trust file
  lock,            \* the lock file exists
  audit,           \* the lines of the audit log
  spent, holders,  \* the approval ledger
  applier,         \* the state of every execution
  faults

ledger == <<spent, holders>>
vars == <<trust, lock, audit, ledger, applier, faults>>

Ledger == INSTANCE OneUseApproval WITH Callers <- Appliers

\* A record's hash covers the previous hash and the change, so it stands for
\* the whole sequence of changes that led to it.
Genesis == <<>>
RecordHash(previous, change) == Append(previous, change)

Init ==
  /\ trust \in InitialTrust
  /\ lock = FALSE
  /\ audit = <<>>
  /\ Ledger!ApprovalInit
  /\ applier = [x \in Appliers |->
       [pc |-> "idle", proposal |-> None, approval |-> None, operator |-> None,
        previous |-> Genesis]]
  /\ faults = 0

-----------------------------------------------------------------------------
Goto(x, pc) == applier' = [applier EXCEPT ![x].pc = pc]

\* The files are read and validated: the approver is not the operator.
Start(x) ==
  /\ applier[x].pc = "idle"
  /\ \E a \in Approvals, p \in Proposals, o \in Operators :
       /\ Reviewer[a] # o
       /\ applier' = [applier EXCEPT ![x].pc = "started", ![x].approval = a,
                        ![x].proposal = p, ![x].operator = o]
  /\ UNCHANGED <<trust, lock, audit, ledger, faults>>

\* A self-approval, or a proposal whose hash, key IDs or trust file are not the
\* ones it claims: raises before there is a lock to remove.
RejectInput(x) ==
  /\ applier[x].pc = "idle"
  /\ Goto(x, "failed")
  /\ UNCHANGED <<trust, lock, audit, ledger, faults>>

\* Defect: the lock file is opened with "w".
TakeLockAlways(x) ==
  /\ applier[x].pc = "started"
  /\ lock' = TRUE
  /\ Goto(x, "locked")
  /\ UNCHANGED <<trust, audit, ledger, faults>>

\* Defect: the applier waits until the lock file is gone.
TakeLockWhenFree(x) ==
  /\ applier[x].pc = "started"
  /\ ~ lock
  /\ lock' = TRUE
  /\ Goto(x, "locked")
  /\ UNCHANGED <<trust, audit, ledger, faults>>

\* lock.open("x"): FileExistsError when the file is there.
TakeLock(x) ==
  /\ applier[x].pc = "started"
  /\ IF lock THEN Goto(x, "raised") ELSE Goto(x, "locked")
  /\ lock' = TRUE
  /\ UNCHANGED <<trust, audit, ledger, faults>>

\* Defect: the overlap is not required.
ValidTransitionAnyKeys(p) == p.bootstrap <=> trust = None

\* _validate_transition: the mode fits the current state, and a rotation keeps
\* a trusted key ID.
ValidTransition(p) ==
  /\ p.bootstrap <=> trust = None
  /\ trust # None => trust \cap p.kids # {}

ValidateTransition(x) ==
  /\ applier[x].pc = "locked"
  /\ IF ValidTransition(applier[x].proposal) THEN Goto(x, "valid") ELSE Goto(x, "raised")
  /\ UNCHANGED <<trust, lock, audit, ledger, faults>>

\* verify_oidc_trust_audit: every record continues the one before it.
ChainIntact(log) ==
  \A i \in 1..Len(log) :
    /\ log[i].previous = IF i = 1 THEN Genesis ELSE log[i - 1].hash
    /\ log[i].hash = RecordHash(log[i].previous, log[i].change)

VerifyAudit(x) ==
  /\ applier[x].pc = "valid"
  /\ IF ChainIntact(audit) THEN Goto(x, "verified") ELSE Goto(x, "raised")
  /\ UNCHANGED <<trust, lock, audit, ledger, faults>>

\* Defect: the envelope is not checked against the proposal's bytes.
ConsumeAnyProposal(x) ==
  /\ applier[x].pc = "verified"
  /\ Ledger!Grant(applier[x].approval, x)
  /\ Goto(x, "consumed")
  /\ UNCHANGED <<trust, lock, audit, faults>>

\* consume_approval: the approval was signed for these bytes and is not spent.
Consume(x) ==
  /\ applier[x].pc = "verified"
  /\ Purpose[applier[x].approval] = applier[x].proposal
  /\ Ledger!Grant(applier[x].approval, x)
  /\ Goto(x, "consumed")
  /\ UNCHANGED <<trust, lock, audit, faults>>

\* consume_approval raises: another proposal, a spent or an expired approval.
Refuse(x) ==
  /\ applier[x].pc = "verified"
  /\ Goto(x, "raised")
  /\ UNCHANGED <<trust, lock, audit, ledger, faults>>

\* _atomic_replace.
Replace(x) ==
  /\ applier[x].pc = "consumed"
  /\ trust' = applier[x].proposal.kids
  /\ Goto(x, "replaced")
  /\ UNCHANGED <<lock, audit, ledger, faults>>

\* Defect: the last record is taken for its hash.
ReadLastRecord(x) ==
  /\ applier[x].pc = "replaced"
  /\ applier' = [applier EXCEPT ![x].pc = "appending",
       ![x].previous = IF audit = <<>> THEN Genesis ELSE <<audit[Len(audit)]>>]
  /\ UNCHANGED <<trust, lock, audit, ledger, faults>>

\* _append_audit reads the last record's hash ...
ReadLast(x) ==
  /\ applier[x].pc = "replaced"
  /\ applier' = [applier EXCEPT ![x].pc = "appending",
       ![x].previous = IF audit = <<>> THEN Genesis ELSE audit[Len(audit)].hash]
  /\ UNCHANGED <<trust, lock, audit, ledger, faults>>

\* ... and appends a record that continues it.
AppendAudit(x) ==
  LET change == [approval |-> applier[x].approval, operator |-> applier[x].operator,
                 kids |-> applier[x].proposal.kids]
      previous == applier[x].previous
  IN
  /\ applier[x].pc = "appending"
  /\ audit' = Append(audit, [previous |-> previous, change |-> change,
                             hash |-> RecordHash(previous, change)])
  /\ Goto(x, "appended")
  /\ UNCHANGED <<trust, lock, ledger, faults>>

\* Within the lock: the process has the lock file open.
Within(x) == applier[x].pc \in {"locked", "valid", "verified", "consumed", "replaced", "appending"}

\* finally: lock.unlink(missing_ok=True), whoever created the file.  Where a file
\* that another process has open cannot be removed, it stays and unlink raises.
Unlock(x) ==
  LET removes == RemovesOpenFiles \/ \A y \in Appliers \ {x} : ~ Within(y)
  IN
  /\ \/ applier[x].pc = "appended" /\ Goto(x, IF removes THEN "applied" ELSE "failed")
     \/ applier[x].pc = "raised" /\ Goto(x, "failed")
  /\ lock' = (lock /\ ~ removes)
  /\ UNCHANGED <<trust, audit, ledger, faults>>

\* Defect: an execution that fails gives its approval back.
RaiseAndReturn(x) ==
  /\ faults < MaxFaults
  /\ applier[x].pc \in {"consumed", "replaced", "appending"}
  /\ faults' = faults + 1
  /\ Goto(x, "raised")
  /\ spent' = spent \ {applier[x].approval}
  /\ holders' = [holders EXCEPT ![applier[x].approval] = {}]
  /\ UNCHANGED <<trust, lock, audit>>

\* The trust file or the log cannot be read or written: the exception leaves the
\* lock, the approval stays spent and a replaced trust file stays replaced.
Raise(x) ==
  /\ faults < MaxFaults
  /\ applier[x].pc \in {"consumed", "replaced", "appending"}
  /\ faults' = faults + 1
  /\ Goto(x, "raised")
  /\ UNCHANGED <<trust, lock, audit, ledger>>

\* The process dies: no finally runs, and nobody has its lock file open.
Crash(x) ==
  /\ faults < MaxFaults
  /\ applier[x].pc \notin {"idle", "applied", "failed", "crashed"}
  /\ faults' = faults + 1
  /\ Goto(x, "crashed")
  /\ UNCHANGED <<trust, lock, audit, ledger>>

Proceed(x) ==
  \/ TakeLock(x) \/ ValidateTransition(x) \/ VerifyAudit(x) \/ Consume(x) \/ Refuse(x)
  \/ Replace(x) \/ ReadLast(x) \/ AppendAudit(x) \/ Unlock(x)

Next ==
  \E x \in Appliers : Start(x) \/ RejectInput(x) \/ Proceed(x) \/ Raise(x) \/ Crash(x)

\* An applier never waits for the lock: it raises.
Spec == Init /\ [][Next]_vars /\ \A x \in Appliers : WF_vars(Proceed(x))

-----------------------------------------------------------------------------
ChangeType == [approval : Approvals, operator : Operators, kids : SUBSET Kids]
RecordType == [previous : Seq(ChangeType), change : ChangeType, hash : Seq(ChangeType)]
Phases == {"idle", "started", "locked", "valid", "verified", "consumed", "replaced",
           "appending", "appended", "raised", "applied", "failed", "crashed"}
ApplierType ==
  [pc : Phases, proposal : Proposals \cup {None}, approval : Approvals \cup {None},
   operator : Operators \cup {None}, previous : Seq(ChangeType)]

TypeOK ==
  /\ trust \in {None} \cup SUBSET Kids
  /\ lock \in BOOLEAN
  /\ audit \in Seq(RecordType)
  /\ Ledger!ApprovalTypeOK
  /\ applier \in [Appliers -> ApplierType]
  /\ faults \in 0..MaxFaults

\* Approval a was signed for these keys and is spent on one execution, whose
\* operator is not its reviewer.
Applied(a, kids) ==
  /\ a \in spent
  /\ Purpose[a].kids = kids
  /\ \E x \in Appliers : holders[a] = {x} /\ applier[x].operator # Reviewer[a]

\* However the appliers overlap, what this function trusts is what an independent
\* approver signed: the trust file holds the keys of a proposal whose approval
\* is spent, and every audit record names such an approval, no two the same, and
\* an operator other than its reviewer.
TrustIsApproved ==
  /\ trust \in InitialTrust \/ \E a \in Approvals : Applied(a, trust)
  /\ \A i \in 1..Len(audit) :
       /\ Applied(audit[i].change.approval, audit[i].change.kids)
       /\ audit[i].change.operator # Reviewer[audit[i].change.approval]
       /\ \A j \in 1..Len(audit) : audit[i].change.approval = audit[j].change.approval => i = j

\* The last record is that of the trust file.
Matched ==
  IF audit = <<>> THEN trust \in InitialTrust ELSE trust = audit[Len(audit)].change.kids

\* An execution died or failed between the replacement and its record: the keys
\* are in the file, the approval is spent on it alone and no record names it.
HalfApplied(x) ==
  LET a == applier[x].approval IN
  /\ applier[x].pc \in {"raised", "failed", "crashed"}
  /\ a \in spent /\ holders[a] = {x}
  /\ trust = Purpose[a].kids
  /\ \A i \in 1..Len(audit) : audit[i].change.approval # a

\* "There is an unavoidable file-system transaction boundary between approval
\* consumption, trust-file replacement and audit append" (docs/modules/41).  This
\* is all that it costs: unless an execution is between replacement and record,
\* the last record is that of the trust file, or the difference is the half-made
\* change of an execution that died or failed, which the spent approval betrays.
TrustIsAccounted ==
  (\A x \in Appliers : applier[x].pc \notin {"replaced", "appending"}) =>
    Matched \/ \E x \in Appliers : HalfApplied(x)

\* The changes "append a hash-chained audit record" (docs/modules/41): every
\* record continues the one before it.  Where an open lock file cannot be removed
\* this holds for every number of executions.  Where it can, the second of three
\* removes the lock of the first and lets the third in, and the two records
\* that follow continue the same one: run trust_chain_posix.
AuditChainIntact == ChainIntact(audit)

\* "Rotation requires at least one trusted kid to overlap" (docs/modules/40):
\* the key set that is replaced, not the one that was validated against, shares
\* a key with its successor.  It rests on the lock in the same way, and fails where
\* AuditChainIntact does.
RotationOverlaps == [][trust # None => trust' \cap trust # {}]_trust

\* Nobody waits for the lock, not even for one whose owner died: every
\* execution that starts applies its change, fails or dies.
StartedEnds ==
  \A x \in Appliers :
    applier[x].pc = "started" ~> applier[x].pc \in {"applied", "failed", "crashed"}
=============================================================================
