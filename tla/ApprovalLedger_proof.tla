------------------------ MODULE ApprovalLedger_proof ------------------------
(* For any number of runs, approvals and envelopes: one approval authorises *)
(* at most one run, burned approvals stay burned, and the ledger implements *)
(* the abstract one-use approval.                                           *)
EXTENDS ApprovalLedger, TLAPS

\* Nothing has been verified or recorded when the system starts.
LEMMA InitInv == Init => LedgerInv
<1> SUFFICES ASSUME Init PROVE LedgerInv
  OBVIOUS
<1> USE DEF Init
<1>1. TypeOK
  BY LedgerAssumption DEF TypeOK, RunType, Phases
<1>2. VerifiedRuns
  BY DEF VerifiedRuns
<1>3. AuthorityIsRecorded
  BY DEF AuthorityIsRecorded
<1>4. AtMostOneRun
  BY DEF AtMostOneRun
<1> QED
  BY <1>1, <1>2, <1>3, <1>4 DEF LedgerInv

\* Every step of a run, the ledger or the clock keeps the types.
LEMMA TypeStep == LedgerInv /\ [Next]_vars => TypeOK'
<1> SUFFICES ASSUME LedgerInv, [Next]_vars PROVE TypeOK'
  OBVIOUS
<1> USE LedgerAssumption DEF LedgerInv, TypeOK, RunType, Phases, EnvelopeType
<1>1. ASSUME NEW r \in Runs, Call(r) PROVE TypeOK'
  <2>1. PICK e \in Envelopes \cup {NoEnvelope} :
          run' = [run EXCEPT ![r].pc = "called", ![r].envelope = e]
    BY <1>1 DEF Call
  <2>2. [run[r] EXCEPT !.pc = "called", !.envelope = e] \in RunType
    OBVIOUS
  <2> QED
    BY <1>1, <2>1, <2>2 DEF Call
<1>2. ASSUME NEW r \in Runs, Verify(r) PROVE TypeOK'
  <2>1. /\ run' = [run EXCEPT ![r].pc = "verified", ![r].now = clock]
        /\ UNCHANGED <<clock, consumed>>
    BY <1>2 DEF Verify
  <2>2. [run[r] EXCEPT !.pc = "verified", !.now = clock] \in RunType
    OBVIOUS
  <2> QED
    BY <2>1, <2>2
<1>3. ASSUME NEW r \in Runs, Refuse(r) PROVE TypeOK'
  BY <1>3 DEF Refuse
<1>4. ASSUME NEW r \in Runs, Claim(r) PROVE TypeOK'
  <2>1. run[r].envelope.id \in Approvals
    BY <1>4 DEF Claim, VerifiedRuns
  <2>2. [run[r] EXCEPT !.pc = "authorized", !.approval = run[r].envelope.id] \in RunType
    BY <2>1
  <2> QED
    BY <1>4, <2>1, <2>2 DEF Claim
<1>5. ASSUME NEW r \in Runs, ClaimTaken(r) PROVE TypeOK'
  BY <1>5 DEF ClaimTaken
<1>6. ASSUME NEW r \in Runs, LedgerFails(r) PROVE TypeOK'
  BY <1>6 DEF LedgerFails, VerifiedRuns
<1>7. ASSUME NEW r \in Runs, Act(r) PROVE TypeOK'
  BY <1>7 DEF Act
<1>8. ASSUME NEW r \in Runs, Crash(r) PROVE TypeOK'
  BY <1>8 DEF Crash
<1>9. CASE Tick
  BY <1>9 DEF Tick
<1>10. CASE UNCHANGED vars
  BY <1>10 DEF vars
<1> QED
  BY <1>1, <1>2, <1>3, <1>4, <1>5, <1>6, <1>7, <1>8, <1>9, <1>10 DEF Next, Authorize

\* The checks that a run passed stay passed: its envelope, request and instant
\* are never replaced.
LEMMA VerifiedStep == LedgerInv /\ [Next]_vars => VerifiedRuns'
<1> SUFFICES ASSUME LedgerInv, [Next]_vars PROVE VerifiedRuns'
  OBVIOUS
<1> USE DEF LedgerInv, TypeOK, RunType, VerifiedRuns, Verified, ReviewerTrusted
<1>1. ASSUME NEW r \in Runs, Call(r) PROVE VerifiedRuns'
  BY <1>1 DEF Call
<1>2. ASSUME NEW r \in Runs, Verify(r) PROVE VerifiedRuns'
  BY <1>2 DEF Verify
<1>3. ASSUME NEW r \in Runs, Refuse(r) PROVE VerifiedRuns'
  BY <1>3 DEF Refuse
<1>4. ASSUME NEW r \in Runs, Claim(r) PROVE VerifiedRuns'
  BY <1>4 DEF Claim
<1>5. ASSUME NEW r \in Runs, ClaimTaken(r) PROVE VerifiedRuns'
  BY <1>5 DEF ClaimTaken
<1>6. ASSUME NEW r \in Runs, LedgerFails(r) PROVE VerifiedRuns'
  BY <1>6 DEF LedgerFails
<1>7. ASSUME NEW r \in Runs, Act(r) PROVE VerifiedRuns'
  BY <1>7 DEF Act
<1>8. ASSUME NEW r \in Runs, Crash(r) PROVE VerifiedRuns'
  BY <1>8 DEF Crash
<1>9. CASE Tick
  BY <1>9 DEF Tick
<1>10. CASE UNCHANGED vars
  BY <1>10 DEF vars
<1> QED
  BY <1>1, <1>2, <1>3, <1>4, <1>5, <1>6, <1>7, <1>8, <1>9, <1>10 DEF Next, Authorize

\* Authority is only obtained with the claim that records it.
LEMMA AuthorityStep == LedgerInv /\ [Next]_vars => AuthorityIsRecorded'
<1> SUFFICES ASSUME LedgerInv, [Next]_vars PROVE AuthorityIsRecorded'
  OBVIOUS
<1> USE DEF LedgerInv, TypeOK, RunType, AuthorityIsRecorded, VerifiedRuns
<1>1. ASSUME NEW r \in Runs, Call(r) PROVE AuthorityIsRecorded'
  BY <1>1 DEF Call
<1>2. ASSUME NEW r \in Runs, Verify(r) PROVE AuthorityIsRecorded'
  BY <1>2 DEF Verify
<1>3. ASSUME NEW r \in Runs, Refuse(r) PROVE AuthorityIsRecorded'
  BY <1>3 DEF Refuse
<1>4. ASSUME NEW r \in Runs, Claim(r) PROVE AuthorityIsRecorded'
  <2>1. run[r].envelope \in Envelopes /\ run[r].envelope.id # NoApproval
    BY <1>4, LedgerAssumption DEF Claim, EnvelopeType
  <2> QED
    BY <1>4, <2>1 DEF Claim
<1>5. ASSUME NEW r \in Runs, ClaimTaken(r) PROVE AuthorityIsRecorded'
  BY <1>5 DEF ClaimTaken
<1>6. ASSUME NEW r \in Runs, LedgerFails(r) PROVE AuthorityIsRecorded'
  BY <1>6 DEF LedgerFails
<1>7. ASSUME NEW r \in Runs, Act(r) PROVE AuthorityIsRecorded'
  BY <1>7 DEF Act
<1>8. ASSUME NEW r \in Runs, Crash(r) PROVE AuthorityIsRecorded'
  BY <1>8 DEF Crash
<1>9. CASE Tick
  BY <1>9 DEF Tick
<1>10. CASE UNCHANGED vars
  BY <1>10 DEF vars
<1> QED
  BY <1>1, <1>2, <1>3, <1>4, <1>5, <1>6, <1>7, <1>8, <1>9, <1>10 DEF Next, Authorize

\* A run that gains an approval gains one that nobody had: it was not consumed.
LEMMA OneRunStep == LedgerInv /\ [Next]_vars => AtMostOneRun'
<1> SUFFICES ASSUME LedgerInv, [Next]_vars PROVE AtMostOneRun'
  OBVIOUS
<1> USE DEF LedgerInv, TypeOK, RunType, AtMostOneRun, AuthorityIsRecorded
<1>1. ASSUME NEW r \in Runs, Call(r) PROVE AtMostOneRun'
  BY <1>1 DEF Call
<1>2. ASSUME NEW r \in Runs, Verify(r) PROVE AtMostOneRun'
  BY <1>2 DEF Verify
<1>3. ASSUME NEW r \in Runs, Refuse(r) PROVE AtMostOneRun'
  BY <1>3 DEF Refuse
<1>4. ASSUME NEW r \in Runs, Claim(r) PROVE AtMostOneRun'
  BY <1>4 DEF Claim
<1>5. ASSUME NEW r \in Runs, ClaimTaken(r) PROVE AtMostOneRun'
  BY <1>5 DEF ClaimTaken
<1>6. ASSUME NEW r \in Runs, LedgerFails(r) PROVE AtMostOneRun'
  BY <1>6 DEF LedgerFails
<1>7. ASSUME NEW r \in Runs, Act(r) PROVE AtMostOneRun'
  BY <1>7 DEF Act
<1>8. ASSUME NEW r \in Runs, Crash(r) PROVE AtMostOneRun'
  BY <1>8 DEF Crash
<1>9. CASE Tick
  BY <1>9 DEF Tick
<1>10. CASE UNCHANGED vars
  BY <1>10 DEF vars
<1> QED
  BY <1>1, <1>2, <1>3, <1>4, <1>5, <1>6, <1>7, <1>8, <1>9, <1>10 DEF Next, Authorize

\* The invariant of the proofs.
THEOREM LedgerInvariant == Spec => []LedgerInv
<1>1. LedgerInv /\ [Next]_vars => LedgerInv'
  BY TypeStep, VerifiedStep, AuthorityStep, OneRunStep DEF LedgerInv
<1> QED
  BY InitInv, <1>1, PTL DEF Spec

\* The state keeps its type.
THEOREM TypeCorrect == Spec => []TypeOK
<1>1. LedgerInv => TypeOK
  BY DEF LedgerInv
<1> QED
  BY LedgerInvariant, <1>1, PTL

\* No approval authorises two runs, however they interleave, crash or lose the
\* ledger's answer (approval_ledger.py, consume_approval).
THEOREM OneRunPerApproval == Spec => []AtMostOneRun
<1>1. LedgerInv => AtMostOneRun
  BY DEF LedgerInv
<1> QED
  BY LedgerInvariant, <1>1, PTL

\* Every authority rests on a recorded claim of the caller's own envelope.
THEOREM AuthorityRecorded == Spec => []AuthorityIsRecorded
<1>1. LedgerInv => AuthorityIsRecorded
  BY DEF LedgerInv
<1> QED
  BY LedgerInvariant, <1>1, PTL

\* What a run does was signed for it by the enrolled approver (authorize_action).
THEOREM ActionsAreSigned == Spec => []ActedAsSigned
<1>1. LedgerInv => ActedAsSigned
  <2> SUFFICES ASSUME LedgerInv, NEW r \in Runs, run[r].pc = "done"
               PROVE  \E e \in Envelopes :
                        /\ e.id = run[r].approval /\ e.key = TrustedKey
                        /\ e.reviewer = Approver
                        /\ e.artifact = run[r].request.artifact
                        /\ e.project = run[r].request.project
                        /\ e.purpose = run[r].request.purpose
                        /\ \A s \in Runs \ {r} : run[s].pc = "done" => run[s].approval # e.id
    BY DEF ActedAsSigned
  <2>1. /\ run[r].envelope \in Envelopes
        /\ ReviewerTrusted(run[r].envelope, run[r].request)
        /\ Verified(run[r].envelope, run[r].request, run[r].now)
    BY DEF LedgerInv, VerifiedRuns
  <2>2. run[r].approval = run[r].envelope.id /\ run[r].approval # NoApproval
    BY DEF LedgerInv, AuthorityIsRecorded
  <2>3. \A s \in Runs \ {r} : run[s].approval # run[r].approval
    BY <2>2 DEF LedgerInv, AtMostOneRun
  <2> QED
    BY <2>1, <2>2, <2>3 DEF ReviewerTrusted, Verified
<1> QED
  BY LedgerInvariant, <1>1, PTL

\* A step of the code is a step of the abstract approval: the claim is a Grant,
\* a lost answer is a Burn, and everything else is a stutter.
LEMMA StepImplements ==
  LedgerInv /\ [Next]_vars => [OneUse!ApprovalNext]_(OneUse!approvalVars)
<1> SUFFICES ASSUME LedgerInv, [Next]_vars
             PROVE  [OneUse!ApprovalNext]_(OneUse!approvalVars)
  OBVIOUS
<1> USE DEF LedgerInv, TypeOK, RunType, OneUse!approvalVars, Holders
<1>1. ASSUME NEW r \in Runs, Claim(r) PROVE OneUse!ApprovalNext
  <2>1. PICK a \in Approvals : a = run[r].envelope.id
    BY <1>1, LedgerAssumption DEF Claim, VerifiedRuns, EnvelopeType
  <2>2. a \notin consumed /\ consumed' = consumed \cup {a}
    BY <1>1, <2>1 DEF Claim
  <2>3. Holders(a)' = Holders(a) \cup {r}
    BY <1>1, <2>1 DEF Claim
  <2>4. \A b \in Approvals \ {a} : Holders(b)' = Holders(b)
    <3>1. run[r].approval = NoApproval
      BY <1>1 DEF Claim, AuthorityIsRecorded
    <3> QED
      BY <1>1, <2>1, <3>1, LedgerAssumption DEF Claim
  <2> HIDE DEF Holders
  <2>5. OneUse!Grant(a, r)
    BY <2>2, <2>3, <2>4 DEF OneUse!Grant
  <2> QED
    BY <2>5 DEF OneUse!ApprovalNext
<1> HIDE DEF Holders
<1>2. ASSUME NEW r \in Runs, LedgerFails(r)
      PROVE  [OneUse!ApprovalNext]_(OneUse!approvalVars)
  <2>1. run[r].envelope.id \in Approvals
    BY <1>2, LedgerAssumption DEF LedgerFails, VerifiedRuns, EnvelopeType
  <2>2. \A b : Holders(b)' = Holders(b)
    BY <1>2 DEF LedgerFails, Holders
  <2>3. CASE run[r].envelope.id \in consumed
    BY <1>2, <2>2, <2>3 DEF LedgerFails
  <2>4. CASE run[r].envelope.id \notin consumed
    BY <1>2, <2>1, <2>2, <2>4 DEF LedgerFails, OneUse!ApprovalNext, OneUse!Burn
  <2> QED
    BY <2>3, <2>4
<1>3. ASSUME NEW r \in Runs,
             Call(r) \/ Verify(r) \/ Refuse(r) \/ ClaimTaken(r) \/ Act(r) \/ Crash(r)
      PROVE  UNCHANGED OneUse!approvalVars
  <2>1. UNCHANGED consumed
    BY <1>3 DEF Call, Verify, Refuse, ClaimTaken, Act, Crash
  <2>2. \A b : Holders(b)' = Holders(b)
    <3>1. \A s \in Runs : run'[s].approval = run[s].approval
      BY <1>3 DEF Call, Verify, Refuse, ClaimTaken, Act, Crash
    <3> QED
      BY <3>1 DEF Holders
  <2> QED
    BY <2>1, <2>2
<1>4. ASSUME Tick \/ UNCHANGED vars PROVE UNCHANGED OneUse!approvalVars
  BY <1>4 DEF Tick, vars, Holders
<1> QED
  BY <1>1, <1>2, <1>3, <1>4 DEF Next, Authorize

\* authorize_action, verify_approval and the two ledger backends implement the
\* approval that is used at most once.
THEOREM LedgerImplementsOneUse == Spec => ImplementsOneUse
<1>1. Init => OneUse!ApprovalInit
  <2> SUFFICES ASSUME Init PROVE OneUse!ApprovalInit
    OBVIOUS
  <2>1. \A a \in Approvals : Holders(a) = {}
    BY LedgerAssumption DEF Init, Holders
  <2> QED
    BY <2>1 DEF Init, OneUse!ApprovalInit
<1> QED
  BY <1>1, StepImplements, LedgerInvariant, PTL
     DEF Spec, ImplementsOneUse, OneUse!ApprovalSpec

\* An approval found in the ledger stays there and authorises nobody afterwards:
\* "a successfully claimed approval is burned even if the later execution fails".
THEOREM BurnedForever == Spec => BurnedStaysBurned
<1>1. LedgerInv /\ [Next]_vars =>
        [\A a \in consumed : a \in consumed' /\ Holders(a)' \subseteq Holders(a)]_vars
  <2> SUFFICES ASSUME LedgerInv, [Next]_vars, NEW a \in consumed
               PROVE  a \in consumed' /\ Holders(a)' \subseteq Holders(a)
    OBVIOUS
  <2>1. a \in Approvals
    BY DEF LedgerInv, TypeOK
  <2>2. CASE UNCHANGED OneUse!approvalVars
    BY <2>1, <2>2 DEF OneUse!approvalVars
  <2>3. CASE OneUse!ApprovalNext
    BY <2>1, <2>3 DEF OneUse!ApprovalNext, OneUse!Grant, OneUse!Burn
  <2> QED
    BY StepImplements, <2>2, <2>3
<1> QED
  BY <1>1, LedgerInvariant, PTL DEF Spec, BurnedStaysBurned
=============================================================================
