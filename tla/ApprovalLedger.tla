--------------------------- MODULE ApprovalLedger ---------------------------
(***************************************************************************)
(* Verification and consumption of detached Ed25519 approvals: the whole   *)
(* of authorize_action (authorization.py) in signed mode, with             *)
(* verify_approval, consume_approval (signed_approval.py) and              *)
(* claim_github_reference (approval_ledger.py).                            *)
(*                                                                         *)
(* A run is one execution of a caller: a portal decision, a controlled     *)
(* runner, the CI controller or the operator's "consume" command.  Runs    *)
(* are separate threads, processes or hosts; they share only the ledger.   *)
(* The clock is read once per run, before the signature is verified, so    *)
(* the claim may be recorded later than the instant that was checked.      *)
(***************************************************************************)
EXTENDS Naturals

CONSTANTS
  Runs,        \* one-shot executions of authorize_action and its caller
  Approvals,   \* approval UUIDs
  Envelopes,   \* the envelopes in circulation, see EnvelopeType
  Requests,    \* what a caller asks authority for, see RequestType
  Projects, Purposes, Artifacts, Reviewers, Keys,
  TrustedKey,  \* SPECVORA_TRUSTED_PUBLIC_KEY
  Approver,    \* SPECVORA_APPROVER_NAME
  NoEnvelope,  \* the caller sent no signed_approval
  NoReviewer,  \* the runners pass no reviewer to authorize_action
  NoApproval,  \* no approval ID was returned to the caller
  MaxClock     \* bound on the clock

EnvelopeType ==
  [id : Approvals, project : Projects, purpose : Purposes, reviewer : Reviewers,
   artifact : Artifacts, issued : Nat, expires : Nat, key : Keys]

RequestType ==
  [project : Projects, purpose : Purposes, artifact : Artifacts,
   reviewer : Reviewers \cup {NoReviewer}]

ASSUME LedgerAssumption ==
  /\ Envelopes \subseteq EnvelopeType
  /\ Requests \subseteq RequestType
  /\ NoEnvelope \notin EnvelopeType
  /\ NoReviewer \notin Reviewers
  /\ NoApproval \notin Approvals
  /\ MaxClock \in Nat

VARIABLES clock,     \* the wall clock of the hosts
          consumed,  \* rows of the "consumed" table, or refs/tags/specvora-approvals/*
          run        \* the state of every run

vars == <<clock, consumed, run>>

Phases == {"idle", "called", "verified", "authorized", "rejected", "crashed", "done"}

RunType ==
  [pc : Phases, envelope : Envelopes \cup {NoEnvelope}, request : Requests,
   now : Nat, approval : Approvals \cup {NoApproval}]

Init ==
  /\ clock = 0
  /\ consumed = {}
  /\ run \in [Runs -> {[pc |-> "idle", envelope |-> NoEnvelope, request |-> q,
                        now |-> 0, approval |-> NoApproval] : q \in Requests}]

-----------------------------------------------------------------------------
\* The reviewer of the claims, and of the decision when the caller names one,
\* is the identity enrolled for the key.
ReviewerTrusted(e, q) ==
  /\ e.reviewer = Approver
  /\ q.reviewer \in {NoReviewer, Approver}

\* Defect: the action hash is not compared.
VerifiedAnyArtifact(e, q, now) ==
  /\ e.key = TrustedKey
  /\ e.project = q.project
  /\ e.purpose = q.purpose
  /\ e.issued <= now /\ now < e.expires

\* verify_approval: signature, context, validity window and action hash.
Verified(e, q, now) ==
  /\ e.key = TrustedKey
  /\ e.project = q.project
  /\ e.purpose = q.purpose
  /\ e.issued <= now /\ now < e.expires
  /\ e.artifact = q.artifact

\* A caller reaches authorize_action with the envelope it was given, or none.
Call(r) ==
  /\ run[r].pc = "idle"
  /\ \E e \in Envelopes \cup {NoEnvelope} :
       run' = [run EXCEPT ![r].pc = "called", ![r].envelope = e]
  /\ UNCHANGED <<clock, consumed>>

\* Every check that precedes the ledger passes; datetime.now is read here.
Verify(r) ==
  /\ run[r].pc = "called"
  /\ run[r].envelope # NoEnvelope
  /\ ReviewerTrusted(run[r].envelope, run[r].request)
  /\ Verified(run[r].envelope, run[r].request, clock)
  /\ run' = [run EXCEPT ![r].pc = "verified", ![r].now = clock]
  /\ UNCHANGED <<clock, consumed>>

\* One of them fails: ValueError, and nothing is written to the ledger.
Refuse(r) ==
  /\ run[r].pc = "called"
  /\ \/ run[r].envelope = NoEnvelope
     \/ /\ run[r].envelope # NoEnvelope
        /\ ~ /\ ReviewerTrusted(run[r].envelope, run[r].request)
             /\ Verified(run[r].envelope, run[r].request, clock)
  /\ run' = [run EXCEPT ![r].pc = "rejected"]
  /\ UNCHANGED <<clock, consumed>>

\* Defect: INSERT OR REPLACE.
ClaimAgain(r) ==
  LET a == run[r].envelope.id IN
  /\ run[r].pc = "verified"
  /\ consumed' = consumed \cup {a}
  /\ run' = [run EXCEPT ![r].pc = "authorized", ![r].approval = a]
  /\ UNCHANGED clock

\* Defect: the envelope is stored in place of its approval ID.
ClaimEnvelope(r) ==
  /\ run[r].pc = "verified"
  /\ run[r].envelope \notin consumed
  /\ consumed' = consumed \cup {run[r].envelope}
  /\ run' = [run EXCEPT ![r].pc = "authorized", ![r].approval = run[r].envelope.id]
  /\ UNCHANGED clock

\* Defect: the commit is forgotten.
ClaimUncommitted(r) ==
  LET a == run[r].envelope.id IN
  /\ run[r].pc = "verified"
  /\ a \notin consumed
  /\ run' = [run EXCEPT ![r].pc = "authorized", ![r].approval = a]
  /\ UNCHANGED <<clock, consumed>>

\* INSERT INTO consumed, or the creation of the Git reference, succeeds.
Claim(r) ==
  LET a == run[r].envelope.id IN
  /\ run[r].pc = "verified"
  /\ a \notin consumed
  /\ consumed' = consumed \cup {a}
  /\ run' = [run EXCEPT ![r].pc = "authorized", ![r].approval = a]
  /\ UNCHANGED clock

\* The primary key, or GitHub's 409/422, rejects a second claim.
ClaimTaken(r) ==
  /\ run[r].pc = "verified"
  /\ run[r].envelope.id \in consumed
  /\ run' = [run EXCEPT ![r].pc = "rejected"]
  /\ UNCHANGED <<clock, consumed>>

\* Defect: the claim is withdrawn when the answer is not the expected one.
LedgerFailsAndReleases(r) ==
  /\ run[r].pc = "verified"
  /\ consumed' = consumed \ {run[r].envelope.id}
  /\ run' = [run EXCEPT ![r].pc = "rejected"]
  /\ UNCHANGED clock

\* The ledger fails: the request is lost before it is recorded, or it is
\* recorded and the answer is lost (httpx.HTTPError, a 5xx after the write).
LedgerFails(r) ==
  /\ run[r].pc = "verified"
  /\ \/ UNCHANGED consumed
     \/ consumed' = consumed \cup {run[r].envelope.id}
  /\ run' = [run EXCEPT ![r].pc = "rejected"]
  /\ UNCHANGED clock

\* The caller does what it was authorised to do.
Act(r) ==
  /\ run[r].pc = "authorized"
  /\ run' = [run EXCEPT ![r].pc = "done"]
  /\ UNCHANGED <<clock, consumed>>

\* The process dies; run[r].approval remembers the authority it had obtained.
Crash(r) ==
  /\ run[r].pc \in {"called", "verified", "authorized"}
  /\ run' = [run EXCEPT ![r].pc = "crashed"]
  /\ UNCHANGED <<clock, consumed>>

Tick ==
  /\ clock < MaxClock
  /\ clock' = clock + 1
  /\ UNCHANGED <<consumed, run>>

Authorize(r) == Verify(r) \/ Refuse(r) \/ Claim(r) \/ ClaimTaken(r)

Next ==
  \/ \E r \in Runs : Call(r) \/ Authorize(r) \/ LedgerFails(r) \/ Act(r) \/ Crash(r)
  \/ Tick

Spec == Init /\ [][Next]_vars

-----------------------------------------------------------------------------
TypeOK ==
  /\ clock \in Nat
  /\ consumed \subseteq Approvals
  /\ run \in [Runs -> RunType]

\* The runs that approval a gave authority to.
Holders(a) == {r \in Runs : run[r].approval = a}

\* A run that got past the checks holds an envelope that passed them.
VerifiedRuns ==
  \A r \in Runs :
    run[r].pc \in {"verified", "authorized", "done"} =>
      /\ run[r].envelope \in Envelopes
      /\ ReviewerTrusted(run[r].envelope, run[r].request)
      /\ Verified(run[r].envelope, run[r].request, run[r].now)

\* Authority rests on the caller's own envelope and on a recorded claim.
AuthorityIsRecorded ==
  \A r \in Runs :
    /\ run[r].pc \in {"authorized", "done"} => run[r].approval # NoApproval
    /\ run[r].approval # NoApproval =>
         /\ run[r].envelope \in Envelopes
         /\ run[r].approval = run[r].envelope.id
         /\ run[r].approval \in consumed
         /\ run[r].pc \in {"authorized", "done", "crashed"}

\* "A second workflow cannot consume the same approval": however the callers
\* interleave, crash or lose the ledger's answer, one approval authorises at
\* most one run.
AtMostOneRun ==
  \A r, s \in Runs :
    run[r].approval # NoApproval /\ run[r].approval = run[s].approval => r = s

\* The inductive invariant of the three.
LedgerInv == TypeOK /\ VerifiedRuns /\ AuthorityIsRecorded /\ AtMostOneRun

\* Two runs that both act do so on approvals that are distinct and were each
\* signed, by the enrolled approver, for the very action of that run.
ActedAsSigned ==
  \A r \in Runs : run[r].pc = "done" =>
    \E e \in Envelopes :
      /\ e.id = run[r].approval /\ e.key = TrustedKey /\ e.reviewer = Approver
      /\ e.artifact = run[r].request.artifact
      /\ e.project = run[r].request.project /\ e.purpose = run[r].request.purpose
      /\ \A s \in Runs \ {r} : run[s].pc = "done" => run[s].approval # e.id

\* "A successfully claimed approval is burned even if the later execution
\* fails": an approval found in the ledger never authorises a run afterwards,
\* and nothing takes it out of the ledger.
BurnedStaysBurned ==
  [][\A a \in consumed : a \in consumed' /\ Holders(a)' \subseteq Holders(a)]_vars

\* The ledger implements the abstract one-use approval.
OneUse == INSTANCE OneUseApproval
  WITH Callers <- Runs, spent <- consumed, holders <- [a \in Approvals |-> Holders(a)]
ImplementsOneUse == OneUse!ApprovalSpec
=============================================================================
