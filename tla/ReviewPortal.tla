---------------------------- MODULE ReviewPortal ----------------------------
(***************************************************************************)
(* The human review of AI proposals in the portal, for one registered      *)
(* project: register_review, review_action and decide_review (portal.py),  *)
(* review_and_promote (proposal_review.py) and the reviews table of        *)
(* ProjectRepository (repository.py).                                      *)
(*                                                                         *)
(* Every HTTP request is a handler of its own and the handlers share the   *)
(* database, the approval ledger and the workspace's files; nothing locks  *)
(* them together.  The ledger is the abstract one of OneUseApproval, which *)
(* ApprovalLedger implements.  The SHA-256 of a file is its content.       *)
(*                                                                         *)
(* Actors outside the portal change the files under it: propose-ai writes  *)
(* the proposal file again (write_text), an editor the project or OpenAPI  *)
(* file.  Their steps are counted in "edits", the failures in "faults".    *)
(***************************************************************************)
EXTENDS Naturals

CONSTANTS
  Handlers,    \* POST /api/reviews/{id}/decision requests
  Registrars,  \* POST /api/reviews requests
  Reviews,     \* review IDs
  Approvals,   \* approval UUIDs
  Projects,    \* contents of the project and OpenAPI files
  Ids,         \* proposal IDs
  Proposals,   \* contents of the proposal file, see ProposalType
  Decisions,   \* the choices reviewers send, see DecisionType
  AuthMode,    \* SPECVORA_AUTH_MODE
  MaxEdits, MaxFaults,  \* bounds on the environment's steps
  None, Torn   \* no value, no row or no file; a file written in part

ProposalType == [input : Projects, ids : SUBSET Ids, ready : BOOLEAN]
DecisionType == UNION {[S -> {"ACCEPT", "REJECT"}] : S \in SUBSET Ids}

RowType == [status : {"PENDING", "REVIEWED"}, digest : Proposals]
ActionType ==
  [review : Reviews, proposal : Proposals, project : Projects, decision : Decisions]
DecisionFileType == [decision : Decisions, approval : Approvals \cup {None}]
OutcomeType == [proposal : Proposals, decision : DecisionFileType]

ASSUME PortalAssumption ==
  /\ Proposals \subseteq ProposalType
  /\ Decisions \subseteq DecisionType
  /\ AuthMode \in {"signed", "local-development"}
  /\ MaxEdits \in Nat /\ MaxFaults \in Nat

ASSUME NoneAssumption ==
  /\ None # Torn
  /\ \A x \in {None, Torn} : x \notin DecisionFileType /\ x \notin OutcomeType
  /\ None \notin RowType
  /\ None \notin ActionType

VARIABLES
  project, proposalFile,                \* the input files
  row,                                  \* row[v]: the row of review v
  decisionFile, recordFile, catalogFile,  \* the output files of review v
  signed,          \* signed[a]: the action that approval a was signed for
  spent, holders,  \* the approval ledger
  registrar, handler,                   \* the requests in progress
  edits, faults

inputs == <<project, proposalFile, edits>>
outputs == <<decisionFile, recordFile, catalogFile>>
ledger == <<spent, holders>>
vars == <<inputs, row, outputs, signed, ledger, registrar, handler, faults>>

Ledger == INSTANCE OneUseApproval WITH Callers <- Handlers

NewHandler ==
  [pc |-> "idle", review |-> None, decision |-> None, approval |-> None,
   action |-> None, outcome |-> None]

Init ==
  /\ project \in Projects
  /\ proposalFile \in Proposals
  /\ row = [v \in Reviews |-> None]
  /\ decisionFile = [v \in Reviews |-> None]
  /\ recordFile = [v \in Reviews |-> None]
  /\ catalogFile = [v \in Reviews |-> None]
  /\ signed = [a \in Approvals |-> None]
  /\ Ledger!ApprovalInit
  /\ registrar = [g \in Registrars |-> "idle"]
  /\ handler = [h \in Handlers |-> NewHandler]
  /\ edits = 0
  /\ faults = 0

-----------------------------------------------------------------------------
(* register_review: the file is read once to be validated, and once more to *)
(* be hashed.                                                               *)

PolicyReady(p) == p.ready /\ p.input = project

Validate(g) ==
  /\ registrar[g] = "idle"
  /\ registrar' =
       [registrar EXCEPT ![g] = IF PolicyReady(proposalFile) THEN "validated" ELSE "failed"]
  /\ UNCHANGED <<inputs, row, outputs, signed, ledger, handler, faults>>

\* UNIQUE review_id and proposal_sha256: add_review fails on a duplicate.
Enqueue(g) ==
  /\ registrar[g] = "validated"
  /\ \E v \in Reviews :
       IF row[v] = None /\ \A w \in Reviews : row[w] # None => row[w].digest # proposalFile
         THEN /\ row' = [row EXCEPT ![v] = [status |-> "PENDING", digest |-> proposalFile]]
              /\ registrar' = [registrar EXCEPT ![g] = "done"]
         ELSE /\ registrar' = [registrar EXCEPT ![g] = "failed"]
              /\ UNCHANGED row
  /\ UNCHANGED <<inputs, outputs, signed, ledger, handler, faults>>

-----------------------------------------------------------------------------
(* review_action, for the preview a reviewer signs and for the decision.    *)

Reconstructible(v) == row[v] # None /\ proposalFile = row[v].digest

\* Defect: the whole row in place of the proposal's hash.
ReviewActionOfRow(v, d) ==
  [review |-> v, proposal |-> row[v], project |-> project, decision |-> d]

ReviewAction(v, d) ==
  [review |-> v, proposal |-> row[v].digest, project |-> project, decision |-> d]

\* The approver downloads the payload and signs it under a fresh UUID.
Sign(a) ==
  /\ signed[a] = None
  /\ \E v \in Reviews, d \in Decisions :
       /\ Reconstructible(v)
       /\ signed' = [signed EXCEPT ![a] = ReviewAction(v, d)]
  /\ UNCHANGED <<inputs, row, outputs, ledger, registrar, handler, faults>>

-----------------------------------------------------------------------------
(* decide_review.                                                           *)

Others == <<inputs, row, outputs, signed, ledger, registrar, faults>>

Goto(h, pc) == handler' = [handler EXCEPT ![h].pc = pc]

\* A request arrives and its row is read.
Lookup(h) ==
  /\ handler[h].pc = "idle"
  /\ \E v \in Reviews, d \in Decisions, a \in Approvals \cup {None},
        pc \in {"found", "failed"} :
       /\ a # None => signed[a] # None
       /\ row[v] # None
       /\ pc = "found" <=> row[v].status = "PENDING"
       /\ handler' = [handler EXCEPT ![h].pc = pc, ![h].review = v,
                        ![h].decision = d, ![h].approval = a]
  /\ UNCHANGED Others

\* The decision file must not exist, and the action is built from the inputs.
Build(h) ==
  LET v == handler[h].review IN
  /\ handler[h].pc = "found"
  /\ IF decisionFile[v] = None /\ Reconstructible(v)
       THEN handler' = [handler EXCEPT ![h].pc = "built",
                          ![h].action = ReviewAction(v, handler[h].decision)]
       ELSE Goto(h, "failed")
  /\ UNCHANGED Others

\* Defect: the server trusts the action hash that the client sent.
AuthorizeAnyAction(h) ==
  /\ handler[h].pc = "built"
  /\ handler[h].approval # None
  /\ Ledger!Grant(handler[h].approval, h)
  /\ Goto(h, "authorized")
  /\ UNCHANGED <<inputs, row, outputs, signed, registrar, faults>>

\* authorize_action grants the request; in local-development mode it always does.
Authorize(h) ==
  /\ handler[h].pc = "built"
  /\ \/ /\ AuthMode = "signed"
        /\ handler[h].approval # None
        /\ signed[handler[h].approval] = handler[h].action
        /\ Ledger!Grant(handler[h].approval, h)
        /\ Goto(h, "authorized")
     \/ /\ AuthMode = "local-development"
        /\ UNCHANGED ledger
        /\ Goto(h, "authorized")
  /\ UNCHANGED <<inputs, row, outputs, signed, registrar, faults>>

\* authorize_action raises: no envelope, another action, spent, or expired
\* (the clock is in ApprovalLedger), so any signed request may meet it.
Refuse(h) ==
  /\ handler[h].pc = "built"
  /\ AuthMode = "signed"
  /\ Goto(h, "failed")
  /\ UNCHANGED Others

\* Defect: open("w").
OverwriteDecision(h) ==
  /\ handler[h].pc = "authorized"
  /\ decisionFile' = [decisionFile EXCEPT ![handler[h].review] =
       [decision |-> handler[h].decision, approval |-> handler[h].approval]]
  /\ Goto(h, "opened")
  /\ UNCHANGED <<inputs, row, recordFile, catalogFile, signed, ledger, registrar, faults>>

\* Defect: open("x") inside the try block whose handler removes the file.
CreateDecisionInTry(h) ==
  LET v == handler[h].review IN
  /\ handler[h].pc = "authorized"
  /\ IF decisionFile[v] = None
       THEN /\ decisionFile' = [decisionFile EXCEPT ![v] =
                 [decision |-> handler[h].decision, approval |-> handler[h].approval]]
            /\ Goto(h, "opened")
       ELSE /\ decisionFile' = [decisionFile EXCEPT ![v] = None]
            /\ Goto(h, "failed")
  /\ UNCHANGED <<inputs, row, recordFile, catalogFile, signed, ledger, registrar, faults>>

\* decision_path.open("x") and the write of the whole decision.
CreateDecision(h) ==
  LET v == handler[h].review IN
  /\ handler[h].pc = "authorized"
  /\ IF decisionFile[v] = None
       THEN /\ decisionFile' = [decisionFile EXCEPT ![v] =
                 [decision |-> handler[h].decision, approval |-> handler[h].approval]]
            /\ Goto(h, "opened")
       ELSE /\ Goto(h, "failed")
            /\ UNCHANGED decisionFile
  /\ UNCHANGED <<inputs, row, recordFile, catalogFile, signed, ledger, registrar, faults>>

\* Defect: _validate_decisions is left out.
PromotableUncovered(v) ==
  /\ recordFile[v] = None
  /\ catalogFile[v] = None
  /\ PolicyReady(proposalFile)
  /\ decisionFile[v] \notin {None, Torn}

\* What review_and_promote requires of the files as they are now.
Promotable(v) ==
  /\ recordFile[v] = None
  /\ catalogFile[v] = None
  /\ PolicyReady(proposalFile)
  /\ decisionFile[v] \notin {None, Torn}
  /\ DOMAIN decisionFile[v].decision = proposalFile.ids

\* review_and_promote up to its first write; decide_review removes the decision
\* file when it raises.
Promote(h) ==
  LET v == handler[h].review IN
  /\ handler[h].pc = "opened"
  /\ IF Promotable(v)
       THEN /\ handler' = [handler EXCEPT ![h].pc = "promoted", ![h].outcome =
                 [proposal |-> proposalFile, decision |-> decisionFile[v]]]
            /\ UNCHANGED decisionFile
       ELSE /\ decisionFile' = [decisionFile EXCEPT ![v] = None]
            /\ Goto(h, "failed")
  /\ UNCHANGED <<inputs, row, recordFile, catalogFile, signed, ledger, registrar, faults>>

WriteRecord(h) ==
  /\ handler[h].pc = "promoted"
  /\ recordFile' = [recordFile EXCEPT ![handler[h].review] = handler[h].outcome]
  /\ Goto(h, "recorded")
  /\ UNCHANGED <<inputs, row, decisionFile, catalogFile, signed, ledger, registrar, faults>>

WriteCatalog(h) ==
  /\ handler[h].pc = "recorded"
  /\ catalogFile' = [catalogFile EXCEPT ![handler[h].review] = handler[h].outcome]
  /\ Goto(h, "cataloged")
  /\ UNCHANGED <<inputs, row, decisionFile, recordFile, signed, ledger, registrar, faults>>

\* UPDATE reviews SET status='REVIEWED' ... AND status='PENDING'.
CompleteReview(h) ==
  LET v == handler[h].review IN
  /\ handler[h].pc = "cataloged"
  /\ IF row[v].status = "PENDING"
       THEN /\ row' = [row EXCEPT ![v].status = "REVIEWED"]
            /\ Goto(h, "done")
       ELSE /\ Goto(h, "failed")
            /\ UNCHANGED row
  /\ UNCHANGED <<inputs, outputs, signed, ledger, registrar, faults>>

-----------------------------------------------------------------------------
(* Failures.                                                                *)

Fault ==
  /\ faults < MaxFaults
  /\ faults' = faults + 1

\* The answer of the ledger is lost after the claim was recorded.
LoseClaim(h) ==
  /\ Fault
  /\ handler[h].pc = "built"
  /\ AuthMode = "signed"
  /\ handler[h].approval # None
  /\ signed[handler[h].approval] = handler[h].action
  /\ Ledger!Burn(handler[h].approval)
  /\ Goto(h, "failed")
  /\ UNCHANGED <<inputs, row, outputs, signed, registrar>>

\* Writing the decision fails, outside the try block, or the process dies there.
TearDecision(h) ==
  LET v == handler[h].review IN
  /\ Fault
  /\ handler[h].pc = "authorized"
  /\ decisionFile[v] = None
  /\ decisionFile' = [decisionFile EXCEPT ![v] = Torn]
  /\ Goto(h, "failed")
  /\ UNCHANGED <<inputs, row, recordFile, catalogFile, signed, ledger, registrar>>

\* write_text raises inside review_and_promote: the decision file is removed,
\* what was written of the record and of the catalog stays.
FailWrite(h) ==
  LET v == handler[h].review IN
  /\ Fault
  /\ \/ /\ handler[h].pc = "promoted"
        /\ recordFile' = [recordFile EXCEPT ![v] = Torn]
        /\ UNCHANGED catalogFile
     \/ /\ handler[h].pc = "recorded"
        /\ catalogFile' = [catalogFile EXCEPT ![v] = Torn]
        /\ UNCHANGED recordFile
  /\ decisionFile' = [decisionFile EXCEPT ![v] = None]
  /\ Goto(h, "failed")
  /\ UNCHANGED <<inputs, row, signed, ledger, registrar>>

\* The process dies, or complete_review cannot write: the files stay.
Crash(h) ==
  /\ Fault
  /\ handler[h].pc \notin {"idle", "failed", "done"}
  /\ Goto(h, "failed")
  /\ UNCHANGED <<inputs, row, outputs, signed, ledger, registrar>>

\* propose-ai or an editor changes an input.  Every review names a proposal file
\* of its own in the code; here they name one, so that a change hits all of them.
Edit ==
  /\ edits < MaxEdits
  /\ edits' = edits + 1
  /\ \/ proposalFile' \in Proposals \ {proposalFile} /\ UNCHANGED project
     \/ project' \in Projects \ {project} /\ UNCHANGED proposalFile
  /\ UNCHANGED <<row, outputs, signed, ledger, registrar, handler, faults>>

-----------------------------------------------------------------------------
Register(g) == Validate(g) \/ Enqueue(g)

\* The steps that a handler takes by itself once it is running.
Proceed(h) ==
  \/ Build(h) \/ Authorize(h) \/ Refuse(h) \/ CreateDecision(h) \/ Promote(h)
  \/ WriteRecord(h) \/ WriteCatalog(h) \/ CompleteReview(h)

Fail(h) == LoseClaim(h) \/ TearDecision(h) \/ FailWrite(h) \/ Crash(h)

Next ==
  \/ \E g \in Registrars : Register(g)
  \/ \E a \in Approvals : Sign(a)
  \/ \E h \in Handlers : Lookup(h) \/ Proceed(h) \/ Fail(h)
  \/ Edit

\* A handler is synchronous code: nothing in it waits for another request.
Spec == Init /\ [][Next]_vars /\ \A h \in Handlers : WF_vars(Proceed(h))

-----------------------------------------------------------------------------
HandlerType ==
  [pc : {"idle", "found", "built", "authorized", "opened", "promoted", "recorded",
         "cataloged", "done", "failed"},
   review : Reviews \cup {None}, decision : Decisions \cup {None},
   approval : Approvals \cup {None}, action : ActionType \cup {None},
   outcome : OutcomeType \cup {None}]

TypeOK ==
  /\ project \in Projects /\ proposalFile \in Proposals
  /\ row \in [Reviews -> RowType \cup {None}]
  /\ decisionFile \in [Reviews -> DecisionFileType \cup {None, Torn}]
  /\ recordFile \in [Reviews -> OutcomeType \cup {None, Torn}]
  /\ catalogFile \in [Reviews -> OutcomeType \cup {None, Torn}]
  /\ signed \in [Approvals -> ActionType \cup {None}]
  /\ Ledger!ApprovalTypeOK
  /\ registrar \in [Registrars -> {"idle", "validated", "done", "failed"}]
  /\ handler \in [Handlers -> HandlerType]
  /\ edits \in 0..MaxEdits /\ faults \in 0..MaxFaults

Reviewed(v) == row[v] # None /\ row[v].status = "REVIEWED"

\* The handlers between the creation of the decision file and their answer.
Writing(h) == handler[h].pc \in {"opened", "promoted", "recorded", "cataloged"}

\* A handler that has found its row knows the review and the decision.
Shaped(h) ==
  handler[h].pc # "idle" =>
    /\ handler[h].review \in Reviews /\ handler[h].decision \in Decisions
    /\ row[handler[h].review] # None

\* The decision file of an undecided review belongs to the handler that writes.
OwnsFile(h) ==
  Writing(h) =>
    /\ ~ Reviewed(handler[h].review)
    /\ decisionFile[handler[h].review] =
         [decision |-> handler[h].decision, approval |-> handler[h].approval]

\* The decision of an outcome covers its proposal, which is policy-ready.
Covers(o) == o.proposal.ready /\ DOMAIN o.decision.decision = o.proposal.ids

\* What a handler has promoted and written so far is in the files.
OutcomeStands(h) ==
  LET v == handler[h].review
      o == handler[h].outcome
  IN
  /\ handler[h].pc \in {"promoted", "recorded", "cataloged"} =>
       o \in OutcomeType /\ o.decision = decisionFile[v] /\ Covers(o)
  /\ handler[h].pc \in {"recorded", "cataloged"} => recordFile[v] = o
  /\ handler[h].pc = "cataloged" => catalogFile[v] = o

HandlerInv == \A h \in Handlers : Shaped(h) /\ OwnsFile(h) /\ OutcomeStands(h)

\* Nothing locks a review, yet at most one request writes its artifacts at a
\* time: the exclusive creation of the decision file admits one, and only that
\* one removes the file again.
OneWriter ==
  \A h, k \in Handlers :
    Writing(h) /\ Writing(k) /\ handler[h].review = handler[k].review => h = k

\* A decision file names an approval that is spent, was signed for this review
\* and this decision, and gave authority to one request ("consumed before
\* decision files", docs/modules/18); no approval backs two decisions.
DecisionIsAuthorized ==
  AuthMode = "signed" =>
    \A v \in Reviews : decisionFile[v] \notin {None, Torn} =>
      LET a == decisionFile[v].approval IN
      /\ a \in spent
      /\ signed[a] # None
      /\ signed[a].review = v /\ signed[a].decision = decisionFile[v].decision
      /\ \E h \in Handlers : holders[a] = {h}

\* "Only after successful promotion does SQLite transition the item to
\* REVIEWED" (docs/modules/16): the three files are then complete, agree on one
\* proposal and on the very decision file, and the decision covers that
\* proposal, which was policy-ready, exactly.
Backed(v) ==
  /\ decisionFile[v] \notin {None, Torn}
  /\ recordFile[v] \notin {None, Torn}
  /\ catalogFile[v] = recordFile[v]
  /\ recordFile[v].decision = decisionFile[v]
  /\ Covers(recordFile[v])

ReviewedIsBacked == \A v \in Reviews : Reviewed(v) => Backed(v)

\* The inductive invariant of the proofs.
PortalInv == TypeOK /\ HandlerInv /\ OneWriter /\ ReviewedIsBacked

\* "Existing outputs are immutable and never overwritten" (docs/modules/14):
\* whatever the other requests do, the row and the files of a decided review
\* stay as they are.
ReviewedIsFinal ==
  [][\A v \in Reviews : Reviewed(v) =>
       /\ row'[v] = row[v] /\ decisionFile'[v] = decisionFile[v]
       /\ recordFile'[v] = recordFile[v] /\ catalogFile'[v] = catalogFile[v]]_vars

\* Without failures and edits, and with decisions that cover the proposal, an
\* authorised request is never in vain: its review gets decided, by it or by
\* the request that overtook it.
AuthorizedIsReviewed ==
  \A v \in Reviews :
    (\E h \in Handlers : handler[h].pc = "authorized" /\ handler[h].review = v)
      ~> Reviewed(v)
=============================================================================
