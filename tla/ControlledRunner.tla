-------------------------- MODULE ControlledRunner --------------------------
(***************************************************************************)
(* The commands that execute generated tests and assess their reports      *)
(* (cli.py): run-pytest, run-playwright, ingest-pytest, ingest-playwright  *)
(* and assess, with run_generated_tests (runner.py),                       *)
(* run_generated_playwright (playwright_runner.py), execution_action and   *)
(* authorize_action (authorization.py), write_evidence and                 *)
(* append_assessment (audit.py).                                           *)
(*                                                                         *)
(* Commands are processes.  They share the generated directory, which      *)
(* anyone may edit, the report files, the evidence files, the approval     *)
(* ledger and the audit log.  A file is read or replaced in one step, and  *)
(* nothing is locked.                                                      *)
(***************************************************************************)
EXTENDS ReleaseDecision

CONSTANTS
  Commands,    \* executions of the command line
  Workloads,   \* what the commands are asked to do, see RequestType
  Approvals, Targets,
  Paths, Outputs,  \* of reports and of evidence; no output is the path of a report
  Artifacts,   \* contents of the generated directory, see ArtifactsType
  Reports,     \* what a test run may report
  Earlier,     \* the author of the report files from before
  InitialArtifacts, InitialReports,  \* the directory and those files at the start
  MaxEdits, MaxFaults,  \* bounds on the environment
  None

Kinds == {"run-pytest", "run-playwright", "ingest-pytest", "ingest-playwright", "assess"}

\* gate: quality-gate.json says READY_FOR_HUMAN_APPROVAL; plan: the target of
\* playwright-plan.json.
ArtifactsType == [gate : BOOLEAN, plan : Targets, tests : Nat]

\* mode is that of the process.  counts is the results file of "assess", and
\* required and covered are arguments of the ingestion.
RequestType ==
  [kind : Kinds, mode : {"signed", "local-development"}, approval : Approvals \cup {None},
   target : Targets, path : Paths, evidence : Outputs,
   counts : CountsType, required : Nat \ {0}, covered : Nat]

ActionType == [kind : Kinds, target : Targets, path : Paths, files : ArtifactsType]
FileType == [by : Commands \cup {Earlier}, report : Reports \cup {Invalid}]

\* An evidence names its run and, by its hash, the report that was normalized.
EvidenceType == [run : Commands, file : FileType]

ASSUME RunnerAssumption ==
  /\ Workloads \subseteq [Commands -> RequestType]
  /\ Artifacts \subseteq ArtifactsType
  /\ \A report \in Reports : IsReport(report)
  /\ InitialArtifacts \subseteq Artifacts /\ InitialReports \subseteq Reports
  /\ MaxEdits \in Nat /\ MaxFaults \in Nat
  /\ Earlier \notin Commands /\ None \notin ActionType /\ None \notin FileType
  /\ None \notin EvidenceType

VARIABLES
  request,     \* the request of every command
  artifacts,   \* the generated directory
  reportFile, evidenceFile,
  log,         \* the lines of the audit log
  signed,      \* signed[a]: the action that approval a was signed for
  spent, holders,  \* the approval ledger
  command,     \* the state of every command
  overlapped,  \* two appends to the log have overlapped
  edits, faults

ledger == <<spent, holders>>
files == <<reportFile, evidenceFile, log>>
world == <<overlapped, edits, faults>>
vars == <<request, artifacts, files, signed, ledger, command, world>>

Ledger == INSTANCE OneUseApproval WITH Callers <- Commands

Genesis == <<>>

Init ==
  /\ request \in Workloads
  /\ artifacts \in InitialArtifacts
  /\ reportFile \in [Paths -> {None} \cup [by : {Earlier}, report : InitialReports]]
  /\ evidenceFile = [o \in Outputs |-> None]
  /\ log = <<>>
  /\ signed = [a \in Approvals |-> None]
  /\ Ledger!ApprovalInit
  /\ command = [c \in Commands |->
       [pc |-> "idle", action |-> None, executed |-> None, edited |-> FALSE,
        counts |-> None, source |-> None, previous |-> None]]
  /\ overlapped = FALSE /\ edits = 0 /\ faults = 0

-----------------------------------------------------------------------------
Goto(c, pc) == command' = [command EXCEPT ![c].pc = pc]
At(c, pc) == command[c].pc = pc
Runs(c) == request[c].kind \in {"run-pytest", "run-playwright"}
Fault == faults < MaxFaults /\ faults' = faults + 1

Form(c) == IF request[c].kind \in {"run-pytest", "ingest-pytest"} THEN "pytest" ELSE "playwright"

\* validate_execution and _validate_playwright_execution.
Permitted(c) ==
  /\ artifacts.gate
  /\ request[c].kind = "run-playwright" => artifacts.plan = request[c].target

Validate(c) ==
  /\ At(c, "idle") /\ Runs(c)
  /\ Goto(c, IF Permitted(c) THEN "validated" ELSE "raised")
  /\ UNCHANGED <<request, artifacts, files, signed, ledger, world>>

\* execution_action: the files of the generated directory are hashed, but for
\* those below node_modules, __pycache__ and .pytest_cache; one after the other
\* in the code, and in one step here.
ActionOf(r) == [kind |-> r.kind, target |-> r.target, path |-> r.path, files |-> artifacts]

\* prepare-execution and sign: an action is prepared for a request from the
\* directory as it is, and the approver signs it.
Sign(a) ==
  /\ signed[a] = None
  /\ \E c \in Commands :
       Runs(c) /\ request[c].approval = a /\ signed' = [signed EXCEPT ![a] = ActionOf(request[c])]
  /\ UNCHANGED <<request, artifacts, files, ledger, command, world>>

Hash(c) ==
  /\ At(c, "validated")
  /\ command' = [command EXCEPT ![c].pc = "hashed", ![c].action = ActionOf(request[c])]
  /\ UNCHANGED <<request, artifacts, files, signed, ledger, world>>

Local(c) == request[c].mode = "local-development"

\* Defect: the signature is not bound to the action.
VerifiedAnyAction(c) == request[c].approval # None /\ signed[request[c].approval] # None

\* The envelope verifies for the action.
Verified(c) == request[c].approval # None /\ signed[request[c].approval] = command[c].action

\* authorize_action.
Authorize(c) ==
  /\ At(c, "hashed")
  /\ \/ Local(c) /\ UNCHANGED ledger
     \/ ~ Local(c) /\ Verified(c) /\ Ledger!Grant(request[c].approval, c)
  /\ Goto(c, "authorized")
  /\ UNCHANGED <<request, artifacts, files, signed, world>>

\* No envelope, one for another action, an expired or a spent one.
Refuse(c) ==
  /\ At(c, "hashed") /\ ~ Local(c)
  /\ Goto(c, "raised")
  /\ UNCHANGED <<request, artifacts, files, signed, ledger, world>>

\* The ledger records the claim and its answer is lost.
LoseClaim(c) ==
  /\ Fault
  /\ At(c, "hashed") /\ ~ Local(c) /\ Verified(c)
  /\ Ledger!Burn(request[c].approval)
  /\ Goto(c, "raised")
  /\ UNCHANGED <<request, artifacts, files, signed, overlapped, edits>>

\* subprocess.run starts the tests of the directory as it is now.
Launch(c) ==
  /\ At(c, "authorized")
  /\ command' = [command EXCEPT ![c].pc = "running", ![c].executed = artifacts]
  /\ UNCHANGED <<request, artifacts, files, signed, ledger, world>>

\* The report file is written: by Pytest, or by run_generated_playwright from
\* the output of Playwright.
WriteReport(c) ==
  /\ At(c, "running")
  /\ \E report \in Reports :
       /\ report.form = Form(c)
       /\ reportFile' = [reportFile EXCEPT ![request[c].path] = [by |-> c, report |-> report]]
  /\ Goto(c, IF request[c].kind = "run-pytest" THEN "exited" ELSE "done")
  /\ UNCHANGED <<request, artifacts, evidenceFile, log, signed, ledger, world>>

\* The tests end without a report; Playwright's output is then no JSON.
ExitWithoutReport(c) ==
  /\ At(c, "running")
  /\ Goto(c, IF request[c].kind = "run-pytest" THEN "exited" ELSE "raised")
  /\ UNCHANGED <<request, artifacts, files, signed, ledger, world>>

\* Timeout or crash of the tests, with half a report.
KillTests(c) ==
  /\ Fault
  /\ At(c, "running")
  /\ reportFile' = [reportFile EXCEPT ![request[c].path] = [by |-> c, report |-> Invalid]]
  /\ Goto(c, "raised")
  /\ UNCHANGED <<request, artifacts, evidenceFile, log, signed, ledger, overlapped, edits>>

\* report_path.is_file().
Collect(c) ==
  /\ At(c, "exited")
  /\ Goto(c, IF reportFile[request[c].path] = None THEN "raised" ELSE "collected")
  /\ UNCHANGED <<request, artifacts, files, signed, ledger, world>>

\* The report that is at the path now is normalized, whoever wrote it.
Normalized(c) ==
  LET file == reportFile[request[c].path] IN
  IF file # None /\ file.report # Invalid /\ file.report.form = Form(c)
  THEN IF Form(c) = "pytest" THEN IngestPytest(file.report) ELSE IngestPlaywright(file.report)
  ELSE Invalid

Ingest(c) ==
  LET counts == Normalized(c) IN
  /\ IF Runs(c) THEN At(c, "collected") ELSE At(c, "idle") /\ request[c].kind # "assess"
  /\ IF counts # Invalid /\ ValidResult(counts, request[c].required, request[c].covered)
       THEN command' = [command EXCEPT ![c].pc = "ingested", ![c].counts = counts,
                                       ![c].source = reportFile[request[c].path]]
       ELSE Goto(c, "raised")
  /\ UNCHANGED <<request, artifacts, files, signed, ledger, world>>

\* The evidence replaces whatever is at the path that --evidence-out names.
Keeps(c, evidence) ==
  /\ At(c, "ingested")
  /\ evidenceFile' = [evidenceFile EXCEPT ![request[c].evidence] = evidence]
  /\ Goto(c, "assessed")
  /\ UNCHANGED <<request, artifacts, reportFile, log, signed, ledger, world>>

\* The evidence of command c: it rests on the report that c has normalized.
Evidence(c) == [run |-> c, file |-> command[c].source]

\* Defect: the counts are kept without their report.
WriteCounts(c) == Keeps(c, command[c].counts)

\* Defect: the report is read again to be hashed.
WriteEvidenceOfNow(c) == Keeps(c, [run |-> c, file |-> reportFile[request[c].path]])

\* write_evidence and write_playwright_evidence.
WriteEvidence(c) == Keeps(c, Evidence(c))

\* "assess" has its counts from the results file, and writes no evidence.
ReadResults(c) ==
  /\ At(c, "idle") /\ request[c].kind = "assess"
  /\ IF ValidResult(request[c].counts, request[c].required, request[c].covered)
       THEN command' = [command EXCEPT ![c].pc = "assessed", ![c].counts = request[c].counts]
       ELSE Goto(c, "raised")
  /\ UNCHANGED <<request, artifacts, files, signed, ledger, world>>

\* A hash stands for the previous hash and the assessment that it covers.
RecordHash(previous, assessment) == Append(previous, assessment)
AssessmentType == [run : Commands, decision : {"RELEASE", "HUMAN_REVIEW", "BLOCK"}]
RecordType ==
  [previous : Seq(AssessmentType), hash : Seq(AssessmentType), assessment : AssessmentType]

\* verify_audit_log.
Intact(lines) ==
  \A i \in DOMAIN lines :
    /\ lines[i] # Invalid
    /\ lines[i].previous = IF i = 1 THEN Genesis ELSE lines[i - 1].hash
    /\ lines[i].hash = RecordHash(lines[i].previous, lines[i].assessment)

\* Defect: the first line is taken for the last.
FirstHash == IF log = <<>> THEN Genesis ELSE log[1].hash

LastHash == IF log = <<>> THEN Genesis ELSE log[Len(log)].hash

\* _last_hash raises when the log does not verify.
ReadLast(c) ==
  /\ At(c, "assessed")
  /\ IF Intact(log)
       THEN /\ command' = [command EXCEPT ![c].pc = "read", ![c].previous = LastHash]
            /\ overlapped' = (overlapped \/ \E d \in Commands : At(d, "read"))
       ELSE Goto(c, "raised") /\ UNCHANGED overlapped
  /\ UNCHANGED <<request, artifacts, files, signed, ledger, edits, faults>>

RecordOf(c) ==
  LET assessment == [run |-> c, decision |->
        Decision(command[c].counts, request[c].required, request[c].covered)]
      previous == command[c].previous
  IN  [previous |-> previous, hash |-> RecordHash(previous, assessment),
       assessment |-> assessment]

\* A line that follows half a line continues it.
AppendRecord(c) ==
  /\ At(c, "read")
  /\ log' = IF log # <<>> /\ log[Len(log)] = Invalid THEN log ELSE Append(log, RecordOf(c))
  /\ Goto(c, "done")
  /\ UNCHANGED <<request, artifacts, reportFile, evidenceFile, signed, ledger, world>>

-----------------------------------------------------------------------------
Ended(c) == command[c].pc \in {"done", "raised"}

\* The command dies, or the tests time out.
Crash(c) ==
  /\ Fault
  /\ ~ At(c, "idle") /\ ~ Ended(c)
  /\ Goto(c, "raised")
  /\ UNCHANGED <<request, artifacts, files, signed, ledger, overlapped, edits>>

\* The command dies in the middle of its line of the audit log.
TearRecord(c) ==
  /\ Fault
  /\ At(c, "read")
  /\ log' = Append(log, Invalid)
  /\ Goto(c, "raised")
  /\ UNCHANGED <<request, artifacts, reportFile, evidenceFile, signed, ledger, overlapped, edits>>

\* The directory changes; "edited" notes the commands between hash and launch.
Edit ==
  /\ edits < MaxEdits /\ edits' = edits + 1
  /\ artifacts' \in Artifacts \ {artifacts}
  /\ command' = [c \in Commands |->
       [command[c] EXCEPT !.edited = @ \/ command[c].pc \in {"hashed", "authorized"}]]
  /\ UNCHANGED <<request, files, signed, ledger, overlapped, faults>>

Execute(c) ==
  \/ Validate(c) \/ Hash(c) \/ Authorize(c) \/ Refuse(c) \/ Launch(c)
  \/ WriteReport(c) \/ ExitWithoutReport(c) \/ Collect(c)

Assess(c) == Ingest(c) \/ WriteEvidence(c) \/ ReadResults(c) \/ ReadLast(c) \/ AppendRecord(c)

Fail(c) == LoseClaim(c) \/ KillTests(c) \/ Crash(c) \/ TearRecord(c)

Next ==
  \/ \E c \in Commands : Execute(c) \/ Assess(c) \/ Fail(c)
  \/ \E a \in Approvals : Sign(a)
  \/ Edit

Spec == Init /\ [][Next]_vars

-----------------------------------------------------------------------------
CommandType ==
  [pc : {"idle", "validated", "hashed", "authorized", "running", "exited", "collected",
         "ingested", "assessed", "read", "done", "raised"},
   action : ActionType \cup {None}, executed : Artifacts \cup {None}, edited : BOOLEAN,
   counts : CountsType \cup {None}, source : FileType \cup {None},
   previous : Seq(AssessmentType) \cup {None}]

\* Every variable has its type; a log line is a whole record or a torn one.
TypeOK ==
  /\ request \in Workloads /\ artifacts \in Artifacts
  /\ reportFile \in [Paths -> FileType \cup {None}]
  /\ evidenceFile \in [Outputs -> EvidenceType \cup {None}]
  /\ log \in Seq(RecordType \cup {Invalid})
  /\ signed \in [Approvals -> ActionType \cup {None}]
  /\ Ledger!ApprovalTypeOK
  /\ command \in [Commands -> CommandType]
  /\ overlapped \in BOOLEAN /\ edits \in 0..MaxEdits /\ faults \in 0..MaxFaults

\* "Modifying generated content after signing therefore changes the required
\* action and fails verification" (docs/modules/18): in signed mode every
\* launch has an approval of its own, spent and given to no other command, that
\* was signed for its kind, target and report path; and the files it executes
\* are the signed ones unless they changed between their hash and the launch.
LaunchedAsSigned ==
  \A c \in Commands : command[c].executed # None /\ ~ Local(c) =>
    LET a == request[c].approval
        action == command[c].action
    IN
    /\ a \in spent /\ holders[a] = {c}
    /\ signed[a] = action
    /\ action.kind = request[c].kind /\ action.target = request[c].target
    /\ action.path = request[c].path
    /\ command[c].executed # action.files => command[c].edited

\* What a RELEASE may cost: no failing test of the report is critical and the
\* weighted loss, over every test that was executed and did not pass and every
\* requirement that is not covered, is at most 10.5 points of 100 (the score is
\* rounded).
Executed(report) == Len(report.tests) - Count(report, "skipped") + report.errors
NotPassed(report) == Executed(report) - Count(report, "passed") - Count(report, "expected")

Earned(report, required, covered) ==
  /\ report # Invalid
  /\ report.errors = 0
  /\ \A i \in DOMAIN report.tests : report.tests[i].marked =>
       report.tests[i].status \in {"passed", "expected", "skipped"}
  /\ 2 * (70 * NotPassed(report) * required + 30 * (required - covered) * Executed(report))
       <= 21 * Executed(report) * required

\* The commands that write their evidence to the file of c; nothing keeps two
\* commands from naming one, and the examples of docs/modules/05 and 06 do.
Sharing(c) == {d \in Commands : request[d].evidence = request[c].evidence /\ request[d].kind # "assess"}

\* "Normalized, hash-identified evidence before release-confidence assessment"
\* (docs/modules/05): a RELEASE in the audit log that an ingestion put there was
\* earned by the one report that it normalized, and its evidence file is there
\* and identifies the report that its command normalized, whatever has become of
\* the report file since: c's own, unless another command writes to that file.
ReleaseIsEarned ==
  \A i \in DOMAIN log : log[i] # Invalid =>
    LET c == log[i].assessment.run IN
    log[i].assessment.decision = "RELEASE" /\ request[c].kind # "assess" =>
      /\ Earned(command[c].source.report, request[c].required, request[c].covered)
      /\ \E d \in Sharing(c) : evidenceFile[request[c].evidence] = Evidence(d)

\* "Each record includes the previous record hash" (docs/modules/02): as long as
\* no two commands are between the read and the append at the same time, and
\* none dies within its line, the log verifies, whatever else fails or crashes.
SerialAppendsChain ==
  ~ overlapped /\ (\A i \in DOMAIN log : log[i] # Invalid) => Intact(log)

\* "Missing report output and timeouts are runner failures and stop
\* normalization" (docs/modules/06): what run-pytest normalizes is the report of
\* its own tests.
ReportIsOwn ==
  \A c \in Commands :
    request[c].kind = "run-pytest" /\ command[c].source # None => command[c].source.by = c
=============================================================================
