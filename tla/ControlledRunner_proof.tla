----------------------- MODULE ControlledRunner_proof -----------------------
(* For any number of commands, reports of any length, edits and faults: what *)
(* the controlled runners, the release decision and the audit log guarantee. *)
EXTENDS ControlledRunner, FiniteSetTheorems, TLAPS

\* ------------------------------------------------------------ the decision

\* The tests of a report with some statuses are finitely many.
LEMMA HavingFinite ==
  ASSUME NEW report, IsReport(report), NEW statuses
  PROVE  /\ IsFiniteSet(Having(report, statuses))
         /\ Cardinality(Having(report, statuses)) \in Nat
<1>0. DOMAIN report.tests = 1..Len(report.tests) /\ Len(report.tests) \in Nat
  BY DEF IsReport
<1>1. IsFiniteSet(1..Len(report.tests))
  BY <1>0, FS_Interval
<1>2. Having(report, statuses) \in SUBSET (1..Len(report.tests))
  BY <1>0 DEF Having
<1> QED
  BY <1>1, <1>2, FS_Subset, FS_CardinalityType

\* Disjoint statuses count apart.
LEMMA CountsAdd ==
  ASSUME NEW report, IsReport(report), NEW S, NEW T, S \cap T = {}
  PROVE  Cardinality(Having(report, S \cup T))
           = Cardinality(Having(report, S)) + Cardinality(Having(report, T))
<1> DEFINE U == Having(report, S)
           V == Having(report, T)
           W == Having(report, S \cup T)
<1>1. W = U \cup V /\ U \cap V = {}
  BY DEF Having
<1>2. /\ IsFiniteSet(U) /\ Cardinality(U) \in Nat
      /\ IsFiniteSet(V) /\ Cardinality(V) \in Nat
  BY HavingFinite
<1> HIDE DEF U, V, W
<1>3. Cardinality(U \cup V) = Cardinality(U) + Cardinality(V) - Cardinality(U \cap V)
  BY <1>2, FS_Union
<1>4. Cardinality(U \cap V) = 0
  BY <1>1, FS_EmptySet
<1>5. Cardinality(W) = Cardinality(U) + Cardinality(V)
  BY <1>1, <1>2, <1>3, <1>4
<1> QED
  BY <1>5 DEF U, V, W

\* A report that is ingested has no other statuses than the known ones.
LEMMA KnownStatuses ==
  ASSUME NEW report, IsReport(report), NEW S, Having(report, S) = DOMAIN report.tests
  PROVE  /\ Cardinality(Having(report, S)) = Len(report.tests)
         /\ \A T : S \cap T = {} => Having(report, T) = {}
<1>1. DOMAIN report.tests = 1..Len(report.tests) /\ Len(report.tests) \in Nat
  BY DEF IsReport
<1>2. Cardinality(1..Len(report.tests)) = Len(report.tests)
  BY <1>1, FS_Interval
<1>3. ASSUME NEW T, S \cap T = {} PROVE Having(report, T) = {}
  BY <1>3 DEF Having
<1> QED
  BY <1>1, <1>2, <1>3

\* What the counts say of the report: every executed test passed or failed, and
\* without critical failures every critical test passed or was skipped.
Represents(counts, report) ==
  /\ counts \in CountsType
  /\ counts.passed + counts.failed = Executed(report) /\ counts.failed = NotPassed(report)
  /\ counts.critical = 0 =>
       /\ report.errors = 0
       /\ \A i \in DOMAIN report.tests : report.tests[i].marked =>
            report.tests[i].status \in {"passed", "expected", "skipped"}

\* Without critical failures no failing test is marked.
LEMMA NoneMarked ==
  ASSUME NEW report, IsReport(report), NEW failing, Cardinality(Marked(report, Having(report, failing))) = 0,
         NEW i \in DOMAIN report.tests, report.tests[i].marked
  PROVE  report.tests[i].status \notin failing
<1>1. Marked(report, Having(report, failing)) \in SUBSET Having(report, failing)
  BY DEF Marked
<1>2. IsFiniteSet(Marked(report, Having(report, failing)))
  BY <1>1, HavingFinite, FS_Subset
<1>3. Marked(report, Having(report, failing)) = {}
  BY <1>2, FS_EmptySet
<1> QED
  BY <1>3 DEF Marked, Having

\* The critical tests among the failing ones can be counted.
LEMMA MarkedFinite ==
  ASSUME NEW report, IsReport(report), NEW failing
  PROVE  Cardinality(Marked(report, Having(report, failing))) \in Nat
<1>1. Marked(report, Having(report, failing)) \in SUBSET Having(report, failing)
  BY DEF Marked
<1>2. IsFiniteSet(Marked(report, Having(report, failing)))
  BY <1>1, HavingFinite, FS_Subset
<1> QED
  BY <1>2, FS_CardinalityType

\* What ingest_pytest_report returns, when it returns, represents the report.
LEMMA PytestRepresents ==
  ASSUME NEW report, IsReport(report), report.form = "pytest", IngestPytest(report) # Invalid
  PROVE  Represents(IngestPytest(report), report)
<1> DEFINE counts == IngestPytest(report)
           passed == Cardinality(Having(report, {"passed"}))
           failed == Cardinality(Having(report, {"failed"}))
           skipped == Cardinality(Having(report, {"skipped"}))
           critical == Cardinality(Marked(report, Having(report, {"failed"})))
<1>1. /\ counts = [passed |-> passed, failed |-> failed, critical |-> critical]
      /\ Having(report, PytestStatuses) = DOMAIN report.tests
  BY DEF IngestPytest, Countable, Count
<1>2. passed \in Nat /\ failed \in Nat /\ skipped \in Nat /\ critical \in Nat
  BY HavingFinite, MarkedFinite
<1>3. Len(report.tests) = passed + failed + skipped
  <2>1. PytestStatuses = ({"passed"} \cup {"failed"}) \cup {"skipped"}
    BY DEF PytestStatuses
  <2>2. Cardinality(Having(report, PytestStatuses))
          = Cardinality(Having(report, {"passed"} \cup {"failed"})) + skipped
    BY <2>1, CountsAdd
  <2>3. Cardinality(Having(report, {"passed"} \cup {"failed"})) = passed + failed
    BY CountsAdd
  <2>4. Cardinality(Having(report, PytestStatuses)) = Len(report.tests)
    BY <1>1, KnownStatuses
  <2> QED
    BY <1>2, <2>2, <2>3, <2>4
<1>4. Cardinality(Having(report, {"expected"})) = 0
  <2>1. PytestStatuses \cap {"expected"} = {}
    BY DEF PytestStatuses
  <2>2. Having(report, {"expected"}) = {}
    BY <1>1, <2>1, KnownStatuses
  <2> QED
    BY <2>2, FS_EmptySet
<1>5. report.errors = 0
  BY DEF IsReport
<1>6. ASSUME critical = 0, NEW i \in DOMAIN report.tests, report.tests[i].marked
      PROVE  report.tests[i].status \in {"passed", "expected", "skipped"}
  <2>1. report.tests[i].status # "failed"
    BY <1>6, NoneMarked
  <2>2. report.tests[i].status \in PytestStatuses
    BY <1>1, <1>6 DEF Having
  <2> QED
    BY <2>1, <2>2 DEF PytestStatuses
<1> HIDE DEF passed, failed, skipped, critical
<1>7. counts \in CountsType /\ counts.passed = passed /\ counts.failed = failed
      /\ counts.critical = critical
  BY <1>1, <1>2 DEF CountsType
<1> HIDE DEF counts
<1>8. Executed(report) = passed + failed
  BY <1>2, <1>3, <1>5 DEF Executed, Count, skipped
<1>9. NotPassed(report) = failed
  BY <1>2, <1>4, <1>8 DEF NotPassed, Count, passed
<1>10. Represents(counts, report)
  BY <1>5, <1>6, <1>7, <1>8, <1>9 DEF Represents
<1> QED
  BY <1>10 DEF counts

\* What ingest_playwright_report returns, when it returns, represents the report:
\* the statuses partition its tests, and an error without a failed test counts as one.
LEMMA PlaywrightRepresents ==
  ASSUME NEW report, IsReport(report), report.form = "playwright",
         IngestPlaywright(report) # Invalid
  PROVE  Represents(IngestPlaywright(report), report)
<1> DEFINE counts == IngestPlaywright(report)
           passed == Cardinality(Having(report, {"expected"}))
           failed == Cardinality(Having(report, {"unexpected", "flaky"}))
           skipped == Cardinality(Having(report, {"skipped"}))
           critical == Cardinality(Marked(report, Having(report, {"unexpected", "flaky"})))
<1>1. /\ counts = [passed |-> passed, failed |-> failed + report.errors,
                   critical |-> critical + report.errors]
      /\ Having(report, PlaywrightStatuses) = DOMAIN report.tests
  BY DEF IngestPlaywright, Countable, Count
<1>2. passed \in Nat /\ failed \in Nat /\ skipped \in Nat /\ critical \in Nat
  BY HavingFinite, MarkedFinite
<1>3. Len(report.tests) = passed + failed + skipped
  <2>1. PlaywrightStatuses = ({"expected"} \cup {"unexpected", "flaky"}) \cup {"skipped"}
    BY DEF PlaywrightStatuses
  <2>2. Cardinality(Having(report, PlaywrightStatuses))
          = Cardinality(Having(report, {"expected"} \cup {"unexpected", "flaky"})) + skipped
    BY <2>1, CountsAdd
  <2>3. Cardinality(Having(report, {"expected"} \cup {"unexpected", "flaky"})) = passed + failed
    BY CountsAdd
  <2>4. Cardinality(Having(report, PlaywrightStatuses)) = Len(report.tests)
    BY <1>1, KnownStatuses
  <2> QED
    BY <1>2, <2>2, <2>3, <2>4
<1>4. Cardinality(Having(report, {"passed"})) = 0
  <2>1. PlaywrightStatuses \cap {"passed"} = {}
    BY DEF PlaywrightStatuses
  <2>2. Having(report, {"passed"}) = {}
    BY <1>1, <2>1, KnownStatuses
  <2> QED
    BY <2>2, FS_EmptySet
<1>5. report.errors \in Nat
  BY DEF IsReport
<1>6. ASSUME critical = 0, NEW i \in DOMAIN report.tests, report.tests[i].marked
      PROVE  report.tests[i].status \in {"passed", "expected", "skipped"}
  <2>1. report.tests[i].status \notin {"unexpected", "flaky"}
    BY <1>6, NoneMarked
  <2>2. report.tests[i].status \in PlaywrightStatuses
    BY <1>1, <1>6 DEF Having
  <2> QED
    BY <2>1, <2>2 DEF PlaywrightStatuses
<1> HIDE DEF passed, failed, skipped, critical
<1>7. failed + report.errors \in Nat /\ critical + report.errors \in Nat
  BY <1>2, <1>5
<1>8. /\ counts \in CountsType /\ counts.passed = passed /\ counts.failed = failed + report.errors
      /\ counts.critical = critical + report.errors
  BY <1>1, <1>2, <1>7 DEF CountsType
<1> HIDE DEF counts
<1>9. Executed(report) = passed + (failed + report.errors)
  BY <1>2, <1>3, <1>5 DEF Executed, Count, skipped
<1>10. NotPassed(report) = failed + report.errors
  BY <1>2, <1>4, <1>5, <1>9 DEF NotPassed, Count, passed
<1>11. counts.critical = 0 => critical = 0 /\ report.errors = 0
  BY <1>2, <1>5, <1>8
<1>12. Represents(counts, report)
  BY <1>6, <1>8, <1>9, <1>10, <1>11 DEF Represents
<1> QED
  BY <1>12 DEF counts

\* A fraction that is rounded to at least 90 is at least 89.5.
LEMMA RoundedUp ==
  ASSUME NEW n \in Nat, NEW d \in Nat \ {0}, Rounded(n, d) >= 90
  PROVE  179 * d <= 2 * n
<1> DEFINE q == n \div d
           r == n % d
<1>1. q \in Nat /\ r \in Nat /\ r < d /\ n = d * q + r
  OBVIOUS
<1>2. q >= 90 \/ (q = 89 /\ 2 * r >= d)
  BY <1>1 DEF Rounded
<1> HIDE DEF q, r
<1>3. CASE q >= 90
  <2>1. d * q >= d * 90
    BY <1>1, <1>3
  <2> QED
    BY <1>1, <2>1
<1>4. CASE q = 89 /\ 2 * r >= d
  BY <1>1, <1>4
<1> QED
  BY <1>2, <1>3, <1>4

\* A RELEASE costs at most 10.5 points of 100.
LEMMA ReleaseCosts ==
  ASSUME NEW counts \in CountsType, NEW required \in Nat \ {0}, NEW covered \in Nat,
         ValidResult(counts, required, covered), Decision(counts, required, covered) = "RELEASE"
  PROVE  /\ counts.critical = 0
         /\ 2 * (70 * counts.failed * required
                   + 30 * (required - covered) * (counts.passed + counts.failed))
              <= 21 * (counts.passed + counts.failed) * required
<1> DEFINE p == counts.passed
           f == counts.failed
           t == p + f
<1>1. p \in Nat /\ f \in Nat /\ t \in Nat \ {0} /\ counts.critical \in Nat
  BY DEF CountsType, ValidResult
<1>2. counts.critical = 0 /\ Score(counts, required, covered) >= 90
  BY <1>1 DEF Decision
<1>3. Score(counts, required, covered) = Rounded(70 * p * required + 30 * covered * t, t * required)
  BY DEF Score, TestWeight, TraceabilityWeight
<1> HIDE DEF p, f
<1>4. /\ p * required \in Nat /\ f * required \in Nat /\ covered * t \in Nat
      /\ t * required \in Nat \ {0} /\ required * t = t * required
      /\ t * required = p * required + f * required
      /\ (required - covered) * t = required * t - covered * t
  BY <1>1
<1>5. /\ 70 * p * required = 70 * (p * required) /\ 30 * covered * t = 30 * (covered * t)
      /\ 70 * f * required = 70 * (f * required)
      /\ 30 * (required - covered) * t = 30 * ((required - covered) * t)
      /\ 21 * t * required = 21 * (t * required)
  BY <1>1
<1>6. 179 * (t * required) <= 2 * (70 * (p * required) + 30 * (covered * t))
  <2>1. 70 * (p * required) + 30 * (covered * t) \in Nat
    BY <1>4
  <2> QED
    BY <1>2, <1>3, <1>4, <1>5, <2>1, RoundedUp
<1>7. 2 * (70 * (f * required) + 30 * ((required - covered) * t)) <= 21 * (t * required)
  BY <1>4, <1>6
<1>8. 2 * (70 * f * required + 30 * (required - covered) * t) <= 21 * t * required
  BY <1>5, <1>7
<1> QED
  BY <1>2, <1>8 DEF p, f

\* --------------------------------------------------------------- the types

\* What a command knows in each of its phases, of its request.
Knows(e, r) ==
  /\ e.pc \in {"idle", "validated", "hashed", "authorized"} => e.executed = None
  /\ e.pc \in {"hashed", "authorized"} \/ e.executed # None =>
       /\ e.action \in ActionType /\ e.action.kind = r.kind
       /\ e.action.target = r.target /\ e.action.path = r.path
  /\ e.pc = "ingested" => e.source \in FileType
  /\ e.pc \in {"ingested", "assessed", "read"} => e.counts \in CountsType
  /\ e.pc = "read" => e.previous \in Seq(AssessmentType)

\* Types, and what each command knows at its place in the program.
BaseInv == TypeOK /\ \A c \in Commands : Knows(command[c], request[c])

\* The parts of a request.
LEMMA RequestsTyped ==
  ASSUME BaseInv, NEW c \in Commands
  PROVE  /\ request[c] \in RequestType /\ request[c].kind \in Kinds
         /\ request[c].approval \in Approvals \cup {None} /\ request[c].path \in Paths
         /\ request[c].target \in Targets /\ request[c].counts \in CountsType
         /\ request[c].required \in Nat \ {0} /\ request[c].covered \in Nat
<1>1. request[c] \in RequestType
  BY RunnerAssumption DEF BaseInv, TypeOK
<1> QED
  BY <1>1 DEF RequestType

\* The tables, the ledger and the bounds.
SharedTyped ==
  /\ artifacts \in Artifacts
  /\ reportFile \in [Paths -> FileType \cup {None}]
  /\ evidenceFile \in [Outputs -> EvidenceType \cup {None}]
  /\ log \in Seq(RecordType \cup {Invalid})
  /\ signed \in [Approvals -> ActionType \cup {None}]
  /\ Ledger!ApprovalTypeOK
  /\ overlapped \in BOOLEAN /\ edits \in 0..MaxEdits /\ faults \in 0..MaxFaults

\* A step of one command that leaves it with its type and its knowledge.
LEMMA CommandStep ==
  ASSUME BaseInv, NEW c \in Commands, NEW new \in CommandType,
         command' = [command EXCEPT ![c] = new], Knows(new, request[c]),
         UNCHANGED request, SharedTyped'
  PROVE  BaseInv'
<1>1. TypeOK'
  BY DEF BaseInv, TypeOK, SharedTyped
<1>2. \A d \in Commands : Knows(command'[d], request'[d])
  BY DEF BaseInv, TypeOK
<1> QED
  BY <1>1, <1>2 DEF BaseInv

\* A step that changes the phase only, to one that needs no new knowledge.
LEMMA GotoStep ==
  ASSUME BaseInv, NEW c \in Commands,
         NEW pc \in {"validated", "authorized", "exited", "collected", "assessed", "done", "raised"},
         Goto(c, pc),
         pc = "validated" => command[c].pc = "idle",
         pc = "authorized" => command[c].pc = "hashed",
         pc = "assessed" => command[c].pc = "ingested",
         UNCHANGED request, SharedTyped'
  PROVE  BaseInv'
<1> DEFINE new == [command[c] EXCEPT !.pc = pc]
<1>1. command' = [command EXCEPT ![c] = new] /\ command[c] \in CommandType
  BY DEF Goto, BaseInv, TypeOK
<1>2. /\ new \in CommandType /\ new.pc = pc /\ new.executed = command[c].executed
      /\ new.action = command[c].action /\ new.counts = command[c].counts
  BY <1>1 DEF CommandType
<1>3. Knows(command[c], request[c])
  BY DEF BaseInv
<1> HIDE DEF new
<1>4. Knows(new, request[c])
  BY <1>2, <1>3 DEF Knows
<1> QED
  BY <1>1, <1>2, <1>4, CommandStep

\* Nothing shared changes but what is said to.
LEMMA SharedStays ==
  ASSUME BaseInv, UNCHANGED <<artifacts, files, signed, ledger, world>>
  PROVE  SharedTyped'
BY DEF BaseInv, TypeOK, SharedTyped, files, ledger, world, Ledger!ApprovalTypeOK

\* The faults stay within their bound.
LEMMA FaultType ==
  ASSUME BaseInv, Fault
  PROVE  faults' \in 0..MaxFaults
BY RunnerAssumption DEF BaseInv, TypeOK, Fault

\* The action that a command hashes, of its request and of the directory.
LEMMA ActionOfTyped ==
  ASSUME BaseInv, NEW c \in Commands
  PROVE  /\ ActionOf(request[c]) \in ActionType
         /\ ActionOf(request[c]).kind = request[c].kind
         /\ ActionOf(request[c]).target = request[c].target
         /\ ActionOf(request[c]).path = request[c].path
         /\ ActionOf(request[c]).files = artifacts
<1>1. artifacts \in ArtifactsType
  BY RunnerAssumption DEF BaseInv, TypeOK
<1> QED
  BY <1>1, RequestsTyped DEF ActionOf, ActionType

\* The steps of a runner.
LEMMA ExecuteBase ==
  ASSUME BaseInv, NEW c \in Commands, Execute(c)
  PROVE  BaseInv'
<1> USE RequestsTyped
<1>0. command \in [Commands -> CommandType] /\ command[c] \in CommandType /\ Knows(command[c], request[c])
  BY DEF BaseInv, TypeOK
<1>1. UNCHANGED request
  BY DEF Execute, Validate, Hash, Authorize, Refuse, Launch, WriteReport, ExitWithoutReport, Collect
<1>2. CASE Validate(c) \/ Refuse(c) \/ ExitWithoutReport(c) \/ Collect(c)
  <2>1. SharedTyped'
    BY <1>2, SharedStays DEF Validate, Refuse, ExitWithoutReport, Collect
  <2>2. \E pc \in {"validated", "exited", "collected", "raised"} :
          Goto(c, pc) /\ (pc = "validated" => command[c].pc = "idle")
    BY <1>2 DEF Validate, Refuse, ExitWithoutReport, Collect, At
  <2> QED
    BY <1>1, <2>1, <2>2, GotoStep
<1>3. CASE Hash(c)
  <2> DEFINE new == [command[c] EXCEPT !.pc = "hashed", !.action = ActionOf(request[c])]
  <2>1. command' = [command EXCEPT ![c] = new] /\ command[c].pc = "validated"
    BY <1>0, <1>3 DEF Hash, At
  <2>2. /\ new \in CommandType /\ new.pc = "hashed" /\ new.action = ActionOf(request[c])
        /\ new.executed = command[c].executed
    BY <1>0, ActionOfTyped DEF CommandType
  <2> HIDE DEF new
  <2>3. Knows(new, request[c])
    BY <1>0, <2>1, <2>2, ActionOfTyped DEF Knows
  <2>4. SharedTyped'
    BY <1>3, SharedStays DEF Hash
  <2> QED
    BY <1>1, <2>1, <2>2, <2>3, <2>4, CommandStep
<1>4. CASE Authorize(c)
  <2>1. /\ Goto(c, "authorized") /\ command[c].pc = "hashed"
        /\ UNCHANGED <<artifacts, files, signed, world>>
    BY <1>4 DEF Authorize, At
  <2>2. Ledger!ApprovalTypeOK'
    BY <1>4 DEF Authorize, Verified, Ledger!Grant, Ledger!ApprovalTypeOK, ledger, BaseInv, TypeOK
  <2>3. SharedTyped'
    BY <2>1, <2>2 DEF SharedTyped, files, world, BaseInv, TypeOK
  <2> QED
    BY <1>1, <2>1, <2>3, GotoStep
<1>5. CASE Launch(c)
  <2> DEFINE new == [command[c] EXCEPT !.pc = "running", !.executed = artifacts]
  <2>1. command' = [command EXCEPT ![c] = new] /\ command[c].pc = "authorized"
    BY <1>0, <1>5 DEF Launch, At
  <2>2. new \in CommandType /\ new.pc = "running" /\ new.action = command[c].action
    BY <1>0 DEF CommandType, BaseInv, TypeOK
  <2> HIDE DEF new
  <2>3. Knows(new, request[c])
    BY <1>0, <2>1, <2>2 DEF Knows
  <2>4. SharedTyped'
    BY <1>5, SharedStays DEF Launch
  <2> QED
    BY <1>1, <2>1, <2>2, <2>3, <2>4, CommandStep
<1>6. CASE WriteReport(c)
  <2>1. \E pc \in {"exited", "done"} : Goto(c, pc)
    BY <1>6 DEF WriteReport
  <2>2. PICK report \in Reports :
          reportFile' = [reportFile EXCEPT ![request[c].path] = [by |-> c, report |-> report]]
    BY <1>6 DEF WriteReport
  <2>3. [by |-> c, report |-> report] \in FileType
    BY DEF FileType
  <2>4. reportFile' \in [Paths -> FileType \cup {None}]
    BY <2>2, <2>3 DEF BaseInv, TypeOK
  <2>5. UNCHANGED <<artifacts, evidenceFile, log, signed, ledger, world>>
    BY <1>6 DEF WriteReport
  <2>6. SharedTyped'
    BY <2>4, <2>5 DEF SharedTyped, ledger, world, BaseInv, TypeOK, Ledger!ApprovalTypeOK
  <2> QED
    BY <1>1, <2>1, <2>6, GotoStep
<1> QED
  BY <1>2, <1>3, <1>4, <1>5, <1>6 DEF Execute

\* What Ingest takes for the counts represents the report that it takes them from.
LEMMA NormalizedRepresents ==
  ASSUME BaseInv, NEW c \in Commands, Normalized(c) # Invalid
  PROVE  /\ reportFile[request[c].path] \in FileType
         /\ reportFile[request[c].path].report \in Reports
         /\ reportFile[request[c].path].report # Invalid
         /\ Represents(Normalized(c), reportFile[request[c].path].report)
<1> DEFINE file == reportFile[request[c].path]
           counts == Normalized(c)
<1>1. file \in FileType \cup {None}
  BY RequestsTyped DEF BaseInv, TypeOK
<1>2. /\ file # None /\ file.report # Invalid
      /\ counts = (IF Form(c) = "pytest" THEN IngestPytest(file.report)
                                         ELSE IngestPlaywright(file.report))
      /\ file.report.form = Form(c) /\ counts # Invalid
  BY DEF Normalized
<1>3. Form(c) \in {"pytest", "playwright"}
  BY DEF Form
<1> HIDE DEF file, counts
<1>4. file \in FileType /\ file.report \in Reports
  BY <1>1, <1>2 DEF FileType
<1>5. IsReport(file.report)
  BY <1>4, RunnerAssumption
<1>6. Represents(counts, file.report)
  BY <1>2, <1>3, <1>5, PytestRepresents, PlaywrightRepresents
<1> QED
  BY <1>2, <1>4, <1>6 DEF file, counts

\* The hash that a command reads from a log that verifies is one.
LEMMA LastHashTyped ==
  ASSUME BaseInv, Intact(log)
  PROVE  LastHash \in Seq(AssessmentType)
<1>1. CASE log = <<>>
  BY <1>1 DEF LastHash, Genesis
<1>2. CASE log # <<>>
  <2>1. log \in Seq(RecordType \cup {Invalid})
    BY DEF BaseInv, TypeOK
  <2>2. Len(log) \in DOMAIN log
    BY <1>2, <2>1
  <2>3. log[Len(log)] \in RecordType
    BY <2>1, <2>2 DEF Intact
  <2> QED
    BY <1>2, <2>3 DEF LastHash, RecordType
<1> QED
  BY <1>1, <1>2

\* The line that a command appends, of what it has read.
LEMMA RecordOfTyped ==
  ASSUME BaseInv, NEW c \in Commands, At(c, "read")
  PROVE  /\ RecordOf(c) \in RecordType /\ RecordOf(c).previous = command[c].previous
         /\ RecordOf(c).hash = RecordHash(RecordOf(c).previous, RecordOf(c).assessment)
         /\ RecordOf(c).assessment.run = c
         /\ RecordOf(c).assessment.decision
              = Decision(command[c].counts, request[c].required, request[c].covered)
<1> DEFINE decision == Decision(command[c].counts, request[c].required, request[c].covered)
           assessment == [run |-> c, decision |-> decision]
<1>1. decision \in {"RELEASE", "HUMAN_REVIEW", "BLOCK"}
  BY DEF Decision
<1>2. command[c].previous \in Seq(AssessmentType)
  BY DEF BaseInv, Knows, At
<1> HIDE DEF decision
<1>3. assessment \in AssessmentType /\ assessment.run = c /\ assessment.decision = decision
  BY <1>1 DEF AssessmentType
<1>4. RecordOf(c) = [previous |-> command[c].previous,
                     hash |-> RecordHash(command[c].previous, assessment),
                     assessment |-> assessment]
  BY DEF RecordOf, decision
<1> HIDE DEF assessment
<1>5. RecordHash(command[c].previous, assessment) \in Seq(AssessmentType)
  BY <1>2, <1>3 DEF RecordHash
<1> QED
  BY <1>2, <1>3, <1>4, <1>5 DEF RecordType, decision

\* The steps from the ingestion to the appended line.
LEMMA AssessBase ==
  ASSUME BaseInv, NEW c \in Commands, Assess(c)
  PROVE  BaseInv'
<1> USE RequestsTyped
<1>0. command \in [Commands -> CommandType] /\ command[c] \in CommandType /\ Knows(command[c], request[c])
  BY DEF BaseInv, TypeOK
<1>1. UNCHANGED request
  BY DEF Assess, Ingest, WriteEvidence, Keeps, ReadResults, ReadLast, AppendRecord
<1>2. CASE Ingest(c)
  <2>1. SharedTyped'
    BY <1>2, SharedStays DEF Ingest
  <2>2. CASE Goto(c, "raised")
    BY <1>1, <2>1, <2>2, GotoStep
  <2>3. CASE ~ Goto(c, "raised")
    <3> DEFINE counts == Normalized(c)
               source == reportFile[request[c].path]
               new == [command[c] EXCEPT !.pc = "ingested", !.counts = counts, !.source = source]
    <3>1. counts # Invalid /\ command' = [command EXCEPT ![c] = new]
      BY <1>0, <1>2, <2>3 DEF Ingest
    <3>2. counts \in CountsType /\ source \in FileType
      BY <3>1, NormalizedRepresents DEF Represents
    <3> HIDE DEF counts, source
    <3>3. command[c].pc \in {"idle", "collected"}
      BY <1>2 DEF Ingest, At
    <3>4. /\ new \in CommandType /\ new.pc = "ingested" /\ new.counts = counts
          /\ new.source = source
      BY <1>0, <3>2 DEF CommandType
    <3>5. new.action = command[c].action /\ new.executed = command[c].executed
      BY <1>0 DEF CommandType
    <3> HIDE DEF new
    <3>6. Knows(new, request[c])
      BY <1>0, <3>2, <3>3, <3>4, <3>5 DEF Knows
    <3> QED
      BY <1>1, <2>1, <3>1, <3>4, <3>6, CommandStep
  <2> QED
    BY <2>2, <2>3
<1>3. CASE WriteEvidence(c)
  <2>1. Goto(c, "assessed") /\ command[c].pc = "ingested"
    BY <1>3 DEF WriteEvidence, Keeps, At
  <2>2. Evidence(c) \in EvidenceType
    BY <1>0, <2>1 DEF Knows, Evidence, EvidenceType
  <2>3. evidenceFile' \in [Outputs -> EvidenceType \cup {None}]
    BY <1>3, <2>2 DEF WriteEvidence, Keeps, BaseInv, TypeOK
  <2>4. SharedTyped'
    BY <1>3, <2>3 DEF WriteEvidence, Keeps, SharedTyped, ledger, world, BaseInv, TypeOK,
                      Ledger!ApprovalTypeOK
  <2> QED
    BY <1>1, <2>1, <2>4, GotoStep
<1>4. CASE ReadResults(c)
  <2>1. SharedTyped'
    BY <1>4, SharedStays DEF ReadResults
  <2>2. CASE Goto(c, "raised")
    BY <1>1, <2>1, <2>2, GotoStep
  <2>3. CASE ~ Goto(c, "raised")
    <3> DEFINE new == [command[c] EXCEPT !.pc = "assessed", !.counts = request[c].counts]
    <3>1. command' = [command EXCEPT ![c] = new] /\ command[c].pc = "idle"
      BY <1>0, <1>4, <2>3 DEF ReadResults, At
    <3>2. /\ new \in CommandType /\ new.pc = "assessed" /\ new.counts = request[c].counts
          /\ new.action = command[c].action /\ new.executed = command[c].executed
      BY <1>0 DEF CommandType
    <3> HIDE DEF new
    <3>3. Knows(new, request[c])
      BY <1>0, <3>1, <3>2 DEF Knows
    <3> QED
      BY <1>1, <2>1, <3>1, <3>2, <3>3, CommandStep
  <2> QED
    BY <2>2, <2>3
<1>5. CASE ReadLast(c)
  <2>1. overlapped' \in BOOLEAN
    BY <1>5 DEF ReadLast, BaseInv, TypeOK
  <2>2. SharedTyped'
    BY <1>5, <2>1 DEF ReadLast, SharedTyped, ledger, files, BaseInv, TypeOK, Ledger!ApprovalTypeOK
  <2>3. CASE Goto(c, "raised")
    BY <1>1, <2>2, <2>3, GotoStep
  <2>4. CASE ~ Goto(c, "raised")
    <3> DEFINE new == [command[c] EXCEPT !.pc = "read", !.previous = LastHash]
    <3>1. /\ command' = [command EXCEPT ![c] = new] /\ command[c].pc = "assessed"
          /\ LastHash \in Seq(AssessmentType)
      BY <1>0, <1>5, <2>4, LastHashTyped DEF ReadLast, At
    <3>2. /\ new \in CommandType /\ new.pc = "read" /\ new.previous = LastHash
          /\ new.counts = command[c].counts
          /\ new.action = command[c].action /\ new.executed = command[c].executed
      BY <1>0, <3>1 DEF CommandType
    <3> HIDE DEF new
    <3>3. Knows(new, request[c])
      BY <1>0, <3>1, <3>2 DEF Knows
    <3> QED
      BY <1>1, <2>2, <3>1, <3>2, <3>3, CommandStep
  <2> QED
    BY <2>3, <2>4
<1>6. CASE AppendRecord(c)
  <2>1. Goto(c, "done") /\ At(c, "read")
    BY <1>6 DEF AppendRecord
  <2>2. log' \in Seq(RecordType \cup {Invalid})
    <3>1. log' = log \/ log' = Append(log, RecordOf(c))
      BY <1>6 DEF AppendRecord
    <3>2. RecordOf(c) \in RecordType
      BY <2>1, RecordOfTyped
    <3> QED
      BY <3>1, <3>2 DEF BaseInv, TypeOK
  <2>3. SharedTyped'
    BY <1>6, <2>2 DEF AppendRecord, SharedTyped, ledger, world, BaseInv, TypeOK,
                      Ledger!ApprovalTypeOK
  <2> QED
    BY <1>1, <2>1, <2>3, GotoStep
<1> QED
  BY <1>2, <1>3, <1>4, <1>5, <1>6 DEF Assess

\* The faults.
LEMMA FailBase ==
  ASSUME BaseInv, NEW c \in Commands, Fail(c)
  PROVE  BaseInv'
<1> USE RequestsTyped
<1>1. /\ UNCHANGED <<request, artifacts, evidenceFile, signed, overlapped, edits>>
      /\ Goto(c, "raised") /\ Fault
  BY DEF Fail, LoseClaim, KillTests, Crash, TearRecord, files
<1>2. faults' \in 0..MaxFaults
  BY <1>1, FaultType
<1>3. reportFile' \in [Paths -> FileType \cup {None}]
  <2>1. [by |-> c, report |-> Invalid] \in FileType
    BY DEF FileType
  <2>2. \/ reportFile' = reportFile
        \/ reportFile' = [reportFile EXCEPT ![request[c].path] = [by |-> c, report |-> Invalid]]
    BY DEF Fail, LoseClaim, KillTests, Crash, TearRecord, files
  <2> QED
    BY <2>1, <2>2 DEF BaseInv, TypeOK
<1>4. log' \in Seq(RecordType \cup {Invalid})
  <2>1. log' = log \/ log' = Append(log, Invalid)
    BY DEF Fail, LoseClaim, KillTests, Crash, TearRecord, files
  <2> QED
    BY <2>1 DEF BaseInv, TypeOK
<1>5. Ledger!ApprovalTypeOK'
  <2>1. CASE LoseClaim(c)
    BY <2>1 DEF LoseClaim, Verified, Ledger!Burn, Ledger!ApprovalTypeOK, BaseInv, TypeOK
  <2>2. CASE UNCHANGED ledger
    BY <2>2 DEF ledger, Ledger!ApprovalTypeOK, BaseInv, TypeOK
  <2> QED
    BY <2>1, <2>2 DEF Fail, KillTests, Crash, TearRecord
<1>6. SharedTyped'
  BY <1>1, <1>2, <1>3, <1>4, <1>5 DEF SharedTyped, BaseInv, TypeOK
<1> QED
  BY <1>1, <1>6, GotoStep

\* The signature of an action.
LEMMA SignBase ==
  ASSUME BaseInv, NEW a \in Approvals, Sign(a)
  PROVE  BaseInv'
<1>1. signed' \in [Approvals -> ActionType \cup {None}]
  BY ActionOfTyped DEF Sign, BaseInv, TypeOK
<1>2. UNCHANGED <<request, artifacts, files, ledger, command, world>>
  BY DEF Sign
<1>3. TypeOK'
  BY <1>1, <1>2 DEF BaseInv, TypeOK, files, ledger, world, Ledger!ApprovalTypeOK
<1> QED
  BY <1>2, <1>3 DEF BaseInv

\* The edit of the generated directory.
LEMMA EditBase ==
  ASSUME BaseInv, Edit
  PROVE  BaseInv'
<1>1. /\ UNCHANGED <<request, files, signed, ledger, overlapped, faults>>
      /\ artifacts' \in Artifacts /\ edits' \in 0..MaxEdits
  BY RunnerAssumption DEF Edit, BaseInv, TypeOK
<1>2. ASSUME NEW c \in Commands
      PROVE  command'[c] \in CommandType /\ Knows(command'[c], request[c])
  <2> DEFINE edited == command[c].edited \/ command[c].pc \in {"hashed", "authorized"}
             new == [command[c] EXCEPT !.edited = edited]
  <2>1. command'[c] = new
    BY <1>2 DEF Edit
  <2>2. command[c] \in CommandType /\ Knows(command[c], request[c])
    BY <1>2 DEF BaseInv, TypeOK
  <2>3. edited \in BOOLEAN
    BY <2>2 DEF CommandType
  <2> HIDE DEF edited
  <2>4. /\ new \in CommandType /\ new.pc = command[c].pc /\ new.executed = command[c].executed
        /\ new.action = command[c].action
    BY <2>2, <2>3 DEF CommandType
  <2>5. /\ new.counts = command[c].counts /\ new.source = command[c].source
        /\ new.previous = command[c].previous
    BY <2>2 DEF CommandType
  <2> HIDE DEF new
  <2>6. Knows(new, request[c])
    BY <2>2, <2>4, <2>5 DEF Knows
  <2> QED
    BY <2>1, <2>4, <2>6
<1>3. command' \in [Commands -> CommandType]
  BY <1>2 DEF Edit
<1>4. TypeOK'
  BY <1>1, <1>3 DEF BaseInv, TypeOK, files, ledger, Ledger!ApprovalTypeOK
<1> QED
  BY <1>1, <1>2, <1>4 DEF BaseInv

\* Nothing has run at the start.
LEMMA BaseInit ==
  ASSUME Init
  PROVE  BaseInv
<1> DEFINE fresh == [pc |-> "idle", action |-> None, executed |-> None, edited |-> FALSE,
                     counts |-> None, source |-> None, previous |-> None]
<1>1. fresh \in CommandType /\ fresh.pc = "idle" /\ fresh.executed = None
  BY DEF CommandType
<1>2. command = [c \in Commands |-> fresh]
  BY DEF Init
<1> HIDE DEF fresh
<1>3. command \in [Commands -> CommandType]
  BY <1>1, <1>2
<1>4. \A c \in Commands : Knows(command[c], request[c])
  BY <1>1, <1>2 DEF Knows
<1>5. [by : {Earlier}, report : InitialReports] \subseteq FileType
  BY RunnerAssumption DEF FileType
<1>6. reportFile \in [Paths -> FileType \cup {None}]
  <2>1. reportFile \in [Paths -> {None} \cup [by : {Earlier}, report : InitialReports]]
    BY DEF Init
  <2> QED
    BY <1>5, <2>1
<1>7. Ledger!ApprovalTypeOK
  BY DEF Init, Ledger!ApprovalInit, Ledger!ApprovalTypeOK
<1>8. TypeOK
  <2>1. /\ request \in Workloads /\ artifacts \in InitialArtifacts
        /\ evidenceFile = [o \in Outputs |-> None]
        /\ log = <<>> /\ signed = [a \in Approvals |-> None]
        /\ overlapped = FALSE /\ edits = 0 /\ faults = 0
    BY DEF Init
  <2>2. artifacts \in Artifacts /\ edits \in 0..MaxEdits /\ faults \in 0..MaxFaults
    BY <2>1, RunnerAssumption
  <2>3. /\ evidenceFile \in [Outputs -> EvidenceType \cup {None}]
        /\ log \in Seq(RecordType \cup {Invalid})
        /\ signed \in [Approvals -> ActionType \cup {None}]
    BY <2>1
  <2> QED
    BY <1>3, <1>6, <1>7, <2>1, <2>2, <2>3 DEF TypeOK
<1> QED
  BY <1>4, <1>8 DEF BaseInv

\* Every step preserves types and knowledge.
LEMMA BaseStep ==
  ASSUME BaseInv, [Next]_vars
  PROVE  BaseInv'
<1>1. CASE UNCHANGED vars
  BY <1>1 DEF vars, files, ledger, world, BaseInv, TypeOK, Ledger!ApprovalTypeOK
<1>2. CASE Next
  BY <1>2, ExecuteBase, AssessBase, FailBase, SignBase, EditBase DEF Next
<1> QED
  BY <1>1, <1>2

\* In every reachable state the variables have their types, and every command has
\* what the steps of its program (cli.py) left with it.
THEOREM BaseInvariant == Spec => []BaseInv
<1>1. Init => BaseInv
  BY BaseInit
<1>2. BaseInv /\ [Next]_vars => BaseInv'
  BY BaseStep
<1> QED
  BY <1>1, <1>2, PTL DEF Spec

\* Every variable keeps its type, in the steps of the commands and of the faults.
THEOREM TypeCorrect == Spec => []TypeOK
<1>1. BaseInv => TypeOK
  BY DEF BaseInv
<1> QED
  BY <1>1, BaseInvariant, PTL

\* -------------------------------------------------- signed and then launched

\* Command c has the approval of its request to itself, for its action: by this
\* ledger, now, and after the step.
HoldsIn(S, H, G, c, action) ==
  LET a == request[c].approval IN
  a \in Approvals /\ a \in S /\ H[a] = {c} /\ G[a] = action

Holds(c, action) == HoldsIn(spent, holders, signed, c, action)
Held(c, action) == HoldsIn(spent', holders', signed', c, action)

\* From the grant on a command in signed mode holds its approval; and the files
\* it hashed are those of the directory, then those it executed, or there was an
\* edit.
Backed(c, e) ==
  /\ e.pc = "authorized" \/ e.executed # None => Local(c) \/ Holds(c, e.action)
  /\ e.pc \in {"hashed", "authorized"} /\ artifacts # e.action.files => e.edited
  /\ e.executed # None /\ e.executed # e.action.files => e.edited

\* An approval that nobody spent gave authority to nobody.
UnspentUnheld == \A a \in Approvals : a \notin spent => holders[a] = {}

\* The inductive invariant of LaunchSigned.
SignedInv ==
  /\ BaseInv /\ UnspentUnheld
  /\ \A c \in Commands : Backed(c, command[c])

\* The commands that a step does not touch stay backed.
LEMMA OthersBacked ==
  ASSUME SignedInv, UNCHANGED <<request, artifacts, signed>>,
         NEW c \in Commands, NEW new, command' = [command EXCEPT ![c] = new],
         \/ UNCHANGED ledger
         \/ \E a \in Approvals : Ledger!Burn(a) \/ Ledger!Grant(a, c)
  PROVE  /\ UnspentUnheld'
         /\ \A d \in Commands \ {c} : Backed(d, command[d])'
         /\ \A d \in Commands : \A action : Holds(d, action) => Held(d, action)
<1>1. /\ holders \in [Approvals -> SUBSET Commands] /\ UnspentUnheld
      /\ command \in [Commands -> CommandType] /\ \A d \in Commands : Backed(d, command[d])
  BY DEF SignedInv, BaseInv, TypeOK, Ledger!ApprovalTypeOK
<1>2. /\ \A a \in spent : a \in spent' /\ (a \in Approvals => holders'[a] = holders[a])
      /\ UnspentUnheld'
  BY <1>1 DEF Ledger!Burn, Ledger!Grant, ledger, UnspentUnheld
<1>3. \A d \in Commands : \A action : Holds(d, action) => Held(d, action)
  BY <1>2 DEF Holds, Held, HoldsIn
<1>4. ASSUME NEW d \in Commands \ {c} PROVE Backed(d, command[d])'
  <2>1. command'[d] = command[d]
    BY <1>1
  <2> QED
    BY <1>1, <1>3, <2>1 DEF Backed, Local, Holds, Held, HoldsIn
<1> QED
  BY <1>2, <1>3, <1>4

\* A step of command c to a state that is backed.
LEMMA SignedStep ==
  ASSUME SignedInv, BaseInv', UNCHANGED <<request, artifacts, signed>>,
         NEW c \in Commands, NEW new, command' = [command EXCEPT ![c] = new],
         \/ UNCHANGED ledger
         \/ \E a \in Approvals : Ledger!Burn(a) \/ Ledger!Grant(a, c),
         /\ new.pc = "authorized" \/ new.executed # None => Local(c) \/ Held(c, new.action)
         /\ new.pc \in {"hashed", "authorized"} /\ artifacts # new.action.files => new.edited
         /\ new.executed # None /\ new.executed # new.action.files => new.edited
  PROVE  SignedInv'
<1>1. UnspentUnheld' /\ \A d \in Commands \ {c} : Backed(d, command[d])'
  BY OthersBacked
<1>2. command'[c] = new
  BY DEF SignedInv, BaseInv, TypeOK
<1>3. Backed(c, command[c])'
  BY <1>2 DEF Backed, Local, Holds, Held, HoldsIn
<1> QED
  BY <1>1, <1>3 DEF SignedInv

\* A step that neither hashes nor authorizes nor launches.
LEMMA QuietSigned ==
  ASSUME SignedInv, BaseInv', UNCHANGED <<request, artifacts, signed>>,
         NEW c \in Commands, NEW new, command' = [command EXCEPT ![c] = new],
         \/ UNCHANGED ledger
         \/ \E a \in Approvals : Ledger!Burn(a),
         new.pc \notin {"hashed", "authorized"},
         new.executed = command[c].executed, new.action = command[c].action,
         new.edited = command[c].edited
  PROVE  SignedInv'
<1>1. Backed(c, command[c])
  BY DEF SignedInv
<1>2. \A d \in Commands : \A action : Holds(d, action) => Held(d, action)
  BY OthersBacked
<1>3. new.executed # None => Local(c) \/ Held(c, new.action)
  BY <1>1, <1>2 DEF Backed
<1> QED
  BY <1>1, <1>3, SignedStep DEF Backed

\* A step to where a command has no authority to lose.
LEMMA GotoSigned ==
  ASSUME SignedInv, BaseInv', UNCHANGED <<request, artifacts, signed>>,
         NEW c \in Commands, NEW pc, Goto(c, pc), pc \notin {"hashed", "authorized"},
         \/ UNCHANGED ledger
         \/ \E a \in Approvals : Ledger!Burn(a)
  PROVE  SignedInv'
<1> DEFINE new == [command[c] EXCEPT !.pc = pc]
<1>1. command[c] \in CommandType
  BY DEF SignedInv, BaseInv, TypeOK
<1>2. /\ new.pc = pc /\ new.executed = command[c].executed
      /\ new.action = command[c].action /\ new.edited = command[c].edited
  BY <1>1 DEF CommandType
<1>3. command' = [command EXCEPT ![c] = new]
  BY DEF Goto
<1> HIDE DEF new
<1> QED
  BY <1>2, <1>3, QuietSigned

\* The steps of a runner: the grant backs the command, the launch executes what is
\* there.
LEMMA ExecuteSigned ==
  ASSUME SignedInv, BaseInv', NEW c \in Commands, Execute(c)
  PROVE  SignedInv'
<1>0. /\ BaseInv /\ command \in [Commands -> CommandType] /\ command[c] \in CommandType
      /\ Knows(command[c], request[c]) /\ Backed(c, command[c])
  BY DEF SignedInv, BaseInv, TypeOK
<1>1. UNCHANGED <<request, artifacts, signed>>
  BY DEF Execute, Validate, Hash, Authorize, Refuse, Launch, WriteReport, ExitWithoutReport, Collect
<1>2. CASE Validate(c) \/ Refuse(c) \/ WriteReport(c) \/ ExitWithoutReport(c) \/ Collect(c)
  <2>1. UNCHANGED ledger
    BY <1>2 DEF Validate, Refuse, WriteReport, ExitWithoutReport, Collect
  <2>2. \E pc \in {"validated", "exited", "collected", "done", "raised"} : Goto(c, pc)
    BY <1>2 DEF Validate, Refuse, WriteReport, ExitWithoutReport, Collect
  <2> QED
    BY <1>1, <2>1, <2>2, GotoSigned
<1>3. CASE Hash(c)
  <2> DEFINE new == [command[c] EXCEPT !.pc = "hashed", !.action = ActionOf(request[c])]
  <2>1. command' = [command EXCEPT ![c] = new] /\ command[c].pc = "validated" /\ UNCHANGED ledger
    BY <1>0, <1>3 DEF Hash, At
  <2>2. /\ new.pc = "hashed" /\ new.action.files = artifacts
        /\ new.executed = None
    BY <1>0, <2>1, ActionOfTyped DEF CommandType, Knows
  <2> HIDE DEF new
  <2> QED
    BY <1>1, <2>1, <2>2, SignedStep
<1>4. CASE Authorize(c)
  <2> DEFINE new == [command[c] EXCEPT !.pc = "authorized"]
             a == request[c].approval
  <2>1. command' = [command EXCEPT ![c] = new] /\ command[c].pc = "hashed"
    BY <1>0, <1>4 DEF Authorize, At, Goto
  <2>2. /\ new.pc = "authorized" /\ new.action = command[c].action
        /\ new.executed = None /\ new.edited = command[c].edited
    BY <1>0, <2>1 DEF CommandType, Knows
  <2>3. ~ Local(c) => a \in Approvals /\ signed[a] = command[c].action /\ Ledger!Grant(a, c)
    BY <1>0, <1>4, RequestsTyped DEF Authorize, Verified
  <2>4. ~ Local(c) => Held(c, command[c].action)
    <3>1. holders \in [Approvals -> SUBSET Commands] /\ UnspentUnheld
      BY DEF SignedInv, BaseInv, TypeOK, Ledger!ApprovalTypeOK
    <3>2. ~ Local(c) => a \in spent' /\ holders'[a] = {c}
      BY <2>3, <3>1 DEF Ledger!Grant, UnspentUnheld
    <3> QED
      BY <1>1, <2>1, <2>3, <3>2 DEF Held, HoldsIn
  <2>5. UNCHANGED ledger \/ \E b \in Approvals : Ledger!Grant(b, c)
    BY <1>4, <2>3 DEF Authorize
  <2>6. new.pc \in {"hashed", "authorized"} /\ artifacts # new.action.files => new.edited
    BY <1>0, <2>1, <2>2 DEF Backed
  <2>7. Local(c) \/ Held(c, new.action)
    BY <2>2, <2>4
  <2> HIDE DEF new
  <2> QED
    BY <1>1, <2>1, <2>2, <2>5, <2>6, <2>7, SignedStep
<1>5. CASE Launch(c)
  <2> DEFINE new == [command[c] EXCEPT !.pc = "running", !.executed = artifacts]
  <2>1. command' = [command EXCEPT ![c] = new] /\ command[c].pc = "authorized" /\ UNCHANGED ledger
    BY <1>0, <1>5 DEF Launch, At
  <2>2. /\ new.pc = "running" /\ new.action = command[c].action
        /\ new.executed = artifacts /\ new.edited = command[c].edited
    BY <1>0 DEF CommandType
  <2> HIDE DEF new
  <2>3. \A d \in Commands : \A action : Holds(d, action) => Held(d, action)
    BY <1>1, <2>1, OthersBacked
  <2>4. Local(c) \/ Held(c, new.action)
    BY <1>0, <2>1, <2>2, <2>3 DEF Backed
  <2>5. new.executed # new.action.files => new.edited
    BY <1>0, <2>1, <2>2 DEF Backed
  <2> QED
    BY <1>1, <2>1, <2>2, <2>4, <2>5, SignedStep
<1> QED
  BY <1>2, <1>3, <1>4, <1>5 DEF Execute

\* The steps after the tests have nothing to do with approvals.
LEMMA AssessSigned ==
  ASSUME SignedInv, BaseInv', NEW c \in Commands, Assess(c)
  PROVE  SignedInv'
<1>0. command \in [Commands -> CommandType] /\ command[c] \in CommandType
  BY DEF SignedInv, BaseInv, TypeOK
<1>1. UNCHANGED <<request, artifacts, signed>> /\ UNCHANGED ledger
  BY DEF Assess, Ingest, WriteEvidence, Keeps, ReadResults, ReadLast, AppendRecord
<1>2. CASE \E pc \in {"assessed", "done", "raised"} : Goto(c, pc)
  BY <1>1, <1>2, GotoSigned
<1>3. CASE Ingest(c) /\ ~ Goto(c, "raised")
  <2> DEFINE counts == Normalized(c)
             source == reportFile[request[c].path]
             new == [command[c] EXCEPT !.pc = "ingested", !.counts = counts, !.source = source]
  <2>1. command' = [command EXCEPT ![c] = new]
    BY <1>0, <1>3 DEF Ingest
  <2> HIDE DEF counts, source
  <2>2. /\ new.pc = "ingested" /\ new.executed = command[c].executed
        /\ new.action = command[c].action /\ new.edited = command[c].edited
    BY <1>0 DEF CommandType
  <2> HIDE DEF new
  <2> QED
    BY <1>1, <2>1, <2>2, QuietSigned
<1>4. CASE ReadResults(c) /\ ~ Goto(c, "raised")
  <2> DEFINE new == [command[c] EXCEPT !.pc = "assessed", !.counts = request[c].counts]
  <2>1. command' = [command EXCEPT ![c] = new]
    BY <1>0, <1>4 DEF ReadResults
  <2>2. /\ new.pc = "assessed" /\ new.executed = command[c].executed
        /\ new.action = command[c].action /\ new.edited = command[c].edited
    BY <1>0 DEF CommandType
  <2> HIDE DEF new
  <2> QED
    BY <1>1, <2>1, <2>2, QuietSigned
<1>5. CASE ReadLast(c) /\ ~ Goto(c, "raised")
  <2> DEFINE new == [command[c] EXCEPT !.pc = "read", !.previous = LastHash]
  <2>1. command' = [command EXCEPT ![c] = new]
    BY <1>0, <1>5 DEF ReadLast
  <2>2. /\ new.pc = "read" /\ new.executed = command[c].executed
        /\ new.action = command[c].action /\ new.edited = command[c].edited
    BY <1>0 DEF CommandType
  <2> HIDE DEF new
  <2> QED
    BY <1>1, <2>1, <2>2, QuietSigned
<1> QED
  BY <1>2, <1>3, <1>4, <1>5 DEF Assess, WriteEvidence, Keeps, AppendRecord

\* The faults burn approvals and end commands.
LEMMA FailSigned ==
  ASSUME SignedInv, BaseInv', NEW c \in Commands, Fail(c)
  PROVE  SignedInv'
<1>1. UNCHANGED <<request, artifacts, signed>> /\ Goto(c, "raised")
  BY DEF Fail, LoseClaim, KillTests, Crash, TearRecord
<1>2. UNCHANGED ledger \/ \E a \in Approvals : Ledger!Burn(a)
  BY RequestsTyped DEF Fail, LoseClaim, KillTests, Crash, TearRecord, Verified, SignedInv
<1> QED
  BY <1>1, <1>2, GotoSigned

\* A signature only adds to what is signed.
LEMMA SignSigned ==
  ASSUME SignedInv, BaseInv', NEW a \in Approvals, Sign(a)
  PROVE  SignedInv'
<1>1. /\ UNCHANGED <<request, artifacts, ledger, command>> /\ signed[a] = None
      /\ \A b \in Approvals \ {a} : signed'[b] = signed[b]
  BY DEF Sign, SignedInv, BaseInv, TypeOK
<1>2. ASSUME NEW c \in Commands PROVE Backed(c, command[c])'
  <2>1. Backed(c, command[c]) /\ Knows(command[c], request[c])
    BY DEF SignedInv, BaseInv
  <2>2. Holds(c, command[c].action) /\ command[c].action \in ActionType
          => Held(c, command[c].action)
    BY <1>1, RunnerAssumption DEF Holds, Held, HoldsIn, ledger
  <2>3. command[c].pc = "authorized" \/ command[c].executed # None
          => Local(c) \/ Held(c, command[c].action)
    BY <2>1, <2>2 DEF Backed, Knows
  <2> QED
    BY <1>1, <2>1, <2>3 DEF Backed, Local, Holds, Held, HoldsIn
<1>3. UnspentUnheld'
  BY <1>1 DEF SignedInv, UnspentUnheld, ledger
<1> QED
  BY <1>2, <1>3 DEF SignedInv

\* The edit marks the commands between their hash and their launch.
LEMMA EditSigned ==
  ASSUME SignedInv, BaseInv', Edit
  PROVE  SignedInv'
<1>1. UNCHANGED <<request, ledger, signed>>
  BY DEF Edit
<1>2. ASSUME NEW c \in Commands PROVE Backed(c, command[c])'
  <2>1. Backed(c, command[c]) /\ command[c] \in CommandType
    BY DEF SignedInv, BaseInv, TypeOK
  <2>2. /\ command'[c].pc = command[c].pc /\ command'[c].executed = command[c].executed
        /\ command'[c].action = command[c].action
        /\ command[c].edited => command'[c].edited
        /\ command[c].pc \in {"hashed", "authorized"} => command'[c].edited
    BY <2>1 DEF Edit, CommandType
  <2> QED
    BY <1>1, <2>1, <2>2 DEF Backed, Local, Holds, HoldsIn, ledger
<1>3. UnspentUnheld'
  BY <1>1 DEF SignedInv, UnspentUnheld, ledger
<1> QED
  BY <1>2, <1>3 DEF SignedInv

\* Nothing is signed, hashed or spent at the start.
LEMMA SignedInit ==
  ASSUME Init
  PROVE  SignedInv
<1>1. UnspentUnheld
  BY DEF Init, Ledger!ApprovalInit, UnspentUnheld
<1>2. \A c \in Commands : Backed(c, command[c])
  BY DEF Init, Backed
<1> QED
  BY <1>1, <1>2, BaseInit DEF SignedInv

\* Every step keeps the commands backed.
LEMMA SignedInvStep ==
  ASSUME SignedInv, [Next]_vars
  PROVE  SignedInv'
<1>1. BaseInv'
  BY BaseStep DEF SignedInv
<1>2. CASE UNCHANGED vars
  BY <1>1, <1>2 DEF vars, ledger, SignedInv, UnspentUnheld, Backed, Local, Holds, HoldsIn
<1>3. CASE Next
  BY <1>1, <1>3, ExecuteSigned, AssessSigned, FailSigned, SignSigned, EditSigned DEF Next
<1> QED
  BY <1>2, <1>3

\* In signed mode, what is launched has an approval of its own that was signed
\* for it; only an edit between the hash and the launch changes what is executed.
THEOREM LaunchSigned == Spec => []LaunchedAsSigned
<1>1. Init => SignedInv
  BY SignedInit
<1>2. SignedInv /\ [Next]_vars => SignedInv'
  BY SignedInvStep
<1>3. SignedInv => LaunchedAsSigned
  BY DEF SignedInv, BaseInv, Knows, Backed, Holds, HoldsIn, LaunchedAsSigned
<1> QED
  BY <1>1, <1>2, <1>3, PTL DEF Spec

\* ---------------------------------------------------------- the audit log

Whole(lines) == \A i \in DOMAIN lines : lines[i] # Invalid

OneReader == \A c, d \in Commands : At(c, "read") /\ At(d, "read") => c = d

\* As long as no two appends have overlapped one command at most is between
\* the read and the append, and what it has read is still the last hash.
ChainInv ==
  /\ BaseInv
  /\ ~ overlapped => OneReader
  /\ ~ overlapped /\ Whole(log) =>
       Intact(log) /\ \A c \in Commands : At(c, "read") => command[c].previous = LastHash

\* A step that leaves the log alone and brings nobody to its append.
LEMMA QuietChain ==
  ASSUME ChainInv, BaseInv', UNCHANGED <<log, overlapped>>,
         \A c \in Commands : command'[c].pc = "read" =>
           command[c].pc = "read" /\ command'[c].previous = command[c].previous
  PROVE  ChainInv'
<1>1. ~ overlapped => OneReader'
  BY DEF ChainInv, OneReader, At
<1>2. ~ overlapped /\ Whole(log) =>
        Intact(log) /\ \A c \in Commands : At(c, "read")' => command'[c].previous = LastHash
  BY DEF ChainInv, At
<1> QED
  BY <1>1, <1>2 DEF ChainInv, Whole, Intact, LastHash

\* A step to another place than the append adds no reader.
LEMMA GotoReads ==
  ASSUME BaseInv, NEW c \in Commands, NEW pc, Goto(c, pc), pc # "read"
  PROVE  /\ ~ At(c, "read")'
         /\ \A d \in Commands : command'[d].pc = "read" =>
              command[d].pc = "read" /\ command'[d].previous = command[d].previous
BY DEF Goto, At, BaseInv, TypeOK, CommandType

\* The steps of a runner are far from the log.
LEMMA ExecuteChain ==
  ASSUME ChainInv, BaseInv', NEW c \in Commands, Execute(c)
  PROVE  ChainInv'
<1>0. BaseInv /\ command \in [Commands -> CommandType] /\ command[c] \in CommandType
  BY DEF ChainInv, BaseInv, TypeOK
<1>1. UNCHANGED <<log, overlapped>>
  BY DEF Execute, Validate, Hash, Authorize, Refuse, Launch, WriteReport, ExitWithoutReport,
         Collect, files, world
<1>2. CASE \E pc \in {"validated", "authorized", "exited", "collected", "done", "raised"} :
             Goto(c, pc)
  BY <1>0, <1>1, <1>2, GotoReads, QuietChain
<1>3. CASE Hash(c) \/ Launch(c)
  <2>1. command'[c].pc \in {"hashed", "running"} /\ \A d \in Commands \ {c} : command'[d] = command[d]
    BY <1>0, <1>3 DEF Hash, Launch, CommandType
  <2> QED
    BY <1>1, <2>1, QuietChain
<1> QED
  BY <1>2, <1>3 DEF Execute, Validate, Authorize, Refuse, WriteReport, ExitWithoutReport, Collect

\* The record of the only reader continues the last one.
LEMMA AppendChains ==
  ASSUME ChainInv, BaseInv', NEW c \in Commands, AppendRecord(c)
  PROVE  ChainInv'
<1>0. /\ BaseInv /\ Goto(c, "done") /\ At(c, "read") /\ UNCHANGED overlapped
      /\ log \in Seq(RecordType \cup {Invalid})
  BY DEF ChainInv, BaseInv, TypeOK, AppendRecord, world
<1>1. CASE UNCHANGED log
  BY <1>0, <1>1, GotoReads, QuietChain
<1>2. CASE log' = Append(log, RecordOf(c))
  <2>1. ~ overlapped => OneReader'
    BY <1>0, GotoReads DEF ChainInv, OneReader, At
  <2>2. ASSUME ~ overlapped
        PROVE  \A d \in Commands : ~ At(d, "read")'
    BY <1>0, <2>2, GotoReads DEF ChainInv, OneReader, At
  <2>3. ASSUME ~ overlapped, Whole(log')
        PROVE  Intact(log')
    <3> DEFINE record == RecordOf(c)
               n == Len(log)
    <3>1. n \in Nat /\ DOMAIN log = 1..n /\ DOMAIN log' = 1..(n + 1)
      BY <1>0, <1>2
    <3>2. \A i \in 1..n : log'[i] = log[i]
      BY <1>0, <1>2, <3>1
    <3>3. log'[n + 1] = record
      BY <1>0, <1>2
    <3>4. Whole(log)
      BY <2>3, <3>1, <3>2 DEF Whole
    <3>5. Intact(log) /\ command[c].previous = LastHash
      BY <1>0, <2>3, <3>4 DEF ChainInv
    <3>6. /\ record.previous = LastHash
          /\ record.hash = RecordHash(record.previous, record.assessment)
      BY <1>0, <3>5, RecordOfTyped
    <3>7. LastHash = (IF n + 1 = 1 THEN Genesis ELSE log[n].hash)
      BY <1>0, <3>1 DEF LastHash
    <3> HIDE DEF record, n
    <3>8. ASSUME NEW i \in 1..(n + 1)
          PROVE  /\ log'[i] # Invalid
                 /\ log'[i].previous = IF i = 1 THEN Genesis ELSE log'[i - 1].hash
                 /\ log'[i].hash = RecordHash(log'[i].previous, log'[i].assessment)
      <4>1. log'[i] # Invalid
        BY <2>3, <3>1 DEF Whole
      <4>2. CASE i \in 1..n
        BY <3>1, <3>2, <3>5, <4>1, <4>2 DEF Intact
      <4>3. CASE i = n + 1
        BY <3>1, <3>2, <3>3, <3>6, <3>7, <4>1, <4>3
      <4> QED
        BY <3>1, <4>2, <4>3
    <3> QED
      BY <3>1, <3>8 DEF Intact
  <2> QED
    BY <1>0, <2>1, <2>2, <2>3 DEF ChainInv
<1> QED
  BY <1>1, <1>2 DEF AppendRecord

\* A second reader is an overlap; a lone one reads the last hash.
LEMMA AssessChain ==
  ASSUME ChainInv, BaseInv', NEW c \in Commands, Assess(c)
  PROVE  ChainInv'
<1>0. BaseInv /\ command \in [Commands -> CommandType] /\ command[c] \in CommandType
  BY DEF ChainInv, BaseInv, TypeOK
<1>1. CASE AppendRecord(c)
  BY <1>1, AppendChains
<1>2. CASE Ingest(c) \/ WriteEvidence(c) \/ ReadResults(c)
  <2>1. UNCHANGED <<log, overlapped>>
    BY <1>2 DEF Ingest, WriteEvidence, Keeps, ReadResults, files, world
  <2>2. CASE \E pc \in {"assessed", "raised"} : Goto(c, pc)
    BY <1>0, <2>1, <2>2, GotoReads, QuietChain
  <2>3. CASE Ingest(c) /\ ~ Goto(c, "raised")
    <3>1. command'[c].pc = "ingested" /\ \A d \in Commands \ {c} : command'[d] = command[d]
      BY <1>0, <2>3 DEF Ingest, CommandType
    <3> QED
      BY <2>1, <3>1, QuietChain
  <2>4. CASE ReadResults(c) /\ ~ Goto(c, "raised")
    <3>1. command'[c].pc = "assessed" /\ \A d \in Commands \ {c} : command'[d] = command[d]
      BY <1>0, <2>4 DEF ReadResults, CommandType
    <3> QED
      BY <2>1, <3>1, QuietChain
  <2> QED
    BY <1>2, <2>2, <2>3, <2>4 DEF WriteEvidence, Keeps
<1>3. CASE ReadLast(c)
  <2>1. UNCHANGED log
    BY <1>3 DEF ReadLast, files
  <2>2. CASE Intact(log)
    <3>1. /\ command' = [command EXCEPT ![c].pc = "read", ![c].previous = LastHash]
          /\ overlapped' = (overlapped \/ \E d \in Commands : At(d, "read"))
      BY <1>3, <2>2 DEF ReadLast
    <3>2. command'[c].previous = LastHash /\ \A d \in Commands \ {c} : command'[d] = command[d]
      BY <1>0, <3>1 DEF CommandType
    <3>3. ~ overlapped' => \A d \in Commands \ {c} : ~ At(d, "read")'
      BY <3>1, <3>2 DEF At
    <3>4. ~ overlapped' => \A d \in Commands : At(d, "read")' => command'[d].previous = LastHash'
      BY <2>1, <3>2, <3>3 DEF LastHash
    <3>5. Intact(log')
      BY <2>1, <2>2
    <3> QED
      BY <3>3, <3>4, <3>5 DEF ChainInv, OneReader
  <2>3. CASE ~ Intact(log)
    <3>1. Goto(c, "raised") /\ UNCHANGED overlapped
      BY <1>3, <2>3 DEF ReadLast
    <3> QED
      BY <1>0, <2>1, <3>1, GotoReads, QuietChain
  <2> QED
    BY <2>2, <2>3
<1> QED
  BY <1>1, <1>2, <1>3 DEF Assess

\* The faults: a torn line is not whole, and the others leave the log.
LEMMA FailChain ==
  ASSUME ChainInv, BaseInv', NEW c \in Commands, Fail(c)
  PROVE  ChainInv'
<1>0. BaseInv /\ log \in Seq(RecordType \cup {Invalid})
  BY DEF ChainInv, BaseInv, TypeOK
<1>1. Goto(c, "raised") /\ UNCHANGED overlapped
  BY DEF Fail, LoseClaim, KillTests, Crash, TearRecord
<1>2. CASE UNCHANGED log
  BY <1>0, <1>1, <1>2, GotoReads, QuietChain
<1>3. CASE log' = Append(log, Invalid)
  <2>1. ~ Whole(log')
    <3>1. Len(log) + 1 \in DOMAIN log' /\ log'[Len(log) + 1] = Invalid
      BY <1>0, <1>3
    <3> QED
      BY <3>1 DEF Whole
  <2>2. ~ overlapped' => OneReader'
    BY <1>0, <1>1, GotoReads DEF ChainInv, OneReader, At
  <2> QED
    BY <2>1, <2>2 DEF ChainInv
<1> QED
  BY <1>2, <1>3 DEF Fail, LoseClaim, KillTests, Crash, TearRecord, files

\* Signatures and edits are far from the log.
LEMMA EditChain ==
  ASSUME ChainInv, BaseInv', Edit
  PROVE  ChainInv'
<1>1. UNCHANGED <<log, overlapped>>
  BY DEF Edit, files
<1>2. ASSUME NEW c \in Commands
      PROVE  command'[c].pc = command[c].pc /\ command'[c].previous = command[c].previous
  BY DEF Edit, CommandType, ChainInv, BaseInv, TypeOK
<1> QED
  BY <1>1, <1>2, QuietChain

\* The log is empty at the start.
LEMMA ChainInit ==
  ASSUME Init
  PROVE  ChainInv
<1>1. \A c \in Commands : ~ At(c, "read")
  BY DEF Init, At
<1>2. Intact(log)
  BY DEF Init, Intact
<1> QED
  BY <1>1, <1>2, BaseInit DEF ChainInv, OneReader

\* Every step keeps the chain of the appends that do not overlap.
LEMMA ChainStep ==
  ASSUME ChainInv, [Next]_vars
  PROVE  ChainInv'
<1>1. BaseInv'
  BY BaseStep DEF ChainInv
<1>2. CASE UNCHANGED vars
  BY <1>1, <1>2, QuietChain DEF vars, files, world
<1>3. CASE Next
  <2>1. CASE \E a \in Approvals : Sign(a)
    BY <1>1, <2>1, QuietChain DEF Sign, files, world
  <2> QED
    BY <1>1, <1>3, <2>1, ExecuteChain, AssessChain, FailChain, EditChain DEF Next
<1> QED
  BY <1>2, <1>3

\* Appends that do not overlap and are not torn leave a log that verifies.
THEOREM AppendsChain == Spec => []SerialAppendsChain
<1>1. Init => ChainInv
  BY ChainInit
<1>2. ChainInv /\ [Next]_vars => ChainInv'
  BY ChainStep
<1>3. ChainInv => SerialAppendsChain
  BY DEF ChainInv, SerialAppendsChain, Whole
<1> QED
  BY <1>1, <1>2, <1>3, PTL DEF Spec

\* ------------------------------------------------------ what a release rests on

\* The counts of command c are those of a file, and a result that can be assessed.
Backs(c, file, counts) ==
  /\ file \in FileType /\ file.report # Invalid
  /\ Represents(counts, file.report)
  /\ ValidResult(counts, request[c].required, request[c].covered)

\* The report that an ingestion has normalized backs its counts from then on, and
\* from the evidence on there is something in the evidence file.
Evident(c, e, kept) ==
  /\ e.pc = "ingested" => request[c].kind # "assess"
  /\ request[c].kind # "assess" =>
    /\ e.pc \in {"ingested", "assessed", "read"} => Backs(c, e.source, e.counts)
    /\ e.pc \in {"assessed", "read"} => kept # None

\* Past the evidence a command normalizes no more.
Past(e) == e.pc \in {"assessed", "read", "done", "raised"}

\* The evidence at an output is that of a command that writes there.
Kept(o) ==
  \E d \in Commands :
    /\ request[d].evidence = o /\ request[d].kind # "assess"
    /\ Past(command[d]) /\ evidenceFile[o] = Evidence(d)

\* The release of command c is earned, and there is evidence for it.
Supported(c, e, kept) == Earned(e.source.report, request[c].required, request[c].covered) /\ kept # None

\* A line of the log is of a command that is done, and its release is earned.
Settled(line) ==
  LET c == line.assessment.run IN
  /\ command[c].pc = "done"
  /\ line.assessment.decision = "RELEASE" /\ request[c].kind # "assess"
       => Supported(c, command[c], evidenceFile[request[c].evidence])

\* The inductive invariant of ReleasesEarned.
EarnInv ==
  /\ BaseInv
  /\ \A c \in Commands : Evident(c, command[c], evidenceFile[request[c].evidence])
  /\ \A o \in Outputs : evidenceFile[o] # None => Kept(o)
  /\ \A i \in DOMAIN log : log[i] # Invalid => Settled(log[i])

\* A RELEASE of counts that a report backs is earned by the report.
LEMMA ReportEarns ==
  ASSUME BaseInv, NEW c \in Commands, NEW file, NEW counts, Backs(c, file, counts),
         Decision(counts, request[c].required, request[c].covered) = "RELEASE"
  PROVE  Earned(file.report, request[c].required, request[c].covered)
<1> DEFINE report == file.report
           required == request[c].required
           covered == request[c].covered
<1>1. /\ counts \in CountsType /\ ValidResult(counts, required, covered)
      /\ required \in Nat \ {0} /\ covered \in Nat /\ report # Invalid
  BY RequestsTyped DEF Backs, Represents
<1>2. /\ counts.passed + counts.failed = Executed(report) /\ counts.failed = NotPassed(report)
      /\ counts.critical = 0 =>
           /\ report.errors = 0
           /\ \A i \in DOMAIN report.tests : report.tests[i].marked =>
                report.tests[i].status \in {"passed", "expected", "skipped"}
  BY DEF Backs, Represents
<1>3. /\ counts.critical = 0
      /\ 2 * (70 * counts.failed * required
                + 30 * (required - covered) * (counts.passed + counts.failed))
           <= 21 * (counts.passed + counts.failed) * required
  BY <1>1, ReleaseCosts
<1>4. 2 * (70 * NotPassed(report) * required + 30 * (required - covered) * Executed(report))
        <= 21 * Executed(report) * required
  BY <1>2, <1>3
<1> QED
  BY <1>1, <1>2, <1>3, <1>4 DEF Earned

\* A whole line names its command.
LEMMA LineTyped ==
  ASSUME BaseInv, NEW i \in DOMAIN log, log[i] # Invalid
  PROVE  log[i].assessment.run \in Commands
BY DEF BaseInv, TypeOK, RecordType, AssessmentType

\* The output of a request.
LEMMA OutputTyped ==
  ASSUME BaseInv, NEW c \in Commands
  PROVE  request[c].evidence \in Outputs
BY RequestsTyped DEF RequestType

\* A step of command c, which is not done, keeps the invariant if c's own counts,
\* the evidence and the lines that it adds are in order.
LEMMA EarnStep ==
  ASSUME EarnInv, BaseInv', UNCHANGED request,
         NEW c \in Commands, NEW new, command' = [command EXCEPT ![c] = new],
         command[c].pc \notin {"done", "raised"},
         Past(command[c]) => Past(new) /\ new.source = command[c].source,
         \A o \in Outputs :
           \/ evidenceFile'[o] = evidenceFile[o]
           \/ /\ o = request[c].evidence /\ request[c].kind # "assess" /\ Past(new)
              /\ evidenceFile'[o] = [run |-> c, file |-> new.source] /\ evidenceFile'[o] # None,
         Evident(c, new, evidenceFile'[request[c].evidence]),
         \A i \in DOMAIN log' : log'[i] # Invalid =>
           \/ i \in DOMAIN log /\ log'[i] = log[i]
           \/ /\ log'[i].assessment.run = c /\ new.pc = "done"
              /\ log'[i].assessment.decision = "RELEASE" /\ request[c].kind # "assess"
                   => Supported(c, new, evidenceFile'[request[c].evidence])
  PROVE  EarnInv'
<1>1. /\ command'[c] = new /\ \A d \in Commands \ {c} : command'[d] = command[d]
      /\ BaseInv
  BY DEF EarnInv, BaseInv, TypeOK
<1>2. \A o \in Outputs : evidenceFile[o] # None => evidenceFile'[o] # None
  OBVIOUS
<1>3. ASSUME NEW d \in Commands
      PROVE  Evident(d, command[d], evidenceFile[request[d].evidence])'
  <2>1. Evident(d, command'[d], evidenceFile'[request[d].evidence])
    <3>1. CASE d = c
      BY <1>1, <3>1
    <3>2. CASE d # c
      <4>1. Evident(d, command[d], evidenceFile[request[d].evidence])
        BY DEF EarnInv
      <4>2. request[d].evidence \in Outputs /\ command'[d] = command[d]
        BY <1>1, <3>2, OutputTyped
      <4> QED
        BY <1>2, <4>1, <4>2 DEF Evident
    <3> QED
      BY <3>1, <3>2
  <2> QED
    BY <2>1 DEF Evident, Backs
<1>4. ASSUME NEW o \in Outputs, evidenceFile'[o] # None PROVE Kept(o)'
  <2>1. CASE evidenceFile'[o] = evidenceFile[o]
    <3>1. PICK d \in Commands :
            /\ request[d].evidence = o /\ request[d].kind # "assess"
            /\ Past(command[d]) /\ evidenceFile[o] = Evidence(d)
      BY <1>4, <2>1 DEF EarnInv, Kept
    <3>2. Past(command'[d]) /\ command'[d].source = command[d].source
      BY <1>1, <3>1
    <3>3. evidenceFile'[o] = [run |-> d, file |-> command'[d].source]
      BY <2>1, <3>1, <3>2 DEF Evidence
    <3> QED
      BY <3>1, <3>2, <3>3 DEF Kept, Past, Evidence
  <2>2. CASE /\ o = request[c].evidence /\ request[c].kind # "assess" /\ Past(new)
             /\ evidenceFile'[o] = [run |-> c, file |-> new.source]
    BY <1>1, <2>2 DEF Kept, Past, Evidence
  <2> QED
    BY <2>1, <2>2
<1>5. ASSUME NEW i \in DOMAIN log', log'[i] # Invalid PROVE Settled(log[i])'
  <2>1. CASE i \in DOMAIN log /\ log'[i] = log[i]
    <3> DEFINE d == log[i].assessment.run
    <3>1. d \in Commands /\ Settled(log[i])
      BY <1>1, <1>5, <2>1, LineTyped DEF EarnInv
    <3>2. d # c
      BY <3>1 DEF Settled
    <3>3. command'[d] = command[d] /\ request[d].evidence \in Outputs
      BY <1>1, <3>1, <3>2, OutputTyped
    <3> QED
      BY <1>2, <2>1, <3>1, <3>3 DEF Settled, Supported
  <2>2. CASE /\ log'[i].assessment.run = c /\ new.pc = "done"
             /\ log'[i].assessment.decision = "RELEASE" /\ request[c].kind # "assess"
                  => Supported(c, new, evidenceFile'[request[c].evidence])
    BY <1>1, <2>2 DEF Settled, Supported
  <2> QED
    BY <1>5, <2>1, <2>2
<1> QED
  BY <1>3, <1>4, <1>5 DEF EarnInv

\* A step to a phase without counts, which may tear a line.
LEMMA GotoEarns ==
  ASSUME EarnInv, BaseInv', UNCHANGED <<request, evidenceFile>>,
         NEW c \in Commands, NEW pc, Goto(c, pc), command[c].pc \notin {"done", "raised"},
         pc \notin {"ingested", "assessed", "read"},
         Past(command[c]) => pc \in {"done", "raised"},
         log' = log \/ log' = Append(log, Invalid)
  PROVE  EarnInv'
<1> DEFINE new == [command[c] EXCEPT !.pc = pc]
<1>0. command[c] \in CommandType /\ log \in Seq(RecordType \cup {Invalid})
  BY DEF EarnInv, BaseInv, TypeOK
<1>1. new.pc = pc /\ new.source = command[c].source
  BY <1>0 DEF CommandType
<1>2. command' = [command EXCEPT ![c] = new]
  BY DEF Goto
<1> HIDE DEF new
<1>3. \A i \in DOMAIN log' : log'[i] # Invalid => i \in DOMAIN log /\ log'[i] = log[i]
  BY <1>0
<1>4. Evident(c, new, evidenceFile'[request[c].evidence])
  BY <1>1 DEF Evident
<1>5. Past(command[c]) => Past(new) /\ new.source = command[c].source
  BY <1>1 DEF Past
<1> QED
  BY <1>2, <1>3, <1>4, <1>5, EarnStep

\* The steps of a runner leave evidence and lines alone.
LEMMA ExecuteEarns ==
  ASSUME EarnInv, BaseInv', NEW c \in Commands, Execute(c)
  PROVE  EarnInv'
<1>0. BaseInv /\ command \in [Commands -> CommandType] /\ command[c] \in CommandType
  BY DEF EarnInv, BaseInv, TypeOK
<1>1. /\ UNCHANGED <<request, evidenceFile, log>>
      /\ ~ Past(command[c]) /\ command[c].pc \notin {"done", "raised"}
  BY DEF Execute, Validate, Hash, Authorize, Refuse, Launch, WriteReport, ExitWithoutReport,
         Collect, files, At, Past
<1>2. CASE \E pc \in {"validated", "authorized", "exited", "collected", "done", "raised"} :
             Goto(c, pc)
  BY <1>0, <1>1, <1>2, GotoEarns
<1>3. CASE Hash(c) \/ Launch(c)
  <2> DEFINE new == command'[c]
  <2>1. command' = [command EXCEPT ![c] = new] /\ new.pc \in {"hashed", "running"}
    <3>1. CASE Hash(c)
      BY <1>0, <3>1 DEF Hash, CommandType
    <3>2. CASE Launch(c)
      BY <1>0, <3>2 DEF Launch, CommandType
    <3> QED
      BY <1>3, <3>1, <3>2
  <2> HIDE DEF new
  <2>2. Evident(c, new, evidenceFile'[request[c].evidence])
    BY <2>1 DEF Evident
  <2> QED
    BY <1>1, <2>1, <2>2, EarnStep
<1> QED
  BY <1>2, <1>3 DEF Execute, Validate, Authorize, Refuse, WriteReport, ExitWithoutReport, Collect

\* The steps from the ingestion on: evidence before assessment before line.
LEMMA AssessEarns ==
  ASSUME EarnInv, BaseInv', NEW c \in Commands, Assess(c)
  PROVE  EarnInv'
<1> DEFINE o == request[c].evidence
<1>0. /\ BaseInv /\ command \in [Commands -> CommandType] /\ command[c] \in CommandType
      /\ evidenceFile \in [Outputs -> EvidenceType \cup {None}] /\ o \in Outputs
      /\ Evident(c, command[c], evidenceFile[o]) /\ log \in Seq(RecordType \cup {Invalid})
  BY OutputTyped DEF EarnInv, BaseInv, TypeOK
<1>1. UNCHANGED request /\ command[c].pc \notin {"done", "raised"}
  BY DEF Assess, Ingest, WriteEvidence, Keeps, ReadResults, ReadLast, AppendRecord, At
<1>2. CASE Ingest(c)
  <2>1. UNCHANGED <<evidenceFile, log>> /\ ~ Past(command[c])
    BY <1>2 DEF Ingest, files, At, Past
  <2>2. CASE Goto(c, "raised")
    BY <1>1, <2>1, <2>2, GotoEarns
  <2>3. CASE ~ Goto(c, "raised")
    <3> DEFINE counts == Normalized(c)
               source == reportFile[request[c].path]
               new == [command[c] EXCEPT !.pc = "ingested", !.counts = counts, !.source = source]
    <3>1. /\ counts # Invalid /\ command' = [command EXCEPT ![c] = new]
          /\ ValidResult(counts, request[c].required, request[c].covered)
      BY <1>0, <1>2, <2>3 DEF Ingest
    <3>2. Backs(c, source, counts)
      BY <1>0, <3>1, NormalizedRepresents DEF Backs
    <3> HIDE DEF counts, source
    <3>3. new.pc = "ingested" /\ new.counts = counts /\ new.source = source
      BY <1>0 DEF CommandType
    <3> HIDE DEF new
    <3>4. Evident(c, new, evidenceFile'[o])
      BY <1>2, <3>2, <3>3 DEF Evident, Ingest, Runs
    <3> QED
      BY <1>1, <2>1, <3>1, <3>4, EarnStep
  <2> QED
    BY <2>2, <2>3
<1>3. CASE WriteEvidence(c)
  <2> DEFINE new == [command[c] EXCEPT !.pc = "assessed"]
  <2>1. /\ command' = [command EXCEPT ![c] = new] /\ command[c].pc = "ingested" /\ UNCHANGED log
        /\ request[c].kind # "assess"
    BY <1>0, <1>3 DEF WriteEvidence, Keeps, Goto, At, Evident
  <2>2. new.pc = "assessed" /\ new.counts = command[c].counts /\ new.source = command[c].source
    BY <1>0 DEF CommandType
  <2> HIDE DEF new
  <2>3. Evidence(c) \in EvidenceType /\ Evidence(c) # None
    BY <1>0, <2>1, RunnerAssumption DEF Evident, Backs, Evidence, EvidenceType
  <2>4. /\ evidenceFile'[o] = [run |-> c, file |-> new.source] /\ evidenceFile'[o] # None
        /\ \A p \in Outputs \ {o} : evidenceFile'[p] = evidenceFile[p]
    BY <1>0, <1>3, <2>2, <2>3 DEF WriteEvidence, Keeps, Evidence
  <2>5. Evident(c, new, evidenceFile'[o])
    BY <1>0, <2>1, <2>2, <2>4 DEF Evident
  <2>6. Past(new) /\ ~ Past(command[c])
    BY <2>1, <2>2 DEF Past
  <2> QED
    BY <1>1, <2>1, <2>4, <2>5, <2>6, EarnStep
<1>4. CASE ReadResults(c)
  <2>1. UNCHANGED <<evidenceFile, log>> /\ request[c].kind = "assess" /\ ~ Past(command[c])
    BY <1>4 DEF ReadResults, files, At, Past
  <2>2. CASE Goto(c, "raised")
    BY <1>1, <2>1, <2>2, GotoEarns
  <2>3. CASE ~ Goto(c, "raised")
    <3> DEFINE new == [command[c] EXCEPT !.pc = "assessed", !.counts = request[c].counts]
    <3>1. command' = [command EXCEPT ![c] = new]
      BY <1>0, <1>4, <2>3 DEF ReadResults
    <3>2. new.pc = "assessed"
      BY <1>0 DEF CommandType
    <3> HIDE DEF new
    <3>3. Evident(c, new, evidenceFile'[o])
      BY <2>1, <3>2 DEF Evident
    <3> QED
      BY <1>1, <2>1, <3>1, <3>3, EarnStep
  <2> QED
    BY <2>2, <2>3
<1>5. CASE ReadLast(c)
  <2>1. UNCHANGED <<evidenceFile, log>> /\ command[c].pc = "assessed"
    BY <1>5 DEF ReadLast, files, At
  <2>2. CASE Goto(c, "raised")
    BY <1>1, <2>1, <2>2, GotoEarns
  <2>3. CASE ~ Goto(c, "raised")
    <3> DEFINE new == [command[c] EXCEPT !.pc = "read", !.previous = LastHash]
    <3>1. command' = [command EXCEPT ![c] = new]
      BY <1>0, <1>5, <2>3 DEF ReadLast
    <3> HIDE DEF LastHash
    <3>2. new.pc = "read" /\ new.counts = command[c].counts /\ new.source = command[c].source
      BY <1>0 DEF CommandType
    <3> HIDE DEF new
    <3>3. Evident(c, new, evidenceFile'[o]) /\ Past(new)
      BY <1>0, <2>1, <3>2 DEF Evident, Past
    <3> QED
      BY <1>1, <2>1, <3>1, <3>2, <3>3, EarnStep
  <2> QED
    BY <2>2, <2>3
<1>6. CASE AppendRecord(c)
  <2> DEFINE new == [command[c] EXCEPT !.pc = "done"]
  <2>1. /\ command' = [command EXCEPT ![c] = new] /\ At(c, "read") /\ command[c].pc = "read"
        /\ UNCHANGED evidenceFile
    BY <1>0, <1>6 DEF AppendRecord, Goto, At
  <2>2. new.pc = "done" /\ new.source = command[c].source
    BY <1>0 DEF CommandType
  <2> HIDE DEF new
  <2>3. request[c].kind # "assess" =>
          Backs(c, command[c].source, command[c].counts) /\ evidenceFile[o] # None
    BY <1>0, <2>1 DEF Evident
  <2>4. /\ RecordOf(c).assessment.run = c
        /\ RecordOf(c).assessment.decision = "RELEASE" =>
             Decision(command[c].counts, request[c].required, request[c].covered) = "RELEASE"
    BY DEF RecordOf
  <2>5. RecordOf(c).assessment.decision = "RELEASE" /\ request[c].kind # "assess"
          => Supported(c, new, evidenceFile'[o])
    BY <1>0, <2>1, <2>2, <2>3, <2>4, ReportEarns DEF Supported
  <2>6. ASSUME NEW i \in DOMAIN log', log'[i] # Invalid
        PROVE  (i \in DOMAIN log /\ log'[i] = log[i]) \/ log'[i] = RecordOf(c)
    <3>1. log' = log \/ log' = Append(log, RecordOf(c))
      BY <1>6 DEF AppendRecord
    <3> QED
      BY <1>0, <2>6, <3>1
  <2>7. Evident(c, new, evidenceFile'[o]) /\ Past(new)
    BY <2>2 DEF Evident, Past
  <2>8. \A i \in DOMAIN log' : log'[i] # Invalid =>
          \/ i \in DOMAIN log /\ log'[i] = log[i]
          \/ /\ log'[i].assessment.run = c /\ new.pc = "done"
             /\ log'[i].assessment.decision = "RELEASE" /\ request[c].kind # "assess"
                  => Supported(c, new, evidenceFile'[o])
    BY <2>2, <2>4, <2>5, <2>6
  <2> QED
    BY <1>1, <2>1, <2>2, <2>7, <2>8, EarnStep
<1> QED
  BY <1>2, <1>3, <1>4, <1>5, <1>6 DEF Assess

\* The faults: who fails leaves its evidence, and half a line is no line.
LEMMA FailEarns ==
  ASSUME EarnInv, BaseInv', NEW c \in Commands, Fail(c)
  PROVE  EarnInv'
<1>1. /\ UNCHANGED <<request, evidenceFile>> /\ Goto(c, "raised")
      /\ command[c].pc \notin {"done", "raised"}
      /\ log' = log \/ log' = Append(log, Invalid)
  BY DEF Fail, LoseClaim, KillTests, Crash, TearRecord, files, At, Ended
<1> QED
  BY <1>1, GotoEarns

\* What the edits and the approver do is not about the counts.
LEMMA OutsideEarns ==
  ASSUME EarnInv, BaseInv', UNCHANGED <<request, evidenceFile, log>>,
         \A c \in Commands : /\ command'[c].pc = command[c].pc
                             /\ command'[c].source = command[c].source
                             /\ command'[c].counts = command[c].counts
  PROVE  EarnInv'
<1>1. \A c \in Commands : Evident(c, command[c], evidenceFile[request[c].evidence])'
  BY DEF EarnInv, Evident, Backs
<1>2. ASSUME NEW i \in DOMAIN log, log[i] # Invalid PROVE Settled(log[i])'
  <2>1. Settled(log[i]) /\ log[i].assessment.run \in Commands
    BY <1>2, LineTyped DEF EarnInv
  <2> QED
    BY <2>1 DEF Settled, Supported
<1>3. ASSUME NEW o \in Outputs, evidenceFile[o] # None PROVE Kept(o)'
  <2>1. Kept(o)
    BY <1>3 DEF EarnInv
  <2> QED
    BY <2>1 DEF Kept, Past, Evidence
<1> QED
  BY <1>1, <1>2, <1>3 DEF EarnInv

\* There is no evidence and no line at the start.
LEMMA EarnInit ==
  ASSUME Init
  PROVE  EarnInv
<1>1. \A c \in Commands : Evident(c, command[c], evidenceFile[request[c].evidence])
  BY DEF Init, Evident
<1>2. DOMAIN log = {} /\ \A o \in Outputs : evidenceFile[o] = None
  BY DEF Init
<1> QED
  BY <1>1, <1>2, BaseInit DEF EarnInv

\* Every step keeps the releases of the log earned.
LEMMA EarnInvStep ==
  ASSUME EarnInv, [Next]_vars
  PROVE  EarnInv'
<1>1. BaseInv'
  BY BaseStep DEF EarnInv
<1>2. CASE UNCHANGED vars
  BY <1>1, <1>2, OutsideEarns DEF vars, files
<1>3. CASE Next
  <2>1. CASE \E a \in Approvals : Sign(a)
    BY <1>1, <2>1, OutsideEarns DEF Sign, files
  <2>2. CASE Edit
    <3>1. UNCHANGED <<request, evidenceFile, log>>
      BY <2>2 DEF Edit, files
    <3>2. ASSUME NEW c \in Commands
          PROVE  /\ command'[c].pc = command[c].pc /\ command'[c].source = command[c].source
                 /\ command'[c].counts = command[c].counts
      BY <2>2 DEF Edit, CommandType, EarnInv, BaseInv, TypeOK
    <3> QED
      BY <1>1, <3>1, <3>2, OutsideEarns
  <2> QED
    BY <1>1, <1>3, <2>1, <2>2, ExecuteEarns, AssessEarns, FailEarns DEF Next
<1> QED
  BY <1>2, <1>3

\* Every RELEASE that an ingestion logs was earned by the report that it normalized,
\* for reports of any length and form, any requirement counts and any workload; and
\* its evidence file identifies the report of a command that writes there.
THEOREM ReleasesEarned == Spec => []ReleaseIsEarned
<1>1. Init => EarnInv
  BY EarnInit
<1>2. EarnInv /\ [Next]_vars => EarnInv'
  BY EarnInvStep
<1>3. EarnInv => ReleaseIsEarned
  <2> SUFFICES ASSUME EarnInv, NEW i \in DOMAIN log, log[i] # Invalid,
                      log[i].assessment.decision = "RELEASE",
                      request[log[i].assessment.run].kind # "assess"
               PROVE  LET c == log[i].assessment.run IN
                      /\ Earned(command[c].source.report, request[c].required, request[c].covered)
                      /\ \E d \in Sharing(c) : evidenceFile[request[c].evidence] = Evidence(d)
    BY DEF ReleaseIsEarned
  <2> DEFINE c == log[i].assessment.run
  <2>1. c \in Commands /\ request[c].evidence \in Outputs
    BY LineTyped, OutputTyped DEF EarnInv
  <2>2. Supported(c, command[c], evidenceFile[request[c].evidence])
    BY DEF EarnInv, Settled
  <2>3. Kept(request[c].evidence)
    BY <2>1, <2>2 DEF EarnInv, Supported
  <2> QED
    BY <2>2, <2>3 DEF Supported, Kept, Sharing
<1> QED
  BY <1>1, <1>2, <1>3, PTL DEF Spec
=============================================================================
