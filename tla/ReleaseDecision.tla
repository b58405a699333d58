--------------------------- MODULE ReleaseDecision ---------------------------
(***************************************************************************)
(* From a test report to a release decision: ingest_pytest_report          *)
(* (pytest_ingest.py), ingest_playwright_report (playwright_ingest.py) and *)
(* assess_release (confidence.py) with the default ConfidencePolicy.       *)
(*                                                                         *)
(* A test is its status and whether its identifier contains one of the     *)
(* request's critical markers.  The tests of nested Playwright suites are  *)
(* one sequence.  Rates are exact fractions here and floats in the code.   *)
(***************************************************************************)
EXTENDS Integers, Sequences, FiniteSets

CONSTANT Invalid  \* no report, no declared counts, or a ValueError

PytestStatuses == {"passed", "failed", "skipped"}
PlaywrightStatuses == {"expected", "unexpected", "flaky", "skipped"}

\* "declared" holds the keys that are there of a Pytest report's summary or of
\* a Playwright report's stats; "errors" counts the top-level errors, which only
\* a Playwright report has.
TestType == [status : PytestStatuses \cup PlaywrightStatuses \cup {"other"}, marked : BOOLEAN]
IsReport(report) ==
  /\ report.form \in {"pytest", "playwright"}
  /\ report.tests \in Seq(TestType)
  /\ report.errors \in Nat /\ (report.form = "pytest" => report.errors = 0)
  /\ report.declared # Invalid => \A key \in DOMAIN report.declared : report.declared[key] \in Nat

Having(report, statuses) == {i \in DOMAIN report.tests : report.tests[i].status \in statuses}
Count(report, status) == Cardinality(Having(report, {status}))
Marked(report, tests) == {i \in tests : report.tests[i].marked}

\* Every count that the report declares is the count of its tests.
Agrees(report, keys) ==
  \A key \in DOMAIN report.declared \cap keys :
    report.declared[key] = IF key = "total" THEN Len(report.tests) ELSE Count(report, key)

\* A report counts if all its tests have a known status and some were executed.
Countable(report, statuses, executed) ==
  /\ Having(report, statuses) = DOMAIN report.tests
  /\ executed > 0

\* The summary of a Pytest report may be missing.
IngestPytest(report) ==
  LET passed == Count(report, "passed")
      failing == Having(report, {"failed"})
  IN
  IF /\ Countable(report, PytestStatuses, passed + Cardinality(failing))
     /\ report.declared # Invalid => Agrees(report, PytestStatuses \cup {"total"})
  THEN [passed |-> passed, failed |-> Cardinality(failing),
        critical |-> Cardinality(Marked(report, failing))]
  ELSE Invalid

\* Defect: a flaky test counts as passed.
IngestPlaywrightLenient(report) ==
  LET passed == Count(report, "expected") + Count(report, "flaky")
      failing == Having(report, {"unexpected"})
  IN
  IF /\ Countable(report, PlaywrightStatuses, passed + Cardinality(failing) + report.errors)
     /\ report.declared # Invalid /\ Agrees(report, PlaywrightStatuses)
  THEN [passed |-> passed, failed |-> Cardinality(failing) + report.errors,
        critical |-> Cardinality(Marked(report, failing)) + report.errors]
  ELSE Invalid

\* A flaky test has failed; a top-level error is a critical failure.  The stats
\* of a Playwright report must be there; they have no total.
IngestPlaywright(report) ==
  LET passed == Count(report, "expected")
      failing == Having(report, {"unexpected", "flaky"})
  IN
  IF /\ Countable(report, PlaywrightStatuses, passed + Cardinality(failing) + report.errors)
     /\ report.declared # Invalid /\ Agrees(report, PlaywrightStatuses)
  THEN [passed |-> passed, failed |-> Cardinality(failing) + report.errors,
        critical |-> Cardinality(Marked(report, failing)) + report.errors]
  ELSE Invalid

-----------------------------------------------------------------------------
CountsType == [passed : Nat, failed : Nat, critical : Nat]

\* The model validator of TestRunResult.
ValidResult(counts, required, covered) ==
  /\ counts.passed + counts.failed > 0
  /\ counts.critical <= counts.failed
  /\ required > 0 /\ covered <= required

\* Python's round of the fraction n / d: half to even.
Rounded(n, d) ==
  LET down == n \div d
      rest == 2 * (n % d)
  IN  IF rest < d \/ (rest = d /\ down % 2 = 0) THEN down ELSE down + 1

TestWeight == 70
TraceabilityWeight == 30

Score(counts, required, covered) ==
  LET total == counts.passed + counts.failed IN
  Rounded(TestWeight * counts.passed * required + TraceabilityWeight * covered * total,
          total * required)

\* assess_release.
Decision(counts, required, covered) ==
  LET score == Score(counts, required, covered) IN
  CASE counts.critical > 0 -> "BLOCK"
    [] counts.critical = 0 /\ score >= 90 -> "RELEASE"
    [] counts.critical = 0 /\ score \in 70..89 -> "HUMAN_REVIEW"
    [] OTHER -> "BLOCK"
=============================================================================
