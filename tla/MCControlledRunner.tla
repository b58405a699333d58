------------------------- MODULE MCControlledRunner -------------------------
(* Three commands on two paths: one approval for two executions, an          *)
(* execution next to an ingestion and an assessment, and all without         *)
(* signatures; with evidence files of their own, and with one for two.       *)
EXTENDS ControlledRunner, TLC

CONSTANTS c1, c2, c3, a1, a2

Passed == [status |-> "passed", marked |-> FALSE]
Failed == [status |-> "failed", marked |-> FALSE]
Broken == [status |-> "failed", marked |-> TRUE]
Expected == [status |-> "expected", marked |-> FALSE]
Flaky == [status |-> "flaky", marked |-> TRUE]
Skipped == [status |-> "skipped", marked |-> TRUE]
Other == [status |-> "other", marked |-> FALSE]

NoCounts == [passed |-> 0, failed |-> 0, critical |-> 0]
Pytest(tests, declared) ==
  [form |-> "pytest", tests |-> tests, errors |-> 0, declared |-> declared]
Playwright(tests, errors, declared) ==
  [form |-> "playwright", tests |-> tests, errors |-> errors, declared |-> declared]

\* Six of seven are 86 %, which full traceability lifts to the rounded 90.
MostPass == <<Passed, Passed, Passed, Passed, Passed, Passed, Failed, Skipped>>

MCReports ==
  { Pytest(MostPass, "failed" :> 1 @@ "total" :> 8), Pytest(<<Passed, Broken>>, Invalid),
    Pytest(<<Passed>>, "passed" :> 2),
    Playwright(<<Expected, Skipped>>, 0, "expected" :> 1),
    Playwright(<<Expected, Flaky>>, 0, "flaky" :> 1), Playwright(<<Expected>>, 1, <<>>) }

MCInitialReports == {Pytest(MostPass, "failed" :> 1 @@ "total" :> 8)}

Old == [gate |-> TRUE, plan |-> "staging", tests |-> 1]
New == [gate |-> TRUE, plan |-> "staging", tests |-> 2]
Blocked == [gate |-> FALSE, plan |-> "staging", tests |-> 2]
MCArtifacts == {Old, New, Blocked}
MCInitialArtifacts == {Old}

Ask(kind, mode, approval, path, evidence, counts) ==
  [kind |-> kind, mode |-> mode, approval |-> approval, target |-> "staging", path |-> path,
   evidence |-> evidence, counts |-> counts, required |-> 5, covered |-> 5]

MCWorkloads ==
  { (c1 :> Ask("run-pytest", "signed", a1, "p", "e", NoCounts)) @@
    (c2 :> Ask("run-playwright", "signed", a1, "q", "f", NoCounts)) @@
    (c3 :> Ask("ingest-playwright", "signed", None, "q", "f", NoCounts)),
    (c1 :> Ask("run-pytest", "signed", a1, "p", "e", NoCounts)) @@
    (c2 :> Ask("run-pytest", "signed", a2, "p", "f", NoCounts)) @@
    (c3 :> Ask("assess", "signed", None, "p", "e", [passed |-> 9, failed |-> 2, critical |-> 0])),
    (c1 :> Ask("run-pytest", "local-development", None, "p", "e", NoCounts)) @@
    (c2 :> Ask("ingest-pytest", "local-development", None, "p", "e", NoCounts)) @@
    (c3 :> Ask("assess", "signed", None, "p", "e", [passed |-> 9, failed |-> 2, critical |-> 1])) }
=============================================================================
