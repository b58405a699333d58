# Formal verification of Specvora

TLA+ models of Specvora's governance core: the code that decides *who may do
what, once*, and that keeps the evidence of it in files, tables and ledgers.
The sources are under `src/specvora/` of the repository; every definition that
models code is traced to its lines in `PROJECT.json` ("map").

To run one of the checks: `tlc -workers 4 -config ReviewPortal.cfg MCReviewPortal.tla`.
To check the proofs: `tlapm ReviewPortal_proof.tla`.

## 1. The system

Specvora analyses an OpenAPI project, lets an AI propose test scenarios, has a
human review them, generates tests from what was accepted, runs those under a
signed approval, and turns the results into a release decision. Around this
pipeline stand governance services: signed approvals, portal login, OIDC trust
management and monitoring, audit and event export.

| Component | State | Operations | What is hard | Correct when |
|---|---|---|---|---|
| Signed approvals (`authorization`, `signed_approval`, `approval_ledger`) | SQLite table `consumed`, or Git tag references | authorize, verify, claim | concurrent claims; lost answers; expiry during a claim | one approval authorises at most one run, of the signed action; burned stays burned |
| Human review (`portal`, `proposal_review`, `repository`) | `reviews` table; proposal, decision, record and catalog files | register, preview, decide | concurrent requests without locks; inputs edited between two reads; partial failure | a REVIEWED row is authorised, backed by consistent files, and final |
| Promoted generation (`portal`, `promoted_generation`) | binding file, plan directory | generate | two requests with one plan ID; failures between two files | the gate opens for complete plans only; finished plans stay |
| OIDC trust (`oidc_trust_approval`, `oidc_trust`) | trust file, lock file, audit log, ledger | propose, apply, refresh | lock-file races, which depend on the file system; crash or error between replace and append | what an approved change trusts was approved by another person and is audited, or is a half-made change; the chain is intact; rotations overlap |
| AI proposals (`ai_proposals`) | proposal file | propose, validate | overwritten under the portal | only policy-ready proposals are promoted |
| Controlled runners (`runner`, `playwright_runner`, `policy`) | artifacts, report file | prepare, sign, execute | hash, consume, execute are separate steps; stale report; timeout | what runs is what was signed |
| Portal login (`portal_auth`, `portal_session_store`) | users file, sessions, TOTP counters, attempts | login, rotate, logout, recover | lost updates; replay; throttle races | a code or session is used as often as allowed |
| OIDC login (`oidc_flow`, `oidc`) | pending logins | begin, complete | replayed callback; expiry | one login per state |
| State service (`state_service`) | the session store, over HTTP; token trust file | the store's operations | lost replies, calls handled late, tokens rotated away | an item is given once; no session without its event |
| Monitor and cycle (`oidc_monitor`, `oidc_alert`, `oidc_cycle`) | lease, history | check, alert, run a cycle | a lease taken over; crash between steps; lost answers | one cycle within its lease; the history is truthful; problems are alerted |
| Export (`security_export`) | checkpoint file | export a batch | overlapping exporters; crash between acceptance and checkpoint | every event is delivered, in order, at least once |
| Assessment audit log (`audit`) | hash-chained file | append, verify | read and append are two steps; torn lines | one chain, or an error |
| Egress (`egress`) | none | allow or refuse a destination | address classes, redirects | refuses what is not listed |
| Ingestion and release (`pytest_ingest`, `playwright_ingest`, `confidence`, `combined_release`, `quality_gate`) | evidence files | normalize, score, decide | flaky tests, top-level errors, rounding; reports and evidence that others replace | a RELEASE is earned by the report that was normalized |
| Analysis and generation (`openapi`, `schema_resolver`, `data_cases`, ...) | none | transform documents | cyclic references | terminates, bounded |
| CLI and HTTP surface (`cli`, `main`, ...) | none | route | none of its own | |

The components meet in a few places: `authorize_action` is called by the review,
the runners and CI; the trust change consumes an approval directly; the
generation reads the files the review wrote; the runner reads the gate the
generation wrote; the monitor reads the trust file and the audit log that the
trust changes write; the exporter reads the events that the logins record. Requests, CLI processes and hosts share files, SQLite
databases and Git references, and nothing else: there is no global lock.

## 2. The modules

| Module | Models |
|---|---|
| `OneUseApproval` | The abstract promise of an approval: granted to one caller at most, or burned |
| `ApprovalLedger` | `authorize_action` in signed mode, `verify_approval`, `consume_approval`, `claim_github_reference` |
| `ReviewPortal` | `register_review`, `review_action`, `decide_review`, `review_and_promote`, the `reviews` table, over `OneUseApproval` |
| `PlanGeneration` | `generate_review_plan`, `generate_promoted`: the protocol on the binding file and the plan directory |
| `OidcTrustChange` | `apply_approved_oidc_trust_change` with its lock file and audit chain, over `OneUseApproval` |
| `PortalSession` | `authenticate`, `issue_session`, `verify_session`, logout, the administration commands, the transactional store, and the OIDC login |
| `ReleaseDecision` | `ingest_pytest_report`, `ingest_playwright_report`, `assess_release`, as operators on reports |
| `ControlledRunner` | the commands `run-pytest`, `run-playwright`, `ingest-*` and `assess`: both runners, the evidence and the audit log, over `ReleaseDecision` and `OneUseApproval` |
| `StateService` | `HttpPortalSessionStore` and `state_service` under the logins: calls, lost and late ones, token rotation |
| `AtLeastOnceDelivery` | The abstract promise of an export: in order, without a gap, at least once |
| `SecurityExport` | `export_security_events`, composed with `StateService`, whose logins record what it exports |
| `OidcCycle` | `run_oidc_monitor_cycle`, `monitor_oidc_trust`, `deliver_oidc_alert`, next to `refresh_oidc_trust` and the two steps of an approved trust change |
| `ApprovalLedger_proof`, `ReviewPortal_proof`, `OidcTrustChange_proof`, `PlanGeneration_proof`, `PortalSession_proof`, `ControlledRunner_proof`, `SecurityExport_proof`, `OidcCycle_proof` | Theorems and proofs |
| `MC*` | Instances for TLC |

`ReviewPortal`, `OidcTrustChange` and `ControlledRunner` instantiate
`OneUseApproval` where the code calls the ledger; `ApprovalLedger` is proved to implement `OneUseApproval`, so
neither repeats the ledger's own interleavings.

Operators whose comment begins with "Defect:" are not part of any
specification. They are plausible bugs of the definition they precede, and show
that the properties would notice them (`PROJECT.json`, "mutants").

### ApprovalLedger

A *run* is one execution of `authorize_action` and of the action behind it.
`Call` receives an envelope, `Verify` or `Refuse` perform every check that
precedes the ledger against the clock read at that moment, `Claim` is the insert
or the creation of the reference, `ClaimTaken` its rejection, `LedgerFails` an
error with or without the claim being recorded, `Crash` the death of the
process. A signature is valid when the key of the envelope is the trusted one;
a hash is the artifact it was computed from. `run[r].approval` remembers the
authority a run obtained, also after it died.

### ReviewPortal

Handlers are requests to decide a review, registrars requests to queue one. Each
step of `decide_review` that touches shared state is an action: `Lookup` (row),
`Build` (decision file absent, inputs unchanged, action), `Authorize`/`Refuse`
(ledger), `CreateDecision` (`open("x")`), `Promote` (every check of
`review_and_promote`, or the removal of the decision file when one fails),
`WriteRecord`, `WriteCatalog`, `CompleteReview` (conditional update). `Edit`
replaces the proposal, project or OpenAPI file; a row of the code has a proposal
path of its own (`repository.py:35`), in the model all name one file, so that an
edit hits every review at once; `LoseClaim`, `TearDecision`,
`FailWrite` and `Crash` are the failures, each leaving what the code leaves: the
`except` clause removes the decision file but neither the record nor the
catalog. The project and OpenAPI files are one value (`project`): both enter the
action hash and the policy check. A file created with `open("x")` and written at
once is one step; its partial write is `TearDecision`.

### PlanGeneration

Generators are requests with one plan ID. Both existence tests, the exclusive
creation of the binding file, the reading of the inputs, `mkdir(exist_ok=False)`,
each of the up to six writes of the plan, and the two calls of the clean-up are
steps of their own. Every file of the plan is represented by the bindings from
which its content was computed, the gate also by its status. Which bindings are
rejected and which leave no scenario blocked are constants.

### OidcTrustChange

Appliers are operator processes. The checks of the input, the lock file, the transition check, the check
of the chain, the consumption, the replacement, the two halves of the append and
the `finally` are steps. `Raise` is an exception after the consumption, a write that fails: the `finally`
runs, the approval stays spent. `Crash` runs no `finally`. The hash of a record stands for the sequence of changes
it covers, so hashes are equal exactly when the histories are. A set of key IDs
stands for the trust file. An append is one write: a line that an error or a death tears is not modelled
here, and would stop every later change (`VerifyAudit`).

`RemovesOpenFiles` is a fact of the file system: the owner keeps the lock file
open (`with lock.open("x")`), which Windows does not let others remove, while POSIX does. Both are
in use: `scripts/*.ps1` are for Windows, CI runs on Ubuntu. It decides whether the `finally` of an
execution that did not get the lock removes the lock of the one that did.

### PortalSession

Logins, callbacks, requests with a cookie, and administration commands are actors.
Every operation of the store is one transaction, hence one action; the users file
is read (`Load`, `ReadUsers`, `AuthorizeIdentity`, `Admit`) and replaced
(`AdvanceVersion`, `WriteUsers`) as a whole, from the copy the actor read before.
The clock counts TOTP intervals and a TOTP code is the counter it verifies for; a
session is named by the login or callback that registered it. `Fail` ends a login
or command between any two steps, as an unreachable state service does.
An operator who edits the file by hand (`Operators`) deactivates a user or increments
a version (`Edits`), and like a command opens the file some time before saving it. Versions
and second factors of `InitialUsers` are unrelated, as in `PortalUser`. The fields
`throttle`, `late` and `how` of a login and `late` of a request only
remember the past, and so do two variables: `fresh`, who has read the file since
an operator last saved it; `undone`, whether a copy from before has been written since. The hash of a username, which keys the throttle, is the user;
logins as nobody are throttled alike and fail.

### ReleaseDecision and ControlledRunner

A report is the sequence of its tests, the number of top-level errors and the
counts it declares (`Invalid` when it declares none); a test is its status and
whether a critical marker occurs in its name. Rates are exact fractions where
the code has floats: the scores are the same unless a sum is within a rounding
error of a half.

Commands are processes on shared files. `Validate`, `Hash`, `Authorize`/`Refuse`,
`Launch`, `WriteReport` or `ExitWithoutReport`, and `Collect` are the steps of a
runner; `Ingest`, `WriteEvidence`, `ReadLast` and `AppendRecord` those of what
follows in `cli.py`; `ReadResults` is `assess`. `Edit` replaces the generated
directory, of which the model keeps what is told apart: the gate, the target of
the Playwright plan, and the version of the tests. `LoseClaim`, `KillTests` (a
timeout, with half a report at the path), `Crash` and `TearRecord` are the
failures. The evidence file is what `--evidence-out` names, which several commands may share,
as the examples of modules 05 and 06 do: each replaces it, and it holds the run and the report
(its hash) that were normalized. No evidence file is the path of a report. The directory is hashed in one step,
and stands for the files that are hashed: `execution_action` reads them one after the other and
skips `node_modules`, `__pycache__` and `.pytest_cache`. `edited` and `overlapped` only remember the past: an edit between the
hash and the launch of a command, and two appends that overlapped. A file by
`Earlier` is a report that an earlier run left.

### StateService and SecurityExport

A login is a client with one call under way; `login[l].pc` is its name. `Answer` is
a call handled and answered, `Unauthorized` a 401, `Lose` a call that is lost
before or after it was handled, or that the service will handle after its client
has given up (`late`, `HandleLate`). The client repeats no call. Every handler of
the service is one transaction of the store (`Execute`, `Granted`). All logins
are of one subject within one window, so that they compete for everything;
times are those of `PortalSession`. `held` remembers that a login was told that
it has its item.

Exporters load the checkpoint, read a batch, post it and replace the checkpoint;
`FailPost` may or may not leave the batch with the collector. The identifiers of
the events are their positions: SQLite assigns them in the order of the
transactions, and no row is deleted.

### OidcCycle

Slots of a scheduler run cycles for ever. Time is relative: `age` counts from the
instant that `run_oidc_monitor_cycle` read before it opened the database, and
`lease.left` is what is left of the lease, negative when it has expired. A key set
is a set of keys, each an ID with its material, so that sets with the same IDs may have different hashes.
The audit log is represented by the keys of its
last record (`audit`) and of all of them (`audited`); a log whose chain is broken, which the monitor
reports as it does a missing one, is represented by its absence, and does not come about during a run. The owner of a lease is a new
UUID for each cycle; in the model it is the slot, or `Gone` when that cycle has
died.

## 3. The runs

| Run | Instance | Shows |
|---|---|---|
| `ledger` | 3 runs, 2 approvals, 4 envelopes, clock 0..2 | authority is recorded, exclusive and as signed; burned stays burned; refinement of `OneUseApproval` |
| `portal` | signed mode; 2 handlers, 2 registrars, 2 reviews, 2 approvals, 1 edit, 1 failure | one writer per review; decisions authorised; REVIEWED backed and final |
| `portal_local` | unsigned mode; 3 handlers, no edits and failures | an authorised decision leads to a decided review |
| `trust_change` | 3 appliers, 3 approvals, 2 operators, open files stay, 1 crash or exception | approved by another person, audited or half-made, chained, overlapping, never waiting |
| `trust_chain_posix` | 3 appliers, 3 approvals, open files can be removed | finding, below |
| `plan` | 3 requests, 4 bindings, 1 failure | only whole plans are ready; finished plans stay; no plan ID is stranded |
| `session` | 2 users, the enrolled one with version 1, the other with version 2 or not known yet; one of three scenarios: 2 logins, 1 command and 1 edit by hand; 2 logins and 1 command, with clock 0..1 or 1 failure; 2 callbacks, 2 states, 2 requests and 1 command, clock 0..1 | one-use factors and states, throttle, second factor, logout |
| `enrolment_holds` | 2 logins, 2 users, 1 command | finding, below |
| `runner` | 3 commands in 3 workloads, 2 approvals, 2 paths, 3 directories, 6 reports, evidence files shared and not, 1 edit, 1 failure | launched as signed; a recorded RELEASE was earned; appends that do not overlap keep the chain |
| `report_is_own` | the same | finding, below |
| `export` | 2 logins over the service, 3 items, 2 tokens, 1 rotation, 1 lost or late call; 2 exporters, batches of 2, 1 failure | claims are one-use over the network; sessions and refusals are recorded; no event is skipped; delivery in the end |
| `cycle` | 2 slots, 3 key sets, leases of 2, waits of 1, runs of 3, 1 change or refresh or rotation, 1 failure | one cycle within its lease; truthful history; what is wrong for good is alerted; no deadlock |

**Bounds.** Two parties show every conflict over a review or a file; where a
third one changes the picture (it comes after a clean-up that the second did not
owe, or takes a lock that the second removed) the runs have three. Two reviews let the requests differ in their target
and registrations collide on a proposal. The environment's steps are counted:
`MaxEdits` and `MaxFaults` are 1, since a single one is enough for each
documented hazard and the proofs hold for any number. The clock of the ledger
passes both ends of the validity window, that of the
logins the end of the throttle's window (`Limit` 1, `Window` 1), that of the
callbacks the expiry of states and sessions (`Lifetime` 1, `TransactionLife` 1). Among the reports of `runner` is one
whose score reaches the release threshold by rounding, one with a flaky
critical test, one with a top-level error and one that contradicts its own
summary. Batches of two events let a batch grow between two readings and leave
a rest. `cycle` has one change of files or keys (`MaxChanges`), from initial states that agree or not: a refresh that follows a rotation on
a governed file needs two and is not reached. The constraint `OneScenario` of `session` keeps a run to one of its scenarios, which together are too many states; the
proofs know no such constraint. In the scenario with an edit the logins have the right password and the clock
stands. With `Limit` 1 and two logins the throttle is only tested
within the first window; the theorem has every limit and window. The runs of `cycle` may outlive their lease by one tick, so that a second
cycle works next to a first. The run `export` has no login without a
second factor, which would only leave out a claim. Symmetry is used in runs without
liveness properties only.

**Deadlock.** In all runs but `cycle` every actor performs one request and stops
(or, in `export`, the logins do), so these may end and deadlock checking is off;
in `cycle` it is on. That a request ends at all is `StartedEnds`,
`PlanIsSettled` and `AuthorizedIsReviewed`.

**Fairness.** Weak fairness of `Proceed`, the steps an actor takes by itself:
handlers are synchronous code that waits for nobody, with bounded timeouts at the
database. The scheduled jobs, `Proceed` of `OidcCycle` and `Export`, are fair in the same
sense, and start again for ever: the cycle as a scheduled task
(`scripts/register-oidc-monitor-task.ps1`, whose limit of 5 minutes is above
the lease of 2, as `MaxAge` is above `Ttl`), the export because an operator
keeps running it, without which module 36 promises nothing. In `OidcCycle` time passes, as an expired lease is
waited for. No fairness is assumed of arrivals, edits, changes, failures or
other clocks; failures are finitely many, without which nothing is delivered.

### Findings

The runs with `expect: violation` are disagreements between code and documents:

1. `enrolment_holds`: a login by recovery code changes the session version in a copy
   of the users file that it read before claiming the code (`portal_auth.py:138`),
   and undoes what others wrote meanwhile, an enrolment here; or the version of
   another recovery, whose session then outlives
   it although module 34 says that older sessions become invalid.
2. `trust_chain_posix`: the `finally` that removes the lock file also runs when the
   lock was not obtained (`oidc_trust_approval.py:121`). Where open files can be removed
   the second of three executions lets the third one in, and both append after the same record;
   module 41 promises a chain, and every later change is refused.
3. `report_is_own`: `run_generated_tests` asks only whether a file is at the report
   path (`runner.py:98`). When the tests end without a report, that of an earlier
   run is normalized, becomes evidence, and is assessed; module 06 says that
   missing report output stops normalization. `ReleaseIsEarned` still holds: the
   decision follows from the evidence, but the evidence is of another run.

Other observations made while modelling, which no run repeats:

* What a recovery login undoes may also be the deactivation or the new `session_version` of an operator: sessions
  that were revoked (module 24) are valid again, and may rest on a password although their user has been enrolled
  since. There `EnrolledMeansSecondFactor` ends (`undone`).
* The third execution of `trust_chain_posix` may have validated a rotation against keys that the first one replaces, so that a
  rotation without overlap is applied (module 40).
* The promoted proposal need not be the queued one: the file is read again
  after its hash was compared (`portal.py:125`; module 18 says it must match the
  queued hash). Likewise a registration validates one read of it and hashes another
  (`portal.py:65`).
* An error between the consumption of an approval and the audit record leaves a spent approval
  without a change, or a trust file without a record (`oidc_trust_approval.py:112`);
  module 41 names this boundary. `TrustIsAccounted` says that nothing worse comes of it. The next change starts from the
  unaudited file, and its record is then the last one.
* `refresh_oidc_trust` replaces the trust file with no approval and no record (`oidc_trust.py:58`). What
  `TrustIsApproved` says is about `apply_approved_oidc_trust_change` alone; a refresh is what the monitor
  alerts (`ProblemsAreAlerted`).
* Two commands with one `--evidence-out` overwrite each other's evidence (`pytest_ingest.py:102`): the one RELEASE has
  then the evidence of the other command, as `ReleaseIsEarned` allows.
* The `except` clause of `generate_review_plan` removes a binding file that another
  request created (`portal.py:215`); the plan itself keeps its bindings.
* Assessments that overlap fork the chain of the audit log, and half a line
  stops every later append (`audit.py:15`): both fail loudly, at the next append.
* A file of the generated directory that changes between its hash and the launch is
  executed under the old approval (`runner.py:78`); module 18 says so itself.
* A monitoring cycle between the replacement of the trust file and its audit record
  alerts a `TRUST_AUDIT_MISMATCH` that is over a moment later.
* Two exporters may move the checkpoint back, and a batch that has grown has another
  idempotency key: the collector sees events again.
* A TOTP counter presented again, and an OIDC identity that is refused, leave no
  security event (`portal_auth.py:119`, `163`), although module 35 says that events cover failed logins. A
  login whose call is lost may leave a session that nobody has the cookie of, or an event of a success
  without a session.

What still holds in spite of them is as instructive: a promoted outcome always
is a policy-ready one that the decision covers (`ReviewedIsBacked`), an approved change trusts
what another person signed (`TrustIsApproved`, proved for any number of executions on any file system), a
ready plan is whole (`ReadyIsWhole`), and the sessions of an enrolled user do not rest on a password, however often the
enrolment was undone and repeated, until an older copy is written over an operator's edit
(`EnrolledMeansSecondFactor`).

## 4. The proofs

The proof modules hold for every value of the constants that satisfies the
assumptions in the modules. Most say that constants have the obvious
types and that "no value" is not a value. Those that say more: `SessionAssumption`, that recovery codes are generated
once and are no one else's (`secrets`); `CycleAssumption`, that the wait for a transaction is shorter than the lease
(`MaxWait < Ttl`: 10 seconds against 30 at least). Three theorems on
trust changes have the hypothesis `~ RemovesOpenFiles`.

**ApprovalLedger_proof.** The inductive invariant is `LedgerInv`: types, the
checks a run passed (`VerifiedRuns`), `AuthorityIsRecorded`, `AtMostOneRun`.
Exclusiveness alone is not inductive: that a claim finds its approval unused
says nothing of the other runs, unless every authority is known to be recorded
in the ledger. From it follow the four invariants of the run, that burned
approvals stay burned, and step by step that the ledger implements
`OneUseApproval`: `Claim` is `Grant`, `LedgerFails` is `Burn` or a stutter,
everything else a stutter.

**ReviewPortal_proof.** The inductive invariant is `PortalInv`. It adds to
`OneWriter` and `ReviewedIsBacked` what each handler knows (`HandlerInv`): who is
between the creation of the decision file and the end finds its own decision in
it and the review undecided (`OwnsFile`), and what it promoted and wrote is still
in the files (`OutcomeStands`). The decision file thus acts as a lock: its
creation needs its absence, and only the owner removes it. Three lemmas carry
the induction: `QuietStep` (no file changes), `AloneStep` (the owner changes the
files of its own review) and `FailStep`. From the invariant follow one writer
per review, the backing of decided reviews, and their finality. That decisions
are authorized needs a second invariant on top of it, `AuthorityInv`: a request carries
what it asked the ledger for from `Build` to the decision file, and an approval nobody
spent has no holder, so that the authority of a file is its own.

**OidcTrustChange_proof.** The inductive invariant is `TrustInv`: who is between
the consumption and the audit record holds its approval alone, for the proposal
it is about to apply, and no record names that approval yet (`ChangerHolds`); an
unspent approval has no holder; and whoever holds one is not its reviewer (`HolderIsIndependent`). The lock does not occur in it: what is trusted and
audited is approved because approvals are used once, however many executions the
lock file lets in. What does depend on the lock (`AuditChainIntact`,
`RotationOverlaps`, `TrustIsAccounted`) is proved for any number of executions, crashes and
exceptions under the hypothesis `~ RemovesOpenFiles`; without it they fail, the first in the
run `trust_chain_posix`. The invariant is `LockInv`: whoever is within the lock is alone
there and the lock file exists (`AloneWithin`), since it stays while its owner has it open; whoever is
within knows that its transition fits the present file, and that the hash it read is the last (`WithinKnows`).
A change that was left half made stays one, as its spent approval is granted to nobody else (`HalfStays`), until
another change is recorded.

**PlanGeneration_proof.** The inductive invariant is `PlanInv`: the directory, created
with `exist_ok=False`, has one writer at most, and how far that writer has come
(`Progress`) is what the directory holds, all computed from the bindings it has read. The binding
file does not occur in it, since another request's clean-up may remove it. The gate is
written closed first and with its verdict last: the gate of a plan that somebody writes is closed, so that
`PlanIsImmutable` follows, and `ReadyIsWhole` is a conjunct of the invariant.

**PortalSession_proof.** `BaseInv` has the types and what the actors know (`ActorsKnow`):
which fields an actor has at its place in the program, that a row of the sessions
is of a login or callback that is done, that the session of a request has a row, and that no login
has read a time ahead of the clock. Upon it rest five invariants, one for each property:

* `StateInv`: a state that a callback holds is claimed, and `claimed` is final.
* `LogoutInv`: a row that was registered is never registered again nor unrevoked.
* `FilesInv`: the users file *and every copy that a login or a command has read of it since an operator's
  last edit* agree on each user (`CopiesAgree`): without a second factor the version is the same in all of them, and
  a copy with the factor has a higher version than one without. So a copy that is written back may lower a version, but not to that of a session
  that rests on a password while the user is enrolled (`Below`). This needs nothing of the versions at the start; it fails
  when a copy from before an operator's edit is written, hence `undone`.
* `FactorInv`: a counter that was used is not above the counter of its user; a code that was used is neither in
  the table nor in a set that a command has yet to write. The assumption is that codes are
  generated once (`secrets`), `NewCodes` being disjoint.
* `ThrottleInv`: until a login of a user succeeds, the attempts that passed are those that the row counts
  and at most `Limit` for each window before the row's. This is an induction over
  the windows by way of the row, with cardinalities of sets of logins.

**ControlledRunner_proof.** `BaseInv` has the types and what a command knows, of its report and its counts.
Three invariants rest on it. `SignedInv`: from the grant on a command holds its approval alone for the
action it hashed (`Backed`), and the hashed, the executed and the present files differ
only after an edit. `ChainInv`: as long as no two appends have overlapped, one command at most is between
its read and its append, and what it read is still the last hash; that the log verifies is not inductive
without it. `EarnInv`: counts represent the report that the command has normalized (`Evident`), an evidence file
that exists is that of a command which names it and whose report is behind it (`Kept`), and every line of
the log is of a command that is done and whose RELEASE its report earns (`Settled`). Its arithmetic is in the lemmas
on the operators of `ReleaseDecision`: what the two ingestions return represents the report
(`PytestRepresents`, `PlaywrightRepresents`), and what a score of the release threshold says of rates that are
rounded (`RoundedUp`, `ReleaseCosts`).

**SecurityExport_proof.** The inductive invariant is `ExportInv`, in two parts.
Of the service (`ServiceInv`) it says that a call, also one that its client has
given up, names its item if it is a claim and its event if it is a record: a late
call is executed in a state that has nothing to do with the one it was made in.
Of the export it says that the collector always holds `1..n` for some `n`, and
what each exporter knows of it (`ExporterInv`): everything up to where it read is
there, and after the acceptance everything up to the end of its batch. That the
collector is *a* prefix, rather than the prefix up to the checkpoint, is
what makes it inductive when an exporter that fell behind sets the checkpoint
back. The steps of a login are sorted into two moves, `LoginMoves` (nobody gets an item)
and `LoginTakes` (a granted claim), so that neither the types nor the refinement
look at the login's program. From the invariant follow `NothingSkipped`, the refinement
of the delivery without its fairness, and the refinement of `OneUseApproval` by the
claims: an answered claim is `Grant`, one that is lost or late is `Burn` or a stutter.
That logins are recorded needs `RecordInv` as well: what the tables hold of a login at each
place in its program (`Standing`), that no two logins hold an item, and, since a registration may be executed
long after its login has failed, that a late one is of a login with its item and its event (`LateEntitled`).

**OidcCycle_proof.** `TypeInv` adds to the types that a cycle which reports has a finding, one which has delivered a
delivery, and that one which waits for its transaction is at most `MaxWait` old. The lease is `LeaseInv`: a lease with an owner has
left what its cycle has not used of it, and every working cycle that is younger than its lease owns it. So
whoever takes over finds only cycles that have outlived theirs, and who releases late finds another owner. It rests on the
assumption `MaxWait < Ttl`, the instant being read before the wait for the transaction
(the timeout of the database, 10 seconds, against the least lease, 30); without it a lease would be written that has
already expired. `HistoryInv` says what a cycle knows before it writes: its finding is one that
audit log and provider justify, and the receiver has what it reports as delivered; audit records and alerts are never
withdrawn.

Every invariant and every action property of the passing runs is proved. Only model-checked is liveness, which
the prover does not support: `AuthorizedIsReviewed`, `StartedEnds`, `PlanIsSettled`, `ProblemsAreAlerted` and the
fairness of `ImplementsDelivery`, whose safety part is the theorem `DeliversInOrder`.

## 5. Not modelled

* Text: rendering, prompts, HTML, argument parsing, logging.
* Path confinement (`_confined`, `is_relative_to`): paths are fixed per review,
  plan or command in the models.
* Cryptography: a signature verifies exactly with the key it was made with, and
  hashes do not collide.
* Partial writes other than those named above.
* The login without a transactional store, where the TOTP counter lives in the
  users file; roles and CSRF tokens, which a request is checked for against
  constants of its session.
* Egress policies, `combined_release` and `quality_gate`: functions of one document,
  without state, that unit tests reach.
* OpenAPI analysis, case and test generation: sequential transformations of
  documents into text.
* Malformed requests to the state service and malformed answers of collectors,
  receivers and providers, which end an actor as a refused or failed call does.

## 6. Plan

1. Proofs: that the appliers' and the runners' steps on the ledger are those of `OneUseApproval`, as for the claims of
   `StateService`, and that the rows and files of a review only grow until it is decided.
2. `SchemaResolver`: the termination of the reference resolver, in a module without
   theorems if it needs recursion.
3. The composition of `ReviewPortal` and `PlanGeneration`, whose inputs are the
   files of decided reviews.
