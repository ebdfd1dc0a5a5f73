# A TLA+ model of opencoverage

opencoverage collects Go coverage, Ginkgo integration and end-to-end test results
from CI, stores them in PostgreSQL, compares each run with the latest run on the
project's default branch and shows the result in a dashboard. This directory holds
TLA+ modules that model its code, TLC configurations that check them on small
instances, and proofs that TLAPS checks. `PROJECT.json` maps each definition to the
source lines it models, and lists the runs, the mutants that show each property
can fail, the hazards and the theorems.

## 1. The system

| component | source | state | operations |
|---|---|---|---|
| Coverage ingest | `internal/application/ingest_usecase.go`, `comparison.go`, `internal/domain` | tables `projects`, `coverage_runs`, `package_coverages` | validate, look up or create the project, set its threshold, find the baseline, write run and packages in one transaction, answer with the comparison |
| Coverage reads | `history_usecase.go` | none of its own | latest comparison: find the run, its packages, the baseline and its packages, compare; run history in pages; branches |
| Integration and e2e runs | `integration_usecase.go`, `e2e_usecase.go` | tables `integration_test_runs`, `integration_spec_results`, `e2e_test_runs`, `e2e_spec_results`; shares `projects` | ingest, latest comparison, run by ID, list, heatmap |
| Queries | `project_usecase.go`, `contributors_usecase.go` | none | projects, contributors |
| PostgreSQL adapter | `internal/adapters/postgres`, `migrations` | the database | one statement per repository method, `WithinTx` for transactions |
| HTTP adapter | `internal/adapters/http`, `auth` | none | route, authenticate by API key, decode, call a use case, map errors to statuses |
| API process | `cmd/api`, `internal/platform` | connection pool | migrate, serve, shut down on SIGINT/SIGTERM |
| MCP server | `cmd/mcp`, `internal/adapters/mcp` | none | tools and resources over the same use cases |
| CLI uploader | `cmd/coveragecli` | none | read a report, convert it, send it once |
| Frontend server | `cmd/frontend/main.go` | a cached version | static files, reverse proxy that adds the API key |
| Dashboard | `cmd/frontend/web/assets/app.js` (home), `integration.js`, `e2e.js` (test pages) | page globals | fetch and render, refresh periodically |

The CLI (and any CI job) posts to the API; the API is the only writer of the
database; the MCP server runs the same use cases in a second process over the same
database; the dashboard reads through the frontend's proxy. Nothing is cached on
the server: all state that outlives a request is in the tables, so components
interact only through committed rows.

**What is hard.** `net/http` runs every request in a goroutine of its own, possibly
in several processes, and no use case takes a lock. Only the run and its child rows
are written in a transaction (`tx.go`); looking the project up, creating it, moving
its threshold and finding the baseline are statements that commit (or read what is
committed) on their own, so the statements of other requests fall between any two
of them. Any statement can fail: without effect, or after it took effect when the
reply is lost. The process can die between any two. "Latest" is by a timestamp the
client sends, so runs are committed out of the order they are sorted in. Numbers
are computed as floats and stored as `NUMERIC(5,2)`. The full list, each at its
line, is under "hazards" in `PROJECT.json`.

**What makes each part correct.**

- Ingest: one project per key; a run is stored whole or not at all; the answer says
  what was stored; the baseline is up to date and never the run itself; the threshold
  applied is the one asked for; every request ends.
- Coverage reads: whole runs only, up to date, never a run compared with itself; the
  verdict read is the one told at submission, or there is a reason (rounding, another
  submission's threshold); a walk over the pages is exact unless runs are committed
  meanwhile.
- Test runs: counters, status and failed specs agree with the stored specs; a report
  the tables cannot hold leaves no run; the comparison balances; a look-up, list or
  heatmap misses nothing that was committed when it began and fits its limit.
- Uploader: the verdict of the test framework is the verdict of the stored run; what it
  sends is accepted unless the report itself is bad; its exit code tells whether the
  run is stored, so that a job that runs it again does not store it twice.
- Dashboard pages: what is shown belongs to what is selected; refreshes exclude each
  other, keep the selection, end, and keep coming.
- Process: a handler has a migrated database and an open pool for as long as it runs; a
  caller whose run was stored is told so unless a deadline, its own departure or a
  fault is in the way; the process exits within a bound of the signal, whatever the
  database does; a 502 of the proxy means that the process is gone.

## 2. Modules

| module | models |
|---|---|
| `CoverageDomain` | validation, `NUMERIC(5,2)` rounding, comparison, threshold (pure operators) |
| `CoverageHistory` | abstract: a register with one project per key and an append-only history of whole runs |
| `CoverageIngest` | `POST /v1/coverage-runs`, one action per SQL statement, with failures and crashes |
| `CoverageReads` | `GET .../coverage-runs/latest-comparison`, `.../coverage-runs` page by page and `.../branches`, and the MCP tools for the first two; extends `CoverageIngest` |
| `TestRunDomain` | spec states, counters, status, pass rate, failed-spec comparison (pure operators) |
| `TestRuns` | ingest, latest comparison, run by ID, list and heatmap of both kinds of test run over one `projects` table |
| `ApiLifecycle` | `cmd/api`: start-up with migrations, requests in flight under their deadlines and the pool, graceful shutdown, crash and restart; the proxy of `cmd/frontend` in front of it |
| `CliUpload` | `coveragecli`: one command from its flags to its exit code, and the job that runs it again; extends `TestRunDomain` |
| `Dashboard` | the home page of the dashboard (`assets/app.js`) |
| `TestDashboard` | the integration and the end-to-end page (`assets/integration.js`, `assets/e2e.js`) |
| `CoverageIngestProofs` | `CoverageIngest`: types, unique keys, whole runs |
| `CoverageAnswerProofs` | `CoverageIngest`: answers, thresholds, baselines, and that it implements `CoverageHistory`; extends `CoverageIngestProofs` |
| `CoverageReadProofs` | `CoverageReads`: the reads among any number of submissions; extends `CoverageAnswerProofs` |
| `TestRunProofs` | `TestRuns`: submissions and comparison; look-ups, lists and heatmaps |
| `ApiLifecycleProofs` | `ApiLifecycle` |
| `CliUploadProofs` | `CliUpload` |
| `DashboardProofs`, `TestDashboardProofs` | `Dashboard`; `TestDashboard` |
| `MC...` | inputs and constants of the TLC runs |

### How state and actions correspond to the code

A table is a function from primary keys to rows. `idgen.NewID` is a fresh UUID and a
request draws at most one project ID and one run ID, so the request's name serves
as both. A local variable of the use case that lives across statements is a variable
indexed by the request (`project`, `baseline`, `run`, ...). `pc` is the statement a
request will send next. One action is one statement with the local work up to the
next; `Receive` is the handler decoding the body and the whole of
`validateIngestInput`; `Respond` builds the output from locals, as the code does.

Statements outside a transaction are autocommitted and see what is committed
(READ COMMITTED). `tx[r]` holds the rows an open transaction has written:
`Commit` moves them to the tables in one step, an error or a crash drops them.
`UpdatedProjects` is the `UPDATE ... RETURNING`: from then on the request works with
the row as it was returned. A newly created project keeps the threshold as submitted
in the local copy and rounded in the row, as in the code.

A percentage is an integer number of thousandths of a percent, and `Stored` rounds to
hundredths half up, which is what `NUMERIC(5,2)` does to a non-negative number: 79.996
is stored as 80.00. Names, descriptions, authors and commit contents are left out;
commit and trigger are kept only as far as validation looks at them. Trimmed-blank and
absent strings are both `None`.

In `CoverageReads` a reader asks one question. A walk over the history is what any client of
the paged API does: it asks for the next page as long as `totalPages` says there is one;
each page is a COUNT and a LIST, and rows that tie in both sort keys come in any order.
`SELECT DISTINCT branch` is the list of branches. The MCP server is a second process
over the same use cases and tables, so a call of a tool is a reader too: the comparison
tool runs `GetProject` first, for the envelope of its answer (`ReadEnvelope`), and the list tool
cuts the page size to its own maximum first. `McpPageSize` is what the code computes: an
explicit `pageSize` of zero or less gives 20 even where the maximum is smaller, though
`specs/MCP_SERVER.md:343` says that it "must not exceed `MCP_MAX_PAGE_SIZE`".

`InsertPackage` takes the packages in any order: rows of one transaction become
visible together, so the order of the report shows nowhere.

`TestRuns` takes two shortcuts, both about rows that never change once committed: the
transaction that stores a run with its specs is one step (taken apart in
`CoverageIngest`, which uses the same `WithinTx`), and the failed specs of a
committed run are read in the step that finds it. A state is its trimmed, lower-case
word; a failure's message and file are there or not. `SatisfiesChecks` is the
difference between what validation accepts and what the tables' constraints accept.
The first statement of a read is part of the step that receives it. A list is COUNT and
LIST with the filters on branch, status, environment and spec type; a heatmap is one
query that ranks the runs of each project and keeps `runsPerProject` of them.

`ApiLifecycle` has a main goroutine (`main`), a pool, and per request its handler
(`stage`), the caller (an uploader that talks to the API, or a browser behind the
proxy) and what the caller learns (`told`). Statements are taken together: one connection for
the statements outside a transaction, then one for the transaction, each acquired from
a pool that may be full. A tick is 5 s, so the code's deadlines (30 s request, 15 s
write, 10 s shutdown, 20 s proxy, 15 s frontend write) are 6, 3, 2, 4 and 3 ticks. `Tick` waits for
everything that needs neither the database nor a connection (`Pending`): a handler that
can go on does so in far less than 5 s. An age stops at the request's deadline, where
nothing more depends on it, and `since` counts from the signal. A request may still
arrive on a kept-alive connection in the moment of the signal (`since = 0`). A restart
finds the migrations that were applied before the start that failed or died.

`CliUpload` is one process that goes through `start`, `post`, `answered` and `done`:
`Prepare` is everything up to the payload (flags, report, conversion, and for coverage
the payload file), `ServerAnswers`, `StoredSilently` and `TransportFails` are the ways
`uploadPayload` can return, `Finish` is the choice of the exit code. The conversions
are operators, one per format (`GinkgoSpec`, `PlaywrightSpec`, `AppiumSpec`,
`PackagesOfProfile`, `PackagesOfSummary`), and keep of a report what they decide on: a
file is a group, two counts and whether globs exclude it; a Playwright spec its file
name's keyword and its tests (one per Playwright project: the code looks at the first); an
Appium case its failure element, its skipped element and its status attribute. Formats
the code refuses (Playwright JUnit, Appium JSON) are the reports `InputOk` does not
list. The API is its validation and its tables' constraints, taken from
`CoverageDomain` and `TestRunDomain`. `Retry`, the job that runs a failed command again,
is not in the repository and is mapped as external.

In `Dashboard` a task is an event handler under way and a step is what the
single-threaded script does between two awaits; the globals of `app.js` are variables
of the same name, a panel is the project (and branch) its content is from. Answers of
different tasks, and of the two fetches of one `Promise.all`, arrive in any order, and
with `Failing = TRUE` any fetch may fail. A timeout is armed, fires or is cleared;
`tracked` tells whether `homeRefreshTimeoutId` still names it. `trendRequestSequence`
holds the task with the newest number instead of the number. The project list only grows,
since the API deletes no project. The loop over pages of that list (its result is used
when complete), overlays, contributors and rendering are left out.

`TestDashboard` is one model of two scripts: `e2e.js` is `integration.js` with other
endpoints and two more filters. Tasks, steps, timer and answers are those of `Dashboard`.
The controls that filter the table are one filter besides the branch, and those
that filter the project list decide which projects are let through (`match`). The cards and
the chain of runs are rendered from the run list in the same step as the table and are
left out with it, except the duration card, whose request is of its own; so are the
status and failure cards: after a failed run list they keep the values of the project
before. Of the heatmap the tiles (which select a run of any project) and its Reload
button are modelled; whether it was open, and so reloaded at the end of a refresh, is
a choice. Rows of failed specs are the runs they belong to.

### Faults

With `Faulty = TRUE`: `StatementFails` is any error before effect (lost connection,
full pool, deadline of the request); `ReplyLost` is an effect whose reply is lost:
INSERT project, UPDATE threshold and COMMIT; `Crash` is the death of the process, which
rolls back open transactions and loses all requests in flight. The server keeps
nothing, so its restart is the next `Receive`. In `ApiLifecycle` the same faults are
`StatementFails` (with or without effect), `Dies` and `Restart`; a statement that is never
answered is one that does not run until its context ends it (`Expire`), a start can fail
at any of its steps (`BootFails`), and a client can go away (`Leave`). In the pages any
fetch may fail, with `Failing = TRUE`.

## 3. Runs

| run | checks | shows |
|---|---|---|
| `ingest_two` | `OneProjectPerKey`, `RunsAreWhole`, `AnswerMatchesTables`, `OwnThresholdApplies`, `ImplementsHistory`, `EveryRequestEnds` | two submissions of any of six reports, with faults |
| `ingest_three` | `BaselineIsFresh` | three submissions of one project with equal and out-of-order timestamps, with faults |
| `coverage_reads` | `ReadsWholeRuns`, `ReadIsFresh`, `WalkIsExact`, `BaselineOfDefaultBranchIsRace`, `VerdictsMoveWithReason` | a latest comparison over HTTP or MCP, a walk over the history or a list of branches among submissions, with faults |
| `test_runs` | `OneProjectPerKey`, `SummaryTellsSpecs`, `FailuresBalance`, `ReadAgreesWithAnswer`, `ReadsMissNothing`, `RefusedLeavesNoRun` | two submissions of any of ten test reports of both kinds, and one read of any kind, with faults |
| `api_lifecycle` | `HandlersHaveTheirDatabase`, `CommittedIsTold`, `BadGatewayMeansGone`, `ExitIsBounded`, `ShutdownEnds` | two starts of the process, two requests, one connection, a database that may not answer |
| `cli_upload` | `TypeOK`, `VerdictSurvivesUpload`, `ExitTellsOutcome`, `RetryDuplicatesOnlySilentRuns`, `ConvertedBodiesAreAccepted` | every command over some 800 combinations of flags and reports, run up to twice, against an API that may refuse, fail or lose its answer |
| `dashboard` | `TypeOK`, `RefreshesNeverOverlap`, `AutoRefreshStaysArmed`, `PanelsFollowSelection`, `SelectionSurvivesRefresh`, `RefreshEnds` | two handlers of the home page under way at once, with failing fetches |
| `test_pages` | `RowsFollowSelection`, `PanelsFollowSelection` | two handlers of a test page at once over two projects with different branches, a status filter that is changed back and forth, failing fetches |
| `test_refresh` | `RefreshesNeverOverlap`, `AutoRefreshStaysArmed`, `RefreshKeepsRun`, `RefreshEnds` | flag and timer of a test page, shared by refresh and Reload buttons, with failing fetches, a project that comes and goes and a run that is stored meanwhile |
| `ingest_race` | `ValidIngestSucceeds`: **violated** | the loser of a race for a new key is answered 500 and its run is not recorded |
| `cli_playwright` | `PlaywrightReportsAccepted`: **violated** | a Playwright report with a flaky test is refused: the uploader says `flaky`, the API accepts `flaked` |
| `test_pages_specs` | `SpecsFollowRun`: **violated** | failed specs of two runs selected one after the other are shown together |

What the three violated properties quote from the repository, and how the code comes to
disagree with it, is under "findings" in `PROJECT.json`. `VerdictsMoveWithReason` holds and says
why a run of 79.996 % fails a threshold of 80 % when submitted and passes it when read.

Some properties are proved for every instance and in no run: most type invariants,
`OneCreator`, `ThresholdIsExplained` and `BaselinePrecedesRun`. A run was where each was found to
hold before it was proved, and so were the invariants the proofs rest on; what the runs keep is
what takes several actors or steps to go wrong.

The code differs from its documents in a few more places, which the models follow but no
run singles out:

- A newest run on the default branch is its own baseline and so compares with nothing
  (`integration_usecase.go:645`), where `specs/INTEGRATION_TESTS.md:12` asks for the previous one.
- The pending specs of an end-to-end run are counted and the count is never assigned
  (`e2e_usecase.go:258`, `:316`); `SummaryTellsSpecs` has the exception.
- A run selected while a refresh is under way is replaced by the one selected before
  (`integration.js:600`; `specs/INTEGRATION_TESTS.md:365`). `RefreshKeepsRun` holds for
  refreshes nobody interferes with.
- A run list that fails late wipes the table of the project selected since, as the catch block
  does not check what is stale (`integration.js:689`; comment at `:623`).
- A list of branches that arrives late replaces the branches of the project selected since, whose
  run list is then taken for stale and dropped (`integration.js:551`; `specs/frontend.md:155`).
  `RowsFollowSelection` holds: the table is left empty, not wrong.
- Two overlapping selections can each take what the other one's trend answer needs to be shown
  (`app.js:1248`; `specs/frontend.md:17`); `PanelsFollowSelection` is about panels loaded without
  overlap.

**Bounds.** The races of the ingest are between two requests for a key (look-up and
INSERT, threshold update and comparison), so two requests with one or two keys show
them; a baseline that is neither the oldest nor the newest, or that ties with another,
takes three runs, hence `ingest_three`. Two branches tell the default branch from
another; two timestamps with a clock that may or may not advance give runs that are
newer, older and equal in either sort key. The clock advances by at most one per run
built, so it needs no bound of its own. The reports of `ingest_two` are: a new project
with a threshold that rounding changes, one with the default, one on another branch,
another key, and an invalid one. In `dashboard` two tasks are one handler that overtakes
another, whichever of the three kinds they are; of two projects one has runs and one does
not. In `cli_upload` a report has up to three functions, two files or two specs, enough for a
mean that rounds and a spec that hides another, and `MaxAttempts = 2` is a run and its
repetition. In `coverage_reads` one reader suffices, as reads do not see each other; two
submissions are a run and its baseline, and one of them sets a threshold; a page of one
row makes a walk of two pages (a larger page, or none asked for, is one page that holds all). In `test_runs` two requests are two runs of one kind, or one of each
kind that race for the project. In `api_lifecycle` one connection and two requests are a full
pool, two starts are a restart, one migration is a schema that is there or not, and ticks of
5 s keep every order of the five deadlines. On the test pages two projects are the selected one and
another, one of them with a branch and a status the other lacks, so that every filter tells runs
apart; in `test_refresh` two runs are the selected one and a newer one, and the newer one, which
arrives later, changes the answer between two fetches. Each property has a mutant of the code, listed under
"mutants", that TLC finds violating it under the same bounds, so no bound is too
small for the property to matter.

**Symmetry** is used over requests in `ingest_three`, `coverage_reads` and `test_runs` and over tasks in
`test_pages`. None of them checks liveness, and the definitions do not tell requests, or
tasks, apart.

**Fairness.** `FairSpec` of `CoverageIngest` assumes weak fairness of each request's own
steps: the Go scheduler runs every goroutine, `database/sql`/pgx statements end by
answer, error or the request's deadline (`router.go:19`), and no handler waits for
another. Arrival of requests, faults and crashes are not fair. Only `EveryRequestEnds` needs it.
`FairSpec` of `ApiLifecycle` is weaker: handlers do what needs nobody else, main goes on when
it can, and time passes; the database need not answer, and no signal or client need
come. `ShutdownEnds` says that a shutdown ends nevertheless. `FairSpec` of `Dashboard` and
`TestDashboard` assumes that each task's fetches settle, which the deadlines of proxy
and API or a broken connection see to; what the user does and the timer are not
fair. Only `RefreshEnds` needs it.

`CHECK_DEADLOCK` is left on: `Terminating` is the only stuttering at the end, enabled
when every request has ended, so a request that could take no step would be reported.
`JobEnds` is the same for a command that has exited, `Terminating` of `ApiLifecycle` for a
process after its last start. The pages never stop: the user can always do something.

## 4. Proofs

The theorems hold for every value of the constants: any sets of requests, readers, keys,
branches, reports, any page sizes, timeouts and pool, any handlers of a page, any calls of
the uploader and any number of attempts, with faults or without. They use the assumptions
stated in the modules: `NoneIsNoValue` and `NoneIsNoWord` (None is no value of another
kind), `DomainOfInputs`, `ReadersAskForProjects`, `TestRunInputs`, `InvocationsAreCalls`,
`Attempts`, `Deadlines`, `PageConstants` and `TestPageConstants` (types of the constants; `Deadlines` also
has the order of the deadlines, `TestRunInputs` that there are finitely many requests, which
makes the numbers of rows numbers). Each proof has one lemma per action and under it one
step per conjunct the action can disturb; the invariants are defined in the module they are
about, under "What the properties rest on".

| module | theorem | states |
|---|---|---|
| `CoverageIngestProofs` | `TypeCorrect`, `ProjectsUnique`, `RunsWhole` | `TypeOK`, `OneProjectPerKey`, `RunsAreWhole` |
| `CoverageAnswerProofs` | `AnswersAreTrue`, `CreatorIsUnique`, `ThresholdIsOwn`, `ThresholdsExplained` | `AnswerMatchesTables`, `OneCreator`, `OwnThresholdApplies`, `ThresholdIsExplained` |
| | `BaselinesPrecede`, `BaselinesFresh` | `BaselinePrecedesRun`, `BaselineIsFresh` |
| | `IngestImplementsHistory` | `ImplementsHistory` |
| `CoverageReadProofs` | `ComparisonsAreWhole`, `ReadsAreFresh`, `BaselineOnlyRaces`, `VerdictsAreExplained` | `ReadsWholeRuns`, `ReadIsFresh`, `BaselineOfDefaultBranchIsRace`, `VerdictsMoveWithReason` |
| | `WalksAreExact` | `WalkIsExact` |
| `TestRunProofs` | `RunsTyped`, `KeysAreUnique`, `SummariesTell`, `FailuresAddUp`, `ReadsAgree`, `NothingOfRefused` | `TypeOK`, `OneProjectPerKey`, `SummaryTellsSpecs`, `FailuresBalance`, `ReadAgreesWithAnswer`, `RefusedLeavesNoRun` |
| | `NothingIsMissed` | `ReadsMissNothing` |
| `ApiLifecycleProofs` | `LifeTyped`, `PoolOutlivesHandlers`, `UploadersAreTold`, `BadGatewayTellsGone`, `ExitInTime` | `TypeOK`, `HandlersHaveTheirDatabase`, `CommittedIsTold`, `BadGatewayMeansGone`, `ExitIsBounded` |
| `CliUploadProofs` | `CliTypes`, `VerdictReachesDatabase`, `ExitCodeTellsOutcome`, `RetriesDuplicateSilentRuns`, `ConversionsAreAccepted` | `TypeOK`, `VerdictSurvivesUpload`, `ExitTellsOutcome`, `RetryDuplicatesOnlySilentRuns`, `ConvertedBodiesAreAccepted` |
| `DashboardProofs` | `HomePageTypes`, `OneHomeRefreshAtATime`, `HomeAutoRefreshSurvives`, `PanelsShowSelection`, `RefreshKeepsSelection` | `TypeOK`, `RefreshesNeverOverlap`, `AutoRefreshStaysArmed`, `PanelsFollowSelection`, `SelectionSurvivesRefresh` |
| `TestDashboardProofs` | `PageTypes`, `OneRefreshAtATime`, `AutoRefreshSurvives`, `TableFollowsSelection` | `TypeOK`, `RefreshesNeverOverlap`, `AutoRefreshStaysArmed`, `RowsFollowSelection` |
| | `PanelsShowSelection`, `RefreshKeepsTheRun` | `PanelsFollowSelection`, `RefreshKeepsRun` |

**Tables** (`TableInv`). `RunsAreWhole` by itself is not inductive: when COMMIT moves a
transaction's rows to the tables, the rows must be all packages of the report
(`TxHolds`), the run must be the one built from it (`RunBuilt`), its project must be a
row with the report's key (`LocalsAgree`), which stays so because a project row never
changes its key (`ProjectsWellFormed`), and the report must not change under a run
(`ReportsInFlight`, `CommittedLate`). `OneProjectPerKey` needs the UNIQUE key at the INSERT.

**Answers and baselines** (`AnswerInv`, `BaselineInv`). An answer is built of locals, so
the invariants follow the locals: whoever holds a project knows whether it is its creator
(`CreatorKnown`) and holds the threshold it asked for (`ThresholdHeld`). The baseline is
read once (`BaselineReadOnce`), from runs that were committed then; the runs seen on
arrival were among them and stay, and time stamps are never ahead of the clock
(`ClockInv`), so a baseline is as new as any run seen and no newer than the run itself.

**Refinement.** `CoverageHistory` keeps a register of projects, an append-only history and the set of
acknowledged submissions. Under the mapping, a statement that writes `projects` is its
registration or change of a threshold, COMMIT appends, an answer acknowledges, and every
other step stutters. COMMIT appends a whole run of a registered project, by `TableInv`, and
an answer acknowledges what is in the history, by `AnswerInv`.

**Reads** (`ReadInv`, `ToldInv`). Every behaviour of `ReadSpec` is one of `Spec`
(`AllIsIngest`), so the invariants of the ingest hold under the reads. `Grown` is all a
reader has to fear from the rest of the system: rows of committed runs stay as they
are, and the threshold of a project moves only by a submission that carries one and is not
committed. `IngestGrows` shows it of every step of the ingest and
`TablesGrowUnderReader` that what a reader knows survives it; what remains are the
reader's own steps, one lemma each. `VerdictsMoveWithReason` is then arithmetic
(`RoundedVerdict`: rounding is monotone, so it turns a verdict only by making total and
threshold equal) over what the submitter was told (`ToldInv`).

**Pages of the history** (`WalkInv`). That a walk is exact is not inductive: it says nothing
of a walk under way. What is, is that the items of a walk nobody disturbs are the rows before
the next offset in *every* order the database may give (`WalkIsPrefix`); and as rows that do
not tie have one order only (`OneOrder`: two orders would differ at a first place, where each
has the row that the other one has later), the next page continues the list
although it comes from another statement. `NextPage` is the arithmetic of `totalPages`, and
that the conditions of the property, once false, stay false (`CandidatesGrow`) lets a walk
forget what was disturbed. Finitely many rows are committed, one at a time
(`CommitsOneByOne`), so their number is a number.

**Test runs** (`RunsInv`, `SeekInv`). A stored run is made of its report and frozen
(`IsStored`), so that counters can be counted in the report: the counting lemmas relate
the sizes of sets of positions to each other. What a read has found and answered is
stored. That a page or a rank misses nothing is a fact about finite sets: of all matches, those that are
among the first `n` of any order by age exclude none that is newer (`Newest`, `Orders`).

**Process** (`LifeInv`). What is in flight during a shutdown is at least as old as the signal
(`OlderThanSignal`), so that Shutdown, which gives up after its timeout, and Exit,
which ends what is left, cut off only requests that waited that long. The urgency of
`Tick` gives the bound: a tick after the longer timeout would need a request in
flight that is older than its deadline, and such a request has something to do first.

**Uploader** (`CliInv`: `BodyInv`, `OutcomeInv`). What is posted is what the report of the
call converts to, so each claim about an answer is one about a conversion. Percentages need
the sums of the code's loops to be bounded by what is summed. A sum is a fold over a finite
set, and what it computes is an induction, which is made without an induction theorem: among
the sets for which the claim fails, one has the least cardinality, and taking one element away
leads to a smaller one (`LeastNumber`, `SumsUpTo`, `SumBounds`). Verdicts are
followed per format, from what the framework reports of a spec through its state to the
counters. The outcome is a matter of which answers an attempt may have with its row
stored or not.

**Test pages** (`PageInv`). At each await a task has the locals its answer is handled with
(`TasksInv`). The refresh flag is set by one task and reset by the same one at its end
(`RefreshInv`), and of the armed timeouts the page knows one (`TimerInv`). The table
follows the selection because every step that changes the selection empties it, or
leaves the branches of the new project awaited, and an answer that fills it was asked
for with the values the page has now. Card and failed specs have no such guard in the code;
that they follow all the same while no task runs into another (`PanelsInv`) needs that one
task is under way then, and that it either awaits what the panel is missing or has loaded it
for the values the page has (`CardFollows`, `SpecsFollow`). `RefreshKeepsRun` needs what a
task that loads the runs remembers of the selected one.

**Home page** (`TasksInv`, `RefreshInv`, `TimerInv`, `PanelsInv` of `Dashboard`). The same plan with the panels of
that page. `RefreshKeepsSelection` is an action property and asks of each step that ends the loading of
the project list that it selects again what is selected when the list arrives, not what was
when it was asked for.

The proofs found one flaw of the model that TLC could not: the translations of Go's `switch`
had arms that overlap, and where two arms of a CASE apply TLA+ leaves open which is taken,
though TLC takes the first. `AppiumState`, `PlaywrightSpecType` and `Direction` now say IF.

Only model-checked is liveness under fairness (`EveryRequestEnds`, `ShutdownEnds`,
`RefreshEnds`): ENABLED is out of the prover's reach. Every other property of a passing run is a
theorem.

## 5. Order of work, and what would come next

The modules were written in the order of what depends on them: `CoverageDomain`,
`CoverageHistory`, `CoverageIngest` and its proofs; `CoverageReads`; `TestRunDomain`,
`TestRuns`; `CliUpload`; `Dashboard`; `ApiLifecycle`; `TestDashboard`; then the proofs
of the last ones. Next would be the composition of `CliUpload` with `ApiLifecycle`, which now
meet only in what a caller can be told, and an abstract page that both `Dashboard` and
`TestDashboard` implement, as their refresh and timer are the same.

## 6. Not modelled

- `ListProjects` and the contributors: a list with a filter, a count and a join, and
  one aggregating statement; they change nothing and depend on nothing that the modelled
  reads of the same shape do not.
- The `from` and `to` filters of the run lists: one more condition on the same rows. Pages of
  test runs after the first: the same two statements that `CoverageReads` walks over.
- The other MCP tools and resources, which decode arguments for use cases that are modelled; the write
  tools, which `ValidateMCP` refuses with stdio, the only transport there is; prompts.
- Two API processes that migrate one database at the same time: that is inside goose.
- Overlays, the heatmap's content, status lines and rendering of the pages; static files and
  the cached version of the frontend server.
- Formatting, logging and panics in handlers (`Recoverer` answers 500).
