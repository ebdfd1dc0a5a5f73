------------------------------ MODULE CliUpload ------------------------------
(***************************************************************************)
(* coveragecli: one command of a CI job reads a report, converts it to the *)
(* body the API takes, posts it once and exits; a job may run a command    *)
(* that failed again.  The API is what the other modules make of it: it    *)
(* refuses a body that validation or the tables do not accept, stores the  *)
(* others, and may fail or lose its answer on the way.                     *)
(*                                                                         *)
(* The path of a package or spec is an opaque value, as is what the        *)
(* converter copies as it is.                                              *)
(***************************************************************************)
EXTENDS TestRunDomain, Functions

CONSTANTS
    Invocations,    \* commands with their flags and reports
    MaxAttempts     \* how often the job runs the command at most

ASSUME Attempts == MaxAttempts \in Nat \ {0}

Commands == {"coverage", "npm", "integration", "e2e"}

\* What the commands read of a report: of a line of "go tool cover -func", of a
\* file of a Vitest summary, of a spec or case of a test framework.
ProfileFunction == [dir: SpecPaths, percent: 0 .. Hundred]
SummaryFile ==
    [path: SpecPaths, dir: SpecPaths, covered: Nat, total: Nat, excluded: BOOLEAN]
GinkgoReport ==
    [path: SpecPaths, state: ReportedStates, failure: {None, "message", "located"}]
PlaywrightReport ==
    [path: SpecPaths, file: {"setup", "happyPath", "negativePath", "other"},
     tests: Seq([projectId: STRING, status: STRING, error: BOOLEAN])]
AppiumReport ==
    [path: SpecPaths, failure: {None, "message", "no message"}, skipped: BOOLEAN,
     status: STRING, class: {"setup", "happyPath", "negativePath"}]

Answers == {"200", "400", "401", "500", "broken"}

\* Nothing is neither a word of a body or an answer, nor a number, nor a path.
ASSUME NoneIsNoWord ==
    None \notin {"key", "main", "sha"} \cup Answers \cup Int \cup SpecPaths

\* Commands with reports their tools write; whether the numbers of a summary
\* agree is left to the command to check.
ASSUME InvocationsAreCalls ==
    \A in \in Invocations :
        LET report == in.report
        IN  /\ in.command \in Commands
            /\ in.threshold \in Int
            /\ in.command = "coverage" =>
                  report.total \in 0 .. Hundred /\ report.functions \in Seq(ProfileFunction)
            /\ in.command = "npm" =>
                  /\ report.total \in Int
                  /\ report.files \in SUBSET SummaryFile /\ IsFiniteSet(report.files)
            /\ in.command \in Kinds =>
                  /\ report.format = "ginkgo.json" => report.specs \in Seq(GinkgoReport)
                  /\ report.format = "playwright.json" => report.specs \in Seq(PlaywrightReport)
                  /\ report.format = "appium.xml" => report.specs \in Seq(AppiumReport)

VARIABLES
    call,           \* the command, its flags and its report
    pc,             \* where the process is
    body,           \* the payload
    answer,         \* the HTTP status, or "broken" for a transport error
    exit,           \* the exit code
    attempt,        \* which run of the command this is
    rows,           \* the runs stored, each with the attempt that posted it
    silent          \* history: attempts that were stored without an answer
                    \* that says so

vars == <<call, pc, body, answer, exit, attempt, rows, silent>>

-----------------------------------------------------------------------------
(* Conversion of coverage reports.  Percentages are thousandths of a       *)
(* percent, as in CoverageDomain.                                          *)

\* round2 of a quotient: half up to hundredths of a percent.
round2(numerator, denominator) ==
    ((2 * numerator + denominator * Cent) \div (2 * denominator * Cent)) * Cent

\* parseCoverage: a package's coverage is the mean of its functions' coverage.
PackagesOfProfile(profile) ==
    LET percents == [i \in DOMAIN profile |-> profile[i].percent]
        inPackage(dir) == {i \in DOMAIN profile : profile[i].dir = dir}
    IN  { [importPath      |-> dir,
           coveragePercent |-> round2(SumFunctionOnSet(percents, inPackage(dir)),
                                      Cardinality(inPackage(dir)))]
          : dir \in {profile[i].dir : i \in DOMAIN profile} }

\* Mutant: files without anything to cover stay in.
KeepsEmptyFiles(report) == {f \in report.files : ~f.excluded}

\* The files parseVitestSummary considers.
ConsideredFiles(report) == {f \in report.files : f.total > 0 /\ ~f.excluded}

\* parseVitestSummary: the files of a group are weighed by their totals.
PackagesOfSummary(report) ==
    LET key(f) == IF report.groupBy = "dir" THEN f.dir ELSE f.path
        considered == ConsideredFiles(report)
        group(k) == {f \in considered : key(f) = k}
        covered == [f \in considered |-> f.covered]
        total == [f \in considered |-> f.total]
    IN  { [importPath      |-> k,
           coveragePercent |-> round2(Hundred * SumFunctionOnSet(covered, group(k)),
                                      SumFunctionOnSet(total, group(k)))]
          : k \in {key(f) : f \in considered} }

\* What parseVitestSummary refuses.
SummaryOk(report) ==
    /\ ValidateCoveragePercent(report.total)
    /\ ConsideredFiles(report) # {}
    /\ \A p \in PackagesOfSummary(report) : ValidateCoveragePercent(p.coveragePercent)

\* The body of a coverage upload; a threshold of zero is none.
CoverageBody(in, total, pkgs) ==
    [projectKey |-> "key", defaultBranch |-> "main", branch |-> "main",
     commitSha |-> "sha", triggerType |-> in.triggerType, runTimestamp |-> 1,
     thresholdPercent |-> IF in.threshold > 0 THEN in.threshold ELSE None,
     totalCoveragePercent |-> round2(total, 1), packages |-> pkgs]

-----------------------------------------------------------------------------
(* Conversion of test reports.                                             *)

\* normalizeReport: the state is copied; a failure has a message, and a file name
\* if it has a location.
GinkgoSpec(spec) ==
    [specPath |-> spec.path, state |-> spec.state,
     message |-> spec.failure # None, file |-> spec.failure = "located",
     specType |-> "", padded |-> FALSE]

\* Mutant: what is not expected is taken for skipped.
OnlyExpected(status) == IF status = "expected" THEN "passed" ELSE "skipped"

\* The word of a Playwright test status.
PlaywrightState(status) ==
    CASE status = "expected"   -> "passed"
      [] status = "unexpected" -> "failed"
      [] status = "flaky"      -> "flaky"
      [] OTHER                 -> "skipped"

\* From the file name, else from the project ID of the test.
PlaywrightSpecType(file, projectId) ==
    IF file # "other" THEN file
    ELSE IF projectId \in {"happypath", "negativePath", "setup"} THEN projectId
    ELSE "happyPath"

\* A spec has one test per Playwright project; the code looks at the first.  The
\* failure is the error of its last result.  Without a test the spec is skipped.
PlaywrightSpec(spec) ==
    LET tested == spec.tests # << >>
        test == Head(spec.tests)
    IN  [specPath |-> spec.path, file |-> FALSE, padded |-> FALSE,
         message  |-> tested /\ test.error,
         state    |-> IF tested THEN PlaywrightState(test.status) ELSE "skipped",
         specType |-> IF tested THEN PlaywrightSpecType(spec.file, test.projectId)
                      ELSE "happyPath"]

\* Mutant: the status attribute is copied.
StatusAsWritten(case) ==
    IF case.failure # None THEN "failed"
    ELSE IF case.skipped THEN "skipped"
    ELSE case.status

\* A failure element decides, then a skipped one, then the status attribute if it
\* is a known word.
AppiumState(case) ==
    IF case.failure # None THEN "failed"
    ELSE IF case.skipped THEN "skipped"
    ELSE IF case.status \in {"failed", "skipped"} THEN case.status
    ELSE "passed"

\* A class name with "happyPath" is told by no case: it is the default.
AppiumSpec(case) ==
    [specPath |-> case.path, state |-> AppiumState(case),
     message |-> case.failure = "message", file |-> FALSE,
     specType |-> case.class, padded |-> FALSE]

\* The body of a test report; suite and version say whether the suite
\* description and the framework version are not blank.
TestBody(in, specs, platform, suite, version) ==
    [kind |-> in.command, projectKey |-> "key", branch |-> "main",
     triggerType |-> in.triggerType, runTimestamp |-> 1,
     environment |-> in.environment, platform |-> platform,
     suite |-> suite, version |-> version, specs |-> specs]

\* One spec of a report as the API takes it.
SpecOf(format, spec) ==
    CASE format = "ginkgo.json"     -> GinkgoSpec(spec)
      [] format = "playwright.json" -> PlaywrightSpec(spec)
      [] format = "appium.xml"      -> AppiumSpec(spec)

TestReportBody(in) ==
    LET report == in.report
        specs == [i \in DOMAIN report.specs |-> SpecOf(report.format, report.specs[i])]
    IN  CASE report.format = "ginkgo.json" -> TestBody(in, specs, None, TRUE, TRUE)
          [] report.format = "playwright.json" -> TestBody(in, specs, "web", TRUE, TRUE)
          [] report.format = "appium.xml" ->
               TestBody(in, specs,
                        IF report.platform = None THEN "android" ELSE report.platform,
                        report.named, report.automation)

Convert(in) ==
    CASE in.command = "coverage" ->
           CoverageBody(in, in.report.total, PackagesOfProfile(in.report.functions))
      [] in.command = "npm" ->
           CoverageBody(in, in.report.total, PackagesOfSummary(in.report))
      [] OTHER -> TestReportBody(in)

\* Mutant: the environment is left to the server.
AnyEnvironment(in) == TRUE

EnvironmentOk(in) == in.environment \in {None, "test", "stage", "prod"}

\* Flags and report that let the command come to its payload.
InputOk(in) ==
    LET report == in.report
    IN  CASE in.command = "coverage" -> report.functions # << >>
          [] in.command = "npm"      -> SummaryOk(report)
          [] OTHER ->
               /\ in.key
               /\ EnvironmentOk(in)
               /\ report.format \in {"ginkgo.json", "playwright.json", "appium.xml"}
               /\ report.format = "appium.xml" => report.specs # << >>

-----------------------------------------------------------------------------
(* The process. *)

Exit(code) ==
    /\ exit' = code
    /\ pc' = "done"

Init ==
    /\ call \in Invocations
    /\ pc = "start"
    /\ body = None
    /\ answer = None
    /\ exit = None
    /\ attempt = 1
    /\ rows = {}
    /\ silent = {}

\* Flags and report are checked and the report is converted; a coverage payload
\* is written to a file first, and is all there is to do without an upload.
\* Reading and writing files may fail.
Prepare ==
    /\ pc = "start"
    /\ \/ /\ InputOk(call)
          /\ body' = Convert(call)
          /\ IF call.upload /\ call.key THEN pc' = "post" /\ UNCHANGED exit
             ELSE Exit(IF call.upload THEN 1 ELSE 0)
       \/ /\ ~InputOk(call)
          /\ Exit(1)
          /\ UNCHANGED body
    /\ UNCHANGED <<call, answer, attempt, rows, silent>>

FileError ==
    /\ pc = "start"
    /\ Exit(1)
    /\ UNCHANGED <<call, body, answer, attempt, rows, silent>>

IsTestRun == call.command \in Kinds

\* What the API's validation accepts, and what the tables do.
Accepted ==
    IF IsTestRun THEN ValidReport(body) /\ body.suite /\ body.version
    ELSE ValidInput(body)
Storable == Accepted /\ (IsTestRun => SatisfiesChecks(body))

\* The status the API computes for a run.
StoredStatus ==
    IF ~IsTestRun THEN None
    ELSE EvaluateRunStatus(CountOf(Results(body.specs), "failed"),
                           Some(body.specs, "interrupted"), Some(body.specs, "timedout"))
Store == rows' = rows \cup {[attempt |-> attempt, status |-> StoredStatus]}

Answered(status) ==
    /\ answer' = status
    /\ pc' = "answered"

\* The API handles the request and its answer arrives.
ServerAnswers ==
    /\ pc = "post"
    /\ \/ /\ Storable
          /\ Store
          /\ Answered("200")
       \/ /\ ~Accepted
          /\ Answered("400")
          /\ UNCHANGED rows
       \/ /\ Accepted
          /\ Answered("500")
          /\ UNCHANGED rows
       \/ /\ Answered("401")
          /\ UNCHANGED rows
    /\ UNCHANGED <<call, body, exit, attempt, silent>>

\* It was stored, and nobody is told: COMMIT's reply was lost, or the answer.
StoredSilently ==
    /\ pc = "post"
    /\ Storable
    /\ Store
    /\ silent' = silent \cup {attempt}
    /\ \E status \in {"500", "broken"} : Answered(status)
    /\ UNCHANGED <<call, body, exit, attempt>>

\* The request did not get there.
TransportFails ==
    /\ pc = "post"
    /\ Answered("broken")
    /\ UNCHANGED <<call, body, exit, attempt, rows, silent>>

\* Mutant: no command looks at the status.
StatusIgnored(status) == FALSE

\* The statuses that make a command fail; coverage looks at none.
StatusFails(status) == status \in {"400", "401", "500"} /\ call.command # "coverage"

Finish ==
    /\ pc = "answered"
    /\ Exit(IF answer = "broken" \/ StatusFails(answer) THEN 1 ELSE 0)
    /\ UNCHANGED <<call, body, answer, attempt, rows, silent>>

\* Mutant: the job runs the command again whatever came of it.
AlwaysAgain == TRUE

RunAgain == exit # 0

\* The job runs a failed command again.
Retry ==
    /\ pc = "done"
    /\ RunAgain
    /\ attempt < MaxAttempts
    /\ attempt' = attempt + 1
    /\ pc' = "start"
    /\ body' = None
    /\ answer' = None
    /\ exit' = None
    /\ UNCHANGED <<call, rows, silent>>

JobEnds == pc = "done" /\ UNCHANGED vars

Next ==
    \/ Prepare
    \/ FileError
    \/ ServerAnswers
    \/ StoredSilently
    \/ TransportFails
    \/ Finish
    \/ Retry
    \/ JobEnds

Spec == Init /\ [][Next]_vars

-----------------------------------------------------------------------------
(* Properties. *)

Row(n) == {row \in rows : row.attempt = n}

\* The process's variables, and the body of each kind, have their types.
TypeOK ==
    /\ pc \in {"start", "post", "answered", "done"}
    /\ answer \in Answers \cup {None}
    /\ exit \in {None, 0, 1}
    /\ attempt \in 1 .. MaxAttempts
    /\ rows \subseteq [attempt: 1 .. MaxAttempts, status: {"passed", "failed", None}]
    /\ silent \subseteq 1 .. MaxAttempts
    /\ body # None /\ IsTestRun =>
          \A i \in DOMAIN body.specs :
              body.specs[i].state \in ReportedStates /\ body.specs[i].message \in BOOLEAN
    /\ body # None /\ ~IsTestRun => \A p \in body.packages : p.coveragePercent \in Int

\* What failed in the words of the test framework.
ReportFailed(in) ==
    \E i \in DOMAIN in.report.specs :
        LET spec == in.report.specs[i]
        IN  CASE in.report.format = "ginkgo.json" ->
                   spec.state \in {"failed", "panicked", "interrupted", "timedout"}
              [] in.report.format = "playwright.json" ->
                   spec.tests # << >> /\ Head(spec.tests).status = "unexpected"
              [] in.report.format = "appium.xml" ->
                   spec.failure # None \/ (~spec.skipped /\ spec.status = "failed")

\* A run is stored as failed exactly when the framework reported a failure, in
\* the first project of a Playwright spec and in a failure element or status of
\* an Appium case: conversion, validation and counting turn no verdict around.
VerdictSurvivesUpload ==
    \A row \in rows : IsTestRun =>
        (row.status = "failed" <=> ReportFailed(call))

\* "Return non-zero exit code for transport/auth/validation failures": zero
\* after an upload means that this run of the command stored its run, and
\* non-zero that it did not, unless the API stored it silently.  A zero of the
\* coverage command means only that the API answered.
ExitTellsOutcome ==
    pc = "done" =>
        /\ exit = 0 /\ call.upload =>
              IF call.command = "coverage" THEN answer # "broken"
              ELSE Row(attempt) # {}
        /\ exit = 1 => Row(attempt) = {} \/ attempt \in silent

\* A job that runs a command again stores a second run only after one that was
\* stored without its answer.
RetryDuplicatesOnlySilentRuns ==
    \A row \in rows : row.attempt # attempt => row.attempt \in silent

\* What a command posts is never refused for what its conversion wrote.  A
\* coverage or Vitest report that converts is not refused for its numbers or its
\* packages, only for its flags; a test report that passes validation fits the
\* tables too, whatever its environment and spec types were, but for a platform
\* that an Appium report names and the tables do not know.
ConvertedBodiesAreAccepted ==
    /\ answer = "400" /\ ~IsTestRun =>
          ~ValidateTriggerType(call.triggerType) \/ call.threshold > Hundred
    /\ body # None /\ IsTestRun /\ Accepted =>
          Storable \/ body.platform \notin {"web", "android", "ios"}

-----------------------------------------------------------------------------
(* What the properties rest on. *)

\* What is posted is what the report of the call converts to.
BodyInv ==
    /\ call \in Invocations
    /\ pc = "start" => body = None
    /\ pc \in {"start", "post"} => answer = None
    /\ body # None => InputOk(call) /\ body = Convert(call)
    /\ pc \in {"post", "answered"} => InputOk(call) /\ body = Convert(call) /\ call.upload
    /\ answer = "400" => body = Convert(call) /\ InputOk(call) /\ ~Accepted

\* Which answers this run of the command may have with its row stored or not.
OutcomeInv ==
    /\ \A row \in rows : row.attempt <= attempt
    /\ pc \in {"start", "post"} => Row(attempt) = {}
    /\ pc = "answered" =>
          /\ answer # None
          /\ answer = "200" => Row(attempt) # {}
          /\ answer # "200" => Row(attempt) = {} \/ attempt \in silent
    /\ pc = "done" => exit \in {0, 1}

-----------------------------------------------------------------------------
(* What a comment promises and the code does not keep. *)

\* "Use the last test result (accounts for retries)": a Playwright report in
\* which every unexpected test has its error is not refused, a test that passed
\* when it was retried included.
PlaywrightReportsAccepted ==
    ~(answer = "400" /\ IsTestRun /\ call.report.format = "playwright.json"
      /\ ValidateTriggerType(call.triggerType)
      /\ call.report.specs # << >>
      /\ \A i \in DOMAIN call.report.specs :
            LET tests == call.report.specs[i].tests
            IN  tests # << >> /\ Head(tests).status = "unexpected" => Head(tests).error)
=============================================================================
