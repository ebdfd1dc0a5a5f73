------------------------------ MODULE TestRuns ------------------------------
(***************************************************************************)
(* POST /v1/integration-test-runs and POST /v1/e2e-test-runs, and the      *)
(* reads of both over one projects table: latest comparison, a run by its  *)
(* ID, the list of runs and the heatmap.  The two kinds keep their runs    *)
(* and spec results in tables of their own.                                *)
(*                                                                         *)
(* A step is a statement, as in CoverageIngest, except where rows that     *)
(* never change once they are committed let statements be taken together:  *)
(* the transaction that writes a run and its specs is one step (it is      *)
(* taken apart in CoverageIngest), and the specs of a committed run are    *)
(* read in the step that finds the run.  A read's first statement is part  *)
(* of the step that receives it.                                           *)
(***************************************************************************)
EXTENDS TestRunDomain

CONSTANTS
    Requests,       \* submissions, each handled at most once
    Readers,        \* reads, each handled at most once
    Questions,      \* filters and limits of the lists and heatmaps asked for
    Keys,           \* project keys
    Branches,       \* branch names
    MainBranch,     \* domain.DefaultBranch, "main"
    Times,          \* client-supplied run timestamps
    Inputs,         \* request bodies that are submitted
    Faulty          \* whether statements may fail and the server may crash

TestRunInput ==
    [kind: Kinds, projectKey: Keys \cup {None}, defaultBranch: Branches \cup {None},
     branch: Branches \cup {None}, triggerType: {"push", "pr", "manual", "cron"},
     runTimestamp: Times \cup {None},
     environment: {None, "test", "stage", "prod", "qa"},
     platform: {None, "web", "android", "ios", "desktop"},
     specs: Seq(SpecReport)]
Project == [id: Requests, projectKey: Keys, defaultBranch: Branches]
TestRun == [kind: Kinds, projectId: Requests, branch: Branches, runTimestamp: Times,
            createdAt: Nat, totalSpecs: Nat, passedSpecs: Nat, failedSpecs: Nat,
            skippedSpecs: Nat, flakedSpecs: Nat, pendingSpecs: Nat,
            interrupted: BOOLEAN, timedOut: BOOLEAN, status: {"passed", "failed"},
            environment: {None, "test", "stage", "prod", "qa"}]
Stages == {"get_project", "create_project", "get_baseline", "build_run",
           "persist", "respond"}

\* The query parameters of a list or a heatmap; limit is pageSize or
\* runsPerProject, 0 when there is none.
Question == [branch: Branches \cup {None}, status: {None, "passed", "failed", "other"},
             environment: {None, "test", "stage", "prod", "none", "other"},
             specType: SpecTypes \cup {"other"}, limit: Int]

ASSUME TestRunInputs ==
    /\ MainBranch \in Branches
    /\ Times \subseteq Nat
    /\ \A in \in Inputs : in \in TestRunInput
    /\ Questions \subseteq Question
    /\ Faulty \in BOOLEAN
    /\ IsFiniteSet(Requests)
    /\ None \notin Requests \cup Readers \cup Keys \cup Branches \cup Times
    /\ None \notin Project

VARIABLES
    projects,       \* table projects, by id
    runs,           \* tables integration_test_runs and e2e_test_runs, by id
    specs,          \* tables of spec results, the rows of each run
    clock,          \* the server's clock
    pc, input, project, created, baseline, run, resp,   \* of each submission
    rpc, query, rproject, rrun, ranswer,                \* of each read
    before          \* history: the runs committed when the read began

tables == <<projects, runs, specs>>
locals == <<input, project, created, baseline, run>>
reads  == <<rpc, query, rproject, rrun, ranswer, before>>
vars   == <<tables, clock, pc, locals, resp, reads>>

-----------------------------------------------------------------------------
(* Queries. *)

Committed(kind) == {c \in Requests : runs[c] # None /\ runs[c].kind = kind}
RunsOf(kind, projectId) == {c \in Committed(kind) : runs[c].projectId = projectId}
RunsOn(kind, projectId, branch) ==
    {c \in RunsOf(kind, projectId) : runs[c].branch = branch}
Latest(ids) == {c \in ids : \A d \in ids : ~Newer(runs[d], runs[c])}

ProjectsWithKey(key) ==
    {p \in Requests : projects[p] # None /\ projects[p].projectKey = key}

\* Mutant: project_key has no UNIQUE constraint.
NoUniqueIndex(r) == TRUE

\* projects.project_key is UNIQUE.
UniqueKeyHolds(r) == ProjectsWithKey(input[r].projectKey) = {}

\* Mutant: the query asks for failed specs only.
ListOnlyFailed(id) == OnlyFailed(specs[id])

\* WHERE ... state IN ('failed', 'flaky')
ListFailedByRunID(id) == FailedPaths(specs[id])

-----------------------------------------------------------------------------
(* A submission. *)

Goto(r, stage) == pc' = [pc EXCEPT ![r] = stage]
Answer(r, response) ==
    /\ resp' = [resp EXCEPT ![r] = response]
    /\ Goto(r, "done")
InternalError(r) == Answer(r, [code |-> "INTERNAL", stage |-> pc[r]])

Init ==
    /\ projects = [p \in Requests |-> None]
    /\ runs = [c \in Requests |-> None]
    /\ specs = [c \in Requests |-> << >>]
    /\ clock = 0
    /\ pc = [r \in Requests |-> "idle"]
    /\ input = [r \in Requests |-> None]
    /\ project = [r \in Requests |-> None]
    /\ created = [r \in Requests |-> FALSE]
    /\ baseline = [r \in Requests |-> None]
    /\ run = [r \in Requests |-> None]
    /\ resp = [r \in Requests |-> None]
    /\ rpc = [rd \in Readers |-> "idle"]
    /\ query = [rd \in Readers |-> None]
    /\ rproject = [rd \in Readers |-> None]
    /\ rrun = [rd \in Readers |-> None]
    /\ ranswer = [rd \in Readers |-> None]
    /\ before = [rd \in Readers |-> {}]

Receive(r, in) ==
    /\ pc[r] = "idle"
    /\ input' = [input EXCEPT ![r] = in]
    /\ IF ValidReport(in)
       THEN Goto(r, "get_project") /\ UNCHANGED resp
       ELSE Answer(r, [code |-> "INVALID_ARGUMENT", stage |-> "validate"])
    /\ UNCHANGED <<tables, clock, project, created, baseline, run, reads>>

GetProject(r) ==
    /\ pc[r] = "get_project"
    /\ LET found == ProjectsWithKey(input[r].projectKey)
       IN  \/ /\ found = {}
              /\ Goto(r, "create_project")
              /\ UNCHANGED project
           \/ \E p \in found :
              /\ project' = [project EXCEPT ![r] = projects[p]]
              /\ Goto(r, "get_baseline")
    /\ UNCHANGED <<tables, clock, input, created, baseline, run, resp, reads>>

\* The project resolveOrCreate... builds for an unknown key.
NewProject(r) ==
    [id |-> r, projectKey |-> input[r].projectKey,
     defaultBranch |-> IF input[r].defaultBranch = None THEN MainBranch
                       ELSE input[r].defaultBranch]

CreateProject(r) ==
    /\ pc[r] = "create_project"
    /\ UniqueKeyHolds(r)
    /\ projects' = [projects EXCEPT ![r] = NewProject(r)]
    /\ project' = [project EXCEPT ![r] = NewProject(r)]
    /\ created' = [created EXCEPT ![r] = TRUE]
    /\ Goto(r, "get_baseline")
    /\ UNCHANGED <<runs, specs, clock, input, baseline, run, resp, reads>>

CreateProjectConflict(r) ==
    /\ pc[r] = "create_project"
    /\ ~UniqueKeyHolds(r)
    /\ InternalError(r)
    /\ UNCHANGED <<tables, clock, locals, reads>>

\* The latest run of the same kind on the default branch.
GetBaseline(r) ==
    /\ pc[r] = "get_baseline"
    /\ LET found == RunsOn(input[r].kind, project[r].id, project[r].defaultBranch)
       IN  \/ found = {} /\ UNCHANGED baseline
           \/ \E c \in Latest(found) : baseline' = [baseline EXCEPT ![r] = c]
    /\ Goto(r, "build_run")
    /\ UNCHANGED <<tables, clock, input, project, created, run, resp, reads>>

\* buildIntegrationEntities; an end-to-end run keeps PendingSpecs at its zero.
NewRun(r, now) ==
    LET in == input[r]
        results == Results(in.specs)
    IN  [kind         |-> in.kind,
         projectId    |-> project[r].id,
         branch       |-> in.branch,
         runTimestamp |-> in.runTimestamp,
         createdAt    |-> now,
         environment  |-> in.environment,
         totalSpecs   |-> Len(results),
         passedSpecs  |-> CountOf(results, "passed"),
         failedSpecs  |-> CountOf(results, "failed"),
         skippedSpecs |-> CountOf(results, "skipped"),
         flakedSpecs  |-> CountOf(results, "flaky"),
         pendingSpecs |-> IF in.kind = "e2e" THEN 0 ELSE CountOf(results, "pending"),
         interrupted  |-> Some(in.specs, "interrupted"),
         timedOut     |-> Some(in.specs, "timedout"),
         status       |-> EvaluateRunStatus(CountOf(results, "failed"),
                              Some(in.specs, "interrupted"),
                              Some(in.specs, "timedout"))]

BuildRun(r) ==
    /\ pc[r] = "build_run"
    /\ clock' \in {clock, clock + 1}
    /\ run' = [run EXCEPT ![r] = NewRun(r, clock')]
    /\ Goto(r, "persist")
    /\ UNCHANGED <<tables, input, project, created, baseline, resp, reads>>

\* Mutant: the specs of another attempt at the same path overwrite the first.
StoreWithoutRepeats(r) ==
    LET all == Results(input[r].specs)
    IN  /\ runs' = [runs EXCEPT ![r] = run[r]]
        /\ specs' = [specs EXCEPT ![r] = SelectSeq(all, LAMBDA s :
              \A i \in DOMAIN all : all[i].specPath = s.specPath => all[i] = s)]

Store(r) ==
    /\ runs' = [runs EXCEPT ![r] = run[r]]
    /\ specs' = [specs EXCEPT ![r] = Results(input[r].specs)]

Persist(r) ==
    /\ pc[r] = "persist"
    /\ SatisfiesChecks(input[r])
    /\ Store(r)
    /\ Goto(r, "respond")
    /\ UNCHANGED <<projects, clock, locals, resp, reads>>

\* Mutant: the run was not written in the transaction the refused row ends.
RefusedButStored(r) ==
    /\ pc[r] = "persist"
    /\ ~SatisfiesChecks(input[r])
    /\ Store(r)
    /\ InternalError(r)
    /\ UNCHANGED <<projects, clock, locals, reads>>

\* The database refuses a row of a report that was validated: rolled back.
PersistRefused(r) ==
    /\ pc[r] = "persist"
    /\ ~SatisfiesChecks(input[r])
    /\ InternalError(r)
    /\ UNCHANGED <<tables, clock, locals, reads>>

\* buildIntegrationComparison and the rest of the output.
ComparisonWith(current, previous, compared) ==
    [previousPassRatePercent |-> previous,
     currentPassRatePercent  |-> current,
     direction               |-> Direction(current, previous),
     newFailures             |-> compared.newFailures,
     resolvedFailures        |-> compared.resolvedFailures]
PassRate(row) == calculatePassRate(row.passedSpecs, row.totalSpecs)
NoFailures == [newFailures |-> 0, resolvedFailures |-> 0]

TestRunOutput(r) ==
    LET failed == FailedPaths(Results(input[r].specs))
        base == baseline[r]
    IN  [code |-> "OK", project |-> project[r].id, created |-> created[r], run |-> r,
         failedSpecs |-> failed,
         comparison |-> ComparisonWith(PassRate(run[r]),
             IF base = None THEN None ELSE PassRate(runs[base]),
             IF base = None THEN NoFailures
             ELSE compareFailedSpecs(ListFailedByRunID(base), failed))]

Respond(r) ==
    /\ pc[r] = "respond"
    /\ Answer(r, TestRunOutput(r))
    /\ UNCHANGED <<tables, clock, locals, reads>>

\* A statement fails: without effect, or with its reply lost.
StatementFails(r) ==
    /\ Faulty
    /\ pc[r] \in Stages \ {"respond"}
    /\ InternalError(r)
    /\ \/ UNCHANGED tables
       \/ /\ pc[r] = "create_project"
          /\ UniqueKeyHolds(r)
          /\ projects' = [projects EXCEPT ![r] = NewProject(r)]
          /\ UNCHANGED <<runs, specs>>
       \/ /\ pc[r] = "persist"
          /\ SatisfiesChecks(input[r])
          /\ Store(r)
          /\ UNCHANGED projects
    /\ UNCHANGED <<clock, locals, reads>>

-----------------------------------------------------------------------------
(* Reads. *)

ReadAnswer(rd, answer) ==
    /\ ranswer' = [ranswer EXCEPT ![rd] = answer]
    /\ rpc' = [rpc EXCEPT ![rd] = "done"]

\* What the request names: a kind, and a project, a run or a question.
Receives(rd, what) ==
    /\ rpc[rd] = "idle"
    /\ query' = [query EXCEPT ![rd] = what]
    /\ before' = [before EXCEPT ![rd] = Committed(what.kind)]
    /\ UNCHANGED <<tables, clock, pc, locals, resp, rrun>>

\* The latest comparison: the project is looked up first.
ReceiveRead(rd, kind, id) ==
    /\ Receives(rd, [about |-> "latest", kind |-> kind, projectId |-> id])
    /\ IF projects[id] = None
       THEN /\ ReadAnswer(rd, [code |-> "NOT_FOUND"])
            /\ UNCHANGED rproject
       ELSE /\ rproject' = [rproject EXCEPT ![rd] = projects[id]]
            /\ rpc' = [rpc EXCEPT ![rd] = "get_run"]
            /\ UNCHANGED ranswer

\* runs.GetLatestByProject, whatever the branch.
ReadRun(rd) ==
    /\ rpc[rd] = "get_run"
    /\ LET found == RunsOf(query[rd].kind, query[rd].projectId)
       IN  \/ /\ found = {}
              /\ ReadAnswer(rd, [code |-> "NOT_FOUND"])
              /\ UNCHANGED rrun
           \/ \E c \in Latest(found) :
              /\ rrun' = [rrun EXCEPT ![rd] = c]
              /\ rpc' = [rpc EXCEPT ![rd] = "get_baseline"]
              /\ UNCHANGED ranswer
    /\ UNCHANGED <<tables, clock, pc, locals, resp, query, rproject, before>>

\* What is answered about run c against base, None for no baseline.
ReadOutput(c, base) ==
    [code |-> "OK", run |-> c, base |-> base,
     failedSpecs |-> ListFailedByRunID(c),
     comparison |-> ComparisonWith(PassRate(runs[c]),
         IF base = None THEN None ELSE PassRate(runs[base]),
         IF base = None THEN NoFailures
         ELSE compareFailedSpecs(ListFailedByRunID(base), ListFailedByRunID(c)))]

\* The latest default-branch run is the baseline, unless it is the run itself.
ReadBaseline(rd) ==
    /\ rpc[rd] = "get_baseline"
    /\ LET found == RunsOn(query[rd].kind, query[rd].projectId,
                           rproject[rd].defaultBranch)
           latest == IF found = {} THEN {None} ELSE Latest(found)
       IN  \E c \in latest :
              ReadAnswer(rd, ReadOutput(rrun[rd], IF c = rrun[rd] THEN None ELSE c))
    /\ UNCHANGED <<tables, clock, pc, locals, resp, query, rproject, rrun, before>>

-----------------------------------------------------------------------------
(* A run by its ID, lists and heatmaps. *)

\* runs.GetByID, and what ListByRunID finds failed in it; there is no baseline.
ReadByID(rd, kind, id, c) ==
    /\ Receives(rd, [about |-> "run", kind |-> kind, projectId |-> id, run |-> c])
    /\ ReadAnswer(rd, IF c \in RunsOf(kind, id) THEN ReadOutput(c, None)
                      ELSE [code |-> "NOT_FOUND"])
    /\ UNCHANGED rproject

\* Integration runs may be asked for that have no environment, end-to-end runs
\* by the type of their specs; integration ignores the type.
ValidFilter(kind, q) ==
    /\ q.status # "other"
    /\ q.environment # "other"
    /\ q.environment = "none" => kind = "integration"
    /\ kind = "e2e" => q.specType # "other"

HasSpecOf(kind, q, c) ==
    \/ kind = "integration"
    \/ q.specType = ""
    \/ \E i \in DOMAIN specs[c] : specs[c][i].specType = q.specType

EnvironmentOf(row) == IF row.environment = None THEN "none" ELSE row.environment

\* The WHERE clause of a list, and that of a heatmap, which has no environment.
Listable(kind, id, q) ==
    {c \in RunsOf(kind, id) :
        /\ q.branch \in {None, runs[c].branch}
        /\ q.status \in {None, runs[c].status}
        /\ q.environment \in {None, EnvironmentOf(runs[c])}
        /\ HasSpecOf(kind, q, c)}
Mappable(kind, id, q) == Listable(kind, id, [q EXCEPT !.environment = None])

Smaller(m, n) == IF m <= n THEN m ELSE n
EffectiveLimit(limit, default, most) == IF limit <= 0 THEN default ELSE Smaller(limit, most)

\* The sets that the first n of ids in order of time may be.
Newest(ids, n) ==
    {top \in SUBSET ids :
        /\ Cardinality(top) = Smaller(n, Cardinality(ids))
        /\ \A c \in ids \ top, d \in top : ~Newer(runs[c], runs[d])}

\* The sequences of a set of runs.
Orders(ids) ==
    {order \in [1 .. Cardinality(ids) -> ids] :
        \A m, n \in DOMAIN order : order[m] = order[n] => m = n}

\* SELECT COUNT(*) of the list; a filter the use case does not know is refused.
CountRuns(rd, kind, id, q) ==
    /\ Receives(rd, [about |-> "list", kind |-> kind, projectId |-> id, question |-> q,
                     total |-> Cardinality(Listable(kind, id, q))])
    /\ IF ValidFilter(kind, q)
       THEN rpc' = [rpc EXCEPT ![rd] = "list_runs"] /\ UNCHANGED ranswer
       ELSE ReadAnswer(rd, [code |-> "INVALID_ARGUMENT"])
    /\ UNCHANGED rproject

\* The first page.
ListRuns(rd) ==
    /\ rpc[rd] = "list_runs"
    /\ LET q == query[rd].question
           ids == Listable(query[rd].kind, query[rd].projectId, q)
       IN  \E page \in Newest(ids, EffectiveLimit(q.limit, 20, 100)) :
           \E items \in Orders(page) :
             /\ \A m, n \in DOMAIN items : m < n => ~Newer(runs[items[n]], runs[items[m]])
             /\ ReadAnswer(rd, [code |-> "LIST", items |-> items,
                                total |-> query[rd].total])
    /\ UNCHANGED <<tables, clock, pc, locals, resp, query, rproject, rrun, before>>

\* Mutant: runs are ranked before they are filtered.
RankedOfAll(kind, id, q, n) ==
    {top \cap Mappable(kind, id, q) : top \in Newest(RunsOf(kind, id), n)}

\* ROW_NUMBER() OVER (PARTITION BY project_id ...) among the rows of the filter.
Ranked(kind, id, q, n) == Newest(Mappable(kind, id, q), n)

\* One statement ranks the runs of each project; its answer is ordered by
\* run_timestamp alone.
ReadHeatmap(rd, kind, q) ==
    /\ Receives(rd, [about |-> "heatmap", kind |-> kind, question |-> q])
    /\ IF ValidFilter(kind, [q EXCEPT !.environment = None])
       THEN \E tile \in [Requests -> SUBSET Requests] :
            /\ \A p \in Requests :
                  tile[p] \in Ranked(kind, p, q, EffectiveLimit(q.limit, 10, 30))
            /\ \E row \in [Requests -> UNION {Orders(tile[p]) : p \in Requests}] :
                  /\ \A p \in Requests :
                        /\ row[p] \in Orders(tile[p])
                        /\ \A m, n \in DOMAIN row[p] : m < n =>
                              runs[row[p][m]].runTimestamp >= runs[row[p][n]].runTimestamp
                  /\ ReadAnswer(rd, [code |-> "HEATMAP", rows |-> row])
       ELSE ReadAnswer(rd, [code |-> "INVALID_ARGUMENT"])
    /\ UNCHANGED rproject

-----------------------------------------------------------------------------
(* Failures and the whole. *)

InFlight == {r \in Requests : pc[r] \in Stages}
ReadStages == {"get_run", "get_baseline", "list_runs"}

\* A statement of a read fails, after its first: a read that fails at that is
\* one that never was.
ReadFails(rd) ==
    /\ Faulty
    /\ rpc[rd] \in ReadStages
    /\ ReadAnswer(rd, [code |-> "INTERNAL"])
    /\ UNCHANGED <<tables, clock, pc, locals, resp, query, rproject, rrun, before>>

Crash ==
    /\ Faulty
    /\ InFlight # {}
    /\ pc' = [r \in Requests |-> IF r \in InFlight THEN "lost" ELSE pc[r]]
    /\ rpc' = [rd \in Readers |-> IF rpc[rd] \in ReadStages THEN "lost" ELSE rpc[rd]]
    /\ UNCHANGED <<tables, clock, locals, resp, query, rproject, rrun, ranswer, before>>

Step(r) ==
    \/ GetProject(r)
    \/ CreateProject(r)
    \/ CreateProjectConflict(r)
    \/ GetBaseline(r)
    \/ BuildRun(r)
    \/ Persist(r)
    \/ PersistRefused(r)
    \/ Respond(r)

Ask(rd) ==
    \/ \E kind \in Kinds, id \in Requests :
        \/ ReceiveRead(rd, kind, id)
        \/ \E c \in Requests : ReadByID(rd, kind, id, c)
        \/ \E q \in Questions : CountRuns(rd, kind, id, q)
    \/ \E kind \in Kinds, q \in Questions : ReadHeatmap(rd, kind, q)
ReadStep(rd) ==
    \/ ReadRun(rd)
    \/ ReadBaseline(rd)
    \/ ListRuns(rd)
    \/ ReadFails(rd)

Terminating ==
    /\ \A r \in Requests : pc[r] \in {"done", "lost"}
    /\ \A rd \in Readers : rpc[rd] \in {"done", "lost"}
    /\ UNCHANGED vars

Next ==
    \/ \E r \in Requests :
        \/ \E in \in Inputs : Receive(r, in)
        \/ Step(r)
        \/ StatementFails(r)
    \/ \E rd \in Readers : Ask(rd) \/ ReadStep(rd)
    \/ Crash
    \/ Terminating

Spec == Init /\ [][Next]_vars

-----------------------------------------------------------------------------
(* Properties. *)

Code(r) == IF resp[r] = None THEN "none" ELSE resp[r].code
ReadCode(rd) == IF ranswer[rd] = None THEN "none" ELSE ranswer[rd].code
Rows(c, states) == {i \in DOMAIN specs[c] : specs[c][i].state \in states}
PathsIn(c, states) == {specs[c][i].specPath : i \in Rows(c, states)}

\* Rows and locals have values of their types.
TypeOK ==
    /\ projects \in [Requests -> Project \cup {None}]
    /\ runs \in [Requests -> TestRun \cup {None}]
    /\ specs \in [Requests -> Seq(SpecResult)]
    /\ clock \in Nat
    /\ pc \in [Requests -> Stages \cup {"idle", "done", "lost"}]
    /\ input \in [Requests -> TestRunInput \cup {None}]
    /\ project \in [Requests -> Project \cup {None}]
    /\ run \in [Requests -> TestRun \cup {None}]
    /\ baseline \in [Requests -> Requests \cup {None}]
    /\ rpc \in [Readers -> ReadStages \cup {"idle", "done", "lost"}]
    /\ rrun \in [Readers -> Requests \cup {None}]

\* Submissions of both kinds for one key share one project, however they race.
OneProjectPerKey ==
    \A p, q \in Requests :
        /\ projects[p] # None
        /\ projects[q] # None
        /\ projects[p].projectKey = projects[q].projectKey
        => p = q

\* What a run's row says of its specs is true of the stored specs: none is lost
\* to a repeated path, the counters add up to the total but for the pending specs
\* of an end-to-end run, and the run is passed exactly when nothing the report
\* marked as failed, panicked, interrupted or timed out is in it.
SummaryTellsSpecs ==
    \A c \in Requests : runs[c] # None =>
        LET row == runs[c]
            sum == row.passedSpecs + row.failedSpecs + row.skippedSpecs
                       + row.flakedSpecs + row.pendingSpecs
        IN  /\ row.totalSpecs = Len(specs[c])
            /\ row.failedSpecs = Cardinality(Rows(c, {"failed"}))
            /\ row.flakedSpecs = Cardinality(Rows(c, {"flaky"}))
            /\ row.totalSpecs - sum = IF row.kind = "integration" THEN 0
                                      ELSE Cardinality(Rows(c, {"pending"}))
            /\ row.status = "passed" <=>
                  \A i \in DOMAIN input[c].specs : input[c].specs[i].state \notin
                      {"failed", "panicked", "interrupted", "timedout"}

\* The answer to a submission balances with the tables: failing paths of the
\* baseline, plus the new ones, less the resolved ones, are the failing paths
\* of the run.
FailuresBalance ==
    \A r \in Requests : Code(r) = "OK" /\ baseline[r] # None =>
        Cardinality(PathsIn(baseline[r], {"failed", "flaky"}))
            + resp[r].comparison.newFailures - resp[r].comparison.resolvedFailures
        = Cardinality(PathsIn(r, {"failed", "flaky"}))

\* A read of a run answers what its submission was answered, though one works
\* from the report and the other from the rows: the same failed specs and pass
\* rate, and the same comparison if both found the same baseline.
ReadAgreesWithAnswer ==
    \A rd \in Readers, r \in Requests :
        /\ ReadCode(rd) = "OK"
        /\ ranswer[rd].run = r
        /\ Code(r) = "OK"
        => LET read == ranswer[rd].comparison
               told == resp[r].comparison
           IN  /\ ranswer[rd].failedSpecs = resp[r].failedSpecs
               /\ read.currentPassRatePercent = told.currentPassRatePercent
               /\ ranswer[rd].base = baseline[r] => read = told

\* What was committed when a read began is missed for one reason only: the
\* limit is taken by other matches, none of them older.  COUNT and LIST, the rank
\* within a project and the filters on the run and on its specs stand between a
\* run and its place.
Missed(ids, items, limit) ==
    \E c \in ids : /\ \A n \in DOMAIN items : items[n] # c
                   /\ \/ Len(items) < limit
                      \/ \E n \in DOMAIN items : Newer(runs[c], runs[items[n]])
MissesNothing(ask, answer, seen) ==
    LET q == ask.question
    IN  /\ ask.about \in {"latest", "run"} /\ answer.code = "NOT_FOUND" =>
              \A c \in seen :
                  runs[c].projectId = ask.projectId => ask.about = "run" /\ c # ask.run
        /\ answer.code = "LIST" =>
              LET ids == seen \cap Listable(ask.kind, ask.projectId, q)
              IN  /\ ~Missed(ids, answer.items, EffectiveLimit(q.limit, 20, 100))
                  /\ answer.total >= Cardinality(ids)
        /\ answer.code = "HEATMAP" =>
              \A p \in Requests : ~Missed(seen \cap Mappable(ask.kind, p, q),
                                          answer.rows[p], EffectiveLimit(q.limit, 10, 30))
ReadsMissNothing ==
    \A rd \in Readers :
        ranswer[rd] # None => MissesNothing(query[rd], ranswer[rd], before[rd])

\* A report the tables cannot hold passes validation, and its project may have
\* been created for it, but it leaves no run and no specs behind.
RefusedLeavesNoRun ==
    \A r \in Requests :
        input[r] # None /\ ~SatisfiesChecks(input[r])
        => runs[r] = None /\ specs[r] = << >> /\ Code(r) # "OK"

-----------------------------------------------------------------------------
(* What the properties rest on: the inductive invariant of the proofs.     *)

\* A run that is stored: its transaction is behind it, nothing writes to its rows
\* any more, and they are made from its report.
IsStored(c) ==
    /\ c \in Requests
    /\ pc[c] \in {"respond", "done", "lost"}
    /\ ValidReport(input[c])
    /\ SatisfiesChecks(input[c])
    /\ project[c] \in Project
    /\ run[c] = NewRun(c, run[c].createdAt)
    /\ runs[c] = run[c]
    /\ specs[c] = Results(input[c].specs)

\* Where a submission is tells what it holds and what it has written.
SubmissionInv(r) ==
    /\ IF pc[r] = "idle" THEN input[r] = None ELSE input[r] \in TestRunInput
    /\ pc[r] \in Stages => ValidReport(input[r])
    /\ pc[r] \in {"get_baseline", "build_run", "persist"} => project[r] \in Project
    /\ pc[r] = "persist" => run[r] = NewRun(r, run[r].createdAt)
    /\ pc[r] = "respond" => IsStored(r)
    /\ runs[r] # None \/ specs[r] # << >> => IsStored(r)
    /\ baseline[r] # None => IsStored(baseline[r])
    /\ Code(r) = "OK" => IsStored(r) /\ resp[r] = TestRunOutput(r)

\* What a read has found is stored, and its answer is made from that.
ReaderInv(rd) ==
    /\ rpc[rd] = "get_baseline" => IsStored(rrun[rd])
    /\ ReadCode(rd) = "OK" =>
          /\ rpc[rd] = "done"
          /\ IsStored(ranswer[rd].run)
          /\ ranswer[rd].base # None => IsStored(ranswer[rd].base)
          /\ ranswer[rd] = ReadOutput(ranswer[rd].run, ranswer[rd].base)

RunsInv ==
    /\ TypeOK
    /\ DOMAIN resp = Requests /\ DOMAIN ranswer = Readers
    /\ OneProjectPerKey
    /\ \A r \in Requests : SubmissionInv(r)
    /\ \A rd \in Readers : ReaderInv(rd)

\* A run belongs to a project that is there, under its own ID.
OwnersExist ==
    /\ \A p \in Requests : projects[p] # None => projects[p].id = p
    /\ \A c \in Requests :
          pc[c] \in {"get_baseline", "build_run", "persist"} \/ runs[c] # None =>
              projects[project[c].id] # None

StoredRuns == {c \in Requests : runs[c] # None}
NamesStored(answer) ==
    /\ answer.code = "LIST" => \A n \in DOMAIN answer.items : answer.items[n] \in StoredRuns
    /\ answer.code = "HEATMAP" =>
          \A p \in Requests : \A n \in DOMAIN answer.rows[p] : answer.rows[p][n] \in StoredRuns

\* A read has seen, found and answered stored runs only, and has missed nothing.
SearchInv(rd) ==
    /\ before[rd] \subseteq StoredRuns
    /\ rpc[rd] \in ReadStages \cup {"idle"} => ranswer[rd] = None
    /\ rpc[rd] = "get_run" =>
          query[rd].about = "latest" /\ before[rd] \subseteq Committed(query[rd].kind)
    /\ rpc[rd] = "list_runs" =>
          /\ query[rd].about = "list" /\ query[rd].question \in Questions
          /\ query[rd].total >= Cardinality(before[rd] \cap
                 Listable(query[rd].kind, query[rd].projectId, query[rd].question))
    /\ ranswer[rd] # None =>
          NamesStored(ranswer[rd]) /\ MissesNothing(query[rd], ranswer[rd], before[rd])

SeekInv ==
    /\ RunsInv
    /\ OwnersExist
    /\ DOMAIN query = Readers /\ DOMAIN before = Readers
    /\ \A rd \in Readers : SearchInv(rd)

=============================================================================
