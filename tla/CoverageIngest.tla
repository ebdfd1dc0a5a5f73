--------------------------- MODULE CoverageIngest ---------------------------
(***************************************************************************)
(* POST /v1/coverage-runs as a set of concurrent requests over one         *)
(* PostgreSQL database.  A step is one statement the use case sends to the *)
(* database, or the local work between two of them; every statement        *)
(* outside a transaction commits at once and reads what is committed       *)
(* (READ COMMITTED, autocommit).                                           *)
(*                                                                         *)
(* idgen.NewID is a fresh UUID per call and a request draws at most one    *)
(* project ID and one run ID, so a request's own name stands for both: the *)
(* tables are functions from the primary key, the request that made it, to *)
(* the row, None where there is no row.                                    *)
(***************************************************************************)
EXTENDS CoverageDomain

CONSTANTS
    Requests,       \* submissions the server handles, each at most once
    Keys,           \* project keys
    Branches,       \* branch names
    MainBranch,     \* domain.DefaultBranch, "main"
    Paths,          \* package import paths
    Times,          \* client-supplied run timestamps
    Inputs,         \* request bodies that are submitted
    Faulty          \* whether statements may fail and the server may crash

\* A decoded request body.
IngestInput ==
    [projectKey: Keys \cup {None}, defaultBranch: Branches \cup {None},
     thresholdPercent: Int \cup {None}, branch: Branches \cup {None},
     commitSha: {"sha", None}, triggerType: {"push", "pr", "manual", "cron"},
     runTimestamp: Times \cup {None}, totalCoveragePercent: Int,
     packages: SUBSET [importPath: Paths \cup {None}, coveragePercent: Int]]

Project  == [id: Requests, projectKey: Keys, defaultBranch: Branches,
             globalThresholdPercent: Int]
CoverageRun == [projectId: Requests, branch: Branches, runTimestamp: Times,
                createdAt: Nat, totalCoveragePercent: Int]
PackageCoverage == [importPath: Paths, coveragePercent: Int]

Stages == {"get_project", "create_project", "update_threshold",
           "get_baseline", "list_baseline_packages", "build_run",
           "insert_run", "insert_packages", "commit", "respond"}

\* What the handler answers: an AppError and where it arose, or the output.
ErrorAnswer == [code: {"INTERNAL", "INVALID_ARGUMENT"}, stage: Stages \cup {"validate"}]
OkAnswer ==
    [code: {"OK"}, project: Requests, created: BOOLEAN, run: Requests,
     comparison: Comparison, packages: SUBSET PackageComparison(Paths)]

ASSUME NoneIsNoValue ==
    /\ None \notin Requests \cup Keys \cup Branches \cup Paths
    /\ None \notin Times \cup Int
    /\ None \notin Project \cup CoverageRun \cup IngestInput
    /\ None \notin ErrorAnswer \cup OkAnswer
    /\ None \notin [run: CoverageRun, packages: SUBSET PackageCoverage]
ASSUME DomainOfInputs ==
    /\ MainBranch \in Branches
    /\ Times \subseteq Nat
    /\ Inputs \subseteq IngestInput
    /\ Faulty \in BOOLEAN

VARIABLES
    projects,       \* table projects, by id
    runs,           \* table coverage_runs, by id
    packages,       \* table package_coverages, the rows of each run_id
    clock,          \* the server's clock
    pc,             \* where each request is
    input,          \* its decoded body
    project,        \* local variable project
    created,        \* local variable created
    baseline,       \* local variable baselineRun: the ID of the row
    basePackages,   \* local variable baselinePackages
    run,            \* local variable run
    tx,             \* rows its open transaction wrote, not yet committed
    resp,           \* the answer the handler wrote
    seen            \* history: the runs committed when the request arrived

tables == <<projects, runs, packages>>
locals == <<input, project, created, baseline, basePackages, run>>
vars   == <<tables, clock, pc, locals, tx, resp, seen>>

-----------------------------------------------------------------------------
(* Queries. *)

ProjectsWithKey(key) ==
    {p \in Requests : projects[p] # None /\ projects[p].projectKey = key}

RunsOn(projectId, branch) ==
    {c \in Requests : /\ runs[c] # None
                      /\ runs[c].projectId = projectId
                      /\ runs[c].branch = branch}

\* Mutant: the sort key run_timestamp is forgotten.
LatestCreated(ids) ==
    {c \in ids : \A d \in ids : runs[d].createdAt <= runs[c].createdAt}

\* The rows LIMIT 1 may return: rows equal in both sort keys are a tie.
Latest(ids) == {c \in ids : \A d \in ids : ~Newer(runs[d], runs[c])}

\* Mutant: project_key has no UNIQUE constraint.
NoUniqueIndex(r) == TRUE

\* projects.project_key is UNIQUE: an INSERT with the key of a row is refused.
UniqueKeyHolds(r) == ProjectsWithKey(input[r].projectKey) = {}

-----------------------------------------------------------------------------
(* Control of a request. *)

InFlight == {r \in Requests : pc[r] \in Stages}
NoRows == [run |-> None, packages |-> {}]

Goto(r, stage) == pc' = [pc EXCEPT ![r] = stage]
Answer(r, response) ==
    /\ resp' = [resp EXCEPT ![r] = response]
    /\ pc' = [pc EXCEPT ![r] = "done"]
\* NewInternal at the stage reached; an open transaction is rolled back.
InternalError(r) ==
    /\ Answer(r, [code |-> "INTERNAL", stage |-> pc[r]])
    /\ tx' = [tx EXCEPT ![r] = NoRows]

Init ==
    /\ projects = [p \in Requests |-> None]
    /\ runs = [c \in Requests |-> None]
    /\ packages = [c \in Requests |-> {}]
    /\ clock = 0
    /\ pc = [r \in Requests |-> "idle"]
    /\ input = [r \in Requests |-> None]
    /\ project = [r \in Requests |-> None]
    /\ created = [r \in Requests |-> FALSE]
    /\ baseline = [r \in Requests |-> None]
    /\ basePackages = [r \in Requests |-> {}]
    /\ run = [r \in Requests |-> None]
    /\ tx = [r \in Requests |-> NoRows]
    /\ resp = [r \in Requests |-> None]
    /\ seen = [r \in Requests |-> {}]

\* The handler decodes the body and Execute validates it before anything else.
Receive(r, in) ==
    /\ pc[r] = "idle"
    /\ input' = [input EXCEPT ![r] = in]
    /\ seen' = [seen EXCEPT ![r] = {c \in Requests : runs[c] # None}]
    /\ IF ValidInput(in)
       THEN Goto(r, "get_project") /\ UNCHANGED resp
       ELSE Answer(r, [code |-> "INVALID_ARGUMENT", stage |-> "validate"])
    /\ UNCHANGED <<tables, clock, project, created, baseline, basePackages, run, tx>>

\* projects.GetByKey
GetProject(r) ==
    /\ pc[r] = "get_project"
    /\ LET found == ProjectsWithKey(input[r].projectKey)
       IN  \/ /\ found = {}
              /\ Goto(r, "create_project")
              /\ UNCHANGED project
           \/ \E p \in found :
              /\ project' = [project EXCEPT ![r] = projects[p]]
              /\ Goto(r, IF input[r].thresholdPercent # None
                         THEN "update_threshold" ELSE "get_baseline")
    /\ UNCHANGED <<tables, clock, input, created, baseline, basePackages, run,
                   tx, resp, seen>>

\* The project resolveOrCreateProject builds for an unknown key.
NewProject(r) ==
    [id |-> r,
     projectKey |-> input[r].projectKey,
     defaultBranch |-> IF input[r].defaultBranch = None THEN MainBranch
                       ELSE input[r].defaultBranch,
     globalThresholdPercent |-> IF input[r].thresholdPercent = None
                                THEN DefaultThresholdPercent
                                ELSE input[r].thresholdPercent]
StoredProject(p) ==
    [p EXCEPT !.globalThresholdPercent = Stored(p.globalThresholdPercent)]

\* projects.Create, an autocommitted INSERT: the local copy keeps the
\* threshold as submitted, the row keeps it rounded.
CreateProject(r) ==
    /\ pc[r] = "create_project"
    /\ UniqueKeyHolds(r)
    /\ projects' = [projects EXCEPT ![r] = StoredProject(NewProject(r))]
    /\ project' = [project EXCEPT ![r] = NewProject(r)]
    /\ created' = [created EXCEPT ![r] = TRUE]
    /\ Goto(r, "get_baseline")
    /\ UNCHANGED <<runs, packages, clock, input, baseline, basePackages, run,
                   tx, resp, seen>>

\* Mutant: the conflicting INSERT is sent again and again.
ConflictRetriesInsert(r) ==
    /\ pc[r] = "create_project"
    /\ ~UniqueKeyHolds(r)
    /\ UNCHANGED vars

\* The key was inserted since GetByKey.
CreateProjectConflict(r) ==
    /\ pc[r] = "create_project"
    /\ ~UniqueKeyHolds(r)
    /\ InternalError(r)
    /\ UNCHANGED <<tables, clock, locals, seen>>

\* Mutant: the UPDATE matches no row.
UpdateNothing(r) == projects

\* projects.UpdateProjectThreshold: UPDATE ... WHERE id RETURNING the row.
UpdatedProjects(r) ==
    LET p == project[r].id IN
    [projects EXCEPT ![p] = [projects[p] EXCEPT !.globalThresholdPercent =
                                 Stored(input[r].thresholdPercent)]]

UpdateThreshold(r) ==
    /\ pc[r] = "update_threshold"
    /\ projects' = UpdatedProjects(r)
    /\ project' = [project EXCEPT ![r] = projects'[project[r].id]]
    /\ Goto(r, "get_baseline")
    /\ UNCHANGED <<runs, packages, clock, input, created, baseline,
                   basePackages, run, tx, resp, seen>>

\* runs.GetLatestByProjectAndBranch on the default branch.
GetBaseline(r) ==
    /\ pc[r] = "get_baseline"
    /\ LET found == RunsOn(project[r].id, project[r].defaultBranch)
       IN  \/ /\ found = {}
              /\ Goto(r, "build_run")
              /\ UNCHANGED baseline
           \/ \E c \in Latest(found) :
              /\ baseline' = [baseline EXCEPT ![r] = c]
              /\ Goto(r, "list_baseline_packages")
    /\ UNCHANGED <<tables, clock, input, project, created, basePackages, run,
                   tx, resp, seen>>

\* packages.ListByRunID of the baseline.
ListBaselinePackages(r) ==
    /\ pc[r] = "list_baseline_packages"
    /\ basePackages' = [basePackages EXCEPT ![r] = packages[baseline[r]]]
    /\ Goto(r, "build_run")
    /\ UNCHANGED <<tables, clock, input, project, created, baseline, run, tx,
                   resp, seen>>

\* The entities are built and BEGIN is sent.  The clock may or may not have
\* advanced since it was last read.
BuildRun(r) ==
    /\ pc[r] = "build_run"
    /\ clock' \in {clock, clock + 1}
    /\ run' = [run EXCEPT ![r] =
          [projectId |-> project[r].id,
           branch |-> input[r].branch,
           runTimestamp |-> input[r].runTimestamp,
           createdAt |-> clock',
           totalCoveragePercent |-> input[r].totalCoveragePercent]]
    /\ Goto(r, "insert_run")
    /\ UNCHANGED <<tables, input, project, created, baseline, basePackages, tx,
                   resp, seen>>

StoredRun(c) ==
    [c EXCEPT !.totalCoveragePercent = Stored(c.totalCoveragePercent)]

\* Mutant: runs.Create takes ctx instead of txCtx and commits at once.
InsertRunOutsideTx(r) ==
    /\ pc[r] = "insert_run"
    /\ runs' = [runs EXCEPT ![r] = StoredRun(run[r])]
    /\ tx' = [tx EXCEPT ![r].run = StoredRun(run[r])]
    /\ Goto(r, "insert_packages")
    /\ UNCHANGED <<projects, packages, clock, locals, resp, seen>>

\* runs.Create in the transaction.
InsertRun(r) ==
    /\ pc[r] = "insert_run"
    /\ tx' = [tx EXCEPT ![r].run = StoredRun(run[r])]
    /\ Goto(r, "insert_packages")
    /\ UNCHANGED <<tables, clock, locals, resp, seen>>

Pending(r) == StoredPackages(input[r].packages) \ tx[r].packages

\* One round of the loop of packages.CreateBatch in the transaction.
InsertPackage(r) ==
    /\ pc[r] = "insert_packages"
    /\ \E p \in Pending(r) :
        /\ tx' = [tx EXCEPT ![r].packages = @ \cup {p}]
        /\ Goto(r, IF Pending(r) = {p} THEN "commit" ELSE "insert_packages")
    /\ UNCHANGED <<tables, clock, locals, resp, seen>>

\* Mutant: the transaction is left without COMMIT.
ApplyNothing(r) == UNCHANGED <<runs, packages>>

\* Mutant: a report for the same branch replaces the one before it.
ApplyWithDeduplication(r) ==
    LET same == RunsOn(tx[r].run.projectId, tx[r].run.branch)
    IN  /\ runs' = [c \in Requests |-> IF c = r THEN tx[r].run
                                       ELSE IF c \in same THEN None ELSE runs[c]]
        /\ packages' = [c \in Requests |-> IF c = r THEN tx[r].packages
                                       ELSE IF c \in same THEN {} ELSE packages[c]]

\* COMMIT makes every row of the transaction visible at once.
ApplyTx(r) ==
    /\ runs' = [runs EXCEPT ![r] = tx[r].run]
    /\ packages' = [packages EXCEPT ![r] = tx[r].packages]

Commit(r) ==
    /\ pc[r] = "commit"
    /\ ApplyTx(r)
    /\ tx' = [tx EXCEPT ![r] = NoRows]
    /\ Goto(r, "respond")
    /\ UNCHANGED <<projects, clock, locals, resp, seen>>

\* The comparison is built from the local, unrounded values.
IngestOutput(r) ==
    LET previous == IF baseline[r] = None THEN None
                    ELSE runs[baseline[r]].totalCoveragePercent
    IN  [code       |-> "OK",
         project    |-> project[r].id,
         created    |-> created[r],
         run        |-> r,
         comparison |-> buildComparison(run[r].totalCoveragePercent, previous,
                                        project[r].globalThresholdPercent),
         packages   |-> buildPackageComparisons(input[r].packages, basePackages[r])]

Respond(r) ==
    /\ pc[r] = "respond"
    /\ Answer(r, IngestOutput(r))
    /\ UNCHANGED <<tables, clock, locals, tx, seen>>

-----------------------------------------------------------------------------
(* Faults.  A statement fails on a lost connection, a full pool or the     *)
(* request's deadline; the use case answers INTERNAL at once.              *)

\* The statement had no effect.
StatementFails(r) ==
    /\ Faulty
    /\ pc[r] \in Stages \ {"respond"}
    /\ InternalError(r)
    /\ UNCHANGED <<tables, clock, locals, seen>>

\* The statement took effect and its reply was lost.  Of the statements that
\* take effect at once: INSERT project, UPDATE project, COMMIT.
ReplyLost(r) ==
    /\ Faulty
    /\ \/ /\ pc[r] = "create_project"
          /\ UniqueKeyHolds(r)
          /\ projects' = [projects EXCEPT ![r] = StoredProject(NewProject(r))]
          /\ UNCHANGED <<runs, packages>>
       \/ /\ pc[r] = "update_threshold"
          /\ projects' = UpdatedProjects(r)
          /\ UNCHANGED <<runs, packages>>
       \/ /\ pc[r] = "commit"
          /\ ApplyTx(r)
          /\ UNCHANGED projects
    /\ InternalError(r)
    /\ UNCHANGED <<clock, locals, seen>>

\* The process dies: open transactions are rolled back by the database and
\* requests in flight are never answered.  The restarted server keeps nothing.
Crash ==
    /\ Faulty
    /\ InFlight # {}
    /\ pc' = [r \in Requests |-> IF r \in InFlight THEN "lost" ELSE pc[r]]
    /\ tx' = [r \in Requests |-> NoRows]
    /\ UNCHANGED <<tables, clock, locals, resp, seen>>

-----------------------------------------------------------------------------

Step(r) ==
    \/ GetProject(r)
    \/ CreateProject(r)
    \/ CreateProjectConflict(r)
    \/ UpdateThreshold(r)
    \/ GetBaseline(r)
    \/ ListBaselinePackages(r)
    \/ BuildRun(r)
    \/ InsertRun(r)
    \/ InsertPackage(r)
    \/ Commit(r)
    \/ Respond(r)

Finished == \A r \in Requests : pc[r] \in {"done", "lost"}

\* Every submission has been dealt with.
Terminating == Finished /\ UNCHANGED vars

Next ==
    \/ \E r \in Requests :
        \/ \E in \in Inputs : Receive(r, in)
        \/ Step(r)
        \/ StatementFails(r)
        \/ ReplyLost(r)
    \/ Crash
    \/ Terminating

Spec == Init /\ [][Next]_vars

\* net/http runs each handler in its own goroutine and no handler waits for
\* another, so a request whose next statement can run gets to run it.
FairSpec == Spec /\ \A r \in Requests : WF_vars(Step(r))

-----------------------------------------------------------------------------
(* Properties. *)

Code(r) == IF resp[r] = None THEN "none" ELSE resp[r].code
Owns(f, r) == f[r] # None
BaselineRead(r) ==
    \/ Code(r) = "OK"
    \/ pc[r] \in {"list_baseline_packages", "build_run", "insert_run",
                  "insert_packages", "commit", "respond"}

\* Every variable has values of its type.
TypeOK ==
    /\ projects \in [Requests -> Project \cup {None}]
    /\ runs \in [Requests -> CoverageRun \cup {None}]
    /\ packages \in [Requests -> SUBSET PackageCoverage]
    /\ clock \in Nat
    /\ pc \in [Requests -> Stages \cup {"idle", "done", "lost"}]
    /\ input \in [Requests -> IngestInput \cup {None}]
    /\ project \in [Requests -> Project \cup {None}]
    /\ created \in [Requests -> BOOLEAN]
    /\ baseline \in [Requests -> Requests \cup {None}]
    /\ basePackages \in [Requests -> SUBSET PackageCoverage]
    /\ run \in [Requests -> CoverageRun \cup {None}]
    /\ tx \in [Requests -> [run: CoverageRun \cup {None},
                            packages: SUBSET PackageCoverage]]
    /\ resp \in [Requests -> ErrorAnswer \cup OkAnswer \cup {None}]
    /\ seen \in [Requests -> SUBSET Requests]

\* Two projects never share a key, although the key is looked up and inserted
\* in two steps that other requests' lookups and inserts come between.
OneProjectPerKey ==
    \A p, q \in Requests :
        Owns(projects, p) /\ Owns(projects, q)
            /\ projects[p].projectKey = projects[q].projectKey => p = q

\* A reader of the tables never sees part of a run: a committed run has every
\* package of its report and a project with the report's key, and package rows
\* without a run do not exist, whichever statement failed or crash came.
RunsAreWhole ==
    \A c \in Requests :
        IF Owns(runs, c)
        THEN /\ packages[c] = StoredPackages(input[c].packages)
             /\ Owns(projects, runs[c].projectId)
             /\ projects[runs[c].projectId].projectKey = input[c].projectKey
        ELSE packages[c] = {}

\* The baseline a request compares with is no older than any default-branch
\* run that was committed before the request arrived, though it is read
\* outside the transaction, several steps after arrival and several before the
\* request's own run is committed.
BaselineIsFresh ==
    \A r \in Requests : BaselineRead(r) =>
        \A c \in seen[r] :
            /\ runs[c].projectId = project[r].id
            /\ runs[c].branch = project[r].defaultBranch
            => Owns(baseline, r) /\ ~Newer(runs[c], runs[baseline[r]])

\* A run is never its own baseline, the baseline is a default-branch run of
\* its project, created no later than the run compared with it.
BaselinePrecedesRun ==
    \A r \in Requests : Owns(baseline, r) =>
        /\ baseline[r] # r
        /\ runs[baseline[r]].projectId = project[r].id
        /\ runs[baseline[r]].branch = project[r].defaultBranch
        /\ Owns(run, r) => runs[baseline[r]].createdAt <= run[r].createdAt

\* What is answered is what is stored: a success names a committed run of this
\* report; a rejected report leaves no row; an INTERNAL answer leaves a run only
\* when COMMIT itself failed, and a project of its own only when a later
\* statement failed or the INSERT's reply was lost.
AnswerMatchesTables ==
    \A r \in Requests :
        /\ Code(r) = "OK" => Owns(runs, r) /\ resp[r].run = r
        /\ Code(r) = "INVALID_ARGUMENT" => ~Owns(runs, r) /\ ~Owns(projects, r)
        /\ Code(r) = "INTERNAL" =>
              /\ Owns(runs, r) => resp[r].stage = "commit"
              /\ Owns(projects, r) =>
                    resp[r].stage \notin {"get_project", "update_threshold"}

\* created is told to one submission of a key only: the one whose row it is.
OneCreator ==
    \A r, s \in Requests :
        /\ Code(r) = "OK" => (resp[r].created <=> resp[r].project = r)
        /\ Code(r) = "OK" /\ Code(s) = "OK" /\ resp[r].created /\ resp[s].created
              /\ input[r].projectKey = input[s].projectKey => r = s

\* A request that carries a threshold is judged by it and by no threshold a
\* concurrent request sets; without one, a new project is judged by 80.
OwnThresholdApplies ==
    \A r \in Requests : Code(r) = "OK" =>
        LET used == resp[r].comparison.thresholdPercent
        IN  /\ input[r].thresholdPercent # None =>
                  Stored(used) = Stored(input[r].thresholdPercent)
            /\ input[r].thresholdPercent = None /\ created[r] =>
                  used = DefaultThresholdPercent

\* A project's threshold is always one that a submission for its own key asked
\* for, or the default its creator asked for by silence.
ThresholdIsExplained ==
    \A p \in Requests : Owns(projects, p) =>
        \E r \in Requests :
            /\ Owns(input, r)
            /\ input[r].projectKey = projects[p].projectKey
            /\ \/ /\ input[r].thresholdPercent # None
                  /\ projects[p].globalThresholdPercent =
                        Stored(input[r].thresholdPercent)
               \/ /\ r = p /\ input[r].thresholdPercent = None
                  /\ projects[p].globalThresholdPercent = DefaultThresholdPercent

-----------------------------------------------------------------------------
(* What the properties rest on: the inductive invariant of the proofs.     *)

Resolved == {"update_threshold", "get_baseline", "list_baseline_packages",
             "build_run", "insert_run", "insert_packages", "commit", "respond"}
Built == {"insert_run", "insert_packages", "commit", "respond"}

\* The report of a request in flight is valid, and branches were taken for
\* what it holds.
ReportsInFlight ==
    \A r \in Requests :
        /\ pc[r] # "idle" => Owns(input, r)
        /\ pc[r] \in Stages => ValidInput(input[r])
        /\ pc[r] = "update_threshold" => input[r].thresholdPercent # None
        /\ pc[r] = "list_baseline_packages" => Owns(baseline, r)

\* A project row is its creator's, who is past the INSERT.
ProjectsWellFormed ==
    \A p \in Requests : Owns(projects, p) =>
        /\ pc[p] \notin {"idle", "get_project", "create_project"}
        /\ projects[p].id = p
        /\ projects[p].projectKey = input[p].projectKey

\* The local project stands for a row with the report's key.
LocalsAgree ==
    \A r \in Requests : pc[r] \in Resolved =>
        /\ Owns(project, r)
        /\ Owns(projects, project[r].id)
        /\ projects[project[r].id].projectKey = input[r].projectKey

\* The local run is the report's, once it is built.
RunBuilt ==
    \A r \in Requests :
        /\ pc[r] \in Built =>
              /\ Owns(run, r)
              /\ run[r].projectId = project[r].id
              /\ run[r].branch = input[r].branch
              /\ run[r].runTimestamp = input[r].runTimestamp
              /\ run[r].totalCoveragePercent = input[r].totalCoveragePercent
        /\ pc[r] \in (Stages \ Built) \cup {"idle"} => ~Owns(run, r)

\* What an open transaction has written so far.
TxHolds ==
    \A r \in Requests :
        LET whole == StoredPackages(input[r].packages)
        IN  /\ pc[r] \in {"insert_packages", "commit"} => tx[r].run = StoredRun(run[r])
            /\ pc[r] = "insert_packages" => tx[r].packages \subseteq whole
            /\ pc[r] = "commit" => tx[r].packages = whole
            /\ pc[r] \notin {"insert_packages", "commit"} => tx[r] = NoRows

\* A run is committed by the request's COMMIT only.
CommittedLate ==
    \A r \in Requests : Owns(runs, r) => pc[r] \in {"respond", "done", "lost"}

\* A baseline is a committed run.
BaselineKnown == \A r \in Requests : Owns(baseline, r) => Owns(runs, baseline[r])

TableInv ==
    /\ TypeOK
    /\ BaselineKnown
    /\ ReportsInFlight
    /\ ProjectsWellFormed
    /\ LocalsAgree
    /\ RunBuilt
    /\ TxHolds
    /\ CommittedLate
    /\ OneProjectPerKey
    /\ RunsAreWhole

\* Time stamps never run ahead of the clock, and the runs seen on arrival stay.
ClockInv ==
    \A r \in Requests :
        /\ Owns(runs, r) => runs[r].createdAt <= clock
        /\ Owns(run, r) => run[r].createdAt <= clock
        /\ \A c \in seen[r] : Owns(runs, c)

\* A request whose project is known, and that was not answered with an error.
Holds(r) == pc[r] \in Resolved \/ Code(r) = "OK"
Unread == {"idle", "get_project", "create_project", "update_threshold", "get_baseline"}

\* An answer is the last step; a success tells what the locals and tables hold.
AnswersFollow ==
    \A r \in Requests :
        /\ pc[r] = "idle" => ~Owns(input, r)
        /\ Owns(resp, r) <=> pc[r] = "done"
        /\ pc[r] = "respond" => Owns(runs, r)
        /\ Code(r) = "OK" =>
              /\ Owns(runs, r)
              /\ resp[r].run = r
              /\ resp[r].project = project[r].id
              /\ resp[r].created = created[r]
              /\ resp[r].comparison.thresholdPercent = project[r].globalThresholdPercent

\* The project a request holds is its own exactly when it created it.
CreatorKnown ==
    \A r \in Requests :
        /\ Holds(r) => (created[r] <=> project[r].id = r)
        /\ Holds(r) /\ created[r] => Owns(projects, r)
        /\ pc[r] = "update_threshold" => ~Owns(projects, r)
        /\ pc[r] \in {"idle", "get_project", "create_project"} => ~created[r]

\* The threshold a request holds is the one it asked for.
ThresholdHeld ==
    \A r \in Requests :
        Holds(r) /\ pc[r] # "update_threshold" =>
            /\ input[r].thresholdPercent # None =>
                  Stored(project[r].globalThresholdPercent) =
                      Stored(input[r].thresholdPercent)
            /\ input[r].thresholdPercent = None /\ created[r] =>
                  project[r].globalThresholdPercent = DefaultThresholdPercent

\* The baseline is read once, from the runs there are at that time.
BaselineReadOnce == \A r \in Requests : pc[r] \in Unread => ~Owns(baseline, r)

AnswerInv ==
    /\ AnswersFollow
    /\ CreatorKnown
    /\ ThresholdHeld
    /\ ThresholdIsExplained
    /\ AnswerMatchesTables
BaselineInv ==
    /\ ClockInv
    /\ BaselineReadOnce
    /\ BaselinePrecedesRun
    /\ BaselineIsFresh

-----------------------------------------------------------------------------

\* Requests and tables implement the append-only history of CoverageHistory.
History == INSTANCE CoverageHistory WITH
    Ids <- Requests,
    submitted <- input,
    history <- [c \in Requests |-> IF runs[c] = None THEN None
                                   ELSE [run |-> runs[c], packages |-> packages[c]]],
    acked <- {r \in Requests : Code(r) = "OK"}
ImplementsHistory == History!Spec

\* Every request that arrived is answered, unless the server crashed under it.
EveryRequestEnds ==
    \A r \in Requests : (pc[r] \in Stages) ~> (pc[r] \in {"done", "lost"})

\* "Each ingest persists a new run record": without a fault, a valid report is
\* answered with success.
ValidIngestSucceeds ==
    \A r \in Requests :
        pc[r] = "done" /\ ValidInput(input[r]) => Code(r) = "OK"
=============================================================================
