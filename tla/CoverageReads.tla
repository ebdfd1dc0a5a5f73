---------------------------- MODULE CoverageReads ----------------------------
(***************************************************************************)
(* The reads of a project's coverage next to the submissions of            *)
(* CoverageIngest: its latest comparison, the pages of its run history and *)
(* its branches, asked of the API or of the MCP server, which is a second  *)
(* process over the same use cases and tables.  A read sends one or more   *)
(* statements with no transaction around them: each sees what is committed *)
(* at its own moment, and submissions commit between them.  A client that  *)
(* walks the history sends one request per page.                           *)
(***************************************************************************)
EXTENDS CoverageIngest, Sequences, FiniteSetsExt

CONSTANTS
    Readers,        \* clients, each of which reads once
    ProjectIds,     \* project IDs they ask for
    AskedBranches,  \* branches they ask for, None for all
    PageSizes,      \* the pageSize they ask for, 0 for none
    MCPMaxPageSize  \* MCP_MAX_PAGE_SIZE

ReadStages == {"get_envelope", "get_project", "get_run", "list_packages", "get_baseline",
               "list_baseline_packages", "respond",
               "count_runs", "list_runs", "list_branches"}

ASSUME ReadersAskForProjects ==
    /\ ProjectIds \subseteq Requests
    /\ None \notin Readers
    /\ AskedBranches \subseteq Branches \cup {None}
    /\ PageSizes \subseteq Nat
    /\ MCPMaxPageSize \in Nat \ {0}

VARIABLES
    rpc,            \* where each read is
    query,          \* its path and query parameters
    envelope,       \* local variable project of the MCP tool
    rproject,       \* local variable project
    rrun,           \* local variable run: the ID of the row
    rpackages,      \* local variable currentPackages
    rbaseline,      \* local variable baselineRun, when it is not run itself
    rbasePackages,  \* local variable baselinePackages
    walk,           \* of a walk: the page asked for, the total counted for it
                    \* and the runs that have been listed
    ranswer,        \* what was answered: 404, 500 or the output
    before          \* history: the runs committed when the read began

readLocals == <<query, envelope, rproject, rrun, rpackages, rbaseline, rbasePackages, walk>>
readVars   == <<rpc, readLocals, ranswer, before>>

Committed == {c \in Requests : runs[c] # None}

\* Mutant: no branch means the default branch.
CandidatesOnMain(rd) ==
    {c \in Committed : /\ runs[c].projectId = query[rd].projectId
                       /\ runs[c].branch = IF query[rd].branch = None THEN MainBranch
                                           ELSE query[rd].branch}

\* Runs GetLatestByProjectAndBranch or GetLatestByProject choose from.
Candidates(rd) ==
    {c \in Committed : /\ runs[c].projectId = query[rd].projectId
                       /\ query[rd].branch # None => runs[c].branch = query[rd].branch}

FirstPage == [page |-> 1, total |-> 0, items |-> << >>]

ReadInit ==
    /\ rpc = [rd \in Readers |-> "idle"]
    /\ query = [rd \in Readers |-> None]
    /\ envelope = [rd \in Readers |-> None]
    /\ rproject = [rd \in Readers |-> None]
    /\ rrun = [rd \in Readers |-> None]
    /\ rpackages = [rd \in Readers |-> {}]
    /\ rbaseline = [rd \in Readers |-> None]
    /\ rbasePackages = [rd \in Readers |-> {}]
    /\ walk = [rd \in Readers |-> FirstPage]
    /\ ranswer = [rd \in Readers |-> None]
    /\ before = [rd \in Readers |-> {}]

ReadGoto(rd, stage) == rpc' = [rpc EXCEPT ![rd] = stage]
ReadAnswer(rd, answer) ==
    /\ ranswer' = [ranswer EXCEPT ![rd] = answer]
    /\ ReadGoto(rd, "done")

\* A handler takes the URL apart: a blank branch is no branch.
Receives(rd, parameters, stage) ==
    /\ rpc[rd] = "idle"
    /\ query' = [query EXCEPT ![rd] = parameters]
    /\ before' = [before EXCEPT ![rd] = Committed]
    /\ ReadGoto(rd, stage)
    /\ UNCHANGED <<envelope, rproject, rrun, rpackages, rbaseline, rbasePackages,
                   walk, ranswer>>

ReceiveRead(rd, id, branch) ==
    Receives(rd, [projectId |-> id, branch |-> branch, pageSize |-> None], "get_project")

\* get_latest_coverage_comparison and the resource of that name: GetProject
\* before the same use case, which looks the project up again.
CallComparisonTool(rd, id, branch) ==
    Receives(rd, [projectId |-> id, branch |-> branch, pageSize |-> None], "get_envelope")

ReadEnvelope(rd) ==
    /\ rpc[rd] = "get_envelope"
    /\ LET row == projects[query[rd].projectId]
       IN  IF row = None
           THEN /\ ReadAnswer(rd, [code |-> "NOT_FOUND", what |-> "project"])
                /\ UNCHANGED envelope
           ELSE /\ envelope' = [envelope EXCEPT ![rd] = row]
                /\ ReadGoto(rd, "get_project")
                /\ UNCHANGED ranswer
    /\ UNCHANGED <<query, rproject, rrun, rpackages, rbaseline, rbasePackages, walk, before>>

\* projects.GetByID
ReadProject(rd) ==
    /\ rpc[rd] = "get_project"
    /\ LET row == projects[query[rd].projectId]
       IN  IF row = None
           THEN /\ ReadAnswer(rd, [code |-> "NOT_FOUND", what |-> "project"])
                /\ UNCHANGED rproject
           ELSE /\ rproject' = [rproject EXCEPT ![rd] = row]
                /\ ReadGoto(rd, "get_run")
                /\ UNCHANGED ranswer
    /\ UNCHANGED <<query, envelope, rrun, rpackages, rbaseline, rbasePackages, walk, before>>

\* runs.GetLatestByProjectAndBranch, or GetLatestByProject without a branch.
ReadRun(rd) ==
    /\ rpc[rd] = "get_run"
    /\ \/ /\ Candidates(rd) = {}
          /\ ReadAnswer(rd, [code |-> "NOT_FOUND", what |-> "run"])
          /\ UNCHANGED rrun
       \/ \E c \in Latest(Candidates(rd)) :
          /\ rrun' = [rrun EXCEPT ![rd] = c]
          /\ ReadGoto(rd, "list_packages")
          /\ UNCHANGED ranswer
    /\ UNCHANGED <<query, envelope, rproject, rpackages, rbaseline, rbasePackages, walk, before>>

\* packages.ListByRunID of the run.
ReadPackages(rd) ==
    /\ rpc[rd] = "list_packages"
    /\ rpackages' = [rpackages EXCEPT ![rd] = packages[rrun[rd]]]
    /\ ReadGoto(rd, "get_baseline")
    /\ UNCHANGED <<query, envelope, rproject, rrun, rbaseline, rbasePackages, walk, ranswer, before>>

\* Mutant: the baseline is kept even when it is the run itself.
KeepsItself(rd, c) == TRUE

\* if baselineRun.ID != run.ID
IsOther(rd, c) == c # rrun[rd]

\* The latest default-branch run; the run itself is no baseline.
ReadBaseline(rd) ==
    /\ rpc[rd] = "get_baseline"
    /\ LET found == RunsOn(query[rd].projectId, rproject[rd].defaultBranch)
       IN  \/ /\ found = {} \/ \E c \in Latest(found) : ~IsOther(rd, c)
              /\ ReadGoto(rd, "respond")
              /\ UNCHANGED rbaseline
           \/ \E c \in Latest(found) :
              /\ IsOther(rd, c)
              /\ rbaseline' = [rbaseline EXCEPT ![rd] = c]
              /\ ReadGoto(rd, "list_baseline_packages")
    /\ UNCHANGED <<query, envelope, rproject, rrun, rpackages, rbasePackages, walk, ranswer, before>>

\* packages.ListByRunID of the baseline.
ReadBaselinePackages(rd) ==
    /\ rpc[rd] = "list_baseline_packages"
    /\ rbasePackages' = [rbasePackages EXCEPT ![rd] = packages[rbaseline[rd]]]
    /\ ReadGoto(rd, "respond")
    /\ UNCHANGED <<query, envelope, rproject, rrun, rpackages, rbaseline, walk, ranswer, before>>

\* Mutant: the threshold of the project is not asked for.
ComparesWithDefault(rd) ==
    [code       |-> "OK",
     run        |-> rrun[rd],
     comparison |-> buildComparison(runs[rrun[rd]].totalCoveragePercent,
                        IF rbaseline[rd] = None THEN None
                        ELSE runs[rbaseline[rd]].totalCoveragePercent,
                        DefaultThresholdPercent),
     packages   |-> buildPackageComparisons(rpackages[rd], rbasePackages[rd])]

\* LatestComparisonOutput, from stored values throughout.
ComparisonOutput(rd) ==
    [code       |-> "OK",
     run        |-> rrun[rd],
     comparison |-> buildComparison(runs[rrun[rd]].totalCoveragePercent,
                        IF rbaseline[rd] = None THEN None
                        ELSE runs[rbaseline[rd]].totalCoveragePercent,
                        rproject[rd].globalThresholdPercent),
     packages   |-> buildPackageComparisons(rpackages[rd], rbasePackages[rd])]

ReadRespond(rd) ==
    /\ rpc[rd] = "respond"
    /\ ReadAnswer(rd, ComparisonOutput(rd))
    /\ UNCHANGED <<readLocals, before>>

-----------------------------------------------------------------------------
(* The run history, page by page, and the branches. *)

\* The default, and the cap.
EffectivePageSize(pageSize) == IF pageSize <= 0 THEN 20 ELSE Min({pageSize, 100})

ReceiveList(rd, id, branch, pageSize) ==
    Receives(rd, [projectId |-> id, branch |-> branch,
                  pageSize |-> EffectivePageSize(pageSize)], "count_runs")

\* normalizePageSize: the default is not cut down to the configured most.
McpPageSize(pageSize) ==
    IF pageSize <= 0 THEN 20 ELSE Min({pageSize, MCPMaxPageSize, 100})

CallListTool(rd, id, branch, pageSize) ==
    ReceiveList(rd, id, branch, McpPageSize(pageSize))

\* The orders ORDER BY run_timestamp DESC, created_at DESC may give a set.
NewestFirst(ids) ==
    {order \in Bijection(1 .. Cardinality(ids), ids) :
        \A m, n \in DOMAIN order : m < n => ~Newer(runs[order[n]], runs[order[m]])}

\* SELECT COUNT(*)
CountRuns(rd) ==
    /\ rpc[rd] = "count_runs"
    /\ walk' = [walk EXCEPT ![rd].total = Cardinality(Candidates(rd))]
    /\ ReadGoto(rd, "list_runs")
    /\ UNCHANGED <<query, envelope, rproject, rrun, rpackages, rbaseline, rbasePackages, ranswer,
                   before>>

\* Mutant: pages are counted from zero.
OffsetFromZero(page, pageSize) == page * pageSize

Offset(page, pageSize) == (page - 1) * pageSize

TotalPages(total, pageSize) == (total + pageSize - 1) \div pageSize

\* LIMIT and OFFSET; the answer has the page and the total, and the client asks
\* for the next page as long as there is one.
ListRuns(rd) ==
    /\ rpc[rd] = "list_runs"
    /\ LET page == walk[rd].page
           size == query[rd].pageSize
           first == Offset(page, size)
       IN  \E order \in NewestFirst(Candidates(rd)) :
             LET items == walk[rd].items \o
                          SubSeq(order, first + 1, Min({first + size, Len(order)}))
             IN  IF page < TotalPages(walk[rd].total, size)
                 THEN /\ walk' = [walk EXCEPT ![rd].page = page + 1, ![rd].items = items]
                      /\ ReadGoto(rd, "count_runs")
                      /\ UNCHANGED ranswer
                 ELSE /\ ReadAnswer(rd, [code |-> "LIST", items |-> items])
                      /\ UNCHANGED walk
    /\ UNCHANGED <<query, envelope, rproject, rrun, rpackages, rbaseline, rbasePackages, before>>

ReceiveBranches(rd, id) ==
    Receives(rd, [projectId |-> id, branch |-> None, pageSize |-> None], "list_branches")

\* SELECT DISTINCT branch
ListBranches(rd) ==
    /\ rpc[rd] = "list_branches"
    /\ ReadAnswer(rd, [code |-> "BRANCHES",
                       branches |-> {runs[c].branch : c \in Candidates(rd)}])
    /\ UNCHANGED <<readLocals, before>>

\* Any statement of the read can fail; the server crashing is Crash.
ReadFails(rd) ==
    /\ Faulty
    /\ rpc[rd] \in ReadStages \ {"respond"}
    /\ ReadAnswer(rd, [code |-> "INTERNAL", what |-> rpc[rd]])
    /\ UNCHANGED <<readLocals, before>>

ReadStep(rd) ==
    \/ \E id \in ProjectIds, branch \in AskedBranches :
          \/ ReceiveRead(rd, id, branch)
          \/ CallComparisonTool(rd, id, branch)
          \/ \E pageSize \in PageSizes :
                \/ ReceiveList(rd, id, branch, pageSize)
                \/ CallListTool(rd, id, branch, pageSize)
    \/ \E id \in ProjectIds : ReceiveBranches(rd, id)
    \/ ReadEnvelope(rd)
    \/ ReadProject(rd)
    \/ ReadRun(rd)
    \/ ReadPackages(rd)
    \/ ReadBaseline(rd)
    \/ ReadBaselinePackages(rd)
    \/ ReadRespond(rd)
    \/ CountRuns(rd)
    \/ ListRuns(rd)
    \/ ListBranches(rd)
    \/ ReadFails(rd)

\* A crash takes the reads in flight with it.
ReadsCrash ==
    rpc' = [rd \in Readers |-> IF rpc[rd] \in ReadStages THEN "lost" ELSE rpc[rd]]

AllInit == Init /\ ReadInit
AllNext ==
    \/ \E rd \in Readers : ReadStep(rd) /\ UNCHANGED vars
    \/ /\ \E r \in Requests :
            \/ \E in \in Inputs : Receive(r, in)
            \/ Step(r)
            \/ StatementFails(r)
            \/ ReplyLost(r)
       /\ UNCHANGED readVars
    \/ /\ Crash
       /\ ReadsCrash
       /\ UNCHANGED <<readLocals, ranswer, before>>
    \/ /\ Terminating
       /\ \A rd \in Readers : rpc[rd] \in {"done", "lost"}
       /\ UNCHANGED readVars
ReadSpec == AllInit /\ [][AllNext]_<<vars, readVars>>

-----------------------------------------------------------------------------
(* Properties. *)

ReadCode(rd) == IF ranswer[rd] = None THEN "none" ELSE ranswer[rd].code

\* The five statements add up to whole runs: the packages answered are all
\* those of the report behind the run, and each previous value is that of the
\* same path in the report behind the baseline, though both are read in
\* statements of their own while submissions commit, fail and roll back.
ReadsWholeRuns ==
    \A rd \in Readers : ReadCode(rd) = "OK" =>
        LET report == StoredPackages(input[ranswer[rd].run].packages)
            base == IF rbaseline[rd] = None THEN {}
                    ELSE StoredPackages(input[rbaseline[rd]].packages)
        IN  ranswer[rd].packages = buildPackageComparisons(report, base)

\* A read is up to date: no matching run committed before it began is newer
\* than the one it answers with or on a branch that it does not list, and it
\* answers that there is none only when there was none.
ReadIsFresh ==
    \A rd \in Readers : \A c \in before[rd] :
        LET matches == /\ runs[c].projectId = query[rd].projectId
                       /\ query[rd].branch \in {None, runs[c].branch}
        IN  matches =>
              /\ ReadCode(rd) # "NOT_FOUND"
              /\ ReadCode(rd) = "OK" => ~Newer(runs[c], runs[ranswer[rd].run])
              /\ ReadCode(rd) = "BRANCHES" => runs[c].branch \in ranswer[rd].branches

\* No run that the read asks for was committed since it began, and no two of
\* them tie.
Undisturbed(rd) ==
    /\ Candidates(rd) \subseteq before[rd]
    /\ \A c, d \in Candidates(rd) :
          c # d => Newer(runs[c], runs[d]) \/ Newer(runs[d], runs[c])

OnOnePage(rd) == Cardinality(Candidates(rd)) <= query[rd].pageSize

\* The items have every run that was committed before the read began, newest
\* first and none twice.
Listed(rd, items) ==
    /\ before[rd] \cap Candidates(rd) \subseteq {items[n] : n \in DOMAIN items}
    /\ \A m, n \in DOMAIN items : m < n =>
          items[m] # items[n] /\ ~Newer(runs[items[n]], runs[items[m]])

\* A walk over the pages lists every matching run committed before it began once,
\* newest first, if no matching run was committed meanwhile and no two tie, or
\* if a page holds them all.  Otherwise a page is counted and listed in
\* different states, and so are two pages: runs may be missed or seen twice.
WalkIsExact ==
    \A rd \in Readers : ReadCode(rd) = "LIST" =>
        (Undisturbed(rd) \/ OnOnePage(rd) => Listed(rd, ranswer[rd].items))

\* A default-branch run is never compared with itself, and with another
\* default-branch run only when that one was committed while the read was under
\* way or the two tie in both sort keys.
BaselineOfDefaultBranchIsRace ==
    \A rd \in Readers :
        /\ ReadCode(rd) = "OK"
        /\ Owns(rbaseline, rd)
        /\ runs[rrun[rd]].branch = rproject[rd].defaultBranch
        => /\ rbaseline[rd] # rrun[rd]
           /\ \/ rbaseline[rd] \notin before[rd]
              \/ ~Newer(runs[rbaseline[rd]], runs[rrun[rd]])

\* Submission s explains that project p was found with a threshold.
Explains(s, p, threshold) ==
    /\ Owns(input, s)
    /\ input[s].projectKey = projects[p].projectKey
    /\ IF input[s].thresholdPercent # None
       THEN threshold = Stored(input[s].thresholdPercent)
       ELSE s = p /\ threshold = DefaultThresholdPercent

\* The verdict on a run, and the threshold it is measured by, never move without
\* a reason.  A read judges a run as the answer to its submission did, unless
\* rounding to hundredths carried its total up to the threshold or another
\* submission set the threshold the read found; and the project an MCP answer
\* shows has the threshold of the comparison next to it, unless a submission not
\* committed when the call came in moved it between the two look-ups.
VerdictsMoveWithReason ==
    \A rd \in Readers : ReadCode(rd) = "OK" =>
        LET c == ranswer[rd].run
            read == ranswer[rd].comparison
            told == resp[c].comparison
            p == query[rd].projectId
        IN  /\ Code(c) = "OK" /\ read.thresholdStatus # told.thresholdStatus =>
                  \/ /\ told.thresholdStatus = "failed"
                     /\ Stored(told.currentTotalCoveragePercent) =
                           Stored(told.thresholdPercent)
                  \/ \E s \in Requests \ {c} : Explains(s, p, read.thresholdPercent)
            /\ /\ Owns(envelope, rd)
               /\ envelope[rd].globalThresholdPercent # read.thresholdPercent
               => \E s \in Requests \ before[rd] :
                     /\ input[s].thresholdPercent # None
                     /\ Explains(s, p, read.thresholdPercent)

-----------------------------------------------------------------------------
(* What the properties rest on. *)

HasRun == {"list_packages", "get_baseline", "list_baseline_packages", "respond"}
HasProject == HasRun \cup {"get_run"}
HasPackages == HasRun \ {"list_packages"}

\* A comparison is at one of the stages, or was answered.
At(rd, stages) == rpc[rd] \in stages \/ ReadCode(rd) = "OK"

Matches(rd, c) ==
    /\ runs[c].projectId = query[rd].projectId
    /\ query[rd].branch \in {None, runs[c].branch}

\* Each reader has its own locals.
ReadTyped ==
    /\ rpc \in [Readers -> ReadStages \cup {"idle", "done", "lost"}]
    /\ envelope \in [Readers -> Project \cup {None}]
    /\ rproject \in [Readers -> Project \cup {None}]
    /\ rrun \in [Readers -> Requests \cup {None}]
    /\ rpackages \in [Readers -> SUBSET PackageCoverage]
    /\ rbaseline \in [Readers -> Requests \cup {None}]
    /\ rbasePackages \in [Readers -> SUBSET PackageCoverage]
    /\ before \in [Readers -> SUBSET Requests]
    /\ DOMAIN query = Readers /\ DOMAIN ranswer = Readers

\* What a read is asked, and what there was when it was asked, stays there.
Asked(rd) ==
    /\ rpc[rd] # "idle" => query[rd].projectId \in Requests
    /\ before[rd] \subseteq Committed
    /\ At(rd, HasProject) => Owns(projects, query[rd].projectId)

\* The run was the newest when it was chosen.
RunChosen(rd) ==
    At(rd, HasRun) =>
        /\ rrun[rd] \in Committed /\ Matches(rd, rrun[rd])
        /\ \A c \in before[rd] : Matches(rd, c) => ~Newer(runs[c], runs[rrun[rd]])

BaselineChosen(rd) ==
    /\ rpc[rd] \in (ReadStages \ {"list_baseline_packages", "respond"}) \cup {"idle"} =>
          ~Owns(rbaseline, rd)
    /\ rpc[rd] = "list_baseline_packages" => Owns(rbaseline, rd)
    /\ Owns(rbaseline, rd) =>
          /\ rbaseline[rd] \in Committed \ {rrun[rd]}
          /\ runs[rbaseline[rd]].projectId = query[rd].projectId
          /\ runs[rbaseline[rd]].branch = rproject[rd].defaultBranch

\* Packages are read of runs that do not change any more.
PackagesRead(rd) ==
    /\ At(rd, HasPackages) => rpackages[rd] = packages[rrun[rd]]
    /\ rpc[rd] \in (ReadStages \ {"respond"}) \cup {"idle"} => rbasePackages[rd] = {}
    /\ At(rd, {"respond"}) =>
          rbasePackages[rd] = IF Owns(rbaseline, rd) THEN packages[rbaseline[rd]] ELSE {}

\* A threshold that was moved while the read was under way.
Moved(rd, threshold) ==
    \E s \in Requests \ before[rd] :
        /\ Owns(input, s) /\ input[s].thresholdPercent # None
        /\ Explains(s, query[rd].projectId, threshold)

ThresholdRead(rd) ==
    LET p == query[rd].projectId
    IN  /\ At(rd, HasProject) =>
              \E s \in Requests : Explains(s, p, rproject[rd].globalThresholdPercent)
        /\ rpc[rd] \in {"idle", "get_envelope"} => ~Owns(envelope, rd)
        /\ Owns(envelope, rd) =>
              /\ rpc[rd] = "get_project" =>
                    /\ Owns(projects, p)
                    /\ \/ projects[p].globalThresholdPercent =
                             envelope[rd].globalThresholdPercent
                       \/ Moved(rd, projects[p].globalThresholdPercent)
              /\ At(rd, HasProject) =>
                    \/ rproject[rd].globalThresholdPercent =
                          envelope[rd].globalThresholdPercent
                    \/ Moved(rd, rproject[rd].globalThresholdPercent)

\* An answer is made of what was read.
AnswerBuilt(rd) ==
    /\ ranswer[rd] # None => rpc[rd] = "done"
    /\ ReadCode(rd) = "OK" => ranswer[rd] = ComparisonOutput(rd)
    /\ ReadCode(rd) = "NOT_FOUND" => \A c \in before[rd] : ~Matches(rd, c)
    /\ ReadCode(rd) = "BRANCHES" =>
          \A c \in before[rd] : Matches(rd, c) => runs[c].branch \in ranswer[rd].branches

ReaderInv(rd) ==
    /\ Asked(rd)
    /\ RunChosen(rd)
    /\ BaselineChosen(rd)
    /\ PackagesRead(rd)
    /\ ThresholdRead(rd)
    /\ AnswerBuilt(rd)

ReadInv == ReadTyped /\ \A rd \in Readers : ReaderInv(rd)

\* What a submission was told is what it computed from its report, and the row
\* has that rounded.
ToldInv ==
    \A c \in Requests :
        /\ Owns(runs, c) => Owns(run, c) /\ runs[c] = StoredRun(run[c])
        /\ Code(c) = "OK" =>
              /\ runs[c].projectId = project[c].id
              /\ resp[c].comparison.currentTotalCoveragePercent =
                    run[c].totalCoveragePercent
              /\ resp[c].comparison.thresholdStatus =
                    EvaluateThreshold(run[c].totalCoveragePercent,
                                      project[c].globalThresholdPercent)

\* The locals of a walk keep their types, and pages are of one run at least.
WalkTyped ==
    walk \in [Readers -> [page : Nat \ {0}, total : Nat, items : Seq(Requests)]]

Walking(rd) == rpc[rd] \in {"count_runs", "list_runs"}

\* What a walk that nothing disturbs has listed are the runs before the offset
\* of its next page, in whatever order the database gives them: there is one.
WalkIsPrefix(rd) ==
    Walking(rd) /\ Undisturbed(rd) =>
        LET first == Offset(walk[rd].page, query[rd].pageSize)
        IN  /\ first <= Cardinality(Candidates(rd))
            /\ \A order \in NewestFirst(Candidates(rd)) :
                  walk[rd].items = SubSeq(order, 1, first)
            /\ rpc[rd] = "list_runs" => walk[rd].total = Cardinality(Candidates(rd))

\* A walk over runs that one page holds is on the first.
WalkOnOnePage(rd) ==
    Walking(rd) /\ OnOnePage(rd) =>
        /\ walk[rd].page = 1 /\ walk[rd].items = << >>
        /\ rpc[rd] = "list_runs" => walk[rd].total <= query[rd].pageSize

\* What was answered lists runs that are there.
WalkAnswered(rd) ==
    /\ rpc[rd] = "idle" => walk[rd] = FirstPage
    /\ Walking(rd) \/ ReadCode(rd) = "LIST" => query[rd].pageSize \in Nat \ {0}
    /\ ReadCode(rd) = "LIST" /\ (Undisturbed(rd) \/ OnOnePage(rd)) =>
          /\ \A n \in DOMAIN ranswer[rd].items : ranswer[rd].items[n] \in Candidates(rd)
          /\ Listed(rd, ranswer[rd].items)

WalkInv ==
    /\ IsFiniteSet(Committed)
    /\ WalkTyped
    /\ \A rd \in Readers : WalkIsPrefix(rd) /\ WalkOnOnePage(rd) /\ WalkAnswered(rd)
=============================================================================
