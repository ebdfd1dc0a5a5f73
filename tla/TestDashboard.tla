---------------------------- MODULE TestDashboard ----------------------------
(***************************************************************************)
(* The pages of the integration and of the end-to-end tests: one script    *)
(* twice (assets/integration.js, assets/e2e.js), with other endpoints and  *)
(* more filters in the second.                                             *)
(*                                                                         *)
(* As in Dashboard a task is one handler under way, and a step is what the *)
(* script does between two awaits.  The filters of the table are one       *)
(* filter besides the branch; the cards that are computed from the run     *)
(* list go with the table; of the heatmap only its tiles and its Reload    *)
(* button are left.  The run chain shows what the table shows.             *)
(***************************************************************************)
EXTENDS Naturals, FiniteSets

CONSTANTS
    None,           \* null, an empty string, "All statuses"
    Tasks,          \* handlers that can be under way at once
    Projects,       \* project IDs
    Branches,       \* branch names
    Runs,           \* run IDs, a newer run having a greater one
    Statuses,       \* what the status filter offers
    Intervals,      \* automatic refresh intervals, "off" among them
    Catalogs,       \* project lists the API may return
    Matches,        \* sets of projects a group filter and a search let through
    PageSize,       \* rows the API returns at most
    Failing         \* whether fetches may fail

CONSTANTS
    BranchesOf,     \* what the API lists as the branches of a project
    DefaultBranch,  \* of each project
    RunInfo,        \* project, branch and status of each run
    Arriving        \* the runs that are stored while the page is open

ASSUME TestPageConstants ==
    /\ None \notin Tasks \cup Projects \cup Branches \cup Runs
    /\ None \in Statuses /\ Statuses \subseteq {None, "passed", "failed"}
    /\ Runs \subseteq Nat /\ Arriving \subseteq Runs
    /\ PageSize \in Nat \ {0}
    /\ BranchesOf \in [Projects -> SUBSET Branches]
    /\ DefaultBranch \in [Projects -> Branches]
    /\ RunInfo \in [Runs -> [project: Projects, branch: Branches, status: {"passed", "failed"}]]
    /\ Catalogs \subseteq SUBSET Projects
    /\ Matches \subseteq SUBSET Projects
    /\ "off" \in Intervals
    /\ Failing \in BOOLEAN

VARIABLES
    stored,                 \* the runs the API has
    projects,               \* the project list last loaded
    match,                  \* what the filter controls let through
    selectedProjectId,
    selectedRunId,          \* selectedIntegrationRunId
    branchOptions,          \* the options of the branch filter
    branchFilter,           \* and its value, None before it was first rendered
    statusFilter,
    runsBody,               \* the runs that are rows of the table
    failedSpecsBody,        \* the runs whose failed specs are rows
    duration,               \* the project and branch the card tells of
    refreshInFlight,        \* integrationRefreshInFlight
    interval,               \* the value of integrationAutoRefreshInterval
    timeouts,               \* how many refresh timeouts are armed
    tracked,                \* whether integrationRefreshTimeoutId is one of them
    pc, job, waiting,       \* of each task: its await, its handler, and, on
                            \* the screen, its open fetches
    target, preferred,      \* its project and preferredRunId in selectProject
    asked, retained,        \* what it asked the run list for, retainedRunId
    detail,                 \* the project and run it asked the details of
    overlapped              \* history: another task ran since the screen was
                            \* last loaded by a task on its own

page   == <<projects, match, selectedProjectId>>
screen == <<branchOptions, branchFilter, statusFilter>>
panels == <<selectedRunId, runsBody, failedSpecsBody, duration>>
timer  == <<refreshInFlight, interval, timeouts, tracked>>
locals == <<target, preferred, asked, retained, detail>>
vars   == <<stored, page, screen, panels, timer, pc, job, waiting, locals, overlapped>>

Live == {t \in Tasks : pc[t] # "idle"}
Alone(t) == Live \subseteq {t}
Goto(t, await) == pc' = [pc EXCEPT ![t] = await]
Ok == IF Failing THEN BOOLEAN ELSE {TRUE}

\* The handler returns and its locals are gone.
Return(t) ==
    /\ Goto(t, "idle")
    /\ job' = [job EXCEPT ![t] = None]
    /\ target' = [target EXCEPT ![t] = None]
    /\ preferred' = [preferred EXCEPT ![t] = None]
    /\ asked' = [asked EXCEPT ![t] = None]
    /\ retained' = [retained EXCEPT ![t] = None]
    /\ detail' = [detail EXCEPT ![t] = None]

-----------------------------------------------------------------------------
(* What the page asks the API for. *)

\* The branch whose runs are listed.
BranchOf(question) ==
    IF question.branch # None \/ question.project = None THEN question.branch
    ELSE DefaultBranch[question.project]

Listed(question) ==
    {r \in stored : /\ RunInfo[r].project = question.project
                    /\ RunInfo[r].branch = BranchOf(question)
                    /\ question.status \in {None, RunInfo[r].status}}

\* The newest of them.
FirstPage(question) ==
    {r \in Listed(question) :
        Cardinality({newer \in Listed(question) : newer > r}) < PageSize}

Newest(rows) == {r \in rows : \A other \in rows : other <= r}

Asking(project, branch) == [project |-> project, branch |-> branch, status |-> statusFilter]
Selection == Asking(selectedProjectId, branchFilter)

\* Mutant: the project is not compared.
IsOtherFilter(question) ==
    \/ BranchOf(question) # BranchOf(Selection)
    \/ question.status # statusFilter

\* The project or a filter changed while the run list was on its way.
IsStale(question) ==
    \/ question.project # selectedProjectId
    \/ BranchOf(question) # BranchOf(Selection)
    \/ question.status # statusFilter

-----------------------------------------------------------------------------
(* Automatic refresh. *)

\* Mutant: an armed timeout is not cleared.
ArmAnother(value) ==
    /\ timeouts' = IF value = "off" THEN timeouts ELSE timeouts + 1
    /\ tracked' = (value # "off")

\* clearIntegrationAutoRefresh clears the timeout it knows of, then one is armed.
scheduleIntegrationAutoRefresh(value) ==
    LET cleared == IF tracked THEN timeouts - 1 ELSE timeouts
    IN  /\ timeouts' = IF value = "off" THEN cleared ELSE cleared + 1
        /\ tracked' = (value # "off")

ChangeInterval(value) ==
    /\ value # interval
    /\ interval' = value
    /\ scheduleIntegrationAutoRefresh(value)
    /\ UNCHANGED <<refreshInFlight, stored, page, screen, panels, pc, job, waiting,
                   locals, overlapped>>

clearIntegrationAutoRefresh ==
    /\ timeouts' = IF tracked THEN timeouts - 1 ELSE timeouts
    /\ tracked' = FALSE

\* Mutant: nothing keeps a second refresh from starting.
AlwaysStarts == TRUE

\* A refresh and a Reload button return at once when either is in flight.
MayRefresh == ~refreshInFlight

\* Mutant: the finally block leaves the flag set.
EndWithoutReset ==
    /\ scheduleIntegrationAutoRefresh(interval)
    /\ UNCHANGED <<refreshInFlight, interval>>

\* The finally block of a refresh and of runWithButtonBusy.
EndRefresh ==
    /\ refreshInFlight' = FALSE
    /\ scheduleIntegrationAutoRefresh(interval)
    /\ UNCHANGED interval

\* performIntegrationRefresh up to the project list, whatever started it.
performIntegrationRefresh(t) ==
    /\ pc[t] = "idle"
    /\ MayRefresh
    /\ refreshInFlight' = TRUE
    /\ Goto(t, "projects")
    /\ job' = [job EXCEPT ![t] = "refresh"]
    /\ overlapped' = (overlapped \/ ~Alone(t))
    /\ UNCHANGED <<interval, stored, page, screen, panels, waiting, locals>>

\* The button, or the page that becomes visible late.
Refresh(t) == performIntegrationRefresh(t) /\ clearIntegrationAutoRefresh

\* The timeout fires.  A fired timeout cannot be cleared.
TimeoutFires(t) ==
    /\ timeouts > 0
    /\ performIntegrationRefresh(t)
    /\ timeouts' = timeouts - 1
    /\ tracked' = FALSE

TimeoutFiresBusy ==
    /\ timeouts > 0
    /\ refreshInFlight
    /\ timeouts' = IF interval = "off" THEN timeouts - 1 ELSE timeouts
    /\ tracked' = (interval # "off")
    /\ UNCHANGED <<refreshInFlight, interval, stored, page, screen, panels, pc, job,
                   waiting, locals, overlapped>>

\* The Reload button of the heatmap.
ReloadHeatmap(t) ==
    /\ pc[t] = "idle"
    /\ MayRefresh
    /\ refreshInFlight' = TRUE
    /\ clearIntegrationAutoRefresh
    /\ Goto(t, "heatmap")
    /\ job' = [job EXCEPT ![t] = "reload"]
    /\ overlapped' = (overlapped \/ ~Alone(t))
    /\ UNCHANGED <<interval, stored, page, screen, panels, waiting, locals>>

-----------------------------------------------------------------------------
(* Loading the screen of a project. *)

\* loadIntegrationRuns up to its fetch: the table is emptied, and the run to keep
\* is read here.
loadIntegrationRuns(t, question, preferredRunId) ==
    /\ runsBody' = {}
    /\ asked' = [asked EXCEPT ![t] = question]
    /\ retained' = [retained EXCEPT ![t] = IF preferredRunId # None THEN preferredRunId
                                           ELSE selectedRunId]
    /\ Goto(t, "screen")

\* loadIntegrationScreen: the comparison and the run list together.
loadIntegrationScreen(t, question, preferredRunId) ==
    /\ loadIntegrationRuns(t, question, preferredRunId)
    /\ waiting' = [waiting EXCEPT ![t] = {"comparison", "runs"}]

\* loadIntegrationScreen without a project.
EmptyScreen ==
    /\ runsBody' = {}
    /\ failedSpecsBody' = {}
    /\ UNCHANGED duration

\* loadIntegrationRunDetails up to its fetch.
loadIntegrationRunDetails(t, project, run) ==
    /\ failedSpecsBody' = {}
    /\ detail' = [detail EXCEPT ![t] = [project |-> project, run |-> run]]

\* selectProject up to the branches.
selectProject(t, project, preferredRunId) ==
    /\ selectedProjectId' = project
    /\ target' = [target EXCEPT ![t] = project]
    /\ preferred' = [preferred EXCEPT ![t] = preferredRunId]
    /\ Goto(t, "branches")
    /\ overlapped' = ~Alone(t)
    /\ UNCHANGED <<screen, panels, asked, retained, detail>>

\* No project is left to select.
clearSelection ==
    /\ selectedProjectId' = None
    /\ selectedRunId' = None
    /\ runsBody' = {}
    /\ failedSpecsBody' = {}
    /\ duration' = None
    /\ UNCHANGED screen

-----------------------------------------------------------------------------
(* The user. *)

Starts(t, handler) ==
    /\ pc[t] = "idle"
    /\ job' = [job EXCEPT ![t] = handler]
    /\ UNCHANGED <<stored, projects, match>>

ChooseProject(t, project) ==
    /\ project \in projects \cap match
    /\ Starts(t, "select")
    /\ selectProject(t, project, None)
    /\ UNCHANGED <<timer, waiting>>

ChooseNone ==
    /\ selectedProjectId' = None
    /\ selectedRunId' = None
    /\ EmptyScreen
    /\ UNCHANGED <<stored, projects, match, screen, timer, pc, job, waiting, locals,
                   overlapped>>

\* projectSearchInput only filters the list.
Search(matching) ==
    /\ match' = matching
    /\ UNCHANGED <<stored, projects, selectedProjectId, screen, panels, timer, pc, job,
                   waiting, locals, overlapped>>

\* projectGroupFilter also makes sure that the selected project is listed.
ChangeGroup(matching) ==
    /\ match' = matching
    /\ UNCHANGED <<stored, projects, timer, waiting>>
    /\ LET visible == projects \cap matching
       IN  \/ /\ selectedProjectId \in visible
              /\ UNCHANGED <<selectedProjectId, screen, panels, pc, job, locals, overlapped>>
           \/ /\ visible = {}
              /\ clearSelection
              /\ UNCHANGED <<pc, job, locals, overlapped>>
           \/ /\ selectedProjectId \notin visible
              /\ \E t \in Tasks, first \in visible :
                    /\ pc[t] = "idle"
                    /\ job' = [job EXCEPT ![t] = "select"]
                    /\ selectProject(t, first, None)

\* The branch filter loads the screen again.
ChooseBranch(t, branch) ==
    /\ branch \in branchOptions \ {branchFilter}
    /\ branchFilter' = branch
    /\ IF selectedProjectId = None
       THEN /\ EmptyScreen
            /\ UNCHANGED <<pc, job, waiting, asked, retained, overlapped,
                           stored, projects, match>>
       ELSE /\ Starts(t, "filter")
            /\ loadIntegrationScreen(t, Asking(selectedProjectId, branch), None)
            /\ overlapped' = ~Alone(t)
            /\ UNCHANGED <<failedSpecsBody, duration>>
    /\ UNCHANGED <<selectedProjectId, selectedRunId, branchOptions, statusFilter, timer,
                   target, preferred, detail>>

\* The other filters load the table, of no project when none is selected.
ChooseStatus(t, status) ==
    /\ status # statusFilter
    /\ Starts(t, "filter")
    /\ statusFilter' = status
    /\ loadIntegrationRuns(t, [Selection EXCEPT !.status = status], None)
    /\ waiting' = [waiting EXCEPT ![t] = {"runs"}]
    /\ overlapped' = (overlapped \/ ~Alone(t))
    /\ UNCHANGED <<selectedProjectId, selectedRunId, failedSpecsBody, duration, branchOptions,
                   branchFilter, timer, target, preferred, detail>>

\* The Reload button of the table.
Reload(t) ==
    /\ MayRefresh
    /\ IF selectedProjectId = None
       THEN /\ EmptyScreen
            /\ EndRefresh
            /\ UNCHANGED <<pc, job, waiting, asked, retained, overlapped,
                           stored, projects, match>>
       ELSE /\ Starts(t, "reload")
            /\ loadIntegrationScreen(t, Selection, selectedRunId)
            /\ overlapped' = ~Alone(t)
            /\ refreshInFlight' = TRUE
            /\ clearIntegrationAutoRefresh
            /\ UNCHANGED <<failedSpecsBody, duration, interval>>
    /\ UNCHANGED <<selectedProjectId, selectedRunId, screen, target, preferred, detail>>

\* A run is selected in the table, in the chain or by its tile.
SelectRun(t, project, run) ==
    /\ Starts(t, "run")
    /\ selectedRunId' = run
    /\ loadIntegrationRunDetails(t, project, run)
    /\ Goto(t, "screen")
    /\ waiting' = [waiting EXCEPT ![t] = {"details"}]
    /\ overlapped' = (overlapped \/ ~Alone(t))
    /\ UNCHANGED <<selectedProjectId, screen, runsBody, duration, timer, target, preferred,
                   asked, retained>>

\* A row knows its project, a node of the chain takes the selected one.
ClickRun(t, run) ==
    /\ run \in runsBody
    /\ \/ SelectRun(t, RunInfo[run].project, run)
       \/ SelectRun(t, selectedProjectId, run)

\* A tile of the heatmap, which shows default branches only.
ClickTile(t, run) ==
    LET project == RunInfo[run].project
    IN  /\ run \in stored
        /\ project \in projects
        /\ RunInfo[run].branch = DefaultBranch[project]
        /\ \/ /\ selectedProjectId = project
              /\ SelectRun(t, project, run)
           \/ /\ selectedProjectId # project
              /\ Starts(t, "select")
              /\ selectProject(t, project, run)
              /\ UNCHANGED <<timer, waiting>>

-----------------------------------------------------------------------------
(* Answers. *)

\* A handler is done with the screen: a refresh goes on to the heatmap when
\* that was open, or ends, as a reload does.
EndScreen(t) ==
    \/ /\ job[t] = "refresh"
       /\ Goto(t, "heatmap")
       /\ UNCHANGED <<job, timer, locals>>
    \/ job[t] \in {"refresh", "reload"} /\ Return(t) /\ EndRefresh
    \/ job[t] \notin {"refresh", "reload"} /\ Return(t) /\ UNCHANGED timer

\* One of the fetches of the screen is answered and no other follows it.
Settles(t, fetch) ==
    /\ fetch \in waiting[t]
    /\ waiting' = [waiting EXCEPT ![t] = @ \ {fetch}]
    /\ IF waiting[t] = {fetch} THEN EndScreen(t) ELSE UNCHANGED <<pc, job, timer, locals>>
    /\ UNCHANGED <<stored, page, screen, overlapped>>

\* The project list arrives.  The API deletes no project.
ProjectsArrive(t, catalog) ==
    /\ pc[t] = "projects"
    /\ projects \subseteq catalog
    /\ projects' = catalog
    /\ LET visible == catalog \cap match
       IN  \/ /\ visible = {}
              /\ clearSelection
              /\ EndScreen(t)
              /\ UNCHANGED overlapped
           \/ /\ selectedProjectId \in visible
              /\ selectProject(t, selectedProjectId, selectedRunId)
              /\ UNCHANGED <<job, timer>>
           \/ /\ selectedProjectId \notin visible
              /\ \E first \in visible : selectProject(t, first, None)
              /\ UNCHANGED <<job, timer>>
    /\ UNCHANGED <<stored, match, waiting>>

\* loadProjects catches the error.
ProjectsFail(t) ==
    /\ Failing
    /\ pc[t] = "projects"
    /\ EndScreen(t)
    /\ UNCHANGED <<stored, page, screen, panels, waiting, overlapped>>

\* The branches arrive, whichever project is selected by now, and are the
\* options of the filter, which keeps its value when that is among them.
BranchesArrive(t) ==
    /\ pc[t] = "branches"
    /\ \E ok \in Ok :
          LET project == target[t]
              options == {DefaultBranch[project]} \cup IF ok THEN BranchesOf[project] ELSE {}
              value == IF branchFilter \in options THEN branchFilter
                       ELSE DefaultBranch[project]
          IN  /\ branchOptions' = options
              /\ branchFilter' = value
              /\ loadIntegrationScreen(t, Asking(project, value), preferred[t])
    /\ target' = [target EXCEPT ![t] = None]
    /\ preferred' = [preferred EXCEPT ![t] = None]
    /\ UNCHANGED <<stored, page, statusFilter, selectedRunId, failedSpecsBody, duration,
                   timer, job, detail, overlapped>>

\* Mutant: an error leaves the card as it was.
CardOrOldOne(question, ok) ==
    IF ok /\ question.project = selectedProjectId /\ question.branch = branchFilter
    THEN [project |-> question.project, branch |-> question.branch]
    ELSE duration

\* The comparison is ignored when the project or the branch changed, its error
\* when the project did.
Card(question, ok) ==
    IF question.project # selectedProjectId \/ (ok /\ question.branch # branchFilter)
    THEN duration
    ELSE IF ok THEN [project |-> question.project, branch |-> question.branch]
    ELSE None

ComparisonArrives(t) ==
    /\ Settles(t, "comparison")
    /\ \E ok \in Ok : duration' = Card(asked[t], ok)
    /\ UNCHANGED <<selectedRunId, runsBody, failedSpecsBody>>

\* A run list that came too late, or is empty.
RunsIgnored(t) ==
    /\ Settles(t, "runs")
    /\ asked[t].project # None
    /\ IsStale(asked[t])
    /\ UNCHANGED panels

RunsEmpty(t) ==
    /\ Settles(t, "runs")
    /\ ~IsStale(asked[t])
    /\ asked[t].project # None
    /\ FirstPage(asked[t]) = {}
    /\ selectedRunId' = None
    /\ runsBody' = {}
    /\ failedSpecsBody' = {}
    /\ UNCHANGED duration

\* A run list that cannot be loaded is reported, however late.
RunsFail(t) ==
    /\ Settles(t, "runs")
    /\ Failing \/ asked[t].project = None
    /\ selectedRunId' = None
    /\ runsBody' = {}
    /\ failedSpecsBody' = {}
    /\ UNCHANGED duration

\* Mutant: the newest run is always selected.
NewestRun(rows, run) == Newest(rows)

\* nextSelectedRunId: the run that is retained, or the first of the list.
RunToSelect(rows, run) == IF run \in rows THEN {run} ELSE Newest(rows)

\* The rows are appended and the details of the selected run are fetched.
RunsArrive(t) ==
    /\ "runs" \in waiting[t]
    /\ ~IsStale(asked[t])
    /\ LET rows == FirstPage(asked[t])
       IN  /\ runsBody' = runsBody \cup rows
           /\ \E run \in RunToSelect(rows, retained[t]) :
                 /\ selectedRunId' = run
                 /\ loadIntegrationRunDetails(t, asked[t].project, run)
    /\ waiting' = [waiting EXCEPT ![t] = (@ \ {"runs"}) \cup {"details"}]
    /\ retained' = [retained EXCEPT ![t] = None]
    /\ UNCHANGED <<stored, page, screen, duration, timer, pc, job, target, preferred, asked,
                   overlapped>>

\* The failed specs are appended, or a row takes their place that says that
\* there are none or that the run was not found.
DetailsArrive(t) ==
    /\ Settles(t, "details")
    /\ \E ok \in IF RunInfo[detail[t].run].project = detail[t].project THEN Ok ELSE {FALSE} :
          failedSpecsBody' = IF ok /\ RunInfo[detail[t].run].status = "failed"
                             THEN failedSpecsBody \cup {detail[t].run} ELSE {}
    /\ UNCHANGED <<selectedRunId, runsBody, duration>>

HeatmapArrives(t) ==
    /\ pc[t] = "heatmap"
    /\ Return(t)
    /\ EndRefresh
    /\ UNCHANGED <<stored, page, screen, panels, waiting, overlapped>>

\* A run is stored while the page is open.
RunStored(run) ==
    /\ run \notin stored
    /\ stored' = stored \cup {run}
    /\ UNCHANGED <<page, screen, panels, timer, pc, job, waiting, locals, overlapped>>

-----------------------------------------------------------------------------

\* The script has called performIntegrationRefresh('initial').
Init ==
    /\ stored = Runs \ Arriving
    /\ projects = {}
    /\ match = Projects
    /\ selectedProjectId = None
    /\ selectedRunId = None
    /\ branchOptions = {}
    /\ branchFilter = None
    /\ statusFilter = None
    /\ runsBody = {}
    /\ failedSpecsBody = {}
    /\ duration = None
    /\ refreshInFlight = TRUE
    /\ interval \in Intervals
    /\ timeouts = 0
    /\ tracked = FALSE
    /\ \E first \in Tasks :
          pc = [t \in Tasks |-> IF t = first THEN "projects" ELSE "idle"]
    /\ job = [t \in Tasks |-> IF pc[t] = "idle" THEN None ELSE "refresh"]
    /\ waiting = [t \in Tasks |-> {}]
    /\ target = [t \in Tasks |-> None]
    /\ preferred = [t \in Tasks |-> None]
    /\ asked = [t \in Tasks |-> None]
    /\ retained = [t \in Tasks |-> None]
    /\ detail = [t \in Tasks |-> None]
    /\ overlapped = FALSE

Answer(t) ==
    \/ \E catalog \in Catalogs : ProjectsArrive(t, catalog)
    \/ ProjectsFail(t)
    \/ BranchesArrive(t)
    \/ ComparisonArrives(t)
    \/ RunsArrive(t)
    \/ RunsIgnored(t)
    \/ RunsEmpty(t)
    \/ RunsFail(t)
    \/ DetailsArrive(t)
    \/ HeatmapArrives(t)

UserEvent(t) ==
    \/ Refresh(t)
    \/ Reload(t)
    \/ ReloadHeatmap(t)
    \/ \E project \in Projects : ChooseProject(t, project)
    \/ \E branch \in Branches : ChooseBranch(t, branch)
    \/ \E status \in Statuses : ChooseStatus(t, status)
    \/ \E run \in Runs : ClickRun(t, run) \/ ClickTile(t, run)

Next ==
    \/ \E t \in Tasks : UserEvent(t) \/ Answer(t) \/ TimeoutFires(t)
    \/ ChooseNone
    \/ \E matching \in Matches : Search(matching) \/ ChangeGroup(matching)
    \/ \E value \in Intervals : ChangeInterval(value)
    \/ TimeoutFiresBusy
    \/ \E run \in Arriving : RunStored(run)

Spec == Init /\ [][Next]_vars

\* A fetch settles: the API ends every request or its connection breaks.
FairSpec == Spec /\ \A t \in Tasks : WF_vars(Answer(t))

-----------------------------------------------------------------------------
(* Properties. *)

\* Globals and tasks have values of their types.
TypeOK ==
    /\ stored \subseteq Runs
    /\ projects \subseteq Projects
    /\ selectedProjectId \in Projects \cup {None}
    /\ selectedRunId \in Runs \cup {None}
    /\ branchOptions \subseteq Branches
    /\ branchFilter \in branchOptions \cup {None}
    /\ statusFilter \in Statuses
    /\ runsBody \subseteq Runs
    /\ failedSpecsBody \subseteq Runs
    /\ duration \in [project: Projects, branch: Branches \cup {None}] \cup {None}
    /\ refreshInFlight \in BOOLEAN
    /\ timeouts \in Nat
    /\ pc \in [Tasks -> {"idle", "projects", "branches", "screen", "heatmap"}]
    /\ waiting \in [Tasks -> SUBSET {"comparison", "runs", "details"}]

Refreshing == {t \in Live : job[t] \in {"refresh", "reload"}}

\* The flag is shared by the refresh, its timeout and both Reload buttons: two
\* of them are never under way, and the flag tells whether one is.
RefreshesNeverOverlap ==
    /\ Cardinality(Refreshing) <= 1
    /\ refreshInFlight <=> Refreshing # {}

\* Automatic refresh neither dies nor multiplies: at rest exactly one timeout
\* is armed, the one the page can clear, whatever was reloaded or failed and
\* whenever the interval was changed; and none when it is off.
AutoRefreshStaysArmed ==
    /\ timeouts <= 1
    /\ interval = "off" => timeouts = 0
    /\ interval # "off" /\ ~refreshInFlight => timeouts = 1 /\ tracked

\* However answers overtake each other, the rows of the table are runs of the
\* selected project, branch and status, except while the branches of a project
\* just selected are awaited.
RowsFollowSelection ==
    (\A t \in Tasks : pc[t] # "branches" \/ target[t] # selectedProjectId)
        => runsBody \subseteq Listed(Selection)

\* When all is loaded, and no task ran into the one that loaded the screen,
\* the failed specs are those of the selected run and the card tells of the
\* selected project and branch.
PanelsFollowSelection ==
    Live = {} /\ ~overlapped /\ selectedProjectId # None =>
        /\ failedSpecsBody \subseteq {selectedRunId}
        /\ duration \in {[project |-> selectedProjectId, branch |-> branchFilter], None}

\* The table of a task is filled.
Fills(t) == "runs" \in waiting[t] /\ "details" \in waiting'[t]

\* A refresh or a reload nobody interferes with keeps the selected run as long
\* as it is on the page it lists, else it selects the newest.
RefreshKeepsRun ==
    [][\A t \in Refreshing :
          Fills(t) /\ ~overlapped =>
            selectedRunId' \in IF selectedRunId \in runsBody' THEN {selectedRunId}
                               ELSE Newest(runsBody')]_vars

\* Every refresh and reload ends, with its button and its timeout back, also
\* when fetches fail.
RefreshEnds == refreshInFlight ~> ~refreshInFlight

-----------------------------------------------------------------------------
(* What the properties rest on. *)

Questions == [project: Projects \cup {None}, branch: Branches \cup {None}, status: Statuses]
Details == [project: Projects \cup {None}, run: Runs]

LocalsTyped ==
    /\ job \in [Tasks -> {None, "refresh", "reload", "select", "filter", "run"}]
    /\ target \in [Tasks -> Projects \cup {None}]
    /\ preferred \in [Tasks -> Runs \cup {None}]
    /\ asked \in [Tasks -> Questions \cup {None}]
    /\ retained \in [Tasks -> Runs \cup {None}]
    /\ detail \in [Tasks -> Details \cup {None}]

\* At each await a task has the locals the answer will be handled with.
TaskInv(t) ==
    /\ pc[t] = "screen" <=> waiting[t] # {}
    /\ pc[t] = "branches" => target[t] \in Projects
    /\ "comparison" \in waiting[t] \/ "runs" \in waiting[t] => asked[t] \in Questions
    /\ "comparison" \in waiting[t] => asked[t].project # None
    /\ "details" \in waiting[t] => detail[t] \in Details

TasksInv == LocalsTyped /\ \A t \in Tasks : TaskInv(t)

\* The flag is set by the one task that resets it at its last await.
RefreshInv ==
    /\ \A t \in Tasks : pc[t] \in {"projects", "heatmap"} => t \in Refreshing
    /\ \A t, u \in Refreshing : t = u
    /\ refreshInFlight <=> Refreshing # {}

\* The one timeout that may be armed is the one the page knows of.
TimerInv ==
    /\ interval \in Intervals /\ tracked \in BOOLEAN
    /\ timeouts = IF tracked THEN 1 ELSE 0
    /\ interval = "off" => ~tracked
    /\ interval # "off" /\ ~refreshInFlight => tracked

\* A task that runs alone loads the screen of the selection, from the branches on
\* until its answers are there.
AwaitsCard(t) == pc[t] = "branches" \/ "comparison" \in waiting[t]
AwaitsRuns(t) == pc[t] = "branches" \/ "runs" \in waiting[t]

LoadsSelection(t) ==
    /\ pc[t] = "branches" => target[t] = selectedProjectId
    /\ "comparison" \in waiting[t] =>
          asked[t].project = selectedProjectId /\ asked[t].branch = branchFilter
    /\ "runs" \in waiting[t] => ~IsStale(asked[t]) /\ runsBody = {}
    /\ "details" \in waiting[t] => detail[t].run = selectedRunId

\* A refresh or a reload carries the selected run over its awaits.
KeepsRun(t) ==
    /\ pc[t] = "branches" => preferred[t] \in {selectedRunId, None}
    /\ "runs" \in waiting[t] => retained[t] = selectedRunId

\* Card and failed specs show the selection, or the task will set them.
CardFollows ==
    \/ duration \in {[project |-> selectedProjectId, branch |-> branchFilter], None}
    \/ \E t \in Tasks : AwaitsCard(t)
SpecsFollow ==
    failedSpecsBody \subseteq {selectedRunId} \/ \E t \in Tasks : AwaitsRuns(t)

PanelsShown ==
    /\ \A t, u \in Live : t = u
    /\ selectedProjectId # None =>
          /\ \A t \in Tasks : LoadsSelection(t)
          /\ \A t \in Refreshing : KeepsRun(t)
          /\ CardFollows /\ SpecsFollow

\* The details are asked for when the run list has arrived.
RunsThenDetails == \A t \in Tasks : ~({"runs", "details"} \subseteq waiting[t])

PanelsInv == RunsThenDetails /\ (~overlapped => PanelsShown)

-----------------------------------------------------------------------------
(* What the documents promise and the code does not keep. *)

\* "Selecting a node focuses the corresponding run and refreshes failed-spec
\* details": once everything has arrived the failed specs are the selected
\* run's.
SpecsFollowRun ==
    Live = {} /\ selectedRunId # None => failedSpecsBody \subseteq {selectedRunId}
=============================================================================
