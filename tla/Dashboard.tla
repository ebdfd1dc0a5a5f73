------------------------------ MODULE Dashboard ------------------------------
(***************************************************************************)
(* The home page of the dashboard (assets/app.js): a single-threaded       *)
(* script whose event handlers are interrupted at every await, over        *)
(* globals that all of them share.                                         *)
(*                                                                         *)
(* A task is one handler under way: a refresh, the selection of a project  *)
(* or of a branch.  A step is what the script does between two awaits; the *)
(* answers to its fetches arrive in any order, and may be errors.  The     *)
(* overlays, and the loop over the pages of the project list, whose result *)
(* is used only when it is complete, are left out; the package table is    *)
(* filled together with the comparison card.                               *)
(***************************************************************************)
EXTENDS Naturals, FiniteSets

CONSTANTS
    None,           \* null, an empty string, an empty panel
    Tasks,          \* handlers that can be under way at once
    Projects,       \* project IDs
    Branches,       \* branch names
    Intervals,      \* automatic refresh intervals, "off" among them
    Catalogs,       \* project lists the API may return
    Matches,        \* sets of projects a group filter and a search let through
    Failing         \* whether fetches may fail

\* What the API lists as the branches of a project.
CONSTANT BranchesOf

ASSUME PageConstants ==
    /\ None \notin Tasks \cup Projects \cup Branches
    /\ BranchesOf \in [Projects -> SUBSET Branches]
    /\ Catalogs \subseteq SUBSET Projects
    /\ Matches \subseteq SUBSET Projects
    /\ "off" \in Intervals
    /\ Failing \in BOOLEAN

VARIABLES
    allProjects,            \* the project list last loaded
    match,                  \* what the filter controls let through
    selectedProjectId,
    selectedBranch,         \* None for "Latest Run (All Branches)"
    availableBranches,      \* and branchSelector, its options
    trendRequestSequence,   \* the task whose open trend request has the newest
                            \* number, None when that one was answered
    trendChart,             \* the project the chart was drawn for
    runsBody,               \* the projects whose runs are rows of the table
    comparison,             \* the project and branch of the comparison card
    homeRefreshInFlight,
    interval,               \* the value of autoRefreshInterval
    timeouts,               \* how many refresh timeouts are armed
    tracked,                \* whether homeRefreshTimeoutId is one of them
    pc, job, target, waiting,   \* of each task: its await, its handler, its
                                \* project and, in Promise.all, its open fetches
    asked,                  \* the branch its comparison was asked for
    overlapped              \* history: another task ran since the panels were
                            \* last loaded by a task on its own

page   == <<allProjects, match, selectedProjectId, selectedBranch, availableBranches>>
panels == <<trendRequestSequence, trendChart, runsBody, comparison>>
timer  == <<homeRefreshInFlight, interval, timeouts, tracked>>
tasks  == <<pc, job, target, waiting, asked>>
vars   == <<page, panels, timer, tasks, overlapped>>

Live == {t \in Tasks : pc[t] # "idle"}
filteredProjects == allProjects \cap match
Goto(t, await) == pc' = [pc EXCEPT ![t] = await]
\* The handler returns and its locals are gone.
Return(t) ==
    /\ Goto(t, "idle")
    /\ job' = [job EXCEPT ![t] = None]
    /\ target' = [target EXCEPT ![t] = None]
    /\ asked' = [asked EXCEPT ![t] = None]
\* How a fetch can end, and one about the runs of a project: a project without
\* runs has no branches, an empty trend and no comparison.
Ok == IF Failing THEN BOOLEAN ELSE {TRUE}
Found(project) == IF BranchesOf[project] = {} THEN {FALSE} ELSE Ok

\* A refresh is done with its project and goes on to the heatmap.
EndSelection(t) ==
    /\ Goto(t, "heatmap")
    /\ target' = [target EXCEPT ![t] = None]
    /\ asked' = [asked EXCEPT ![t] = None]
    /\ UNCHANGED job

-----------------------------------------------------------------------------
(* Automatic refresh. *)

\* Mutant: an armed timeout is not cleared.
ArmAnother(value) ==
    /\ timeouts' = IF value = "off" THEN timeouts ELSE timeouts + 1
    /\ tracked' = (value # "off")

\* clearHomeAutoRefresh clears the timeout it knows of, then one is armed.
scheduleHomeAutoRefresh(value) ==
    LET cleared == IF tracked THEN timeouts - 1 ELSE timeouts
    IN  /\ timeouts' = IF value = "off" THEN cleared ELSE cleared + 1
        /\ tracked' = (value # "off")

ChangeInterval(value) ==
    /\ value # interval
    /\ interval' = value
    /\ scheduleHomeAutoRefresh(value)
    /\ UNCHANGED <<homeRefreshInFlight, page, panels, tasks, overlapped>>

\* Mutant: nothing keeps a second refresh from starting.
AlwaysStarts == TRUE

\* performHomeRefresh returns at once when a refresh is in flight.
MayRefresh == ~homeRefreshInFlight

\* performHomeRefresh up to its first await, whatever started it: the button,
\* the timeout or the page becoming visible late.
performHomeRefresh(t) ==
    /\ pc[t] = "idle"
    /\ MayRefresh
    /\ homeRefreshInFlight' = TRUE
    /\ Goto(t, "projects")
    /\ job' = [job EXCEPT ![t] = "refresh"]
    /\ overlapped' = (overlapped \/ Live # {})
    /\ UNCHANGED <<interval, page, panels, target, waiting, asked>>

Refresh(t) ==
    /\ performHomeRefresh(t)
    /\ timeouts' = IF tracked THEN timeouts - 1 ELSE timeouts
    /\ tracked' = FALSE

\* The timeout fires.  A fired timeout cannot be cleared.
TimeoutFires(t) ==
    /\ timeouts > 0
    /\ performHomeRefresh(t)
    /\ timeouts' = timeouts - 1
    /\ tracked' = FALSE

TimeoutFiresBusy ==
    /\ timeouts > 0
    /\ homeRefreshInFlight
    /\ timeouts' = IF interval = "off" THEN timeouts - 1 ELSE timeouts
    /\ tracked' = (interval # "off")
    /\ UNCHANGED <<homeRefreshInFlight, interval, page, panels, tasks, overlapped>>

\* Mutant: the finally block does not reset the flag when it reschedules.
EndWithoutReset ==
    /\ scheduleHomeAutoRefresh(interval)
    /\ UNCHANGED <<homeRefreshInFlight, interval>>

\* The finally block.
EndRefresh ==
    /\ homeRefreshInFlight' = FALSE
    /\ scheduleHomeAutoRefresh(interval)
    /\ UNCHANGED interval

-----------------------------------------------------------------------------
(* Selection of a project. *)

\* selectProject up to loadBranches.
selectProject(t, project, resetBranch) ==
    /\ selectedProjectId' = project
    /\ selectedBranch' = IF resetBranch THEN None ELSE selectedBranch
    /\ target' = [target EXCEPT ![t] = project]
    /\ Goto(t, "branches")
    /\ overlapped' = (Live \ {t} # {})
    /\ UNCHANGED <<availableBranches, panels>>

\* No project is left to select: the panels are emptied, the chart is not.
clearSelection ==
    /\ selectedProjectId' = None
    /\ selectedBranch' = None
    /\ runsBody' = {}
    /\ comparison' = None
    /\ UNCHANGED <<availableBranches, trendRequestSequence, trendChart>>

StartsSelect(t) ==
    /\ pc[t] = "idle"
    /\ job' = [job EXCEPT ![t] = "select"]
    /\ UNCHANGED <<waiting, asked, timer>>

\* projectSelector, or a tile of the heatmap.
ChooseProject(t, project) ==
    /\ project \in allProjects
    /\ StartsSelect(t)
    /\ selectProject(t, project, TRUE)
    /\ UNCHANGED <<allProjects, match>>

ChooseNone ==
    /\ clearSelection
    /\ UNCHANGED <<allProjects, match, timer, tasks, overlapped>>

\* projectSearchInput only filters the list.
Search(matching) ==
    /\ match' = matching
    /\ UNCHANGED <<allProjects, selectedProjectId, selectedBranch, availableBranches,
                   panels, timer, tasks, overlapped>>

\* projectGroupFilter also makes sure that the selected project is listed.
ChangeGroup(matching) ==
    /\ match' = matching
    /\ UNCHANGED allProjects
    /\ LET visible == allProjects \cap matching
       IN  \/ /\ selectedProjectId \in visible
              /\ UNCHANGED <<selectedProjectId, selectedBranch, availableBranches,
                             panels, timer, tasks, overlapped>>
           \/ /\ visible = {}
              /\ clearSelection
              /\ UNCHANGED <<timer, tasks, overlapped>>
           \/ /\ selectedProjectId \notin visible
              /\ \E t \in Tasks, first \in visible :
                    StartsSelect(t) /\ selectProject(t, first, TRUE)

\* branchSelector: the comparison is loaded for the new branch.
ChooseBranch(t, branch) ==
    /\ pc[t] = "idle"
    /\ branch \in availableBranches \cup {None}
    /\ selectedProjectId # None
    /\ selectedBranch' = branch
    /\ asked' = [asked EXCEPT ![t] = branch]
    /\ target' = [target EXCEPT ![t] = selectedProjectId]
    /\ job' = [job EXCEPT ![t] = "branch"]
    /\ Goto(t, "comparison")
    /\ overlapped' = (overlapped \/ Live # {})
    /\ UNCHANGED <<allProjects, match, selectedProjectId, availableBranches,
                   trendRequestSequence, trendChart, runsBody, comparison,
                   waiting, timer>>

-----------------------------------------------------------------------------
(* Answers. *)

\* Mutant: the list selects its first project.
AlwaysFirst(visible) == visible

\* Which project a loaded list selects: the selected one as long as it is
\* listed, else the first.
NextSelected(visible) ==
    IF selectedProjectId \in visible THEN {selectedProjectId} ELSE visible

\* The project list arrives.  The API deletes no project.
ProjectsArrive(t, catalog) ==
    /\ pc[t] = "projects"
    /\ allProjects \subseteq catalog
    /\ allProjects' = catalog
    /\ UNCHANGED <<match, waiting>>
    /\ LET visible == catalog \cap match
       IN  \/ /\ visible = {}
              /\ clearSelection
              /\ EndSelection(t)
              /\ UNCHANGED overlapped
           \/ \E next \in NextSelected(visible) :
                 /\ selectProject(t, next, next # selectedProjectId)
                 /\ UNCHANGED <<job, asked>>
    /\ UNCHANGED timer

\* loadProjects catches the error; nothing is loaded.
ProjectsFail(t) ==
    /\ Failing
    /\ pc[t] = "projects"
    /\ Return(t)
    /\ EndRefresh
    /\ UNCHANGED <<page, panels, waiting, overlapped>>

\* Mutant: the table keeps its placeholder row.
PlaceholderRow == {None}

\* Mutant: the table keeps the rows of the last load.
KeepRuns == runsBody

\* loadRecentRuns empties the table before it fetches.
EmptiedRuns == {}

\* The branches arrive, whichever project is selected by now; the recent runs
\* and the trend are fetched together.
BranchesArrive(t) ==
    /\ pc[t] = "branches"
    /\ \E ok \in Ok :
          /\ availableBranches' = IF ok THEN BranchesOf[target[t]] ELSE {}
          /\ selectedBranch' = IF ok /\ selectedBranch \notin BranchesOf[target[t]]
                               THEN None ELSE selectedBranch
    /\ runsBody' = EmptiedRuns
    /\ trendRequestSequence' = t
    /\ waiting' = [waiting EXCEPT ![t] = {"runs", "trend"}]
    /\ Goto(t, "panels")
    /\ UNCHANGED <<allProjects, match, selectedProjectId, trendChart, comparison,
                   timer, job, target, asked, overlapped>>

\* When both are there, the comparison is fetched for the branch that is
\* selected by now.
Answered(t, panel) ==
    /\ pc[t] = "panels"
    /\ panel \in waiting[t]
    /\ waiting' = [waiting EXCEPT ![t] = @ \ {panel}]
    /\ IF waiting[t] = {panel}
       THEN /\ Goto(t, "comparison")
            /\ asked' = [asked EXCEPT ![t] = selectedBranch]
       ELSE UNCHANGED <<pc, asked>>
    /\ UNCHANGED <<page, comparison, timer, job, target, overlapped>>

\* Rows are appended, or a row with the error.
RunsArrive(t) ==
    /\ Answered(t, "runs")
    /\ \E ok \in Ok :
          runsBody' = IF ok THEN runsBody \cup {target[t]} ELSE runsBody
    /\ UNCHANGED <<trendRequestSequence, trendChart>>

\* The series arrive, those that failed as empty ones; the chart is drawn for
\* the newest request when its project is still selected.
TrendArrives(t) ==
    /\ Answered(t, "trend")
    /\ \E ok \in Found(target[t]) :
          trendChart' = IF trendRequestSequence = t /\ selectedProjectId = target[t]
                        THEN (IF ok THEN target[t] ELSE None) ELSE trendChart
    /\ trendRequestSequence' = IF trendRequestSequence = t THEN None
                               ELSE trendRequestSequence
    /\ UNCHANGED runsBody

\* The comparison is shown, or the error is; a refresh goes on to the heatmap.
ComparisonArrives(t) ==
    /\ pc[t] = "comparison"
    /\ \E ok \in Found(target[t]) :
          comparison' = IF ok THEN [project |-> target[t], branch |-> asked[t]] ELSE None
    /\ IF job[t] = "refresh" THEN EndSelection(t) ELSE Return(t)
    /\ UNCHANGED <<page, trendRequestSequence, trendChart, runsBody, timer, waiting,
                   overlapped>>

\* The last await of a refresh.
HeatmapArrives(t) ==
    /\ pc[t] = "heatmap"
    /\ Return(t)
    /\ EndRefresh
    /\ UNCHANGED <<page, panels, waiting, overlapped>>

-----------------------------------------------------------------------------

\* The script has called performHomeRefresh('initial').
Init ==
    /\ allProjects = {}
    /\ match = Projects
    /\ selectedProjectId = None
    /\ selectedBranch = None
    /\ availableBranches = {}
    /\ trendRequestSequence = None
    /\ trendChart = None
    /\ runsBody = {}
    /\ comparison = None
    /\ homeRefreshInFlight = TRUE
    /\ interval \in Intervals
    /\ timeouts = 0
    /\ tracked = FALSE
    /\ \E first \in Tasks :
          pc = [t \in Tasks |-> IF t = first THEN "projects" ELSE "idle"]
    /\ job = [t \in Tasks |-> IF pc[t] = "idle" THEN None ELSE "refresh"]
    /\ target = [t \in Tasks |-> None]
    /\ waiting = [t \in Tasks |-> {}]
    /\ asked = [t \in Tasks |-> None]
    /\ overlapped = FALSE

Answer(t) ==
    \/ \E catalog \in Catalogs : ProjectsArrive(t, catalog)
    \/ ProjectsFail(t)
    \/ BranchesArrive(t)
    \/ RunsArrive(t)
    \/ TrendArrives(t)
    \/ ComparisonArrives(t)
    \/ HeatmapArrives(t)

UserEvent ==
    \/ \E value \in Intervals : ChangeInterval(value)
    \/ \E t \in Tasks :
        \/ Refresh(t)
        \/ \E project \in Projects : ChooseProject(t, project)
        \/ \E branch \in Branches \cup {None} : ChooseBranch(t, branch)
    \/ ChooseNone
    \/ \E matching \in Matches : Search(matching) \/ ChangeGroup(matching)

Next ==
    \/ UserEvent
    \/ \E t \in Tasks : Answer(t) \/ TimeoutFires(t)
    \/ TimeoutFiresBusy

Spec == Init /\ [][Next]_vars

\* A fetch settles: the API ends every request or its connection breaks.
FairSpec == Spec /\ \A t \in Tasks : WF_vars(Answer(t))

-----------------------------------------------------------------------------
(* Properties. *)

\* Globals and tasks have values of their types.
TypeOK ==
    /\ allProjects \subseteq Projects
    /\ selectedProjectId \in Projects \cup {None}
    /\ selectedBranch \in Branches \cup {None}
    /\ availableBranches \subseteq Branches
    /\ trendRequestSequence \in Tasks \cup {None}
    /\ trendChart \in Projects \cup {None}
    /\ runsBody \subseteq Projects
    /\ comparison \in [project: Projects, branch: Branches \cup {None}] \cup {None}
    /\ homeRefreshInFlight \in BOOLEAN
    /\ timeouts \in Nat
    /\ pc \in [Tasks -> {"idle", "projects", "branches", "panels", "comparison", "heatmap"}]
    /\ waiting \in [Tasks -> SUBSET {"runs", "trend"}]

Refreshing == {t \in Live : job[t] = "refresh"}

\* "prevent duplicate concurrent refreshes": button, timeout and visibility
\* never have two refreshes under way, and the flag tells whether one is.
RefreshesNeverOverlap ==
    /\ Cardinality(Refreshing) <= 1
    /\ homeRefreshInFlight <=> Refreshing # {}

\* Automatic refresh neither dies nor multiplies: at rest exactly one timeout
\* is armed, the one the page can clear, whatever the interval was changed to
\* while a refresh ran or failed; and none when it is off.
AutoRefreshStaysArmed ==
    /\ timeouts <= 1
    /\ interval = "off" => timeouts = 0
    /\ interval # "off" /\ ~homeRefreshInFlight => timeouts = 1 /\ tracked

\* When all is loaded, and no task ran into the one that loaded the panels,
\* every panel shows the selected project and branch or is empty.
PanelsFollowSelection ==
    Live = {} /\ ~overlapped /\ selectedProjectId # None =>
        LET shown == [project |-> selectedProjectId, branch |-> selectedBranch]
        IN  /\ trendChart \in {selectedProjectId, None}
            /\ runsBody \subseteq {selectedProjectId}
            /\ comparison \in {shown, None}

\* "If the currently selected project still exists after refresh, it must
\* remain selected", as long as the filters let it through: what the user
\* selected while the list was on its way included.
SelectionSurvivesRefresh ==
    [][\A t \in Tasks :
          pc[t] = "projects" /\ pc'[t] # "projects"
          /\ selectedProjectId \in allProjects' \cap match
          => selectedProjectId' = selectedProjectId
             /\ selectedBranch' = selectedBranch]_vars

\* Every refresh ends, with its button and its timeout back, also when fetches
\* fail.
RefreshEnds == homeRefreshInFlight ~> ~homeRefreshInFlight

-----------------------------------------------------------------------------
(* What the properties rest on. *)

LocalsTyped ==
    /\ job \in [Tasks -> {None, "refresh", "select", "branch"}]
    /\ target \in [Tasks -> Projects \cup {None}]
    /\ asked \in [Tasks -> Branches \cup {None}]

\* At each await a task has the locals the answer will be handled with.
TaskInv(t) ==
    /\ pc[t] = "panels" <=> waiting[t] # {}
    /\ pc[t] \in {"branches", "panels", "comparison"} => target[t] \in Projects

TasksInv == LocalsTyped /\ \A t \in Tasks : TaskInv(t)

\* The flag is set by the one task that resets it at its last await.
RefreshInv ==
    /\ \A t \in Tasks : pc[t] \in {"projects", "heatmap"} => t \in Refreshing
    /\ \A t, u \in Refreshing : t = u
    /\ homeRefreshInFlight <=> Refreshing # {}

\* The one timeout that may be armed is the one the page knows of.
TimerInv ==
    /\ interval \in Intervals /\ tracked \in BOOLEAN
    /\ timeouts = IF tracked THEN 1 ELSE 0
    /\ interval = "off" => ~tracked
    /\ interval # "off" /\ ~homeRefreshInFlight => tracked

\* A task between a selection and the answer that fills a panel: the branches,
\* the trend, the comparison.
AwaitsBranches(t) == pc[t] = "branches"
AwaitsTrend(t) == AwaitsBranches(t) \/ (pc[t] = "panels" /\ "trend" \in waiting[t])
AwaitsComparison(t) == pc[t] \in {"branches", "panels", "comparison"}

\* A task that runs alone loads the panels of the selection, and until then
\* the panels it has not reached may show what was selected before.
LoadsSelection(t) ==
    /\ AwaitsComparison(t) => target[t] = selectedProjectId
    /\ pc[t] = "comparison" => asked[t] = selectedBranch
    /\ pc[t] = "panels" /\ "trend" \in waiting[t] => trendRequestSequence = t

\* Each panel shows the selection, or a task will fill it.
ChartFollows ==
    trendChart \in {selectedProjectId, None} \/ \E t \in Tasks : AwaitsTrend(t)
RunsFollow ==
    runsBody \subseteq {selectedProjectId} \/ \E t \in Tasks : AwaitsBranches(t)
ComparisonFollows ==
    \/ comparison \in {[project |-> selectedProjectId, branch |-> selectedBranch], None}
    \/ \E t \in Tasks : AwaitsComparison(t)

PanelsInv ==
    ~overlapped =>
        /\ \A t, u \in Live : t = u
        /\ selectedProjectId # None =>
              /\ \A t \in Tasks : LoadsSelection(t)
              /\ ChartFollows /\ RunsFollow /\ ComparisonFollows
=============================================================================
