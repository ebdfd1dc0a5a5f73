-------------------------- MODULE TestDashboardProofs --------------------------
(***************************************************************************)
(* The pages of the test runs, for any number of handlers under way: their *)
(* refreshes exclude each other, the automatic refresh stays armed and the *)
(* table, the card and the failed specs show the selection, and a refresh  *)
(* keeps its run, whatever the order of clicks and answers.                *)
(***************************************************************************)
EXTENDS TestDashboard, FiniteSetTheorems, TLAPS

\* Where a task may be.
Awaits == {"idle", "projects", "branches", "screen", "heatmap"}

\* A cleared timer holds nothing.
LEMMA Clears ==
  ASSUME TimerInv, clearIntegrationAutoRefresh
  PROVE  timeouts' = 0 /\ tracked' = FALSE
BY DEF TimerInv, clearIntegrationAutoRefresh

\* A timer that is set again holds one timeout, or none when it is off.
LEMMA Schedules ==
  ASSUME TimerInv, NEW value, scheduleIntegrationAutoRefresh(value)
  PROVE  timeouts' = (IF tracked' THEN 1 ELSE 0) /\ tracked' = (value # "off")
<1> DEFINE cleared == IF tracked THEN timeouts - 1 ELSE timeouts
<1>1. cleared = 0
  BY DEF TimerInv
<1>2. /\ timeouts' = IF value = "off" THEN cleared ELSE cleared + 1
      /\ tracked' = (value # "off")
  BY DEF scheduleIntegrationAutoRefresh
<1> HIDE DEF cleared
<1>3. CASE value = "off"
  <2>1. ~tracked' /\ timeouts' = 0
    BY <1>1, <1>2, <1>3
  <2> QED
    BY <1>2, <2>1
<1>4. CASE value # "off"
  <2>1. tracked'
    BY <1>2, <1>4
  <2>2. timeouts' = 1
    BY <1>1, <1>2, <1>4
  <2> QED
    BY <1>2, <2>1, <2>2
<1> QED
  BY <1>3, <1>4

\* The end of a handler leaves the timer armed.
LEMMA TimerEnds ==
  ASSUME TimerInv, refreshInFlight \in BOOLEAN, NEW t \in Tasks, EndScreen(t)
  PROVE  TimerInv'
BY DEF EndScreen, EndRefresh, scheduleIntegrationAutoRefresh, timer, TimerInv

\* Every step keeps the timer.
LEMMA TimerStep ==
  ASSUME TimerInv, refreshInFlight \in BOOLEAN, [Next]_vars
  PROVE  TimerInv'
<1>t. TimerInv /\ refreshInFlight \in BOOLEAN
  OBVIOUS
<1> USE TestPageConstants
<1>1. ASSUME NEW t \in Tasks, Refresh(t)
      PROVE  TimerInv'
  BY <1>1, <1>t, Clears DEF Refresh, performIntegrationRefresh, MayRefresh, timer, TimerInv
<1>2. ASSUME NEW t \in Tasks, Reload(t)
      PROVE  TimerInv'
  BY <1>2, <1>t, Clears, Schedules DEF Reload, EndRefresh, MayRefresh, timer, TimerInv
<1>3. ASSUME NEW t \in Tasks, ReloadHeatmap(t)
      PROVE  TimerInv'
  BY <1>3, <1>t, Clears DEF ReloadHeatmap, MayRefresh, timer, TimerInv
<1>4. ASSUME NEW t \in Tasks, NEW project \in Projects, ChooseProject(t, project)
      PROVE  TimerInv'
  BY <1>4, <1>t DEF ChooseProject, timer, TimerInv
<1>5. ASSUME NEW t \in Tasks, NEW branch \in Branches, ChooseBranch(t, branch)
      PROVE  TimerInv'
  BY <1>5, <1>t DEF ChooseBranch, timer, TimerInv
<1>6. ASSUME NEW t \in Tasks, NEW status \in Statuses, ChooseStatus(t, status)
      PROVE  TimerInv'
  BY <1>6, <1>t DEF ChooseStatus, timer, TimerInv
<1>7. ASSUME NEW t \in Tasks, NEW run \in Runs, ClickRun(t, run)
      PROVE  TimerInv'
  BY <1>7, <1>t DEF ClickRun, SelectRun, timer, TimerInv
<1>8. ASSUME NEW t \in Tasks, NEW run \in Runs, ClickTile(t, run)
      PROVE  TimerInv'
  BY <1>8, <1>t DEF ClickTile, SelectRun, timer, TimerInv
<1>9. ASSUME NEW t \in Tasks, NEW catalog \in Catalogs, ProjectsArrive(t, catalog)
      PROVE  TimerInv'
  BY <1>9, <1>t, TimerEnds DEF ProjectsArrive, timer, TimerInv
<1>10. ASSUME NEW t \in Tasks, ProjectsFail(t)
      PROVE  TimerInv'
  BY <1>10, <1>t, TimerEnds DEF ProjectsFail, timer, TimerInv
<1>11. ASSUME NEW t \in Tasks, BranchesArrive(t)
      PROVE  TimerInv'
  BY <1>11, <1>t DEF BranchesArrive, timer, TimerInv
<1>12. ASSUME NEW t \in Tasks, ComparisonArrives(t)
      PROVE  TimerInv'
  BY <1>12, <1>t, TimerEnds DEF ComparisonArrives, Settles, timer, TimerInv
<1>13. ASSUME NEW t \in Tasks, RunsArrive(t)
      PROVE  TimerInv'
  BY <1>13, <1>t DEF RunsArrive, timer, TimerInv
<1>14. ASSUME NEW t \in Tasks, RunsIgnored(t)
      PROVE  TimerInv'
  BY <1>14, <1>t, TimerEnds DEF RunsIgnored, Settles, timer, TimerInv
<1>15. ASSUME NEW t \in Tasks, RunsEmpty(t)
      PROVE  TimerInv'
  BY <1>15, <1>t, TimerEnds DEF RunsEmpty, Settles, timer, TimerInv
<1>16. ASSUME NEW t \in Tasks, RunsFail(t)
      PROVE  TimerInv'
  BY <1>16, <1>t, TimerEnds DEF RunsFail, Settles, timer, TimerInv
<1>17. ASSUME NEW t \in Tasks, DetailsArrive(t)
      PROVE  TimerInv'
  BY <1>17, <1>t, TimerEnds DEF DetailsArrive, Settles, timer, TimerInv
<1>18. ASSUME NEW t \in Tasks, HeatmapArrives(t)
      PROVE  TimerInv'
  BY <1>18, <1>t DEF HeatmapArrives, Return, EndRefresh, scheduleIntegrationAutoRefresh, timer,
      TimerInv
<1>19. ASSUME NEW t \in Tasks, TimeoutFires(t)
       PROVE  TimerInv'
  <2>1. timeouts > 0 /\ timeouts' = timeouts - 1 /\ tracked' = FALSE
    BY <1>19 DEF TimeoutFires
  <2>2. timeouts = 1
    BY <1>t, <2>1 DEF TimerInv
  <2>3. timeouts' = 0 /\ refreshInFlight' = TRUE /\ interval' = interval
    BY <1>19, <2>1, <2>2 DEF TimeoutFires, performIntegrationRefresh
  <2> QED
    BY <1>t, <2>1, <2>3 DEF TimerInv
<1>20. CASE ChooseNone
  BY <1>20, <1>t DEF ChooseNone, timer, TimerInv
<1>21. ASSUME NEW matching \in Matches, Search(matching)
      PROVE  TimerInv'
  BY <1>21, <1>t DEF Search, timer, TimerInv
<1>22. ASSUME NEW matching \in Matches, ChangeGroup(matching)
      PROVE  TimerInv'
  BY <1>22, <1>t DEF ChangeGroup, timer, TimerInv
<1>23. ASSUME NEW value \in Intervals, ChangeInterval(value)
      PROVE  TimerInv'
  BY <1>23, <1>t, Schedules DEF ChangeInterval, timer, TimerInv
<1>24. CASE TimeoutFiresBusy
  BY <1>24, <1>t DEF TimeoutFiresBusy, timer, TimerInv
<1>25. ASSUME NEW run \in Arriving, RunStored(run)
      PROVE  TimerInv'
  BY <1>25, <1>t DEF RunStored, timer, TimerInv
<1>26. CASE UNCHANGED vars
  BY <1>26, <1>t DEF vars, timer, TimerInv
<1> QED
  BY <1>1, <1>2, <1>3, <1>4, <1>5, <1>6, <1>7, <1>8, <1>9, <1>10, <1>11, <1>12, <1>13,
     <1>14, <1>15, <1>16, <1>17, <1>18, <1>19, <1>20, <1>21, <1>22, <1>23, <1>24, <1>25,
     <1>26 DEF Next, UserEvent, Answer

\* A handler that returns leaves typed locals.
LEMMA Returned ==
  ASSUME LocalsTyped, NEW t \in Tasks, Return(t)
  PROVE  LocalsTyped'
BY DEF LocalsTyped, Return

\* A handler that is done with its screen keeps the tasks.
LEMMA Ended ==
  ASSUME LocalsTyped, pc \in [Tasks -> Awaits], refreshInFlight \in BOOLEAN,
         NEW t \in Tasks, EndScreen(t)
  PROVE  /\ LocalsTyped' /\ refreshInFlight' \in BOOLEAN
         /\ pc' \in [Tasks -> Awaits] /\ pc'[t] \in {"idle", "heatmap"}
         /\ \A u \in Tasks \ {t} :
               /\ pc'[u] = pc[u] /\ target'[u] = target[u]
               /\ asked'[u] = asked[u] /\ detail'[u] = detail[u]
<1>1. CASE UNCHANGED <<job, timer, locals>> /\ Goto(t, "heatmap")
  BY <1>1 DEF Goto, timer, locals, LocalsTyped, Awaits
<1>2. CASE Return(t) /\ (EndRefresh \/ UNCHANGED timer)
  <2>1. LocalsTyped'
    BY <1>2, Returned
  <2>2. refreshInFlight' \in BOOLEAN
    BY <1>2 DEF EndRefresh, timer
  <2> QED
    BY <1>2, <2>1, <2>2 DEF Return, Goto, LocalsTyped, Awaits
<1> QED
  BY <1>1, <1>2 DEF EndScreen

\* So does a fetch that settles.
LEMMA Settled ==
  ASSUME TasksInv, pc \in [Tasks -> Awaits], refreshInFlight \in BOOLEAN,
         waiting \in [Tasks -> SUBSET {"comparison", "runs", "details"}],
         NEW t \in Tasks, NEW fetch, Settles(t, fetch)
  PROVE  /\ TasksInv' /\ refreshInFlight' \in BOOLEAN
         /\ pc' \in [Tasks -> Awaits]
         /\ waiting' \in [Tasks -> SUBSET {"comparison", "runs", "details"}]
<1>1. /\ fetch \in waiting[t]
      /\ waiting' = [waiting EXCEPT ![t] = @ \ {fetch}]
  BY DEF Settles
<1>2. pc[t] = "screen"
  BY <1>1 DEF TasksInv, TaskInv
<1>3. CASE waiting[t] = {fetch} /\ EndScreen(t)
  <2>1. LocalsTyped'
    BY <1>3, Ended DEF TasksInv
  <2>2. ASSUME NEW u \in Tasks
        PROVE  TaskInv(u)'
    <3>1. CASE u = t
      <4>1. waiting'[u] = {} /\ pc'[u] \in {"idle", "heatmap"}
        BY <1>1, <1>3, <3>1, Ended DEF TasksInv
      <4> QED
        BY <4>1 DEF TaskInv
    <3>2. CASE u # t
      <4>1. waiting'[u] = waiting[u] /\ pc'[u] = pc[u] /\ target'[u] = target[u]
            /\ asked'[u] = asked[u] /\ detail'[u] = detail[u]
        BY <1>1, <1>3, <3>2, Ended DEF TasksInv
      <4> QED
        BY <4>1 DEF TasksInv, TaskInv
    <3> QED
      BY <3>1, <3>2
  <2> QED
    BY <1>1, <1>3, <2>1, <2>2, Ended DEF TasksInv
<1>4. CASE waiting[t] # {fetch} /\ UNCHANGED <<pc, job, timer, locals>>
  <2>1. LocalsTyped'
    BY <1>4 DEF TasksInv, LocalsTyped, locals
  <2>2. ASSUME NEW u \in Tasks
        PROVE  TaskInv(u)'
    BY <1>1, <1>2, <1>4 DEF TasksInv, TaskInv, locals
  <2> QED
    BY <1>1, <1>4, <2>1, <2>2 DEF TasksInv, timer
<1> QED
  BY <1>3, <1>4 DEF Settles

\* Tasks keep what their await needs when one of them goes on to the branches
\* of a project.
LEMMA Chosen ==
  ASSUME TypeOK, TasksInv, NEW t \in Tasks, NEW project \in Projects,
         NEW run \in Runs \cup {None}, selectProject(t, project, run),
         pc[t] # "screen", UNCHANGED waiting,
         job' \in [Tasks -> {None, "refresh", "reload", "select", "filter", "run"}]
  PROVE  TasksInv' /\ pc' \in [Tasks -> Awaits] /\ selectedProjectId' \in Projects
<1>1. /\ target' = [target EXCEPT ![t] = project] /\ preferred' = [preferred EXCEPT ![t] = run]
      /\ pc' = [pc EXCEPT ![t] = "branches"] /\ UNCHANGED <<asked, retained, detail>>
      /\ selectedProjectId' = project
  BY DEF selectProject, Goto
<1>2. LocalsTyped'
  BY <1>1 DEF LocalsTyped, TasksInv
<1>3. ASSUME NEW u \in Tasks
      PROVE  TaskInv(u)'
  BY <1>1 DEF TypeOK, LocalsTyped, TasksInv, TaskInv
<1> QED
  BY <1>1, <1>2, <1>3 DEF TypeOK, TasksInv, Awaits

\* And when it loads the screen of one.
LEMMA Loads ==
  ASSUME TypeOK, TasksInv, NEW t \in Tasks, NEW question \in Questions,
         question.project # None, NEW run \in Runs \cup {None},
         loadIntegrationScreen(t, question, run), UNCHANGED detail,
         job' \in [Tasks -> {None, "refresh", "reload", "select", "filter", "run"}],
         target' \in [Tasks -> Projects \cup {None}],
         preferred' \in [Tasks -> Runs \cup {None}],
         \A u \in Tasks \ {t} : target'[u] = target[u]
  PROVE  /\ TasksInv' /\ pc' \in [Tasks -> Awaits] /\ runsBody' = {}
         /\ waiting' \in [Tasks -> SUBSET {"comparison", "runs", "details"}]
<1>1. /\ asked' = [asked EXCEPT ![t] = question]
      /\ retained' = [retained EXCEPT ![t] = IF run # None THEN run ELSE selectedRunId]
      /\ pc' = [pc EXCEPT ![t] = "screen"] /\ runsBody' = {}
      /\ waiting' = [waiting EXCEPT ![t] = {"comparison", "runs"}]
  BY DEF loadIntegrationScreen, loadIntegrationRuns, Goto
<1>2. LocalsTyped'
  BY <1>1 DEF TypeOK, LocalsTyped, TasksInv
<1>3. ASSUME NEW u \in Tasks
      PROVE  TaskInv(u)'
  <2>1. CASE u = t
    BY <1>1, <2>1 DEF TypeOK, LocalsTyped, TasksInv, TaskInv
  <2>2. CASE u # t
    BY <1>1, <2>2 DEF TypeOK, LocalsTyped, TasksInv, TaskInv
  <2> QED
    BY <2>1, <2>2
<1> QED
  BY <1>1, <1>2, <1>3 DEF TypeOK, TasksInv, Awaits

\* And a run that is selected.
LEMMA Selected ==
  ASSUME TypeOK, TasksInv, NEW t \in Tasks, NEW project \in Projects \cup {None},
         NEW run \in Runs, SelectRun(t, project, run)
  PROVE  TypeOK' /\ TasksInv'
<1>1. /\ selectedRunId' = run /\ failedSpecsBody' = {}
      /\ detail' = [detail EXCEPT ![t] = [project |-> project, run |-> run]]
      /\ pc[t] = "idle" /\ pc' = [pc EXCEPT ![t] = "screen"]
      /\ job' = [job EXCEPT ![t] = "run"]
      /\ waiting' = [waiting EXCEPT ![t] = {"details"}]
      /\ UNCHANGED <<target, preferred, asked, retained>>
  BY DEF SelectRun, Starts, loadIntegrationRunDetails, Goto
<1>2. TypeOK'
  BY <1>1 DEF SelectRun, Starts, screen, timer, TypeOK
<1>3. LocalsTyped'
  BY <1>1 DEF LocalsTyped, TasksInv, Details
<1>4. ASSUME NEW u \in Tasks
      PROVE  TaskInv(u)'
  <2>1. CASE u = t
    BY <1>1, <2>1 DEF TypeOK, LocalsTyped, TasksInv, TaskInv, Details
  <2>2. CASE u # t
    BY <1>1, <2>2 DEF TypeOK, LocalsTyped, TasksInv, TaskInv
  <2> QED
    BY <2>1, <2>2
<1> QED
  BY <1>2, <1>3, <1>4 DEF TasksInv

\* Every step keeps the types and what tasks await.
LEMMA TypeStep ==
  ASSUME TypeOK, TasksInv, TimerInv, [Next]_vars
  PROVE  TypeOK' /\ TasksInv'
<1>t. TypeOK /\ TasksInv
  OBVIOUS
<1>n. timeouts' \in Nat
  <2>1. TimerInv'
    BY TimerStep DEF TypeOK
  <2> QED
    BY <2>1 DEF TimerInv
<1>p. /\ pc \in [Tasks -> Awaits] /\ refreshInFlight \in BOOLEAN
      /\ waiting \in [Tasks -> SUBSET {"comparison", "runs", "details"}]
  BY DEF TypeOK, Awaits
<1> USE TestPageConstants
<1>1. ASSUME NEW t \in Tasks, Refresh(t)
      PROVE  TypeOK' /\ TasksInv'
  <2>1. TypeOK'
    BY <1>1, <1>t, <1>n DEF Refresh, performIntegrationRefresh, MayRefresh, page, screen, panels, timer,
        locals, Goto, TypeOK, LocalsTyped, TaskInv, TasksInv, Questions, Details
  <2>2. LocalsTyped'
    BY <1>1, <1>t DEF Refresh, performIntegrationRefresh, MayRefresh, page, screen, panels, timer,
        locals, Goto, TypeOK, LocalsTyped, TaskInv, TasksInv, Questions, Details
  <2>3. ASSUME NEW u \in Tasks
        PROVE  TaskInv(u)'
    BY <1>1, <1>t DEF Refresh, performIntegrationRefresh, MayRefresh, page, screen, panels, timer,
        locals, Goto, TypeOK, LocalsTyped, TaskInv, TasksInv, Questions, Details
  <2> QED
    BY <2>1, <2>2, <2>3 DEF TasksInv
<1>2. ASSUME NEW t \in Tasks, Reload(t)
      PROVE  TypeOK' /\ TasksInv'
  <2>1. CASE selectedProjectId = None
    <3>1. UNCHANGED <<pc, job, waiting, locals>>
      BY <1>2, <2>1 DEF Reload, locals
    <3>2. TasksInv'
      BY <1>t, <3>1 DEF TasksInv, LocalsTyped, TaskInv, locals
    <3>3. refreshInFlight' = FALSE /\ UNCHANGED <<stored, page, screen, duration, selectedRunId>>
          /\ runsBody' = {} /\ failedSpecsBody' = {}
      BY <1>2, <2>1 DEF Reload, EndRefresh, EmptyScreen, page
    <3>4. TypeOK'
      BY <1>t, <1>n, <3>1, <3>3 DEF TypeOK, page, screen
    <3> QED
      BY <3>2, <3>4
  <2>2. CASE selectedProjectId # None
    <3>1. /\ loadIntegrationScreen(t, Selection, selectedRunId)
          /\ job' = [job EXCEPT ![t] = "reload"] /\ refreshInFlight' = TRUE
          /\ UNCHANGED <<stored, page, screen, duration, selectedRunId, failedSpecsBody>>
          /\ UNCHANGED <<target, preferred, detail>>
      BY <1>2, <2>2 DEF Reload, Starts, page
    <3>2. Selection \in Questions /\ Selection.project # None
      BY <1>t, <2>2 DEF Selection, Asking, Questions, TypeOK
    <3>3. /\ TasksInv' /\ pc' \in [Tasks -> Awaits] /\ runsBody' = {}
          /\ waiting' \in [Tasks -> SUBSET {"comparison", "runs", "details"}]
      BY <1>t, <3>1, <3>2, Loads DEF TypeOK, TasksInv, LocalsTyped
    <3>4. TypeOK'
      BY <1>t, <1>n, <3>1, <3>3 DEF TypeOK, page, screen, Awaits
    <3> QED
      BY <3>3, <3>4
  <2> QED
    BY <2>1, <2>2
<1>3. ASSUME NEW t \in Tasks, ReloadHeatmap(t)
      PROVE  TypeOK' /\ TasksInv'
  <2>1. TypeOK'
    BY <1>3, <1>t, <1>n DEF ReloadHeatmap, MayRefresh, page, screen, panels, timer, locals, Goto, TypeOK,
        LocalsTyped, TaskInv, TasksInv, Questions, Details
  <2>2. LocalsTyped'
    BY <1>3, <1>t DEF ReloadHeatmap, MayRefresh, page, screen, panels, timer, locals, Goto, TypeOK,
        LocalsTyped, TaskInv, TasksInv, Questions, Details
  <2>3. ASSUME NEW u \in Tasks
        PROVE  TaskInv(u)'
    BY <1>3, <1>t DEF ReloadHeatmap, MayRefresh, page, screen, panels, timer, locals, Goto, TypeOK,
        LocalsTyped, TaskInv, TasksInv, Questions, Details
  <2> QED
    BY <2>1, <2>2, <2>3 DEF TasksInv
<1>4. ASSUME NEW t \in Tasks, NEW project \in Projects, ChooseProject(t, project)
      PROVE  TypeOK' /\ TasksInv'
  <2>1. TypeOK'
    BY <1>4, <1>t, <1>n DEF ChooseProject, Starts, selectProject, page, screen, panels, timer, locals, Goto,
        TypeOK, LocalsTyped, TaskInv, TasksInv, Questions, Details
  <2>2. LocalsTyped'
    BY <1>4, <1>t DEF ChooseProject, Starts, selectProject, page, screen, panels, timer, locals, Goto,
        TypeOK, LocalsTyped, TaskInv, TasksInv, Questions, Details
  <2>3. ASSUME NEW u \in Tasks
        PROVE  TaskInv(u)'
    BY <1>4, <1>t DEF ChooseProject, Starts, selectProject, page, screen, panels, timer, locals, Goto,
        TypeOK, LocalsTyped, TaskInv, TasksInv, Questions, Details
  <2> QED
    BY <2>1, <2>2, <2>3 DEF TasksInv
<1>5. ASSUME NEW t \in Tasks, NEW branch \in Branches, ChooseBranch(t, branch)
      PROVE  TypeOK' /\ TasksInv'
  <2>0. branch \in branchOptions /\ branchFilter' = branch
    BY <1>5 DEF ChooseBranch
  <2>1. CASE selectedProjectId = None
    <3>1. UNCHANGED <<pc, job, waiting, locals>>
      BY <1>5, <2>1 DEF ChooseBranch, locals
    <3>2. TasksInv'
      BY <1>t, <3>1 DEF TasksInv, LocalsTyped, TaskInv, locals
    <3>3. TypeOK'
      BY <1>5, <1>t, <2>0, <2>1 DEF ChooseBranch, EmptyScreen, TypeOK, timer
    <3> QED
      BY <3>2, <3>3
  <2>2. CASE selectedProjectId # None
    <3> DEFINE question == Asking(selectedProjectId, branch)
    <3>1. /\ loadIntegrationScreen(t, question, None)
          /\ job' = [job EXCEPT ![t] = "filter"]
          /\ UNCHANGED <<stored, projects, match, selectedProjectId, selectedRunId>>
          /\ UNCHANGED <<branchOptions, statusFilter, failedSpecsBody, duration, timer>>
          /\ UNCHANGED <<target, preferred, detail>>
      BY <1>5, <2>2 DEF ChooseBranch, Starts
    <3>2. question \in Questions /\ question.project # None
      BY <1>t, <2>2 DEF Asking, Questions, TypeOK
    <3> HIDE DEF question
    <3>3. /\ TasksInv' /\ pc' \in [Tasks -> Awaits] /\ runsBody' = {}
          /\ waiting' \in [Tasks -> SUBSET {"comparison", "runs", "details"}]
      BY <1>t, <3>1, <3>2, Loads DEF TypeOK, TasksInv, LocalsTyped
    <3>4. TypeOK'
      BY <1>t, <1>n, <2>0, <3>1, <3>3 DEF TypeOK, timer, Awaits
    <3> QED
      BY <3>3, <3>4
  <2> QED
    BY <2>1, <2>2
<1>6. ASSUME NEW t \in Tasks, NEW status \in Statuses, ChooseStatus(t, status)
      PROVE  TypeOK' /\ TasksInv'
  <2>1. TypeOK'
    BY <1>6, <1>t, <1>n DEF ChooseStatus, Starts, loadIntegrationRuns, Selection, Asking,
        page, screen, panels, timer, locals, Goto, TypeOK, LocalsTyped, TaskInv,
        TasksInv, Questions, Details
  <2>2. LocalsTyped'
    BY <1>6, <1>t DEF ChooseStatus, Starts, loadIntegrationRuns, Selection, Asking,
        page, screen, panels, timer, locals, Goto, TypeOK, LocalsTyped, TaskInv,
        TasksInv, Questions, Details
  <2>3. ASSUME NEW u \in Tasks
        PROVE  TaskInv(u)'
    BY <1>6, <1>t DEF ChooseStatus, Starts, loadIntegrationRuns, Selection, Asking,
        page, screen, panels, timer, locals, Goto, TypeOK, LocalsTyped, TaskInv,
        TasksInv, Questions, Details
  <2> QED
    BY <2>1, <2>2, <2>3 DEF TasksInv
<1>7. ASSUME NEW t \in Tasks, NEW run \in Runs, ClickRun(t, run)
      PROVE  TypeOK' /\ TasksInv'
  <2>1. RunInfo[run].project \in Projects \cup {None} /\ selectedProjectId \in Projects \cup {None}
    BY <1>t DEF TypeOK
  <2>2. PICK project \in Projects \cup {None} : SelectRun(t, project, run)
    BY <1>7, <2>1, Zenon DEF ClickRun
  <2> QED
    BY <1>t, <2>2, Selected
<1>8. ASSUME NEW t \in Tasks, NEW run \in Runs, ClickTile(t, run)
      PROVE  TypeOK' /\ TasksInv'
  <2> DEFINE project == RunInfo[run].project
  <2>1. project \in Projects
    OBVIOUS
  <2>2. CASE SelectRun(t, project, run)
    BY <1>t, <2>1, <2>2, Selected
  <2>3. CASE Starts(t, "select") /\ selectProject(t, project, run) /\ UNCHANGED <<timer, waiting>>
    <3>1. pc[t] = "idle" /\ job' = [job EXCEPT ![t] = "select"]
      BY <2>3 DEF Starts
    <3>2. TasksInv' /\ pc' \in [Tasks -> Awaits] /\ selectedProjectId' \in Projects
      BY <1>t, <2>1, <2>3, <3>1, Chosen DEF TasksInv, LocalsTyped
    <3>3. UNCHANGED <<stored, projects, match, screen, panels, timer, waiting>>
      BY <2>3 DEF Starts, selectProject
    <3>4. TypeOK'
      BY <1>t, <3>2, <3>3 DEF TypeOK, screen, panels, timer, Awaits
    <3> QED
      BY <3>2, <3>4
  <2> QED
    BY <1>8, <2>2, <2>3 DEF ClickTile
<1>9. ASSUME NEW t \in Tasks, NEW catalog \in Catalogs, ProjectsArrive(t, catalog)
      PROVE  TypeOK' /\ TasksInv'
  <2>1. /\ pc[t] = "projects" /\ projects' = catalog /\ catalog \subseteq Projects
        /\ UNCHANGED <<stored, match, waiting>>
    BY <1>9 DEF ProjectsArrive
  <2>2. CASE clearSelection /\ EndScreen(t)
    <3>1. /\ LocalsTyped' /\ refreshInFlight' \in BOOLEAN /\ pc' \in [Tasks -> Awaits]
      BY <1>t, <1>p, <2>2, Ended DEF TasksInv
    <3>2. ASSUME NEW u \in Tasks
          PROVE  TaskInv(u)'
      <4>1. CASE u = t
        BY <1>t, <1>p, <2>1, <2>2, <4>1, Ended DEF TasksInv, TaskInv
      <4>2. CASE u # t
        BY <1>t, <1>p, <2>1, <2>2, <4>2, Ended DEF TasksInv, TaskInv
      <4> QED
        BY <4>1, <4>2
    <3>3. TypeOK'
      BY <1>t, <1>n, <2>1, <2>2, <3>1 DEF clearSelection, TypeOK, screen, Awaits
    <3> QED
      BY <3>1, <3>2, <3>3 DEF TasksInv
  <2>3. ASSUME NEW project \in Projects, NEW run \in Runs \cup {None},
               selectProject(t, project, run), UNCHANGED <<job, timer>>
        PROVE  TypeOK' /\ TasksInv'
    <3>1. TasksInv' /\ pc' \in [Tasks -> Awaits] /\ selectedProjectId' \in Projects
      BY <1>t, <2>1, <2>3, Chosen DEF TasksInv, LocalsTyped
    <3>2. UNCHANGED <<screen, panels, timer>>
      BY <2>3 DEF selectProject
    <3>3. TypeOK'
      BY <1>t, <2>1, <3>1, <3>2 DEF TypeOK, screen, panels, timer, Awaits
    <3> QED
      BY <3>1, <3>3
  <2>4. selectedRunId \in Runs \cup {None}
    BY <1>t DEF TypeOK
  <2> QED
    BY <1>9, <2>1, <2>2, <2>3, <2>4 DEF ProjectsArrive
<1>10. ASSUME NEW t \in Tasks, ProjectsFail(t)
       PROVE  TypeOK' /\ TasksInv'
  <2>1. /\ pc[t] = "projects" /\ EndScreen(t)
        /\ UNCHANGED <<stored, page, screen, panels, waiting>>
    BY <1>10 DEF ProjectsFail
  <2>2. /\ LocalsTyped' /\ refreshInFlight' \in BOOLEAN /\ pc' \in [Tasks -> Awaits]
    BY <1>t, <1>p, <2>1, Ended DEF TasksInv
  <2>3. ASSUME NEW u \in Tasks
        PROVE  TaskInv(u)'
    <3>1. CASE u = t
      BY <1>t, <1>p, <2>1, <3>1, Ended DEF TasksInv, TaskInv
    <3>2. CASE u # t
      BY <1>t, <1>p, <2>1, <3>2, Ended DEF TasksInv, TaskInv
    <3> QED
      BY <3>1, <3>2
  <2>4. TypeOK'
    BY <1>t, <1>n, <2>1, <2>2 DEF TypeOK, page, screen, panels, Awaits
  <2> QED
    BY <2>2, <2>3, <2>4 DEF TasksInv
<1>11. ASSUME NEW t \in Tasks, BranchesArrive(t)
      PROVE  TypeOK' /\ TasksInv'
  <2>1. TypeOK'
    BY <1>11, <1>t, <1>n DEF BranchesArrive, loadIntegrationScreen, loadIntegrationRuns,
        Asking, Ok, page, screen, panels, timer, locals, Goto, TypeOK, LocalsTyped,
        TaskInv, TasksInv, Questions, Details
  <2>2. LocalsTyped'
    BY <1>11, <1>t DEF BranchesArrive, loadIntegrationScreen, loadIntegrationRuns,
        Asking, Ok, page, screen, panels, timer, locals, Goto, TypeOK, LocalsTyped,
        TaskInv, TasksInv, Questions, Details
  <2>3. ASSUME NEW u \in Tasks
        PROVE  TaskInv(u)'
    BY <1>11, <1>t DEF BranchesArrive, loadIntegrationScreen, loadIntegrationRuns,
        Asking, Ok, page, screen, panels, timer, locals, Goto, TypeOK, LocalsTyped,
        TaskInv, TasksInv, Questions, Details
  <2> QED
    BY <2>1, <2>2, <2>3 DEF TasksInv
<1>12. ASSUME NEW t \in Tasks, ComparisonArrives(t)
      PROVE  TypeOK' /\ TasksInv'
  <2>1. Settles(t, "comparison")
    BY <1>12 DEF ComparisonArrives
  <2>2. /\ TasksInv' /\ pc' \in [Tasks -> Awaits] /\ refreshInFlight' \in BOOLEAN
        /\ waiting' \in [Tasks -> SUBSET {"comparison", "runs", "details"}]
    BY <1>p, <2>1, Settled
  <2>3. TypeOK'
    BY <1>12, <1>t, <1>n, <2>2 DEF ComparisonArrives, Card, Settles, Ok, page, screen, panels, timer, locals, Goto,
        TypeOK, TasksInv, TaskInv, Questions, Awaits
  <2> QED
    BY <2>2, <2>3
<1>13. ASSUME NEW t \in Tasks, RunsArrive(t)
      PROVE  TypeOK' /\ TasksInv'
  <2> DEFINE rows == FirstPage(asked[t])
  <2>1. PICK run \in RunToSelect(rows, retained[t]) :
           /\ selectedRunId' = run /\ runsBody' = runsBody \cup rows /\ failedSpecsBody' = {}
           /\ detail' = [detail EXCEPT ![t] = [project |-> asked[t].project, run |-> run]]
    BY <1>13 DEF RunsArrive, loadIntegrationRunDetails
  <2>2. /\ "runs" \in waiting[t]
        /\ waiting' = [waiting EXCEPT ![t] = (@ \ {"runs"}) \cup {"details"}]
        /\ retained' = [retained EXCEPT ![t] = None]
        /\ UNCHANGED <<stored, page, screen, duration, timer, pc, job, target, preferred, asked>>
    BY <1>13 DEF RunsArrive
  <2>3. rows \subseteq Runs
    BY <1>t DEF FirstPage, Listed, TypeOK
  <2>4. run \in Runs
    BY <2>3 DEF RunToSelect, Newest
  <2> HIDE DEF rows
  <2>5. asked[t].project \in Projects \cup {None}
    BY <1>t, <2>2 DEF TasksInv, TaskInv, Questions
  <2>6. [project |-> asked[t].project, run |-> run] \in Details
    BY <2>4, <2>5 DEF Details
  <2>7. TypeOK'
    BY <1>t, <2>1, <2>2, <2>3, <2>4 DEF TypeOK, page, screen, timer
  <2>8. LocalsTyped'
    BY <1>t, <2>1, <2>2, <2>6 DEF TasksInv, LocalsTyped
  <2>9. ASSUME NEW u \in Tasks
        PROVE  TaskInv(u)'
    <3>1. /\ waiting'[t] = (waiting[t] \ {"runs"}) \cup {"details"}
          /\ detail'[t] \in Details
      BY <1>t, <2>1, <2>2, <2>6 DEF TypeOK, TasksInv, LocalsTyped
    <3>2. CASE u = t
      BY <1>t, <2>2, <3>1, <3>2 DEF TasksInv, TaskInv
    <3>3. CASE u # t
      BY <1>t, <2>1, <2>2, <3>3 DEF TypeOK, TasksInv, TaskInv, LocalsTyped
    <3> QED
      BY <3>2, <3>3
  <2> QED
    BY <2>7, <2>8, <2>9 DEF TasksInv
<1>14. ASSUME NEW t \in Tasks, RunsIgnored(t)
      PROVE  TypeOK' /\ TasksInv'
  <2>1. Settles(t, "runs")
    BY <1>14 DEF RunsIgnored
  <2>2. /\ TasksInv' /\ pc' \in [Tasks -> Awaits] /\ refreshInFlight' \in BOOLEAN
        /\ waiting' \in [Tasks -> SUBSET {"comparison", "runs", "details"}]
    BY <1>p, <2>1, Settled
  <2>3. TypeOK'
    BY <1>14, <1>t, <1>n, <2>2 DEF RunsIgnored, Settles, page, screen, panels, timer, locals, Goto, TypeOK,
        TasksInv, TaskInv, Questions, Awaits
  <2> QED
    BY <2>2, <2>3
<1>15. ASSUME NEW t \in Tasks, RunsEmpty(t)
      PROVE  TypeOK' /\ TasksInv'
  <2>1. Settles(t, "runs")
    BY <1>15 DEF RunsEmpty
  <2>2. /\ TasksInv' /\ pc' \in [Tasks -> Awaits] /\ refreshInFlight' \in BOOLEAN
        /\ waiting' \in [Tasks -> SUBSET {"comparison", "runs", "details"}]
    BY <1>p, <2>1, Settled
  <2>3. TypeOK'
    BY <1>15, <1>t, <1>n, <2>2 DEF RunsEmpty, Settles, page, screen, panels, timer, locals, Goto, TypeOK, TasksInv,
        TaskInv, Questions, Awaits
  <2> QED
    BY <2>2, <2>3
<1>16. ASSUME NEW t \in Tasks, RunsFail(t)
      PROVE  TypeOK' /\ TasksInv'
  <2>1. Settles(t, "runs")
    BY <1>16 DEF RunsFail
  <2>2. /\ TasksInv' /\ pc' \in [Tasks -> Awaits] /\ refreshInFlight' \in BOOLEAN
        /\ waiting' \in [Tasks -> SUBSET {"comparison", "runs", "details"}]
    BY <1>p, <2>1, Settled
  <2>3. TypeOK'
    BY <1>16, <1>t, <1>n, <2>2 DEF RunsFail, Settles, page, screen, panels, timer, locals, Goto, TypeOK, TasksInv,
        TaskInv, Questions, Awaits
  <2> QED
    BY <2>2, <2>3
<1>17. ASSUME NEW t \in Tasks, DetailsArrive(t)
      PROVE  TypeOK' /\ TasksInv'
  <2>1. Settles(t, "details")
    BY <1>17 DEF DetailsArrive
  <2>2. /\ TasksInv' /\ pc' \in [Tasks -> Awaits] /\ refreshInFlight' \in BOOLEAN
        /\ waiting' \in [Tasks -> SUBSET {"comparison", "runs", "details"}]
    BY <1>p, <2>1, Settled
  <2>3. failedSpecsBody' \subseteq Runs
    <3>0. "details" \in waiting[t]
      BY <2>1 DEF Settles
    <3>1. detail[t] \in Details
      BY <1>t, <3>0 DEF TasksInv, TaskInv
    <3>2. detail[t].run \in Runs
      BY <3>1 DEF Details
    <3>3. failedSpecsBody' \in {failedSpecsBody \cup {detail[t].run}, {}}
      BY <1>17, Zenon DEF DetailsArrive
    <3> QED
      BY <1>t, <3>2, <3>3 DEF TypeOK
  <2>4. TypeOK'
    BY <1>17, <1>t, <1>n, <2>2, <2>3 DEF DetailsArrive, Settles, page, screen, TypeOK, Awaits
  <2> QED
    BY <2>2, <2>4
<1>18. ASSUME NEW t \in Tasks, HeatmapArrives(t)
      PROVE  TypeOK' /\ TasksInv'
  <2>1. TypeOK'
    BY <1>18, <1>t, <1>n DEF HeatmapArrives, Return, EndRefresh, page, screen, panels, timer, locals, Goto,
        TypeOK, LocalsTyped, TaskInv, TasksInv, Questions, Details
  <2>2. LocalsTyped'
    BY <1>18, <1>t DEF HeatmapArrives, Return, EndRefresh, page, screen, panels, timer, locals, Goto,
        TypeOK, LocalsTyped, TaskInv, TasksInv, Questions, Details
  <2>3. ASSUME NEW u \in Tasks
        PROVE  TaskInv(u)'
    BY <1>18, <1>t DEF HeatmapArrives, Return, EndRefresh, page, screen, panels, timer, locals, Goto,
        TypeOK, LocalsTyped, TaskInv, TasksInv, Questions, Details
  <2> QED
    BY <2>1, <2>2, <2>3 DEF TasksInv
<1>19. ASSUME NEW t \in Tasks, TimeoutFires(t)
      PROVE  TypeOK' /\ TasksInv'
  <2>1. TypeOK'
    BY <1>19, <1>t, <1>n DEF TimeoutFires, performIntegrationRefresh, MayRefresh, page, screen, panels,
        timer, locals, Goto, TypeOK, LocalsTyped, TaskInv, TasksInv, Questions, Details
  <2>2. LocalsTyped'
    BY <1>19, <1>t DEF TimeoutFires, performIntegrationRefresh, MayRefresh, page, screen, panels,
        timer, locals, Goto, TypeOK, LocalsTyped, TaskInv, TasksInv, Questions, Details
  <2>3. ASSUME NEW u \in Tasks
        PROVE  TaskInv(u)'
    BY <1>19, <1>t DEF TimeoutFires, performIntegrationRefresh, MayRefresh, page, screen, panels,
        timer, locals, Goto, TypeOK, LocalsTyped, TaskInv, TasksInv, Questions, Details
  <2> QED
    BY <2>1, <2>2, <2>3 DEF TasksInv
<1>20. CASE ChooseNone
  <2>1. TypeOK'
    BY <1>20, <1>t, <1>n DEF ChooseNone, EmptyScreen, page, screen, panels, timer, locals, Goto, TypeOK,
        LocalsTyped, TaskInv, TasksInv, Questions, Details
  <2>2. LocalsTyped'
    BY <1>20, <1>t DEF ChooseNone, EmptyScreen, page, screen, panels, timer, locals, Goto, TypeOK,
        LocalsTyped, TaskInv, TasksInv, Questions, Details
  <2>3. ASSUME NEW u \in Tasks
        PROVE  TaskInv(u)'
    BY <1>20, <1>t DEF ChooseNone, EmptyScreen, page, screen, panels, timer, locals, Goto, TypeOK,
        LocalsTyped, TaskInv, TasksInv, Questions, Details
  <2> QED
    BY <2>1, <2>2, <2>3 DEF TasksInv
<1>21. ASSUME NEW matching \in Matches, Search(matching)
      PROVE  TypeOK' /\ TasksInv'
  <2>1. TypeOK'
    BY <1>21, <1>t, <1>n DEF Search, page, screen, panels, timer, locals, Goto, TypeOK, LocalsTyped, TaskInv,
        TasksInv, Questions, Details
  <2>2. LocalsTyped'
    BY <1>21, <1>t DEF Search, page, screen, panels, timer, locals, Goto, TypeOK, LocalsTyped, TaskInv,
        TasksInv, Questions, Details
  <2>3. ASSUME NEW u \in Tasks
        PROVE  TaskInv(u)'
    BY <1>21, <1>t DEF Search, page, screen, panels, timer, locals, Goto, TypeOK, LocalsTyped, TaskInv,
        TasksInv, Questions, Details
  <2> QED
    BY <2>1, <2>2, <2>3 DEF TasksInv
<1>22. ASSUME NEW matching \in Matches, ChangeGroup(matching)
       PROVE  TypeOK' /\ TasksInv'
  <2>1. UNCHANGED <<stored, projects, timer, waiting>>
    BY <1>22 DEF ChangeGroup
  <2>2. CASE UNCHANGED <<pc, job, locals>>
             /\ (clearSelection \/ UNCHANGED <<selectedProjectId, screen, panels>>)
    <3>1. TasksInv'
      BY <1>t, <2>1, <2>2 DEF TasksInv, LocalsTyped, TaskInv, locals
    <3>2. TypeOK'
      <4>1. CASE clearSelection
        BY <1>t, <2>1, <2>2, <4>1 DEF TypeOK, clearSelection, screen, timer
      <4>2. CASE UNCHANGED <<selectedProjectId, screen, panels>>
        BY <1>t, <2>1, <2>2, <4>2 DEF TypeOK, screen, panels, timer
      <4> QED
        BY <2>2, <4>1, <4>2
    <3> QED
      BY <3>1, <3>2
  <2>3. ASSUME NEW t \in Tasks, NEW project \in projects \cap matching, pc[t] = "idle",
               job' = [job EXCEPT ![t] = "select"], selectProject(t, project, None)
        PROVE  TypeOK' /\ TasksInv'
    <3>1. project \in Projects
      BY <1>t DEF TypeOK
    <3>2. TasksInv' /\ pc' \in [Tasks -> Awaits] /\ selectedProjectId' \in Projects
      BY <1>t, <2>1, <2>3, <3>1, Chosen DEF TasksInv, LocalsTyped
    <3>3. TypeOK'
      BY <1>t, <2>1, <2>3, <3>2 DEF TypeOK, selectProject, screen, panels, timer, Awaits
    <3> QED
      BY <3>2, <3>3
  <2> QED
    BY <1>22, <2>2, <2>3 DEF ChangeGroup
<1>23. ASSUME NEW value \in Intervals, ChangeInterval(value)
      PROVE  TypeOK' /\ TasksInv'
  <2>1. TypeOK'
    BY <1>23, <1>t, <1>n DEF ChangeInterval, page, screen, panels, timer, locals, Goto, TypeOK, LocalsTyped,
        TaskInv, TasksInv, Questions, Details
  <2>2. LocalsTyped'
    BY <1>23, <1>t DEF ChangeInterval, page, screen, panels, timer, locals, Goto, TypeOK, LocalsTyped,
        TaskInv, TasksInv, Questions, Details
  <2>3. ASSUME NEW u \in Tasks
        PROVE  TaskInv(u)'
    BY <1>23, <1>t DEF ChangeInterval, page, screen, panels, timer, locals, Goto, TypeOK, LocalsTyped,
        TaskInv, TasksInv, Questions, Details
  <2> QED
    BY <2>1, <2>2, <2>3 DEF TasksInv
<1>24. CASE TimeoutFiresBusy
  <2>1. TypeOK'
    BY <1>24, <1>t, <1>n DEF TimeoutFiresBusy, page, screen, panels, timer, locals, Goto, TypeOK,
        LocalsTyped, TaskInv, TasksInv, Questions, Details
  <2>2. LocalsTyped'
    BY <1>24, <1>t DEF TimeoutFiresBusy, page, screen, panels, timer, locals, Goto, TypeOK,
        LocalsTyped, TaskInv, TasksInv, Questions, Details
  <2>3. ASSUME NEW u \in Tasks
        PROVE  TaskInv(u)'
    BY <1>24, <1>t DEF TimeoutFiresBusy, page, screen, panels, timer, locals, Goto, TypeOK,
        LocalsTyped, TaskInv, TasksInv, Questions, Details
  <2> QED
    BY <2>1, <2>2, <2>3 DEF TasksInv
<1>25. ASSUME NEW run \in Arriving, RunStored(run)
      PROVE  TypeOK' /\ TasksInv'
  <2>1. TypeOK'
    BY <1>25, <1>t, <1>n DEF RunStored, page, screen, panels, timer, locals, Goto, TypeOK, LocalsTyped,
        TaskInv, TasksInv, Questions, Details
  <2>2. LocalsTyped'
    BY <1>25, <1>t DEF RunStored, page, screen, panels, timer, locals, Goto, TypeOK, LocalsTyped,
        TaskInv, TasksInv, Questions, Details
  <2>3. ASSUME NEW u \in Tasks
        PROVE  TaskInv(u)'
    BY <1>25, <1>t DEF RunStored, page, screen, panels, timer, locals, Goto, TypeOK, LocalsTyped,
        TaskInv, TasksInv, Questions, Details
  <2> QED
    BY <2>1, <2>2, <2>3 DEF TasksInv
<1>26. CASE UNCHANGED vars
  <2>1. TypeOK'
    BY <1>26, <1>t, <1>n DEF vars, page, screen, panels, timer, locals, Goto, TypeOK, LocalsTyped, TaskInv,
        TasksInv, Questions, Details
  <2>2. LocalsTyped'
    BY <1>26, <1>t DEF vars, page, screen, panels, timer, locals, Goto, TypeOK, LocalsTyped, TaskInv,
        TasksInv, Questions, Details
  <2>3. ASSUME NEW u \in Tasks
        PROVE  TaskInv(u)'
    BY <1>26, <1>t DEF vars, page, screen, panels, timer, locals, Goto, TypeOK, LocalsTyped, TaskInv,
        TasksInv, Questions, Details
  <2> QED
    BY <2>1, <2>2, <2>3 DEF TasksInv
<1> QED
  BY <1>1, <1>2, <1>3, <1>4, <1>5, <1>6, <1>7, <1>8, <1>9, <1>10, <1>11, <1>12, <1>13,
     <1>14, <1>15, <1>16, <1>17, <1>18, <1>19, <1>20, <1>21, <1>22, <1>23, <1>24, <1>25,
     <1>26 DEF Next, UserEvent, Answer

-----------------------------------------------------------------------------
(* The flag. *)

\* Nothing that the flag stands for changes.
LEMMA FlagKept ==
  ASSUME RefreshInv, UNCHANGED refreshInFlight, Refreshing' = Refreshing,
         \A u \in Tasks : pc'[u] \in {"projects", "heatmap"} => u \in Refreshing
  PROVE  RefreshInv'
BY DEF RefreshInv

\* A task that is not a refresh begins.
LEMMA OtherBegins ==
  ASSUME RefreshInv, LocalsTyped, pc \in [Tasks -> Awaits], NEW t \in Tasks, pc[t] = "idle",
         NEW await \in {"branches", "screen"}, NEW handler \in {"select", "filter", "run"},
         pc' = [pc EXCEPT ![t] = await], job' = [job EXCEPT ![t] = handler],
         UNCHANGED refreshInFlight
  PROVE  RefreshInv'
<1>1. Refreshing' = Refreshing
  BY DEF Refreshing, Live, LocalsTyped
<1>2. \A u \in Tasks : pc'[u] \in {"projects", "heatmap"} => u \in Refreshing
  BY DEF RefreshInv
<1> QED
  BY <1>1, <1>2, FlagKept

\* A task goes on to another await.
LEMMA TaskMoves ==
  ASSUME RefreshInv, pc \in [Tasks -> Awaits], NEW t \in Tasks, pc[t] # "idle",
         NEW await \in Awaits \ {"idle"}, await \in {"projects", "heatmap"} => t \in Refreshing,
         pc' = [pc EXCEPT ![t] = await], UNCHANGED <<job, refreshInFlight>>
  PROVE  RefreshInv'
<1>1. Refreshing' = Refreshing
  BY DEF Refreshing, Live
<1>2. \A u \in Tasks : pc'[u] \in {"projects", "heatmap"} => u \in Refreshing
  BY DEF RefreshInv
<1> QED
  BY <1>1, <1>2, FlagKept

\* A refresh or a reload begins: none is under way.
LEMMA RefreshBegins ==
  ASSUME RefreshInv, LocalsTyped, pc \in [Tasks -> Awaits], MayRefresh,
         NEW t \in Tasks, NEW await \in Awaits \ {"idle"}, NEW handler \in {"refresh", "reload"},
         pc' = [pc EXCEPT ![t] = await], job' = [job EXCEPT ![t] = handler],
         refreshInFlight' = TRUE
  PROVE  RefreshInv'
<1>1. Refreshing = {}
  BY DEF RefreshInv, MayRefresh
<1>2. Refreshing' = {t}
  BY <1>1 DEF Refreshing, Live, LocalsTyped
<1>3. \A u \in Tasks : pc'[u] \in {"projects", "heatmap"} => u \in Refreshing'
  BY <1>1, <1>2 DEF RefreshInv
<1> QED
  BY <1>2, <1>3 DEF RefreshInv

\* It ends: it was the only one.
LEMMA RefreshReturns ==
  ASSUME RefreshInv, LocalsTyped, pc \in [Tasks -> Awaits], NEW t \in Refreshing,
         Return(t), EndRefresh
  PROVE  RefreshInv'
<1>1. /\ refreshInFlight' = FALSE /\ t \in Tasks
      /\ pc' = [pc EXCEPT ![t] = "idle"] /\ job' = [job EXCEPT ![t] = None]
  BY DEF Return, Goto, EndRefresh, Refreshing, Live
<1>2. Refreshing = {t}
  BY DEF RefreshInv
<1>3. Refreshing' = {}
  BY <1>1, <1>2 DEF Refreshing, Live, LocalsTyped
<1>4. \A u \in Tasks : pc'[u] \notin {"projects", "heatmap"}
  BY <1>1, <1>2 DEF RefreshInv
<1> QED
  BY <1>1, <1>3, <1>4 DEF RefreshInv

\* A handler that is done with its screen leaves the flag right.
LEMMA ScreenEnds ==
  ASSUME RefreshInv, LocalsTyped, pc \in [Tasks -> Awaits], NEW t \in Tasks, pc[t] # "idle",
         EndScreen(t)
  PROVE  RefreshInv'
<1>1. CASE job[t] = "refresh" /\ Goto(t, "heatmap") /\ UNCHANGED <<job, timer, locals>>
  <2>1. t \in Refreshing
    BY <1>1 DEF Refreshing, Live
  <2>2. /\ pc' = [pc EXCEPT ![t] = "heatmap"] /\ UNCHANGED <<job, refreshInFlight>>
        /\ "heatmap" \in Awaits \ {"idle"}
    BY <1>1 DEF Goto, timer, Awaits
  <2> QED
    BY <2>1, <2>2, TaskMoves
<1>2. CASE job[t] \in {"refresh", "reload"} /\ Return(t) /\ EndRefresh
  <2>1. t \in Refreshing
    BY <1>2 DEF Refreshing, Live
  <2> QED
    BY <1>2, <2>1, RefreshReturns
<1>3. CASE job[t] \notin {"refresh", "reload"} /\ Return(t) /\ UNCHANGED timer
  <2>1. /\ pc' = [pc EXCEPT ![t] = "idle"] /\ job' = [job EXCEPT ![t] = None]
        /\ UNCHANGED refreshInFlight
    BY <1>3 DEF Return, Goto, timer
  <2>2. Refreshing' = Refreshing
    BY <1>3, <2>1 DEF Refreshing, Live, LocalsTyped
  <2>3. \A u \in Tasks : pc'[u] \in {"projects", "heatmap"} => u \in Refreshing
    BY <2>1 DEF RefreshInv
  <2> QED
    BY <2>1, <2>2, <2>3, FlagKept
<1> QED
  BY <1>1, <1>2, <1>3 DEF EndScreen

\* So does a fetch that settles.
LEMMA FetchSettles ==
  ASSUME RefreshInv, TasksInv, pc \in [Tasks -> Awaits], NEW t \in Tasks, NEW fetch,
         Settles(t, fetch)
  PROVE  RefreshInv'
<1>1. pc[t] # "idle"
  BY DEF Settles, TasksInv, TaskInv
<1>2. CASE waiting[t] = {fetch}
  BY <1>1, <1>2, ScreenEnds DEF Settles, TasksInv
<1>3. CASE waiting[t] # {fetch}
  <2>1. UNCHANGED <<pc, job, refreshInFlight>>
    BY <1>3 DEF Settles, timer
  <2>2. Refreshing' = Refreshing
    BY <2>1 DEF Refreshing, Live
  <2> QED
    BY <2>1, <2>2, FlagKept DEF RefreshInv
<1> QED
  BY <1>2, <1>3

\* And a run that is selected.
LEMMA RunSelected ==
  ASSUME RefreshInv, LocalsTyped, pc \in [Tasks -> Awaits], NEW t \in Tasks, NEW project,
         NEW run, SelectRun(t, project, run)
  PROVE  RefreshInv'
<1>1. /\ pc[t] = "idle" /\ pc' = [pc EXCEPT ![t] = "screen"]
      /\ job' = [job EXCEPT ![t] = "run"] /\ UNCHANGED refreshInFlight
  BY DEF SelectRun, Starts, Goto, timer
<1> QED
  BY <1>1, OtherBegins

\* Every step keeps the flag.
LEMMA FlagStep ==
  ASSUME RefreshInv, TypeOK, TasksInv, [Next]_vars
  PROVE  RefreshInv'
<1>t. /\ RefreshInv /\ TasksInv /\ LocalsTyped /\ pc \in [Tasks -> Awaits]
  BY DEF TypeOK, TasksInv, Awaits
<1>u. ASSUME UNCHANGED <<pc, job, refreshInFlight>>
      PROVE  RefreshInv'
  BY <1>t, <1>u, FlagKept DEF RefreshInv, Refreshing, Live
<1>a. {"projects", "branches", "screen", "heatmap"} \subseteq Awaits \ {"idle"}
  BY DEF Awaits
<1>1. ASSUME NEW t \in Tasks, performIntegrationRefresh(t)
      PROVE  RefreshInv'
  <2>1. /\ MayRefresh /\ refreshInFlight' = TRUE /\ pc' = [pc EXCEPT ![t] = "projects"]
        /\ job' = [job EXCEPT ![t] = "refresh"]
    BY <1>1 DEF performIntegrationRefresh, Goto
  <2> QED
    BY <1>t, <1>a, <2>1, RefreshBegins
<1>2. ASSUME NEW t \in Tasks, Reload(t)
      PROVE  RefreshInv'
  <2>1. CASE selectedProjectId = None
    <3>1. MayRefresh /\ refreshInFlight' = FALSE /\ UNCHANGED <<pc, job>>
      BY <1>2, <2>1 DEF Reload, EndRefresh
    <3> QED
      BY <1>t, <3>1 DEF MayRefresh, RefreshInv, Refreshing, Live
  <2>2. CASE selectedProjectId # None
    <3>1. /\ MayRefresh /\ refreshInFlight' = TRUE /\ pc' = [pc EXCEPT ![t] = "screen"]
          /\ job' = [job EXCEPT ![t] = "reload"]
      BY <1>2, <2>2 DEF Reload, Starts, loadIntegrationScreen, loadIntegrationRuns, Goto
    <3> QED
      BY <1>t, <1>a, <3>1, RefreshBegins
  <2> QED
    BY <2>1, <2>2
<1>3. ASSUME NEW t \in Tasks, ReloadHeatmap(t)
      PROVE  RefreshInv'
  <2>1. /\ MayRefresh /\ refreshInFlight' = TRUE /\ pc' = [pc EXCEPT ![t] = "heatmap"]
        /\ job' = [job EXCEPT ![t] = "reload"]
    BY <1>3 DEF ReloadHeatmap, Goto
  <2> QED
    BY <1>t, <1>a, <2>1, RefreshBegins
<1>4. ASSUME NEW t \in Tasks, NEW project \in Projects, ChooseProject(t, project)
      PROVE  RefreshInv'
  <2>1. /\ pc[t] = "idle" /\ pc' = [pc EXCEPT ![t] = "branches"]
        /\ job' = [job EXCEPT ![t] = "select"] /\ UNCHANGED refreshInFlight
    BY <1>4 DEF ChooseProject, Starts, selectProject, Goto, timer
  <2> QED
    BY <1>t, <2>1, OtherBegins
<1>5. ASSUME NEW t \in Tasks, NEW branch \in Branches, ChooseBranch(t, branch)
      PROVE  RefreshInv'
  <2>1. CASE selectedProjectId = None
    BY <1>5, <2>1, <1>u DEF ChooseBranch, timer
  <2>2. CASE selectedProjectId # None
    <3>1. /\ pc[t] = "idle" /\ pc' = [pc EXCEPT ![t] = "screen"]
          /\ job' = [job EXCEPT ![t] = "filter"] /\ UNCHANGED refreshInFlight
      BY <1>5, <2>2 DEF ChooseBranch, Starts, loadIntegrationScreen, loadIntegrationRuns, Goto,
          timer
    <3> QED
      BY <1>t, <3>1, OtherBegins
  <2> QED
    BY <2>1, <2>2
<1>6. ASSUME NEW t \in Tasks, NEW status \in Statuses, ChooseStatus(t, status)
      PROVE  RefreshInv'
  <2>1. /\ pc[t] = "idle" /\ pc' = [pc EXCEPT ![t] = "screen"]
        /\ job' = [job EXCEPT ![t] = "filter"] /\ UNCHANGED refreshInFlight
    BY <1>6 DEF ChooseStatus, Starts, loadIntegrationRuns, Goto, timer
  <2> QED
    BY <1>t, <2>1, OtherBegins
<1>7. ASSUME NEW t \in Tasks, NEW run \in Runs, ClickRun(t, run)
      PROVE  RefreshInv'
  BY <1>7, <1>t, RunSelected, Zenon DEF ClickRun
<1>8. ASSUME NEW t \in Tasks, NEW run \in Runs, ClickTile(t, run)
      PROVE  RefreshInv'
  <2> DEFINE project == RunInfo[run].project
  <2>1. CASE SelectRun(t, project, run)
    BY <1>t, <2>1, RunSelected, Zenon
  <2>2. CASE Starts(t, "select") /\ selectProject(t, project, run) /\ UNCHANGED <<timer, waiting>>
    <3>1. /\ pc[t] = "idle" /\ pc' = [pc EXCEPT ![t] = "branches"]
          /\ job' = [job EXCEPT ![t] = "select"] /\ UNCHANGED refreshInFlight
      BY <2>2 DEF Starts, selectProject, Goto, timer
    <3> QED
      BY <1>t, <3>1, OtherBegins
  <2> QED
    BY <1>8, <2>1, <2>2 DEF ClickTile
<1>9. ASSUME NEW t \in Tasks, NEW catalog \in Catalogs, ProjectsArrive(t, catalog)
      PROVE  RefreshInv'
  <2>1. pc[t] = "projects"
    BY <1>9 DEF ProjectsArrive
  <2>2. CASE EndScreen(t)
    BY <1>t, <2>1, <2>2, ScreenEnds
  <2>3. ASSUME NEW project, NEW run, selectProject(t, project, run), UNCHANGED <<job, timer>>
        PROVE  RefreshInv'
    <3>1. pc' = [pc EXCEPT ![t] = "branches"] /\ UNCHANGED <<job, refreshInFlight>>
      BY <2>3 DEF selectProject, Goto, timer
    <3> QED
      BY <1>t, <1>a, <2>1, <3>1, TaskMoves
  <2> QED
    BY <1>9, <2>2, <2>3, Zenon DEF ProjectsArrive
<1>10. ASSUME NEW t \in Tasks, ProjectsFail(t)
       PROVE  RefreshInv'
  BY <1>10, <1>t, ScreenEnds DEF ProjectsFail
<1>11. ASSUME NEW t \in Tasks, BranchesArrive(t)
       PROVE  RefreshInv'
  <2>1. /\ pc[t] = "branches" /\ pc' = [pc EXCEPT ![t] = "screen"]
        /\ UNCHANGED <<job, refreshInFlight>>
    BY <1>11 DEF BranchesArrive, loadIntegrationScreen, loadIntegrationRuns, Goto, timer
  <2> QED
    BY <1>t, <1>a, <2>1, TaskMoves
<1>12. ASSUME NEW t \in Tasks, RunsArrive(t)
       PROVE  RefreshInv'
  BY <1>12, <1>u DEF RunsArrive, timer
<1>13. ASSUME NEW t \in Tasks, NEW fetch, Settles(t, fetch)
       PROVE  RefreshInv'
  BY <1>13, <1>t, FetchSettles
<1>14. ASSUME NEW t \in Tasks, HeatmapArrives(t)
       PROVE  RefreshInv'
  <2>1. Return(t) /\ EndRefresh /\ t \in Refreshing
    BY <1>14, <1>t DEF HeatmapArrives, RefreshInv
  <2> QED
    BY <1>t, <2>1, RefreshReturns
<1>15. ASSUME NEW matching \in Matches, ChangeGroup(matching)
       PROVE  RefreshInv'
  <2>1. CASE UNCHANGED <<pc, job>>
    BY <1>15, <1>u, <2>1 DEF ChangeGroup, timer
  <2>2. ASSUME NEW t \in Tasks, NEW project, pc[t] = "idle",
               job' = [job EXCEPT ![t] = "select"], selectProject(t, project, None)
        PROVE  RefreshInv'
    <3>1. pc' = [pc EXCEPT ![t] = "branches"] /\ UNCHANGED refreshInFlight
      BY <1>15, <2>2 DEF ChangeGroup, selectProject, Goto, timer
    <3> QED
      BY <1>t, <2>2, <3>1, OtherBegins
  <2> QED
    BY <1>15, <2>1, <2>2, Zenon DEF ChangeGroup
<1>16. CASE ChooseNone
  BY <1>16, <1>u DEF ChooseNone, timer
<1>17. ASSUME NEW matching \in Matches, Search(matching)
       PROVE  RefreshInv'
  BY <1>17, <1>u DEF Search, timer
<1>18. ASSUME NEW value \in Intervals, ChangeInterval(value)
       PROVE  RefreshInv'
  BY <1>18, <1>u DEF ChangeInterval
<1>19. CASE TimeoutFiresBusy
  BY <1>19, <1>u DEF TimeoutFiresBusy
<1>20. ASSUME NEW run \in Arriving, RunStored(run)
       PROVE  RefreshInv'
  BY <1>20, <1>u DEF RunStored, timer
<1>21. CASE UNCHANGED vars
  BY <1>21, <1>u DEF vars, timer
<1>22. ASSUME NEW t \in Tasks, UserEvent(t)
       PROVE  RefreshInv'
  BY <1>22, <1>1, <1>2, <1>3, <1>4, <1>5, <1>6, <1>7, <1>8 DEF UserEvent, Refresh
<1>23. ASSUME NEW t \in Tasks, Answer(t)
       PROVE  RefreshInv'
  BY <1>23, <1>9, <1>10, <1>11, <1>12, <1>13, <1>14, Zenon
     DEF Answer, ComparisonArrives, RunsIgnored, RunsEmpty, RunsFail, DetailsArrive
<1> QED
  BY <1>1, <1>15, <1>16, <1>17, <1>18, <1>19, <1>20, <1>21, <1>22, <1>23
     DEF Next, TimeoutFires

-----------------------------------------------------------------------------
(* The rows of the table. *)

\* Rows stay those of the selection while neither changes and no project is
\* waited for any more.
LEMMA RowsKept ==
  ASSUME RowsFollowSelection, runsBody' \subseteq runsBody, stored \subseteq stored',
         UNCHANGED <<selectedProjectId, branchFilter, statusFilter>>,
         \A u \in Tasks : pc[u] = "branches" => pc'[u] = "branches" /\ target'[u] = target[u]
  PROVE  RowsFollowSelection'
<1>1. Listed(Selection) \subseteq Listed(Selection)'
  BY DEF Listed, Selection, Asking, BranchOf
<1> QED
  BY <1>1 DEF RowsFollowSelection

\* An empty table holds nothing of another selection.
LEMMA NoRows ==
  ASSUME runsBody' = {}
  PROVE  RowsFollowSelection'
BY DEF RowsFollowSelection

\* A project just selected is waited for.
LEMMA RowsAwaited ==
  ASSUME NEW t \in Tasks, NEW project, NEW run, selectProject(t, project, run),
         pc \in [Tasks -> Awaits], LocalsTyped
  PROVE  RowsFollowSelection'
<1>1. pc'[t] = "branches" /\ target'[t] = selectedProjectId'
  BY DEF selectProject, Goto, LocalsTyped
<1> QED
  BY <1>1 DEF RowsFollowSelection

\* The end of a handler that waits for no branches.
LEMMA EndKeepsAwaits ==
  ASSUME pc \in [Tasks -> Awaits], LocalsTyped, NEW t \in Tasks, pc[t] # "branches",
         EndScreen(t) \/ Return(t)
  PROVE  \A u \in Tasks : pc[u] = "branches" => pc'[u] = "branches" /\ target'[u] = target[u]
<1>1. CASE Goto(t, "heatmap") /\ UNCHANGED locals
  BY <1>1 DEF Goto, locals
<1>2. CASE Return(t)
  BY <1>2 DEF Return, Goto, LocalsTyped
<1> QED
  BY <1>1, <1>2 DEF EndScreen

\* A fetch that settles leaves the tasks that wait for branches.
LEMMA SettlesKeepsAwaits ==
  ASSUME pc \in [Tasks -> Awaits], TasksInv, NEW t \in Tasks, NEW fetch, Settles(t, fetch)
  PROVE  /\ \A u \in Tasks : pc[u] = "branches" => pc'[u] = "branches" /\ target'[u] = target[u]
         /\ UNCHANGED <<stored, selectedProjectId, branchFilter, statusFilter>>
<1>1. pc[t] = "screen"
  BY DEF Settles, TasksInv, TaskInv
<1>2. UNCHANGED <<stored, selectedProjectId, branchFilter, statusFilter>>
  BY DEF Settles, page, screen
<1>3. CASE EndScreen(t)
  BY <1>1, <1>2, <1>3, EndKeepsAwaits DEF TasksInv
<1>4. CASE UNCHANGED <<pc, job, timer, locals>>
  BY <1>2, <1>4 DEF locals
<1> QED
  BY <1>3, <1>4 DEF Settles

\* The rows of a list that is not stale are those of the selection.
LEMMA RowsOfSelection ==
  ASSUME NEW question, ~IsStale(question)
  PROVE  FirstPage(question) \subseteq Listed(Selection)
<1>1. /\ question.project = Selection.project /\ question.status = Selection.status
      /\ BranchOf(question) = BranchOf(Selection)
  BY DEF IsStale, Selection, Asking
<1> QED
  BY <1>1 DEF FirstPage, Listed

\* A task begins and waits for no branches; the table keeps its rows.
LEMMA RowsAtStart ==
  ASSUME RowsFollowSelection, pc \in [Tasks -> Awaits], NEW t \in Tasks, pc[t] = "idle",
         NEW await, pc' = [pc EXCEPT ![t] = await], UNCHANGED runsBody,
         UNCHANGED <<stored, target, selectedProjectId, branchFilter, statusFilter>>
  PROVE  RowsFollowSelection'
BY RowsKept

\* Every step keeps the table.
LEMMA RowsStep ==
  ASSUME RowsFollowSelection, TypeOK, TasksInv, [Next]_vars
  PROVE  RowsFollowSelection'
<1>t. /\ RowsFollowSelection /\ TasksInv /\ LocalsTyped /\ pc \in [Tasks -> Awaits]
  BY DEF TypeOK, TasksInv, Awaits
<1>u. ASSUME stored \subseteq stored',
             UNCHANGED <<pc, target, runsBody, selectedProjectId, branchFilter, statusFilter>>
      PROVE  RowsFollowSelection'
  BY <1>t, <1>u, RowsKept
<1>1. ASSUME NEW t \in Tasks, performIntegrationRefresh(t)
      PROVE  RowsFollowSelection'
  <2>1. /\ pc[t] = "idle" /\ pc' = [pc EXCEPT ![t] = "projects"]
        /\ UNCHANGED <<stored, target, runsBody, selectedProjectId, branchFilter, statusFilter>>
    BY <1>1 DEF performIntegrationRefresh, Goto, page, screen, panels, locals
  <2> QED
    BY <1>t, <2>1, RowsAtStart
<1>2. ASSUME NEW t \in Tasks, Reload(t)
      PROVE  RowsFollowSelection'
  BY <1>2, NoRows DEF Reload, EmptyScreen, loadIntegrationScreen, loadIntegrationRuns
<1>3. ASSUME NEW t \in Tasks, ReloadHeatmap(t)
      PROVE  RowsFollowSelection'
  <2>1. /\ pc[t] = "idle" /\ pc' = [pc EXCEPT ![t] = "heatmap"]
        /\ UNCHANGED <<stored, target, runsBody, selectedProjectId, branchFilter, statusFilter>>
    BY <1>3 DEF ReloadHeatmap, Goto, page, screen, panels, locals
  <2> QED
    BY <1>t, <2>1, RowsAtStart
<1>4. ASSUME NEW t \in Tasks, NEW project \in Projects, ChooseProject(t, project)
      PROVE  RowsFollowSelection'
  BY <1>4, <1>t, RowsAwaited, Zenon DEF ChooseProject
<1>5. ASSUME NEW t \in Tasks, NEW branch \in Branches, ChooseBranch(t, branch)
      PROVE  RowsFollowSelection'
  BY <1>5, NoRows DEF ChooseBranch, EmptyScreen, loadIntegrationScreen, loadIntegrationRuns
<1>6. ASSUME NEW t \in Tasks, NEW status \in Statuses, ChooseStatus(t, status)
      PROVE  RowsFollowSelection'
  BY <1>6, NoRows DEF ChooseStatus, loadIntegrationRuns
<1>7. ASSUME NEW t \in Tasks, NEW project, NEW run, SelectRun(t, project, run)
      PROVE  RowsFollowSelection'
  <2>1. /\ pc[t] = "idle" /\ pc' = [pc EXCEPT ![t] = "screen"]
        /\ UNCHANGED <<stored, target, runsBody, selectedProjectId, branchFilter, statusFilter>>
    BY <1>7 DEF SelectRun, Starts, Goto, screen
  <2> QED
    BY <1>t, <2>1, RowsAtStart
<1>8. ASSUME NEW t \in Tasks, NEW run \in Runs, ClickRun(t, run)
      PROVE  RowsFollowSelection'
  BY <1>8, <1>7, Zenon DEF ClickRun
<1>9. ASSUME NEW t \in Tasks, NEW run \in Runs, ClickTile(t, run)
      PROVE  RowsFollowSelection'
  <2> DEFINE project == RunInfo[run].project
  <2>1. CASE SelectRun(t, project, run)
    BY <1>7, <2>1, Zenon
  <2>2. CASE selectProject(t, project, run)
    BY <1>t, <2>2, RowsAwaited, Zenon
  <2> QED
    BY <1>9, <2>1, <2>2 DEF ClickTile
<1>10. ASSUME NEW t \in Tasks, NEW catalog \in Catalogs, ProjectsArrive(t, catalog)
       PROVE  RowsFollowSelection'
  <2>1. CASE clearSelection
    BY <2>1, NoRows DEF clearSelection
  <2>2. ASSUME NEW project, NEW run, selectProject(t, project, run)
        PROVE  RowsFollowSelection'
    BY <1>t, <2>2, RowsAwaited, Zenon
  <2> QED
    BY <1>10, <2>1, <2>2, Zenon DEF ProjectsArrive
<1>11. ASSUME NEW t \in Tasks, ProjectsFail(t)
       PROVE  RowsFollowSelection'
  <2>1. /\ pc[t] # "branches" /\ EndScreen(t)
        /\ UNCHANGED <<stored, runsBody, selectedProjectId, branchFilter, statusFilter>>
    BY <1>11 DEF ProjectsFail, page, screen, panels
  <2>2. \A u \in Tasks : pc[u] = "branches" => pc'[u] = "branches" /\ target'[u] = target[u]
    BY <1>t, <2>1, EndKeepsAwaits
  <2> QED
    BY <1>t, <2>1, <2>2, RowsKept
<1>12. ASSUME NEW t \in Tasks, BranchesArrive(t)
       PROVE  RowsFollowSelection'
  BY <1>12, NoRows DEF BranchesArrive, loadIntegrationScreen, loadIntegrationRuns
<1>13. ASSUME NEW t \in Tasks, NEW fetch, Settles(t, fetch), runsBody' \in {runsBody, {}}
       PROVE  RowsFollowSelection'
  <2>1. /\ \A u \in Tasks : pc[u] = "branches" => pc'[u] = "branches" /\ target'[u] = target[u]
        /\ UNCHANGED <<stored, selectedProjectId, branchFilter, statusFilter>>
    BY <1>t, <1>13, SettlesKeepsAwaits
  <2> QED
    BY <1>t, <1>13, <2>1, RowsKept
<1>14. ASSUME NEW t \in Tasks, RunsArrive(t)
       PROVE  RowsFollowSelection'
  <2>1. /\ runsBody' = runsBody \cup FirstPage(asked[t]) /\ ~IsStale(asked[t])
        /\ UNCHANGED <<stored, pc, target, selectedProjectId, branchFilter, statusFilter>>
    BY <1>14 DEF RunsArrive, page, screen
  <2>2. FirstPage(asked[t]) \subseteq Listed(Selection)
    BY <2>1, RowsOfSelection
  <2>3. Listed(Selection)' = Listed(Selection)
    BY <2>1 DEF Listed, Selection, Asking, BranchOf
  <2> QED
    BY <1>t, <2>1, <2>2, <2>3 DEF RowsFollowSelection
<1>15. ASSUME NEW t \in Tasks, HeatmapArrives(t)
       PROVE  RowsFollowSelection'
  <2>1. /\ pc[t] # "branches" /\ Return(t)
        /\ UNCHANGED <<stored, runsBody, selectedProjectId, branchFilter, statusFilter>>
    BY <1>15 DEF HeatmapArrives, page, screen, panels
  <2>2. \A u \in Tasks : pc[u] = "branches" => pc'[u] = "branches" /\ target'[u] = target[u]
    BY <1>t, <2>1, EndKeepsAwaits
  <2> QED
    BY <1>t, <2>1, <2>2, RowsKept
<1>16. CASE ChooseNone
  BY <1>16, NoRows DEF ChooseNone, EmptyScreen
<1>17. ASSUME NEW matching \in Matches, Search(matching)
       PROVE  RowsFollowSelection'
  BY <1>17, <1>u DEF Search, screen, panels, locals
<1>18. ASSUME NEW matching \in Matches, ChangeGroup(matching)
       PROVE  RowsFollowSelection'
  <2>1. CASE UNCHANGED <<selectedProjectId, screen, panels, pc, job, locals, overlapped>>
    BY <1>18, <1>u, <2>1 DEF ChangeGroup, screen, panels, locals
  <2>2. CASE clearSelection
    BY <2>2, NoRows DEF clearSelection
  <2>3. ASSUME NEW t \in Tasks, NEW project, selectProject(t, project, None)
        PROVE  RowsFollowSelection'
    BY <1>t, <2>3, RowsAwaited, Zenon
  <2> QED
    BY <1>18, <2>1, <2>2, <2>3, Zenon DEF ChangeGroup
<1>19. ASSUME NEW value \in Intervals, ChangeInterval(value)
       PROVE  RowsFollowSelection'
  BY <1>19, <1>u DEF ChangeInterval, page, screen, panels, locals
<1>20. CASE TimeoutFiresBusy
  BY <1>20, <1>u DEF TimeoutFiresBusy, page, screen, panels, locals
<1>21. ASSUME NEW run \in Arriving, RunStored(run)
       PROVE  RowsFollowSelection'
  BY <1>21, <1>u DEF RunStored, page, screen, panels, locals
<1>22. CASE UNCHANGED vars
  BY <1>22, <1>u DEF vars, page, screen, panels, locals
<1>23. ASSUME NEW t \in Tasks, UserEvent(t)
       PROVE  RowsFollowSelection'
  BY <1>23, <1>1, <1>2, <1>3, <1>4, <1>5, <1>6, <1>8, <1>9 DEF UserEvent, Refresh
<1>24. ASSUME NEW t \in Tasks, Answer(t)
       PROVE  RowsFollowSelection'
  <2>1. ASSUME NEW fetch, Settles(t, fetch), UNCHANGED runsBody
        PROVE  RowsFollowSelection'
    BY <1>13, <2>1, Zenon
  <2>2. ASSUME NEW fetch, Settles(t, fetch), runsBody' = {}
        PROVE  RowsFollowSelection'
    BY <2>2, NoRows
  <2>3. CASE ComparisonArrives(t)
    BY <2>1, <2>3 DEF ComparisonArrives
  <2>4. CASE RunsIgnored(t)
    BY <2>1, <2>4 DEF RunsIgnored, panels
  <2>5. CASE RunsEmpty(t) \/ RunsFail(t)
    BY <2>2, <2>5 DEF RunsEmpty, RunsFail
  <2>6. CASE DetailsArrive(t)
    BY <2>1, <2>6 DEF DetailsArrive
  <2> QED
    BY <1>24, <1>10, <1>11, <1>12, <1>14, <1>15, <2>3, <2>4, <2>5, <2>6 DEF Answer
<1> QED
  BY <1>1, <1>16, <1>17, <1>18, <1>19, <1>20, <1>21, <1>22, <1>23, <1>24
     DEF Next, TimeoutFires

-----------------------------------------------------------------------------
(* Card and failed specs. *)

\* A task is the only one, and the others await nothing.
LEMMA AloneIdle ==
  ASSUME TypeOK, TasksInv, NEW t \in Tasks, Alone(t)
  PROVE  \A u \in Tasks \ {t} : pc[u] = "idle" /\ waiting[u] = {}
BY DEF TypeOK, TasksInv, TaskInv, Alone, Live

\* Until tasks overlap a task is the only one.
LEMMA Solo ==
  ASSUME PanelsInv, ~overlapped, NEW t \in Tasks, pc[t] # "idle"
  PROVE  Alone(t)
BY DEF PanelsInv, PanelsShown, Alone, Live

\* The panels are as they should be when they are for the only task.
LEMMA ShownBySole ==
  ASSUME NEW t \in Tasks,
         \A u \in Tasks \ {t} : pc'[u] = "idle" /\ waiting'[u] = {},
         selectedProjectId' # None =>
            /\ LoadsSelection(t)'
            /\ t \in Refreshing' => KeepsRun(t)'
            /\ CardFollows' /\ SpecsFollow'
  PROVE  PanelsShown'
<1>1. Live' \subseteq {t}
  BY DEF Live
<1>2. Refreshing' \subseteq {t}
  BY <1>1 DEF Refreshing
<1>3. \A u \in Tasks \ {t} : LoadsSelection(u)'
  BY DEF LoadsSelection
<1> QED
  BY <1>1, <1>2, <1>3 DEF PanelsShown

\* At an await that nothing is shown after, the panels show the selection.
LEMMA AtRest ==
  ASSUME TypeOK, TasksInv, PanelsInv, ~overlapped, selectedProjectId # None,
         NEW t \in Tasks, Alone(t), pc[t] \notin {"branches", "screen"}
  PROVE  /\ duration \in {[project |-> selectedProjectId, branch |-> branchFilter], None}
         /\ failedSpecsBody \subseteq {selectedRunId}
         /\ \A u \in Tasks : waiting[u] = {}
<1>1. \A u \in Tasks : pc[u] # "branches" /\ waiting[u] = {}
  BY AloneIdle DEF TypeOK, TasksInv, TaskInv
<1>2. CardFollows /\ SpecsFollow
  BY DEF PanelsInv, PanelsShown
<1> QED
  BY <1>1, <1>2 DEF CardFollows, SpecsFollow, AwaitsCard, AwaitsRuns

\* A task goes from one such await to another.
LEMMA Quiet ==
  ASSUME TypeOK, TasksInv, PanelsInv, ~overlapped, NEW t \in Tasks, Alone(t),
         pc[t] \notin {"branches", "screen"}, pc'[t] \notin {"branches", "screen"},
         \A u \in Tasks \ {t} : pc'[u] = pc[u],
         UNCHANGED <<waiting, selectedProjectId, selectedRunId, branchFilter, duration,
                     failedSpecsBody>>
  PROVE  PanelsShown'
<1>1. \A u \in Tasks \ {t} : pc[u] = "idle" /\ waiting[u] = {}
  BY AloneIdle
<1>2. waiting[t] = {}
  BY DEF TasksInv, TaskInv
<1>3. LoadsSelection(t)' /\ KeepsRun(t)'
  BY <1>2 DEF LoadsSelection, KeepsRun
<1>4. selectedProjectId' # None => CardFollows' /\ SpecsFollow'
  BY AtRest DEF CardFollows, SpecsFollow
<1> QED
  BY <1>1, <1>3, <1>4, ShownBySole

\* A task selects a project on its own.
LEMMA SelectsAlone ==
  ASSUME TypeOK, TasksInv, NEW t \in Tasks, Alone(t), pc[t] # "screen",
         NEW project, NEW run, selectProject(t, project, run), UNCHANGED waiting,
         t \in Refreshing' => run \in {selectedRunId, None}
  PROVE  PanelsShown'
<1>1. /\ selectedProjectId' = project /\ target'[t] = project /\ preferred'[t] = run
      /\ pc' = [pc EXCEPT ![t] = "branches"] /\ selectedRunId' = selectedRunId
  BY DEF selectProject, Goto, panels, TasksInv, LocalsTyped
<1>2. \A u \in Tasks \ {t} : pc'[u] = "idle" /\ waiting'[u] = {}
  BY <1>1, AloneIdle
<1>3. pc'[t] = "branches" /\ waiting'[t] = {}
  BY <1>1 DEF TypeOK, TasksInv, TaskInv
<1>4. LoadsSelection(t)' /\ (t \in Refreshing' => KeepsRun(t)')
  BY <1>1, <1>3 DEF LoadsSelection, KeepsRun
<1>5. CardFollows' /\ SpecsFollow'
  BY <1>3 DEF CardFollows, SpecsFollow, AwaitsCard, AwaitsRuns
<1> QED
  BY <1>2, <1>4, <1>5, ShownBySole

\* A task loads the screen of the selection on its own.
LEMMA LoadsAlone ==
  ASSUME TypeOK, TasksInv, NEW t \in Tasks, Alone(t), NEW question, NEW run,
         loadIntegrationScreen(t, question, run), UNCHANGED selectedRunId,
         selectedProjectId' # None =>
            /\ question = [project |-> selectedProjectId', branch |-> branchFilter',
                           status |-> statusFilter']
            /\ t \in Refreshing' => run \in {selectedRunId, None}
  PROVE  PanelsShown'
<1>1. /\ asked'[t] = question
      /\ retained'[t] = IF run # None THEN run ELSE selectedRunId
      /\ pc' = [pc EXCEPT ![t] = "screen"] /\ runsBody' = {}
      /\ waiting' = [waiting EXCEPT ![t] = {"comparison", "runs"}]
  BY DEF loadIntegrationScreen, loadIntegrationRuns, Goto, TasksInv, LocalsTyped
<1>2. \A u \in Tasks \ {t} : pc'[u] = "idle" /\ waiting'[u] = {}
  BY <1>1, AloneIdle
<1>3. pc'[t] = "screen" /\ waiting'[t] = {"comparison", "runs"}
  BY <1>1 DEF TypeOK
<1> SUFFICES ASSUME selectedProjectId' # None
             PROVE  /\ LoadsSelection(t)'
                    /\ t \in Refreshing' => KeepsRun(t)'
                    /\ CardFollows' /\ SpecsFollow'
  BY <1>2, ShownBySole
<1>4. ~IsStale(question)'
  BY DEF IsStale, Selection, Asking, BranchOf
<1>5. ~IsStale(asked[t])'
  BY <1>1, <1>4 DEF IsStale, Selection, Asking, BranchOf
<1>6. LoadsSelection(t)'
  BY <1>1, <1>3, <1>5 DEF LoadsSelection
<1>7. t \in Refreshing' => KeepsRun(t)'
  BY <1>1, <1>3 DEF KeepsRun
<1>8. CardFollows' /\ SpecsFollow'
  BY <1>3 DEF CardFollows, SpecsFollow, AwaitsCard, AwaitsRuns
<1> QED
  BY <1>6, <1>7, <1>8

\* What a fetch that settles leaves of its task.
LEMMA SettlesAlone ==
  ASSUME TypeOK, TasksInv, PanelsInv, ~overlapped, NEW t \in Tasks,
         NEW fetch, Settles(t, fetch),
         selectedProjectId # None =>
            /\ "runs" \in waiting[t] \ {fetch} =>
                  selectedRunId' = selectedRunId /\ runsBody' \in {runsBody, {}}
            /\ "details" \in waiting[t] \ {fetch} => selectedRunId' = selectedRunId
            /\ \/ duration' \in {[project |-> selectedProjectId, branch |-> branchFilter], None}
               \/ "comparison" \in waiting[t] \ {fetch}
            /\ failedSpecsBody' \subseteq {selectedRunId'} \/ "runs" \in waiting[t] \ {fetch}
  PROVE  PanelsShown'
<1>1. /\ pc[t] = "screen" /\ fetch \in waiting[t]
      /\ waiting' = [waiting EXCEPT ![t] = @ \ {fetch}]
      /\ UNCHANGED <<selectedProjectId, branchFilter, statusFilter>>
  BY DEF Settles, TasksInv, TaskInv, page, screen
<1>2. \A u \in Tasks \ {t} : pc[u] = "idle" /\ waiting[u] = {}
  BY <1>1, Solo, AloneIdle
<1>3. waiting'[t] = waiting[t] \ {fetch}
  BY <1>1 DEF TypeOK
<1>4. \A u \in Tasks \ {t} : pc'[u] = "idle" /\ waiting'[u] = {}
  <2>1. CASE UNCHANGED pc
    BY <1>1, <1>2, <2>1
  <2>2. CASE EndScreen(t)
    <3>1. \A u \in Tasks \ {t} : pc'[u] = pc[u]
      BY <2>2 DEF EndScreen, Return, Goto, TypeOK
    <3> QED
      BY <1>1, <1>2, <3>1
  <2> QED
    BY <2>1, <2>2 DEF Settles
<1>5. waiting'[t] # {} => UNCHANGED <<pc, job, asked, retained, detail>>
  BY <1>1, <1>3 DEF Settles, locals
<1> SUFFICES ASSUME selectedProjectId' # None
             PROVE  /\ LoadsSelection(t)'
                    /\ t \in Refreshing' => KeepsRun(t)'
                    /\ CardFollows' /\ SpecsFollow'
  BY <1>4, ShownBySole
<1>6. LoadsSelection(t) /\ (t \in Refreshing => KeepsRun(t))
  BY <1>1 DEF PanelsInv, PanelsShown
<1>7. pc'[t] # "branches"
  <2>1. CASE EndScreen(t)
    BY <1>1, <2>1 DEF EndScreen, Return, Goto, TypeOK
  <2>2. CASE UNCHANGED pc
    BY <1>1, <2>2
  <2> QED
    BY <2>1, <2>2 DEF Settles
<1>8. LoadsSelection(t)'
  <2>1. ASSUME "comparison" \in waiting'[t]
        PROVE  asked'[t].project = selectedProjectId' /\ asked'[t].branch = branchFilter'
    BY <1>1, <1>3, <1>5, <1>6, <2>1 DEF LoadsSelection
  <2>2. ASSUME "runs" \in waiting'[t]
        PROVE  ~IsStale(asked[t])' /\ runsBody' = {}
    <3>1. asked' = asked /\ ~IsStale(asked[t]) /\ runsBody' = {}
      BY <1>1, <1>3, <1>5, <1>6, <2>2 DEF LoadsSelection
    <3> QED
      BY <1>1, <3>1 DEF IsStale, Selection, Asking, BranchOf
  <2>3. ASSUME "details" \in waiting'[t]
        PROVE  detail'[t].run = selectedRunId'
    BY <1>1, <1>3, <1>5, <1>6, <2>3 DEF LoadsSelection
  <2> QED
    BY <1>7, <2>1, <2>2, <2>3 DEF LoadsSelection
<1>9. ASSUME t \in Refreshing'
      PROVE  KeepsRun(t)'
  <2> SUFFICES ASSUME "runs" \in waiting'[t]
               PROVE  retained'[t] = selectedRunId'
    BY <1>7 DEF KeepsRun
  <2>1. UNCHANGED <<pc, job, retained>>
    BY <1>5
  <2>2. t \in Refreshing
    BY <1>9, <2>1 DEF Refreshing, Live
  <2> QED
    BY <1>1, <1>3, <1>6, <2>1, <2>2 DEF KeepsRun
<1>10. CardFollows' /\ SpecsFollow'
  BY <1>1, <1>3 DEF CardFollows, SpecsFollow, AwaitsCard, AwaitsRuns
<1> QED
  BY <1>8, <1>9, <1>10

\* What the panels show next to a fetch that is under way.
LEMMA ShownMeanwhile ==
  ASSUME TypeOK, TasksInv, PanelsInv, ~overlapped, selectedProjectId # None,
         NEW t \in Tasks, pc[t] = "screen"
  PROVE  /\ \/ duration \in {[project |-> selectedProjectId, branch |-> branchFilter], None}
            \/ "comparison" \in waiting[t]
         /\ failedSpecsBody \subseteq {selectedRunId} \/ "runs" \in waiting[t]
         /\ LoadsSelection(t)
<1>1. \A u \in Tasks \ {t} : pc[u] = "idle" /\ waiting[u] = {}
  BY Solo, AloneIdle
<1> QED
  BY <1>1 DEF PanelsInv, PanelsShown, CardFollows, SpecsFollow, AwaitsCard, AwaitsRuns

\* The answers of the screen leave the panels as they should be.
LEMMA FetchesShow ==
  ASSUME TypeOK, TasksInv, PanelsInv, ~overlapped, NEW t \in Tasks,
         \/ ComparisonArrives(t) \/ RunsIgnored(t) \/ RunsEmpty(t) \/ RunsFail(t)
         \/ DetailsArrive(t)
  PROVE  PanelsShown'
<1>1. PICK fetch : Settles(t, fetch) /\ fetch \in waiting[t]
  BY DEF ComparisonArrives, RunsIgnored, RunsEmpty, RunsFail, DetailsArrive, Settles
<1>2. pc[t] = "screen"
  BY <1>1 DEF TasksInv, TaskInv
<1>3. ~({"runs", "details"} \subseteq waiting[t])
  BY DEF PanelsInv, RunsThenDetails
<1>4. CASE ComparisonArrives(t)
  <2>1. /\ Settles(t, "comparison") /\ "comparison" \in waiting[t]
        /\ UNCHANGED <<selectedRunId, runsBody, failedSpecsBody>>
    BY <1>4 DEF ComparisonArrives, Settles
  <2>2. ASSUME selectedProjectId # None
        PROVE  duration' \in {[project |-> selectedProjectId, branch |-> branchFilter], None}
    <3>1. asked[t].project = selectedProjectId /\ asked[t].branch = branchFilter
      BY <1>2, <2>1, <2>2, ShownMeanwhile DEF LoadsSelection
    <3>2. PICK ok \in Ok : duration' = Card(asked[t], ok)
      BY <1>4 DEF ComparisonArrives
    <3> QED
      BY <3>1, <3>2 DEF Card
  <2> QED
    BY <1>2, <2>1, <2>2, ShownMeanwhile, SettlesAlone
<1>5. CASE RunsIgnored(t)
  <2>1. /\ Settles(t, "runs") /\ "runs" \in waiting[t] /\ IsStale(asked[t])
    BY <1>5 DEF RunsIgnored, Settles
  <2>2. selectedProjectId = None
    BY <1>2, <2>1, ShownMeanwhile DEF LoadsSelection
  <2> QED
    BY <2>1, <2>2, SettlesAlone
<1>6. CASE RunsEmpty(t) \/ RunsFail(t)
  <2>1. /\ Settles(t, "runs") /\ "runs" \in waiting[t] /\ failedSpecsBody' = {}
        /\ duration' = duration
    BY <1>6 DEF RunsEmpty, RunsFail, Settles
  <2>2. "details" \notin waiting[t]
    BY <1>3, <2>1
  <2> QED
    BY <1>2, <2>1, <2>2, ShownMeanwhile, SettlesAlone
<1>7. CASE DetailsArrive(t)
  <2>1. /\ Settles(t, "details") /\ "details" \in waiting[t]
        /\ UNCHANGED <<selectedRunId, runsBody, duration>>
        /\ failedSpecsBody' \in {failedSpecsBody \cup {detail[t].run}, {}}
    BY <1>7 DEF DetailsArrive, Settles
  <2>2. "runs" \notin waiting[t]
    BY <1>3, <2>1
  <2>3. selectedProjectId # None => failedSpecsBody' \subseteq {selectedRunId}
    BY <1>2, <2>1, <2>2, ShownMeanwhile DEF LoadsSelection
  <2> QED
    BY <1>2, <2>1, <2>2, <2>3, ShownMeanwhile, SettlesAlone
<1> QED
  BY <1>4, <1>5, <1>6, <1>7

\* So does the run list that fills the table.
LEMMA RunsShow ==
  ASSUME TypeOK, TasksInv, PanelsInv, ~overlapped, NEW t \in Tasks, RunsArrive(t)
  PROVE  PanelsShown'
<1>1. /\ "runs" \in waiting[t]
      /\ waiting' = [waiting EXCEPT ![t] = (@ \ {"runs"}) \cup {"details"}]
      /\ failedSpecsBody' = {}
      /\ UNCHANGED <<selectedProjectId, branchFilter, duration, pc, asked>>
  BY DEF RunsArrive, loadIntegrationRunDetails, page, screen
<1>2. detail'[t].run = selectedRunId'
  BY DEF RunsArrive, loadIntegrationRunDetails, TasksInv, LocalsTyped
<1>3. waiting'[t] = (waiting[t] \ {"runs"}) \cup {"details"}
  BY <1>1 DEF TypeOK
<1>4. pc[t] = "screen"
  BY <1>1 DEF TasksInv, TaskInv
<1>5. \A u \in Tasks \ {t} : pc'[u] = "idle" /\ waiting'[u] = {}
  BY <1>1, <1>4, Solo, AloneIdle
<1> SUFFICES ASSUME selectedProjectId' # None
             PROVE  /\ LoadsSelection(t)' /\ KeepsRun(t)'
                    /\ CardFollows' /\ SpecsFollow'
  BY <1>5, ShownBySole
<1>6. LoadsSelection(t)
  BY <1>1, <1>4, ShownMeanwhile
<1>7. LoadsSelection(t)' /\ KeepsRun(t)'
  BY <1>1, <1>2, <1>3, <1>4, <1>6 DEF LoadsSelection, KeepsRun
<1>8. CardFollows'
  <2>1. \/ duration \in {[project |-> selectedProjectId, branch |-> branchFilter], None}
        \/ "comparison" \in waiting[t]
    BY <1>1, <1>4, ShownMeanwhile
  <2> QED
    BY <1>1, <1>3, <2>1 DEF CardFollows, AwaitsCard
<1>9. SpecsFollow'
  BY <1>1 DEF SpecsFollow
<1> QED
  BY <1>7, <1>8, <1>9

\* And the branches, after which the screen of the selection is loaded.
LEMMA BranchesShow ==
  ASSUME TypeOK, TasksInv, PanelsInv, ~overlapped, NEW t \in Tasks, BranchesArrive(t)
  PROVE  PanelsShown'
<1>1. /\ pc[t] = "branches" /\ UNCHANGED <<selectedProjectId, selectedRunId, statusFilter, job>>
      /\ loadIntegrationScreen(t, Asking(target[t], branchFilter'), preferred[t])
  BY DEF BranchesArrive, page
<1>2. Alone(t)
  BY <1>1, Solo
<1>3. ASSUME selectedProjectId' # None
      PROVE  /\ target[t] = selectedProjectId
             /\ t \in Refreshing' => preferred[t] \in {selectedRunId, None}
  <2>1. LoadsSelection(t) /\ (t \in Refreshing => KeepsRun(t))
    BY <1>1, <1>3 DEF PanelsInv, PanelsShown
  <2>2. t \in Refreshing' => t \in Refreshing
    BY <1>1 DEF Refreshing, Live
  <2> QED
    BY <1>1, <2>1, <2>2 DEF LoadsSelection, KeepsRun
<1>4. selectedProjectId' # None =>
         Asking(target[t], branchFilter')
           = [project |-> selectedProjectId', branch |-> branchFilter', status |-> statusFilter']
  BY <1>1, <1>3 DEF Asking
<1> DEFINE question == Asking(target[t], branchFilter')
<1> HIDE DEF question
<1> QED
  BY <1>1, <1>2, <1>3, <1>4, LoadsAlone DEF question

\* Steps of no task of their own that leave the panels and the selection.
LEMMA PanelsStay ==
  ASSUME PanelsInv, ~overlapped,
         UNCHANGED <<selectedProjectId, screen, panels, pc, job, waiting, locals>>
  PROVE  PanelsShown'
<1>1. PanelsShown
  BY DEF PanelsInv
<1>2. ASSUME NEW t \in Tasks
      PROVE  LoadsSelection(t) <=> LoadsSelection(t)'
  BY DEF LoadsSelection, IsStale, Selection, Asking, BranchOf, screen, panels, locals
<1>3. ASSUME NEW t \in Tasks
      PROVE  KeepsRun(t) <=> KeepsRun(t)'
  BY DEF KeepsRun, panels, locals
<1>4. Live' = Live /\ Refreshing' = Refreshing
  BY DEF Live, Refreshing
<1>5. (CardFollows <=> CardFollows') /\ (SpecsFollow <=> SpecsFollow')
  BY DEF CardFollows, SpecsFollow, AwaitsCard, AwaitsRuns, screen, panels
<1>6. Refreshing \subseteq Tasks
  BY DEF Refreshing, Live
<1> QED
  BY <1>1, <1>2, <1>3, <1>4, <1>5, <1>6 DEF PanelsShown

\* Steps that leave no project selected.
LEMMA NothingSelected ==
  ASSUME selectedProjectId' = None, Live' \subseteq Live,
         \A t, u \in Live : t = u
  PROVE  PanelsShown'
BY DEF PanelsShown

\* A task begins with no project to show anything of.
LEMMA Begins ==
  ASSUME TypeOK, TasksInv, NEW t \in Tasks, pc[t] = "idle", Alone(t)
  PROVE  /\ \A u \in Tasks : pc[u] = "idle" /\ waiting[u] = {}
         /\ Live = {}
<1>1. \A u \in Tasks : pc[u] = "idle" /\ waiting[u] = {}
  BY AloneIdle DEF TypeOK, TasksInv, TaskInv
<1> QED
  BY <1>1 DEF Live

\* The user changes the status filter, or selects a run, while nothing is under way.
LEMMA StatusShows ==
  ASSUME TypeOK, TasksInv, PanelsInv, ~overlapped', NEW t \in Tasks, NEW status,
         ChooseStatus(t, status)
  PROVE  PanelsShown'
<1> DEFINE question == [Selection EXCEPT !.status = status]
<1>1. /\ ~overlapped /\ Alone(t) /\ pc[t] = "idle" /\ job' = [job EXCEPT ![t] = "filter"]
      /\ statusFilter' = status /\ loadIntegrationRuns(t, question, None)
      /\ waiting' = [waiting EXCEPT ![t] = {"runs"}]
      /\ UNCHANGED <<selectedProjectId, selectedRunId, failedSpecsBody, duration, branchFilter>>
  BY DEF ChooseStatus, Starts
<1>2. /\ asked'[t] = question /\ pc' = [pc EXCEPT ![t] = "screen"] /\ runsBody' = {}
  BY <1>1 DEF loadIntegrationRuns, Goto, TasksInv, LocalsTyped
<1>3. question = [project |-> selectedProjectId', branch |-> branchFilter',
                  status |-> statusFilter']
  BY <1>1 DEF Selection, Asking
<1>4. ~IsStale(asked[t])'
  BY <1>2, <1>3 DEF IsStale, Selection, Asking, BranchOf
<1>5. /\ \A u \in Tasks \ {t} : pc'[u] = "idle" /\ waiting'[u] = {}
      /\ pc'[t] = "screen" /\ waiting'[t] = {"runs"} /\ t \notin Refreshing'
  BY <1>1, <1>2, AloneIdle DEF TypeOK, TasksInv, LocalsTyped, Refreshing
<1>6. LoadsSelection(t)'
  BY <1>2, <1>4, <1>5 DEF LoadsSelection
<1>7. selectedProjectId' # None => CardFollows'
  BY <1>1, AtRest DEF CardFollows
<1>8. SpecsFollow'
  BY <1>5 DEF SpecsFollow, AwaitsRuns
<1> QED
  BY <1>5, <1>6, <1>7, <1>8, ShownBySole

LEMMA RunShows ==
  ASSUME TypeOK, TasksInv, PanelsInv, ~overlapped', NEW t \in Tasks, NEW project, NEW run,
         SelectRun(t, project, run)
  PROVE  PanelsShown'
<1>1. /\ ~overlapped /\ Alone(t) /\ pc[t] = "idle" /\ job' = [job EXCEPT ![t] = "run"]
      /\ selectedRunId' = run /\ failedSpecsBody' = {}
      /\ detail' = [detail EXCEPT ![t] = [project |-> project, run |-> run]]
      /\ pc' = [pc EXCEPT ![t] = "screen"]
      /\ waiting' = [waiting EXCEPT ![t] = {"details"}]
      /\ UNCHANGED <<selectedProjectId, duration, branchFilter>>
  BY DEF SelectRun, Starts, loadIntegrationRunDetails, Goto, screen
<1>2. /\ \A u \in Tasks \ {t} : pc'[u] = "idle" /\ waiting'[u] = {}
      /\ pc'[t] = "screen" /\ waiting'[t] = {"details"} /\ t \notin Refreshing'
      /\ detail'[t].run = run
  BY <1>1, AloneIdle DEF TypeOK, TasksInv, LocalsTyped, Refreshing
<1>3. LoadsSelection(t)'
  BY <1>1, <1>2 DEF LoadsSelection
<1>4. selectedProjectId' # None => CardFollows'
  BY <1>1, AtRest DEF CardFollows
<1>5. SpecsFollow'
  BY <1>1 DEF SpecsFollow
<1> QED
  BY <1>2, <1>3, <1>4, <1>5, ShownBySole

\* What the user starts leaves the panels as they should be, or for the task to fill.
LEMMA UserShows ==
  ASSUME TypeOK, TasksInv, PanelsInv, ~overlapped', NEW t \in Tasks,
         UserEvent(t) \/ TimeoutFires(t)
  PROVE  PanelsShown'
<1>1. CASE performIntegrationRefresh(t)
  <2>1. /\ pc[t] = "idle" /\ pc' = [pc EXCEPT ![t] = "projects"] /\ ~overlapped /\ Alone(t)
        /\ UNCHANGED <<waiting, selectedProjectId, selectedRunId, branchFilter, duration,
                       failedSpecsBody>>
    BY <1>1 DEF performIntegrationRefresh, Goto, page, screen, panels
  <2>2. pc'[t] = "projects" /\ \A u \in Tasks \ {t} : pc'[u] = pc[u]
    BY <2>1 DEF TypeOK
  <2> QED
    BY <2>1, <2>2, Quiet
<1>2. CASE ReloadHeatmap(t)
  <2>1. /\ pc[t] = "idle" /\ pc' = [pc EXCEPT ![t] = "heatmap"] /\ ~overlapped /\ Alone(t)
        /\ UNCHANGED <<waiting, selectedProjectId, selectedRunId, branchFilter, duration,
                       failedSpecsBody>>
    BY <1>2 DEF ReloadHeatmap, Goto, page, screen, panels
  <2>2. pc'[t] = "heatmap" /\ \A u \in Tasks \ {t} : pc'[u] = pc[u]
    BY <2>1 DEF TypeOK
  <2> QED
    BY <2>1, <2>2, Quiet
<1>3. CASE Reload(t)
  <2>1. CASE selectedProjectId = None
    <3>1. ~overlapped /\ selectedProjectId' = None /\ UNCHANGED pc
      BY <1>3, <2>1 DEF Reload
    <3> QED
      BY <3>1 DEF PanelsInv, PanelsShown, Live
  <2>2. CASE selectedProjectId # None
    <3>1. /\ Alone(t) /\ loadIntegrationScreen(t, Selection, selectedRunId)
          /\ UNCHANGED <<selectedProjectId, selectedRunId, branchFilter, statusFilter>>
      BY <1>3, <2>2 DEF Reload, screen
    <3>2. Selection = [project |-> selectedProjectId', branch |-> branchFilter',
                       status |-> statusFilter']
      BY <3>1 DEF Selection, Asking
    <3> QED
      BY <3>1, <3>2, LoadsAlone
  <2> QED
    BY <2>1, <2>2
<1>4. ASSUME NEW project, NEW run, selectProject(t, project, run), pc[t] = "idle",
             job' = [job EXCEPT ![t] = "select"], UNCHANGED waiting
      PROVE  PanelsShown'
  <2>1. Alone(t)
    BY <1>4 DEF selectProject
  <2>2. t \notin Refreshing'
    BY <1>4 DEF Refreshing, TasksInv, LocalsTyped
  <2> QED
    BY <1>4, <2>1, <2>2, SelectsAlone
<1>5. ASSUME NEW branch \in Branches, ChooseBranch(t, branch)
      PROVE  PanelsShown'
  <2>1. CASE selectedProjectId = None
    <3>1. ~overlapped /\ selectedProjectId' = None /\ UNCHANGED pc
      BY <1>5, <2>1 DEF ChooseBranch
    <3> QED
      BY <3>1 DEF PanelsInv, PanelsShown, Live
  <2>2. CASE selectedProjectId # None
    <3>1. /\ Alone(t) /\ loadIntegrationScreen(t, Asking(selectedProjectId, branch), None)
          /\ UNCHANGED <<selectedProjectId, selectedRunId, statusFilter>>
          /\ branchFilter' = branch
      BY <1>5, <2>2 DEF ChooseBranch
    <3>2. Asking(selectedProjectId, branch)
            = [project |-> selectedProjectId', branch |-> branchFilter', status |-> statusFilter']
      BY <3>1 DEF Asking
    <3> QED
      BY <3>1, <3>2, LoadsAlone
  <2> QED
    BY <2>1, <2>2
<1>6. ASSUME NEW status \in Statuses, ChooseStatus(t, status)
      PROVE  PanelsShown'
  BY <1>6, StatusShows
<1>7. ASSUME NEW project, NEW run, SelectRun(t, project, run)
      PROVE  PanelsShown'
  BY <1>7, RunShows
<1>8. ASSUME NEW project \in Projects, ChooseProject(t, project)
      PROVE  PanelsShown'
  BY <1>4, <1>8 DEF ChooseProject, Starts
<1>9. ASSUME NEW run \in Runs, ClickRun(t, run)
      PROVE  PanelsShown'
  BY <1>7, <1>9 DEF ClickRun
<1>10. ASSUME NEW run \in Runs, ClickTile(t, run)
       PROVE  PanelsShown'
  BY <1>4, <1>7, <1>10 DEF ClickTile, Starts
<1> QED
  BY <1>1, <1>2, <1>3, <1>5, <1>6, <1>8, <1>9, <1>10 DEF UserEvent, TimeoutFires, Refresh

\* The end of a handler with nothing to show.
LEMMA EndShows ==
  ASSUME TypeOK, TasksInv, PanelsInv, ~overlapped, NEW t \in Tasks,
         pc[t] \in {"projects", "heatmap"}, EndScreen(t) \/ Return(t), UNCHANGED waiting,
         \/ UNCHANGED <<selectedProjectId, selectedRunId, branchFilter, duration, failedSpecsBody>>
         \/ selectedProjectId' = None
  PROVE  PanelsShown'
<1>1. Alone(t)
  BY Solo
<1>2. pc'[t] \in {"idle", "heatmap"} /\ \A u \in Tasks \ {t} : pc'[u] = pc[u]
  BY DEF EndScreen, Return, Goto, TypeOK
<1>3. CASE UNCHANGED <<selectedProjectId, selectedRunId, branchFilter, duration, failedSpecsBody>>
  BY <1>1, <1>2, <1>3, Quiet
<1>4. CASE selectedProjectId' = None
  <2>1. Live' \subseteq Live /\ \A a, b \in Live : a = b
    BY <1>1, <1>2 DEF Live, Alone
  <2> QED
    BY <1>4, <2>1, NothingSelected
<1> QED
  BY <1>3, <1>4

\* What arrives leaves the panels as they should be.
LEMMA AnswerShows ==
  ASSUME TypeOK, TasksInv, RefreshInv, PanelsInv, ~overlapped', NEW t \in Tasks, Answer(t)
  PROVE  PanelsShown'
<1>1. ASSUME NEW catalog \in Catalogs, ProjectsArrive(t, catalog)
      PROVE  PanelsShown'
  <2>1. pc[t] = "projects" /\ UNCHANGED waiting
    BY <1>1 DEF ProjectsArrive
  <2>2. CASE clearSelection /\ EndScreen(t) /\ UNCHANGED overlapped
    BY <2>1, <2>2, EndShows DEF clearSelection
  <2>3. ASSUME NEW project, NEW run \in {selectedRunId, None}, selectProject(t, project, run)
        PROVE  PanelsShown'
    <3>1. Alone(t)
      BY <2>3 DEF selectProject
    <3> QED
      BY <2>1, <2>3, <3>1, SelectsAlone
  <2> QED
    BY <1>1, <2>2, <2>3 DEF ProjectsArrive
<1>2. CASE ProjectsFail(t)
  BY <1>2, EndShows DEF ProjectsFail, page, screen, panels
<1>3. CASE HeatmapArrives(t)
  BY <1>3, EndShows DEF HeatmapArrives, page, screen, panels
<1>4. CASE BranchesArrive(t)
  BY <1>4, BranchesShow DEF BranchesArrive
<1>5. CASE RunsArrive(t)
  BY <1>5, RunsShow DEF RunsArrive
<1>6. CASE \/ ComparisonArrives(t) \/ RunsIgnored(t) \/ RunsEmpty(t) \/ RunsFail(t)
           \/ DetailsArrive(t)
  <2>1. ~overlapped
    BY <1>6 DEF ComparisonArrives, RunsIgnored, RunsEmpty, RunsFail, DetailsArrive, Settles
  <2> QED
    BY <1>6, <2>1, FetchesShow
<1> QED
  BY <1>1, <1>2, <1>3, <1>4, <1>5, <1>6 DEF Answer

\* How the fetches a task awaits change: they are answered, or it begins to load, or
\* the run list is followed by the details.
LEMMA WaitingChanges ==
  ASSUME TypeOK, TasksInv, [Next]_vars, NEW t \in Tasks
  PROVE  \/ waiting'[t] \subseteq waiting[t]
         \/ waiting[t] = {} /\ waiting'[t] \in {{"comparison", "runs"}, {"runs"}, {"details"}}
         \/ RunsArrive(t) /\ waiting'[t] = (waiting[t] \ {"runs"}) \cup {"details"}
<1> DEFINE Changes ==
      \/ waiting'[t] \subseteq waiting[t]
      \/ waiting[t] = {} /\ waiting'[t] \in {{"comparison", "runs"}, {"runs"}, {"details"}}
      \/ RunsArrive(t) /\ waiting'[t] = (waiting[t] \ {"runs"}) \cup {"details"}
<1>1. CASE UNCHANGED waiting
  BY <1>1
<1>2. ASSUME NEW u \in Tasks, pc[u] # "screen",
             NEW W \in {{"comparison", "runs"}, {"runs"}, {"details"}},
             waiting' = [waiting EXCEPT ![u] = W]
      PROVE  Changes
  <2>1. waiting[u] = {}
    BY <1>2 DEF TasksInv, TaskInv
  <2>2. waiting'[u] = W /\ \A v \in Tasks \ {u} : waiting'[v] = waiting[v]
    BY <1>2 DEF TypeOK
  <2> QED
    BY <2>1, <2>2
<1>3. ASSUME NEW u \in Tasks, NEW fetch, Settles(u, fetch)
      PROVE  Changes
  <2>1. waiting' = [waiting EXCEPT ![u] = @ \ {fetch}]
    BY <1>3 DEF Settles
  <2> QED
    BY <2>1 DEF TypeOK
<1>4. ASSUME NEW u \in Tasks, RunsArrive(u)
      PROVE  Changes
  <2>1. waiting' = [waiting EXCEPT ![u] = (@ \ {"runs"}) \cup {"details"}]
    BY <1>4 DEF RunsArrive
  <2>2. CASE u = t
    <3>1. waiting'[t] = (waiting[t] \ {"runs"}) \cup {"details"}
      BY <2>1, <2>2 DEF TypeOK
    <3> QED
      BY <1>4, <2>2, <3>1
  <2>3. CASE u # t
    BY <2>1, <2>3
  <2> QED
    BY <2>2, <2>3
<1> HIDE DEF Changes
<1>5. ASSUME NEW u \in Tasks, NEW project, NEW run, SelectRun(u, project, run)
      PROVE  Changes
  <2>1. pc[u] # "screen" /\ waiting' = [waiting EXCEPT ![u] = {"details"}]
    BY <1>5 DEF SelectRun, Starts
  <2> QED
    BY <1>2, <2>1
<1>6. ASSUME NEW u \in Tasks, NEW question, NEW run, loadIntegrationScreen(u, question, run),
             pc[u] # "screen"
      PROVE  Changes
  BY <1>2, <1>6 DEF loadIntegrationScreen
<1>7. ASSUME NEW u \in Tasks, UserEvent(u)
      PROVE  Changes
  <2>1. CASE Refresh(u) \/ ReloadHeatmap(u) \/ \E project \in Projects : ChooseProject(u, project)
    BY <1>1, <2>1 DEF Refresh, performIntegrationRefresh, ReloadHeatmap, ChooseProject, Changes
  <2>2. CASE Reload(u)
    BY <1>1, <1>6, <2>2 DEF Reload, Starts, Changes
  <2>3. ASSUME NEW branch \in Branches, ChooseBranch(u, branch)
        PROVE  Changes
    BY <1>1, <1>6, <2>3 DEF ChooseBranch, Starts, Changes
  <2>4. ASSUME NEW status \in Statuses, ChooseStatus(u, status)
        PROVE  Changes
    BY <1>2, <2>4 DEF ChooseStatus, Starts
  <2>5. ASSUME NEW run \in Runs, ClickRun(u, run) \/ ClickTile(u, run)
        PROVE  Changes
    BY <1>1, <1>5, <2>5 DEF ClickRun, ClickTile, Changes
  <2> QED
    BY <1>7, <2>1, <2>2, <2>3, <2>4, <2>5 DEF UserEvent
<1>8. ASSUME NEW u \in Tasks, Answer(u)
      PROVE  Changes
  <2>1. CASE (\E catalog \in Catalogs : ProjectsArrive(u, catalog)) \/ ProjectsFail(u)
             \/ HeatmapArrives(u)
    BY <1>1, <2>1 DEF ProjectsArrive, ProjectsFail, HeatmapArrives, Changes
  <2>2. CASE BranchesArrive(u)
    BY <1>6, <2>2 DEF BranchesArrive
  <2>3. CASE \/ ComparisonArrives(u) \/ RunsIgnored(u) \/ RunsEmpty(u) \/ RunsFail(u)
             \/ DetailsArrive(u)
    BY <1>3, <2>3 DEF ComparisonArrives, RunsIgnored, RunsEmpty, RunsFail, DetailsArrive
  <2> QED
    BY <1>8, <1>4, <2>1, <2>2, <2>3 DEF Answer
<1>9. CASE \/ \E u \in Tasks : TimeoutFires(u)
           \/ ChooseNone
           \/ \E matching \in Matches : Search(matching) \/ ChangeGroup(matching)
           \/ \E value \in Intervals : ChangeInterval(value)
           \/ TimeoutFiresBusy
           \/ \E run \in Arriving : RunStored(run)
           \/ UNCHANGED vars
  <2>1. UNCHANGED waiting
    BY <1>9 DEF TimeoutFires, performIntegrationRefresh, ChooseNone, Search, ChangeGroup,
                ChangeInterval, TimeoutFiresBusy, RunStored, vars
  <2> QED
    BY <1>1, <2>1 DEF Changes
<1> QED
  BY <1>7, <1>8, <1>9 DEF Next, Changes

\* Every step keeps the panels.
LEMMA PanelsStep ==
  ASSUME TypeOK, TasksInv, RefreshInv, PanelsInv, [Next]_vars
  PROVE  PanelsInv'
<1>1. RunsThenDetails'
  <2> SUFFICES ASSUME NEW t \in Tasks
               PROVE  ~({"runs", "details"} \subseteq waiting'[t])
    BY DEF RunsThenDetails
  <2>1. ~({"runs", "details"} \subseteq waiting[t])
    BY DEF PanelsInv, RunsThenDetails
  <2> QED
    BY <2>1, WaitingChanges
<1> SUFFICES ASSUME ~overlapped'
             PROVE  PanelsShown'
  BY <1>1 DEF PanelsInv
<1>2. ASSUME NEW t \in Tasks, UserEvent(t) \/ TimeoutFires(t)
      PROVE  PanelsShown'
  BY <1>2, UserShows
<1>3. ASSUME NEW t \in Tasks, Answer(t)
      PROVE  PanelsShown'
  BY <1>3, AnswerShows
<1>4. CASE ChooseNone
  <2>1. ~overlapped /\ selectedProjectId' = None /\ UNCHANGED pc
    BY <1>4 DEF ChooseNone
  <2> QED
    BY <2>1 DEF PanelsInv, PanelsShown, Live
<1>5. ASSUME NEW matching \in Matches, ChangeGroup(matching)
      PROVE  PanelsShown'
  <2>1. CASE UNCHANGED <<selectedProjectId, screen, panels, pc, job, locals, overlapped>>
    BY <1>5, <2>1, PanelsStay DEF ChangeGroup
  <2>2. CASE clearSelection /\ UNCHANGED <<pc, job, locals, overlapped>>
    <3>1. ~overlapped /\ selectedProjectId' = None /\ UNCHANGED pc
      BY <2>2 DEF clearSelection
    <3> QED
      BY <3>1 DEF PanelsInv, PanelsShown, Live
  <2>3. ASSUME NEW t \in Tasks, NEW project, pc[t] = "idle",
               job' = [job EXCEPT ![t] = "select"], selectProject(t, project, None)
        PROVE  PanelsShown'
    <3>1. Alone(t) /\ UNCHANGED waiting
      BY <1>5, <2>3 DEF selectProject, ChangeGroup
    <3> QED
      BY <2>3, <3>1, SelectsAlone
  <2> QED
    BY <1>5, <2>1, <2>2, <2>3 DEF ChangeGroup
<1>6. CASE \/ \E matching \in Matches : Search(matching)
           \/ \E value \in Intervals : ChangeInterval(value)
           \/ TimeoutFiresBusy
           \/ \E run \in Arriving : RunStored(run)
           \/ UNCHANGED vars
  <2>1. UNCHANGED <<selectedProjectId, screen, panels, pc, job, waiting, locals, overlapped>>
    BY <1>6 DEF Search, ChangeInterval, TimeoutFiresBusy, RunStored, vars, page
  <2> QED
    BY <2>1, PanelsStay
<1> QED
  BY <1>2, <1>3, <1>4, <1>5, <1>6 DEF Next

\* A refresh or a reload nobody interferes with keeps the selected run.
LEMMA RunKept ==
  ASSUME TypeOK, TasksInv, PanelsInv, [Next]_vars,
         NEW t \in Refreshing, Fills(t), ~overlapped
  PROVE  selectedRunId' \in IF selectedRunId \in runsBody' THEN {selectedRunId}
                            ELSE Newest(runsBody')
<1>1. t \in Tasks /\ "runs" \in waiting[t] /\ "details" \in waiting'[t]
  BY DEF Fills, Refreshing, Live
<1>2. "details" \notin waiting[t]
  BY <1>1 DEF PanelsInv, RunsThenDetails
<1>3. RunsArrive(t)
  BY <1>1, <1>2, WaitingChanges
<1> DEFINE rows == FirstPage(asked[t])
<1>4. /\ runsBody' = runsBody \cup rows
      /\ selectedRunId' \in RunToSelect(rows, retained[t])
      /\ ~IsStale(asked[t])
  BY <1>3 DEF RunsArrive
<1>5. CASE selectedProjectId # None
  <2>1. runsBody = {} /\ retained[t] = selectedRunId
    BY <1>1, <1>5 DEF PanelsInv, PanelsShown, LoadsSelection, KeepsRun
  <2>2. runsBody' = rows
    BY <1>4, <2>1
  <2> HIDE DEF rows
  <2> QED
    BY <1>4, <2>1, <2>2 DEF RunToSelect
<1>6. CASE selectedProjectId = None
  <2>1. asked[t].project = None
    BY <1>4, <1>6 DEF IsStale
  <2>2. \A r \in stored : RunInfo[r].project # None
    BY TestPageConstants DEF TypeOK
  <2>3. rows = {}
    BY <2>1, <2>2 DEF FirstPage, Listed
  <2>4. RunToSelect({}, retained[t]) = {}
    BY DEF RunToSelect, Newest
  <2> QED
    BY <1>4, <2>3, <2>4
<1> QED
  BY <1>5, <1>6

-----------------------------------------------------------------------------

\* What all of it rests on.
PageInv == TypeOK /\ TasksInv /\ TimerInv /\ RefreshInv /\ RowsFollowSelection /\ PanelsInv

\* The page starts that way.
LEMMA PageInit ==
  ASSUME Init
  PROVE  PageInv
<1> USE TestPageConstants
<1>1. PICK first \in Tasks : pc = [t \in Tasks |-> IF t = first THEN "projects" ELSE "idle"]
  BY DEF Init
<1>2. /\ job = [t \in Tasks |-> IF t = first THEN "refresh" ELSE None]
      /\ waiting = [t \in Tasks |-> {}] /\ refreshInFlight = TRUE
  BY <1>1 DEF Init
<1>3. TypeOK
  BY <1>1, <1>2 DEF Init, TypeOK
<1>4. TasksInv
  <2>1. LocalsTyped
    BY <1>2 DEF Init, LocalsTyped
  <2>2. ASSUME NEW t \in Tasks
        PROVE  TaskInv(t)
    BY <1>1, <1>2 DEF TaskInv
  <2> QED
    BY <2>1, <2>2 DEF TasksInv
<1>5. TimerInv
  BY DEF Init, TimerInv
<1>6. RefreshInv
  <2>1. Refreshing = {first}
    BY <1>1, <1>2 DEF Refreshing, Live
  <2>2. \A t \in Tasks : pc[t] \in {"projects", "heatmap"} => t \in Refreshing
    BY <1>1, <2>1
  <2> QED
    BY <1>2, <2>1, <2>2 DEF RefreshInv
<1>7. RowsFollowSelection
  BY DEF Init, RowsFollowSelection
<1>8. PanelsInv
  <2>1. RunsThenDetails
    BY <1>2 DEF RunsThenDetails
  <2>2. \A t, u \in Live : t = u
    BY <1>1 DEF Live
  <2> QED
    BY <2>1, <2>2 DEF Init, PanelsInv, PanelsShown
<1> QED
  BY <1>3, <1>4, <1>5, <1>6, <1>7, <1>8 DEF PageInv

\* Every step keeps it that way.
LEMMA PageStep == PageInv /\ [Next]_vars => PageInv'
<1> SUFFICES ASSUME PageInv, [Next]_vars
             PROVE  PageInv'
  OBVIOUS
<1>1. TypeOK' /\ TasksInv'
  BY TypeStep DEF PageInv
<1>2. TimerInv'
  BY TimerStep DEF PageInv, TypeOK
<1>3. RefreshInv'
  BY FlagStep DEF PageInv
<1>4. RowsFollowSelection'
  BY RowsStep DEF PageInv
<1>5. PanelsInv'
  BY PanelsStep DEF PageInv
<1> QED
  BY <1>1, <1>2, <1>3, <1>4, <1>5 DEF PageInv

\* It always is.
LEMMA PageInvariant == Spec => []PageInv
<1>1. Init => PageInv
  BY PageInit
<1> QED
  BY <1>1, PageStep, PTL DEF Spec

\* Globals and tasks of the pages of the test runs keep their types, and at
\* each await a task has the locals its answer is handled with.
THEOREM PageTypes == Spec => [](TypeOK /\ TasksInv)
<1>1. PageInv => TypeOK /\ TasksInv
  BY DEF PageInv
<1> QED
  BY <1>1, PageInvariant, PTL

\* Two refreshes or reloads of a page are never under way at once, and the
\* flag they share tells whether one is: whatever the order in which buttons,
\* timeouts and answers come, with any number of handlers.
THEOREM OneRefreshAtATime == Spec => []RefreshesNeverOverlap
<1>1. ASSUME RefreshInv
      PROVE  RefreshesNeverOverlap
  <2>1. CASE Refreshing = {}
    <3>1. Cardinality(Refreshing) = 0
      BY <2>1, FS_EmptySet
    <3>2. Cardinality(Refreshing) <= 1
      BY <3>1
    <3> QED
      BY <1>1, <3>2 DEF RefreshesNeverOverlap, RefreshInv
  <2>2. CASE Refreshing # {}
    <3>1. PICK t \in Refreshing : Refreshing = {t}
      BY <1>1, <2>2 DEF RefreshInv
    <3>2. Cardinality(Refreshing) = 1
      BY <3>1, FS_Singleton
    <3>3. Cardinality(Refreshing) <= 1
      BY <3>2
    <3> QED
      BY <1>1, <3>3 DEF RefreshesNeverOverlap, RefreshInv
  <2> QED
    BY <2>1, <2>2
<1>2. PageInv => RefreshesNeverOverlap
  BY <1>1 DEF PageInv
<1> QED
  BY <1>2, PageInvariant, PTL

\* The automatic refresh of a page neither dies nor multiplies: at rest one
\* timeout is armed, the one the page knows of, and none when it is off.
THEOREM AutoRefreshSurvives == Spec => []AutoRefreshStaysArmed
<1>1. ASSUME TimerInv
      PROVE  AutoRefreshStaysArmed
  <2>1. CASE tracked
    <3>1. timeouts = 1
      BY <1>1, <2>1 DEF TimerInv
    <3>2. timeouts <= 1 /\ interval # "off"
      BY <1>1, <2>1, <3>1 DEF TimerInv
    <3> QED
      BY <2>1, <3>1, <3>2 DEF AutoRefreshStaysArmed
  <2>2. CASE ~tracked
    <3>1. timeouts = 0
      BY <1>1, <2>2 DEF TimerInv
    <3>2. timeouts <= 1
      BY <3>1
    <3>3. interval # "off" => refreshInFlight
      BY <1>1, <2>2 DEF TimerInv
    <3> QED
      BY <3>1, <3>2, <3>3 DEF AutoRefreshStaysArmed
  <2> QED
    BY <2>1, <2>2
<1>2. PageInv => AutoRefreshStaysArmed
  BY <1>1 DEF PageInv
<1> QED
  BY <1>2, PageInvariant, PTL

\* However answers overtake each other, the rows of the table are runs of the
\* selected project, branch and status, except while the branches of a project
\* just selected are awaited.
THEOREM TableFollowsSelection == Spec => []RowsFollowSelection
<1>1. PageInv => RowsFollowSelection
  BY DEF PageInv
<1> QED
  BY <1>1, PageInvariant, PTL

\* When all is loaded, and no task ran into the one that loaded the screen, the
\* failed specs are those of the selected run and the card tells of the selected
\* project and branch: for any number of handlers and any order of answers.
THEOREM PanelsShowSelection == Spec => []PanelsFollowSelection
<1>1. ASSUME PageInv
      PROVE  PanelsFollowSelection
  <2> SUFFICES ASSUME Live = {}, ~overlapped, selectedProjectId # None
               PROVE  /\ failedSpecsBody \subseteq {selectedRunId}
                      /\ duration \in {[project |-> selectedProjectId,
                                        branch |-> branchFilter], None}
    BY DEF PanelsFollowSelection
  <2>1. \A t \in Tasks : pc[t] = "idle" /\ waiting[t] = {}
    BY <1>1 DEF Live, PageInv, TasksInv, TaskInv, TypeOK
  <2>2. CardFollows /\ SpecsFollow
    BY <1>1 DEF PageInv, PanelsInv, PanelsShown
  <2> QED
    BY <2>1, <2>2 DEF CardFollows, SpecsFollow, AwaitsCard, AwaitsRuns
<1> QED
  BY <1>1, PageInvariant, PTL

\* A refresh or a reload nobody interferes with keeps the selected run as long as
\* it is on the page it lists, else it selects the newest.
THEOREM RefreshKeepsTheRun == Spec => RefreshKeepsRun
<1> DEFINE Keeps ==
      \A t \in Refreshing :
          Fills(t) /\ ~overlapped =>
            selectedRunId' \in IF selectedRunId \in runsBody' THEN {selectedRunId}
                               ELSE Newest(runsBody')
<1>1. PageInv /\ [Next]_vars => Keeps
  BY RunKept DEF PageInv
<1> HIDE DEF Keeps
<1>2. Spec => [][Keeps]_vars
  BY <1>1, PageInvariant, PTL DEF Spec
<1> QED
  BY <1>2 DEF RefreshKeepsRun, Keeps
=============================================================================
