---------------------------- MODULE DashboardProofs ----------------------------
(***************************************************************************)
(* The home page, for any number of handlers under way: refreshes exclude  *)
(* each other, the automatic refresh stays armed, a task that runs alone   *)
(* leaves panels that show the selection, and a refresh keeps it.          *)
(***************************************************************************)
EXTENDS Dashboard, FiniteSetTheorems, TLAPS

\* Where a task may be.
Awaits == {"idle", "projects", "branches", "panels", "comparison", "heatmap"}

-----------------------------------------------------------------------------
(* The timer of the automatic refresh. *)

\* A timer that is set again holds one timeout, or none when it is off.
LEMMA Schedules ==
  ASSUME TimerInv, NEW value \in Intervals, scheduleHomeAutoRefresh(value)
  PROVE  /\ timeouts' = (IF tracked' THEN 1 ELSE 0)
         /\ tracked' = (value # "off")
<1> DEFINE cleared == IF tracked THEN timeouts - 1 ELSE timeouts
<1>1. cleared = 0
  BY DEF TimerInv
<1>2. /\ timeouts' = IF value = "off" THEN cleared ELSE cleared + 1
      /\ tracked' = (value # "off")
  BY DEF scheduleHomeAutoRefresh
<1> HIDE DEF cleared
<1>3. CASE value = "off"
  <2>1. ~tracked' /\ timeouts' = 0
    BY <1>1, <1>2, <1>3
  <2> QED
    BY <1>2, <2>1
<1>4. CASE value # "off"
  <2>1. tracked'
    BY <1>2, <1>4
  <2>2. timeouts' = 1
    BY <1>1, <1>2, <1>4
  <2> QED
    BY <1>2, <2>1, <2>2
<1> QED
  BY <1>3, <1>4

\* The end of a refresh arms it.
LEMMA TimerEnds ==
  ASSUME TimerInv, EndRefresh
  PROVE  TimerInv'
<1>1. interval' = interval /\ scheduleHomeAutoRefresh(interval) /\ interval \in Intervals
  BY DEF EndRefresh, TimerInv
<1>2. timeouts' = (IF tracked' THEN 1 ELSE 0) /\ tracked' = (interval # "off")
  BY <1>1, Schedules
<1> QED
  BY <1>1, <1>2 DEF TimerInv

\* Every step keeps the timer.
LEMMA TimerStep ==
  ASSUME TimerInv, [Next]_vars
  PROVE  TimerInv'
<1>t. TimerInv
  OBVIOUS
<1>u. ASSUME UNCHANGED timer
      PROVE  TimerInv'
  BY <1>t, <1>u DEF timer, TimerInv
<1>1. ASSUME NEW value \in Intervals, ChangeInterval(value)
      PROVE  TimerInv'
  <2>1. interval' = value /\ UNCHANGED homeRefreshInFlight
    BY <1>1 DEF ChangeInterval
  <2>2. timeouts' = (IF tracked' THEN 1 ELSE 0) /\ tracked' = (value # "off")
    BY <1>1, <1>t, Schedules DEF ChangeInterval
  <2> QED
    BY <2>1, <2>2 DEF TimerInv
<1>2. ASSUME NEW t \in Tasks, Refresh(t)
      PROVE  TimerInv'
  <2>1. /\ homeRefreshInFlight' = TRUE /\ interval' = interval /\ tracked' = FALSE
        /\ timeouts' = IF tracked THEN timeouts - 1 ELSE timeouts
    BY <1>2 DEF Refresh, performHomeRefresh
  <2>2. timeouts' = 0
    BY <1>t, <2>1 DEF TimerInv
  <2> QED
    BY <1>t, <2>1, <2>2 DEF TimerInv
<1>3. ASSUME NEW t \in Tasks, TimeoutFires(t)
      PROVE  TimerInv'
  <2>1. /\ homeRefreshInFlight' = TRUE /\ interval' = interval /\ tracked' = FALSE
        /\ timeouts > 0 /\ timeouts' = timeouts - 1
    BY <1>3 DEF TimeoutFires, performHomeRefresh
  <2>2. timeouts' = 0
    BY <1>t, <2>1 DEF TimerInv
  <2> QED
    BY <1>t, <2>1, <2>2 DEF TimerInv
<1>4. CASE TimeoutFiresBusy
  BY <1>4, <1>t DEF TimeoutFiresBusy, TimerInv
<1>5. ASSUME NEW t \in Tasks, NEW project \in Projects, ChooseProject(t, project)
      PROVE  TimerInv'
  BY <1>5, <1>u DEF ChooseProject, StartsSelect
<1>6. ASSUME NEW t \in Tasks, NEW branch \in Branches \cup {None}, ChooseBranch(t, branch)
      PROVE  TimerInv'
  BY <1>6, <1>u DEF ChooseBranch
<1>7. CASE ChooseNone
  BY <1>7, <1>u DEF ChooseNone
<1>8. ASSUME NEW matching \in Matches, Search(matching)
      PROVE  TimerInv'
  BY <1>8, <1>u DEF Search
<1>9. ASSUME NEW matching \in Matches, ChangeGroup(matching)
      PROVE  TimerInv'
  BY <1>9, <1>u DEF ChangeGroup, StartsSelect
<1>10. ASSUME NEW t \in Tasks, Answer(t)
       PROVE  TimerInv'
  <2>1. CASE ProjectsFail(t) \/ HeatmapArrives(t)
    BY <1>t, <2>1, TimerEnds DEF ProjectsFail, HeatmapArrives
  <2>2. CASE UNCHANGED timer
    BY <1>u, <2>2
  <2> QED
    BY <1>10, <2>1, <2>2
       DEF Answer, ProjectsArrive, BranchesArrive, RunsArrive, TrendArrives, Answered,
           ComparisonArrives
<1>11. CASE UNCHANGED vars
  BY <1>11, <1>u DEF vars
<1> QED
  BY <1>1, <1>2, <1>3, <1>4, <1>5, <1>6, <1>7, <1>8, <1>9, <1>10, <1>11 DEF Next, UserEvent

-----------------------------------------------------------------------------
(* Types, and what a task awaits. *)

\* A handler that returns leaves the tasks right.
LEMMA Returned ==
  ASSUME TypeOK, TasksInv, NEW t \in Tasks, pc[t] # "panels", Return(t), UNCHANGED waiting
  PROVE  TasksInv' /\ pc' \in [Tasks -> Awaits]
<1>1. LocalsTyped'
  BY DEF TasksInv, LocalsTyped, Return
<1>2. ASSUME NEW u \in Tasks
      PROVE  TaskInv(u)'
  BY DEF TypeOK, TasksInv, LocalsTyped, TaskInv, Return, Goto
<1> QED
  BY <1>1, <1>2 DEF TasksInv, TypeOK, Return, Goto, Awaits

\* So does a refresh that goes on to the heatmap.
LEMMA SelectionEnded ==
  ASSUME TypeOK, TasksInv, NEW t \in Tasks, pc[t] # "panels", EndSelection(t),
         UNCHANGED waiting
  PROVE  TasksInv' /\ pc' \in [Tasks -> Awaits]
<1>1. LocalsTyped'
  BY DEF TasksInv, LocalsTyped, EndSelection
<1>2. ASSUME NEW u \in Tasks
      PROVE  TaskInv(u)'
  BY DEF TypeOK, TasksInv, LocalsTyped, TaskInv, EndSelection, Goto
<1> QED
  BY <1>1, <1>2 DEF TasksInv, TypeOK, EndSelection, Goto, Awaits

\* And a task that selects a project.
LEMMA Selects ==
  ASSUME TypeOK, TasksInv, NEW t \in Tasks, pc[t] # "panels", NEW project \in Projects,
         NEW reset \in BOOLEAN, selectProject(t, project, reset), UNCHANGED <<waiting, asked>>,
         job' \in [Tasks -> {None, "refresh", "select", "branch"}]
  PROVE  /\ TasksInv' /\ pc' \in [Tasks -> Awaits]
         /\ selectedProjectId' \in Projects /\ selectedBranch' \in Branches \cup {None}
         /\ UNCHANGED <<availableBranches, panels>>
<1>1. LocalsTyped'
  BY DEF TasksInv, LocalsTyped, selectProject
<1>2. ASSUME NEW u \in Tasks
      PROVE  TaskInv(u)'
  BY DEF TypeOK, TasksInv, LocalsTyped, TaskInv, selectProject, Goto
<1> QED
  BY <1>1, <1>2 DEF TasksInv, TypeOK, selectProject, Goto, Awaits

\* An answer of Promise.all.
LEMMA OneAnswered ==
  ASSUME TypeOK, TasksInv, NEW t \in Tasks, NEW panel, Answered(t, panel)
  PROVE  /\ TasksInv' /\ pc' \in [Tasks -> Awaits] /\ target[t] \in Projects
         /\ waiting' \in [Tasks -> SUBSET {"runs", "trend"}]
<1>1. /\ pc[t] = "panels" /\ panel \in waiting[t]
      /\ waiting' = [waiting EXCEPT ![t] = @ \ {panel}]
      /\ UNCHANGED <<job, target>>
  BY DEF Answered
<1>2. target[t] \in Projects
  BY <1>1 DEF TasksInv, TaskInv
<1>3. waiting' \in [Tasks -> SUBSET {"runs", "trend"}]
  BY <1>1 DEF TypeOK
<1>4. CASE waiting[t] = {panel}
  <2>1. pc' = [pc EXCEPT ![t] = "comparison"] /\ asked' = [asked EXCEPT ![t] = selectedBranch]
    BY <1>4 DEF Answered, Goto
  <2>2. LocalsTyped'
    BY <1>1, <2>1 DEF TypeOK, TasksInv, LocalsTyped
  <2>3. ASSUME NEW u \in Tasks
        PROVE  TaskInv(u)'
    BY <1>1, <1>4, <2>1 DEF TypeOK, TasksInv, TaskInv
  <2> QED
    BY <1>2, <1>3, <2>1, <2>2, <2>3 DEF TasksInv, TypeOK, Awaits
<1>5. CASE waiting[t] # {panel}
  <2>1. UNCHANGED <<pc, asked>>
    BY <1>5 DEF Answered
  <2>2. LocalsTyped'
    BY <1>1, <2>1 DEF TasksInv, LocalsTyped
  <2>3. ASSUME NEW u \in Tasks
        PROVE  TaskInv(u)'
    BY <1>1, <1>5, <2>1 DEF TypeOK, TasksInv, TaskInv
  <2> QED
    BY <1>2, <1>3, <2>1, <2>2, <2>3 DEF TasksInv, TypeOK, Awaits
<1> QED
  BY <1>4, <1>5

\* Every step keeps the types and what tasks await.
LEMMA TypeStep ==
  ASSUME TypeOK, TasksInv, TimerInv, [Next]_vars
  PROVE  TypeOK' /\ TasksInv'
<1>t. TypeOK /\ TasksInv
  OBVIOUS
<1>n. timeouts' \in Nat
  <2>1. TimerInv'
    BY TimerStep
  <2> QED
    BY <2>1 DEF TimerInv
<1> USE PageConstants
\* The panels, the page or the tasks stay.
<1>p. ASSUME UNCHANGED panels
      PROVE  /\ trendRequestSequence' \in Tasks \cup {None}
             /\ trendChart' \in Projects \cup {None} /\ runsBody' \subseteq Projects
             /\ comparison' \in [project: Projects, branch: Branches \cup {None}] \cup {None}
  BY <1>t, <1>p DEF TypeOK, panels
<1>s. ASSUME UNCHANGED <<selectedProjectId, selectedBranch, availableBranches>>
      PROVE  /\ selectedProjectId' \in Projects \cup {None}
             /\ selectedBranch' \in Branches \cup {None} /\ availableBranches' \subseteq Branches
  BY <1>t, <1>s DEF TypeOK
<1>k. ASSUME UNCHANGED tasks
      PROVE  TasksInv' /\ pc' \in [Tasks -> Awaits]
             /\ waiting' \in [Tasks -> SUBSET {"runs", "trend"}]
  <2>1. LocalsTyped'
    BY <1>t, <1>k DEF tasks, TasksInv, LocalsTyped
  <2>2. ASSUME NEW u \in Tasks
        PROVE  TaskInv(u)'
    BY <1>t, <1>k DEF tasks, TasksInv, TaskInv
  <2> QED
    BY <1>t, <1>k, <2>1, <2>2 DEF tasks, TypeOK, TasksInv, Awaits
<1>c. ASSUME clearSelection
      PROVE  /\ trendRequestSequence' \in Tasks \cup {None}
             /\ trendChart' \in Projects \cup {None} /\ runsBody' \subseteq Projects
             /\ comparison' \in [project: Projects, branch: Branches \cup {None}] \cup {None}
             /\ selectedProjectId' \in Projects \cup {None}
             /\ selectedBranch' \in Branches \cup {None} /\ availableBranches' \subseteq Branches
  BY <1>t, <1>c DEF clearSelection, TypeOK
<1>1. ASSUME NEW value \in Intervals, ChangeInterval(value)
      PROVE  TypeOK' /\ TasksInv'
  <2>1. UNCHANGED <<page, panels, tasks, homeRefreshInFlight>>
    BY <1>1 DEF ChangeInterval
  <2> QED
    BY <1>t, <1>n, <1>p, <1>s, <1>k, <2>1 DEF page, TypeOK, Awaits
<1>2. ASSUME NEW t \in Tasks, performHomeRefresh(t)
      PROVE  TypeOK' /\ TasksInv'
  <2>1. /\ pc[t] = "idle" /\ pc' = [pc EXCEPT ![t] = "projects"]
        /\ job' = [job EXCEPT ![t] = "refresh"]
        /\ UNCHANGED <<page, panels, target, waiting, asked>> /\ homeRefreshInFlight' = TRUE
    BY <1>2 DEF performHomeRefresh, Goto
  <2>2. LocalsTyped'
    BY <1>t, <2>1 DEF TasksInv, LocalsTyped
  <2>3. ASSUME NEW u \in Tasks
        PROVE  TaskInv(u)'
    BY <1>t, <2>1 DEF TypeOK, TasksInv, TaskInv
  <2>4. TypeOK'
    BY <1>t, <1>n, <1>p, <1>s, <2>1 DEF page, TypeOK
  <2> QED
    BY <2>2, <2>3, <2>4 DEF TasksInv
<1>3. ASSUME NEW t \in Tasks, NEW project \in Projects, StartsSelect(t),
             selectProject(t, project, TRUE), allProjects' = allProjects
      PROVE  TypeOK' /\ TasksInv'
  <2>1. /\ pc[t] # "panels" /\ UNCHANGED <<waiting, asked>> /\ UNCHANGED homeRefreshInFlight
        /\ job' \in [Tasks -> {None, "refresh", "select", "branch"}]
    BY <1>t, <1>3 DEF StartsSelect, timer, TasksInv, LocalsTyped
  <2>2. /\ TasksInv' /\ pc' \in [Tasks -> Awaits]
        /\ selectedProjectId' \in Projects /\ selectedBranch' \in Branches \cup {None}
        /\ UNCHANGED <<availableBranches, panels>>
    BY <1>t, <1>3, <2>1, Selects
  <2> QED
    BY <1>t, <1>n, <1>p, <1>3, <2>1, <2>2 DEF TypeOK, Awaits
<1>4. ASSUME NEW t \in Tasks, NEW project \in Projects, ChooseProject(t, project)
      PROVE  TypeOK' /\ TasksInv'
  BY <1>3, <1>4 DEF ChooseProject
<1>5. ASSUME NEW t \in Tasks, NEW branch \in Branches \cup {None}, ChooseBranch(t, branch)
      PROVE  TypeOK' /\ TasksInv'
  <2>1. /\ pc[t] = "idle" /\ pc' = [pc EXCEPT ![t] = "comparison"]
        /\ job' = [job EXCEPT ![t] = "branch"] /\ asked' = [asked EXCEPT ![t] = branch]
        /\ target' = [target EXCEPT ![t] = selectedProjectId] /\ selectedProjectId \in Projects
        /\ selectedBranch' = branch
        /\ UNCHANGED <<waiting, allProjects, selectedProjectId, availableBranches>>
        /\ UNCHANGED panels /\ UNCHANGED homeRefreshInFlight
    BY <1>t, <1>5 DEF ChooseBranch, Goto, TypeOK, panels, timer
  <2>2. LocalsTyped'
    BY <1>t, <2>1 DEF TasksInv, LocalsTyped
  <2>3. ASSUME NEW u \in Tasks
        PROVE  TaskInv(u)'
    BY <1>t, <2>1 DEF TypeOK, TasksInv, LocalsTyped, TaskInv
  <2>4. TypeOK'
    BY <1>t, <1>n, <1>p, <2>1 DEF TypeOK
  <2> QED
    BY <2>2, <2>3, <2>4 DEF TasksInv
<1>6. CASE ChooseNone
  <2>1. UNCHANGED <<allProjects, tasks, homeRefreshInFlight>> /\ clearSelection
    BY <1>6 DEF ChooseNone, timer
  <2> QED
    BY <1>t, <1>n, <1>c, <1>k, <2>1 DEF TypeOK, Awaits
<1>7. ASSUME NEW matching \in Matches, Search(matching)
      PROVE  TypeOK' /\ TasksInv'
  <2>1. /\ UNCHANGED <<selectedProjectId, selectedBranch, availableBranches>>
        /\ UNCHANGED <<allProjects, panels, tasks, homeRefreshInFlight>>
    BY <1>7 DEF Search, timer
  <2> QED
    BY <1>t, <1>n, <1>p, <1>s, <1>k, <2>1 DEF TypeOK, Awaits
<1>8. ASSUME NEW matching \in Matches, ChangeGroup(matching)
      PROVE  TypeOK' /\ TasksInv'
  <2>1. CASE /\ UNCHANGED <<selectedProjectId, selectedBranch, availableBranches>>
             /\ UNCHANGED <<panels, timer, tasks>>
    <3>1. UNCHANGED <<allProjects, homeRefreshInFlight>>
      BY <1>8, <2>1 DEF ChangeGroup, timer
    <3> QED
      BY <1>t, <1>n, <1>p, <1>s, <1>k, <2>1, <3>1 DEF TypeOK, Awaits
  <2>2. CASE clearSelection /\ UNCHANGED <<timer, tasks>>
    <3>1. UNCHANGED <<allProjects, homeRefreshInFlight>>
      BY <1>8, <2>2 DEF ChangeGroup, timer
    <3> QED
      BY <1>t, <1>n, <1>c, <1>k, <2>2, <3>1 DEF TypeOK, Awaits
  <2>3. ASSUME NEW t \in Tasks, NEW first \in allProjects \cap matching,
               StartsSelect(t), selectProject(t, first, TRUE)
        PROVE  TypeOK' /\ TasksInv'
    BY <1>t, <1>3, <1>8, <2>3 DEF ChangeGroup, TypeOK
  <2> QED
    BY <1>8, <2>1, <2>2, <2>3, Zenon DEF ChangeGroup
<1>9. ASSUME NEW t \in Tasks, NEW catalog \in Catalogs, ProjectsArrive(t, catalog)
      PROVE  TypeOK' /\ TasksInv'
  <2>1. /\ pc[t] # "panels" /\ allProjects' \subseteq Projects /\ UNCHANGED waiting
        /\ UNCHANGED homeRefreshInFlight
    BY <1>t, <1>9 DEF ProjectsArrive, timer
  <2>2. CASE clearSelection /\ EndSelection(t)
    BY <1>t, <1>n, <1>c, <2>1, <2>2, SelectionEnded DEF TypeOK, Awaits
  <2>3. ASSUME NEW next \in Projects, NEW reset \in BOOLEAN, selectProject(t, next, reset),
               UNCHANGED <<job, asked>>
        PROVE  TypeOK' /\ TasksInv'
    <3>1. /\ TasksInv' /\ pc' \in [Tasks -> Awaits]
          /\ selectedProjectId' \in Projects /\ selectedBranch' \in Branches \cup {None}
          /\ UNCHANGED <<availableBranches, panels>>
      BY <1>t, <2>1, <2>3, Selects DEF TasksInv, LocalsTyped
    <3> QED
      BY <1>t, <1>n, <1>p, <2>1, <3>1 DEF TypeOK, Awaits
  <2>4. NextSelected(catalog \cap match) \subseteq Projects
    BY DEF NextSelected
  <2>5. CASE \E next \in NextSelected(catalog \cap match) :
                /\ selectProject(t, next, next # selectedProjectId)
                /\ UNCHANGED <<job, asked>>
    <3>1. PICK next \in NextSelected(catalog \cap match) :
                /\ selectProject(t, next, next # selectedProjectId)
                /\ UNCHANGED <<job, asked>>
      BY <2>5
    <3>2. next \in Projects /\ (next # selectedProjectId) \in BOOLEAN
      BY <2>4
    <3> QED
      BY <2>3, <3>1, <3>2
  <2> QED
    BY <1>9, <2>2, <2>5, Zenon DEF ProjectsArrive
<1>10. ASSUME NEW t \in Tasks, ProjectsFail(t) \/ HeatmapArrives(t)
       PROVE  TypeOK' /\ TasksInv'
  <2>1. /\ pc[t] # "panels" /\ Return(t) /\ UNCHANGED <<page, panels>> /\ UNCHANGED waiting
        /\ homeRefreshInFlight' = FALSE
    BY <1>10 DEF ProjectsFail, HeatmapArrives, EndRefresh
  <2> QED
    BY <1>t, <1>n, <1>p, <1>s, <2>1, Returned DEF page, TypeOK, Awaits
<1>11. ASSUME NEW t \in Tasks, BranchesArrive(t)
       PROVE  TypeOK' /\ TasksInv'
  <2>1. /\ pc[t] = "branches" /\ pc' = [pc EXCEPT ![t] = "panels"]
        /\ waiting' = [waiting EXCEPT ![t] = {"runs", "trend"}]
        /\ runsBody' = {} /\ trendRequestSequence' = t
        /\ UNCHANGED <<allProjects, selectedProjectId, trendChart, comparison, job, target, asked>>
        /\ UNCHANGED homeRefreshInFlight
    BY <1>11 DEF BranchesArrive, EmptiedRuns, Goto, timer
  <2>2. target[t] \in Projects
    BY <1>t, <2>1 DEF TasksInv, TaskInv
  <2>3. availableBranches' \subseteq Branches /\ selectedBranch' \in Branches \cup {None}
    BY <1>t, <1>11, <2>2 DEF BranchesArrive, TypeOK
  <2>4. TypeOK'
    BY <1>t, <1>n, <2>1, <2>3 DEF TypeOK
  <2>5. LocalsTyped'
    BY <1>t, <2>1 DEF TasksInv, LocalsTyped
  <2>6. ASSUME NEW u \in Tasks
        PROVE  TaskInv(u)'
    BY <1>t, <2>1, <2>2 DEF TypeOK, TasksInv, TaskInv
  <2> QED
    BY <2>4, <2>5, <2>6 DEF TasksInv
<1>12. ASSUME NEW t \in Tasks, NEW panel, Answered(t, panel),
              trendRequestSequence' \in Tasks \cup {None}, trendChart' \in Projects \cup {None},
              runsBody' \subseteq Projects
       PROVE  TypeOK' /\ TasksInv'
  <2>1. UNCHANGED <<page, comparison, homeRefreshInFlight>>
    BY <1>12 DEF Answered, timer
  <2>2. /\ TasksInv' /\ pc' \in [Tasks -> Awaits]
        /\ waiting' \in [Tasks -> SUBSET {"runs", "trend"}]
    BY <1>t, <1>12, OneAnswered
  <2> QED
    BY <1>t, <1>n, <1>12, <1>s, <2>1, <2>2 DEF page, TypeOK, Awaits
<1>13. ASSUME NEW t \in Tasks, RunsArrive(t)
       PROVE  TypeOK' /\ TasksInv'
  <2>1. Answered(t, "runs") /\ UNCHANGED <<trendRequestSequence, trendChart>>
    BY <1>13 DEF RunsArrive
  <2>2. target[t] \in Projects
    BY <1>t, <2>1, OneAnswered
  <2>3. runsBody' \subseteq Projects
    BY <1>t, <1>13, <2>2 DEF RunsArrive, TypeOK
  <2> QED
    BY <1>t, <1>12, <2>1, <2>3 DEF TypeOK
<1>14. ASSUME NEW t \in Tasks, TrendArrives(t)
       PROVE  TypeOK' /\ TasksInv'
  <2>1. Answered(t, "trend") /\ UNCHANGED runsBody
    BY <1>14 DEF TrendArrives
  <2>2. target[t] \in Projects
    BY <1>t, <2>1, OneAnswered
  <2>3. trendChart' \in Projects \cup {None} /\ trendRequestSequence' \in Tasks \cup {None}
    BY <1>t, <1>14, <2>2 DEF TrendArrives, TypeOK
  <2> QED
    BY <1>t, <1>12, <2>1, <2>3 DEF TypeOK
<1>15. ASSUME NEW t \in Tasks, ComparisonArrives(t)
       PROVE  TypeOK' /\ TasksInv'
  <2>1. /\ pc[t] = "comparison" /\ UNCHANGED <<page, trendRequestSequence, trendChart, runsBody>>
        /\ UNCHANGED homeRefreshInFlight /\ UNCHANGED waiting
        /\ EndSelection(t) \/ Return(t)
    BY <1>15 DEF ComparisonArrives, timer
  <2>2. target[t] \in Projects /\ asked[t] \in Branches \cup {None}
    BY <1>t, <2>1 DEF TasksInv, TaskInv, LocalsTyped
  <2>3. comparison' \in [project: Projects, branch: Branches \cup {None}] \cup {None}
    BY <1>15, <2>2 DEF ComparisonArrives
  <2>4. TasksInv' /\ pc' \in [Tasks -> Awaits]
    BY <1>t, <2>1, Returned, SelectionEnded
  <2> QED
    BY <1>t, <1>n, <1>s, <2>1, <2>3, <2>4 DEF page, TypeOK, Awaits
<1>16. CASE TimeoutFiresBusy
  <2>1. UNCHANGED <<page, panels, tasks, homeRefreshInFlight>>
    BY <1>16 DEF TimeoutFiresBusy
  <2> QED
    BY <1>t, <1>n, <1>p, <1>s, <1>k, <2>1 DEF page, TypeOK, Awaits
<1>17. CASE UNCHANGED vars
  <2>1. UNCHANGED <<page, panels, tasks, homeRefreshInFlight>>
    BY <1>17 DEF vars, timer
  <2> QED
    BY <1>t, <1>n, <1>p, <1>s, <1>k, <2>1 DEF page, TypeOK, Awaits
<1> QED
  BY <1>1, <1>2, <1>4, <1>5, <1>6, <1>7, <1>8, <1>9, <1>10, <1>11, <1>13, <1>14, <1>15, <1>16,
     <1>17 DEF Next, UserEvent, Answer, Refresh, TimeoutFires

-----------------------------------------------------------------------------
(* The flag of the refresh. *)

\* The flag stays right while refreshing tasks stay.
LEMMA FlagKept ==
  ASSUME RefreshInv, Refreshing' = Refreshing, UNCHANGED homeRefreshInFlight,
         \A t \in Tasks : pc'[t] \in {"projects", "heatmap"} => t \in Refreshing
  PROVE  RefreshInv'
BY DEF RefreshInv

\* Another handler begins.
LEMMA OtherBegins ==
  ASSUME RefreshInv, LocalsTyped, pc \in [Tasks -> Awaits], NEW t \in Tasks, pc[t] = "idle",
         NEW await \in {"branches", "comparison"}, NEW handler \in {"select", "branch"},
         pc' = [pc EXCEPT ![t] = await], job' = [job EXCEPT ![t] = handler],
         UNCHANGED homeRefreshInFlight
  PROVE  RefreshInv'
<1>1. Refreshing' = Refreshing
  BY DEF Refreshing, Live, LocalsTyped
<1>2. \A u \in Tasks : pc'[u] \in {"projects", "heatmap"} => u \in Refreshing
  BY DEF RefreshInv
<1> QED
  BY <1>1, <1>2, FlagKept

\* A task goes on to another await.
LEMMA TaskMoves ==
  ASSUME RefreshInv, pc \in [Tasks -> Awaits], NEW t \in Tasks, pc[t] # "idle",
         NEW await \in Awaits \ {"idle"}, await \in {"projects", "heatmap"} => t \in Refreshing,
         pc' = [pc EXCEPT ![t] = await], UNCHANGED <<job, homeRefreshInFlight>>
  PROVE  RefreshInv'
<1>1. Refreshing' = Refreshing
  BY DEF Refreshing, Live
<1>2. \A u \in Tasks : pc'[u] \in {"projects", "heatmap"} => u \in Refreshing
  BY DEF RefreshInv
<1> QED
  BY <1>1, <1>2, FlagKept

\* A refresh begins: none is under way.
LEMMA RefreshBegins ==
  ASSUME RefreshInv, LocalsTyped, pc \in [Tasks -> Awaits], NEW t \in Tasks,
         performHomeRefresh(t)
  PROVE  RefreshInv'
<1>1. /\ homeRefreshInFlight = FALSE /\ homeRefreshInFlight' = TRUE
      /\ pc' = [pc EXCEPT ![t] = "projects"] /\ job' = [job EXCEPT ![t] = "refresh"]
  BY DEF performHomeRefresh, MayRefresh, Goto, RefreshInv
<1>2. Refreshing = {}
  BY <1>1 DEF RefreshInv
<1>3. Refreshing' = {t}
  BY <1>1, <1>2 DEF Refreshing, Live, LocalsTyped
<1>4. \A u \in Tasks : pc'[u] \in {"projects", "heatmap"} => u \in Refreshing'
  BY <1>1, <1>2, <1>3 DEF RefreshInv
<1> QED
  BY <1>1, <1>3, <1>4 DEF RefreshInv

\* It ends: it was the only one.
LEMMA RefreshReturns ==
  ASSUME RefreshInv, LocalsTyped, pc \in [Tasks -> Awaits], NEW t \in Refreshing,
         Return(t), EndRefresh
  PROVE  RefreshInv'
<1>1. /\ homeRefreshInFlight' = FALSE /\ t \in Tasks
      /\ pc' = [pc EXCEPT ![t] = "idle"] /\ job' = [job EXCEPT ![t] = None]
  BY DEF Return, Goto, EndRefresh, Refreshing, Live
<1>2. Refreshing = {t}
  BY DEF RefreshInv
<1>3. Refreshing' = {}
  BY <1>1, <1>2 DEF Refreshing, Live, LocalsTyped
<1>4. \A u \in Tasks : pc'[u] \notin {"projects", "heatmap"}
  BY <1>1, <1>2 DEF RefreshInv
<1> QED
  BY <1>1, <1>3, <1>4 DEF RefreshInv

\* A handler that is not a refresh ends.
LEMMA OtherReturns ==
  ASSUME RefreshInv, LocalsTyped, pc \in [Tasks -> Awaits], NEW t \in Tasks,
         job[t] # "refresh", Return(t), UNCHANGED homeRefreshInFlight
  PROVE  RefreshInv'
<1>1. pc' = [pc EXCEPT ![t] = "idle"] /\ job' = [job EXCEPT ![t] = None]
  BY DEF Return, Goto
<1>2. Refreshing' = Refreshing
  BY <1>1 DEF Refreshing, Live, LocalsTyped
<1>3. \A u \in Tasks : pc'[u] \in {"projects", "heatmap"} => u \in Refreshing
  BY <1>1 DEF RefreshInv
<1> QED
  BY <1>2, <1>3, FlagKept

\* Every step keeps the flag.
LEMMA FlagStep ==
  ASSUME RefreshInv, TypeOK, TasksInv, [Next]_vars
  PROVE  RefreshInv'
<1>t. RefreshInv /\ LocalsTyped /\ pc \in [Tasks -> Awaits]
  BY DEF TypeOK, TasksInv, Awaits
<1>u. ASSUME UNCHANGED <<pc, job, homeRefreshInFlight>>
      PROVE  RefreshInv'
  BY <1>t, <1>u, FlagKept DEF RefreshInv, Refreshing, Live
<1>a. {"panels", "branches", "comparison", "heatmap"} \subseteq Awaits \ {"idle"}
  BY DEF Awaits
<1>s. ASSUME NEW t \in Tasks, NEW project, StartsSelect(t), selectProject(t, project, TRUE)
      PROVE  RefreshInv'
  <2>1. /\ pc[t] = "idle" /\ pc' = [pc EXCEPT ![t] = "branches"]
        /\ job' = [job EXCEPT ![t] = "select"] /\ UNCHANGED homeRefreshInFlight
    BY <1>s DEF StartsSelect, selectProject, Goto, timer
  <2> QED
    BY <1>t, <2>1, OtherBegins
<1>1. ASSUME NEW value \in Intervals, ChangeInterval(value)
      PROVE  RefreshInv'
  BY <1>1, <1>u DEF ChangeInterval, tasks
<1>2. ASSUME NEW t \in Tasks, performHomeRefresh(t)
      PROVE  RefreshInv'
  BY <1>2, <1>t, RefreshBegins
<1>3. ASSUME NEW t \in Tasks, NEW project \in Projects, ChooseProject(t, project)
      PROVE  RefreshInv'
  BY <1>3, <1>s DEF ChooseProject
<1>4. ASSUME NEW t \in Tasks, NEW branch \in Branches \cup {None}, ChooseBranch(t, branch)
      PROVE  RefreshInv'
  <2>1. /\ pc[t] = "idle" /\ pc' = [pc EXCEPT ![t] = "comparison"]
        /\ job' = [job EXCEPT ![t] = "branch"] /\ UNCHANGED homeRefreshInFlight
    BY <1>4 DEF ChooseBranch, Goto, timer
  <2> QED
    BY <1>t, <2>1, OtherBegins
<1>5. CASE ChooseNone
  BY <1>5, <1>u DEF ChooseNone, tasks, timer
<1>6. ASSUME NEW matching \in Matches, Search(matching)
      PROVE  RefreshInv'
  BY <1>6, <1>u DEF Search, tasks, timer
<1>7. ASSUME NEW matching \in Matches, ChangeGroup(matching)
      PROVE  RefreshInv'
  <2>1. CASE UNCHANGED <<timer, tasks>>
    BY <1>u, <2>1 DEF tasks, timer
  <2>2. ASSUME NEW t \in Tasks, NEW first, StartsSelect(t), selectProject(t, first, TRUE)
        PROVE  RefreshInv'
    BY <1>s, <2>2, Zenon
  <2> QED
    BY <1>7, <2>1, <2>2, Zenon DEF ChangeGroup
<1>8. ASSUME NEW t \in Tasks, NEW catalog \in Catalogs, ProjectsArrive(t, catalog)
      PROVE  RefreshInv'
  <2>1. pc[t] = "projects" /\ UNCHANGED homeRefreshInFlight
    BY <1>8 DEF ProjectsArrive, timer
  <2>2. t \in Refreshing
    BY <1>t, <2>1 DEF RefreshInv
  <2>3. CASE EndSelection(t)
    <3>1. pc' = [pc EXCEPT ![t] = "heatmap"] /\ UNCHANGED job
      BY <2>3 DEF EndSelection, Goto
    <3> QED
      BY <1>t, <1>a, <2>1, <2>2, <3>1, TaskMoves
  <2>4. ASSUME NEW next, NEW reset, selectProject(t, next, reset), UNCHANGED job
        PROVE  RefreshInv'
    <3>1. pc' = [pc EXCEPT ![t] = "branches"]
      BY <2>4 DEF selectProject, Goto
    <3> QED
      BY <1>t, <1>a, <2>1, <2>4, <3>1, TaskMoves
  <2> QED
    BY <1>8, <2>3, <2>4, Zenon DEF ProjectsArrive
<1>9. ASSUME NEW t \in Tasks, ProjectsFail(t) \/ HeatmapArrives(t)
      PROVE  RefreshInv'
  <2>1. Return(t) /\ EndRefresh /\ t \in Refreshing
    BY <1>t, <1>9 DEF ProjectsFail, HeatmapArrives, RefreshInv
  <2> QED
    BY <1>t, <2>1, RefreshReturns
<1>10. ASSUME NEW t \in Tasks, BranchesArrive(t)
       PROVE  RefreshInv'
  <2>1. /\ pc[t] = "branches" /\ pc' = [pc EXCEPT ![t] = "panels"]
        /\ UNCHANGED <<job, homeRefreshInFlight>>
    BY <1>10 DEF BranchesArrive, Goto, timer
  <2> QED
    BY <1>t, <1>a, <2>1, TaskMoves
<1>11. ASSUME NEW t \in Tasks, NEW panel, Answered(t, panel)
       PROVE  RefreshInv'
  <2>1. pc[t] = "panels" /\ UNCHANGED <<job, homeRefreshInFlight>>
    BY <1>11 DEF Answered, timer
  <2>2. CASE pc' = [pc EXCEPT ![t] = "comparison"]
    BY <1>t, <1>a, <2>1, <2>2, TaskMoves
  <2>3. CASE pc' = pc
    BY <1>u, <2>1, <2>3
  <2> QED
    BY <1>11, <2>2, <2>3 DEF Answered, Goto
<1>12. ASSUME NEW t \in Tasks, ComparisonArrives(t)
       PROVE  RefreshInv'
  <2>1. pc[t] = "comparison" /\ UNCHANGED homeRefreshInFlight
    BY <1>12 DEF ComparisonArrives, timer
  <2>2. CASE job[t] = "refresh"
    <3>1. pc' = [pc EXCEPT ![t] = "heatmap"] /\ UNCHANGED job
      BY <1>12, <2>2 DEF ComparisonArrives, EndSelection, Goto
    <3>2. t \in Refreshing
      BY <2>1, <2>2 DEF Refreshing, Live
    <3> QED
      BY <1>t, <1>a, <2>1, <3>1, <3>2, TaskMoves
  <2>3. CASE job[t] # "refresh"
    BY <1>t, <1>12, <2>1, <2>3, OtherReturns DEF ComparisonArrives
  <2> QED
    BY <2>2, <2>3
<1>13. CASE TimeoutFiresBusy
  BY <1>13, <1>u DEF TimeoutFiresBusy, tasks
<1>14. CASE UNCHANGED vars
  BY <1>14, <1>u DEF vars, tasks, timer
<1>15. ASSUME NEW t \in Tasks, Answer(t)
       PROVE  RefreshInv'
  BY <1>15, <1>8, <1>9, <1>10, <1>11, <1>12, Zenon DEF Answer, RunsArrive, TrendArrives
<1> QED
  BY <1>1, <1>2, <1>3, <1>4, <1>5, <1>6, <1>7, <1>13, <1>14, <1>15
     DEF Next, UserEvent, Refresh, TimeoutFires

-----------------------------------------------------------------------------
(* The panels. *)

\* The panels and the tasks that fill them stay.
LEMMA PanelsKept ==
  ASSUME PanelsInv, UNCHANGED <<panels, tasks, overlapped>>,
         UNCHANGED <<selectedProjectId, selectedBranch>>
  PROVE  PanelsInv'
BY DEF PanelsInv, panels, tasks, Live, LoadsSelection, ChartFollows, RunsFollow,
       ComparisonFollows, AwaitsBranches, AwaitsTrend, AwaitsComparison

\* Nothing is selected any more.
LEMMA PanelsCleared ==
  ASSUME PanelsInv, clearSelection, UNCHANGED overlapped, Live' \subseteq Live
  PROVE  PanelsInv'
BY DEF PanelsInv, clearSelection

\* A task that selects a project while no other runs will fill all panels.
LEMMA PanelsAwaited ==
  ASSUME pc \in [Tasks -> Awaits], LocalsTyped, NEW t \in Tasks, NEW project, NEW reset,
         selectProject(t, project, reset)
  PROVE  PanelsInv'
<1> SUFFICES ASSUME ~overlapped'
             PROVE  /\ \A u, v \in Live' : u = v
                    /\ (\A u \in Tasks : LoadsSelection(u))'
                    /\ ChartFollows' /\ RunsFollow' /\ ComparisonFollows'
  BY DEF PanelsInv
<1>1. /\ pc' = [pc EXCEPT ![t] = "branches"] /\ target' = [target EXCEPT ![t] = project]
      /\ selectedProjectId' = project /\ Live \ {t} = {}
  BY DEF selectProject, Goto
<1>2. pc'[t] = "branches" /\ target'[t] = project
  BY <1>1 DEF LocalsTyped
<1>3. \A u \in Tasks \ {t} : pc'[u] = "idle"
  BY <1>1 DEF Live
<1>4. \A u, v \in Live' : u = v
  BY <1>3 DEF Live
<1>5. ASSUME NEW u \in Tasks
      PROVE  LoadsSelection(u)'
  BY <1>1, <1>2, <1>3 DEF LoadsSelection, AwaitsComparison
<1>6. ChartFollows' /\ RunsFollow' /\ ComparisonFollows'
  BY <1>2 DEF ChartFollows, RunsFollow, ComparisonFollows, AwaitsBranches, AwaitsTrend,
              AwaitsComparison
<1> QED
  BY <1>4, <1>5, <1>6

\* A task begins or ends, and loads no panel; when it begins, no other runs.
LEMMA PanelsStay ==
  ASSUME PanelsInv, pc \in [Tasks -> Awaits], NEW t \in Tasks,
         NEW await \in {"idle", "projects"}, pc[t] \in {"idle", "projects", "heatmap"},
         pc' = [pc EXCEPT ![t] = await],
         ~overlapped' => ~overlapped /\ (await # "idle" => Live = {}),
         \A u \in Tasks \ {t} : target'[u] = target[u] /\ asked'[u] = asked[u],
         UNCHANGED <<panels, waiting, selectedProjectId, selectedBranch>>
  PROVE  PanelsInv'
<1> SUFFICES ASSUME ~overlapped'
             PROVE  /\ \A u, v \in Live' : u = v
                    /\ selectedProjectId' # None =>
                          /\ (\A u \in Tasks : LoadsSelection(u))'
                          /\ ChartFollows' /\ RunsFollow' /\ ComparisonFollows'
  BY DEF PanelsInv
<1>1. ~overlapped /\ (await # "idle" => Live = {})
  OBVIOUS
<1>2. \A u, v \in Live' : u = v
  BY <1>1 DEF PanelsInv, Live
<1>3. ASSUME NEW u \in Tasks
      PROVE  /\ AwaitsBranches(u)' <=> AwaitsBranches(u)
             /\ AwaitsTrend(u)' <=> AwaitsTrend(u)
             /\ AwaitsComparison(u)' <=> AwaitsComparison(u)
  BY DEF AwaitsBranches, AwaitsTrend, AwaitsComparison
<1>4. ASSUME NEW u \in Tasks, LoadsSelection(u)
      PROVE  LoadsSelection(u)'
  <2>1. CASE u = t
    BY <2>1 DEF LoadsSelection, AwaitsComparison
  <2>2. CASE u # t
    BY <1>4, <2>2 DEF LoadsSelection, AwaitsComparison, panels
  <2> QED
    BY <2>1, <2>2
<1>5. ASSUME selectedProjectId' # None
      PROVE  /\ (\A u \in Tasks : LoadsSelection(u))'
             /\ ChartFollows' /\ RunsFollow' /\ ComparisonFollows'
  BY <1>1, <1>3, <1>4, <1>5 DEF PanelsInv, ChartFollows, RunsFollow, ComparisonFollows, panels
<1> QED
  BY <1>2, <1>5

\* A task whose answer arrives while it runs alone.
LEMMA Alone ==
  ASSUME PanelsInv, ~overlapped, NEW t \in Tasks, pc[t] # "idle"
  PROVE  \A u \in Tasks \ {t} : pc[u] = "idle"
BY DEF PanelsInv, Live

\* What is to be shown about a task that runs alone.
LEMMA PanelsOfOne ==
  ASSUME NEW t \in Tasks, \A u \in Tasks \ {t} : pc'[u] = "idle",
         selectedProjectId' # None =>
             LoadsSelection(t)' /\ ChartFollows' /\ RunsFollow' /\ ComparisonFollows'
  PROVE  PanelsInv'
<1>1. \A u, v \in Live' : u = v
  BY DEF Live
<1>2. \A u \in Tasks \ {t} : LoadsSelection(u)'
  BY DEF LoadsSelection, AwaitsComparison
<1> QED
  BY <1>1, <1>2 DEF PanelsInv

\* The branches arrive at a task that runs alone: it goes on to the runs and
\* the trend of the selected project.
LEMMA PanelsLoaded ==
  ASSUME PanelsInv, TypeOK, TasksInv, NEW t \in Tasks, BranchesArrive(t)
  PROVE  PanelsInv'
<1> SUFFICES ASSUME ~overlapped'
             PROVE  PanelsInv'
  BY DEF PanelsInv
<1>1. /\ pc[t] = "branches" /\ ~overlapped /\ pc' = [pc EXCEPT ![t] = "panels"]
      /\ waiting' = [waiting EXCEPT ![t] = {"runs", "trend"}]
      /\ runsBody' = {} /\ trendRequestSequence' = t
      /\ UNCHANGED <<selectedProjectId, target>>
  BY DEF BranchesArrive, EmptiedRuns, Goto
<1>2. pc'[t] = "panels" /\ waiting'[t] = {"runs", "trend"}
  BY <1>1 DEF TypeOK
<1>3. \A u \in Tasks \ {t} : pc'[u] = "idle"
  BY <1>1, Alone DEF TypeOK
<1>4. selectedProjectId' # None => LoadsSelection(t)'
  BY <1>1, <1>2 DEF PanelsInv, LoadsSelection, AwaitsComparison
<1>5. ChartFollows' /\ RunsFollow' /\ ComparisonFollows'
  BY <1>1, <1>2 DEF ChartFollows, RunsFollow, ComparisonFollows, AwaitsTrend, AwaitsComparison
<1> QED
  BY <1>3, <1>4, <1>5, PanelsOfOne

\* The runs or the trend arrive at a task that runs alone: what it leaves to
\* await, and what it asks the comparison for.
LEMMA PanelAnswered ==
  ASSUME PanelsInv, TypeOK, TasksInv, NEW t \in Tasks, NEW panel, Answered(t, panel),
         ~overlapped, selectedProjectId # None
  PROVE  /\ \A u \in Tasks \ {t} : pc'[u] = "idle"
         /\ target[t] = selectedProjectId /\ target'[t] = selectedProjectId
         /\ pc'[t] \in {"panels", "comparison"}
         /\ pc'[t] = "comparison" => asked'[t] = selectedBranch
         /\ waiting'[t] = waiting[t] \ {panel} /\ AwaitsComparison(t)'
         /\ pc'[t] = "comparison" => waiting'[t] = {}
<1>1. /\ pc[t] = "panels" /\ panel \in waiting[t]
      /\ waiting' = [waiting EXCEPT ![t] = @ \ {panel}]
      /\ UNCHANGED target
  BY DEF Answered
<1>2. \A u \in Tasks \ {t} : pc[u] = "idle"
  BY <1>1, Alone
<1>3. target[t] = selectedProjectId
  BY <1>1 DEF PanelsInv, LoadsSelection, AwaitsComparison
<1>4. waiting'[t] = waiting[t] \ {panel}
  BY <1>1 DEF TypeOK
<1>5. CASE waiting[t] = {panel}
  <2>1. pc' = [pc EXCEPT ![t] = "comparison"] /\ asked' = [asked EXCEPT ![t] = selectedBranch]
    BY <1>5 DEF Answered, Goto
  <2>2. pc'[t] = "comparison" /\ asked'[t] = selectedBranch
    BY <2>1 DEF TypeOK, TasksInv, LocalsTyped
  <2>3. \A u \in Tasks \ {t} : pc'[u] = "idle"
    BY <1>2, <2>1 DEF TypeOK
  <2> QED
    BY <1>1, <1>3, <1>4, <1>5, <2>2, <2>3 DEF AwaitsComparison
<1>6. CASE waiting[t] # {panel}
  <2>1. pc' = pc
    BY <1>6 DEF Answered
  <2> QED
    BY <1>1, <1>2, <1>3, <1>4, <2>1 DEF AwaitsComparison
<1> QED
  BY <1>5, <1>6

\* The runs of the selected project are appended.
LEMMA RunsShown ==
  ASSUME PanelsInv, TypeOK, TasksInv, NEW t \in Tasks, RunsArrive(t)
  PROVE  PanelsInv'
<1>1. /\ Answered(t, "runs") /\ UNCHANGED <<trendRequestSequence, trendChart>>
      /\ runsBody' \in {runsBody, runsBody \cup {target[t]}}
      /\ pc[t] = "panels"
      /\ UNCHANGED <<selectedProjectId, selectedBranch, comparison, overlapped>>
  BY DEF RunsArrive, Answered, page
<1> SUFFICES ASSUME ~overlapped
             PROVE  PanelsInv'
  BY <1>1 DEF PanelsInv
<1>2. \A u \in Tasks \ {t} : pc[u] = "idle"
  BY <1>1, Alone
<1>3. CASE selectedProjectId = None
  <2>1. \A u \in Tasks \ {t} : pc'[u] = "idle"
    BY <1>1, <1>2 DEF Answered, Goto, TypeOK
  <2> QED
    BY <1>1, <1>3, <2>1, PanelsOfOne
<1>4. CASE selectedProjectId # None
  <2>1. /\ \A u \in Tasks \ {t} : pc'[u] = "idle"
        /\ target[t] = selectedProjectId /\ target'[t] = selectedProjectId
        /\ pc'[t] \in {"panels", "comparison"}
        /\ pc'[t] = "comparison" => asked'[t] = selectedBranch
        /\ waiting'[t] = waiting[t] \ {"runs"} /\ AwaitsComparison(t)'
        /\ pc'[t] = "comparison" => waiting'[t] = {}
    BY <1>1, <1>4, PanelAnswered
  <2>2. LoadsSelection(t)'
    BY <1>1, <1>4, <2>1 DEF PanelsInv, LoadsSelection
  <2>3. RunsFollow'
    <3>1. ~ \E u \in Tasks : AwaitsBranches(u)
      BY <1>1, <1>2 DEF AwaitsBranches
    <3> QED
      BY <1>1, <1>4, <2>1, <3>1 DEF PanelsInv, RunsFollow
  <2>4. ChartFollows'
    <3>1. CASE "trend" \in waiting[t]
      <4>1. "trend" \in waiting'[t]
        BY <2>1, <3>1
      <4>2. AwaitsTrend(t)'
        BY <2>1, <4>1 DEF AwaitsTrend
      <4> QED
        BY <4>2 DEF ChartFollows
    <3>2. CASE "trend" \notin waiting[t]
      <4>1. ~ \E u \in Tasks : AwaitsTrend(u)
        BY <1>1, <1>2, <3>2 DEF AwaitsTrend, AwaitsBranches
      <4> QED
        BY <1>1, <1>4, <4>1 DEF PanelsInv, ChartFollows
    <3> QED
      BY <3>1, <3>2
  <2>5. ComparisonFollows'
    BY <2>1 DEF ComparisonFollows
  <2> QED
    BY <2>1, <2>2, <2>3, <2>4, <2>5, PanelsOfOne
<1> QED
  BY <1>3, <1>4

\* The chart is drawn for the selected project, or stays as it is when another
\* request was newer; a task that runs alone has the newest.
LEMMA TrendShown ==
  ASSUME PanelsInv, TypeOK, TasksInv, NEW t \in Tasks, TrendArrives(t)
  PROVE  PanelsInv'
<1>1. /\ Answered(t, "trend") /\ UNCHANGED runsBody
      /\ pc[t] = "panels" /\ "trend" \in waiting[t]
      /\ UNCHANGED <<selectedProjectId, selectedBranch, comparison, overlapped>>
  BY DEF TrendArrives, Answered, page
<1> SUFFICES ASSUME ~overlapped
             PROVE  PanelsInv'
  BY <1>1 DEF PanelsInv
<1>2. \A u \in Tasks \ {t} : pc[u] = "idle"
  BY <1>1, Alone
<1>3. CASE selectedProjectId = None
  <2>1. \A u \in Tasks \ {t} : pc'[u] = "idle"
    BY <1>1, <1>2 DEF Answered, Goto, TypeOK
  <2> QED
    BY <1>1, <1>3, <2>1, PanelsOfOne
<1>4. CASE selectedProjectId # None
  <2>1. /\ \A u \in Tasks \ {t} : pc'[u] = "idle"
        /\ target[t] = selectedProjectId /\ target'[t] = selectedProjectId
        /\ pc'[t] \in {"panels", "comparison"}
        /\ pc'[t] = "comparison" => asked'[t] = selectedBranch
        /\ waiting'[t] = waiting[t] \ {"trend"} /\ AwaitsComparison(t)'
        /\ pc'[t] = "comparison" => waiting'[t] = {}
    BY <1>1, <1>4, PanelAnswered
  <2>2. LoadsSelection(t)'
    BY <1>1, <1>4, <2>1 DEF LoadsSelection
  <2>3. RunsFollow'
    <3>1. ~ \E u \in Tasks : AwaitsBranches(u)
      BY <1>1, <1>2 DEF AwaitsBranches
    <3> QED
      BY <1>1, <1>4, <3>1 DEF PanelsInv, RunsFollow
  <2>4. ChartFollows'
    <3>1. trendRequestSequence = t
      BY <1>1, <1>4 DEF PanelsInv, LoadsSelection
    <3>2. trendChart' \in {target[t], None}
      BY <2>1, <3>1 DEF TrendArrives
    <3> QED
      BY <1>1, <2>1, <3>2 DEF ChartFollows
  <2>5. ComparisonFollows'
    BY <2>1 DEF ComparisonFollows
  <2> QED
    BY <2>1, <2>2, <2>3, <2>4, <2>5, PanelsOfOne
<1> QED
  BY <1>3, <1>4

\* The comparison of a task that runs alone is that of the selection, and the
\* other panels were filled before.
LEMMA ComparisonShown ==
  ASSUME PanelsInv, TypeOK, TasksInv, NEW t \in Tasks, ComparisonArrives(t)
  PROVE  PanelsInv'
<1>1. /\ pc[t] = "comparison"
      /\ comparison' \in {[project |-> target[t], branch |-> asked[t]], None}
      /\ UNCHANGED <<trendRequestSequence, trendChart, runsBody, waiting, overlapped>>
      /\ UNCHANGED <<selectedProjectId, selectedBranch>>
  BY DEF ComparisonArrives, page
<1>2. PICK await \in {"idle", "heatmap"} : pc' = [pc EXCEPT ![t] = await]
  BY DEF ComparisonArrives, EndSelection, Return, Goto
<1> SUFFICES ASSUME ~overlapped
             PROVE  PanelsInv'
  BY <1>1 DEF PanelsInv
<1>3. \A u \in Tasks \ {t} : pc[u] = "idle"
  BY <1>1, Alone
<1>4. \A u \in Tasks \ {t} : pc'[u] = "idle"
  BY <1>2, <1>3 DEF TypeOK
<1>5. pc'[t] \in {"idle", "heatmap"}
  BY <1>2 DEF TypeOK
<1>6. LoadsSelection(t)'
  BY <1>5 DEF LoadsSelection, AwaitsComparison
<1>7. ASSUME selectedProjectId # None
      PROVE  ChartFollows' /\ RunsFollow' /\ ComparisonFollows'
  <2>1. /\ LoadsSelection(t) /\ ChartFollows /\ RunsFollow
    BY <1>7 DEF PanelsInv
  <2>2. ~ \E u \in Tasks : AwaitsTrend(u) \/ AwaitsBranches(u)
    BY <1>1, <1>3 DEF AwaitsTrend, AwaitsBranches
  <2>3. target[t] = selectedProjectId /\ asked[t] = selectedBranch
    BY <1>1, <2>1 DEF LoadsSelection, AwaitsComparison
  <2> QED
    BY <1>1, <2>1, <2>2, <2>3 DEF ChartFollows, RunsFollow, ComparisonFollows
<1> QED
  BY <1>1, <1>4, <1>6, <1>7, PanelsOfOne

\* Every step keeps the panels.
LEMMA PanelsStep ==
  ASSUME PanelsInv, TypeOK, TasksInv, [Next]_vars
  PROVE  PanelsInv'
<1>t. /\ PanelsInv /\ TypeOK /\ TasksInv /\ LocalsTyped /\ pc \in [Tasks -> Awaits]
  BY DEF TypeOK, TasksInv, Awaits
<1>c. ASSUME clearSelection, UNCHANGED <<tasks, overlapped>>
      PROVE  PanelsInv'
  BY <1>t, <1>c, PanelsCleared DEF tasks, Live
<1>1. ASSUME NEW value \in Intervals, ChangeInterval(value)
      PROVE  PanelsInv'
  BY <1>1, <1>t, PanelsKept DEF ChangeInterval, page
<1>2. ASSUME NEW t \in Tasks, performHomeRefresh(t)
      PROVE  PanelsInv'
  <2>1. /\ pc[t] = "idle" /\ pc' = [pc EXCEPT ![t] = "projects"]
        /\ overlapped' = (overlapped \/ Live # {})
        /\ UNCHANGED <<panels, waiting, selectedProjectId, selectedBranch, target, asked>>
    BY <1>2 DEF performHomeRefresh, Goto, page
  <2> QED
    BY <1>t, <2>1, PanelsStay
<1>3. ASSUME NEW t \in Tasks, NEW project \in Projects, ChooseProject(t, project)
      PROVE  PanelsInv'
  BY <1>3, <1>t, PanelsAwaited, Zenon DEF ChooseProject
<1>4. ASSUME NEW t \in Tasks, NEW branch \in Branches \cup {None}, ChooseBranch(t, branch)
      PROVE  PanelsInv'
  <2>1. /\ pc[t] = "idle" /\ pc' = [pc EXCEPT ![t] = "comparison"]
        /\ asked' = [asked EXCEPT ![t] = branch] /\ selectedBranch' = branch
        /\ target' = [target EXCEPT ![t] = selectedProjectId] /\ selectedProjectId # None
        /\ overlapped' = (overlapped \/ Live # {})
        /\ UNCHANGED <<trendRequestSequence, trendChart, runsBody, selectedProjectId, waiting>>
    BY <1>4 DEF ChooseBranch, Goto
  <2> SUFFICES ASSUME ~overlapped'
               PROVE  PanelsInv'
    BY DEF PanelsInv
  <2>2. ~overlapped /\ \A u \in Tasks : pc[u] = "idle"
    BY <2>1 DEF Live
  <2>3. ChartFollows /\ RunsFollow /\ waiting[t] = {}
    BY <1>t, <2>1, <2>2 DEF PanelsInv, TasksInv, TaskInv
  <2>4. ~ \E u \in Tasks : AwaitsTrend(u) \/ AwaitsBranches(u)
    BY <2>2 DEF AwaitsTrend, AwaitsBranches
  <2>5. /\ pc'[t] = "comparison" /\ asked'[t] = selectedBranch'
        /\ target'[t] = selectedProjectId'
    BY <1>t, <2>1 DEF LocalsTyped
  <2>6. \A u \in Tasks \ {t} : pc'[u] = "idle"
    BY <1>t, <2>1, <2>2
  <2>7. LoadsSelection(t)'
    BY <2>1, <2>5 DEF LoadsSelection
  <2>8. ChartFollows' /\ RunsFollow' /\ ComparisonFollows'
    BY <2>1, <2>3, <2>4, <2>5 DEF ChartFollows, RunsFollow, ComparisonFollows, AwaitsComparison
  <2> QED
    BY <2>6, <2>7, <2>8, PanelsOfOne
<1>5. CASE ChooseNone
  BY <1>5, <1>c DEF ChooseNone
<1>6. ASSUME NEW matching \in Matches, Search(matching)
      PROVE  PanelsInv'
  BY <1>6, <1>t, PanelsKept DEF Search
<1>7. ASSUME NEW matching \in Matches, ChangeGroup(matching)
      PROVE  PanelsInv'
  <2>1. CASE UNCHANGED <<selectedProjectId, selectedBranch, availableBranches,
                         panels, timer, tasks, overlapped>>
    BY <1>t, <2>1, PanelsKept
  <2>2. CASE clearSelection /\ UNCHANGED <<timer, tasks, overlapped>>
    BY <1>c, <2>2
  <2>3. ASSUME NEW t \in Tasks, NEW first, selectProject(t, first, TRUE)
        PROVE  PanelsInv'
    BY <1>t, <2>3, PanelsAwaited, Zenon
  <2> QED
    BY <1>7, <2>1, <2>2, <2>3, Zenon DEF ChangeGroup
<1>8. ASSUME NEW t \in Tasks, NEW catalog \in Catalogs, ProjectsArrive(t, catalog)
      PROVE  PanelsInv'
  <2>1. pc[t] = "projects"
    BY <1>8 DEF ProjectsArrive
  <2>2. CASE clearSelection /\ EndSelection(t) /\ UNCHANGED overlapped
    <3>1. Live' \subseteq Live
      BY <1>t, <2>1, <2>2 DEF EndSelection, Goto, Live
    <3> QED
      BY <1>t, <2>2, <3>1, PanelsCleared
  <2>3. ASSUME NEW next, NEW reset, selectProject(t, next, reset)
        PROVE  PanelsInv'
    BY <1>t, <2>3, PanelsAwaited, Zenon
  <2> QED
    BY <1>8, <2>2, <2>3, Zenon DEF ProjectsArrive
<1>9. ASSUME NEW t \in Tasks, ProjectsFail(t) \/ HeatmapArrives(t)
      PROVE  PanelsInv'
  <2>1. /\ pc[t] \in {"projects", "heatmap"} /\ pc' = [pc EXCEPT ![t] = "idle"]
        /\ UNCHANGED <<panels, waiting, selectedProjectId, selectedBranch, overlapped>>
    BY <1>9 DEF ProjectsFail, HeatmapArrives, Return, Goto, page
  <2>2. \A u \in Tasks \ {t} : target'[u] = target[u] /\ asked'[u] = asked[u]
    BY <1>t, <1>9 DEF ProjectsFail, HeatmapArrives, Return, LocalsTyped
  <2> QED
    BY <1>t, <2>1, <2>2, PanelsStay
<1>10. CASE TimeoutFiresBusy
  BY <1>10, <1>t, PanelsKept DEF TimeoutFiresBusy, page
<1>11. CASE UNCHANGED vars
  BY <1>11, <1>t, PanelsKept DEF vars, page
<1>12. ASSUME NEW t \in Tasks, Answer(t)
       PROVE  PanelsInv'
  BY <1>12, <1>t, <1>8, <1>9, PanelsLoaded, RunsShown, TrendShown, ComparisonShown, Zenon
     DEF Answer
<1> QED
  BY <1>1, <1>2, <1>3, <1>4, <1>5, <1>6, <1>7, <1>10, <1>11, <1>12
     DEF Next, UserEvent, Refresh, TimeoutFires

-----------------------------------------------------------------------------
(* The selection. *)

\* What SelectionSurvivesRefresh says of a task.
SelectionSurvives(t) ==
    pc[t] = "projects" /\ pc'[t] # "projects"
    /\ selectedProjectId \in allProjects' \cap match
    => selectedProjectId' = selectedProjectId
       /\ selectedBranch' = selectedBranch

\* The list that arrives selects the selected project again, with its branch.
LEMMA ArrivalKeepsSelection ==
  ASSUME NEW t \in Tasks, NEW catalog \in Catalogs, ProjectsArrive(t, catalog),
         selectedProjectId \in allProjects' \cap match
  PROVE  selectedProjectId' = selectedProjectId /\ selectedBranch' = selectedBranch
<1> DEFINE visible == catalog \cap match
<1>1. selectedProjectId \in visible
  BY DEF ProjectsArrive
<1>2. NextSelected(visible) = {selectedProjectId}
  BY <1>1 DEF NextSelected
<1>3. selectProject(t, selectedProjectId, FALSE)
  BY <1>1, <1>2 DEF ProjectsArrive
<1> QED
  BY <1>3 DEF selectProject

\* A step of one task leaves another where it is.
LEMMA OthersStay ==
  ASSUME TypeOK, NEW t \in Tasks, NEW u \in Tasks, u # t, NEW await,
         pc' = [pc EXCEPT ![t] = await]
  PROVE  pc'[u] = pc[u]
BY DEF TypeOK

\* An answer to another await than that for the projects.
LEMMA OtherAnswers ==
  ASSUME NEW t \in Tasks,
         BranchesArrive(t) \/ RunsArrive(t) \/ TrendArrives(t) \/ ComparisonArrives(t)
         \/ HeatmapArrives(t)
  PROVE  pc[t] # "projects" /\ \E await : pc' = [pc EXCEPT ![t] = await] \/ pc' = pc
<1>1. CASE BranchesArrive(t)
  BY <1>1 DEF BranchesArrive, Goto
<1>2. CASE RunsArrive(t) \/ TrendArrives(t)
  BY <1>2 DEF RunsArrive, TrendArrives, Answered, Goto
<1>3. CASE ComparisonArrives(t)
  BY <1>3 DEF ComparisonArrives, EndSelection, Return, Goto
<1>4. CASE HeatmapArrives(t)
  BY <1>4 DEF HeatmapArrives, Return, Goto
<1> QED
  BY <1>1, <1>2, <1>3, <1>4

\* Every step keeps the selection of a refresh that learns of the projects.
LEMMA SelectionStep ==
  ASSUME TypeOK, [Next]_vars
  PROVE  \A u \in Tasks : SelectionSurvives(u)
<1>t. TypeOK
  OBVIOUS
<1> SUFFICES ASSUME NEW u \in Tasks, pc[u] = "projects", pc'[u] # "projects",
                    selectedProjectId \in allProjects' \cap match
             PROVE  selectedProjectId' = selectedProjectId /\ selectedBranch' = selectedBranch
  BY DEF SelectionSurvives
<1>i. ASSUME NEW t \in Tasks, pc[t] # "projects", NEW await, pc' = [pc EXCEPT ![t] = await]
      PROVE  FALSE
  BY <1>t, <1>i, OthersStay
<1>k. ASSUME pc' = pc
      PROVE  FALSE
  BY <1>k
<1>1. ASSUME NEW value \in Intervals, ChangeInterval(value)
      PROVE  FALSE
  BY <1>1, <1>k DEF ChangeInterval, tasks
<1>2. ASSUME NEW t \in Tasks, performHomeRefresh(t)
      PROVE  FALSE
  BY <1>2, <1>i DEF performHomeRefresh, Goto
<1>3. ASSUME NEW t \in Tasks, NEW project, StartsSelect(t), selectProject(t, project, TRUE)
      PROVE  FALSE
  BY <1>3, <1>i DEF StartsSelect, selectProject, Goto
<1>4. ASSUME NEW t \in Tasks, NEW branch \in Branches \cup {None}, ChooseBranch(t, branch)
      PROVE  FALSE
  BY <1>4, <1>i DEF ChooseBranch, Goto
<1>5. ASSUME UNCHANGED tasks
      PROVE  FALSE
  BY <1>5, <1>k DEF tasks
<1>6. ASSUME NEW matching \in Matches, ChangeGroup(matching)
      PROVE  FALSE
  <2>1. CASE UNCHANGED <<timer, tasks, overlapped>>
    BY <1>5, <2>1
  <2>2. CASE \E t \in Tasks, first \in allProjects \cap matching :
                StartsSelect(t) /\ selectProject(t, first, TRUE)
    BY <1>3, <2>2, Zenon
  <2> QED
    BY <1>6, <2>1, <2>2 DEF ChangeGroup
<1>7. ASSUME NEW t \in Tasks, NEW catalog \in Catalogs, ProjectsArrive(t, catalog)
      PROVE  selectedProjectId' = selectedProjectId /\ selectedBranch' = selectedBranch
  BY <1>7, ArrivalKeepsSelection
<1>8. ASSUME NEW t \in Tasks, ProjectsFail(t)
      PROVE  selectedProjectId' = selectedProjectId /\ selectedBranch' = selectedBranch
  BY <1>8 DEF ProjectsFail, page
<1>9. ASSUME NEW t \in Tasks,
             BranchesArrive(t) \/ RunsArrive(t) \/ TrendArrives(t) \/ ComparisonArrives(t)
             \/ HeatmapArrives(t)
      PROVE  FALSE
  BY <1>9, <1>i, <1>k, OtherAnswers
<1>10. CASE UNCHANGED vars
  BY <1>10, <1>5 DEF vars
<1>11. ASSUME NEW t \in Tasks, Answer(t)
       PROVE  selectedProjectId' = selectedProjectId /\ selectedBranch' = selectedBranch
  BY <1>11, <1>7, <1>8, <1>9, Zenon DEF Answer
<1>12. CASE UserEvent
  BY <1>12, <1>1, <1>2, <1>3, <1>4, <1>5, <1>6
     DEF UserEvent, Refresh, ChooseProject, ChooseNone, Search
<1>13. CASE TimeoutFiresBusy
  BY <1>13, <1>5 DEF TimeoutFiresBusy
<1> QED
  BY <1>2, <1>10, <1>11, <1>12, <1>13 DEF Next, TimeoutFires

-----------------------------------------------------------------------------

\* What all of it rests on.
PageInv == TypeOK /\ TasksInv /\ TimerInv /\ RefreshInv /\ PanelsInv

\* The page starts that way.
LEMMA PageInit ==
  ASSUME Init
  PROVE  PageInv
<1> USE PageConstants
<1>1. PICK first \in Tasks : pc = [t \in Tasks |-> IF t = first THEN "projects" ELSE "idle"]
  BY DEF Init
<1>2. /\ job = [t \in Tasks |-> IF t = first THEN "refresh" ELSE None]
      /\ waiting = [t \in Tasks |-> {}] /\ homeRefreshInFlight = TRUE
  BY <1>1 DEF Init
<1>3. TypeOK
  BY <1>1, <1>2 DEF Init, TypeOK
<1>4. TasksInv
  <2>1. LocalsTyped
    BY <1>2 DEF Init, LocalsTyped
  <2>2. ASSUME NEW t \in Tasks
        PROVE  TaskInv(t)
    BY <1>1, <1>2 DEF TaskInv
  <2> QED
    BY <2>1, <2>2 DEF TasksInv
<1>5. TimerInv
  BY DEF Init, TimerInv
<1>6. RefreshInv
  <2>1. Refreshing = {first}
    BY <1>1, <1>2 DEF Refreshing, Live
  <2>2. \A t \in Tasks : pc[t] \in {"projects", "heatmap"} => t \in Refreshing
    BY <1>1, <2>1
  <2> QED
    BY <1>2, <2>1, <2>2 DEF RefreshInv
<1>7. PanelsInv
  <2>1. Live = {first}
    BY <1>1 DEF Live
  <2> QED
    BY <2>1 DEF Init, PanelsInv
<1> QED
  BY <1>3, <1>4, <1>5, <1>6, <1>7 DEF PageInv

\* Every step keeps it that way.
LEMMA PageStep == PageInv /\ [Next]_vars => PageInv'
<1> SUFFICES ASSUME PageInv, [Next]_vars
             PROVE  PageInv'
  OBVIOUS
<1>1. TypeOK' /\ TasksInv'
  BY TypeStep DEF PageInv
<1>2. TimerInv'
  BY TimerStep DEF PageInv
<1>3. RefreshInv'
  BY FlagStep DEF PageInv
<1>4. PanelsInv'
  BY PanelsStep DEF PageInv
<1> QED
  BY <1>1, <1>2, <1>3, <1>4 DEF PageInv

\* It always is.
LEMMA PageInvariant == Spec => []PageInv
<1>1. Init => PageInv
  BY PageInit
<1> QED
  BY <1>1, PageStep, PTL DEF Spec

\* Globals and tasks of the home page keep their types, and at each await a
\* task has the locals its answer is handled with.
THEOREM HomePageTypes == Spec => [](TypeOK /\ TasksInv)
<1>1. PageInv => TypeOK /\ TasksInv
  BY DEF PageInv
<1> QED
  BY <1>1, PageInvariant, PTL

\* performHomeRefresh never has two refreshes under way, and the flag tells
\* whether one is: whatever the order of buttons, timeouts and answers.
THEOREM OneHomeRefreshAtATime == Spec => []RefreshesNeverOverlap
<1>1. ASSUME RefreshInv
      PROVE  RefreshesNeverOverlap
  <2>1. CASE Refreshing = {}
    <3>1. Cardinality(Refreshing) = 0
      BY <2>1, FS_EmptySet
    <3>2. Cardinality(Refreshing) <= 1
      BY <3>1
    <3> QED
      BY <1>1, <3>2 DEF RefreshesNeverOverlap, RefreshInv
  <2>2. CASE Refreshing # {}
    <3>1. PICK t \in Refreshing : Refreshing = {t}
      BY <1>1, <2>2 DEF RefreshInv
    <3>2. Cardinality(Refreshing) = 1
      BY <3>1, FS_Singleton
    <3>3. Cardinality(Refreshing) <= 1
      BY <3>2
    <3> QED
      BY <1>1, <3>3 DEF RefreshesNeverOverlap, RefreshInv
  <2> QED
    BY <2>1, <2>2
<1>2. PageInv => RefreshesNeverOverlap
  BY <1>1 DEF PageInv
<1> QED
  BY <1>2, PageInvariant, PTL

\* The automatic refresh of the home page neither dies nor multiplies: at rest
\* one timeout is armed, the one the page knows of, and none when it is off.
THEOREM HomeAutoRefreshSurvives == Spec => []AutoRefreshStaysArmed
<1>1. ASSUME TimerInv
      PROVE  AutoRefreshStaysArmed
  <2>1. CASE tracked
    <3>1. timeouts = 1 /\ interval # "off"
      BY <1>1, <2>1 DEF TimerInv
    <3> QED
      BY <2>1, <3>1 DEF AutoRefreshStaysArmed
  <2>2. CASE ~tracked
    <3>1. timeouts = 0 /\ (interval # "off" => homeRefreshInFlight)
      BY <1>1, <2>2 DEF TimerInv
    <3> QED
      BY <3>1 DEF AutoRefreshStaysArmed
  <2> QED
    BY <2>1, <2>2
<1>2. PageInv => AutoRefreshStaysArmed
  BY <1>1 DEF PageInv
<1> QED
  BY <1>2, PageInvariant, PTL

\* When everything has arrived and no task ran into the one that loaded the
\* panels, the chart, the runs and the comparison are those of the selected
\* project and branch, or empty: also after fetches that failed.
THEOREM PanelsShowSelection == Spec => []PanelsFollowSelection
<1>1. ASSUME TypeOK, PanelsInv
      PROVE  PanelsFollowSelection
  <2> SUFFICES ASSUME Live = {}, ~overlapped, selectedProjectId # None
               PROVE  /\ trendChart \in {selectedProjectId, None}
                      /\ runsBody \subseteq {selectedProjectId}
                      /\ comparison \in {[project |-> selectedProjectId,
                                          branch |-> selectedBranch], None}
    BY DEF PanelsFollowSelection
  <2>1. ChartFollows /\ RunsFollow /\ ComparisonFollows
    BY <1>1 DEF PanelsInv
  <2>2. \A t \in Tasks : ~AwaitsTrend(t) /\ ~AwaitsBranches(t) /\ ~AwaitsComparison(t)
    BY DEF Live, AwaitsTrend, AwaitsBranches, AwaitsComparison
  <2> QED
    BY <2>1, <2>2 DEF ChartFollows, RunsFollow, ComparisonFollows
<1>2. PageInv => PanelsFollowSelection
  BY <1>1 DEF PageInv
<1> QED
  BY <1>2, PageInvariant, PTL

\* "If the currently selected project still exists after refresh, it must
\* remain selected", with its branch, also when it was selected while the list
\* of projects was on its way.
THEOREM RefreshKeepsSelection == Spec => SelectionSurvivesRefresh
<1>1. PageInv /\ [Next]_vars => \A t \in Tasks : SelectionSurvives(t)
  BY SelectionStep DEF PageInv
<1>2. Spec => [][\A t \in Tasks : SelectionSurvives(t)]_vars
  BY <1>1, PageInvariant, PTL DEF Spec
<1> QED
  BY <1>2 DEF SelectionSurvivesRefresh, SelectionSurvives
=============================================================================
