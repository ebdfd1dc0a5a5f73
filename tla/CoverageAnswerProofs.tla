------------------------ MODULE CoverageAnswerProofs ------------------------
(***************************************************************************)
(* Proofs about what CoverageIngest answers and compares with: answers say *)
(* what the tables hold, one submission is the creator of a project, the   *)
(* threshold and the baseline a submission is judged by are the right ones.*)
(* From them, that CoverageIngest implements CoverageHistory.              *)
(***************************************************************************)
EXTENDS CoverageIngestProofs

\* What request r, or a fault that hits it alone, may do.
RequestStep(r) ==
    \/ \E in \in Inputs : Receive(r, in)
    \/ Step(r)
    \/ StatementFails(r)
    \/ ReplyLost(r)

-----------------------------------------------------------------------------
(* What a step leaves alone. *)

\* A step of one request touches the locals of no other.
LEMMA OthersKeep ==
  ASSUME TableInv, NEW r \in Requests, RequestStep(r),
         NEW s \in Requests, s # r
  PROVE  /\ pc'[s] = pc[s]
         /\ resp'[s] = resp[s]
         /\ input'[s] = input[s]
         /\ project'[s] = project[s]
         /\ created'[s] = created[s]
         /\ baseline'[s] = baseline[s]
         /\ run'[s] = run[s]
         /\ seen'[s] = seen[s]
         /\ runs'[s] = runs[s]
         /\ Owns(projects, s)' <=> Owns(projects, s)
<1> USE DEF TableInv, TypeOK, Goto, Answer, InternalError, tables, locals
<1>1. CASE \E in \in Inputs : Receive(r, in)
  BY <1>1 DEF Receive, Owns
<1>2. CASE Step(r)
  <2>1. CASE CreateProject(r)
    BY <2>1 DEF CreateProject, Owns
  <2>2. CASE UpdateThreshold(r)
    <3>1. Owns(projects, s)' <=> Owns(projects, s)
      BY <2>2, ThresholdUpdated DEF UpdateThreshold
    <3> QED
      BY <2>2, <3>1 DEF UpdateThreshold
  <2>3. CASE GetProject(r) \/ CreateProjectConflict(r) \/ GetBaseline(r)
    BY <2>3 DEF GetProject, CreateProjectConflict, GetBaseline, Owns
  <2>4. CASE ListBaselinePackages(r) \/ BuildRun(r) \/ InsertRun(r) \/ InsertPackage(r)
    BY <2>4 DEF ListBaselinePackages, BuildRun, InsertRun, InsertPackage, Owns
  <2>5. CASE Commit(r) \/ Respond(r)
    BY <2>5 DEF Commit, ApplyTx, Respond, Owns
  <2> QED
    BY <1>2, <2>1, <2>2, <2>3, <2>4, <2>5 DEF Step
<1>3. CASE StatementFails(r)
  BY <1>3 DEF StatementFails, Owns
<1>4. CASE ReplyLost(r)
  <2>1. Owns(projects, s)' <=> Owns(projects, s)
    <3>1. CASE pc[r] = "update_threshold" /\ projects' = UpdatedProjects(r)
      BY <3>1, ThresholdUpdated
    <3> QED
      BY <1>4, <3>1 DEF ReplyLost, Owns
  <2> QED
    BY <1>4, <2>1 DEF ReplyLost, ApplyTx
<1> QED
  BY <1>1, <1>2, <1>3, <1>4 DEF RequestStep

\* Rows stay: a committed run never changes, a project keeps its key; and
\* a row appears only for a request at the statement that writes it.
LEMMA TablesGrow ==
  ASSUME TableInv, NEW r \in Requests, RequestStep(r), NEW c \in Requests
  PROVE  /\ Owns(runs, c) => runs'[c] = runs[c]
         /\ Owns(runs, c)' => Owns(runs, c) \/ (c = r /\ pc[r] = "commit")
         /\ Owns(projects, c) =>
               Owns(projects, c)' /\ projects'[c].projectKey = projects[c].projectKey
         /\ Owns(projects, c)' =>
               Owns(projects, c) \/ (c = r /\ pc[r] = "create_project")
<1> USE DEF TableInv, tables, locals
<1>1. CASE UNCHANGED tables
  BY <1>1 DEF Owns
<1>2. CASE /\ pc[r] = "create_project" /\ UniqueKeyHolds(r)
           /\ projects' = [projects EXCEPT ![r] = StoredProject(NewProject(r))]
           /\ UNCHANGED <<runs, packages>>
  <2>1. /\ Owns(projects, c) => Owns(projects, c)' /\ projects'[c] = projects[c]
        /\ c # r => projects'[c] = projects[c]
    BY <1>2, ProjectInserted
  <2> QED
    BY <1>2, <2>1 DEF Owns
<1>3. CASE /\ pc[r] = "update_threshold"
           /\ projects' = UpdatedProjects(r)
           /\ UNCHANGED <<runs, packages>>
  <2>1. /\ Owns(projects, c) <=> Owns(projects, c)'
        /\ projects'[c].projectKey = projects[c].projectKey
    BY <1>3, ThresholdUpdated
  <2> QED
    BY <1>3, <2>1 DEF Owns
<1>4. CASE pc[r] = "commit" /\ ApplyTx(r) /\ UNCHANGED projects
  <2>1. ~Owns(runs, r)
    BY <1>4 DEF CommittedLate
  <2>2. c # r => runs'[c] = runs[c]
    BY <1>4 DEF ApplyTx, TypeOK
  <2> QED
    BY <1>4, <2>1, <2>2 DEF Owns
<1>5. \/ UNCHANGED tables
      \/ /\ pc[r] = "create_project" /\ UniqueKeyHolds(r)
         /\ projects' = [projects EXCEPT ![r] = StoredProject(NewProject(r))]
         /\ UNCHANGED <<runs, packages>>
      \/ /\ pc[r] = "update_threshold"
         /\ projects' = UpdatedProjects(r)
         /\ UNCHANGED <<runs, packages>>
      \/ pc[r] = "commit" /\ ApplyTx(r) /\ UNCHANGED projects
  BY DEF RequestStep, Receive, Step, StatementFails, ReplyLost, GetProject,
     CreateProject, CreateProjectConflict, UpdateThreshold, GetBaseline,
     ListBaselinePackages, BuildRun, InsertRun, InsertPackage, Commit, Respond
<1> QED
  BY <1>1, <1>2, <1>3, <1>4, <1>5

-----------------------------------------------------------------------------
(* Answers. *)

\* An answer ends its request; a success names the run that was committed.
LEMMA AnswersFollowStep ==
  ASSUME TableInv, TableInv', AnswersFollow, NEW r \in Requests, RequestStep(r)
  PROVE  AnswersFollow'
<1> DEFINE Good(s) ==
      /\ pc[s] = "idle" => ~Owns(input, s)
      /\ Owns(resp, s) <=> pc[s] = "done"
      /\ pc[s] = "respond" => Owns(runs, s)
      /\ Code(s) = "OK" =>
            /\ Owns(runs, s)
            /\ resp[s].run = s
            /\ resp[s].project = project[s].id
            /\ resp[s].created = created[s]
            /\ resp[s].comparison.thresholdPercent = project[s].globalThresholdPercent
<1>1. ASSUME NEW s \in Requests, s # r PROVE Good(s)'
  <2>1. Good(s)
    BY DEF AnswersFollow
  <2> QED
    BY <1>1, <2>1, OthersKeep DEF Owns, Code
<1>2. Good(r)'
  <2> USE DEF TableInv, TypeOK, Owns, Code, Stages
  <2>a. Good(r)
    BY DEF AnswersFollow
  <2>b. /\ [code |-> "INTERNAL", stage |-> pc[r]] # None \/ pc[r] \notin Stages
        /\ [code |-> "INVALID_ARGUMENT", stage |-> "validate"] # None
    BY NoneIsNoValue DEF ErrorAnswer
  <2>1. CASE \E in \in Inputs : Receive(r, in)
    BY <2>1, <2>a, <2>b DEF Receive, Goto, Answer
  <2>2. CASE InternalError(r) /\ pc[r] \in Stages
    BY <2>2, <2>b DEF InternalError, Answer
  <2>3. CASE GetProject(r) \/ CreateProject(r) \/ UpdateThreshold(r) \/ GetBaseline(r)
             \/ ListBaselinePackages(r)
    BY <2>3, <2>a DEF GetProject, CreateProject, UpdateThreshold, GetBaseline,
       ListBaselinePackages, Goto
  <2>4. CASE BuildRun(r) \/ InsertRun(r) \/ InsertPackage(r)
    BY <2>4, <2>a DEF BuildRun, InsertRun, InsertPackage, Goto
  <2>5. CASE Commit(r)
    <3>1. Owns(runs, r)'
      BY <2>5, RunCommitted DEF Commit, locals
    <3> QED
      BY <2>5, <2>a, <3>1 DEF Commit, Goto
  <2>6. CASE Respond(r)
    <3>1. /\ resp'[r] = IngestOutput(r) /\ pc'[r] = "done"
          /\ project' = project /\ created' = created /\ runs' = runs /\ input' = input
      BY <2>6 DEF Respond, Answer, tables, locals
    <3>2. IngestOutput(r) # None
      BY <2>6, IngestOutputType, NoneIsNoValue DEF Respond
    <3> QED
      BY <2>6, <2>a, <3>1, <3>2 DEF Respond, IngestOutput, buildComparison
  <2> QED
    BY <2>1, <2>2, <2>3, <2>4, <2>5, <2>6
       DEF RequestStep, Step, CreateProjectConflict, StatementFails, ReplyLost
<1> QED
  BY <1>1, <1>2 DEF AnswersFollow

\* Only the creator of a project holds a project of its own.
LEMMA CreatorKnownStep ==
  ASSUME TableInv, TableInv', AnswersFollow, CreatorKnown,
         NEW r \in Requests, RequestStep(r)
  PROVE  CreatorKnown'
<1> DEFINE Good(s) ==
      /\ Holds(s) => (created[s] <=> project[s].id = s)
      /\ Holds(s) /\ created[s] => Owns(projects, s)
      /\ pc[s] = "update_threshold" => ~Owns(projects, s)
      /\ pc[s] \in {"idle", "get_project", "create_project"} => ~created[s]
<1>1. ASSUME NEW s \in Requests, s # r PROVE Good(s)'
  <2>1. Good(s)
    BY DEF CreatorKnown
  <2> QED
    BY <1>1, <2>1, OthersKeep DEF Holds, Code
<1>2. Good(r)'
  <2> USE DEF TableInv, TypeOK, Holds, Code, Stages, Resolved
  <2>a. Good(r) /\ (Owns(resp, r) <=> pc[r] = "done")
    BY DEF CreatorKnown, AnswersFollow
  <2>1. CASE \E in \in Inputs : Receive(r, in)
    BY <2>1, <2>a DEF Receive, Goto, Answer, Owns
  <2>2. CASE InternalError(r) /\ pc[r] \in Stages
    <3>1. resp'[r].code = "INTERNAL" /\ pc'[r] = "done"
      BY <2>2 DEF InternalError, Answer
    <3> QED
      BY <3>1
  <2>3. CASE GetProject(r)
    <3>1. ~Owns(projects, r) /\ projects' = projects /\ created' = created
          /\ resp' = resp /\ ~created[r] /\ resp[r] = None
      BY <2>3, <2>a DEF GetProject, ProjectsWellFormed, tables, Owns
    <3>2. pc'[r] = "create_project" \/ (project'[r].id # r /\ pc'[r] \in Resolved)
      BY <2>3, <3>1 DEF GetProject, Goto, ProjectsWithKey, ProjectsWellFormed, Owns
    <3> QED
      BY <3>1, <3>2 DEF Owns
  <2>4. CASE CreateProject(r)
    <3>1. NewProject(r).id = r /\ Owns(projects, r)'
      BY <2>4, ProjectInserted DEF CreateProject
    <3> QED
      BY <2>4, <2>a, <3>1 DEF CreateProject, Goto
  <2>5. CASE UpdateThreshold(r)
    <3>1. /\ project[r].id \in Requests /\ Owns(projects, project[r].id)
          /\ projects'[project[r].id].id = projects[project[r].id].id
      BY <2>5, ThresholdUpdated DEF UpdateThreshold
    <3>2. project'[r].id = project[r].id
      BY <2>5, <3>1 DEF UpdateThreshold, ProjectsWellFormed
    <3>3. Owns(projects, r)' <=> Owns(projects, r)
      BY <2>5, ThresholdUpdated DEF UpdateThreshold
    <3> QED
      BY <2>5, <2>a, <3>2, <3>3 DEF UpdateThreshold, Goto
  <2>6. CASE GetBaseline(r) \/ ListBaselinePackages(r) \/ BuildRun(r) \/ InsertRun(r)
             \/ InsertPackage(r) \/ Commit(r)
    <3>1. /\ pc[r] \in Resolved \ {"update_threshold"}
          /\ pc'[r] \in Resolved \ {"update_threshold"}
          /\ project' = project /\ created' = created /\ projects' = projects
      BY <2>6 DEF GetBaseline, ListBaselinePackages, BuildRun, InsertRun,
         InsertPackage, Commit, Goto, tables, locals
    <3> QED
      BY <2>a, <3>1 DEF Owns
  <2>7. CASE Respond(r)
    <3>1. /\ pc[r] = "respond" /\ pc'[r] = "done"
          /\ project' = project /\ created' = created /\ projects' = projects
      BY <2>7 DEF Respond, Answer, tables, locals
    <3> QED
      BY <2>a, <3>1 DEF Owns
  <2> QED
    BY <2>1, <2>2, <2>3, <2>4, <2>5, <2>6, <2>7
       DEF RequestStep, Step, CreateProjectConflict, StatementFails, ReplyLost
<1> QED
  BY <1>1, <1>2 DEF CreatorKnown

\* Rounding a percentage twice is rounding it once.
LEMMA StoredTwice == ASSUME NEW v \in Int PROVE Stored(Stored(v)) = Stored(v)
<1> DEFINE q == (v + 5) \div 10
<1>1. q \in Int /\ Stored(v) = q * 10
  BY DEF Stored, Cent
<1> HIDE DEF q
<1>2. (q * 10 + 5) \div 10 = q
  BY <1>1
<1> QED
  BY <1>1, <1>2 DEF Stored, Cent

\* The default threshold needs no rounding.
LEMMA DefaultIsStored ==
  /\ DefaultThresholdPercent \in Int
  /\ Stored(DefaultThresholdPercent) = DefaultThresholdPercent
  BY DEF DefaultThresholdPercent, Stored, Cent

\* The project built for a report carries the threshold it asks for.
LEMMA NewProjectThreshold ==
  ASSUME NEW r \in Requests
  PROVE  NewProject(r).globalThresholdPercent =
            IF input[r].thresholdPercent = None THEN DefaultThresholdPercent
            ELSE input[r].thresholdPercent
  BY DEF NewProject

\* Until it is answered, a request is judged by the threshold it asked for.
LEMMA ThresholdHeldStep ==
  ASSUME TableInv, TableInv', AnswersFollow, CreatorKnown, ThresholdHeld,
         NEW r \in Requests, RequestStep(r)
  PROVE  ThresholdHeld'
<1> DEFINE Good(s) ==
      Holds(s) /\ pc[s] # "update_threshold" =>
          /\ input[s].thresholdPercent # None =>
                Stored(project[s].globalThresholdPercent) =
                    Stored(input[s].thresholdPercent)
          /\ input[s].thresholdPercent = None /\ created[s] =>
                project[s].globalThresholdPercent = DefaultThresholdPercent
<1>1. ASSUME NEW s \in Requests, s # r PROVE Good(s)'
  <2>1. Good(s)
    BY DEF ThresholdHeld
  <2> QED
    BY <1>1, <2>1, OthersKeep DEF Holds, Code
<1>2. Good(r)'
  <2> USE DEF TableInv, TypeOK, Holds, Code, Stages, Resolved
  <2>a. Good(r) /\ (Owns(resp, r) <=> pc[r] = "done")
    BY DEF ThresholdHeld, AnswersFollow
  <2>1. CASE \E in \in Inputs : Receive(r, in)
    BY <2>1, <2>a DEF Receive, Goto, Answer, Owns
  <2>2. CASE InternalError(r) /\ pc[r] \in Stages
    <3>1. resp'[r].code = "INTERNAL" /\ pc'[r] = "done"
      BY <2>2 DEF InternalError, Answer
    <3> QED
      BY <3>1
  <2>3. CASE GetProject(r)
    <3>1. /\ created'[r] = created[r] /\ ~created[r] /\ input' = input
          /\ resp' = resp /\ resp[r] = None
      BY <2>3, <2>a DEF GetProject, CreatorKnown, locals, Owns
    <3>2. pc'[r] = "get_baseline" => input[r].thresholdPercent = None
      BY <2>3 DEF GetProject, Goto
    <3>3. pc'[r] \in {"create_project", "update_threshold", "get_baseline"}
      BY <2>3 DEF GetProject, Goto
    <3> QED
      BY <3>1, <3>2, <3>3
  <2>4. CASE CreateProject(r)
    <3>1. project'[r] = NewProject(r) /\ input' = input
      BY <2>4 DEF CreateProject
    <3> QED
      BY <3>1, NewProjectThreshold
  <2>5. CASE UpdateThreshold(r)
    <3>1. /\ project[r].id \in Requests /\ projects[project[r].id] \in Project
          /\ input[r].thresholdPercent \in Int /\ input[r].thresholdPercent # None
      BY <2>5, ThresholdUpdated DEF UpdateThreshold, Owns, ReportsInFlight, IngestInput
    <3>2. project'[r] = [projects[project[r].id] EXCEPT
                !.globalThresholdPercent = Stored(input[r].thresholdPercent)]
      BY <2>5, <3>1 DEF UpdateThreshold, UpdatedProjects
    <3>3. project'[r].globalThresholdPercent = Stored(input[r].thresholdPercent)
      BY <3>1, <3>2 DEF Project
    <3>4. input' = input
      BY <2>5 DEF UpdateThreshold
    <3> QED
      BY <3>1, <3>3, <3>4, StoredTwice
  <2>6. CASE GetBaseline(r) \/ ListBaselinePackages(r) \/ BuildRun(r) \/ InsertRun(r)
             \/ InsertPackage(r) \/ Commit(r)
    <3>1. /\ pc[r] \in Resolved \ {"update_threshold"}
          /\ project' = project /\ created' = created /\ input' = input
      BY <2>6 DEF GetBaseline, ListBaselinePackages, BuildRun, InsertRun,
         InsertPackage, Commit, Goto, locals
    <3> QED
      BY <2>a, <3>1
  <2>7. CASE Respond(r)
    <3>1. /\ pc[r] = "respond"
          /\ project' = project /\ created' = created /\ input' = input
      BY <2>7 DEF Respond, Answer, locals
    <3> QED
      BY <2>a, <3>1
  <2> QED
    BY <2>1, <2>2, <2>3, <2>4, <2>5, <2>6, <2>7
       DEF RequestStep, Step, CreateProjectConflict, StatementFails, ReplyLost
<1> QED
  BY <1>1, <1>2 DEF ThresholdHeld

\* A row's threshold is written with the row, or by a report for its key.
LEMMA ThresholdWritten ==
  ASSUME TableInv, NEW r \in Requests, RequestStep(r), NEW p \in Requests
  PROVE  \/ projects'[p] = projects[p]
         \/ /\ p = r /\ Owns(input, r) /\ Owns(projects, r)'
            /\ projects'[r].projectKey = input[r].projectKey
            /\ projects'[r].globalThresholdPercent =
                  IF input[r].thresholdPercent = None THEN DefaultThresholdPercent
                  ELSE Stored(input[r].thresholdPercent)
         \/ /\ Owns(input, r) /\ input[r].thresholdPercent # None
            /\ projects'[p].projectKey = input[r].projectKey
            /\ projects'[p].globalThresholdPercent = Stored(input[r].thresholdPercent)
<1> USE DEF TableInv, tables, locals
<1>1. CASE UNCHANGED projects
  BY <1>1
<1>2. CASE /\ pc[r] = "create_project" /\ UniqueKeyHolds(r)
           /\ projects' = [projects EXCEPT ![r] = StoredProject(NewProject(r))]
  <2>1. NewProject(r) \in Project /\ Owns(projects, r)'
        /\ projects'[r].projectKey = input[r].projectKey
        /\ (p # r => projects'[p] = projects[p])
    BY <1>2, ProjectInserted
  <2>2. projects'[r].globalThresholdPercent = Stored(NewProject(r).globalThresholdPercent)
    BY <1>2, <2>1 DEF StoredProject, Project, TypeOK
  <2>3. Owns(input, r)
    BY <1>2 DEF ReportsInFlight
  <2> QED
    BY <2>1, <2>2, <2>3, NewProjectThreshold, DefaultIsStored
<1>3. CASE pc[r] = "update_threshold" /\ projects' = UpdatedProjects(r)
  <2> DEFINE row == projects[project[r].id]
  <2>1. /\ project[r].id \in Requests /\ row \in Project
        /\ row.projectKey = input[r].projectKey
        /\ Owns(input, r) /\ input[r].thresholdPercent # None
    BY <1>3 DEF LocalsAgree, Resolved, Owns, TypeOK, Project, ReportsInFlight
  <2>2. projects' = [projects EXCEPT ![project[r].id] =
            [row EXCEPT !.globalThresholdPercent = Stored(input[r].thresholdPercent)]]
    BY <1>3 DEF UpdatedProjects
  <2>3. CASE p = project[r].id
    <3>1. projects'[p] = [row EXCEPT !.globalThresholdPercent =
                              Stored(input[r].thresholdPercent)]
      BY <2>1, <2>2, <2>3 DEF TypeOK
    <3> QED
      BY <2>1, <3>1 DEF Project
  <2>4. CASE p # project[r].id
    BY <2>2, <2>4 DEF TypeOK
  <2> QED
    BY <2>3, <2>4
<1>4. \/ UNCHANGED projects
      \/ /\ pc[r] = "create_project" /\ UniqueKeyHolds(r)
         /\ projects' = [projects EXCEPT ![r] = StoredProject(NewProject(r))]
      \/ pc[r] = "update_threshold" /\ projects' = UpdatedProjects(r)
  BY DEF RequestStep, Receive, Step, StatementFails, ReplyLost, GetProject,
     CreateProject, CreateProjectConflict, UpdateThreshold, GetBaseline,
     ListBaselinePackages, BuildRun, InsertRun, InsertPackage, Commit, Respond
<1> QED
  BY <1>1, <1>2, <1>3, <1>4

\* A report that arrived is never replaced by another.
LEMMA InputStays ==
  ASSUME TableInv, AnswersFollow, NEW r \in Requests, RequestStep(r),
         NEW s \in Requests, Owns(input, s)
  PROVE  input'[s] = input[s]
<1>1. CASE s # r
  BY <1>1, OthersKeep
<1>2. CASE s = r
  <2>1. pc[r] # "idle"
    BY <1>2 DEF AnswersFollow
  <2> QED
    BY <1>2, <2>1 DEF RequestStep, Receive, Step, StatementFails, ReplyLost, locals,
     GetProject, CreateProject, CreateProjectConflict, UpdateThreshold, GetBaseline,
     ListBaselinePackages, BuildRun, InsertRun, InsertPackage, Commit, Respond
<1> QED
  BY <1>1, <1>2

\* Every threshold keeps a report that explains it.
LEMMA ThresholdIsExplainedStep ==
  ASSUME TableInv, AnswersFollow, ThresholdIsExplained,
         NEW r \in Requests, RequestStep(r)
  PROVE  ThresholdIsExplained'
<1> DEFINE Explains(s, p) ==
      /\ Owns(input, s)
      /\ input[s].projectKey = projects[p].projectKey
      /\ \/ /\ input[s].thresholdPercent # None
            /\ projects[p].globalThresholdPercent = Stored(input[s].thresholdPercent)
         \/ /\ s = p /\ input[s].thresholdPercent = None
            /\ projects[p].globalThresholdPercent = DefaultThresholdPercent
<1> SUFFICES ASSUME NEW p \in Requests, Owns(projects, p)'
             PROVE  \E s \in Requests : Explains(s, p)'
  BY DEF ThresholdIsExplained
<1>1. CASE projects'[p] = projects[p]
  <2>1. PICK s \in Requests : Explains(s, p)
    BY <1>1 DEF ThresholdIsExplained, Owns
  <2>2. input'[s] = input[s]
    BY <2>1, InputStays
  <2>3. Explains(s, p)'
    BY <1>1, <2>1, <2>2 DEF Owns
  <2> QED
    BY <2>3
<1>2. CASE projects'[p] # projects[p]
  <2>1. Owns(input, r) /\ input'[r] = input[r]
    BY <1>2, ThresholdWritten, InputStays
  <2>2. Explains(r, p)'
    BY <1>2, <2>1, ThresholdWritten DEF Owns
  <2> QED
    BY <2>2
<1> QED
  BY <1>1, <1>2

\* An answer given says what its request left in the tables, and stays true.
LEMMA AnswerMatchesTablesStep ==
  ASSUME TableInv, AnswersFollow, AnswersFollow', CreatorKnown, AnswerMatchesTables,
         NEW r \in Requests, RequestStep(r)
  PROVE  AnswerMatchesTables'
<1> DEFINE Good(s) ==
      /\ Code(s) = "OK" => Owns(runs, s) /\ resp[s].run = s
      /\ Code(s) = "INVALID_ARGUMENT" => ~Owns(runs, s) /\ ~Owns(projects, s)
      /\ Code(s) = "INTERNAL" =>
            /\ Owns(runs, s) => resp[s].stage = "commit"
            /\ Owns(projects, s) =>
                  resp[s].stage \notin {"get_project", "update_threshold"}
<1>1. ASSUME NEW s \in Requests, s # r PROVE Good(s)'
  <2>1. Good(s)
    BY DEF AnswerMatchesTables
  <2> QED
    BY <1>1, <2>1, OthersKeep DEF Code, Owns
<1>2. Good(r)'
  <2> USE DEF TableInv, TypeOK, Code
  <2>a. /\ Owns(resp, r) <=> pc[r] = "done"
        /\ Code(r)' = "OK" => Owns(runs, r)' /\ (resp[r].run = r)'
    BY DEF AnswersFollow
  <2>1. CASE \E in \in Inputs : Receive(r, in)
    <3>1. ~Owns(runs, r)' /\ ~Owns(projects, r)'
      BY <2>1 DEF Receive, CommittedLate, ProjectsWellFormed, Owns, tables
    <3>2. resp'[r] = resp[r] \/ resp'[r].code = "INVALID_ARGUMENT"
      BY <2>1 DEF Receive, Goto, Answer
    <3>3. resp[r] = None
      BY <2>1, <2>a DEF Receive, Owns
    <3> QED
      BY <3>1, <3>2, <3>3 DEF Owns
  <2>2. CASE InternalError(r) /\ pc[r] \in Stages \ {"respond"}
    <3>1. resp'[r] = [code |-> "INTERNAL", stage |-> pc[r]]
      BY <2>2 DEF InternalError, Answer
    <3>2. Owns(runs, r)' => pc[r] = "commit"
      BY <2>2, TablesGrow DEF CommittedLate, Stages
    <3>3. Owns(projects, r)' => pc[r] \notin {"get_project", "update_threshold"}
      BY TablesGrow DEF ProjectsWellFormed, CreatorKnown
    <3> QED
      BY <3>1, <3>2, <3>3
  <2>3. CASE Respond(r)
    <3>1. resp'[r].code = "OK"
      BY <2>3 DEF Respond, Answer, IngestOutput
    <3> QED
      BY <2>a, <3>1
  <2>4. CASE resp' = resp /\ pc[r] # "done"
    BY <2>4, <2>a DEF Owns
  <2>5. \/ \E in \in Inputs : Receive(r, in)
        \/ InternalError(r) /\ pc[r] \in Stages \ {"respond"}
        \/ Respond(r)
        \/ resp' = resp /\ pc[r] # "done"
    BY DEF RequestStep, Step, CreateProjectConflict, StatementFails, ReplyLost, Stages,
       GetProject, CreateProject, UpdateThreshold, GetBaseline,
       ListBaselinePackages, BuildRun, InsertRun, InsertPackage, Commit
  <2> QED
    BY <2>1, <2>2, <2>3, <2>4, <2>5
<1> QED
  BY <1>1, <1>2 DEF AnswerMatchesTables

\* A crash answers nobody and keeps every row.
LEMMA AnswerCrash == ASSUME TableInv, AnswerInv, Crash PROVE AnswerInv'
<1> USE DEF TableInv, AnswerInv, Crash, tables, locals
<1>1. \A r \in Requests :
          (pc'[r] = pc[r] /\ pc[r] \notin Stages) \/ (pc'[r] = "lost" /\ pc[r] # "done")
  BY DEF InFlight, Stages
<1>2. AnswersFollow'
  BY <1>1 DEF AnswersFollow, Code, Owns
<1>3. ASSUME NEW r \in Requests, Holds(r)'
      PROVE  Holds(r) /\ pc'[r] = pc[r] /\ pc[r] = "done"
  <2>1. resp' = resp /\ pc'[r] \notin Resolved
    BY <1>1 DEF Resolved, Stages
  <2>2. Owns(resp, r)
    BY <1>3, <2>1 DEF Holds, Code, Owns
  <2> QED
    BY <1>1, <1>3, <2>1, <2>2 DEF AnswersFollow, Holds, Code
<1>4. CreatorKnown'
  BY <1>1, <1>3 DEF CreatorKnown, Owns, Stages
<1>5. ThresholdHeld'
  BY <1>3 DEF ThresholdHeld
<1>6. ThresholdIsExplained' /\ AnswerMatchesTables'
  BY DEF ThresholdIsExplained, AnswerMatchesTables, Code, Owns
<1> QED
  BY <1>2, <1>4, <1>5, <1>6

\* The invariant of answers holds in every reachable state.
LEMMA AnswerInvariant == Spec => []AnswerInv
<1>1. Init => AnswerInv
  BY DEF Init, AnswerInv, AnswersFollow, CreatorKnown, ThresholdHeld,
     ThresholdIsExplained, AnswerMatchesTables, Holds, Code, Owns, Resolved
<1>2. TableInv /\ TableInv' /\ AnswerInv /\ [Next]_vars => AnswerInv'
  <2> SUFFICES ASSUME TableInv, TableInv', AnswerInv, [Next]_vars PROVE AnswerInv'
    OBVIOUS
  <2>1. ASSUME NEW r \in Requests, RequestStep(r) PROVE AnswerInv'
    BY <2>1, AnswersFollowStep, CreatorKnownStep, ThresholdHeldStep,
       ThresholdIsExplainedStep, AnswerMatchesTablesStep DEF AnswerInv
  <2>2. CASE UNCHANGED vars
    BY <2>2 DEF vars, tables, locals, AnswerInv, AnswersFollow, CreatorKnown,
       ThresholdHeld, ThresholdIsExplained, AnswerMatchesTables, Holds, Code, Owns
  <2> QED
    BY <2>1, <2>2, AnswerCrash DEF Next, RequestStep, Terminating
<1> QED
  BY <1>1, <1>2, InvariantHolds, PTL DEF Spec

-----------------------------------------------------------------------------
(* The theorems about answers. *)

\* What a submission is told is what it left behind, whatever failed: success
\* names its committed run, a rejected report left no row, and INTERNAL leaves a
\* run only when COMMIT itself failed.
THEOREM AnswersAreTrue == Spec => []AnswerMatchesTables
<1>1. AnswerInv => AnswerMatchesTables
  BY DEF AnswerInv
<1> QED
  BY <1>1, AnswerInvariant, PTL

\* However submissions of a new key interleave, one of them at most is told that
\* it created the project, and it is the one whose row it is.
THEOREM CreatorIsUnique == Spec => []OneCreator
<1>1. TableInv /\ AnswerInv => OneCreator
  <2> SUFFICES ASSUME TableInv, AnswerInv PROVE OneCreator
    OBVIOUS
  <2> USE DEF TableInv, AnswerInv
  <2>1. ASSUME NEW r \in Requests, Code(r) = "OK"
        PROVE  /\ resp[r].created <=> resp[r].project = r
               /\ resp[r].created => /\ Owns(projects, r)
                                     /\ projects[r].projectKey = input[r].projectKey
    BY <2>1 DEF AnswersFollow, CreatorKnown, Holds, ProjectsWellFormed
  <2> QED
    BY <2>1 DEF OneCreator, OneProjectPerKey
<1> QED
  BY <1>1, InvariantHolds, AnswerInvariant, PTL

\* A submission that carries a threshold is judged by it, whatever threshold a
\* concurrent submission sets; a new project without one is judged by 80 %.
THEOREM ThresholdIsOwn == Spec => []OwnThresholdApplies
<1>1. TableInv /\ AnswerInv => OwnThresholdApplies
  <2> SUFFICES ASSUME TableInv, AnswerInv, NEW r \in Requests, Code(r) = "OK"
               PROVE  LET used == resp[r].comparison.thresholdPercent
                      IN  /\ input[r].thresholdPercent # None =>
                                Stored(used) = Stored(input[r].thresholdPercent)
                          /\ input[r].thresholdPercent = None /\ created[r] =>
                                used = DefaultThresholdPercent
    BY DEF OwnThresholdApplies
  <2>1. /\ resp[r].comparison.thresholdPercent = project[r].globalThresholdPercent
        /\ Owns(resp, r)
    BY NoneIsNoValue DEF AnswerInv, AnswersFollow, Code, Owns
  <2>2. pc[r] = "done"
    BY <2>1 DEF AnswerInv, AnswersFollow
  <2> QED
    BY <2>1, <2>2 DEF AnswerInv, ThresholdHeld, Holds
<1> QED
  BY <1>1, InvariantHolds, AnswerInvariant, PTL

\* A project's threshold is always one that a submission for its key asked for.
THEOREM ThresholdsExplained == Spec => []ThresholdIsExplained
<1>1. AnswerInv => ThresholdIsExplained
  BY DEF AnswerInv
<1> QED
  BY <1>1, AnswerInvariant, PTL

-----------------------------------------------------------------------------
(* Baselines. *)

\* The clock never goes back, and neither a run built nor one seen is ahead of it.
LEMMA ClockStep ==
  ASSUME TableInv, TableInv', ClockInv, NEW r \in Requests, RequestStep(r)
  PROVE  ClockInv' /\ clock' >= clock
<1> USE DEF TableInv
<1>1. clock' >= clock /\ clock \in Nat /\ clock' \in Nat
  <2>1. clock' \in {clock, clock + 1}
    BY DEF RequestStep, Receive, Step, StatementFails, ReplyLost, GetProject,
       CreateProject, CreateProjectConflict, UpdateThreshold, GetBaseline,
       ListBaselinePackages, BuildRun, InsertRun, InsertPackage, Commit, Respond
  <2> QED
    BY <2>1 DEF TypeOK
<1>2. ASSUME NEW s \in Requests, Owns(run, s)' PROVE run'[s].createdAt <= clock'
  <2>1. CASE run'[s] = run[s]
    <3>1. run[s] \in CoverageRun /\ run[s].createdAt <= clock
      BY <1>2, <2>1 DEF ClockInv, Owns, TypeOK
    <3> QED
      BY <1>1, <2>1, <3>1 DEF CoverageRun
  <2>2. CASE run'[s] # run[s]
    <3>1. s = r
      BY <2>2, OthersKeep
    <3>2. BuildRun(r)
      BY <2>2, <3>1 DEF RequestStep, Receive, Step, StatementFails, ReplyLost, locals,
         GetProject, CreateProject, CreateProjectConflict, UpdateThreshold, GetBaseline,
         ListBaselinePackages, InsertRun, InsertPackage, Commit, Respond
    <3>3. run'[r].createdAt = clock'
      BY <3>2 DEF BuildRun, TypeOK
    <3> QED
      BY <1>1, <3>1, <3>3
  <2> QED
    BY <2>1, <2>2
<1>3. ASSUME NEW c \in Requests, Owns(runs, c)' PROVE runs'[c].createdAt <= clock'
  <2>1. CASE Owns(runs, c)
    <3>1. runs'[c] = runs[c] /\ runs[c].createdAt <= clock /\ runs[c] \in CoverageRun
      BY <2>1, TablesGrow DEF ClockInv, Owns, TypeOK
    <3> QED
      BY <1>1, <3>1 DEF CoverageRun
  <2>2. CASE ~Owns(runs, c)
    <3>1. c = r /\ pc[r] = "commit"
      BY <1>3, <2>2, TablesGrow
    <3>2. ApplyTx(r)
      BY <1>3, <2>2, <3>1 DEF RequestStep, Receive, Step, StatementFails, ReplyLost,
         Owns, GetProject, CreateProject, CreateProjectConflict, UpdateThreshold,
         GetBaseline, ListBaselinePackages, BuildRun, InsertRun, InsertPackage,
         Commit, Respond, tables
    <3>3. /\ runs'[r] = StoredRun(run[r]) /\ run[r] \in CoverageRun
          /\ run[r].createdAt <= clock
      BY <3>1, <3>2 DEF ApplyTx, TypeOK, TxHolds, RunBuilt, Built, Owns, ClockInv
    <3>4. runs'[r].createdAt = run[r].createdAt
      BY <3>3 DEF StoredRun, CoverageRun
    <3> QED
      BY <1>1, <3>1, <3>3, <3>4 DEF CoverageRun
  <2> QED
    BY <2>1, <2>2
<1>4. ASSUME NEW s \in Requests, NEW c \in seen'[s] PROVE Owns(runs, c)'
  <2>0. c \in Requests
    BY <1>4 DEF TypeOK
  <2>1. Owns(runs, c)
    <3>1. CASE seen'[s] = seen[s]
      BY <3>1 DEF ClockInv
    <3>2. CASE seen'[s] # seen[s]
      <4>1. s = r
        BY <3>2, OthersKeep
      <4>2. \E in \in Inputs : Receive(r, in)
        BY <3>2, <4>1 DEF RequestStep, Step, StatementFails, ReplyLost, GetProject,
           CreateProject, CreateProjectConflict, UpdateThreshold, GetBaseline,
           ListBaselinePackages, BuildRun, InsertRun, InsertPackage, Commit, Respond
      <4>3. seen'[r] = {d \in Requests : runs[d] # None}
        BY <4>2 DEF Receive, TypeOK
      <4> QED
        BY <4>1, <4>3 DEF Owns
    <3> QED
      BY <3>1, <3>2
  <2> QED
    BY <2>0, <2>1, TablesGrow DEF Owns
<1> QED
  BY <1>1, <1>2, <1>3, <1>4 DEF ClockInv

\* A baseline stays what it was when it was read: a committed run, no older than
\* any the request saw on arrival, and the project it belongs to stays held.
LEMMA BaselineStep ==
  ASSUME TableInv, TableInv', AnswersFollow, ClockInv, BaselineReadOnce,
         BaselinePrecedesRun, BaselineIsFresh, NEW r \in Requests, RequestStep(r)
  PROVE  BaselineReadOnce' /\ BaselinePrecedesRun' /\ BaselineIsFresh'
<1> USE DEF TableInv
<1> DEFINE Once(s) == pc[s] \in Unread => ~Owns(baseline, s)
           Precedes(s) == Owns(baseline, s) =>
              /\ baseline[s] # s
              /\ runs[baseline[s]].projectId = project[s].id
              /\ runs[baseline[s]].branch = project[s].defaultBranch
              /\ Owns(run, s) => runs[baseline[s]].createdAt <= run[s].createdAt
           Fresh(s) == BaselineRead(s) =>
              \A c \in seen[s] :
                /\ runs[c].projectId = project[s].id
                /\ runs[c].branch = project[s].defaultBranch
                => Owns(baseline, s) /\ ~Newer(runs[c], runs[baseline[s]])
<1>a. ASSUME NEW s \in Requests PROVE Once(s) /\ Precedes(s) /\ Fresh(s)
  BY DEF BaselineReadOnce, BaselinePrecedesRun, BaselineIsFresh
<1>b. ASSUME NEW s \in Requests, NEW c \in seen[s]
      PROVE  c \in Requests /\ Owns(runs, c) /\ runs'[c] = runs[c]
  BY TablesGrow DEF ClockInv, TypeOK
<1>c. ASSUME NEW s \in Requests, Owns(baseline, s)
      PROVE  /\ baseline[s] \in Requests /\ Owns(runs, baseline[s])
             /\ runs'[baseline[s]] = runs[baseline[s]]
  BY <1>c, TablesGrow DEF BaselineKnown, Owns, TypeOK
<1> DEFINE Same(s) == /\ baseline'[s] = baseline[s] /\ project'[s] = project[s]
                     /\ run'[s] = run[s] /\ seen'[s] = seen[s]
<1>d. ASSUME NEW s \in Requests, Same(s) PROVE Precedes(s)'
  BY <1>a, <1>c, <1>d DEF Owns
<1>e. ASSUME NEW s \in Requests, Same(s), BaselineRead(s)' => BaselineRead(s)
      PROVE  Fresh(s)'
  <2> SUFFICES ASSUME BaselineRead(s)', NEW c \in seen[s],
                      runs[c].projectId = project[s].id,
                      runs[c].branch = project[s].defaultBranch
               PROVE  Owns(baseline, s)' /\ ~Newer(runs[c], runs[baseline[s]])'
    BY <1>b, <1>e
  <2>1. Owns(baseline, s) /\ ~Newer(runs[c], runs[baseline[s]])
    BY <1>a, <1>e
  <2>2. runs'[c] = runs[c] /\ runs'[baseline[s]] = runs[baseline[s]]
        /\ baseline'[s] = baseline[s]
    BY <1>b, <1>c, <1>e, <2>1
  <2> QED
    BY <2>1, <2>2 DEF Owns, Newer
<1> DEFINE Good(s) == Once(s) /\ Precedes(s) /\ Fresh(s)
<1>1. ASSUME NEW s \in Requests, s # r PROVE Good(s)'
  <2>1. /\ Same(s) /\ pc'[s] = pc[s] /\ resp'[s] = resp[s]
        /\ BaselineRead(s)' => BaselineRead(s)
    BY <1>1, OthersKeep DEF BaselineRead, Code
  <2>2. Once(s)'
    BY <1>a, <2>1 DEF Owns
  <2> HIDE DEF Precedes, Fresh, Once
  <2> QED
    BY <1>d, <1>e, <2>1, <2>2
<1>2. Good(r)'
  <2>a. Owns(resp, r) <=> pc[r] = "done"
    BY DEF AnswersFollow
  <2>1. CASE /\ Same(r) /\ pc[r] # "done"
             /\ pc'[r] \in Unread => pc[r] \in Unread
             /\ BaselineRead(r)' => BaselineRead(r)
    <3>1. Once(r)'
      BY <1>a, <2>1 DEF Owns
    <3> HIDE DEF Precedes, Fresh, Once
    <3> QED
      BY <1>d, <1>e, <2>1, <3>1
  <2>2. CASE \E in \in Inputs : Receive(r, in)
    <3>1. ~Owns(baseline, r)' /\ ~BaselineRead(r)'
      <4>1. baseline'[r] = None
        BY <1>a, <2>2 DEF Receive, Unread, Owns
      <4>2. /\ pc'[r] \in {"get_project", "done"}
            /\ resp'[r] = resp[r] \/ resp'[r].code = "INVALID_ARGUMENT"
        BY <2>2 DEF Receive, Goto, Answer, TypeOK
      <4>3. resp[r] = None
        BY <2>2, <2>a DEF Receive, Owns
      <4> QED
        BY <4>1, <4>2, <4>3 DEF BaselineRead, Code, Owns
    <3> QED
      BY <3>1
  <2>3. CASE InternalError(r) /\ pc[r] \in Stages /\ UNCHANGED locals /\ seen' = seen
    <3>1. pc'[r] = "done" /\ Code(r)' = "INTERNAL"
      <4>1. resp'[r] = [code |-> "INTERNAL", stage |-> pc[r]] /\ pc'[r] = "done"
        BY <2>3 DEF InternalError, Answer, TypeOK
      <4>2. [code |-> "INTERNAL", stage |-> pc[r]] # None
        BY <2>3, NoneIsNoValue DEF ErrorAnswer
      <4> QED
        BY <4>1, <4>2 DEF Code
    <3>2. ~BaselineRead(r)' /\ pc'[r] \notin Unread
      BY <3>1 DEF BaselineRead, Unread
    <3>3. Same(r)
      BY <2>3 DEF locals
    <3>4. Precedes(r)'
      BY <1>d, <3>3
    <3> QED
      BY <3>2, <3>4
  <2>4. CASE GetProject(r) \/ CreateProject(r) \/ UpdateThreshold(r)
    <3>1. /\ baseline' = baseline /\ pc[r] \in Unread /\ pc'[r] \in Unread
          /\ resp' = resp /\ pc[r] # "done"
      BY <2>4 DEF GetProject, CreateProject, UpdateThreshold, Goto, TypeOK, Unread
    <3>2. ~Owns(baseline, r)' /\ ~BaselineRead(r)'
      BY <1>a, <2>a, <3>1 DEF BaselineRead, Code, Owns, Unread
    <3> QED
      BY <3>2
  <2>5. CASE GetBaseline(r)
    <3> DEFINE found == RunsOn(project[r].id, project[r].defaultBranch)
    <3>1. /\ pc[r] = "get_baseline" /\ project' = project /\ run' = run /\ seen' = seen
          /\ runs' = runs /\ pc'[r] \in {"build_run", "list_baseline_packages"}
      BY <2>5 DEF GetBaseline, Goto, TypeOK, tables
    <3>2. pc'[r] \notin Unread /\ ~Owns(run, r) /\ ~Owns(baseline, r) /\ ~Owns(runs, r)
      BY <1>a, <3>1 DEF Unread, RunBuilt, Built, Stages, CommittedLate
    <3>3. \/ found = {} /\ baseline' = baseline
          \/ baseline'[r] \in Latest(found)
      BY <2>5 DEF GetBaseline, TypeOK
    <3>4. ASSUME NEW c \in seen[r], runs[c].projectId = project[r].id,
                 runs[c].branch = project[r].defaultBranch
          PROVE  c \in found
      BY <1>b, <3>4 DEF RunsOn, Owns
    <3>5. CASE found = {} /\ baseline' = baseline
      <4>1. ~Owns(baseline, r)'
        BY <3>2, <3>5 DEF Owns
      <4>2. Fresh(r)'
        BY <3>1, <3>4, <3>5
      <4> QED
        BY <3>2, <4>1, <4>2
    <3>6. CASE baseline'[r] \in Latest(found)
      <4>1. /\ baseline'[r] \in Requests /\ Owns(runs, baseline'[r])
            /\ runs[baseline'[r]].projectId = project[r].id
            /\ runs[baseline'[r]].branch = project[r].defaultBranch
            /\ \A d \in found : ~Newer(runs[d], runs[baseline'[r]])
        BY <3>6 DEF Latest, RunsOn, Owns
      <4>2. baseline'[r] # r /\ Owns(baseline, r)'
        BY <3>2, <4>1, NoneIsNoValue DEF Owns
      <4>3. Precedes(r)'
        BY <3>1, <3>2, <4>1, <4>2 DEF Owns
      <4>4. Fresh(r)'
        BY <3>1, <3>4, <4>1, <4>2 DEF Newer
      <4> QED
        BY <3>2, <4>3, <4>4
    <3> QED
      BY <3>3, <3>5, <3>6
  <2>6. CASE BuildRun(r)
    <3>1. /\ pc[r] = "build_run" /\ pc'[r] = "insert_run"
          /\ baseline' = baseline /\ project' = project /\ seen' = seen
          /\ runs' = runs /\ run'[r].createdAt = clock'
      BY <2>6 DEF BuildRun, Goto, TypeOK, tables
    <3>2. ASSUME Owns(baseline, r)
          PROVE  runs[baseline[r]].createdAt <= run'[r].createdAt
      <4>1. runs[baseline[r]] \in CoverageRun /\ runs[baseline[r]].createdAt <= clock
        BY <1>c, <3>2 DEF ClockInv, TypeOK, Owns
      <4>2. clock' >= clock /\ clock \in Nat /\ clock' \in Nat
        BY ClockStep DEF TypeOK
      <4> QED
        BY <3>1, <4>1, <4>2 DEF CoverageRun
    <3>3. Precedes(r)'
      BY <1>a, <3>1, <3>2 DEF Owns
    <3>4. Fresh(r)'
      BY <1>a, <3>1 DEF BaselineRead, Owns, Newer
    <3> QED
      BY <3>1, <3>3, <3>4 DEF Unread
  <2>7. CASE ListBaselinePackages(r) \/ InsertRun(r) \/ InsertPackage(r) \/ Commit(r)
             \/ Respond(r)
    <3>1. /\ Same(r) /\ pc[r] # "done" /\ pc'[r] \notin Unread /\ BaselineRead(r)
      BY <2>7 DEF ListBaselinePackages, InsertRun, InsertPackage, Commit, Respond,
         Goto, Answer, locals, TypeOK, Unread, BaselineRead
    <3> HIDE DEF Same
    <3> QED
      BY <2>1, <3>1
  <2>8. CreateProjectConflict(r) \/ StatementFails(r) \/ ReplyLost(r)
        => InternalError(r) /\ pc[r] \in Stages /\ UNCHANGED locals /\ seen' = seen
    BY DEF CreateProjectConflict, StatementFails, ReplyLost, Stages
  <2> HIDE DEF Good
  <2> QED
    BY <2>2, <2>3, <2>4, <2>5, <2>6, <2>7, <2>8 DEF RequestStep, Step
<1> HIDE DEF Once, Precedes, Fresh
<1>3. \A s \in Requests : Good(s)'
  BY <1>1, <1>2
<1> QED
  BY <1>3 DEF BaselineReadOnce, BaselinePrecedesRun, BaselineIsFresh, Once, Precedes, Fresh

\* A crash and a stuttering step read no baseline.
LEMMA BaselineStays ==
  ASSUME BaselineInv, UNCHANGED <<tables, clock, locals, resp, seen>>,
         \A r \in Requests : pc'[r] = pc[r] \/ pc'[r] = "lost"
  PROVE  BaselineInv'
<1> USE DEF tables, locals
<1>1. ClockInv' /\ BaselinePrecedesRun'
  BY DEF BaselineInv, ClockInv, BaselinePrecedesRun, Owns
<1>2. BaselineReadOnce'
  BY DEF BaselineInv, BaselineReadOnce, Owns, Unread
<1>3. ASSUME NEW r \in Requests, BaselineRead(r)' PROVE BaselineRead(r)
  BY <1>3 DEF BaselineRead, Code
<1>4. BaselineIsFresh'
  BY <1>3 DEF BaselineInv, BaselineIsFresh, Owns, Newer
<1> QED
  BY <1>1, <1>2, <1>4 DEF BaselineInv

\* The invariant of baselines holds in every reachable state.
LEMMA BaselineInvariant == Spec => []BaselineInv
<1>1. Init => BaselineInv
  BY DEF Init, BaselineInv, ClockInv, BaselineReadOnce, BaselinePrecedesRun,
     BaselineIsFresh, BaselineRead, Code, Owns
<1>2. TableInv /\ TableInv' /\ AnswerInv /\ BaselineInv /\ [Next]_vars => BaselineInv'
  <2> SUFFICES ASSUME TableInv, TableInv', AnswerInv, BaselineInv, [Next]_vars
               PROVE  BaselineInv'
    OBVIOUS
  <2>1. ASSUME NEW r \in Requests, RequestStep(r) PROVE BaselineInv'
    BY <2>1, ClockStep, BaselineStep DEF AnswerInv, BaselineInv
  <2>2. CASE Crash
    BY <2>2, BaselineStays DEF Crash
  <2>3. CASE UNCHANGED vars
    BY <2>3, BaselineStays DEF vars
  <2> QED
    BY <2>1, <2>2, <2>3 DEF Next, RequestStep, Terminating
<1> QED
  BY <1>1, <1>2, InvariantHolds, AnswerInvariant, PTL DEF Spec

\* A run is never its own baseline, and the baseline is a default-branch run of
\* its project that was created no later than the run compared with it.
THEOREM BaselinesPrecede == Spec => []BaselinePrecedesRun
<1>1. BaselineInv => BaselinePrecedesRun
  BY DEF BaselineInv
<1> QED
  BY <1>1, BaselineInvariant, PTL

\* Whatever commits while a submission is under way, its baseline is no older
\* than any default-branch run committed before it arrived.
THEOREM BaselinesFresh == Spec => []BaselineIsFresh
<1>1. BaselineInv => BaselineIsFresh
  BY DEF BaselineInv
<1> QED
  BY <1>1, BaselineInvariant, PTL

-----------------------------------------------------------------------------
(* Refinement: however the requests interleave and fail, what a reader of  *)
(* the tables can see is a register with one project per key and a history *)
(* that grows by whole runs.                                               *)

\* The history as the refinement mapping reads it from the tables.
Entry(c) == IF runs[c] = None THEN None
            ELSE [run |-> runs[c], packages |-> packages[c]]
Recorded == [c \in Requests |-> Entry(c)]
Acked == {r \in Requests : Code(r) = "OK"}

-----------------------------------------------------------------------------

\* The abstract specification has its own copy of the domain rules: the same.
LEMMA SameDomain ==
  ASSUME NEW v
  PROVE  /\ History!Stored(v) = Stored(v)
         /\ History!StoredPackages(v) = StoredPackages(v)
         /\ History!ValidInput(v) <=> ValidInput(v)
<1>1. ASSUME NEW p PROVE History!Stored(p) = Stored(p)
  BY DEF History!Stored, Stored, History!Cent, Cent
<1>2. History!StoredPackages(v) = StoredPackages(v)
  BY <1>1 DEF History!StoredPackages, StoredPackages
<1>3. ASSUME NEW p
      PROVE  /\ History!ValidateCoveragePercent(p) <=> ValidateCoveragePercent(p)
             /\ History!ValidateTriggerType(p) <=> ValidateTriggerType(p)
             /\ History!UniqueImportPaths(p) <=> UniqueImportPaths(p)
  BY DEF History!ValidateCoveragePercent, ValidateCoveragePercent, History!Hundred,
     Hundred, History!ValidateTriggerType, ValidateTriggerType,
     History!UniqueImportPaths, UniqueImportPaths
<1>4. History!ValidInput(v) <=> ValidInput(v)
  BY <1>3 DEF History!ValidInput, ValidInput
<1> QED
  BY <1>1, <1>2, <1>4

\* A history entry is not the absence of one.
LEMMA EntryIsSome ==
  ASSUME TableInv, NEW c \in Requests
  PROVE  Entry(c) = None <=> ~Owns(runs, c)
<1>1. ASSUME runs[c] # None PROVE Entry(c) # None
  <2>1. runs[c] \in CoverageRun /\ packages[c] \in SUBSET PackageCoverage
    BY <1>1 DEF TableInv, TypeOK
  <2>2. Entry(c) \in [run: CoverageRun, packages: SUBSET PackageCoverage]
    BY <1>1, <2>1 DEF Entry
  <2> QED
    BY <2>2, NoneIsNoValue
<1> QED
  BY <1>1 DEF Entry, Owns

\* A step that answers nothing, or answers an error, acknowledges nothing.
LEMMA NothingAcked ==
  ASSUME TableInv, AnswerInv, NEW r \in Requests, pc[r] # "done",
         \/ resp' = resp
         \/ \E stage \in Stages \cup {"validate"} :
               \E code \in {"INTERNAL", "INVALID_ARGUMENT"} :
                 resp' = [resp EXCEPT ![r] = [code |-> code, stage |-> stage]]
  PROVE  Acked' = Acked
<1>1. CASE resp' = resp
  BY <1>1 DEF Acked, Code
<1>2. ASSUME NEW stage \in Stages \cup {"validate"},
             NEW code \in {"INTERNAL", "INVALID_ARGUMENT"},
             resp' = [resp EXCEPT ![r] = [code |-> code, stage |-> stage]]
      PROVE  Acked' = Acked
  <2>1. Code(r) # "OK"
    BY DEF AnswerInv, AnswersFollow, Code, Owns
  <2>2. resp'[r].code # "OK" /\ \A s \in Requests \ {r} : resp'[s] = resp[s]
    BY <1>2 DEF TableInv, TypeOK
  <2>3. Code(r)' # "OK" /\ \A s \in Requests \ {r} : Code(s)' = Code(s)
    BY <2>2 DEF Code
  <2> QED
    BY <2>1, <2>3 DEF Acked
<1> QED
  BY <1>1, <1>2

\* Tables that stay give a history that stays.
LEMMA RecordedStays ==
  ASSUME UNCHANGED <<runs, packages>> PROVE Recorded' = Recorded
  BY DEF Recorded, Entry

-----------------------------------------------------------------------------
(* Each step of a request is a step of the history, or none. *)

\* The arrival of a report is its submission.
LEMMA ReceiveSubmits ==
  ASSUME TableInv, AnswerInv, NEW r \in Requests, NEW in \in Inputs, Receive(r, in)
  PROVE  History!Submit(r)
<1>1. input[r] = None /\ in # None
  BY NoneIsNoValue, DomainOfInputs DEF Receive, AnswerInv, AnswersFollow, Owns
<1>2. input' = [input EXCEPT ![r] = in] /\ input'[r] = in
  BY DEF Receive, TableInv, TypeOK
<1>3. Acked' = Acked
  BY NothingAcked DEF Receive, Answer
<1>4. Recorded' = Recorded /\ projects' = projects
  BY RecordedStays DEF Receive, tables
<1> QED
  BY <1>1, <1>2, <1>3, <1>4 DEF History!Submit, History!Enters, Recorded, Acked, Entry

\* The INSERT of a project registers the key of a valid report.
LEMMA InsertRegisters ==
  ASSUME TableInv, AnswerInv, NEW r \in Requests, pc[r] = "create_project",
         UniqueKeyHolds(r),
         projects' = [projects EXCEPT ![r] = StoredProject(NewProject(r))],
         UNCHANGED <<input, runs, packages>>, Acked' = Acked
  PROVE  History!Register(r)
<1>1. input[r] # None /\ ValidInput(input[r])
  BY DEF TableInv, ReportsInFlight, Owns, Stages
<1>2. /\ projects[r] = None /\ projects'[r] # None
      /\ projects'[r] = StoredProject(NewProject(r))
      /\ projects'[r].projectKey = input[r].projectKey
  BY ProjectInserted DEF TableInv, TypeOK, ProjectsWellFormed, Owns
<1>3. \A j \in Requests : projects[j] # None =>
          projects[j].projectKey # input[r].projectKey
  BY DEF UniqueKeyHolds, ProjectsWithKey
<1>4. Recorded' = Recorded
  BY RecordedStays
<1> QED
  BY <1>1, <1>2, <1>3, <1>4, SameDomain
     DEF History!Register, History!Enters, Recorded, Acked, Entry

\* The UPDATE of a threshold moves that of the report's own project.
LEMMA UpdateSetsThreshold ==
  ASSUME TableInv, NEW r \in Requests, pc[r] = "update_threshold",
         projects' = UpdatedProjects(r),
         UNCHANGED <<input, runs, packages>>, Acked' = Acked
  PROVE  \E p \in Requests : History!SetThreshold(r, p)
<1>1. /\ project[r].id \in Requests /\ projects[project[r].id] # None
      /\ input[r] # None /\ input[r].thresholdPercent # None
      /\ input[r].projectKey = projects[project[r].id].projectKey
  BY DEF TableInv, LocalsAgree, Resolved, ReportsInFlight, Owns, TypeOK, Project
<1>2. Recorded' = Recorded
  BY RecordedStays
<1>3. History!SetThreshold(r, project[r].id)
  BY <1>1, <1>2, SameDomain DEF History!SetThreshold, UpdatedProjects, Recorded, Acked, Entry
<1> QED
  BY <1>1, <1>3

\* COMMIT records the run of a valid report, whole.
LEMMA CommitRecords ==
  ASSUME TableInv, NEW r \in Requests, pc[r] = "commit", ApplyTx(r),
         UNCHANGED <<input, projects>>, Acked' = Acked
  PROVE  History!Record(r)
<1> USE DEF TableInv
<1>1. input[r] # None /\ ValidInput(input[r])
  BY DEF ReportsInFlight, Owns, Stages
<1>2. /\ runs'[r] = StoredRun(run[r])
      /\ runs' = [runs EXCEPT ![r] = StoredRun(run[r])]
      /\ runs' \in [Requests -> CoverageRun \cup {None}]
      /\ runs'[r] # None
      /\ packages'[r] = StoredPackages(input[r].packages)
      /\ packages' = [packages EXCEPT ![r] = packages'[r]]
  BY RunCommitted DEF ApplyTx, TxHolds, TypeOK, Owns
<1>3. Entry(r)' = [run |-> runs'[r], packages |-> packages'[r]]
  BY <1>2 DEF Entry
<1>4. Recorded[r] = None /\ Recorded'[r] = Entry(r)' /\ Recorded'[r] # None
  <2>1. ~Owns(runs, r)
    BY DEF CommittedLate
  <2>2. runs'[r] \in CoverageRun /\ packages'[r] \in SUBSET PackageCoverage
    BY <1>2, RunCommitted
  <2>3. Entry(r)' \in [run: CoverageRun, packages: SUBSET PackageCoverage]
    BY <1>3, <2>2
  <2> QED
    BY <2>1, <2>3, NoneIsNoValue DEF Recorded, Entry, Owns
<1>5. Recorded' = [Recorded EXCEPT ![r] = Recorded'[r]]
  <2>1. \A c \in Requests \ {r} : Entry(c)' = Entry(c)
    BY <1>2 DEF Entry, TypeOK
  <2> QED
    BY <2>1 DEF Recorded
<1>6. run[r] \in CoverageRun /\ StoredRun(run[r]).projectId = project[r].id
      /\ StoredRun(run[r]).branch = input[r].branch
      /\ StoredRun(run[r]).runTimestamp = input[r].runTimestamp
      /\ StoredRun(run[r]).totalCoveragePercent = Stored(input[r].totalCoveragePercent)
  BY DEF RunBuilt, Built, Owns, TypeOK, StoredRun, CoverageRun
<1>7. projects[project[r].id] # None
      /\ projects[project[r].id].projectKey = input[r].projectKey
  BY DEF LocalsAgree, Resolved, Owns
<1>8. Recorded'[r].run = StoredRun(run[r])
      /\ Recorded'[r].packages = StoredPackages(input[r].packages)
  BY <1>2, <1>3, <1>4
<1> HIDE DEF TableInv
<1>9. History!Enters(Recorded, Recorded', r)
  BY <1>4, <1>5 DEF History!Enters
<1> QED
  BY <1>1, <1>6, <1>7, <1>8, <1>9, SameDomain DEF History!Record, Recorded, Acked, Entry

\* A success acknowledges a run that is in the history.
LEMMA RespondAcknowledges ==
  ASSUME TableInv, AnswerInv, NEW r \in Requests, Respond(r)
  PROVE  History!Acknowledge(r)
<1>1. pc[r] = "respond" /\ resp' = [resp EXCEPT ![r] = IngestOutput(r)]
      /\ UNCHANGED <<input, projects, runs, packages>>
  BY DEF Respond, Answer, tables, locals
<1>2. Recorded[r] # None
  BY <1>1, EntryIsSome DEF Recorded, AnswerInv, AnswersFollow
<1>3. Code(r)' = "OK" /\ \A s \in Requests \ {r} : Code(s)' = Code(s)
  <2>1. resp'[r] = IngestOutput(r) /\ \A s \in Requests \ {r} : resp'[s] = resp[s]
    BY <1>1 DEF TableInv, TypeOK
  <2>2. IngestOutput(r) # None /\ IngestOutput(r).code = "OK"
    BY <1>1, IngestOutputType, NoneIsNoValue DEF IngestOutput
  <2> QED
    BY <2>1, <2>2 DEF Code
<1>4. Acked' = Acked \cup {r}
  BY <1>3 DEF Acked
<1>5. Recorded' = Recorded
  BY <1>1, RecordedStays
<1> QED
  BY <1>1, <1>2, <1>4, <1>5 DEF History!Acknowledge, Recorded, Acked, Entry

\* The other steps show a reader nothing.
LEMMA LocalStepsStutter ==
  ASSUME TableInv, AnswerInv, NEW r \in Requests,
         \/ GetProject(r) \/ GetBaseline(r) \/ ListBaselinePackages(r)
         \/ BuildRun(r) \/ InsertRun(r) \/ InsertPackage(r)
         \/ CreateProjectConflict(r) \/ StatementFails(r)
  PROVE  UNCHANGED History!vars
<1>1. UNCHANGED <<input, projects, runs, packages>>
  BY DEF GetProject, GetBaseline, ListBaselinePackages, BuildRun, InsertRun,
     InsertPackage, CreateProjectConflict, StatementFails, tables, locals
<1>2. Acked' = Acked
  <2>1. CASE CreateProjectConflict(r) \/ StatementFails(r)
    BY <2>1, NothingAcked DEF CreateProjectConflict, StatementFails, InternalError,
       Answer, Stages
  <2>2. CASE ~(CreateProjectConflict(r) \/ StatementFails(r))
    BY <2>2, NothingAcked DEF GetProject, GetBaseline, ListBaselinePackages, BuildRun,
       InsertRun, InsertPackage
  <2> QED
    BY <2>1, <2>2
<1>3. Recorded' = Recorded
  BY <1>1, RecordedStays
<1> QED
  BY <1>1, <1>2, <1>3 DEF History!vars, Recorded, Acked, Entry

\* A lost reply shows the effect its statement had.
LEMMA ReplyLostMaps ==
  ASSUME TableInv, AnswerInv, NEW r \in Requests, ReplyLost(r)
  PROVE  History!Register(r) \/ (\E p \in Requests : History!SetThreshold(r, p))
         \/ History!Record(r)
<1>1. input' = input
  BY DEF ReplyLost, locals
<1>2. Acked' = Acked
  BY NothingAcked DEF ReplyLost, InternalError, Answer, Stages
<1> QED
  BY <1>1, <1>2, InsertRegisters, UpdateSetsThreshold, CommitRecords DEF ReplyLost

\* Every step maps to a step of the history or to a stuttering step.
LEMMA StepMaps ==
  TableInv /\ AnswerInv /\ [Next]_vars => [History!Next]_History!vars
<1> SUFFICES ASSUME TableInv, AnswerInv, [Next]_vars
             PROVE  History!Next \/ UNCHANGED History!vars
  OBVIOUS
<1> DEFINE Maps(r) == \/ History!Submit(r)
                      \/ History!Register(r)
                      \/ \E p \in Requests : History!SetThreshold(r, p)
                      \/ History!Record(r)
                      \/ History!Acknowledge(r)
<1>1. ASSUME NEW r \in Requests, NEW in \in Inputs, Receive(r, in) PROVE Maps(r)
  BY <1>1, ReceiveSubmits
<1>2. ASSUME NEW r \in Requests, CreateProject(r) PROVE Maps(r)
  <2>1. Acked' = Acked
    BY <1>2, NothingAcked DEF CreateProject
  <2> QED
    BY <1>2, <2>1, InsertRegisters DEF CreateProject
<1>3. ASSUME NEW r \in Requests, UpdateThreshold(r) PROVE Maps(r)
  <2>1. Acked' = Acked
    BY <1>3, NothingAcked DEF UpdateThreshold
  <2> QED
    BY <1>3, <2>1, UpdateSetsThreshold DEF UpdateThreshold
<1>4. ASSUME NEW r \in Requests, Commit(r) PROVE Maps(r)
  <2>1. Acked' = Acked
    BY <1>4, NothingAcked DEF Commit
  <2> QED
    BY <1>4, <2>1, CommitRecords DEF Commit, locals
<1>5. ASSUME NEW r \in Requests, Respond(r) PROVE Maps(r)
  BY <1>5, RespondAcknowledges
<1>6. ASSUME NEW r \in Requests, ReplyLost(r) PROVE Maps(r)
  BY <1>6, ReplyLostMaps
<1>7. ASSUME Crash \/ UNCHANGED vars PROVE UNCHANGED History!vars
  <2>1. UNCHANGED <<input, projects, runs, packages, resp>>
    BY <1>7 DEF Crash, vars, tables, locals
  <2>2. Recorded' = Recorded /\ Acked' = Acked
    BY <2>1, RecordedStays DEF Acked, Code
  <2> QED
    BY <2>1, <2>2 DEF History!vars, Recorded, Acked, Entry
<1> HIDE DEF Maps
<1>8. ASSUME NEW r \in Requests, Maps(r) PROVE History!Next
  BY <1>8 DEF Maps, History!Next
<1> QED
  BY <1>1, <1>2, <1>3, <1>4, <1>5, <1>6, <1>7, <1>8, LocalStepsStutter
     DEF Next, Step, Terminating

-----------------------------------------------------------------------------

\* For any number of submissions, and whatever fails: a reader of the tables sees
\* the append-only history of CoverageHistory, in which a run enters whole and
\* nothing is acknowledged before it is there.
THEOREM IngestImplementsHistory == Spec => ImplementsHistory
<1>1. Init => History!Init
  BY DEF Init, History!Init, Code
<1> QED
  BY <1>1, StepMaps, InvariantHolds, AnswerInvariant, PTL
     DEF Spec, ImplementsHistory, History!Spec
=============================================================================
