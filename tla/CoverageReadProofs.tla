-------------------------- MODULE CoverageReadProofs --------------------------
(***************************************************************************)
(* Proofs about the reads of CoverageReads next to any number of           *)
(* submissions, faults and crashes: what separate statements answer is     *)
(* whole, up to date and judged by an explained threshold.                 *)
(***************************************************************************)
EXTENDS CoverageReads, CoverageAnswerProofs, FiniteSetTheorems, SequenceTheorems

-----------------------------------------------------------------------------
(* The ingest under the reads. *)

\* A read changes nothing of the ingest.
LEMMA ReadsOnlyRead == [AllNext]_<<vars, readVars>> => [Next]_vars
BY DEF AllNext, Next

\* So the reads run beside an ingest that is the one of CoverageIngest.
LEMMA AllIsIngest == ReadSpec => Spec
<1>1. AllInit => Init
  BY DEF AllInit
<1> QED
  BY <1>1, ReadsOnlyRead, PTL DEF ReadSpec, Spec

\* Steps of the ingest that matter to a read: rows stay, and only a submission
\* that is not committed moves the threshold of a project that is there.
Grown ==
    /\ \A c \in Requests : Owns(runs, c) => runs'[c] = runs[c] /\ packages'[c] = packages[c]
    /\ \A s \in Requests : Owns(input, s) => input'[s] = input[s]
    /\ \A p \in Requests : Owns(projects, p) =>
          /\ Owns(projects, p)' /\ projects'[p].projectKey = projects[p].projectKey
          /\ \/ projects'[p].globalThresholdPercent = projects[p].globalThresholdPercent
             \/ \E s \in Requests :
                   /\ ~Owns(runs, s) /\ Owns(input, s) /\ input[s].thresholdPercent # None
                   /\ projects[p].projectKey = input[s].projectKey
                   /\ projects'[p].globalThresholdPercent = Stored(input[s].thresholdPercent)

\* A request moves the threshold of a project before it is committed.
LEMMA ThresholdMoves ==
  ASSUME TableInv, NEW r \in Requests, RequestStep(r), NEW p \in Requests, Owns(projects, p)
  PROVE  \/ projects'[p] = projects[p]
         \/ /\ ~Owns(runs, r) /\ Owns(input, r) /\ input[r].thresholdPercent # None
            /\ projects[p].projectKey = input[r].projectKey
            /\ projects'[p].globalThresholdPercent = Stored(input[r].thresholdPercent)
<1> USE DEF TableInv, tables, locals
<1>1. CASE UNCHANGED projects
  BY <1>1
<1>2. CASE /\ pc[r] = "create_project" /\ UniqueKeyHolds(r)
           /\ projects' = [projects EXCEPT ![r] = StoredProject(NewProject(r))]
  BY <1>2, ProjectInserted
<1>3. CASE pc[r] = "update_threshold" /\ projects' = UpdatedProjects(r)
  <2> DEFINE row == projects[project[r].id]
  <2>1. /\ project[r].id \in Requests /\ row \in Project
        /\ row.projectKey = input[r].projectKey
        /\ Owns(input, r) /\ input[r].thresholdPercent # None
    BY <1>3 DEF LocalsAgree, Resolved, Owns, TypeOK, Project, ReportsInFlight
  <2>2. ~Owns(runs, r)
    BY <1>3 DEF CommittedLate
  <2>3. projects' = [projects EXCEPT ![project[r].id] =
            [row EXCEPT !.globalThresholdPercent = Stored(input[r].thresholdPercent)]]
    BY <1>3 DEF UpdatedProjects
  <2>4. CASE p = project[r].id
    <3>1. projects'[p] = [row EXCEPT !.globalThresholdPercent =
                              Stored(input[r].thresholdPercent)]
      BY <2>1, <2>3, <2>4 DEF TypeOK
    <3>2. projects'[p].globalThresholdPercent = Stored(input[r].thresholdPercent)
      BY <2>1, <3>1 DEF Project
    <3> QED
      BY <2>1, <2>2, <2>4, <3>2
  <2>5. CASE p # project[r].id
    BY <2>3, <2>5 DEF TypeOK
  <2> QED
    BY <2>4, <2>5
<1>4. \/ UNCHANGED projects
      \/ /\ pc[r] = "create_project" /\ UniqueKeyHolds(r)
         /\ projects' = [projects EXCEPT ![r] = StoredProject(NewProject(r))]
      \/ pc[r] = "update_threshold" /\ projects' = UpdatedProjects(r)
  BY DEF RequestStep, Receive, Step, StatementFails, ReplyLost, GetProject,
     CreateProject, CreateProjectConflict, UpdateThreshold, GetBaseline,
     ListBaselinePackages, BuildRun, InsertRun, InsertPackage, Commit, Respond
<1> QED
  BY <1>1, <1>2, <1>3, <1>4

\* Every step of the ingest lets the tables grow that way.
LEMMA IngestGrows ==
  ASSUME TableInv, TableInv', AnswerInv, [Next]_vars
  PROVE  Grown
<1>1. ASSUME NEW r \in Requests, RequestStep(r)
      PROVE  Grown
  <2>1. ASSUME NEW s \in Requests, Owns(input, s) PROVE input'[s] = input[s]
    BY <1>1, <2>1, InputStays DEF AnswerInv
  <2>2. ASSUME NEW c \in Requests, Owns(runs, c)
        PROVE  runs'[c] = runs[c] /\ packages'[c] = packages[c]
    <3>1. runs'[c] = runs[c]
      BY <1>1, <2>2, TablesGrow
    <3>2. Owns(runs, c)' /\ Owns(input, c)
      BY <2>2, <3>1 DEF Owns, TableInv, CommittedLate, ReportsInFlight
    <3>3. packages[c] = StoredPackages(input[c].packages)
      BY <2>2 DEF TableInv, RunsAreWhole
    <3>4. packages'[c] = StoredPackages(input'[c].packages)
      BY <3>2 DEF TableInv, RunsAreWhole, StoredPackages
    <3> QED
      BY <2>1, <3>1, <3>2, <3>3, <3>4
  <2>3. ASSUME NEW p \in Requests, Owns(projects, p)
        PROVE  Owns(projects, p)' /\ projects'[p].projectKey = projects[p].projectKey
    BY <1>1, <2>3, TablesGrow
  <2> QED
    BY <1>1, <2>1, <2>2, <2>3, ThresholdMoves DEF Grown
<1>2. CASE UNCHANGED <<tables, input>>
  BY <1>2 DEF Grown, tables, Owns
<1>3. CASE Crash \/ UNCHANGED vars
  BY <1>2, <1>3 DEF Crash, vars, locals
<1> QED
  BY <1>1, <1>3 DEF Next, RequestStep, Terminating

-----------------------------------------------------------------------------
(* What a submission was told. *)

\* Every step of the ingest keeps what submissions were told.
LEMMA ToldStep ==
  ASSUME TableInv, TableInv', AnswerInv, AnswerInv', ToldInv, [Next]_vars
  PROVE  ToldInv'
<1> DEFINE Good(c) ==
        /\ Owns(runs, c) => Owns(run, c) /\ runs[c] = StoredRun(run[c])
        /\ Code(c) = "OK" =>
              /\ runs[c].projectId = project[c].id
              /\ resp[c].comparison.currentTotalCoveragePercent =
                    run[c].totalCoveragePercent
              /\ resp[c].comparison.thresholdStatus =
                    EvaluateThreshold(run[c].totalCoveragePercent,
                                      project[c].globalThresholdPercent)
<1>g. \A c \in Requests : Good(c)
  BY DEF ToldInv
<1>1. ASSUME NEW c \in Requests,
             runs'[c] = runs[c], run'[c] = run[c], project'[c] = project[c], resp'[c] = resp[c]
      PROVE  Good(c)'
  BY <1>1, <1>g DEF Owns, Code, StoredRun, EvaluateThreshold
<1>2. ASSUME NEW r \in Requests, RequestStep(r)
      PROVE  \A c \in Requests : Good(c)'
  <2>1. ASSUME NEW c \in Requests, c # r
        PROVE  Good(c)'
    BY <1>1, <1>2, <2>1, OthersKeep
  <2>2. ASSUME pc[r] = "done"
        PROVE  Good(r)'
    BY <1>2, <2>2
       DEF RequestStep, Receive, Step, StatementFails, ReplyLost, Stages,
       GetProject, CreateProject, CreateProjectConflict, UpdateThreshold, GetBaseline,
       ListBaselinePackages, BuildRun, InsertRun, InsertPackage, Commit, Respond
  <2>3. ASSUME Code(r)' # "OK"
        PROVE  Good(r)'
    <3>1. CASE Owns(runs, r)
      <4>1. runs'[r] = runs[r]
        BY <1>2, <3>1, TablesGrow
      <4>2. pc[r] \in {"respond", "done", "lost"}
        BY <3>1 DEF TableInv, CommittedLate
      <4>3. run'[r] = run[r]
        BY <1>2, <4>2
           DEF RequestStep, Receive, Step, StatementFails, ReplyLost, Stages, locals,
           GetProject, CreateProject, CreateProjectConflict, UpdateThreshold, GetBaseline,
           ListBaselinePackages, BuildRun, InsertRun, InsertPackage, Commit, Respond
      <4>4. Owns(run, r)' /\ runs'[r] = StoredRun(run'[r])
        BY <1>g, <3>1, <4>1, <4>3 DEF Owns
      <4> QED
        BY <2>3, <4>4
    <3>2. CASE ~Owns(runs, r) /\ Owns(runs, r)'
      <4>1. pc[r] = "commit"
        BY <1>2, <3>2, TablesGrow
      <4>2. runs' = [runs EXCEPT ![r] = tx[r].run] /\ run' = run
        BY <1>2, <3>2, <4>1
           DEF RequestStep, Receive, Step, StatementFails, ReplyLost, locals, tables, Owns, ApplyTx,
           GetProject, CreateProject, CreateProjectConflict, UpdateThreshold, GetBaseline,
           ListBaselinePackages, BuildRun, InsertRun, InsertPackage, Commit, Respond
      <4>3. Owns(run, r) /\ tx[r].run = StoredRun(run[r])
        BY <4>1 DEF TableInv, TxHolds, RunBuilt, Built
      <4>4. Owns(run, r)' /\ runs'[r] = StoredRun(run'[r])
        BY <4>2, <4>3 DEF TableInv, TypeOK, Owns
      <4> QED
        BY <2>3, <4>4
    <3>3. CASE ~Owns(runs, r)'
      BY <2>3, <3>3
    <3> QED
      BY <3>1, <3>2, <3>3
  <2>4. ASSUME Respond(r)
        PROVE  Good(r)'
    <3>1. /\ pc[r] = "respond" /\ resp' = [resp EXCEPT ![r] = IngestOutput(r)]
          /\ UNCHANGED <<runs, run, project>>
      BY <2>4 DEF Respond, Answer, tables, locals
    <3>2. resp'[r].comparison = IngestOutput(r).comparison
      BY <3>1 DEF TableInv, TypeOK
    <3>3. /\ IngestOutput(r).comparison.currentTotalCoveragePercent = run[r].totalCoveragePercent
          /\ IngestOutput(r).comparison.thresholdStatus =
                EvaluateThreshold(run[r].totalCoveragePercent, project[r].globalThresholdPercent)
      BY DEF IngestOutput, buildComparison
    <3>4. Owns(runs, r) /\ run[r].projectId = project[r].id /\ run[r] \in CoverageRun
      BY <3>1 DEF TableInv, TypeOK, RunBuilt, Built, AnswerInv, AnswersFollow, Owns
    <3>5. runs[r] = StoredRun(run[r])
      BY <1>g, <3>4
    <3>6. runs[r].projectId = project[r].id
      BY <3>4, <3>5 DEF StoredRun, CoverageRun
    <3>7. /\ Owns(run, r)' /\ runs'[r] = StoredRun(run'[r])
          /\ runs'[r].projectId = project'[r].id
      BY <1>g, <3>1, <3>4, <3>5, <3>6 DEF Owns
    <3>8. /\ resp'[r].comparison.currentTotalCoveragePercent = run'[r].totalCoveragePercent
          /\ resp'[r].comparison.thresholdStatus =
                EvaluateThreshold(run'[r].totalCoveragePercent,
                                  project'[r].globalThresholdPercent)
      BY <3>1, <3>2, <3>3
    <3> QED
      BY <3>7, <3>8
  <2>5. Code(r)' = "OK" => pc[r] = "done" \/ Respond(r)
    <3>1. CASE ~Respond(r) /\ pc[r] # "done"
      <4>1. ~Owns(resp, r)
        BY <3>1 DEF AnswerInv, AnswersFollow
      <4>2. \/ resp'[r] = resp[r]
            \/ \E stage : \E code \in {"INTERNAL", "INVALID_ARGUMENT"} :
                  resp'[r] = [code |-> code, stage |-> stage]
        BY <1>2, <3>1
           DEF RequestStep, Receive, Step, StatementFails, ReplyLost, Answer, InternalError,
           TableInv, TypeOK,
           GetProject, CreateProject, CreateProjectConflict, UpdateThreshold, GetBaseline,
           ListBaselinePackages, BuildRun, InsertRun, InsertPackage, Commit
      <4>3. CASE resp'[r] = resp[r]
        BY <4>1, <4>3 DEF Code, Owns
      <4>4. ASSUME NEW stage, NEW code \in {"INTERNAL", "INVALID_ARGUMENT"},
                   resp'[r] = [code |-> code, stage |-> stage]
            PROVE  Code(r)' # "OK"
        BY <4>4 DEF Code
      <4> QED
        BY <3>1, <4>2, <4>3, <4>4
    <3> QED
      BY <3>1
  <2> QED
    BY <2>1, <2>2, <2>3, <2>4, <2>5
<1>3. ASSUME Crash \/ UNCHANGED vars
      PROVE  \A c \in Requests : Good(c)'
  BY <1>1, <1>3 DEF Crash, vars, tables, locals
<1>4. \A c \in Requests : Good(c)'
  BY <1>2, <1>3 DEF Next, RequestStep, Terminating
<1> QED
  BY <1>4 DEF ToldInv

-----------------------------------------------------------------------------
(* Readers that a step does not touch. *)

\* The locals of a reader stay.
SameLocals(u) ==
    /\ query'[u] = query[u] /\ before'[u] = before[u] /\ ranswer'[u] = ranswer[u]
    /\ envelope'[u] = envelope[u] /\ rproject'[u] = rproject[u] /\ rrun'[u] = rrun[u]
    /\ rpackages'[u] = rpackages[u] /\ rbaseline'[u] = rbaseline[u]
    /\ rbasePackages'[u] = rbasePackages[u]

\* Of a reader whose locals stay, the tables grow under it; a crash may end it.
LEMMA TablesGrowUnderReader ==
  ASSUME Grown, TableInv, ReadTyped, NEW u \in Readers, ReaderInv(u), SameLocals(u),
         rpc'[u] = rpc[u] \/ (rpc'[u] = "lost" /\ rpc[u] # "done" /\ rpc[u] # "idle")
  PROVE  ReaderInv(u)'
<1> DEFINE p == query[u].projectId
<1>1. /\ \A stages : At(u, stages)' => At(u, stages) \/ "lost" \in stages
      /\ (ReadCode(u) = ReadCode(u)')
  BY DEF At, ReadCode, SameLocals
<1>2. Asked(u) /\ RunChosen(u) /\ BaselineChosen(u) /\ PackagesRead(u) /\ ThresholdRead(u)
      /\ AnswerBuilt(u)
  BY DEF ReaderInv
<1>3. \A c \in Committed : /\ c \in Requests /\ c \in Committed'
                           /\ runs'[c] = runs[c] /\ packages'[c] = packages[c]
  BY DEF Grown, Committed, Owns
<1>4. before[u] \subseteq Committed
  BY <1>2 DEF Asked
<1>5. \A c \in Committed : Matches(u, c)' <=> Matches(u, c)
  BY <1>3 DEF Matches, SameLocals
<1>a. /\ At(u, HasProject)' => At(u, HasProject)
      /\ At(u, HasRun)' => At(u, HasRun)
      /\ At(u, HasPackages)' => At(u, HasPackages)
      /\ At(u, {"respond"})' => At(u, {"respond"})
  BY <1>1 DEF HasProject, HasRun, HasPackages, At
<1>6. Asked(u)'
  <2>1. rpc'[u] # "idle" => query'[u].projectId \in Requests
    BY <1>2 DEF Asked, SameLocals
  <2>2. before'[u] \subseteq Committed'
    BY <1>3, <1>4 DEF SameLocals
  <2>3. At(u, HasProject)' => Owns(projects, query[u].projectId)' /\ query'[u] = query[u]
    <3>1. At(u, HasProject) => Owns(projects, p) /\ p \in Requests
      BY <1>2 DEF Asked, At, HasProject, HasRun, AnswerBuilt, ReadCode
    <3> QED
      BY <1>a, <3>1 DEF Grown, SameLocals
  <2> QED
    BY <2>1, <2>2, <2>3 DEF Asked, Owns
<1>7. RunChosen(u)'
  <2>1. ASSUME At(u, HasRun)
        PROVE  /\ rrun[u] \in Committed /\ Matches(u, rrun[u])
               /\ \A c \in before[u] : Matches(u, c) => ~Newer(runs[c], runs[rrun[u]])
    BY <1>2, <2>1 DEF RunChosen
  <2>2. ASSUME At(u, HasRun), NEW c \in before[u], Matches(u, c)
        PROVE  ~Newer(runs'[c], runs'[rrun[u]])
    BY <1>3, <1>4, <2>1, <2>2
  <2> QED
    BY <1>a, <1>3, <1>4, <1>5, <2>1, <2>2 DEF RunChosen, SameLocals
<1>8. BaselineChosen(u)'
  <2>1. Owns(rbaseline, u) =>
          /\ rbaseline[u] \in Committed' \ {rrun[u]}
          /\ runs'[rbaseline[u]].projectId = query[u].projectId
          /\ runs'[rbaseline[u]].branch = rproject[u].defaultBranch
    BY <1>2, <1>3 DEF BaselineChosen
  <2>2. rpc'[u] \in ReadStages \cup {"idle"} => rpc'[u] = rpc[u]
    BY DEF ReadStages
  <2> QED
    BY <1>2, <2>1, <2>2 DEF BaselineChosen, SameLocals, Owns, ReadStages
<1>9. PackagesRead(u)'
  <2>1. At(u, HasPackages) => packages'[rrun[u]] = packages[rrun[u]]
    BY <1>2, <1>3 DEF RunChosen, At, HasPackages, HasRun
  <2>2. Owns(rbaseline, u) => packages'[rbaseline[u]] = packages[rbaseline[u]]
    BY <1>2, <1>3 DEF BaselineChosen
  <2>3. rpc'[u] \in ReadStages \cup {"idle"} => rpc'[u] = rpc[u]
    BY DEF ReadStages
  <2>4. At(u, {"respond"}) => At(u, HasPackages)
    BY DEF At, HasPackages, HasRun
  <2> QED
    BY <1>2, <1>a, <2>1, <2>2, <2>3, <2>4 DEF PackagesRead, SameLocals, Owns, ReadStages
<1>10. ASSUME NEW s \in Requests, NEW v, Explains(s, p, v), p \in Requests, Owns(projects, p)
       PROVE  Explains(s, p, v)'
  BY <1>10 DEF Explains, Grown, Owns, SameLocals
<1>11. ASSUME NEW v, Moved(u, v), p \in Requests, Owns(projects, p)
       PROVE  Moved(u, v)'
  <2>1. PICK s \in Requests \ before[u] :
           /\ Owns(input, s) /\ input[s].thresholdPercent # None
           /\ Explains(s, p, v)
    BY <1>11 DEF Moved
  <2>2. Explains(s, p, v)' /\ input'[s] = input[s]
    BY <1>10, <1>11, <2>1 DEF Grown
  <2> QED
    BY <2>1, <2>2 DEF Moved, Owns, SameLocals, Explains
<1>12. ThresholdRead(u)'
  <2>1. ASSUME At(u, HasProject)
        PROVE  p \in Requests /\ Owns(projects, p)
    BY <1>2, <2>1 DEF Asked, At, HasProject, HasRun, AnswerBuilt, ReadCode
  <2>2. ASSUME At(u, HasProject)
        PROVE  \E s \in Requests : Explains(s, p, rproject[u].globalThresholdPercent)'
    <3>1. PICK s \in Requests : Explains(s, p, rproject[u].globalThresholdPercent)
      BY <1>2, <2>2 DEF ThresholdRead
    <3>2. Explains(s, p, rproject[u].globalThresholdPercent)'
      BY <1>10, <2>1, <2>2, <3>1 DEF Explains, SameLocals
    <3> QED
      BY <3>2
  <2>3. ASSUME At(u, HasProject), Owns(envelope, u)
        PROVE  \/ rproject[u].globalThresholdPercent = envelope[u].globalThresholdPercent
               \/ Moved(u, rproject[u].globalThresholdPercent)'
    <3>1. CASE Moved(u, rproject[u].globalThresholdPercent)
      <4>1. Moved(u, rproject[u].globalThresholdPercent)'
        BY <1>11, <2>1, <2>3, <3>1 DEF Moved, SameLocals, Explains
      <4> QED
        BY <4>1
    <3> QED
      BY <1>2, <2>3, <3>1 DEF ThresholdRead
  <2>4. ASSUME rpc[u] = "get_project", Owns(envelope, u)
        PROVE  /\ Owns(projects, p)'
               /\ \/ projects'[p].globalThresholdPercent = envelope[u].globalThresholdPercent
                  \/ Moved(u, projects[p].globalThresholdPercent)'
    <3>1. p \in Requests /\ Owns(projects, p)
      BY <1>2, <2>4 DEF Asked, ThresholdRead
    <3>2. Owns(projects, p)' /\ projects'[p].projectKey = projects[p].projectKey
      BY <3>1 DEF Grown, Owns, SameLocals
    <3>3. CASE projects'[p].globalThresholdPercent = projects[p].globalThresholdPercent
      <4>1. CASE Moved(u, projects[p].globalThresholdPercent)
        <5>1. Moved(u, projects[p].globalThresholdPercent)'
          BY SMTT(30), <1>11, <3>1, <3>3, <4>1 DEF Moved, SameLocals, Explains
        <5> QED
          BY <3>2, <5>1
      <4> QED
        BY <1>2, <2>4, <3>2, <3>3, <4>1 DEF ThresholdRead
    <3>4. CASE projects'[p].globalThresholdPercent # projects[p].globalThresholdPercent
      <4>1. PICK s \in Requests :
               /\ ~Owns(runs, s) /\ Owns(input, s) /\ input[s].thresholdPercent # None
               /\ projects[p].projectKey = input[s].projectKey
               /\ projects'[p].globalThresholdPercent = Stored(input[s].thresholdPercent)
        BY <3>1, <3>4 DEF Grown
      <4>2. s \notin before[u] /\ input'[s] = input[s]
        BY <1>4, <4>1 DEF Committed, Owns, Grown
      <4>3. Moved(u, projects[p].globalThresholdPercent)'
        BY <3>2, <4>1, <4>2 DEF Moved, Explains, SameLocals, Owns
      <4> QED
        BY <3>2, <4>3
    <3> QED
      BY <3>3, <3>4
  <2> QED
    BY <1>2, <1>a, <2>2, <2>3, <2>4 DEF ThresholdRead, SameLocals, Owns
<1>13. AnswerBuilt(u)'
  <2>1. ASSUME ReadCode(u) = "OK"
        PROVE  ComparisonOutput(u)' = ComparisonOutput(u)
    <3>1. At(u, HasRun)
      BY <2>1 DEF At
    <3>2. runs'[rrun[u]] = runs[rrun[u]]
      BY <1>2, <1>3, <3>1 DEF RunChosen
    <3>3. Owns(rbaseline, u) => runs'[rbaseline[u]] = runs[rbaseline[u]]
      BY <1>2, <1>3 DEF BaselineChosen
    <3> QED
      BY <3>2, <3>3 DEF ComparisonOutput, SameLocals, Owns
  <2>2. ReadCode(u) = "NOT_FOUND" => \A c \in before'[u] : ~Matches(u, c)'
    BY <1>2, <1>4, <1>5 DEF AnswerBuilt, SameLocals
  <2>3. ReadCode(u) = "BRANCHES" =>
          \A c \in before'[u] : Matches(u, c)' => runs'[c].branch \in ranswer'[u].branches
    BY <1>2, <1>3, <1>4, <1>5 DEF AnswerBuilt, SameLocals
  <2>4. ranswer'[u] # None => rpc'[u] = "done"
    BY <1>2 DEF AnswerBuilt, SameLocals
  <2>5. ReadCode(u)' = "OK" => ranswer'[u] = ComparisonOutput(u)'
    BY <1>1, <1>2, <2>1 DEF AnswerBuilt, SameLocals
  <2> QED
    BY <1>1, <2>2, <2>3, <2>4, <2>5 DEF AnswerBuilt
<1> QED
  BY <1>6, <1>7, <1>8, <1>9, <1>12, <1>13 DEF ReaderInv

\* A read touches its own locals only.
LEMMA OtherReaders ==
  ASSUME ReadTyped, NEW rd \in Readers, ReadStep(rd), NEW u \in Readers, u # rd
  PROVE  SameLocals(u) /\ rpc'[u] = rpc[u]
<1> USE DEF ReadTyped, ReadGoto, ReadAnswer, SameLocals, readLocals
<1>1. ASSUME NEW parameters, NEW stage, Receives(rd, parameters, stage)
      PROVE  SameLocals(u) /\ rpc'[u] = rpc[u]
  BY <1>1 DEF Receives
<1>2. CASE ReadEnvelope(rd) \/ ReadProject(rd)
  BY <1>2 DEF ReadEnvelope, ReadProject
<1>3. CASE ReadRun(rd)
  BY <1>3 DEF ReadRun
<1>4. CASE ReadPackages(rd) \/ ReadBaselinePackages(rd)
  BY <1>4 DEF ReadPackages, ReadBaselinePackages
<1>5. CASE ReadBaseline(rd)
  BY <1>5 DEF ReadBaseline
<1>6. CASE ReadRespond(rd) \/ ListBranches(rd) \/ ReadFails(rd)
  BY <1>6 DEF ReadRespond, ListBranches, ReadFails
<1>7. CASE CountRuns(rd)
  BY <1>7 DEF CountRuns
<1>8. CASE ListRuns(rd)
  BY <1>8 DEF ListRuns
<1> QED
  BY <1>1, <1>2, <1>3, <1>4, <1>5, <1>6, <1>7, <1>8
     DEF ReadStep, ReceiveRead, CallComparisonTool, ReceiveList, CallListTool, ReceiveBranches

\* A read finds rows of the tables, so its locals keep their types.
LEMMA ReadTypedStep ==
  ASSUME TableInv, ReadTyped, NEW rd \in Readers, Asked(rd), RunChosen(rd), BaselineChosen(rd),
         ReadStep(rd), UNCHANGED vars
  PROVE  ReadTyped'
<1> USE DEF ReadTyped, ReadGoto, ReadAnswer, readLocals, ReadStages
<1>0. /\ projects \in [Requests -> Project \cup {None}]
      /\ packages \in [Requests -> SUBSET PackageCoverage]
  BY DEF TableInv, TypeOK
<1>1. ASSUME NEW parameters, NEW stage \in ReadStages, Receives(rd, parameters, stage)
      PROVE  ReadTyped'
  BY <1>1 DEF Receives, Committed
<1>2. ASSUME rpc[rd] \in {"get_envelope", "get_project"}
      PROVE  projects[query[rd].projectId] \in Project \cup {None}
  BY <1>0, <1>2 DEF Asked
<1>3. CASE ReadEnvelope(rd)
  BY <1>2, <1>3 DEF ReadEnvelope
<1>4. CASE ReadProject(rd)
  BY <1>2, <1>4 DEF ReadProject
<1>5. CASE ReadRun(rd)
  BY <1>5 DEF ReadRun, Latest, Candidates, Committed
<1>6. CASE ReadPackages(rd)
  <2>1. packages[rrun[rd]] \in SUBSET PackageCoverage
    BY <1>0, <1>6 DEF ReadPackages, RunChosen, At, HasRun, Committed
  <2> QED
    BY <1>6, <2>1 DEF ReadPackages
<1>7. CASE ReadBaseline(rd)
  BY <1>7 DEF ReadBaseline, Latest, RunsOn
<1>8. CASE ReadBaselinePackages(rd)
  <2>1. packages[rbaseline[rd]] \in SUBSET PackageCoverage
    BY <1>0, <1>8 DEF ReadBaselinePackages, BaselineChosen, Committed
  <2> QED
    BY <1>8, <2>1 DEF ReadBaselinePackages
<1>9. CASE ReadRespond(rd) \/ ListBranches(rd) \/ ReadFails(rd)
  BY <1>9 DEF ReadRespond, ListBranches, ReadFails
<1>10. CASE CountRuns(rd) \/ ListRuns(rd)
  BY <1>10 DEF CountRuns, ListRuns
<1> QED
  BY <1>1, <1>3, <1>4, <1>5, <1>6, <1>7, <1>8, <1>9, <1>10
     DEF ReadStep, ReceiveRead, CallComparisonTool, ReceiveList, CallListTool, ReceiveBranches
-----------------------------------------------------------------------------
(* The steps of a read preserve what is known of it. *)

\* The tables as a read finds them.
LEMMA ReadFinds ==
  ASSUME UNCHANGED vars
  PROVE  /\ projects' = projects /\ runs' = runs /\ packages' = packages /\ input' = input
         /\ Committed' = Committed
  BY DEF vars, tables, locals, Committed

\* A read begins with what is committed.
LEMMA ReceivesInv ==
  ASSUME ReadTyped, NEW rd \in Readers, ReaderInv(rd), UNCHANGED vars, NEW parameters,
         NEW stage \in {"get_project", "get_envelope", "count_runs", "list_branches"},
         parameters.projectId \in Requests, Receives(rd, parameters, stage)
  PROVE  ReaderInv(rd)'
<1>1. /\ rpc[rd] = "idle" /\ rpc'[rd] = stage
      /\ query'[rd] = parameters /\ before'[rd] = Committed
      /\ ranswer'[rd] = ranswer[rd] /\ envelope' = envelope /\ rbaseline' = rbaseline
      /\ rbasePackages' = rbasePackages
  BY DEF Receives, ReadTyped, ReadGoto
<1>2. ranswer'[rd] = None /\ ReadCode(rd)' = "none"
  BY <1>1 DEF ReaderInv, AnswerBuilt, ReadCode
<1>3. /\ ~At(rd, HasProject)' /\ ~At(rd, HasRun)' /\ ~At(rd, HasPackages)'
      /\ ~At(rd, {"respond"})'
  BY <1>1, <1>2 DEF At, HasProject, HasRun, HasPackages
<1>4. ~Owns(envelope, rd) /\ ~Owns(rbaseline, rd) /\ rbasePackages[rd] = {}
  BY <1>1 DEF ReaderInv, ThresholdRead, BaselineChosen, PackagesRead
<1>5. Asked(rd)' /\ RunChosen(rd)'
  BY <1>1, <1>3, ReadFinds DEF Asked, RunChosen
<1>6. BaselineChosen(rd)' /\ PackagesRead(rd)'
  BY <1>1, <1>3, <1>4 DEF BaselineChosen, PackagesRead, Owns
<1>7. ThresholdRead(rd)' /\ AnswerBuilt(rd)'
  BY <1>1, <1>2, <1>3, <1>4 DEF ThresholdRead, AnswerBuilt, Owns
<1> QED
  BY <1>5, <1>6, <1>7 DEF ReaderInv

\* A read that fails, or finds nothing because there was nothing, keeps the rest.
LEMMA EndsWithoutInv ==
  ASSUME ReadTyped, NEW rd \in Readers, ReaderInv(rd), UNCHANGED vars,
         rpc[rd] \in ReadStages, UNCHANGED <<readLocals, before>>,
         NEW code \in {"NOT_FOUND", "INTERNAL"}, NEW what,
         ReadAnswer(rd, [code |-> code, what |-> what]),
         code = "NOT_FOUND" => \A c \in before[rd] : ~Matches(rd, c)
  PROVE  ReaderInv(rd)'
<1>1. /\ rpc'[rd] = "done" /\ ranswer'[rd] = [code |-> code, what |-> what]
      /\ query' = query /\ before' = before /\ envelope' = envelope
      /\ rbaseline' = rbaseline /\ rrun' = rrun /\ rproject' = rproject
  BY DEF ReadAnswer, ReadGoto, ReadTyped, readLocals
<1>2. ReadCode(rd)' # "OK" /\ ReadCode(rd)' # "BRANCHES"
      /\ (ReadCode(rd)' = "NOT_FOUND" => code = "NOT_FOUND")
  BY <1>1 DEF ReadCode
<1>3. /\ ~At(rd, HasProject)' /\ ~At(rd, HasRun)' /\ ~At(rd, HasPackages)'
      /\ ~At(rd, {"respond"})'
  BY <1>1, <1>2 DEF At, HasProject, HasRun, HasPackages
<1>4. Asked(rd)' /\ RunChosen(rd)'
  BY <1>1, <1>3, ReadFinds DEF Asked, RunChosen, ReaderInv, ReadStages
<1>5. BaselineChosen(rd)' /\ PackagesRead(rd)'
  BY <1>1, <1>3, ReadFinds DEF BaselineChosen, PackagesRead, Owns, ReaderInv, ReadStages
<1>6. ThresholdRead(rd)'
  BY <1>1, <1>3 DEF ThresholdRead
<1>7. AnswerBuilt(rd)'
  BY <1>1, <1>2, ReadFinds DEF AnswerBuilt, Matches
<1> QED
  BY <1>4, <1>5, <1>6, <1>7 DEF ReaderInv

\* No run belongs to a project that has no row.
LEMMA NoProjectNoRuns ==
  ASSUME TableInv, NEW rd \in Readers, Asked(rd), projects[query[rd].projectId] = None
  PROVE  \A c \in before[rd] : ~Matches(rd, c)
  BY DEF TableInv, RunsAreWhole, Owns, Asked, Committed, Matches

\* The first look-up of the MCP tool.
LEMMA ReadEnvelopeInv ==
  ASSUME TableInv, ReadTyped, NEW rd \in Readers, ReaderInv(rd), UNCHANGED vars,
         ReadEnvelope(rd)
  PROVE  ReaderInv(rd)'
<1> DEFINE row == projects[query[rd].projectId]
<1>1. CASE row = None
  <2>1. ReadAnswer(rd, [code |-> "NOT_FOUND", what |-> "project"])
        /\ rpc[rd] \in ReadStages /\ UNCHANGED <<readLocals, before>>
    BY <1>1 DEF ReadEnvelope, ReadStages, readLocals
  <2>2. \A c \in before[rd] : ~Matches(rd, c)
    BY <1>1, NoProjectNoRuns DEF ReaderInv
  <2> QED
    BY <2>1, <2>2, EndsWithoutInv
<1>2. CASE row # None
  <2>1. /\ rpc[rd] = "get_envelope" /\ rpc'[rd] = "get_project"
        /\ envelope'[rd] = row
        /\ query' = query /\ before' = before /\ ranswer' = ranswer
        /\ rbaseline' = rbaseline /\ rbasePackages' = rbasePackages
    BY <1>2 DEF ReadEnvelope, ReadGoto, ReadTyped
  <2>2. ranswer[rd] = None /\ ReadCode(rd)' = "none"
    BY <2>1 DEF ReaderInv, AnswerBuilt, ReadCode
  <2>3. /\ ~At(rd, HasProject)' /\ ~At(rd, HasRun)' /\ ~At(rd, HasPackages)'
        /\ ~At(rd, {"respond"})'
    BY <2>1, <2>2 DEF At, HasProject, HasRun, HasPackages
  <2>4. Asked(rd)' /\ RunChosen(rd)'
    BY <2>1, <2>3, ReadFinds DEF Asked, RunChosen, ReaderInv
  <2>5. BaselineChosen(rd)' /\ PackagesRead(rd)'
    BY <2>1, <2>3, ReadFinds DEF BaselineChosen, PackagesRead, Owns, ReaderInv, ReadStages
  <2>6. ThresholdRead(rd)'
    BY <1>2, <2>1, <2>3, ReadFinds DEF ThresholdRead, Owns
  <2>7. AnswerBuilt(rd)'
    BY <2>1, <2>2 DEF AnswerBuilt
  <2> QED
    BY <2>4, <2>5, <2>6, <2>7 DEF ReaderInv
<1> QED
  BY <1>1, <1>2

\* The look-up of the use case: the threshold found is explained, and moved since
\* the envelope was read if it differs.
LEMMA ReadProjectInv ==
  ASSUME TableInv, ThresholdIsExplained, ReadTyped, NEW rd \in Readers, ReaderInv(rd),
         UNCHANGED vars, ReadProject(rd)
  PROVE  ReaderInv(rd)'
<1> DEFINE p == query[rd].projectId
           row == projects[p]
<1>1. CASE row = None
  <2>1. ReadAnswer(rd, [code |-> "NOT_FOUND", what |-> "project"])
        /\ rpc[rd] \in ReadStages /\ UNCHANGED <<readLocals, before>>
    BY <1>1 DEF ReadProject, ReadStages, readLocals
  <2>2. \A c \in before[rd] : ~Matches(rd, c)
    BY <1>1, NoProjectNoRuns DEF ReaderInv
  <2> QED
    BY <2>1, <2>2, EndsWithoutInv
<1>2. CASE row # None
  <2>1. /\ rpc[rd] = "get_project" /\ rpc'[rd] = "get_run"
        /\ rproject'[rd] = row
        /\ query' = query /\ before' = before /\ ranswer' = ranswer /\ envelope' = envelope
        /\ rbaseline' = rbaseline /\ rbasePackages' = rbasePackages
    BY <1>2 DEF ReadProject, ReadGoto, ReadTyped
  <2>2. ranswer[rd] = None /\ ReadCode(rd)' = "none"
    BY <2>1 DEF ReaderInv, AnswerBuilt, ReadCode
  <2>3. ~At(rd, HasRun)' /\ ~At(rd, HasPackages)' /\ ~At(rd, {"respond"})'
    BY <2>1, <2>2 DEF At, HasRun, HasPackages
  <2>4. p \in Requests /\ Owns(projects, p)
    BY <1>2, <2>1 DEF Asked, ReaderInv, Owns
  <2>5. Asked(rd)' /\ RunChosen(rd)'
    BY <2>1, <2>3, <2>4, ReadFinds DEF Asked, RunChosen, ReaderInv, Owns
  <2>6. BaselineChosen(rd)' /\ PackagesRead(rd)'
    BY <2>1, <2>3, ReadFinds DEF BaselineChosen, PackagesRead, Owns, ReaderInv, ReadStages
  <2>7. ThresholdRead(rd)'
    <3>1. \E s \in Requests : Explains(s, p, row.globalThresholdPercent)
      <4>1. PICK s \in Requests :
               /\ Owns(input, s)
               /\ input[s].projectKey = row.projectKey
               /\ \/ /\ input[s].thresholdPercent # None
                     /\ row.globalThresholdPercent = Stored(input[s].thresholdPercent)
                  \/ /\ s = p /\ input[s].thresholdPercent = None
                     /\ row.globalThresholdPercent = DefaultThresholdPercent
        BY <2>4 DEF ThresholdIsExplained
      <4> QED
        BY <4>1 DEF Explains
    <3>2. Owns(envelope, rd) =>
             \/ row.globalThresholdPercent = envelope[rd].globalThresholdPercent
             \/ Moved(rd, row.globalThresholdPercent)
      BY <2>1 DEF ReaderInv, ThresholdRead
    <3>3. Moved(rd, row.globalThresholdPercent)
             => Moved(rd, rproject[rd].globalThresholdPercent)'
      BY <2>1, ReadFinds DEF Moved, Explains, Owns
    <3>4. (\E s \in Requests : Explains(s, p, row.globalThresholdPercent))
             => \E s \in Requests : Explains(s, p, rproject[rd].globalThresholdPercent)'
      BY <2>1, ReadFinds DEF Explains, Owns
    <3> QED
      BY <2>1, <3>1, <3>2, <3>3, <3>4 DEF ThresholdRead, Owns
  <2>8. AnswerBuilt(rd)'
    BY <2>1, <2>2 DEF AnswerBuilt
  <2> QED
    BY <2>5, <2>6, <2>7, <2>8 DEF ReaderInv
<1> QED
  BY <1>1, <1>2

\* The threshold that was found stays explained while the read goes on.
LEMMA ThresholdKept ==
  ASSUME NEW rd \in Readers, ThresholdRead(rd), UNCHANGED vars,
         query'[rd] = query[rd], before'[rd] = before[rd],
         envelope'[rd] = envelope[rd], rproject'[rd] = rproject[rd],
         At(rd, HasProject)' => At(rd, HasProject),
         rpc'[rd] \notin {"idle", "get_envelope", "get_project"}
  PROVE  ThresholdRead(rd)'
<1> DEFINE found == rproject[rd].globalThresholdPercent
<1>1. Moved(rd, found) => Moved(rd, rproject[rd].globalThresholdPercent)'
  BY ReadFinds DEF Moved, Explains, Owns
<1>2. (\E s \in Requests : Explains(s, query[rd].projectId, found))
         => (\E s \in Requests : Explains(s, query[rd].projectId,
                                          rproject[rd].globalThresholdPercent)')
  BY ReadFinds DEF Explains, Owns
<1>3. Owns(envelope, rd)' <=> Owns(envelope, rd)
  BY DEF Owns
<1> QED
  BY <1>1, <1>2, <1>3 DEF ThresholdRead

\* The newest matching run is chosen among all that are committed.
LEMMA ReadRunInv ==
  ASSUME ReadTyped, NEW rd \in Readers, ReaderInv(rd), UNCHANGED vars, ReadRun(rd)
  PROVE  ReaderInv(rd)'
<1>1. \A c \in Committed : c \in Candidates(rd) <=> Matches(rd, c)
  BY DEF Candidates, Matches
<1>2. before[rd] \subseteq Committed
  BY DEF ReaderInv, Asked
<1>3. CASE Candidates(rd) = {} /\ ReadAnswer(rd, [code |-> "NOT_FOUND", what |-> "run"])
           /\ UNCHANGED rrun
  <2>1. rpc[rd] \in ReadStages /\ UNCHANGED <<readLocals, before>>
    BY <1>3 DEF ReadRun, ReadStages, readLocals
  <2>2. \A c \in before[rd] : ~Matches(rd, c)
    BY <1>1, <1>2, <1>3
  <2> QED
    BY <1>3, <2>1, <2>2, EndsWithoutInv
<1>4. ASSUME NEW c \in Latest(Candidates(rd)), rrun' = [rrun EXCEPT ![rd] = c],
             ReadGoto(rd, "list_packages"), UNCHANGED ranswer
      PROVE  ReaderInv(rd)'
  <2>1. /\ rpc[rd] = "get_run" /\ rpc'[rd] = "list_packages" /\ rrun'[rd] = c
        /\ query' = query /\ before' = before /\ ranswer' = ranswer /\ envelope' = envelope
        /\ rproject' = rproject /\ rbaseline' = rbaseline /\ rbasePackages' = rbasePackages
    BY <1>4 DEF ReadRun, ReadGoto, ReadTyped
  <2>2. ranswer[rd] = None /\ ReadCode(rd)' = "none"
    BY <2>1 DEF ReaderInv, AnswerBuilt, ReadCode
  <2>3. At(rd, HasProject) /\ ~At(rd, HasPackages)' /\ ~At(rd, {"respond"})'
    BY <2>1, <2>2 DEF At, HasProject, HasRun, HasPackages
  <2>4. c \in Committed /\ Matches(rd, c)
        /\ \A d \in Committed : Matches(rd, d) => ~Newer(runs[d], runs[c])
    <3>1. c \in Candidates(rd) /\ \A d \in Candidates(rd) : ~Newer(runs[d], runs[c])
      BY <1>4 DEF Latest
    <3>2. c \in Committed
      BY <3>1 DEF Candidates
    <3> QED
      BY <1>1, <3>1, <3>2
  <2>5. Asked(rd)'
    BY <2>1, <2>3, ReadFinds DEF Asked, ReaderInv, Owns
  <2>6. RunChosen(rd)'
    BY <1>2, <2>1, <2>4, ReadFinds DEF RunChosen, Matches
  <2>7. BaselineChosen(rd)' /\ PackagesRead(rd)'
    BY <2>1, <2>3, ReadFinds DEF BaselineChosen, PackagesRead, Owns, ReaderInv, ReadStages
  <2>8. ThresholdRead(rd)'
    BY <2>1, <2>3, ThresholdKept DEF ReaderInv
  <2>9. AnswerBuilt(rd)'
    BY <2>1, <2>2 DEF AnswerBuilt
  <2> QED
    BY <2>5, <2>6, <2>7, <2>8, <2>9 DEF ReaderInv
<1> QED
  BY <1>3, <1>4 DEF ReadRun

\* The packages are those of the run chosen.
LEMMA ReadPackagesInv ==
  ASSUME ReadTyped, NEW rd \in Readers, ReaderInv(rd), UNCHANGED vars, ReadPackages(rd)
  PROVE  ReaderInv(rd)'
<1>1. /\ rpc[rd] = "list_packages" /\ rpc'[rd] = "get_baseline"
      /\ rpackages'[rd] = packages[rrun[rd]]
      /\ query' = query /\ before' = before /\ ranswer' = ranswer /\ envelope' = envelope
      /\ rproject' = rproject /\ rrun' = rrun /\ rbaseline' = rbaseline
      /\ rbasePackages' = rbasePackages
  BY DEF ReadPackages, ReadGoto, ReadTyped
<1>2. ranswer[rd] = None /\ ReadCode(rd)' = "none"
  BY <1>1 DEF ReaderInv, AnswerBuilt, ReadCode
<1>3. At(rd, HasProject) /\ At(rd, HasRun) /\ ~At(rd, {"respond"})'
  BY <1>1, <1>2 DEF At, HasProject, HasRun
<1>4. Asked(rd)'
  BY <1>1, <1>3, ReadFinds DEF Asked, ReaderInv, Owns
<1>5. RunChosen(rd)'
  BY <1>1, <1>3, ReadFinds DEF RunChosen, ReaderInv, Matches
<1>6. BaselineChosen(rd)'
  BY <1>1, ReadFinds DEF BaselineChosen, Owns, ReaderInv, ReadStages
<1>7. PackagesRead(rd)'
  BY <1>1, <1>3, ReadFinds DEF PackagesRead, Owns, ReaderInv, ReadStages
<1>8. ThresholdRead(rd)'
  BY <1>1, <1>3, ThresholdKept DEF ReaderInv
<1>9. AnswerBuilt(rd)'
  BY <1>1, <1>2 DEF AnswerBuilt
<1> QED
  BY <1>4, <1>5, <1>6, <1>7, <1>8, <1>9 DEF ReaderInv

\* The baseline is another run of the default branch, or there is none.
LEMMA ReadBaselineInv ==
  ASSUME ReadTyped, NEW rd \in Readers, ReaderInv(rd), UNCHANGED vars, ReadBaseline(rd)
  PROVE  ReaderInv(rd)'
<1>1. /\ rpc[rd] = "get_baseline"
      /\ query' = query /\ before' = before /\ ranswer' = ranswer /\ envelope' = envelope
      /\ rproject' = rproject /\ rrun' = rrun /\ rpackages' = rpackages
      /\ rbasePackages' = rbasePackages
  BY DEF ReadBaseline
<1>2. ranswer[rd] = None /\ ReadCode(rd)' = "none"
  BY <1>1 DEF ReaderInv, AnswerBuilt, ReadCode
<1>3. At(rd, HasProject) /\ At(rd, HasRun) /\ At(rd, HasPackages)
  BY <1>1 DEF At, HasProject, HasRun, HasPackages
<1>4. rbasePackages[rd] = {} /\ ~Owns(rbaseline, rd)
  BY <1>1 DEF ReaderInv, PackagesRead, BaselineChosen, ReadStages
<1>5. ASSUME rpc'[rd] \in {"respond", "list_baseline_packages"}
      PROVE  Asked(rd)' /\ RunChosen(rd)' /\ ThresholdRead(rd)' /\ AnswerBuilt(rd)'
  <2>1. Asked(rd)'
    BY <1>1, <1>3, <1>5, ReadFinds DEF Asked, ReaderInv, Owns
  <2>2. RunChosen(rd)'
    BY <1>1, <1>3, ReadFinds DEF RunChosen, ReaderInv, Matches
  <2>3. ThresholdRead(rd)'
    BY <1>1, <1>3, <1>5, ThresholdKept DEF ReaderInv
  <2>4. AnswerBuilt(rd)'
    BY <1>1, <1>2 DEF AnswerBuilt
  <2> QED
    BY <2>1, <2>2, <2>3, <2>4
<1>6. CASE ReadGoto(rd, "respond") /\ UNCHANGED rbaseline
  <2>1. rpc'[rd] = "respond"
    BY <1>6 DEF ReadGoto, ReadTyped
  <2>2. BaselineChosen(rd)'
    BY <1>1, <1>4, <1>6, <2>1 DEF BaselineChosen, Owns, ReadStages
  <2>3. PackagesRead(rd)'
    BY <1>1, <1>3, <1>4, <1>6, <2>1, ReadFinds
       DEF PackagesRead, ReaderInv, Owns, ReadStages
  <2> QED
    BY <1>5, <2>1, <2>2, <2>3 DEF ReaderInv
<1>7. ASSUME NEW c \in Latest(RunsOn(query[rd].projectId, rproject[rd].defaultBranch)),
             IsOther(rd, c), rbaseline' = [rbaseline EXCEPT ![rd] = c],
             ReadGoto(rd, "list_baseline_packages")
      PROVE  ReaderInv(rd)'
  <2>1. rpc'[rd] = "list_baseline_packages" /\ rbaseline'[rd] = c
    BY <1>7 DEF ReadGoto, ReadTyped
  <2>2. /\ c \in Committed \ {rrun[rd]}
        /\ runs[c].projectId = query[rd].projectId
        /\ runs[c].branch = rproject[rd].defaultBranch
    BY <1>7 DEF Latest, RunsOn, Committed, IsOther
  <2>3. c # None
    BY <2>2, NoneIsNoValue DEF Committed
  <2>4. BaselineChosen(rd)'
    BY <1>1, <2>1, <2>2, <2>3, ReadFinds DEF BaselineChosen, Owns, ReadStages
  <2>5. ~At(rd, {"respond"})' /\ At(rd, HasPackages)'
    BY <1>2, <2>1 DEF At, HasPackages, HasRun
  <2>6. PackagesRead(rd)'
    BY <1>1, <1>3, <1>4, <2>1, <2>5, ReadFinds DEF PackagesRead, ReaderInv
  <2> QED
    BY <1>5, <2>1, <2>4, <2>6 DEF ReaderInv
<1> QED
  BY <1>6, <1>7 DEF ReadBaseline

\* The packages of the baseline are those of its run.
LEMMA ReadBaselinePackagesInv ==
  ASSUME ReadTyped, NEW rd \in Readers, ReaderInv(rd), UNCHANGED vars, ReadBaselinePackages(rd)
  PROVE  ReaderInv(rd)'
<1>1. /\ rpc[rd] = "list_baseline_packages" /\ rpc'[rd] = "respond"
      /\ rbasePackages'[rd] = packages[rbaseline[rd]]
      /\ query' = query /\ before' = before /\ ranswer' = ranswer /\ envelope' = envelope
      /\ rproject' = rproject /\ rrun' = rrun /\ rpackages' = rpackages
      /\ rbaseline' = rbaseline
  BY DEF ReadBaselinePackages, ReadGoto, ReadTyped
<1>2. ranswer[rd] = None /\ ReadCode(rd)' = "none"
  BY <1>1 DEF ReaderInv, AnswerBuilt, ReadCode
<1>3. At(rd, HasProject) /\ At(rd, HasRun) /\ At(rd, HasPackages) /\ Owns(rbaseline, rd)
  BY <1>1 DEF At, HasProject, HasRun, HasPackages, ReaderInv, BaselineChosen
<1>4. Asked(rd)'
  BY <1>1, <1>3, ReadFinds DEF Asked, ReaderInv, Owns
<1>5. RunChosen(rd)'
  BY <1>1, <1>3, ReadFinds DEF RunChosen, ReaderInv, Matches
<1>6. BaselineChosen(rd)'
  BY <1>1, ReadFinds DEF BaselineChosen, Owns, ReaderInv, ReadStages
<1>7. PackagesRead(rd)'
  BY <1>1, <1>3, ReadFinds DEF PackagesRead, Owns, ReaderInv, ReadStages
<1>8. ThresholdRead(rd)'
  BY <1>1, <1>3, ThresholdKept DEF ReaderInv
<1>9. AnswerBuilt(rd)'
  BY <1>1, <1>2 DEF AnswerBuilt
<1> QED
  BY <1>4, <1>5, <1>6, <1>7, <1>8, <1>9 DEF ReaderInv

\* The answer is made of what was read.
LEMMA ReadRespondInv ==
  ASSUME ReadTyped, NEW rd \in Readers, ReaderInv(rd), UNCHANGED vars, ReadRespond(rd)
  PROVE  ReaderInv(rd)'
<1>1. /\ rpc[rd] = "respond" /\ rpc'[rd] = "done"
      /\ ranswer'[rd] = ComparisonOutput(rd)
      /\ query' = query /\ before' = before /\ envelope' = envelope
      /\ rproject' = rproject /\ rrun' = rrun /\ rpackages' = rpackages
      /\ rbaseline' = rbaseline /\ rbasePackages' = rbasePackages
  BY DEF ReadRespond, ReadAnswer, ReadGoto, ReadTyped, readLocals
<1>2. ComparisonOutput(rd)' = ComparisonOutput(rd)
  BY <1>1, ReadFinds DEF ComparisonOutput
<1>3. ReadCode(rd)' \notin {"NOT_FOUND", "BRANCHES"}
  BY <1>1 DEF ReadCode, ComparisonOutput
<1>4. /\ At(rd, HasProject) /\ At(rd, HasRun) /\ At(rd, HasPackages)
      /\ At(rd, {"respond"})
  BY <1>1 DEF At, HasProject, HasRun, HasPackages
<1>5. Asked(rd)'
  BY <1>1, <1>4, ReadFinds DEF Asked, ReaderInv, Owns
<1>6. RunChosen(rd)'
  BY <1>1, <1>4, ReadFinds DEF RunChosen, ReaderInv, Matches
<1>7. BaselineChosen(rd)'
  BY <1>1, ReadFinds DEF BaselineChosen, Owns, ReaderInv, ReadStages
<1>8. PackagesRead(rd)'
  BY <1>1, <1>4, ReadFinds DEF PackagesRead, Owns, ReaderInv, ReadStages
<1>9. ThresholdRead(rd)'
  BY <1>1, <1>4, ThresholdKept DEF ReaderInv
<1>10. AnswerBuilt(rd)'
  BY <1>1, <1>2, <1>3 DEF AnswerBuilt
<1> QED
  BY <1>5, <1>6, <1>7, <1>8, <1>9, <1>10 DEF ReaderInv

\* Lists of runs and branches compare nothing.
LEMMA ReadListsInv ==
  ASSUME ReadTyped, NEW rd \in Readers, ReaderInv(rd), UNCHANGED vars,
         CountRuns(rd) \/ ListRuns(rd) \/ ListBranches(rd)
  PROVE  ReaderInv(rd)'
<1>1. /\ rpc[rd] \in {"count_runs", "list_runs", "list_branches"}
      /\ rpc'[rd] \in {"count_runs", "list_runs", "done"}
      /\ query' = query /\ before' = before /\ envelope' = envelope
      /\ rproject' = rproject /\ rrun' = rrun /\ rpackages' = rpackages
      /\ rbaseline' = rbaseline /\ rbasePackages' = rbasePackages
  <2>1. CASE CountRuns(rd)
    BY <2>1 DEF CountRuns, ReadGoto, ReadTyped
  <2>2. CASE ListRuns(rd)
    BY <2>2 DEF ListRuns, ReadGoto, ReadAnswer, ReadTyped
  <2>3. CASE ListBranches(rd)
    BY <2>3 DEF ListBranches, ReadGoto, ReadAnswer, ReadTyped, readLocals
  <2> QED
    BY <2>1, <2>2, <2>3
<1>2. ranswer[rd] = None /\ ReadCode(rd) = "none"
  BY <1>1 DEF ReaderInv, AnswerBuilt, ReadCode
<1>3. \/ ranswer'[rd] = None
      \/ /\ rpc'[rd] = "done"
         /\ \/ \E items : ranswer'[rd] = [code |-> "LIST", items |-> items]
            \/ ranswer'[rd] = [code |-> "BRANCHES",
                               branches |-> {runs[c].branch : c \in Candidates(rd)}]
  <2>1. CASE CountRuns(rd)
    BY <1>2, <2>1 DEF CountRuns
  <2>2. CASE ListRuns(rd)
    <3>1. \/ ranswer' = ranswer
          \/ \E items : ReadAnswer(rd, [code |-> "LIST", items |-> items])
      BY <2>2 DEF ListRuns
    <3>2. ASSUME NEW items, ReadAnswer(rd, [code |-> "LIST", items |-> items])
          PROVE  rpc'[rd] = "done" /\ ranswer'[rd] = [code |-> "LIST", items |-> items]
      BY <3>2 DEF ReadGoto, ReadAnswer, ReadTyped
    <3> QED
      BY <1>2, <3>1, <3>2
  <2>3. CASE ListBranches(rd)
    BY <2>3 DEF ListBranches, ReadGoto, ReadAnswer, ReadTyped
  <2> QED
    BY <2>1, <2>2, <2>3
<1>a. /\ \A items : [code |-> "LIST", items |-> items].code = "LIST"
      /\ \A branches : /\ [code |-> "BRANCHES", branches |-> branches].code = "BRANCHES"
                       /\ [code |-> "BRANCHES", branches |-> branches].branches = branches
  OBVIOUS
<1>4. /\ ReadCode(rd)' \notin {"OK", "NOT_FOUND"}
      /\ ReadCode(rd)' = "BRANCHES" =>
            ranswer'[rd] = [code |-> "BRANCHES",
                            branches |-> {runs[c].branch : c \in Candidates(rd)}]
  <2>1. ASSUME ranswer'[rd] = None
        PROVE  ReadCode(rd)' = "none"
    BY <2>1 DEF ReadCode
  <2>2. ASSUME NEW items, ranswer'[rd] = [code |-> "LIST", items |-> items]
        PROVE  ReadCode(rd)' \in {"none", "LIST"}
    BY <1>a, <2>2 DEF ReadCode
  <2>3. ASSUME ranswer'[rd] = [code |-> "BRANCHES",
                               branches |-> {runs[c].branch : c \in Candidates(rd)}]
        PROVE  ReadCode(rd)' \in {"none", "BRANCHES"}
    BY <1>a, <2>3 DEF ReadCode
  <2> QED
    BY <1>3, <2>1, <2>2, <2>3
<1>5. /\ ~At(rd, HasProject)' /\ ~At(rd, HasRun)' /\ ~At(rd, HasPackages)'
      /\ ~At(rd, {"respond"})'
  BY <1>1, <1>4 DEF At, HasProject, HasRun, HasPackages
<1>6. Asked(rd)' /\ RunChosen(rd)'
  BY <1>1, <1>5, ReadFinds DEF Asked, RunChosen, ReaderInv
<1>7. BaselineChosen(rd)' /\ PackagesRead(rd)'
  BY <1>1, <1>5, ReadFinds DEF BaselineChosen, PackagesRead, Owns, ReaderInv, ReadStages
<1>8. ThresholdRead(rd)'
  BY <1>1, <1>5 DEF ThresholdRead
<1>9. AnswerBuilt(rd)'
  <2>1. ASSUME ReadCode(rd)' = "BRANCHES", NEW c \in before[rd], Matches(rd, c)
        PROVE  runs[c].branch \in ranswer'[rd].branches
    <3>1. c \in Candidates(rd)
      BY <2>1 DEF Candidates, Matches, ReaderInv, Asked
    <3>2. ranswer'[rd].branches = {runs[d].branch : d \in Candidates(rd)}
      BY <1>a, <1>4, <2>1
    <3> QED
      BY <3>1, <3>2
  <2>2. \A c : Matches(rd, c)' <=> Matches(rd, c)
    BY <1>1, ReadFinds DEF Matches
  <2> QED
    BY <1>1, <1>3, <1>4, <2>1, <2>2, ReadFinds DEF AnswerBuilt
<1> QED
  BY <1>6, <1>7, <1>8, <1>9 DEF ReaderInv

\* A statement of the read fails.
LEMMA ReadFailsInv ==
  ASSUME ReadTyped, NEW rd \in Readers, ReaderInv(rd), UNCHANGED vars, ReadFails(rd)
  PROVE  ReaderInv(rd)'
<1>1. /\ rpc[rd] \in ReadStages /\ UNCHANGED <<readLocals, before>>
      /\ ReadAnswer(rd, [code |-> "INTERNAL", what |-> rpc[rd]])
  BY DEF ReadFails
<1> QED
  BY <1>1, EndsWithoutInv
-----------------------------------------------------------------------------
(* What is known of the reads holds in every state. *)

\* A step of one read keeps what is known of it.
LEMMA OwnStep ==
  ASSUME TableInv, AnswerInv, ReadInv, NEW rd \in Readers, ReadStep(rd), UNCHANGED vars
  PROVE  ReaderInv(rd)'
<1>1. ReadTyped /\ ReaderInv(rd) /\ ThresholdIsExplained
  BY DEF ReadInv, AnswerInv
<1>2. ASSUME NEW id \in ProjectIds, NEW branch, NEW pageSize,
             NEW stage \in {"get_project", "get_envelope", "count_runs", "list_branches"},
             Receives(rd, [projectId |-> id, branch |-> branch, pageSize |-> pageSize], stage)
      PROVE  ReaderInv(rd)'
  <2>1. [projectId |-> id, branch |-> branch, pageSize |-> pageSize].projectId \in Requests
    BY ReadersAskForProjects
  <2> QED
    BY <1>1, <1>2, <2>1, ReceivesInv
<1>3. CASE \E id \in ProjectIds, branch \in AskedBranches :
              \/ ReceiveRead(rd, id, branch)
              \/ CallComparisonTool(rd, id, branch)
              \/ \E pageSize \in PageSizes :
                    \/ ReceiveList(rd, id, branch, pageSize)
                    \/ CallListTool(rd, id, branch, pageSize)
  BY <1>2, <1>3 DEF ReceiveRead, CallComparisonTool, ReceiveList, CallListTool
<1>4. CASE \E id \in ProjectIds : ReceiveBranches(rd, id)
  BY <1>2, <1>4 DEF ReceiveBranches
<1> QED
  BY <1>1, <1>3, <1>4, ReadEnvelopeInv, ReadProjectInv, ReadRunInv, ReadPackagesInv,
     ReadBaselineInv, ReadBaselinePackagesInv, ReadRespondInv, ReadListsInv, ReadFailsInv
     DEF ReadStep

\* Every step keeps what is known of every read.
LEMMA ReadInvStep ==
  ASSUME TableInv, TableInv', AnswerInv, ReadInv, [AllNext]_<<vars, readVars>>
  PROVE  ReadInv'
<1>1. Grown
  BY IngestGrows, ReadsOnlyRead
<1>2. ReadTyped /\ \A rd \in Readers : ReaderInv(rd)
  BY DEF ReadInv
<1>3. ASSUME NEW rd \in Readers, ReadStep(rd), UNCHANGED vars
      PROVE  ReadInv'
  <2>1. ReadTyped'
    BY <1>2, <1>3, ReadTypedStep DEF ReaderInv
  <2>2. ASSUME NEW u \in Readers, u # rd
        PROVE  ReaderInv(u)'
    BY <1>1, <1>2, <1>3, <2>2, OtherReaders, TablesGrowUnderReader
  <2>3. ReaderInv(rd)'
    BY <1>3, OwnStep
  <2> QED
    BY <2>1, <2>2, <2>3 DEF ReadInv
<1>4. CASE UNCHANGED readVars
  <2>1. \A u \in Readers : SameLocals(u) /\ rpc'[u] = rpc[u]
    BY <1>4 DEF readVars, readLocals, SameLocals
  <2>2. ReadTyped'
    BY <1>2, <1>4 DEF readVars, readLocals, ReadTyped
  <2> QED
    BY <1>1, <1>2, <2>1, <2>2, TablesGrowUnderReader DEF ReadInv
<1>5. CASE ReadsCrash /\ UNCHANGED <<readLocals, ranswer, before>>
  <2>1. \A u \in Readers : SameLocals(u)
    BY <1>5 DEF readLocals, SameLocals
  <2>2. \A u \in Readers :
           rpc'[u] = rpc[u] \/ (rpc'[u] = "lost" /\ rpc[u] # "done" /\ rpc[u] # "idle")
    BY <1>5 DEF ReadsCrash, ReadStages
  <2>3. ReadTyped'
    BY <1>2, <1>5 DEF ReadsCrash, readLocals, ReadTyped
  <2> QED
    BY <1>1, <1>2, <2>1, <2>2, <2>3, TablesGrowUnderReader DEF ReadInv
<1> QED
  BY <1>3, <1>4, <1>5 DEF AllNext

\* Before anything is read, little is to be known.
LEMMA ReadInitInv == AllInit => ReadInv /\ ToldInv
<1> SUFFICES ASSUME AllInit PROVE ReadInv /\ ToldInv
  OBVIOUS
<1> USE DEF AllInit, ReadInit
<1>1. ReadTyped
  BY DEF ReadTyped
<1>2. ASSUME NEW rd \in Readers
      PROVE  ReaderInv(rd)
  <2>1. ReadCode(rd) = "none" /\ rpc[rd] = "idle" /\ before[rd] = {}
    BY DEF ReadCode
  <2>2. /\ ~At(rd, HasProject) /\ ~At(rd, HasRun) /\ ~At(rd, HasPackages)
        /\ ~At(rd, {"respond"})
    BY <2>1 DEF At, HasProject, HasRun, HasPackages
  <2>3. ~Owns(rbaseline, rd) /\ ~Owns(envelope, rd) /\ rbasePackages[rd] = {}
        /\ ranswer[rd] = None
    BY DEF Owns
  <2> QED
    BY <2>1, <2>2, <2>3
       DEF ReaderInv, Asked, RunChosen, BaselineChosen, PackagesRead, ThresholdRead, AnswerBuilt
<1>3. ToldInv
  BY DEF Init, ToldInv, Owns, Code
<1> QED
  BY <1>1, <1>2, <1>3 DEF ReadInv

\* The invariants of the ingest and of the reads hold together.
LEMMA ReadInvariant == ReadSpec => [](TableInv /\ AnswerInv /\ ReadInv /\ ToldInv)
<1>1. /\ TableInv /\ TableInv' /\ AnswerInv /\ AnswerInv' /\ ReadInv /\ ToldInv
      /\ [AllNext]_<<vars, readVars>>
      => ReadInv' /\ ToldInv'
  BY ReadInvStep, ToldStep, ReadsOnlyRead
<1> QED
  BY <1>1, ReadInitInv, AllIsIngest, InvariantHolds, AnswerInvariant, PTL DEF ReadSpec

\* The parts of an answer.
LEMMA AnswerParts ==
  ASSUME ReadInv, NEW rd \in Readers, ReadCode(rd) = "OK"
  PROVE  /\ ranswer[rd].run = rrun[rd]
         /\ ranswer[rd].packages = buildPackageComparisons(rpackages[rd], rbasePackages[rd])
         /\ ranswer[rd].comparison.thresholdPercent = rproject[rd].globalThresholdPercent
         /\ ranswer[rd].comparison.thresholdStatus =
               EvaluateThreshold(runs[rrun[rd]].totalCoveragePercent,
                                 rproject[rd].globalThresholdPercent)
<1>1. ranswer[rd] = ComparisonOutput(rd)
  BY DEF ReadInv, ReaderInv, AnswerBuilt
<1>2. /\ ComparisonOutput(rd).run = rrun[rd]
      /\ ComparisonOutput(rd).packages =
            buildPackageComparisons(rpackages[rd], rbasePackages[rd])
  BY DEF ComparisonOutput
<1>3. \A total, previous, threshold :
         /\ buildComparison(total, previous, threshold).thresholdPercent = threshold
         /\ buildComparison(total, previous, threshold).thresholdStatus =
               EvaluateThreshold(total, threshold)
  BY DEF buildComparison
<1>4. \E previous :
         ComparisonOutput(rd).comparison =
            buildComparison(runs[rrun[rd]].totalCoveragePercent, previous,
                            rproject[rd].globalThresholdPercent)
  BY DEF ComparisonOutput
<1> QED
  BY <1>1, <1>2, <1>3, <1>4

-----------------------------------------------------------------------------
(* The theorems. *)

\* Whatever is committed, rolled back or lost between the statements of a
\* comparison, the packages it answers are all those of the report behind the
\* run, each beside the value of its path in the report behind the baseline.
THEOREM ComparisonsAreWhole == ReadSpec => []ReadsWholeRuns
<1>1. TableInv /\ ReadInv => ReadsWholeRuns
  <2> SUFFICES ASSUME TableInv, ReadInv, NEW rd \in Readers, ReadCode(rd) = "OK"
               PROVE  ranswer[rd].packages =
                         buildPackageComparisons(
                            StoredPackages(input[ranswer[rd].run].packages),
                            IF rbaseline[rd] = None THEN {}
                            ELSE StoredPackages(input[rbaseline[rd]].packages))
    BY DEF ReadsWholeRuns
  <2>1. /\ ranswer[rd].run = rrun[rd]
        /\ ranswer[rd].packages = buildPackageComparisons(rpackages[rd], rbasePackages[rd])
    BY AnswerParts
  <2>2. rrun[rd] \in Requests /\ Owns(runs, rrun[rd])
    BY DEF ReadInv, ReaderInv, RunChosen, At, Committed, Owns
  <2>3. rpackages[rd] = StoredPackages(input[rrun[rd]].packages)
    BY <2>2 DEF ReadInv, ReaderInv, PackagesRead, At, TableInv, RunsAreWhole
  <2>4. CASE rbaseline[rd] = None
    BY <2>1, <2>3, <2>4 DEF ReadInv, ReaderInv, PackagesRead, At, Owns
  <2>5. CASE rbaseline[rd] # None
    <3>1. rbaseline[rd] \in Requests /\ Owns(runs, rbaseline[rd])
      BY <2>5 DEF ReadInv, ReaderInv, BaselineChosen, Committed, Owns
    <3>2. rbasePackages[rd] = StoredPackages(input[rbaseline[rd]].packages)
      BY <2>5, <3>1 DEF ReadInv, ReaderInv, PackagesRead, At, Owns, TableInv, RunsAreWhole
    <3> QED
      BY <2>1, <2>3, <2>5, <3>2
  <2> QED
    BY <2>4, <2>5
<1> QED
  BY <1>1, ReadInvariant, PTL

\* A comparison is of a run no older than any matching one that was committed
\* before the read began, a list of branches has all theirs, and that there is no
\* run is answered only when there was none.
THEOREM ReadsAreFresh == ReadSpec => []ReadIsFresh
<1>1. ReadInv => ReadIsFresh
  <2> SUFFICES ASSUME ReadInv, NEW rd \in Readers, NEW c \in before[rd], Matches(rd, c)
               PROVE  /\ ReadCode(rd) # "NOT_FOUND"
                      /\ ReadCode(rd) = "OK" => ~Newer(runs[c], runs[ranswer[rd].run])
                      /\ ReadCode(rd) = "BRANCHES" => runs[c].branch \in ranswer[rd].branches
    BY DEF ReadIsFresh, Matches
  <2>1. ReadCode(rd) # "NOT_FOUND"
        /\ (ReadCode(rd) = "BRANCHES" => runs[c].branch \in ranswer[rd].branches)
    BY DEF ReadInv, ReaderInv, AnswerBuilt
  <2>2. ASSUME ReadCode(rd) = "OK"
        PROVE  ~Newer(runs[c], runs[ranswer[rd].run])
    <3>1. ranswer[rd].run = rrun[rd]
      BY <2>2, AnswerParts
    <3> QED
      BY <2>2, <3>1 DEF ReadInv, ReaderInv, RunChosen, At
  <2> QED
    BY <2>1, <2>2
<1> QED
  BY <1>1, ReadInvariant, PTL

\* A default-branch run is never compared with itself, and with another only if
\* that one came while the read was under way or ties with it.
THEOREM BaselineOnlyRaces == ReadSpec => []BaselineOfDefaultBranchIsRace
<1>1. ReadInv => BaselineOfDefaultBranchIsRace
  <2> SUFFICES ASSUME ReadInv, NEW rd \in Readers, ReadCode(rd) = "OK", Owns(rbaseline, rd),
                      runs[rrun[rd]].branch = rproject[rd].defaultBranch
               PROVE  /\ rbaseline[rd] # rrun[rd]
                      /\ \/ rbaseline[rd] \notin before[rd]
                         \/ ~Newer(runs[rbaseline[rd]], runs[rrun[rd]])
    BY DEF BaselineOfDefaultBranchIsRace
  <2>1. /\ rbaseline[rd] # rrun[rd]
        /\ runs[rbaseline[rd]].projectId = query[rd].projectId
        /\ runs[rbaseline[rd]].branch = runs[rrun[rd]].branch
    BY DEF ReadInv, ReaderInv, BaselineChosen
  <2>2. /\ Matches(rd, rrun[rd])
        /\ \A c \in before[rd] : Matches(rd, c) => ~Newer(runs[c], runs[rrun[rd]])
    BY DEF ReadInv, ReaderInv, RunChosen, At
  <2>3. Matches(rd, rbaseline[rd])
    BY <2>1, <2>2 DEF Matches
  <2> QED
    BY <2>1, <2>2, <2>3
<1> QED
  BY <1>1, ReadInvariant, PTL

\* Rounding to hundredths turns a verdict only from failed to passed, when it
\* carries the total up to the threshold.
LEMMA RoundedVerdict ==
  ASSUME NEW total \in Int, NEW threshold \in Int,
         EvaluateThreshold(Stored(total), Stored(threshold)) # EvaluateThreshold(total, threshold)
  PROVE  /\ EvaluateThreshold(total, threshold) = "failed"
         /\ Stored(total) = Stored(threshold)
<1> DEFINE t == (total + 5) \div 10
           u == (threshold + 5) \div 10
<1>1. t \in Int /\ u \in Int /\ Stored(total) = t * 10 /\ Stored(threshold) = u * 10
  BY DEF Stored, Cent
<1>2. /\ total <= threshold => t <= u
      /\ threshold <= total => u <= t
  OBVIOUS
<1> HIDE DEF t, u
<1>3. CASE total >= threshold
  BY <1>1, <1>2, <1>3 DEF EvaluateThreshold
<1>4. CASE total < threshold
  <2>1. t * 10 >= u * 10
    BY <1>1, <1>4 DEF EvaluateThreshold
  <2>2. t = u
    BY <1>1, <1>2, <1>4, <2>1
  <2> QED
    BY <1>1, <1>4, <2>2 DEF EvaluateThreshold
<1> QED
  BY <1>3, <1>4

\* A read judges a run as its submitter was told unless rounding carried the
\* total up to the threshold or another submission set the threshold, and the
\* project an MCP answer shows has another threshold only if it was moved.
THEOREM VerdictsAreExplained == ReadSpec => []VerdictsMoveWithReason
<1>1. TableInv /\ AnswerInv /\ ReadInv /\ ToldInv => VerdictsMoveWithReason
  <2> SUFFICES ASSUME TableInv, AnswerInv, ReadInv, ToldInv,
                      NEW rd \in Readers, ReadCode(rd) = "OK"
               PROVE  LET c == ranswer[rd].run
                          read == ranswer[rd].comparison
                          told == resp[c].comparison
                          p == query[rd].projectId
                      IN  /\ Code(c) = "OK" /\ read.thresholdStatus # told.thresholdStatus =>
                                \/ /\ told.thresholdStatus = "failed"
                                   /\ Stored(told.currentTotalCoveragePercent) =
                                         Stored(told.thresholdPercent)
                                \/ \E s \in Requests \ {c} :
                                      Explains(s, p, read.thresholdPercent)
                          /\ /\ Owns(envelope, rd)
                             /\ envelope[rd].globalThresholdPercent # read.thresholdPercent
                             => \E s \in Requests \ before[rd] :
                                   /\ input[s].thresholdPercent # None
                                   /\ Explains(s, p, read.thresholdPercent)
    BY DEF VerdictsMoveWithReason
  <2> DEFINE c == rrun[rd]
             told == resp[c].comparison
             p == query[rd].projectId
             found == rproject[rd].globalThresholdPercent
  <2>1. /\ ranswer[rd].run = c
        /\ ranswer[rd].comparison.thresholdPercent = found
        /\ ranswer[rd].comparison.thresholdStatus =
              EvaluateThreshold(runs[c].totalCoveragePercent, found)
    BY AnswerParts
  <2>2. c \in Requests /\ Owns(runs, c) /\ runs[c].projectId = p
    BY DEF ReadInv, ReaderInv, RunChosen, At, Committed, Owns, Matches
  <2>3. \E s \in Requests : Explains(s, p, found)
    BY DEF ReadInv, ReaderInv, ThresholdRead, At
  <2>4. ASSUME Owns(envelope, rd), envelope[rd].globalThresholdPercent # found
        PROVE  \E s \in Requests \ before[rd] :
                  input[s].thresholdPercent # None /\ Explains(s, p, found)
    BY <2>4 DEF ReadInv, ReaderInv, ThresholdRead, At, Moved
  <2>5. ASSUME Code(c) = "OK",
               EvaluateThreshold(runs[c].totalCoveragePercent, found) # told.thresholdStatus,
               ~\E s \in Requests \ {c} : Explains(s, p, found)
        PROVE  /\ told.thresholdStatus = "failed"
               /\ Stored(told.currentTotalCoveragePercent) = Stored(told.thresholdPercent)
    <3>1. Explains(c, p, found)
      BY <2>3, <2>5
    <3>2. /\ resp[c] \in OkAnswer /\ Owns(resp, c)
          /\ told.thresholdPercent \in Int /\ told.currentTotalCoveragePercent \in Int
      <4>1. resp[c] # None /\ resp[c].code = "OK"
        BY <2>5 DEF Code
      <4>2. resp[c] \in OkAnswer
        BY <2>2, <4>1 DEF TableInv, TypeOK, ErrorAnswer
      <4> QED
        BY <4>1, <4>2 DEF OkAnswer, Comparison, Owns
    <3>3. /\ runs[c] = StoredRun(run[c])
          /\ project[c].id = p
          /\ told.currentTotalCoveragePercent = run[c].totalCoveragePercent
          /\ told.thresholdPercent = project[c].globalThresholdPercent
          /\ told.thresholdStatus =
                EvaluateThreshold(told.currentTotalCoveragePercent, told.thresholdPercent)
      BY <2>2, <2>5 DEF ToldInv, AnswerInv, AnswersFollow
    <3>4. pc[c] # "update_threshold" /\ Holds(c)
      BY <2>2, <2>5, <3>2 DEF AnswerInv, AnswersFollow, Holds
    <3>5. found = Stored(told.thresholdPercent)
      <4>1. CASE input[c].thresholdPercent # None
        BY <2>2, <3>1, <3>3, <3>4, <4>1 DEF Explains, AnswerInv, ThresholdHeld
      <4>2. CASE input[c].thresholdPercent = None
        <5>1. c = p /\ found = DefaultThresholdPercent
          BY <3>1, <4>2 DEF Explains
        <5>2. created[c]
          BY <2>2, <3>3, <3>4, <5>1 DEF AnswerInv, CreatorKnown
        <5> QED
          BY <2>2, <3>3, <3>4, <4>2, <5>1, <5>2, DefaultIsStored DEF AnswerInv, ThresholdHeld
      <4> QED
        BY <4>1, <4>2
    <3>6. runs[c].totalCoveragePercent = Stored(told.currentTotalCoveragePercent)
      <4>1. run[c] \in CoverageRun
        BY <2>2 DEF ToldInv, TableInv, TypeOK, Owns
      <4> QED
        BY <3>3, <4>1 DEF StoredRun, CoverageRun
    <3> QED
      BY <2>5, <3>2, <3>3, <3>5, <3>6, RoundedVerdict
  <2> QED
    BY <2>1, <2>4, <2>5
<1> QED
  BY <1>1, ReadInvariant, PTL

-----------------------------------------------------------------------------
(* The pages of a walk. *)

\* A set of natural numbers that is not empty has a least one.
LEMMA LeastIndex ==
  ASSUME NEW T \in SUBSET Nat, T # {}
  PROVE  \E n \in T : \A m \in T : n <= m
<1> DEFINE R == {ss \in Nat \X Nat : ss[1] < ss[2]}
<1>1. IsWellFoundedOn(R, Nat)
  BY NatLessThanWellFounded DEF OpToRel
<1>2. \A m, n \in Nat : <<m, n>> \in R <=> m < n
  OBVIOUS
<1> HIDE DEF R
<1>3. \E n \in T : \A m \in T : ~ (<<m, n>> \in R)
  BY <1>1, WFMin
<1>4. PICK n \in T : \A m \in T : ~ (<<m, n>> \in R)
  BY <1>3
<1>5. ASSUME NEW m \in T
      PROVE  n <= m
  <2>1. m \in Nat /\ n \in Nat
    OBVIOUS
  <2>2. ~(m < n)
    BY <1>2, <1>4, <2>1
  <2> QED
    BY <2>1, <2>2
<1> QED
  BY <1>4, <1>5

\* An order the database may give has every row once.
LEMMA OrderIsSeq ==
  ASSUME NEW ids, IsFiniteSet(ids), NEW order \in NewestFirst(ids)
  PROVE  /\ order \in Seq(ids) /\ Len(order) = Cardinality(ids) /\ Cardinality(ids) \in Nat
         /\ DOMAIN order = 1 .. Cardinality(ids)
         /\ \A c \in ids : \E n \in 1 .. Cardinality(ids) : order[n] = c
         /\ \A m, n \in 1 .. Cardinality(ids) : m # n => order[m] # order[n]
         /\ \A m, n \in 1 .. Cardinality(ids) :
               m < n => ~Newer(runs[order[n]], runs[order[m]])
<1>1. Cardinality(ids) \in Nat
  BY FS_CardinalityType
<1>2. /\ order \in [1 .. Cardinality(ids) -> ids] /\ IsInjective(order)
      /\ \A c \in ids : \E n \in 1 .. Cardinality(ids) : order[n] = c
      /\ \A m, n \in DOMAIN order : m < n => ~Newer(runs[order[n]], runs[order[m]])
  BY DEF NewestFirst, Bijection, Injection, Surjection
<1>3. order \in Seq(ids)
  BY <1>1, <1>2, SeqDef
<1>4. Len(order) = Cardinality(ids)
  BY <1>1, <1>2, <1>3, LenProperties
<1> QED
  BY <1>1, <1>2, <1>3, <1>4 DEF IsInjective

\* Runs that do not tie come in one order.
LEMMA OneOrder ==
  ASSUME NEW ids, IsFiniteSet(ids),
         \A c, d \in ids : c # d => Newer(runs[c], runs[d]) \/ Newer(runs[d], runs[c]),
         NEW o \in NewestFirst(ids), NEW p \in NewestFirst(ids)
  PROVE  o = p
<1> DEFINE N == Cardinality(ids)
           Differ == {n \in 1 .. N : o[n] # p[n]}
<1>1. /\ N \in Nat /\ o \in [1 .. N -> ids] /\ p \in [1 .. N -> ids]
  BY OrderIsSeq DEF NewestFirst, Bijection, Injection
<1>a. ASSUME NEW order \in NewestFirst(ids)
      PROVE  /\ \A c \in ids : \E n \in 1 .. N : order[n] = c
             /\ \A m, n \in 1 .. N : m # n => order[m] # order[n]
             /\ \A m, n \in 1 .. N : m < n => ~Newer(runs[order[n]], runs[order[m]])
  BY <1>a, OrderIsSeq
<1> SUFFICES ASSUME o # p
             PROVE  FALSE
  OBVIOUS
<1>2. Differ # {} /\ Differ \in SUBSET Nat
  BY <1>1
<1>3. PICK n \in Differ : \A m \in Differ : n <= m
  BY <1>2, LeastIndex
<1>4. n \in 1 .. N /\ o[n] # p[n] /\ o[n] \in ids /\ p[n] \in ids
  BY <1>1
<1>5. PICK i \in 1 .. N : p[i] = o[n]
  BY <1>4, <1>a
<1>6. PICK j \in 1 .. N : o[j] = p[n]
  BY <1>4, <1>a
<1>7. n < i
  <2>1. CASE i < n
    <3>1. o[i] = p[i]
      BY <1>1, <1>3, <1>4, <2>1
    <3>2. o[i] = o[n] /\ i # n
      BY <1>1, <1>4, <1>5, <2>1, <3>1
    <3> QED
      BY <1>a, <1>4, <3>2
  <2> QED
    BY <1>1, <1>4, <1>5, <2>1
<1>8. n < j
  <2>1. CASE j < n
    <3>1. o[j] = p[j]
      BY <1>1, <1>3, <1>4, <2>1
    <3>2. p[j] = p[n] /\ j # n
      BY <1>1, <1>4, <1>6, <2>1, <3>1
    <3> QED
      BY <1>a, <1>4, <3>2
  <2> QED
    BY <1>1, <1>4, <1>6, <2>1
<1>9. ~Newer(runs[p[i]], runs[p[n]]) /\ ~Newer(runs[o[j]], runs[o[n]])
  BY <1>4, <1>7, <1>8, <1>a
<1> QED
  BY <1>4, <1>5, <1>6, <1>9

\* There is a next page as long as the rows reach beyond this one.
LEMMA NextPage ==
  ASSUME NEW size \in Nat \ {0}, NEW page \in Nat \ {0}, NEW total \in Nat
  PROVE  /\ page < TotalPages(total, size) <=> page * size < total
         /\ Offset(page, size) \in Nat /\ Offset(page, size) + size = page * size
         /\ Offset(page + 1, size) = page * size
<1> DEFINE q == (total + size - 1) \div size
<1>1. q \in Int /\ q * size <= total + size - 1 /\ total + size - 1 < q * size + size
  OBVIOUS
<1>2. q >= page + 1 => q * size >= page * size + size
  BY <1>1
<1>3. q <= page => q * size <= page * size
  BY <1>1
<1>4. page * size \in Nat
  OBVIOUS
<1>5. page < TotalPages(total, size) <=> page * size < total
  BY <1>1, <1>2, <1>3, <1>4 DEF TotalPages
<1>6. Offset(page, size) \in Nat /\ Offset(page, size) + size = page * size
  BY DEF Offset
<1>7. Offset(page + 1, size) = page * size
  BY DEF Offset
<1> QED
  BY <1>5, <1>6, <1>7

\* The smaller of two.
LEMMA MinOfTwo ==
  ASSUME NEW a \in Int, NEW b \in Int
  PROVE  Min({a, b}) = IF a <= b THEN a ELSE b
<1>1. ASSUME NEW c \in {a, b}, c <= a, c <= b
      PROVE  Min({a, b}) = c
  BY <1>1 DEF Min
<1> QED
  BY <1>1

\* Pages hold one run at least.
LEMMA PageSizePositive ==
  ASSUME NEW pageSize \in Nat
  PROVE  /\ EffectivePageSize(pageSize) \in Nat \ {0}
         /\ McpPageSize(pageSize) \in Nat \ {0}
<1>1. EffectivePageSize(pageSize) \in Nat \ {0}
  BY MinOfTwo DEF EffectivePageSize
<1>2. MCPMaxPageSize \in Nat \ {0}
  BY ReadersAskForProjects
<1>3. ASSUME pageSize > 0
      PROVE  Min({pageSize, MCPMaxPageSize, 100}) \in Nat \ {0}
  <2>1. ASSUME NEW c \in {pageSize, MCPMaxPageSize, 100},
               c <= pageSize, c <= MCPMaxPageSize, c <= 100
        PROVE  Min({pageSize, MCPMaxPageSize, 100}) = c
    BY <1>2, <2>1 DEF Min
  <2> QED
    BY <1>2, <1>3, <2>1
<1>4. McpPageSize(pageSize) \in Nat \ {0}
  BY <1>3 DEF McpPageSize
<1> QED
  BY <1>1, <1>4

\* Runs are committed one at a time, so there are finitely many.
LEMMA CommitsOneByOne ==
  ASSUME TableInv, [Next]_vars, IsFiniteSet(Committed)
  PROVE  IsFiniteSet(Committed')
<1>1. ASSUME NEW r \in Requests, RequestStep(r)
      PROVE  IsFiniteSet(Committed')
  <2>1. Committed' \subseteq Committed \cup {r}
    BY <1>1, TablesGrow DEF Committed, Owns
  <2>2. IsFiniteSet(Committed \cup {r})
    BY FS_AddElement
  <2> QED
    BY <2>1, <2>2, FS_Subset
<1>2. CASE Crash \/ UNCHANGED vars
  BY <1>2 DEF Crash, vars, tables, Committed
<1> QED
  BY <1>1, <1>2 DEF Next, RequestStep, Terminating

\* The rows a read asks for are committed runs it matches.
LEMMA CandidatesMatch ==
  ASSUME IsFiniteSet(Committed), NEW rd \in Readers
  PROVE  /\ \A c : c \in Candidates(rd) <=> c \in Committed /\ Matches(rd, c)
         /\ Candidates(rd) \subseteq Requests
         /\ IsFiniteSet(Candidates(rd)) /\ Cardinality(Candidates(rd)) \in Nat
<1>1. \A c : c \in Candidates(rd) <=> c \in Committed /\ Matches(rd, c)
  BY DEF Candidates, Matches
<1>2. Candidates(rd) \in SUBSET Committed
  BY DEF Candidates
<1>3. IsFiniteSet(Candidates(rd))
  BY <1>2, FS_Subset
<1> QED
  BY <1>1, <1>2, <1>3, FS_CardinalityType DEF Committed

\* What a read asks for only gets more, and stays what it is as long as nothing
\* disturbs the walk.
LEMMA CandidatesGrow ==
  ASSUME Grown, IsFiniteSet(Committed), IsFiniteSet(Committed'), NEW u \in Readers,
         before[u] \subseteq Committed, query'[u] = query[u], before'[u] = before[u]
  PROVE  /\ Candidates(u) \subseteq Candidates(u)'
         /\ \A c \in Candidates(u) : runs'[c] = runs[c]
         /\ before[u] \cap Candidates(u)' = before[u] \cap Candidates(u)
         /\ query[u].pageSize \in Nat /\ OnOnePage(u)' => OnOnePage(u)
         /\ Undisturbed(u)' => Undisturbed(u) /\ Candidates(u)' = Candidates(u)
<1>1. \A c \in Committed : c \in Committed' /\ runs'[c] = runs[c]
  BY DEF Grown, Committed, Owns
<1>2. \A c \in Committed : Matches(u, c)' <=> Matches(u, c)
  BY <1>1 DEF Matches
<1>3. \A c : c \in Candidates(u) <=> c \in Committed /\ Matches(u, c)
  BY CandidatesMatch
<1>4. \A c : c \in Candidates(u)' <=> c \in Committed' /\ Matches(u, c)'
  BY DEF Candidates, Matches
<1>5. /\ Candidates(u) \subseteq Candidates(u)'
      /\ \A c \in Candidates(u) : runs'[c] = runs[c]
      /\ before[u] \cap Candidates(u)' = before[u] \cap Candidates(u)
  BY <1>1, <1>2, <1>3, <1>4
<1>6. ASSUME query[u].pageSize \in Nat, OnOnePage(u)'
      PROVE  OnOnePage(u)
  <2>1. Candidates(u)' \in SUBSET Committed'
    BY <1>4
  <2>2. IsFiniteSet(Candidates(u)') /\ Candidates(u) \in SUBSET Candidates(u)'
    BY <1>5, <2>1, FS_Subset
  <2>3. /\ Cardinality(Candidates(u)) <= Cardinality(Candidates(u)')
        /\ Cardinality(Candidates(u)) \in Nat /\ Cardinality(Candidates(u)') \in Nat
    BY <2>2, FS_Subset, FS_CardinalityType
  <2>4. Cardinality(Candidates(u)') <= query[u].pageSize
    BY <1>6 DEF OnOnePage
  <2> QED
    BY <1>6, <2>3, <2>4 DEF OnOnePage
<1>7. ASSUME Undisturbed(u)'
      PROVE  Undisturbed(u) /\ Candidates(u)' = Candidates(u)
  <2>1. Candidates(u)' \subseteq before[u]
    BY <1>7 DEF Undisturbed
  <2>2. Candidates(u)' = Candidates(u)
    BY <1>5, <2>1
  <2>3. \A c, d \in Candidates(u) :
           c # d => Newer(runs'[c], runs'[d]) \/ Newer(runs'[d], runs'[c])
    BY <1>7, <2>2 DEF Undisturbed
  <2> QED
    BY <1>5, <2>1, <2>2, <2>3 DEF Undisturbed
<1> QED
  BY <1>5, <1>6, <1>7

\* What is known of the walk of one reader.
ReaderWalk(rd) == WalkIsPrefix(rd) /\ WalkOnOnePage(rd) /\ WalkAnswered(rd)

\* A walk that a step does not take further stays as exact as it was.
LEMMA WalkStays ==
  ASSUME Grown, IsFiniteSet(Committed), IsFiniteSet(Committed'), NEW u \in Readers,
         before[u] \subseteq Committed, ReaderWalk(u), SameLocals(u), walk'[u] = walk[u],
         rpc'[u] = rpc[u] \/ rpc'[u] = "lost"
  PROVE  ReaderWalk(u)'
<1> DEFINE size == query[u].pageSize
           now == Candidates(u)
<1>1. /\ query'[u] = query[u] /\ before'[u] = before[u] /\ ranswer'[u] = ranswer[u]
      /\ ReadCode(u)' = ReadCode(u)
  BY DEF SameLocals, ReadCode
<1>2. /\ Walking(u)' => Walking(u) /\ rpc'[u] = rpc[u]
      /\ rpc'[u] = "idle" => rpc[u] = "idle"
  BY DEF Walking
<1>3. Walking(u) \/ ReadCode(u) = "LIST" => size \in Nat \ {0}
  BY DEF ReaderWalk, WalkAnswered
<1>4. /\ now \subseteq Candidates(u)'
      /\ \A c \in now : runs'[c] = runs[c]
      /\ before[u] \cap Candidates(u)' = before[u] \cap now
      /\ size \in Nat /\ OnOnePage(u)' => OnOnePage(u)
      /\ Undisturbed(u)' => Undisturbed(u) /\ Candidates(u)' = now
  BY <1>1, CandidatesGrow
<1>5. WalkIsPrefix(u)'
  <2> SUFFICES ASSUME Walking(u)', Undisturbed(u)'
               PROVE  LET first == Offset(walk[u].page, size)
                      IN  /\ first <= Cardinality(now)
                          /\ \A order \in NewestFirst(now)' :
                                walk[u].items = SubSeq(order, 1, first)
                          /\ rpc[u] = "list_runs" => walk[u].total = Cardinality(now)
    BY <1>1, <1>2, <1>4 DEF WalkIsPrefix
  <2>1. Walking(u) /\ Undisturbed(u) /\ Candidates(u)' = now
    BY <1>2, <1>4
  <2>2. NewestFirst(Candidates(u)') = NewestFirst(now)
    BY <2>1
  <2>3. NewestFirst(now)' = NewestFirst(now)
    BY <1>4, <2>1 DEF NewestFirst, Bijection, Injection
  <2> QED
    BY <2>1, <2>3 DEF ReaderWalk, WalkIsPrefix
<1>6. WalkOnOnePage(u)'
  BY <1>1, <1>2, <1>3, <1>4 DEF ReaderWalk, WalkOnOnePage
<1>7. WalkAnswered(u)'
  <2>1. ASSUME ReadCode(u) = "LIST", Undisturbed(u)' \/ OnOnePage(u)'
        PROVE  /\ \A n \in DOMAIN ranswer[u].items : ranswer[u].items[n] \in Candidates(u)'
               /\ Listed(u, ranswer[u].items)'
    <3> DEFINE items == ranswer[u].items
    <3>1. /\ \A n \in DOMAIN items : items[n] \in now
          /\ Listed(u, items)
      BY <1>3, <1>4, <2>1 DEF ReaderWalk, WalkAnswered
    <3>2. before[u] \cap Candidates(u)' \subseteq {items[n] : n \in DOMAIN items}
      BY <1>4, <3>1 DEF Listed
    <3>3. \A m, n \in DOMAIN items : m < n =>
             items[m] # items[n] /\ ~Newer(runs'[items[n]], runs'[items[m]])
      BY <1>4, <3>1 DEF Listed
    <3> QED
      BY <1>1, <1>4, <3>1, <3>2, <3>3 DEF Listed
  <2> QED
    BY <1>1, <1>2, <1>3, <2>1 DEF ReaderWalk, WalkAnswered
<1> QED
  BY <1>5, <1>6, <1>7 DEF ReaderWalk

\* A read that a step does not take keeps its walk.
LEMMA OtherWalks ==
  ASSUME WalkTyped, NEW rd \in Readers, ReadStep(rd), NEW u \in Readers, u # rd
  PROVE  walk'[u] = walk[u]
<1> USE DEF WalkTyped
<1>1. walk' = walk \/ CountRuns(rd) \/ ListRuns(rd)
  BY DEF ReadStep, ReceiveRead, CallComparisonTool, ReceiveList, CallListTool,
     ReceiveBranches, Receives, ReadEnvelope, ReadProject, ReadRun, ReadPackages,
     ReadBaseline, ReadBaselinePackages, ReadRespond, ListBranches, ReadFails, readLocals
<1>2. CASE CountRuns(rd)
  BY <1>2 DEF CountRuns
<1>3. CASE ListRuns(rd)
  BY <1>3 DEF ListRuns
<1> QED
  BY <1>1, <1>2, <1>3

\* A walk begins with the first page.
LEMMA ReceivesWalk ==
  ASSUME ReadTyped, NEW rd \in Readers, ReaderInv(rd), ReaderWalk(rd), UNCHANGED vars,
         NEW parameters, NEW stage, IsFiniteSet(Committed),
         stage \in {"get_project", "get_envelope", "list_branches", "count_runs"},
         stage = "count_runs" => parameters.pageSize \in Nat \ {0},
         Receives(rd, parameters, stage)
  PROVE  ReaderWalk(rd)' /\ walk' = walk
<1>1. /\ rpc[rd] = "idle" /\ rpc'[rd] = stage
      /\ query'[rd] = parameters /\ ranswer'[rd] = ranswer[rd] /\ walk' = walk
  BY DEF Receives, ReadTyped, ReadGoto
<1>2. ranswer'[rd] = None /\ ReadCode(rd)' = "none"
  BY <1>1 DEF ReaderInv, AnswerBuilt, ReadCode
<1>3. walk'[rd] = FirstPage
  BY <1>1 DEF ReaderWalk, WalkAnswered
<1>4. /\ walk'[rd].page = 1 /\ walk'[rd].items = << >>
  BY <1>3 DEF FirstPage
<1>5. CASE stage # "count_runs"
  <2>1. ~Walking(rd)' /\ rpc'[rd] # "idle"
    BY <1>1, <1>5 DEF Walking
  <2> QED
    BY <1>1, <1>2, <2>1 DEF ReaderWalk, WalkIsPrefix, WalkOnOnePage, WalkAnswered
<1>6. CASE stage = "count_runs"
  <2>1. query'[rd].pageSize \in Nat \ {0} /\ rpc'[rd] = "count_runs"
    BY <1>1, <1>6
  <2>2. Offset(1, query'[rd].pageSize) = 0
    BY <2>1 DEF Offset
  <2>3. Cardinality(Candidates(rd)') \in Nat
    <3>1. Candidates(rd)' \subseteq Committed
      BY ReadFinds DEF Candidates
    <3> QED
      BY <3>1, FS_Subset, FS_CardinalityType
  <2>4. \A order : SubSeq(order, 1, 0) = << >>
    BY SubSeqEmpty
  <2>5. WalkIsPrefix(rd)'
    BY <1>4, <2>1, <2>2, <2>3, <2>4 DEF WalkIsPrefix
  <2>6. WalkOnOnePage(rd)'
    BY <1>4, <2>1 DEF WalkOnOnePage
  <2>7. WalkAnswered(rd)'
    BY <1>2, <2>1 DEF WalkAnswered
  <2> QED
    BY <1>1, <2>5, <2>6, <2>7 DEF ReaderWalk
<1> QED
  BY <1>1, <1>5, <1>6

\* A read that is no walk, or fails, lists nothing.
LEMMA NoWalk ==
  ASSUME NEW rd \in Readers, walk' = walk, rpc'[rd] # "idle", ~Walking(rd)',
         ReadCode(rd)' # "LIST"
  PROVE  ReaderWalk(rd)'
BY DEF ReaderWalk, WalkIsPrefix, WalkOnOnePage, WalkAnswered

\* A count is what there is to list.
LEMMA CountRunsWalk ==
  ASSUME ReadTyped, WalkTyped, NEW rd \in Readers, ReaderInv(rd), ReaderWalk(rd),
         UNCHANGED vars, IsFiniteSet(Committed), CountRuns(rd)
  PROVE  ReaderWalk(rd)' /\ WalkTyped'
<1> DEFINE N == Cardinality(Candidates(rd))
<1>1. /\ rpc[rd] = "count_runs" /\ rpc'[rd] = "list_runs" /\ query' = query
      /\ ranswer' = ranswer /\ before' = before
      /\ walk' = [walk EXCEPT ![rd].total = N]
  BY DEF CountRuns, ReadTyped, ReadGoto
<1>2. N \in Nat
  BY CandidatesMatch
<1>3. WalkTyped'
  BY <1>1, <1>2 DEF WalkTyped
<1>4. /\ walk'[rd].page = walk[rd].page /\ walk'[rd].items = walk[rd].items
      /\ walk'[rd].total = N
  BY <1>1 DEF WalkTyped
<1>5. ranswer'[rd] = None /\ ReadCode(rd)' = "none"
  BY <1>1 DEF ReaderInv, AnswerBuilt, ReadCode
<1>6. /\ Candidates(rd)' = Candidates(rd) /\ (Undisturbed(rd)' <=> Undisturbed(rd))
      /\ NewestFirst(Candidates(rd))' = NewestFirst(Candidates(rd))
      /\ (OnOnePage(rd)' <=> OnOnePage(rd))
  BY <1>1, ReadFinds DEF Candidates, Undisturbed, OnOnePage, NewestFirst
<1>7. Walking(rd) /\ Walking(rd)'
  BY <1>1 DEF Walking
<1>8. WalkIsPrefix(rd)'
  BY <1>1, <1>4, <1>6, <1>7 DEF ReaderWalk, WalkIsPrefix
<1>9. WalkOnOnePage(rd)'
  BY <1>1, <1>4, <1>6, <1>7 DEF ReaderWalk, WalkOnOnePage, OnOnePage
<1>10. WalkAnswered(rd)'
  BY <1>1, <1>5, <1>7 DEF ReaderWalk, WalkAnswered
<1> QED
  BY <1>3, <1>8, <1>9, <1>10 DEF ReaderWalk

\* A page takes the walk further down the one order there is, and the last page
\* to its end.
LEMMA ListRunsWalk ==
  ASSUME ReadTyped, WalkTyped, NEW rd \in Readers, ReaderInv(rd), ReaderWalk(rd),
         UNCHANGED vars, IsFiniteSet(Committed), ListRuns(rd)
  PROVE  ReaderWalk(rd)' /\ WalkTyped'
<1> DEFINE now == Candidates(rd)
           N == Cardinality(now)
           size == query[rd].pageSize
           page == walk[rd].page
           first == Offset(page, size)
           last(order) == Min({first + size, Len(order)})
           result(order) == walk[rd].items \o SubSeq(order, first + 1, last(order))
<1>1. PICK order \in NewestFirst(now) :
         IF page < TotalPages(walk[rd].total, size)
         THEN /\ walk' = [walk EXCEPT ![rd].page = page + 1, ![rd].items = result(order)]
              /\ ReadGoto(rd, "count_runs")
              /\ UNCHANGED ranswer
         ELSE /\ ReadAnswer(rd, [code |-> "LIST", items |-> result(order)])
              /\ UNCHANGED walk
  BY DEF ListRuns
<1>2. /\ rpc[rd] = "list_runs" /\ Walking(rd)
      /\ query' = query /\ before' = before
  BY DEF ListRuns, Walking
<1>3. /\ size \in Nat \ {0} /\ page \in Nat \ {0} /\ walk[rd].total \in Nat
      /\ walk[rd].items \in Seq(Requests)
  BY <1>2 DEF WalkTyped, ReaderWalk, WalkAnswered
<1>4. /\ IsFiniteSet(now) /\ N \in Nat /\ now \subseteq Requests
  BY CandidatesMatch
<1>5. /\ order \in Seq(now) /\ Len(order) = N /\ DOMAIN order = 1 .. N
      /\ \A c \in now : \E n \in 1 .. N : order[n] = c
      /\ \A m, n \in 1 .. N : m # n => order[m] # order[n]
      /\ \A m, n \in 1 .. N : m < n => ~Newer(runs[order[n]], runs[order[m]])
      /\ \A n \in 1 .. N : order[n] \in now
  BY <1>4, OrderIsSeq, ElementOfSeq
<1>6. /\ first \in Nat /\ first + size = page * size /\ page * size \in Nat
      /\ page < TotalPages(walk[rd].total, size) <=> page * size < walk[rd].total
      /\ Offset(page + 1, size) = page * size
  <2> HIDE DEF size, page
  <2>1. page < TotalPages(walk[rd].total, size) <=> page * size < walk[rd].total
    BY <1>3, NextPage
  <2>2. first \in Nat /\ first + size = page * size
    BY <1>3, NextPage
  <2>3. Offset(page + 1, size) = page * size
    BY <1>3, NextPage
  <2>4. page * size \in Nat
    BY <1>3
  <2> QED
    BY <2>1, <2>2, <2>3, <2>4
<1>7. /\ last(order) = IF page * size <= N THEN page * size ELSE N
      /\ last(order) \in Nat /\ last(order) <= N
  BY <1>4, <1>5, <1>6, MinOfTwo
<1>8. result(order) \in Seq(Requests)
  <2>1. \A n \in first + 1 .. last(order) : order[n] \in Requests
    BY <1>4, <1>5, <1>6, <1>7
  <2>2. SubSeq(order, first + 1, last(order)) \in Seq(Requests)
    <3>1. first + 1 \in Int /\ last(order) \in Int
      BY <1>6, <1>7
    <3> HIDE DEF first, last
    <3> QED
      BY <2>1, <3>1, SubSeqProperties
  <2> QED
    BY <1>3, <2>2, ConcatProperties
<1>9. ASSUME Undisturbed(rd)
      PROVE  /\ walk[rd].total = N /\ first <= N
             /\ result(order) = SubSeq(order, 1, IF page * size <= N THEN page * size ELSE N)
  <2>1. /\ walk[rd].total = N /\ first <= N
        /\ walk[rd].items = SubSeq(order, 1, first)
    BY <1>2, <1>9 DEF ReaderWalk, WalkIsPrefix
  <2>2. first \in 0 .. Len(order) /\ last(order) \in first .. Len(order)
    BY <1>3, <1>4, <1>5, <1>6, <1>7, <2>1
  <2>3. SubSeq(order, 1, first) \o SubSeq(order, first + 1, last(order))
           = SubSeq(order, 1, last(order))
    <3>1. 1 \in 1 .. Len(order) + 1 /\ first \in 1 - 1 .. Len(order)
      BY <1>4, <1>5, <2>2
    <3> HIDE DEF first, last
    <3> QED
      BY <1>5, <2>2, <3>1, ConcatAdjacentSubSeq
  <2> QED
    BY <1>7, <2>1, <2>3
<1>10. ASSUME OnOnePage(rd)
       PROVE  /\ page = 1 /\ walk[rd].total <= size
              /\ result(order) = order
  <2>1. /\ page = 1 /\ walk[rd].total <= size /\ walk[rd].items = << >> /\ N <= size
    BY <1>2, <1>10 DEF ReaderWalk, WalkOnOnePage, OnOnePage
  <2>2. first = 0 /\ last(order) = N
    BY <1>3, <1>4, <1>6, <1>7, <2>1
  <2>3. SubSeq(order, 1, N) = order
    BY <1>5, SubSeqFull
  <2>4. << >> \o order = order
    BY <1>5, ConcatEmptySeq
  <2> QED
    BY <2>1, <2>2, <2>3, <2>4
<1> HIDE DEF result, last
<1>11. /\ now' = now /\ (Undisturbed(rd)' <=> Undisturbed(rd))
       /\ NewestFirst(now)' = NewestFirst(now)
       /\ (OnOnePage(rd)' <=> OnOnePage(rd))
  BY <1>2, ReadFinds DEF Candidates, Undisturbed, OnOnePage, NewestFirst
<1>12. CASE page < TotalPages(walk[rd].total, size)
  <2>1. /\ walk' = [walk EXCEPT ![rd].page = page + 1, ![rd].items = result(order)]
        /\ rpc'[rd] = "count_runs" /\ ranswer' = ranswer
    BY <1>1, <1>12 DEF ReadGoto, ReadTyped
  <2>2. WalkTyped'
    <3>1. page + 1 \in Nat \ {0}
      BY <1>3
    <3> HIDE DEF page
    <3> QED
      BY <1>3, <1>8, <2>1, <3>1 DEF WalkTyped
  <2>3. walk'[rd].page = page + 1 /\ walk'[rd].items = result(order)
    BY <2>1 DEF WalkTyped
  <2>4. page * size < walk[rd].total
    BY <1>6, <1>12
  <2>5. WalkIsPrefix(rd)'
    <3> SUFFICES ASSUME Undisturbed(rd)
                 PROVE  /\ page * size <= N
                        /\ \A o \in NewestFirst(now) : result(order) = SubSeq(o, 1, page * size)
      BY <1>2, <1>6, <1>11, <2>1, <2>3 DEF WalkIsPrefix
    <3>1. page * size <= N /\ result(order) = SubSeq(order, 1, page * size)
      BY <1>4, <1>6, <1>9, <2>4
    <3>2. \A o \in NewestFirst(now) : o = order
      BY <1>4, OneOrder DEF Undisturbed
    <3> QED
      BY <3>1, <3>2
  <2>6. WalkOnOnePage(rd)'
    <3>1. ~OnOnePage(rd)
      <4> SUFFICES ASSUME OnOnePage(rd) PROVE FALSE
        OBVIOUS
      <4>1. page = 1 /\ walk[rd].total <= size
        BY <1>10
      <4> QED
        BY <1>3, <2>4, <4>1
    <3> QED
      BY <1>11, <3>1 DEF WalkOnOnePage
  <2>7. WalkAnswered(rd)'
    <3>1. ReadCode(rd)' = "none"
      BY <1>2, <2>1 DEF ReaderInv, AnswerBuilt, ReadCode
    <3> QED
      BY <1>2, <1>3, <2>1, <3>1 DEF WalkAnswered
  <2> QED
    BY <2>2, <2>5, <2>6, <2>7 DEF ReaderWalk
<1>13. CASE ~(page < TotalPages(walk[rd].total, size))
  <2>1. /\ walk' = walk /\ rpc'[rd] = "done"
        /\ ranswer'[rd] = [code |-> "LIST", items |-> result(order)]
    BY <1>1, <1>13 DEF ReadAnswer, ReadGoto, ReadTyped
  <2>2. WalkTyped' /\ ~Walking(rd)'
    BY <2>1 DEF WalkTyped, Walking
  <2>3. ranswer'[rd].items = result(order)
    BY <2>1
  <2>4. ASSUME Undisturbed(rd) \/ OnOnePage(rd)
        PROVE  result(order) = order
    <3>1. CASE Undisturbed(rd)
      <4>1. ~(page * size < walk[rd].total)
        BY <1>6, <1>13
      <4>2. result(order) = SubSeq(order, 1, N)
        BY <1>4, <1>6, <1>9, <3>1, <4>1
      <4> QED
        BY <1>5, <4>2, SubSeqFull
    <3> QED
      BY <1>10, <2>4, <3>1
  <2>5. /\ \A n \in DOMAIN order : order[n] \in now
        /\ before[rd] \cap now \subseteq {order[n] : n \in DOMAIN order}
        /\ \A m, n \in DOMAIN order : m < n =>
              order[m] # order[n] /\ ~Newer(runs[order[n]], runs[order[m]])
    BY <1>4, <1>5
  <2>6. WalkAnswered(rd)'
    <3> SUFFICES ASSUME Undisturbed(rd) \/ OnOnePage(rd)
                 PROVE  /\ \A n \in DOMAIN ranswer'[rd].items : ranswer'[rd].items[n] \in now
                        /\ Listed(rd, ranswer[rd].items)'
      BY <1>2, <1>3, <1>11, <2>1 DEF WalkAnswered
    <3>1. ranswer'[rd].items = order
      BY <2>3, <2>4
    <3> QED
      BY <1>2, <1>11, <2>5, <3>1, ReadFinds DEF Listed
  <2> QED
    BY <2>2, <2>6 DEF ReaderWalk, WalkIsPrefix, WalkOnOnePage
<1> QED
  BY <1>12, <1>13

\* A step of one read keeps what is known of its walk.
LEMMA OwnWalkStep ==
  ASSUME ReadInv, WalkInv, NEW rd \in Readers, ReadStep(rd), UNCHANGED vars
  PROVE  ReaderWalk(rd)' /\ WalkTyped'
<1>1. /\ ReadTyped /\ ReaderInv(rd) /\ ReaderWalk(rd) /\ WalkTyped /\ IsFiniteSet(Committed)
  BY DEF ReadInv, WalkInv, ReaderWalk
<1>2. ASSUME NEW id, NEW branch, NEW pageSize \in Nat \ {0},
             Receives(rd, [projectId |-> id, branch |-> branch, pageSize |-> pageSize],
                      "count_runs")
      PROVE  ReaderWalk(rd)' /\ WalkTyped'
  <2> DEFINE parameters == [projectId |-> id, branch |-> branch, pageSize |-> pageSize]
  <2>1. parameters.pageSize \in Nat \ {0}
    OBVIOUS
  <2> HIDE DEF parameters
  <2>2. ReaderWalk(rd)' /\ walk' = walk
    BY <1>1, <1>2, <2>1, ReceivesWalk DEF parameters
  <2> QED
    BY <1>1, <2>2 DEF WalkTyped
<1>a. ASSUME NEW id, NEW branch,
             NEW stage \in {"get_project", "get_envelope", "list_branches"},
             Receives(rd, [projectId |-> id, branch |-> branch, pageSize |-> None], stage)
      PROVE  ReaderWalk(rd)' /\ WalkTyped'
  <2> DEFINE parameters == [projectId |-> id, branch |-> branch, pageSize |-> None]
  <2>1. /\ Receives(rd, parameters, stage)
        /\ stage \in {"get_project", "get_envelope", "list_branches", "count_runs"}
        /\ stage # "count_runs"
    BY <1>a
  <2> HIDE DEF parameters
  <2>2. ReaderWalk(rd)' /\ walk' = walk
    BY <1>1, <2>1, ReceivesWalk
  <2> QED
    BY <1>1, <2>2 DEF WalkTyped
<1>3. ASSUME NEW id \in ProjectIds, NEW branch \in AskedBranches, NEW pageSize \in PageSizes,
             \/ ReceiveList(rd, id, branch, pageSize)
             \/ CallListTool(rd, id, branch, pageSize)
      PROVE  ReaderWalk(rd)' /\ WalkTyped'
  <2>1. pageSize \in Nat
    BY ReadersAskForProjects
  <2>2. /\ EffectivePageSize(pageSize) \in Nat \ {0}
        /\ EffectivePageSize(McpPageSize(pageSize)) \in Nat \ {0}
    BY <2>1, PageSizePositive
  <2> QED
    BY <1>2, <1>3, <2>2 DEF ReceiveList, CallListTool
<1>4. CASE \E id \in ProjectIds, branch \in AskedBranches :
              ReceiveRead(rd, id, branch) \/ CallComparisonTool(rd, id, branch)
  BY <1>a, <1>4 DEF ReceiveRead, CallComparisonTool
<1>5. CASE \E id \in ProjectIds : ReceiveBranches(rd, id)
  BY <1>a, <1>5 DEF ReceiveBranches
<1>6. CASE CountRuns(rd) \/ ListRuns(rd)
  BY <1>1, <1>6, CountRunsWalk, ListRunsWalk
<1>7. CASE \/ ReadEnvelope(rd) \/ ReadProject(rd) \/ ReadRun(rd) \/ ReadPackages(rd)
           \/ ReadBaseline(rd) \/ ReadBaselinePackages(rd) \/ ReadRespond(rd)
           \/ ListBranches(rd) \/ ReadFails(rd)
  <2>1. /\ walk' = walk
        /\ rpc'[rd] \in {"get_project", "get_run", "list_packages", "get_baseline",
                         "list_baseline_packages", "respond", "done"}
    BY <1>1, <1>7 DEF ReadEnvelope, ReadProject, ReadRun, ReadPackages, ReadBaseline,
       ReadBaselinePackages, ReadRespond, ListBranches, ReadFails, readLocals, ReadGoto,
       ReadAnswer, ReadTyped
  <2>2. ranswer[rd] = None
    BY <1>1, <1>7 DEF ReaderInv, AnswerBuilt, ReadEnvelope, ReadProject, ReadRun,
       ReadPackages, ReadBaseline, ReadBaselinePackages, ReadRespond, ListBranches,
       ReadFails, ReadStages
  <2>3. ReadCode(rd)' # "LIST"
    <3> USE <1>1 DEF ReadTyped, ReadGoto, ReadAnswer
    <3>1. ASSUME NEW code \in {"NOT_FOUND", "INTERNAL"}, NEW what,
                 ranswer'[rd] = [code |-> code, what |-> what]
          PROVE  ReadCode(rd)' # "LIST"
      BY <3>1 DEF ReadCode
    <3>2. ASSUME NEW branches, ranswer'[rd] = [code |-> "BRANCHES", branches |-> branches]
          PROVE  ReadCode(rd)' # "LIST"
      BY <3>2 DEF ReadCode
    <3>3. ASSUME ranswer' = ranswer
          PROVE  ReadCode(rd)' # "LIST"
      BY <2>2, <3>3 DEF ReadCode
    <3>4. CASE ReadEnvelope(rd) \/ ReadProject(rd) \/ ReadRun(rd)
      <4>1. \/ ranswer' = ranswer
            \/ ranswer'[rd] = [code |-> "NOT_FOUND", what |-> "project"]
            \/ ranswer'[rd] = [code |-> "NOT_FOUND", what |-> "run"]
        BY <3>4 DEF ReadEnvelope, ReadProject, ReadRun
      <4> QED
        BY <3>1, <3>3, <4>1
    <3>5. CASE ReadPackages(rd) \/ ReadBaseline(rd) \/ ReadBaselinePackages(rd)
      BY <3>3, <3>5 DEF ReadPackages, ReadBaseline, ReadBaselinePackages
    <3>6. CASE ReadRespond(rd)
      <4>1. ranswer'[rd] = ComparisonOutput(rd)
        BY <3>6 DEF ReadRespond
      <4>2. ComparisonOutput(rd).code = "OK"
        BY DEF ComparisonOutput
      <4> QED
        BY <4>1, <4>2 DEF ReadCode
    <3>7. CASE ListBranches(rd)
      BY <3>2, <3>7 DEF ListBranches
    <3>8. CASE ReadFails(rd)
      BY <3>1, <3>8 DEF ReadFails
    <3> QED
      BY <1>7, <3>4, <3>5, <3>6, <3>7, <3>8
  <2>4. WalkTyped' /\ ~Walking(rd)'
    BY <1>1, <2>1 DEF WalkTyped, Walking
  <2> QED
    BY <2>1, <2>3, <2>4, NoWalk
<1> QED
  BY <1>3, <1>4, <1>5, <1>6, <1>7 DEF ReadStep

\* Every step keeps what is known of every walk.
LEMMA WalkInvStep ==
  ASSUME TableInv, TableInv', AnswerInv, ReadInv, WalkInv, [AllNext]_<<vars, readVars>>
  PROVE  WalkInv'
<1>1. Grown /\ [Next]_vars
  BY IngestGrows, ReadsOnlyRead
<1>2. /\ IsFiniteSet(Committed) /\ IsFiniteSet(Committed')
  BY <1>1, CommitsOneByOne DEF WalkInv
<1>3. \A u \in Readers : ReaderWalk(u) /\ before[u] \subseteq Committed
  BY DEF WalkInv, ReaderWalk, ReadInv, ReaderInv, Asked
<1>4. ASSUME NEW rd \in Readers, ReadStep(rd), UNCHANGED vars
      PROVE  WalkInv'
  <2>1. ReaderWalk(rd)' /\ WalkTyped'
    BY <1>4, OwnWalkStep
  <2>2. ASSUME NEW u \in Readers, u # rd
        PROVE  ReaderWalk(u)'
    <3>1. SameLocals(u) /\ rpc'[u] = rpc[u]
      BY <1>4, <2>2, OtherReaders DEF ReadInv
    <3>2. walk'[u] = walk[u]
      BY <1>4, <2>2, OtherWalks DEF WalkInv
    <3> QED
      BY <1>1, <1>2, <1>3, <3>1, <3>2, WalkStays
  <2> QED
    BY <1>2, <2>1, <2>2 DEF WalkInv, ReaderWalk
<1>5. CASE \/ UNCHANGED readVars
           \/ ReadsCrash /\ UNCHANGED <<readLocals, ranswer, before>>
  <2>1. /\ walk' = walk
        /\ \A u \in Readers : SameLocals(u) /\ (rpc'[u] = rpc[u] \/ rpc'[u] = "lost")
    BY <1>5 DEF readVars, readLocals, SameLocals, ReadsCrash
  <2>2. WalkTyped'
    BY <2>1 DEF WalkTyped, WalkInv
  <2>3. \A u \in Readers : ReaderWalk(u)'
    BY <1>1, <1>2, <1>3, <2>1, WalkStays
  <2> QED
    BY <1>2, <2>2, <2>3 DEF WalkInv, ReaderWalk
<1> QED
  BY <1>4, <1>5 DEF AllNext

\* Before anything is read, no page is.
LEMMA WalkInitInv == AllInit => WalkInv
<1> SUFFICES ASSUME AllInit PROVE WalkInv
  OBVIOUS
<1>1. Committed = {}
  BY DEF AllInit, Init, Committed
<1>2. FirstPage \in [page : Nat \ {0}, total : Nat, items : Seq(Requests)]
  BY EmptySeq DEF FirstPage
<1>3. WalkTyped
  BY <1>2 DEF AllInit, ReadInit, WalkTyped
<1>4. ASSUME NEW rd \in Readers
      PROVE  WalkIsPrefix(rd) /\ WalkOnOnePage(rd) /\ WalkAnswered(rd)
  <2>1. /\ rpc[rd] = "idle" /\ walk[rd] = FirstPage /\ ReadCode(rd) = "none"
        /\ ~Walking(rd)
    BY DEF AllInit, ReadInit, ReadCode, Walking
  <2> QED
    BY <2>1 DEF WalkIsPrefix, WalkOnOnePage, WalkAnswered
<1> QED
  BY <1>1, <1>3, <1>4, FS_EmptySet DEF WalkInv

\* A walk over pages of any size, next to any submissions, faults and other
\* reads, lists every run committed before it began once and newest first, if no
\* matching run was committed meanwhile and no two tie, or if one page holds them.
THEOREM WalksAreExact == ReadSpec => []WalkIsExact
<1>1. WalkInv => WalkIsExact
  BY DEF WalkInv, WalkAnswered, WalkIsExact
<1>2. /\ TableInv /\ TableInv' /\ AnswerInv /\ ReadInv /\ WalkInv
      /\ [AllNext]_<<vars, readVars>>
      => WalkInv'
  BY WalkInvStep
<1> QED
  BY <1>1, <1>2, WalkInitInv, ReadInvariant, PTL DEF ReadSpec
=============================================================================
