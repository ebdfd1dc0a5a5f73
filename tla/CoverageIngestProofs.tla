------------------------ MODULE CoverageIngestProofs ------------------------
(***************************************************************************)
(* Proofs about CoverageIngest, for any sets of requests, keys, branches,  *)
(* paths, timestamps and inputs, and with faults or without.               *)
(***************************************************************************)
EXTENDS CoverageIngest, TLAPS

-----------------------------------------------------------------------------
(* Lemmas about the domain operators. *)

\* Rounding to cents gives an integer.
LEMMA StoredType == ASSUME NEW v \in Int PROVE Stored(v) \in Int
  BY DEF Stored, Cent

\* The comparison of two percentages is a comparison response.
LEMMA ComparisonType ==
  ASSUME NEW current \in Int, NEW previous \in Int \cup {None},
         NEW threshold \in Int
  PROVE  buildComparison(current, previous, threshold) \in Comparison
<1>1. None \notin Int
  BY NoneIsNoValue
<1>2. Direction(current, previous) \in Directions
  BY <1>1 DEF Direction, Directions
<1>3. EvaluateThreshold(current, threshold) \in {"passed", "failed"}
  BY DEF EvaluateThreshold
<1> QED
  BY <1>1, <1>2, <1>3 DEF buildComparison, Comparison, CompareCoverage

\* Package comparisons are made of typed package rows.
LEMMA PackageComparisonsType ==
  ASSUME NEW current \in SUBSET PackageCoverage,
         NEW previous \in SUBSET PackageCoverage
  PROVE  buildPackageComparisons(current, previous)
            \in SUBSET PackageComparison(Paths)
<1> DEFINE Same(p) == {q \in previous : q.importPath = p.importPath}
           Prev(p) == IF Same(p) = {} THEN None
                      ELSE (CHOOSE q \in Same(p) : TRUE).coveragePercent
           Line(p) == [importPath |-> p.importPath,
                       previousCoveragePercent |-> Prev(p),
                       currentCoveragePercent |-> p.coveragePercent,
                       direction |-> Direction(p.coveragePercent, Prev(p))]
<1>1. ASSUME NEW p \in current PROVE Line(p) \in PackageComparison(Paths)
  <2>1. p.importPath \in Paths /\ p.coveragePercent \in Int
    BY DEF PackageCoverage
  <2>2. Prev(p) \in Int \cup {None}
    <3>1. CASE Same(p) = {}
      BY <3>1
    <3>2. CASE Same(p) # {}
      <4>1. (CHOOSE q \in Same(p) : TRUE) \in Same(p)
        BY <3>2
      <4> QED
        BY <3>2, <4>1 DEF PackageCoverage
    <3> QED
      BY <3>1, <3>2
  <2>3. Direction(p.coveragePercent, Prev(p)) \in Directions
    BY DEF Direction, Directions
  <2> HIDE DEF Prev
  <2> QED
    BY <2>1, <2>2, <2>3 DEF PackageComparison
<1>2. buildPackageComparisons(current, previous) = {Line(p) : p \in current}
  BY DEF buildPackageComparisons
<1> HIDE DEF Line
<1> QED
  BY <1>1, <1>2

\* A valid report has typed packages: every path is there.
LEMMA ValidPackages ==
  ASSUME NEW in \in IngestInput, ValidInput(in)
  PROVE  /\ in.packages \in SUBSET PackageCoverage
         /\ StoredPackages(in.packages) \in SUBSET PackageCoverage
<1>1. ASSUME NEW p \in in.packages
      PROVE  p \in [importPath: Paths \cup {None}, coveragePercent: Int]
  BY DEF IngestInput
<1>2. ASSUME NEW p \in in.packages PROVE p \in PackageCoverage
  BY <1>1 DEF ValidInput, PackageCoverage
<1>3. ASSUME NEW p \in in.packages
      PROVE  [p EXCEPT !.coveragePercent = Stored(p.coveragePercent)]
                \in PackageCoverage
  BY <1>2, StoredType DEF PackageCoverage
<1> QED
  BY <1>2, <1>3 DEF StoredPackages

\* Rounding the columns of a run keeps it a run.
LEMMA StoredRunType ==
  ASSUME NEW c \in CoverageRun PROVE StoredRun(c) \in CoverageRun
  BY StoredType DEF StoredRun, CoverageRun

\* Rounding the columns of a project keeps its identity and its type.
LEMMA StoredProjectType ==
  ASSUME NEW p \in Project
  PROVE  /\ StoredProject(p) \in Project
         /\ StoredProject(p).id = p.id
         /\ StoredProject(p).projectKey = p.projectKey
  BY StoredType DEF StoredProject, Project

\* The project built for an unknown key of a valid report.
LEMMA NewProjectType ==
  ASSUME NEW r \in Requests, input[r] \in IngestInput, ValidInput(input[r])
  PROVE  /\ NewProject(r) \in Project
         /\ NewProject(r).id = r
         /\ NewProject(r).projectKey = input[r].projectKey
<1>1. input[r].projectKey \in Keys
  BY DEF IngestInput, ValidInput
<1>2. DefaultThresholdPercent \in Int
  BY DEF DefaultThresholdPercent
<1> QED
  BY <1>1, <1>2, DomainOfInputs DEF NewProject, Project, IngestInput

-----------------------------------------------------------------------------
(* Every action preserves the invariant. *)

\* Empty tables and requests that have not arrived satisfy the invariant.
LEMMA InitInv == Init => TableInv
<1> SUFFICES ASSUME Init PROVE TableInv
  OBVIOUS
<1> USE DEF Init
<1>1. TypeOK
  BY DEF TypeOK, NoRows
<1>2. BaselineKnown /\ ProjectsWellFormed /\ CommittedLate /\ OneProjectPerKey
      /\ RunsAreWhole
  BY DEF BaselineKnown, ProjectsWellFormed, CommittedLate, OneProjectPerKey,
         RunsAreWhole, Owns
<1>3. ReportsInFlight /\ LocalsAgree /\ RunBuilt
  BY DEF ReportsInFlight, LocalsAgree, RunBuilt, Owns, Stages, Resolved, Built
<1>4. TxHolds
  BY DEF TxHolds
<1> QED
  BY <1>1, <1>2, <1>3, <1>4 DEF TableInv

\* INSERT project: a row for the request's key, beside the rows there were.
LEMMA ProjectInserted ==
  ASSUME TableInv, NEW r \in Requests, pc[r] = "create_project",
         UniqueKeyHolds(r),
         projects' = [projects EXCEPT ![r] = StoredProject(NewProject(r))]
  PROVE  /\ NewProject(r) \in Project /\ NewProject(r).id = r
         /\ projects' \in [Requests -> Project \cup {None}]
         /\ \A p \in Requests : Owns(projects, p) =>
               Owns(projects, p)' /\ projects'[p] = projects[p]
         /\ \A p \in Requests \ {r} : projects'[p] = projects[p]
         /\ Owns(projects, r)' /\ projects'[r].id = r
         /\ projects'[r].projectKey = input[r].projectKey
         /\ OneProjectPerKey'
<1> USE DEF TableInv
<1>1. /\ NewProject(r) \in Project /\ NewProject(r).id = r
      /\ NewProject(r).projectKey = input[r].projectKey
  BY NewProjectType DEF TypeOK, ReportsInFlight, Owns, Stages
<1> DEFINE row == StoredProject(NewProject(r))
<1>2. row \in Project /\ row.id = r /\ row.projectKey = input[r].projectKey
  BY <1>1, StoredProjectType
<1>3. projects'[r] = row /\ \A p \in Requests \ {r} : projects'[p] = projects[p]
  BY DEF TypeOK
<1> HIDE DEF row
<1>4. projects' \in [Requests -> Project \cup {None}]
  BY <1>2 DEF row, TypeOK
<1>5. ~Owns(projects, r) /\ Owns(projects, r)'
  BY <1>2, <1>3, NoneIsNoValue DEF ProjectsWellFormed, Owns
<1>6. OneProjectPerKey'
  BY <1>2, <1>3 DEF OneProjectPerKey, Owns, UniqueKeyHolds, ProjectsWithKey
<1> QED
  BY <1>1, <1>2, <1>3, <1>4, <1>5, <1>6 DEF Owns

\* UPDATE project: the row the request looked up gets a threshold and keeps
\* its id and key.
LEMMA ThresholdUpdated ==
  ASSUME TableInv, NEW r \in Requests, pc[r] = "update_threshold",
         projects' = UpdatedProjects(r)
  PROVE  /\ project[r].id \in Requests
         /\ Owns(projects, project[r].id)
         /\ projects' \in [Requests -> Project \cup {None}]
         /\ \A p \in Requests :
               /\ Owns(projects, p) <=> Owns(projects, p)'
               /\ projects'[p].id = projects[p].id
               /\ projects'[p].projectKey = projects[p].projectKey
         /\ OneProjectPerKey'
<1> USE DEF TableInv
<1>1. /\ project[r].id \in Requests
      /\ Owns(projects, project[r].id)
      /\ projects[project[r].id] \in Project
  BY DEF TypeOK, LocalsAgree, Resolved, Owns, Project
<1>2. Stored(input[r].thresholdPercent) \in Int
  <2>1. input[r].thresholdPercent \in Int
    BY DEF ReportsInFlight, TypeOK, Owns, Stages, IngestInput
  <2> QED
    BY <2>1, StoredType
<1> DEFINE old == projects[project[r].id]
           row == [old EXCEPT !.globalThresholdPercent =
                      Stored(input[r].thresholdPercent)]
<1>3. row \in Project /\ row.id = old.id /\ row.projectKey = old.projectKey
  BY <1>1, <1>2 DEF Project
<1>4. projects' = [projects EXCEPT ![project[r].id] = row]
  BY DEF UpdatedProjects
<1> HIDE DEF row
<1>5. projects' \in [Requests -> Project \cup {None}]
  BY <1>1, <1>3, <1>4 DEF TypeOK
<1>6. ASSUME NEW p \in Requests
      PROVE  /\ Owns(projects, p) <=> Owns(projects, p)'
             /\ projects'[p].id = projects[p].id
             /\ projects'[p].projectKey = projects[p].projectKey
  BY <1>1, <1>3, <1>4, NoneIsNoValue DEF Owns, TypeOK
<1>7. OneProjectPerKey'
  BY <1>6 DEF OneProjectPerKey, Owns
<1> QED
  BY <1>1, <1>5, <1>6, <1>7

\* COMMIT: the whole of the request's run appears, and nothing else changes.
LEMMA RunCommitted ==
  ASSUME TableInv, NEW r \in Requests, pc[r] = "commit", ApplyTx(r),
         UNCHANGED <<projects, input>>
  PROVE  /\ runs' \in [Requests -> CoverageRun \cup {None}]
         /\ packages' \in [Requests -> SUBSET PackageCoverage]
         /\ \A c \in Requests \ {r} : runs'[c] = runs[c]
         /\ runs'[r] = StoredRun(run[r]) /\ Owns(runs, r)'
         /\ RunsAreWhole'
<1> USE DEF TableInv
<1>1. run[r] \in CoverageRun /\ run[r].projectId = project[r].id
  BY DEF TypeOK, RunBuilt, Built, Owns
<1>2. tx[r].run = StoredRun(run[r])
  BY DEF TxHolds
<1>3. StoredRun(run[r]).projectId = run[r].projectId
  BY <1>1 DEF StoredRun, CoverageRun
<1>4. tx[r].run \in CoverageRun /\ tx[r].packages \in SUBSET PackageCoverage
  BY <1>1, <1>2, StoredRunType DEF TypeOK
<1>5. /\ runs' \in [Requests -> CoverageRun \cup {None}]
      /\ packages' \in [Requests -> SUBSET PackageCoverage]
  BY <1>4 DEF ApplyTx, TypeOK
<1>6. ASSUME NEW c \in Requests, c # r
      PROVE  runs'[c] = runs[c] /\ packages'[c] = packages[c]
  BY <1>6 DEF ApplyTx, TypeOK
<1>7. runs'[r] = tx[r].run /\ packages'[r] = StoredPackages(input[r].packages)
  BY DEF ApplyTx, TypeOK, TxHolds
<1>8. runs'[r] # None
  BY <1>4, <1>7, NoneIsNoValue
<1>9. /\ Owns(projects, project[r].id)
      /\ projects[project[r].id].projectKey = input[r].projectKey
  BY DEF LocalsAgree, Resolved
<1>10. RunsAreWhole'
  BY <1>1, <1>2, <1>3, <1>6, <1>7, <1>8, <1>9 DEF RunsAreWhole, Owns
<1> QED
  BY <1>2, <1>5, <1>6, <1>7, <1>8, <1>10 DEF Owns

\* A report arrives, valid or not: its request starts with it and without locals.
LEMMA ReceiveInv ==
  ASSUME TableInv, NEW r \in Requests, NEW in \in Inputs, Receive(r, in)
  PROVE  TableInv'
<1> USE DEF TableInv, Receive, Goto, Answer, tables, locals
<1>1. TypeOK'
  <2>1. input' \in [Requests -> IngestInput \cup {None}]
    BY DomainOfInputs DEF TypeOK
  <2>2. seen' \in [Requests -> SUBSET Requests]
    BY DEF TypeOK
  <2>3. pc' \in [Requests -> Stages \cup {"idle", "done", "lost"}]
    <3>1. \E stage \in {"get_project", "done"} : pc' = [pc EXCEPT ![r] = stage]
      OBVIOUS
    <3> QED
      BY <3>1 DEF TypeOK, Stages
  <2>4. resp' \in [Requests -> ErrorAnswer \cup OkAnswer \cup {None}]
    <3>1. [code |-> "INVALID_ARGUMENT", stage |-> "validate"] \in ErrorAnswer
      BY DEF ErrorAnswer
    <3> QED
      BY <3>1 DEF TypeOK
  <2> QED
    BY <2>1, <2>2, <2>3, <2>4 DEF TypeOK
<1>2. BaselineKnown'
  BY DEF BaselineKnown, Owns, TypeOK
<1>3. ReportsInFlight'
  BY NoneIsNoValue, DomainOfInputs DEF ReportsInFlight, Owns, TypeOK, Stages
<1>4. ProjectsWellFormed'
  BY DEF ProjectsWellFormed, Owns, TypeOK
<1>5. LocalsAgree'
  BY DEF LocalsAgree, Owns, TypeOK, Resolved
<1>6. RunBuilt'
  BY DEF RunBuilt, Owns, TypeOK, Built, Stages
<1>7. TxHolds'
  BY DEF TxHolds, Owns, TypeOK, NoRows
<1>8. CommittedLate'
  BY DEF CommittedLate, Owns, TypeOK
<1>9. OneProjectPerKey'
  BY DEF OneProjectPerKey, Owns
<1>10. RunsAreWhole'
  BY DEF RunsAreWhole, Owns, CommittedLate, TypeOK
<1> QED
  BY <1>1, <1>2, <1>3, <1>4, <1>5, <1>6, <1>7, <1>8, <1>9, <1>10

\* SELECT project: a row that is found becomes the request's project.
LEMMA GetProjectInv ==
  ASSUME TableInv, NEW r \in Requests, GetProject(r)
  PROVE  TableInv'
<1> USE DEF TableInv, GetProject, Goto, tables, locals
<1>1. TypeOK'
  BY DEF TypeOK, Stages, ProjectsWithKey
<1>2. BaselineKnown'
  BY DEF BaselineKnown, Owns, TypeOK
<1>3. ReportsInFlight'
  BY DEF ReportsInFlight, Owns, TypeOK, Stages
<1>4. ProjectsWellFormed'
  BY DEF ProjectsWellFormed, Owns, TypeOK
<1>5. LocalsAgree'
  <2>1. \A s \in Requests \ {r} : pc'[s] = pc[s] /\ project'[s] = project[s]
    BY DEF TypeOK
  <2>2. ASSUME pc'[r] \in Resolved
        PROVE  \E p \in Requests : /\ Owns(projects, p)
                                  /\ projects[p].projectKey = input[r].projectKey
                                  /\ project'[r] = projects[p]
    BY <2>2 DEF TypeOK, ProjectsWithKey, Owns, Resolved
  <2>3. ASSUME pc'[r] \in Resolved
        PROVE  /\ Owns(project', r)
               /\ Owns(projects, project'[r].id)
               /\ projects[project'[r].id].projectKey = input[r].projectKey
    BY <2>2, <2>3 DEF ProjectsWellFormed, Owns
  <2> QED
    BY <2>1, <2>3 DEF LocalsAgree, Owns
<1>6. RunBuilt'
  <2>1. pc'[r] \in Stages \ Built /\ \A s \in Requests \ {r} :
            pc'[s] = pc[s] /\ project'[s] = project[s]
    BY DEF TypeOK, Stages, Built
  <2>2. pc[r] \in Stages \ Built
    BY DEF Stages, Built
  <2> QED
    BY <2>1, <2>2 DEF RunBuilt, Owns
<1>7. TxHolds'
  BY DEF TxHolds, Owns, TypeOK, NoRows
<1>8. CommittedLate'
  BY DEF CommittedLate, Owns, TypeOK
<1>9. OneProjectPerKey'
  BY DEF OneProjectPerKey, Owns
<1>10. RunsAreWhole'
  BY DEF RunsAreWhole, Owns
<1> QED
  BY <1>1, <1>2, <1>3, <1>4, <1>5, <1>6, <1>7, <1>8, <1>9, <1>10

\* INSERT project: it succeeds, or another request has inserted the key.
LEMMA CreateProjectInv ==
  ASSUME TableInv, NEW r \in Requests, CreateProject(r)
  PROVE  TableInv'
<1> USE DEF TableInv, CreateProject, Goto, tables, locals
<1>a. /\ NewProject(r) \in Project /\ NewProject(r).id = r
      /\ projects' \in [Requests -> Project \cup {None}]
      /\ \A p \in Requests : Owns(projects, p) =>
            Owns(projects, p)' /\ projects'[p] = projects[p]
      /\ \A p \in Requests \ {r} : projects'[p] = projects[p]
      /\ Owns(projects, r)' /\ projects'[r].id = r
      /\ projects'[r].projectKey = input[r].projectKey
      /\ OneProjectPerKey'
  BY ProjectInserted
<1>1. TypeOK'
  <2>1. created' \in [Requests -> BOOLEAN]
    BY DEF TypeOK
  <2>2. pc' \in [Requests -> Stages \cup {"idle", "done", "lost"}]
    BY DEF TypeOK, Stages
  <2>3. /\ projects' \in [Requests -> Project \cup {None}]
        /\ project' \in [Requests -> Project \cup {None}]
    BY <1>a DEF TypeOK
  <2> QED
    BY <2>1, <2>2, <2>3 DEF TypeOK
<1>2. BaselineKnown'
  BY DEF BaselineKnown, Owns, TypeOK
<1>3. ReportsInFlight'
  BY DEF ReportsInFlight, Owns, TypeOK, Stages
<1>4. ProjectsWellFormed'
  BY <1>a DEF ProjectsWellFormed, Owns, TypeOK
<1>5. LocalsAgree'
  <2>1. project'[r] = NewProject(r) /\ Owns(project, r)'
    BY <1>a, NoneIsNoValue DEF Owns, TypeOK
  <2>2. ASSUME NEW s \in Requests, s # r, pc'[s] \in Resolved
        PROVE  /\ pc[s] \in Resolved /\ project'[s] = project[s]
               /\ project[s].id \in Requests
    <3>1. pc[s] \in Resolved /\ project'[s] = project[s]
      BY <2>2 DEF TypeOK
    <3> QED
      BY <3>1 DEF LocalsAgree, Owns, TypeOK, Project
  <2> QED
    BY <1>a, <2>1, <2>2 DEF LocalsAgree, Owns
<1>6. RunBuilt'
  BY DEF RunBuilt, Owns, TypeOK, Built, Stages
<1>7. TxHolds'
  BY DEF TxHolds, Owns, TypeOK, NoRows
<1>8. CommittedLate'
  BY DEF CommittedLate, Owns, TypeOK
<1>9. OneProjectPerKey'
  BY <1>a
<1>10. RunsAreWhole'
  BY <1>a DEF RunsAreWhole, Owns, TypeOK, CoverageRun
<1> QED
  BY <1>1, <1>2, <1>3, <1>4, <1>5, <1>6, <1>7, <1>8, <1>9, <1>10

\* UPDATE threshold: the row and the local copy keep their identity.
LEMMA UpdateThresholdInv ==
  ASSUME TableInv, NEW r \in Requests, UpdateThreshold(r)
  PROVE  TableInv'
<1> USE DEF TableInv, UpdateThreshold, Goto, tables, locals
<1>a. /\ project[r].id \in Requests
      /\ Owns(projects, project[r].id)
      /\ projects' \in [Requests -> Project \cup {None}]
      /\ OneProjectPerKey'
  BY ThresholdUpdated
<1>b. ASSUME NEW p \in Requests
      PROVE  /\ Owns(projects, p) <=> Owns(projects, p)'
             /\ projects'[p].id = projects[p].id
             /\ projects'[p].projectKey = projects[p].projectKey
  BY ThresholdUpdated
<1>1. TypeOK'
  <2>1. pc' \in [Requests -> Stages \cup {"idle", "done", "lost"}]
    BY DEF TypeOK, Stages
  <2>2. project' \in [Requests -> Project \cup {None}]
    BY <1>a DEF TypeOK
  <2> QED
    BY <1>a, <2>1, <2>2 DEF TypeOK
<1>2. BaselineKnown'
  BY DEF BaselineKnown, Owns, TypeOK
<1>3. ReportsInFlight'
  BY DEF ReportsInFlight, Owns, TypeOK, Stages
<1>4. ProjectsWellFormed'
  BY <1>b DEF ProjectsWellFormed, Owns, TypeOK
<1>5. LocalsAgree'
  <2>1. project'[r] = projects'[project[r].id] /\ \A s \in Requests \ {r} :
            project'[s] = project[s] /\ pc'[s] = pc[s]
    BY DEF TypeOK
  <2>2. project'[r].id = project[r].id /\ Owns(project, r)'
    BY <1>a, <1>b, <2>1 DEF ProjectsWellFormed, Owns
  <2>3. ASSUME NEW s \in Requests, pc[s] \in Resolved
        PROVE  project[s].id \in Requests
    BY <2>3 DEF LocalsAgree, Owns, TypeOK, Project
  <2>4. pc[r] \in Resolved
    BY DEF Resolved
  <2> QED
    BY <1>b, <2>1, <2>2, <2>3, <2>4 DEF LocalsAgree, Owns
<1>6. RunBuilt'
  BY DEF RunBuilt, Owns, TypeOK, Built, Stages
<1>7. TxHolds'
  BY DEF TxHolds, Owns, TypeOK, NoRows
<1>8. CommittedLate'
  BY DEF CommittedLate, Owns, TypeOK
<1>9. OneProjectPerKey'
  BY <1>a
<1>10. RunsAreWhole'
  BY <1>b DEF RunsAreWhole, Owns, TypeOK, CoverageRun
<1> QED
  BY <1>1, <1>2, <1>3, <1>4, <1>5, <1>6, <1>7, <1>8, <1>9, <1>10

\* SELECT baseline: a committed run, or none.
LEMMA GetBaselineInv ==
  ASSUME TableInv, NEW r \in Requests, GetBaseline(r)
  PROVE  TableInv'
<1> USE DEF TableInv, GetBaseline, Goto, tables, locals
<1>1. TypeOK'
  <2>1. pc' \in [Requests -> Stages \cup {"idle", "done", "lost"}]
    BY DEF TypeOK, Stages
  <2>2. baseline' \in [Requests -> Requests \cup {None}]
    BY DEF TypeOK, Latest, RunsOn
  <2> QED
    BY <2>1, <2>2 DEF TypeOK
<1>2. BaselineKnown'
  BY DEF BaselineKnown, Owns, TypeOK, Latest, RunsOn
<1>3. ReportsInFlight'
  BY NoneIsNoValue DEF ReportsInFlight, Owns, TypeOK, Stages, Latest, RunsOn
<1>4. ProjectsWellFormed'
  BY DEF ProjectsWellFormed, Owns, TypeOK
<1>5. LocalsAgree'
  BY DEF LocalsAgree, Owns, TypeOK, Resolved
<1>6. RunBuilt'
  <2>1. pc'[r] \in Stages \ Built /\ \A s \in Requests \ {r} :
            pc'[s] = pc[s] /\ project'[s] = project[s]
    BY DEF TypeOK, Stages, Built
  <2>2. pc[r] \in Stages \ Built
    BY DEF Stages, Built
  <2> QED
    BY <2>1, <2>2 DEF RunBuilt, Owns
<1>7. TxHolds'
  BY DEF TxHolds, Owns, TypeOK, NoRows
<1>8. CommittedLate'
  BY DEF CommittedLate, Owns, TypeOK
<1>9. OneProjectPerKey'
  BY DEF OneProjectPerKey, Owns
<1>10. RunsAreWhole'
  BY DEF RunsAreWhole, Owns
<1> QED
  BY <1>1, <1>2, <1>3, <1>4, <1>5, <1>6, <1>7, <1>8, <1>9, <1>10

\* SELECT packages of the baseline: rows that a committed run has.
LEMMA ListBaselinePackagesInv ==
  ASSUME TableInv, NEW r \in Requests, ListBaselinePackages(r)
  PROVE  TableInv'
<1> USE DEF TableInv, ListBaselinePackages, Goto, tables, locals
<1>1. TypeOK'
  BY DEF TypeOK, Stages, ReportsInFlight, Owns
<1>2. BaselineKnown'
  BY DEF BaselineKnown, Owns, TypeOK
<1>3. ReportsInFlight'
  BY DEF ReportsInFlight, Owns, TypeOK, Stages
<1>4. ProjectsWellFormed'
  BY DEF ProjectsWellFormed, Owns, TypeOK
<1>5. LocalsAgree'
  BY DEF LocalsAgree, Owns, TypeOK, Resolved
<1>6. RunBuilt'
  BY DEF RunBuilt, Owns, TypeOK, Built, Stages
<1>7. TxHolds'
  BY DEF TxHolds, Owns, TypeOK, NoRows
<1>8. CommittedLate'
  BY DEF CommittedLate, Owns, TypeOK
<1>9. OneProjectPerKey'
  BY DEF OneProjectPerKey, Owns
<1>10. RunsAreWhole'
  BY DEF RunsAreWhole, Owns
<1> QED
  BY <1>1, <1>2, <1>3, <1>4, <1>5, <1>6, <1>7, <1>8, <1>9, <1>10

\* The run is built in memory: it is named after its request and its project.
LEMMA BuildRunInv ==
  ASSUME TableInv, NEW r \in Requests, BuildRun(r)
  PROVE  TableInv'
<1> USE DEF TableInv, BuildRun, Goto, tables, locals
<1>a. /\ project[r].id \in Requests
      /\ input[r].branch \in Branches
      /\ input[r].runTimestamp \in Times
      /\ input[r].totalCoveragePercent \in Int
      /\ clock' \in Nat
  BY DEF TypeOK, LocalsAgree, Resolved, Owns, Project, ReportsInFlight, Stages,
         ValidInput, IngestInput
<1>1. TypeOK'
  <2>1. pc' \in [Requests -> Stages \cup {"idle", "done", "lost"}]
    BY DEF TypeOK, Stages
  <2>2. clock' \in Nat
    BY DEF TypeOK
  <2>3. run'[r] \in CoverageRun
    BY <1>a, <2>2 DEF TypeOK, CoverageRun
  <2> QED
    BY <2>1, <2>2, <2>3 DEF TypeOK
<1>2. BaselineKnown'
  BY DEF BaselineKnown, Owns, TypeOK
<1>3. ReportsInFlight'
  BY DEF ReportsInFlight, Owns, TypeOK, Stages
<1>4. ProjectsWellFormed'
  BY DEF ProjectsWellFormed, Owns, TypeOK
<1>5. LocalsAgree'
  BY DEF LocalsAgree, Owns, TypeOK, Resolved
<1>6. RunBuilt'
  <2>1. run'[r] # None
    BY <1>a, NoneIsNoValue DEF TypeOK, CoverageRun
  <2>2. \A s \in Requests \ {r} : pc'[s] = pc[s] /\ run'[s] = run[s]
    BY DEF TypeOK
  <2>3. pc'[r] = "insert_run"
    BY DEF TypeOK
  <2> QED
    BY <2>1, <2>2, <2>3 DEF RunBuilt, Owns, Built, Stages, TypeOK
<1>7. TxHolds'
  BY DEF TxHolds, Owns, TypeOK, NoRows
<1>8. CommittedLate'
  BY DEF CommittedLate, Owns, TypeOK
<1>9. OneProjectPerKey'
  BY DEF OneProjectPerKey, Owns
<1>10. RunsAreWhole'
  BY DEF RunsAreWhole, Owns
<1> QED
  BY <1>1, <1>2, <1>3, <1>4, <1>5, <1>6, <1>7, <1>8, <1>9, <1>10

\* INSERT run: the transaction holds the run and none of its packages yet.
LEMMA InsertRunInv ==
  ASSUME TableInv, NEW r \in Requests, InsertRun(r)
  PROVE  TableInv'
<1> USE DEF TableInv, InsertRun, Goto, tables, locals
<1>1. TypeOK'
  <2>1. pc' \in [Requests -> Stages \cup {"idle", "done", "lost"}]
    BY DEF TypeOK, Stages
  <2>2. StoredRun(run[r]) \in CoverageRun
    BY StoredRunType DEF TypeOK, RunBuilt, Built, Owns
  <2>3. tx' \in [Requests -> [run: CoverageRun \cup {None},
                              packages: SUBSET PackageCoverage]]
    BY <2>2, SMTT(30) DEF TypeOK
  <2> QED
    BY <2>1, <2>3 DEF TypeOK
<1>2. BaselineKnown'
  BY DEF BaselineKnown, Owns, TypeOK
<1>3. ReportsInFlight'
  BY DEF ReportsInFlight, Owns, TypeOK, Stages
<1>4. ProjectsWellFormed'
  BY DEF ProjectsWellFormed, Owns, TypeOK
<1>5. LocalsAgree'
  BY DEF LocalsAgree, Owns, TypeOK, Resolved
<1>6. RunBuilt'
  BY DEF RunBuilt, Owns, TypeOK, Built, Stages
<1>7. TxHolds'
  BY DEF TxHolds, Owns, TypeOK, NoRows
<1>8. CommittedLate'
  BY DEF CommittedLate, Owns, TypeOK
<1>9. OneProjectPerKey'
  BY DEF OneProjectPerKey, Owns
<1>10. RunsAreWhole'
  BY DEF RunsAreWhole, Owns
<1> QED
  BY <1>1, <1>2, <1>3, <1>4, <1>5, <1>6, <1>7, <1>8, <1>9, <1>10

\* INSERT package: one more row of the report is in the transaction.
LEMMA InsertPackageInv ==
  ASSUME TableInv, NEW r \in Requests, InsertPackage(r)
  PROVE  TableInv'
<1> USE DEF TableInv, InsertPackage, Goto, tables, locals
<1>1. TypeOK'
  <2>1. pc' \in [Requests -> Stages \cup {"idle", "done", "lost"}]
    BY DEF TypeOK, Stages
  <2>2. StoredPackages(input[r].packages) \in SUBSET PackageCoverage
    BY ValidPackages DEF TypeOK, ReportsInFlight, Stages, Owns
  <2>3. tx' \in [Requests -> [run: CoverageRun \cup {None},
                              packages: SUBSET PackageCoverage]]
    BY <2>2 DEF TypeOK, Pending
  <2> QED
    BY <2>1, <2>3 DEF TypeOK
<1>2. BaselineKnown'
  BY DEF BaselineKnown, Owns, TypeOK
<1>3. ReportsInFlight'
  BY DEF ReportsInFlight, Owns, TypeOK, Stages
<1>4. ProjectsWellFormed'
  BY DEF ProjectsWellFormed, Owns, TypeOK
<1>5. LocalsAgree'
  BY DEF LocalsAgree, Owns, TypeOK, Resolved
<1>6. RunBuilt'
  BY DEF RunBuilt, Owns, TypeOK, Built, Stages
<1>7. TxHolds'
  <2>1. PICK p \in Pending(r) :
          /\ tx' = [tx EXCEPT ![r].packages = @ \cup {p}]
          /\ pc' = [pc EXCEPT ![r] = IF Pending(r) = {p} THEN "commit"
                                     ELSE "insert_packages"]
    OBVIOUS
  <2>2. /\ tx'[r].run = tx[r].run
        /\ tx'[r].packages = tx[r].packages \cup {p}
        /\ \A s \in Requests \ {r} : tx'[s] = tx[s] /\ pc'[s] = pc[s]
    BY <2>1 DEF TypeOK
  <2>3. /\ tx[r].run = StoredRun(run[r])
        /\ tx[r].packages \subseteq StoredPackages(input[r].packages)
    BY DEF TxHolds
  <2>4. pc'[r] = "insert_packages"
        \/ (pc'[r] = "commit" /\ Pending(r) = {p})
    BY <2>1 DEF TypeOK
  <2>5. /\ p \in StoredPackages(input[r].packages)
        /\ pc'[r] = "commit" => tx'[r].packages = StoredPackages(input[r].packages)
    BY <2>2, <2>3, <2>4 DEF Pending
  <2>6. TxHolds /\ pc[r] = "insert_packages" /\ UNCHANGED <<input, run>>
    OBVIOUS
  <2> HIDE DEF TableInv, InsertPackage
  <2>7. ASSUME NEW s \in Requests, s # r
        PROVE  tx'[s] = tx[s] /\ pc'[s] = pc[s]
    BY <2>2, <2>7
  <2> QED
    BY <2>2, <2>3, <2>4, <2>5, <2>6, <2>7 DEF TxHolds
<1>8. CommittedLate'
  BY DEF CommittedLate, Owns, TypeOK
<1>9. OneProjectPerKey'
  BY DEF OneProjectPerKey, Owns
<1>10. RunsAreWhole'
  BY DEF RunsAreWhole, Owns
<1> QED
  BY <1>1, <1>2, <1>3, <1>4, <1>5, <1>6, <1>7, <1>8, <1>9, <1>10

\* COMMIT: only a transaction without pending packages gets here.
LEMMA CommitInv ==
  ASSUME TableInv, NEW r \in Requests, Commit(r)
  PROVE  TableInv'
<1> USE DEF TableInv, Commit, Goto, tables, locals
<1>a. /\ runs' \in [Requests -> CoverageRun \cup {None}]
      /\ packages' \in [Requests -> SUBSET PackageCoverage]
      /\ \A c \in Requests \ {r} : runs'[c] = runs[c]
      /\ Owns(runs, r)'
      /\ RunsAreWhole'
  BY RunCommitted
<1>1. TypeOK'
  <2>1. pc' \in [Requests -> Stages \cup {"idle", "done", "lost"}]
    BY DEF TypeOK, Stages
  <2>2. tx' \in [Requests -> [run: CoverageRun \cup {None},
                              packages: SUBSET PackageCoverage]]
    BY DEF TypeOK, NoRows
  <2> QED
    BY <1>a, <2>1, <2>2 DEF TypeOK
<1>2. BaselineKnown'
  BY <1>a DEF BaselineKnown, Owns, TypeOK
<1>3. ReportsInFlight'
  BY DEF ReportsInFlight, Owns, TypeOK, Stages
<1>4. ProjectsWellFormed'
  BY DEF ProjectsWellFormed, Owns, TypeOK
<1>5. LocalsAgree'
  BY DEF LocalsAgree, Owns, TypeOK, Resolved
<1>6. RunBuilt'
  BY DEF RunBuilt, Owns, TypeOK, Built, Stages
<1>7. TxHolds'
  BY DEF TxHolds, Owns, TypeOK, NoRows
<1>8. CommittedLate'
  BY <1>a DEF CommittedLate, Owns, TypeOK
<1>9. OneProjectPerKey'
  BY DEF OneProjectPerKey, Owns
<1>10. RunsAreWhole'
  BY <1>a
<1> QED
  BY <1>1, <1>2, <1>3, <1>4, <1>5, <1>6, <1>7, <1>8, <1>9, <1>10

\* The answer a request is about to give is made of typed locals and rows.
LEMMA IngestOutputType ==
  ASSUME TableInv, NEW r \in Requests, pc[r] = "respond"
  PROVE  IngestOutput(r) \in OkAnswer
<1> USE DEF TableInv
<1> DEFINE previous == IF baseline[r] = None THEN None
                       ELSE runs[baseline[r]].totalCoveragePercent
<1>1. /\ project[r].id \in Requests
      /\ project[r].globalThresholdPercent \in Int
      /\ run[r].totalCoveragePercent \in Int
  BY DEF TypeOK, LocalsAgree, Resolved, RunBuilt, Built, Owns, Project,
         CoverageRun
<1>2. previous \in Int \cup {None}
  BY DEF BaselineKnown, Owns, TypeOK, CoverageRun
<1>3. input[r].packages \in SUBSET PackageCoverage
  BY ValidPackages DEF TypeOK, ReportsInFlight, Stages, Owns
<1>4. buildPackageComparisons(input[r].packages, basePackages[r])
        \in SUBSET PackageComparison(Paths)
  BY <1>3, PackageComparisonsType DEF TypeOK
<1>5. buildComparison(run[r].totalCoveragePercent, previous,
                      project[r].globalThresholdPercent) \in Comparison
  BY <1>1, <1>2, ComparisonType
<1>6. created[r] \in BOOLEAN
  BY DEF TypeOK
<1> QED
  BY <1>1, <1>4, <1>5, <1>6 DEF IngestOutput, OkAnswer

\* The answer is made of locals that the tables bear out.
LEMMA RespondInv ==
  ASSUME TableInv, NEW r \in Requests, Respond(r)
  PROVE  TableInv'
<1> USE DEF TableInv, Respond, Answer, tables, locals
<1>1. TypeOK'
  <2>1. pc' \in [Requests -> Stages \cup {"idle", "done", "lost"}]
    BY DEF TypeOK, Stages
  <2>2. IngestOutput(r) \in OkAnswer
    BY IngestOutputType
  <2> QED
    BY <2>1, <2>2 DEF TypeOK
<1>2. BaselineKnown'
  BY DEF BaselineKnown, Owns, TypeOK
<1>3. ReportsInFlight'
  BY DEF ReportsInFlight, Owns, TypeOK, Stages
<1>4. ProjectsWellFormed'
  BY DEF ProjectsWellFormed, Owns, TypeOK
<1>5. LocalsAgree'
  BY DEF LocalsAgree, Owns, TypeOK, Resolved
<1>6. RunBuilt'
  BY DEF RunBuilt, Owns, TypeOK, Built, Stages
<1>7. TxHolds'
  BY DEF TxHolds, Owns, TypeOK, NoRows
<1>8. CommittedLate'
  BY DEF CommittedLate, Owns, TypeOK
<1>9. OneProjectPerKey'
  BY DEF OneProjectPerKey, Owns
<1>10. RunsAreWhole'
  BY DEF RunsAreWhole, Owns
<1> QED
  BY <1>1, <1>2, <1>3, <1>4, <1>5, <1>6, <1>7, <1>8, <1>9, <1>10

\* An INTERNAL answer preserves the invariant, when what its statement did to
\* the tables keeps projects and runs and leaves the tables whole.
LEMMA InternalErrorInv ==
  ASSUME TableInv, NEW r \in Requests, pc[r] \in Stages, InternalError(r),
         UNCHANGED <<clock, locals, seen>>,
         projects' \in [Requests -> Project \cup {None}],
         runs' \in [Requests -> CoverageRun \cup {None}],
         packages' \in [Requests -> SUBSET PackageCoverage],
         \A p \in Requests : Owns(projects, p) =>
             Owns(projects, p)' /\ projects'[p].projectKey = projects[p].projectKey,
         \A c \in Requests : Owns(runs, c) => Owns(runs, c)',
         ProjectsWellFormed', CommittedLate', OneProjectPerKey', RunsAreWhole'
  PROVE  TableInv'
<1> USE DEF TableInv, InternalError, Answer, locals
<1>1. TypeOK'
  <2>1. pc' \in [Requests -> Stages \cup {"idle", "done", "lost"}]
    BY DEF TypeOK
  <2>2. resp' \in [Requests -> ErrorAnswer \cup OkAnswer \cup {None}]
    <3>1. [code |-> "INTERNAL", stage |-> pc[r]] \in ErrorAnswer
      BY DEF ErrorAnswer
    <3> QED
      BY <3>1 DEF TypeOK
  <2>3. tx' \in [Requests -> [run: CoverageRun \cup {None},
                              packages: SUBSET PackageCoverage]]
    BY DEF TypeOK, NoRows
  <2> QED
    BY <2>1, <2>2, <2>3 DEF TypeOK
<1>2. BaselineKnown'
  BY DEF BaselineKnown, Owns, TypeOK
<1>3. ReportsInFlight'
  BY DEF ReportsInFlight, Owns, TypeOK, Stages
<1>4. LocalsAgree'
  <2>1. ASSUME NEW s \in Requests, pc'[s] \in Resolved
        PROVE  pc[s] \in Resolved /\ project[s].id \in Requests
    <3>1. pc[s] \in Resolved
      BY <2>1 DEF TypeOK, Resolved
    <3> QED
      BY <3>1 DEF LocalsAgree, Owns, TypeOK, Project
  <2> QED
    BY <2>1 DEF LocalsAgree, Owns
<1>5. RunBuilt'
  BY DEF RunBuilt, Owns, TypeOK, Built, Stages
<1>6. TxHolds'
  BY DEF TxHolds, TypeOK, NoRows
<1> QED
  BY <1>1, <1>2, <1>3, <1>4, <1>5, <1>6

\* ... in particular when the statement did nothing to the tables.
LEMMA NoEffectInv ==
  ASSUME TableInv, NEW r \in Requests, pc[r] \in Stages, InternalError(r),
         UNCHANGED <<tables, clock, locals, seen>>
  PROVE  TableInv'
<1>1. /\ projects' = projects /\ runs' = runs /\ packages' = packages
      /\ input' = input
  BY DEF tables, locals
<1>2. \A p \in Requests : pc'[p] = pc[p] \/ (p = r /\ pc'[p] = "done")
  BY DEF TableInv, TypeOK, InternalError, Answer
<1>3. ProjectsWellFormed'
  BY <1>1, <1>2 DEF TableInv, ProjectsWellFormed, Owns
<1>4. CommittedLate'
  BY <1>1, <1>2 DEF TableInv, CommittedLate, Owns
<1>5. OneProjectPerKey' /\ RunsAreWhole'
  BY <1>1 DEF TableInv, OneProjectPerKey, RunsAreWhole, Owns
<1>6. /\ projects' \in [Requests -> Project \cup {None}]
      /\ runs' \in [Requests -> CoverageRun \cup {None}]
      /\ packages' \in [Requests -> SUBSET PackageCoverage]
  BY <1>1 DEF TableInv, TypeOK
<1>7. UNCHANGED <<clock, locals, seen>>
  OBVIOUS
<1> QED
  BY <1>1, <1>3, <1>4, <1>5, <1>6, <1>7, InternalErrorInv DEF Owns

\* An effect whose reply was lost is an effect, and its request is answered.
LEMMA ReplyLostInv ==
  ASSUME TableInv, NEW r \in Requests, ReplyLost(r)
  PROVE  TableInv'
<1> USE DEF TableInv
<1>1. InternalError(r) /\ UNCHANGED <<clock, locals, seen>> /\ input' = input
  BY DEF ReplyLost, locals
<1>2. /\ pc' = [pc EXCEPT ![r] = "done"]
      /\ \A p \in Requests \ {r} : pc'[p] = pc[p]
      /\ pc'[r] = "done"
  BY <1>1 DEF InternalError, Answer, TypeOK
<1>3. CASE /\ pc[r] = "create_project" /\ UniqueKeyHolds(r)
           /\ projects' = [projects EXCEPT ![r] = StoredProject(NewProject(r))]
           /\ UNCHANGED <<runs, packages>>
  <2>1. /\ projects' \in [Requests -> Project \cup {None}]
        /\ \A p \in Requests : Owns(projects, p) =>
              Owns(projects, p)' /\ projects'[p] = projects[p]
        /\ \A p \in Requests \ {r} : projects'[p] = projects[p]
        /\ Owns(projects, r)' /\ projects'[r].id = r
        /\ projects'[r].projectKey = input[r].projectKey
        /\ OneProjectPerKey'
    BY <1>3, ProjectInserted
  <2>2. ProjectsWellFormed'
    BY <1>1, <1>2, <2>1 DEF ProjectsWellFormed, Owns
  <2>3. CommittedLate'
    BY <1>2, <1>3 DEF CommittedLate, Owns
  <2>4. RunsAreWhole'
    BY <1>1, <1>3, <2>1 DEF RunsAreWhole, Owns, TypeOK, CoverageRun
  <2>5. pc[r] \in Stages
    BY <1>3 DEF Stages
  <2>6. /\ runs' \in [Requests -> CoverageRun \cup {None}]
        /\ packages' \in [Requests -> SUBSET PackageCoverage]
        /\ \A c \in Requests : Owns(runs, c) => Owns(runs, c)'
    BY <1>3 DEF TypeOK, Owns
  <2> QED
    BY <1>1, <2>1, <2>2, <2>3, <2>4, <2>5, <2>6, InternalErrorInv
<1>4. CASE /\ pc[r] = "update_threshold"
           /\ projects' = UpdatedProjects(r)
           /\ UNCHANGED <<runs, packages>>
  <2>1. /\ projects' \in [Requests -> Project \cup {None}]
        /\ \A p \in Requests :
              /\ Owns(projects, p) <=> Owns(projects, p)'
              /\ projects'[p].id = projects[p].id
              /\ projects'[p].projectKey = projects[p].projectKey
        /\ OneProjectPerKey'
    BY <1>4, ThresholdUpdated
  <2>2. ProjectsWellFormed'
    BY <1>1, <1>2, <2>1 DEF ProjectsWellFormed, Owns
  <2>3. CommittedLate'
    BY <1>2, <1>4 DEF CommittedLate, Owns
  <2>4. RunsAreWhole'
    BY <1>1, <1>4, <2>1 DEF RunsAreWhole, Owns, TypeOK, CoverageRun
  <2>5. pc[r] \in Stages
    BY <1>4 DEF Stages
  <2>6. /\ runs' \in [Requests -> CoverageRun \cup {None}]
        /\ packages' \in [Requests -> SUBSET PackageCoverage]
        /\ \A c \in Requests : Owns(runs, c) => Owns(runs, c)'
    BY <1>4 DEF TypeOK, Owns
  <2> QED
    BY <1>1, <2>1, <2>2, <2>3, <2>4, <2>5, <2>6, InternalErrorInv
<1>5. CASE pc[r] = "commit" /\ ApplyTx(r) /\ UNCHANGED projects
  <2>1. /\ runs' \in [Requests -> CoverageRun \cup {None}]
        /\ packages' \in [Requests -> SUBSET PackageCoverage]
        /\ \A c \in Requests \ {r} : runs'[c] = runs[c]
        /\ Owns(runs, r)'
        /\ RunsAreWhole'
    BY <1>1, <1>5, RunCommitted
  <2>2. ProjectsWellFormed'
    BY <1>1, <1>2, <1>5 DEF ProjectsWellFormed, Owns
  <2>3. CommittedLate'
    BY <1>2, <2>1 DEF CommittedLate, Owns
  <2>4. OneProjectPerKey'
    BY <1>5 DEF OneProjectPerKey, Owns
  <2>5. pc[r] \in Stages
    BY <1>5 DEF Stages
  <2>6. /\ projects' \in [Requests -> Project \cup {None}]
        /\ \A c \in Requests : Owns(runs, c) => Owns(runs, c)'
        /\ \A p \in Requests : Owns(projects, p) =>
              Owns(projects, p)' /\ projects'[p].projectKey = projects[p].projectKey
    BY <1>5, <2>1 DEF TypeOK, Owns
  <2> QED
    BY <1>1, <2>1, <2>2, <2>3, <2>4, <2>5, <2>6, InternalErrorInv
<1> QED
  BY <1>3, <1>4, <1>5 DEF ReplyLost

\* A crash keeps the tables and empties every request.
LEMMA CrashInv == ASSUME TableInv, Crash PROVE TableInv'
<1> USE DEF TableInv, Crash, tables, locals
<1>1. \A r \in Requests :
          (pc'[r] = pc[r] /\ pc[r] \notin Stages) \/ pc'[r] = "lost"
  BY DEF InFlight
<1>2. TypeOK'
  <2>1. pc' \in [Requests -> Stages \cup {"idle", "done", "lost"}]
    BY DEF TypeOK
  <2>2. tx' \in [Requests -> [run: CoverageRun \cup {None},
                              packages: SUBSET PackageCoverage]]
    BY DEF TypeOK, NoRows
  <2> QED
    BY <2>1, <2>2 DEF TypeOK
<1>3. BaselineKnown' /\ OneProjectPerKey' /\ RunsAreWhole'
  BY DEF BaselineKnown, OneProjectPerKey, RunsAreWhole, Owns
<1>4. ReportsInFlight'
  BY <1>1 DEF ReportsInFlight, Owns, Stages, InFlight
<1>5. ProjectsWellFormed' /\ CommittedLate'
  BY <1>1 DEF ProjectsWellFormed, CommittedLate, Owns, Stages
<1>6. LocalsAgree'
  BY <1>1 DEF LocalsAgree, Resolved, Stages
<1>7. RunBuilt' /\ TxHolds'
  BY <1>1 DEF RunBuilt, TxHolds, Built, Stages, Owns
<1> QED
  BY <1>2, <1>3, <1>4, <1>5, <1>6, <1>7

\* No step, and no stuttering step, leaves the invariant.
LEMMA NextInv == TableInv /\ [Next]_vars => TableInv'
<1> SUFFICES ASSUME TableInv, [Next]_vars PROVE TableInv'
  OBVIOUS
<1>1. ASSUME NEW r \in Requests, NEW in \in Inputs, Receive(r, in)
      PROVE  TableInv'
  BY <1>1, ReceiveInv
<1>2. ASSUME NEW r \in Requests, Step(r) PROVE TableInv'
  <2>1. ASSUME CreateProjectConflict(r) PROVE TableInv'
    BY <2>1, NoEffectInv DEF CreateProjectConflict, Stages
  <2> QED
    BY <1>2, <2>1, GetProjectInv, CreateProjectInv, UpdateThresholdInv,
       GetBaselineInv, ListBaselinePackagesInv, BuildRunInv, InsertRunInv,
       InsertPackageInv, CommitInv, RespondInv DEF Step
<1>3. ASSUME NEW r \in Requests, StatementFails(r) PROVE TableInv'
  BY <1>3, NoEffectInv DEF StatementFails
<1>4. ASSUME NEW r \in Requests, ReplyLost(r) PROVE TableInv'
  BY <1>4, ReplyLostInv
<1>5. CASE UNCHANGED vars
  BY <1>5 DEF vars, tables, locals, TableInv, TypeOK, BaselineKnown,
     ReportsInFlight, ProjectsWellFormed, LocalsAgree, RunBuilt, TxHolds,
     CommittedLate, OneProjectPerKey, RunsAreWhole, Owns, StoredRun
<1> QED
  BY <1>1, <1>2, <1>3, <1>4, <1>5, CrashInv DEF Next, Terminating

\* The invariant holds in every reachable state.
LEMMA InvariantHolds == Spec => []TableInv
  BY InitInv, NextInv, PTL DEF Spec

-----------------------------------------------------------------------------
(* The theorems. *)

\* Every variable always has values of its type.
THEOREM TypeCorrect == Spec => []TypeOK
<1>1. TableInv => TypeOK
  BY DEF TableInv
<1> QED
  BY <1>1, InvariantHolds, PTL

\* However many submissions of a new key race between the lookup of the key
\* and the INSERT, at most one project with that key ever exists.
THEOREM ProjectsUnique == Spec => []OneProjectPerKey
<1>1. TableInv => OneProjectPerKey
  BY DEF TableInv
<1> QED
  BY <1>1, InvariantHolds, PTL

\* Whatever fails and whenever the server crashes, every committed run has all
\* the packages of its report and a project with the report's key, and no
\* package row is without its run.
THEOREM RunsWhole == Spec => []RunsAreWhole
<1>1. TableInv => RunsAreWhole
  BY DEF TableInv
<1> QED
  BY <1>1, InvariantHolds, PTL

=============================================================================
