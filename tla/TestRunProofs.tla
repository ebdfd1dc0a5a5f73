---------------------------- MODULE TestRunProofs ----------------------------
(***************************************************************************)
(* Proofs about TestRuns, for any requests and readers, any keys, branches,*)
(* times and spec paths, any report, any filter and limit, with faults or  *)
(* without: what a submission stores and answers, what reads answer, and   *)
(* that lists, heatmaps and lookups miss no run that was committed when    *)
(* they were asked for.                                                    *)
(***************************************************************************)
EXTENDS TestRuns, FiniteSetTheorems, TLAPS

-----------------------------------------------------------------------------
(* What is made of a report. *)

\* Every spec of a report has one result.
LEMMA ResultsType ==
  ASSUME NEW reported \in Seq(SpecReport)
  PROVE  /\ Results(reported) \in Seq(SpecResult)
         /\ Len(Results(reported)) = Len(reported)
         /\ DOMAIN Results(reported) = DOMAIN reported
<1>1. ASSUME NEW i \in DOMAIN reported
      PROVE  /\ reported[i] \in SpecReport
             /\ normalizeState(reported[i].state) \in States
  <2>1. reported[i] \in SpecReport
    OBVIOUS
  <2> QED
    BY <2>1 DEF SpecReport, ReportedStates, States, normalizeState
<1>2. Results(reported) \in [1 .. Len(reported) -> SpecResult]
  BY <1>1 DEF Results, SpecResult, SpecReport
<1> QED
  BY <1>2

\* The results in a state are finitely many.
LEMMA CountType ==
  ASSUME NEW results \in Seq(SpecResult), NEW state
  PROVE  CountOf(results, state) \in Nat
<1> DEFINE inState == {i \in DOMAIN results : results[i].state = state}
<1>1. IsFiniteSet(1 .. Len(results))
  BY FS_Interval
<1>2. inState \in SUBSET (1 .. Len(results))
  OBVIOUS
<1>3. IsFiniteSet(inState)
  BY <1>1, <1>2, FS_Subset
<1>4. Cardinality(inState) \in Nat
  BY <1>3, FS_CardinalityType
<1> QED
  BY <1>4 DEF CountOf

\* The run made of a valid report of a project is a row of the table.
LEMMA NewRunType ==
  ASSUME NEW r \in Requests, NEW now \in Nat, input[r] \in TestRunInput,
         ValidReport(input[r]), project[r] \in Project
  PROVE  NewRun(r, now) \in TestRun /\ NewRun(r, now).createdAt = now
<1> DEFINE in == input[r]
           results == Results(in.specs)
<1>1. /\ in.kind \in Kinds
      /\ in.branch \in Branches
      /\ in.runTimestamp \in Times
      /\ in.environment \in {None, "test", "stage", "prod", "qa"}
      /\ in.specs \in Seq(SpecReport)
  BY DEF TestRunInput, ValidReport
<1>2. results \in Seq(SpecResult) /\ Len(results) \in Nat
  BY <1>1, ResultsType
<1>3. \A state : CountOf(results, state) \in Nat
  BY <1>2, CountType
<1>4. \A n, i, t : EvaluateRunStatus(n, i, t) \in {"passed", "failed"}
  BY DEF EvaluateRunStatus
<1>5. project[r].id \in Requests
  BY DEF Project
<1>6. \A state : Some(in.specs, state) \in BOOLEAN
  BY DEF Some
<1> HIDE DEF in, results
<1> QED
  BY <1>1, <1>2, <1>3, <1>4, <1>5, <1>6 DEF NewRun, TestRun, in, results

\* A project made for a valid report is a row of the table.
LEMMA NewProjectType ==
  ASSUME NEW r \in Requests, input[r] \in TestRunInput, ValidReport(input[r])
  PROVE  NewProject(r) \in Project /\ NewProject(r).projectKey = input[r].projectKey
  BY TestRunInputs DEF NewProject, Project, TestRunInput, ValidReport

-----------------------------------------------------------------------------
(* Counting specs and failing paths. *)

\* A state that is accepted is normalized to "failed" for one of four words.
LEMMA FailedWords ==
  ASSUME NEW kind, NEW state, isAcceptedState(kind, state)
  PROVE  normalizeState(state) = "failed" <=>
            state \in {"failed", "panicked", "interrupted", "timedout"}
  BY Zenon DEF isAcceptedState, normalizeState

\* Sets with nothing in common have the sum of their sizes.
LEMMA DisjointSum ==
  ASSUME NEW S, NEW T, IsFiniteSet(S), IsFiniteSet(T), S \cap T = {}
  PROVE  /\ IsFiniteSet(S \cup T)
         /\ Cardinality(S \cup T) = Cardinality(S) + Cardinality(T)
         /\ Cardinality(S) \in Nat /\ Cardinality(T) \in Nat
<1>1. /\ IsFiniteSet(S \cup T)
      /\ Cardinality(S \cup T) = Cardinality(S) + Cardinality(T) - Cardinality(S \cap T)
  BY FS_Union
<1>2. Cardinality(S \cap T) = 0
  BY FS_EmptySet
<1>3. Cardinality(S) \in Nat /\ Cardinality(T) \in Nat
  BY FS_CardinalityType
<1>4. Cardinality(S) + Cardinality(T) - 0 = Cardinality(S) + Cardinality(T)
  BY <1>3
<1> QED
  BY <1>1, <1>2, <1>3, <1>4

\* As many indices as the sequence is long.
LEMMA IndexCount ==
  ASSUME NEW n \in Nat
  PROVE  IsFiniteSet(1 .. n) /\ Cardinality(1 .. n) = n
<1>1. IsFiniteSet(1 .. n) /\ Cardinality(1 .. n) = IF 1 > n THEN 0 ELSE n - 1 + 1
  BY FS_Interval
<1>2. (IF 1 > n THEN 0 ELSE n - 1 + 1) = n
  OBVIOUS
<1> QED
  BY <1>1, <1>2

\* Every result is in one state, so the states' counts add up.
LEMMA CountsPartition ==
  ASSUME NEW results \in Seq(SpecResult)
  PROVE  Len(results) = CountOf(results, "passed") + CountOf(results, "failed")
            + CountOf(results, "skipped") + CountOf(results, "flaky")
            + CountOf(results, "pending")
<1> DEFINE In(state) == {i \in DOMAIN results : results[i].state = state}
           A == In("passed") \cup In("failed")
           B == A \cup In("skipped")
           C == B \cup In("flaky")
           D == C \cup In("pending")
<1>1. \A state : IsFiniteSet(In(state)) /\ CountOf(results, state) = Cardinality(In(state))
  <2>1. IsFiniteSet(1 .. Len(results)) /\ DOMAIN results = 1 .. Len(results)
    BY IndexCount
  <2>2. \A state : In(state) \in SUBSET (1 .. Len(results))
    BY <2>1
  <2> QED
    BY <2>1, <2>2, FS_Subset DEF CountOf
<1>2. /\ In("passed") \cap In("failed") = {} /\ A \cap In("skipped") = {}
      /\ B \cap In("flaky") = {} /\ C \cap In("pending") = {}
  OBVIOUS
<1>3. D = 1 .. Len(results)
  <2>1. \A i \in DOMAIN results : results[i] \in SpecResult
    OBVIOUS
  <2>2. \A i \in DOMAIN results : results[i].state \in States
    BY <2>1 DEF SpecResult
  <2>3. DOMAIN results = 1 .. Len(results)
    OBVIOUS
  <2> QED
    BY <2>2, <2>3 DEF States
<1>4. IsFiniteSet(A) /\ Cardinality(A) = Cardinality(In("passed")) + Cardinality(In("failed"))
  <2> HIDE DEF In
  <2> QED
    BY <1>1, <1>2, DisjointSum
<1>5. IsFiniteSet(B) /\ Cardinality(B) = Cardinality(A) + Cardinality(In("skipped"))
  <2> HIDE DEF A, In
  <2> QED
    BY <1>1, <1>2, <1>4, DisjointSum
<1>6. IsFiniteSet(C) /\ Cardinality(C) = Cardinality(B) + Cardinality(In("flaky"))
  <2> HIDE DEF B, In
  <2> QED
    BY <1>1, <1>2, <1>5, DisjointSum
<1>7. Cardinality(D) = Cardinality(C) + Cardinality(In("pending"))
  <2> HIDE DEF C, In
  <2> QED
    BY <1>1, <1>2, <1>6, DisjointSum
<1>8. Cardinality(D) = Len(results)
  <2>1. Len(results) \in Nat
    OBVIOUS
  <2> HIDE DEF D
  <2> QED
    BY <1>3, <2>1, IndexCount
<1> HIDE DEF A, B, C, D, In
<1> QED
  BY <1>1, <1>4, <1>5, <1>6, <1>7, <1>8

\* The failing paths of a run are finitely many.
LEMMA FailedPathsFinite ==
  ASSUME NEW results \in Seq(SpecResult)
  PROVE  IsFiniteSet(FailedPaths(results))
<1> DEFINE failing == {j \in DOMAIN results : results[j].state \in {"failed", "flaky"}}
           path == [i \in failing |-> results[i].specPath]
<1>1. IsFiniteSet(failing)
  <2>1. IsFiniteSet(1 .. Len(results)) /\ failing \in SUBSET (1 .. Len(results))
    BY FS_Interval
  <2> QED
    BY <2>1, FS_Subset
<1>2. path \in Surjection(failing, FailedPaths(results))
  BY DEF Surjection, FailedPaths
<1> QED
  BY <1>1, <1>2, FS_Surjection

\* Failures of a baseline, plus the new, less the resolved, are those of a run.
LEMMA Balance ==
  ASSUME NEW previous, NEW current, IsFiniteSet(previous), IsFiniteSet(current)
  PROVE  Cardinality(previous) + compareFailedSpecs(previous, current).newFailures
            - compareFailedSpecs(previous, current).resolvedFailures
         = Cardinality(current)
<1>1. Cardinality(current \ previous) = Cardinality(current) - Cardinality(current \cap previous)
  BY FS_Difference
<1>2. Cardinality(previous \ current) = Cardinality(previous) - Cardinality(previous \cap current)
  BY FS_Difference
<1>3. current \cap previous = previous \cap current /\ IsFiniteSet(current \cap previous)
  BY FS_Intersection
<1>4. /\ Cardinality(current) \in Nat /\ Cardinality(previous) \in Nat
      /\ Cardinality(current \cap previous) \in Nat
  BY <1>3, FS_CardinalityType
<1>5. \A p, c, both \in Nat : p + (c - both) - (p - both) = c
  OBVIOUS
<1>6. /\ compareFailedSpecs(previous, current).newFailures
            = Cardinality(current) - Cardinality(current \cap previous)
      /\ compareFailedSpecs(previous, current).resolvedFailures
            = Cardinality(previous) - Cardinality(current \cap previous)
  BY <1>1, <1>2, <1>3 DEF compareFailedSpecs
<1> QED
  BY <1>4, <1>5, <1>6

-----------------------------------------------------------------------------
(* Steps of a submission: what stays as it is. *)

\* A step leaves submission s and its run alone.
Same(s) ==
    /\ runs'[s] = runs[s] /\ specs'[s] = specs[s]
    /\ pc'[s] = pc[s] /\ input'[s] = input[s] /\ project'[s] = project[s]
    /\ created'[s] = created[s] /\ baseline'[s] = baseline[s]
    /\ run'[s] = run[s] /\ resp'[s] = resp[s]

\* Submission r is the only one a step changes.
Apart(r) == (\A s \in Requests \ {r} : Same(s)) /\ UNCHANGED reads

\* A stored run stays stored, in the same rows.
Kept == \A c \in Requests :
    IsStored(c) => /\ IsStored(c)'
                   /\ runs'[c] = runs[c] /\ specs'[c] = specs[c]

\* A step that leaves its own stored run alone keeps every stored run.
LEMMA StoredStays ==
  ASSUME NEW r \in Requests, Apart(r), IsStored(r) => IsStored(r)',
         IsStored(r) => runs'[r] = runs[r] /\ specs'[r] = specs[r]
  PROVE  Kept
<1>1. ASSUME NEW c \in Requests, IsStored(c), c # r
      PROVE  IsStored(c)' /\ runs'[c] = runs[c] /\ specs'[c] = specs[c]
  BY <1>1 DEF Apart, Same, IsStored, NewRun
<1> QED
  BY <1>1 DEF Kept

\* What a read answers depends on stored runs only.
LEMMA OutputStays ==
  ASSUME NEW c, NEW base, IsStored(c), base # None => IsStored(base), Kept
  PROVE  ReadOutput(c, base)' = ReadOutput(c, base)
<1>1. c \in Requests /\ runs'[c] = runs[c] /\ specs'[c] = specs[c]
  BY DEF Kept, IsStored
<1>2. base # None => runs'[base] = runs[base] /\ specs'[base] = specs[base]
  BY DEF Kept, IsStored
<1> QED
  BY <1>1, <1>2 DEF ReadOutput, ListFailedByRunID

\* What a read has found and answered holds of the stored runs that are kept.
LEMMA ReadersStay ==
  ASSUME RunsInv, Kept, NEW rd \in Readers,
         rpc'[rd] = rpc[rd], rrun'[rd] = rrun[rd], ranswer'[rd] = ranswer[rd]
  PROVE  ReaderInv(rd)'
<1>1. ReaderInv(rd)
  BY DEF RunsInv
<1>2. (rpc[rd] = "get_baseline" => IsStored(rrun[rd]))'
  BY <1>1 DEF ReaderInv, Kept, IsStored
<1>3. ASSUME ReadCode(rd) = "OK", NEW c, c = ranswer[rd].run,
             NEW base, base = ranswer[rd].base
      PROVE  (/\ rpc[rd] = "done"
              /\ IsStored(ranswer[rd].run)
              /\ ranswer[rd].base # None => IsStored(ranswer[rd].base)
              /\ ranswer[rd] = ReadOutput(ranswer[rd].run, ranswer[rd].base))'
  <2>1. /\ rpc[rd] = "done" /\ IsStored(c) /\ (base # None => IsStored(base))
        /\ ranswer[rd] = ReadOutput(c, base)
    BY <1>1, <1>3 DEF ReaderInv
  <2>2. ReadOutput(c, base)' = ReadOutput(c, base)
    BY <2>1, OutputStays
  <2>3. IsStored(c)' /\ (base # None => IsStored(base)')
    BY <2>1 DEF Kept, IsStored
  <2>4. c = ranswer'[rd].run /\ base = ranswer'[rd].base /\ ranswer'[rd] = ranswer[rd]
    BY <1>3
  <2>5. (IsStored(ranswer[rd].run))' /\ (ranswer[rd].base # None => IsStored(ranswer[rd].base))'
    BY <2>3, <2>4 DEF IsStored
  <2>6. (ranswer[rd] = ReadOutput(ranswer[rd].run, ranswer[rd].base))'
    BY <2>1, <2>2, <2>4 DEF ReadOutput
  <2> QED
    BY <2>1, <2>5, <2>6
<1>4. ReadCode(rd)' = ReadCode(rd)
  BY DEF ReadCode
<1> QED
  BY <1>2, <1>3, <1>4 DEF ReaderInv

\* What a submission that a step leaves alone holds stays so.
LEMMA OthersStay ==
  ASSUME RunsInv, Kept, NEW s \in Requests, Same(s)
  PROVE  SubmissionInv(s)'
<1>1. SubmissionInv(s) /\ baseline[s] \in Requests \cup {None}
  BY DEF RunsInv, TypeOK
<1>2. /\ runs'[s] = runs[s] /\ specs'[s] = specs[s] /\ pc'[s] = pc[s]
      /\ input'[s] = input[s] /\ project'[s] = project[s] /\ created'[s] = created[s]
      /\ baseline'[s] = baseline[s] /\ run'[s] = run[s] /\ resp'[s] = resp[s]
  BY DEF Same
<1>3. IsStored(s) => IsStored(s)'
  BY DEF Kept
<1>4. baseline[s] # None => /\ (IsStored(baseline[s]))'
                            /\ runs'[baseline[s]] = runs[baseline[s]]
                            /\ specs'[baseline[s]] = specs[baseline[s]]
  <2> SUFFICES ASSUME NEW c \in Requests, c = baseline[s], c # None
               PROVE  /\ (IsStored(baseline[s]))'
                      /\ runs'[c] = runs[c] /\ specs'[c] = specs[c]
    BY <1>1
  <2>1. IsStored(c)' /\ runs'[c] = runs[c] /\ specs'[c] = specs[c]
    BY <1>1 DEF SubmissionInv, Kept
  <2> QED
    BY <2>1, <1>2 DEF IsStored
<1>5. Code(s)' = Code(s)
  BY <1>2 DEF Code
<1>6. TestRunOutput(s)' = TestRunOutput(s)
  BY <1>2, <1>4 DEF TestRunOutput, ListFailedByRunID
<1>7. NewRun(s, run[s].createdAt)' = NewRun(s, run[s].createdAt)
  BY <1>2 DEF NewRun
<1> QED
  BY <1>1, <1>2, <1>3, <1>4, <1>5, <1>6, <1>7 DEF SubmissionInv

\* A step of one submission has to be looked at for that submission only.
LEMMA OneSubmission ==
  ASSUME RunsInv, Kept, NEW r \in Requests, Apart(r),
         TypeOK', DOMAIN resp' = Requests, OneProjectPerKey', SubmissionInv(r)'
  PROVE  RunsInv'
<1>1. \A s \in Requests : SubmissionInv(s)'
  BY OthersStay DEF Apart
<1>2. UNCHANGED <<rpc, rrun, ranswer>>
  BY DEF Apart, reads
<1>3. \A rd \in Readers : ReaderInv(rd)'
  BY <1>2, ReadersStay
<1>4. (DOMAIN ranswer = Readers)'
  BY <1>2 DEF RunsInv
<1> QED
  BY <1>1, <1>3, <1>4 DEF RunsInv

\* A step that leaves the projects table alone leaves one project per key.
LEMMA SameProjects ==
  ASSUME OneProjectPerKey, UNCHANGED projects
  PROVE  OneProjectPerKey'
  BY DEF OneProjectPerKey

-----------------------------------------------------------------------------
(* Steps of a submission, one by one. *)

LEMMA ReceiveStep ==
  ASSUME RunsInv, NEW r \in Requests, NEW in \in Inputs, Receive(r, in)
  PROVE  RunsInv'
<1> USE DEF Receive, Answer, Goto, tables, locals
<1>1. TypeOK /\ SubmissionInv(r) /\ OneProjectPerKey /\ DOMAIN resp = Requests
  BY DEF RunsInv
<1>2. pc[r] = "idle" /\ ~IsStored(r) /\ in \in TestRunInput
  BY TestRunInputs DEF IsStored
<1>3. Apart(r)
  BY <1>1 DEF Apart, Same, TypeOK
<1>4. Kept
  BY <1>2, <1>3, StoredStays
<1>5. TypeOK'
  BY <1>1, <1>2 DEF TypeOK, Stages, reads
<1>6. SubmissionInv(r)'
  BY <1>1, <1>2, <1>4 DEF SubmissionInv, TypeOK, Stages, Code, Kept
<1> QED
  BY <1>1, <1>3, <1>4, <1>5, <1>6, OneSubmission, SameProjects

LEMMA GetProjectStep ==
  ASSUME RunsInv, NEW r \in Requests, GetProject(r)
  PROVE  RunsInv'
<1> USE DEF GetProject, Goto, tables
<1>1. TypeOK /\ SubmissionInv(r) /\ OneProjectPerKey /\ DOMAIN resp = Requests
  BY DEF RunsInv
<1>2. pc[r] = "get_project" /\ ~IsStored(r)
  BY DEF IsStored
<1>3. Apart(r)
  BY <1>1 DEF Apart, Same, TypeOK
<1>4. Kept
  BY <1>2, <1>3, StoredStays
<1>5. TypeOK' /\ (pc[r] = "get_baseline" => project[r] \in Project)'
  <2>1. \A p \in ProjectsWithKey(input[r].projectKey) : projects[p] \in Project
    BY <1>1 DEF ProjectsWithKey, TypeOK
  <2> QED
    BY <1>1, <2>1 DEF TypeOK, Stages, reads
<1>6. SubmissionInv(r)'
  BY <1>1, <1>2, <1>4, <1>5 DEF SubmissionInv, TypeOK, Stages, Code, Kept
<1> QED
  BY <1>1, <1>3, <1>4, <1>5, <1>6, OneSubmission, SameProjects

\* A refusal or a failure ends a submission that is in flight.
LEMMA InternalErrorStep ==
  ASSUME RunsInv, NEW r \in Requests, pc[r] \in Stages \ {"respond"},
         InternalError(r), UNCHANGED <<tables, clock, locals, reads>>
  PROVE  RunsInv'
<1> USE DEF InternalError, Answer, Goto, tables, locals
<1>1. TypeOK /\ SubmissionInv(r) /\ OneProjectPerKey /\ DOMAIN resp = Requests
  BY DEF RunsInv
<1>2. ~IsStored(r)
  BY DEF IsStored, Stages
<1>3. Apart(r)
  BY <1>1 DEF Apart, Same, TypeOK
<1>4. Kept
  BY <1>2, <1>3, StoredStays
<1>5. TypeOK'
  BY <1>1 DEF TypeOK, reads
<1>6. SubmissionInv(r)'
  BY <1>1, <1>2, <1>4 DEF SubmissionInv, TypeOK, Stages, Code, Kept
<1> QED
  BY <1>1, <1>3, <1>4, <1>5, <1>6, OneSubmission, SameProjects

\* A project that the UNIQUE index lets in is the only one of its key.
LEMMA NewKey ==
  ASSUME RunsInv, NEW r \in Requests, pc[r] = "create_project", UniqueKeyHolds(r),
         projects' = [projects EXCEPT ![r] = NewProject(r)]
  PROVE  /\ NewProject(r) \in Project
         /\ projects' \in [Requests -> Project \cup {None}]
         /\ OneProjectPerKey'
<1>1. TypeOK /\ SubmissionInv(r) /\ OneProjectPerKey
  BY DEF RunsInv
<1>2. NewProject(r) \in Project /\ NewProject(r).projectKey = input[r].projectKey
  BY <1>1, NewProjectType DEF SubmissionInv, Stages
<1>3. projects' \in [Requests -> Project \cup {None}]
  BY <1>1, <1>2 DEF TypeOK
<1>4. \A p \in Requests : projects[p] # None => projects[p].projectKey # input[r].projectKey
  BY DEF UniqueKeyHolds, ProjectsWithKey
<1>5. OneProjectPerKey'
  BY <1>1, <1>2, <1>4 DEF OneProjectPerKey, TypeOK
<1> QED
  BY <1>2, <1>3, <1>5

LEMMA CreateProjectStep ==
  ASSUME RunsInv, NEW r \in Requests, CreateProject(r)
  PROVE  RunsInv'
<1> USE DEF CreateProject, Goto
<1>1. TypeOK /\ SubmissionInv(r) /\ DOMAIN resp = Requests
  BY DEF RunsInv
<1>2. ~IsStored(r)
  BY DEF IsStored
<1>3. Apart(r)
  BY <1>1 DEF Apart, Same, TypeOK
<1>4. Kept
  BY <1>2, <1>3, StoredStays
<1>5. TypeOK' /\ OneProjectPerKey' /\ (project[r] \in Project)'
  <2>1. /\ NewProject(r) \in Project
        /\ projects' \in [Requests -> Project \cup {None}]
        /\ OneProjectPerKey'
    BY NewKey
  <2> HIDE DEF NewProject
  <2> QED
    BY <1>1, <2>1 DEF TypeOK, Stages, reads
<1>6. SubmissionInv(r)'
  BY <1>1, <1>2, <1>4, <1>5 DEF SubmissionInv, TypeOK, Stages, Code, Kept
<1> QED
  BY <1>1, <1>3, <1>4, <1>5, <1>6, OneSubmission

\* The baseline that is found is a stored run.
LEMMA GetBaselineStep ==
  ASSUME RunsInv, NEW r \in Requests, GetBaseline(r)
  PROVE  RunsInv'
<1> USE DEF Goto, tables
<1>1. TypeOK /\ SubmissionInv(r) /\ OneProjectPerKey /\ DOMAIN resp = Requests
  BY DEF RunsInv
<1>2. pc[r] = "get_baseline" /\ ~IsStored(r)
  BY DEF IsStored, GetBaseline
<1>3. Apart(r)
  BY <1>1 DEF Apart, Same, TypeOK, GetBaseline
<1>4. Kept
  BY <1>2, <1>3, StoredStays
<1>5. baseline' = baseline \/ \E c \in Requests :
         /\ baseline' = [baseline EXCEPT ![r] = c]
         /\ IsStored(c)
  <2> SUFFICES ASSUME NEW c \in Latest(RunsOn(input[r].kind, project[r].id,
                                              project[r].defaultBranch))
               PROVE  c \in Requests /\ IsStored(c)
    BY DEF GetBaseline
  <2>1. c \in Requests /\ runs[c] # None
    BY DEF Latest, RunsOn, RunsOf, Committed
  <2> QED
    BY <2>1 DEF RunsInv, SubmissionInv
<1>6. TypeOK'
  <2>1. baseline' \in [Requests -> Requests \cup {None}]
    BY <1>1, <1>5 DEF TypeOK
  <2> QED
    BY <1>1, <2>1 DEF TypeOK, Stages, reads, GetBaseline
<1>7. SubmissionInv(r)'
  <2>1. (baseline[r] # None => IsStored(baseline[r]))'
    <3>1. CASE baseline' = baseline
      <4>1. baseline[r] # None => baseline[r] \in Requests /\ IsStored(baseline[r])
        BY <1>1 DEF SubmissionInv, TypeOK
      <4> QED
        BY <3>1, <4>1, <1>4 DEF Kept, IsStored
    <3>2. CASE \E c \in Requests : /\ baseline' = [baseline EXCEPT ![r] = c]
                                   /\ IsStored(c)
      <4>1. PICK c \in Requests : baseline' = [baseline EXCEPT ![r] = c] /\ IsStored(c)
        BY <3>2
      <4>2. IsStored(c)' /\ baseline'[r] = c
        BY <4>1, <1>1, <1>4 DEF Kept, TypeOK
      <4> QED
        BY <4>2 DEF IsStored
    <3> QED
      BY <3>1, <3>2, <1>5
  <2> QED
    BY <1>1, <1>2, <1>4, <2>1 DEF GetBaseline, SubmissionInv, TypeOK, Stages, Code, Kept
<1> QED
  BY <1>1, <1>3, <1>4, <1>6, <1>7, OneSubmission, SameProjects DEF GetBaseline

LEMMA BuildRunStep ==
  ASSUME RunsInv, NEW r \in Requests, BuildRun(r)
  PROVE  RunsInv'
<1> USE DEF BuildRun, Goto, tables
<1>1. TypeOK /\ SubmissionInv(r) /\ OneProjectPerKey /\ DOMAIN resp = Requests
  BY DEF RunsInv
<1>2. pc[r] = "build_run" /\ ~IsStored(r)
  BY DEF IsStored
<1>3. Apart(r)
  BY <1>1 DEF Apart, Same, TypeOK
<1>4. Kept
  BY <1>2, <1>3, StoredStays
<1>5. clock' \in Nat /\ NewRun(r, clock') \in TestRun /\ NewRun(r, clock').createdAt = clock'
  <2>1. clock' \in Nat
    BY <1>1 DEF TypeOK
  <2> QED
    BY <1>1, <1>2, <2>1, NewRunType DEF SubmissionInv, Stages
<1>6. TypeOK'
  BY <1>1, <1>5 DEF TypeOK, Stages, reads
<1>7. (run[r] = NewRun(r, run[r].createdAt))'
  <2>1. run'[r] = NewRun(r, clock')
    BY <1>1 DEF TypeOK
  <2>2. run'[r].createdAt = clock'
    BY <1>5, <2>1
  <2>3. input' = input /\ project' = project
    OBVIOUS
  <2> QED
    BY <2>1, <2>2, <2>3 DEF NewRun
<1>8. SubmissionInv(r)'
  BY <1>1, <1>2, <1>4, <1>7 DEF SubmissionInv, TypeOK, Stages, Code, Kept
<1> QED
  BY <1>1, <1>3, <1>4, <1>6, <1>8, OneSubmission, SameProjects

\* The transaction that is not refused makes the run a stored one.
LEMMA StoreStep ==
  ASSUME RunsInv, NEW r \in Requests, pc[r] = "persist", SatisfiesChecks(input[r]),
         Store(r), pc'[r] \in {"respond", "done"}, pc' = [pc EXCEPT ![r] = pc'[r]],
         \/ UNCHANGED resp
         \/ resp' = [resp EXCEPT ![r] = [code |-> "INTERNAL", stage |-> "persist"]],
         UNCHANGED <<projects, clock, locals, reads>>
  PROVE  RunsInv'
<1> USE DEF Store, locals
<1>1. TypeOK /\ SubmissionInv(r) /\ OneProjectPerKey /\ DOMAIN resp = Requests
  BY DEF RunsInv
<1>2. ~IsStored(r)
  BY DEF IsStored
<1>3. Apart(r) /\ DOMAIN resp' = Requests
  BY <1>1 DEF Apart, Same, TypeOK
<1>4. Kept
  BY <1>2, <1>3, StoredStays
<1>5. TypeOK'
  <2>1. Results(input[r].specs) \in Seq(SpecResult)
    BY <1>1, ResultsType DEF SubmissionInv, TestRunInput
  <2>2. runs' \in [Requests -> TestRun \cup {None}]
    BY <1>1 DEF TypeOK
  <2>3. specs' \in [Requests -> Seq(SpecResult)]
    BY <1>1, <2>1 DEF TypeOK
  <2>4. pc' \in [Requests -> Stages \cup {"idle", "done", "lost"}]
    BY <1>1 DEF TypeOK, Stages
  <2> QED
    BY <1>1, <2>2, <2>3, <2>4 DEF TypeOK, reads
<1>6. IsStored(r)'
  BY <1>1 DEF IsStored, SubmissionInv, Stages, TypeOK, NewRun
<1>7. SubmissionInv(r)'
  <2>1. (baseline[r] # None => IsStored(baseline[r]))'
    <3>1. baseline[r] # None => baseline[r] \in Requests /\ IsStored(baseline[r])
      BY <1>1 DEF SubmissionInv, TypeOK
    <3> QED
      BY <3>1, <1>4 DEF Kept, IsStored
  <2>2. Code(r)' # "OK"
    BY <1>1, <1>2 DEF Code, SubmissionInv
  <2>3. input'[r] \in TestRunInput /\ ValidReport(input'[r])
    BY <1>1 DEF SubmissionInv, Stages
  <2> QED
    BY <1>6, <2>1, <2>2, <2>3 DEF SubmissionInv
<1> QED
  BY <1>1, <1>3, <1>4, <1>5, <1>7, OneSubmission, SameProjects

LEMMA PersistStep ==
  ASSUME RunsInv, NEW r \in Requests, Persist(r)
  PROVE  RunsInv'
<1>1. TypeOK
  BY DEF RunsInv
<1>2. pc'[r] = "respond" /\ pc' = [pc EXCEPT ![r] = pc'[r]]
  BY <1>1 DEF Persist, Goto, TypeOK
<1> QED
  BY <1>2, StoreStep DEF Persist

LEMMA RespondStep ==
  ASSUME RunsInv, NEW r \in Requests, Respond(r)
  PROVE  RunsInv'
<1> USE DEF Answer, Goto, tables, locals
<1>1. TypeOK /\ SubmissionInv(r) /\ OneProjectPerKey /\ DOMAIN resp = Requests
  BY DEF RunsInv
<1>2. IsStored(r) /\ UNCHANGED <<tables, clock, locals, reads>> /\ pc[r] = "respond"
  BY <1>1 DEF Respond, SubmissionInv
<1>3. Apart(r)
  BY <1>1 DEF Apart, Same, TypeOK, Respond
<1>4. IsStored(r)'
  BY <1>1, <1>2 DEF IsStored, TypeOK, Respond, NewRun
<1>5. Kept
  BY <1>2, <1>3, <1>4, StoredStays
<1>6. TypeOK' /\ DOMAIN resp' = Requests
  BY <1>1, <1>2 DEF TypeOK, reads, Respond
<1>7. SubmissionInv(r)'
  <2>1. (baseline[r] # None => IsStored(baseline[r]))'
    <3>1. baseline[r] # None => baseline[r] \in Requests /\ IsStored(baseline[r])
      BY <1>1 DEF SubmissionInv, TypeOK
    <3> QED
      BY <3>1, <1>2, <1>5 DEF Kept, IsStored
  <2>2. TestRunOutput(r)' = TestRunOutput(r)
    BY <1>2 DEF TestRunOutput, ListFailedByRunID
  <2>3. resp'[r] = TestRunOutput(r)
    BY <1>1 DEF Respond
  <2>4. input'[r] \in TestRunInput /\ ValidReport(input'[r]) /\ pc'[r] = "done"
    BY <1>1, <1>2 DEF SubmissionInv, Stages, TypeOK, Respond
  <2> QED
    BY <1>4, <2>1, <2>2, <2>3, <2>4 DEF SubmissionInv, Stages
<1> QED
  BY <1>1, <1>2, <1>3, <1>5, <1>6, <1>7, OneSubmission, SameProjects

LEMMA StatementFailsStep ==
  ASSUME RunsInv, NEW r \in Requests, StatementFails(r)
  PROVE  RunsInv'
<1>1. TypeOK /\ SubmissionInv(r) /\ DOMAIN resp = Requests
  BY DEF RunsInv
<1>2. /\ pc[r] \in Stages \ {"respond"}
      /\ InternalError(r)
      /\ UNCHANGED <<clock, locals, reads>>
  BY DEF StatementFails
<1>3. CASE UNCHANGED tables
  BY <1>2, <1>3, InternalErrorStep
<1>4. CASE /\ pc[r] = "create_project"
           /\ UniqueKeyHolds(r)
           /\ projects' = [projects EXCEPT ![r] = NewProject(r)]
           /\ UNCHANGED <<runs, specs>>
  <2> USE DEF InternalError, Answer, Goto, locals
  <2>1. ~IsStored(r)
    BY <1>4 DEF IsStored
  <2>2. Apart(r) /\ DOMAIN resp' = Requests
    BY <1>1, <1>2, <1>4 DEF Apart, Same, TypeOK
  <2>3. Kept
    BY <1>4, <2>1, <2>2, StoredStays
  <2>4. projects' \in [Requests -> Project \cup {None}] /\ OneProjectPerKey'
    BY <1>4, NewKey
  <2>5. TypeOK'
    <3> HIDE DEF NewProject
    <3> QED
      BY <1>1, <1>2, <1>4, <2>4 DEF TypeOK, reads
  <2>6. SubmissionInv(r)'
    BY <1>1, <1>2, <1>4, <2>1, <2>3 DEF SubmissionInv, TypeOK, Stages, Code, Kept
  <2> QED
    BY <2>2, <2>3, <2>4, <2>5, <2>6, OneSubmission
<1>5. CASE /\ pc[r] = "persist"
           /\ SatisfiesChecks(input[r])
           /\ Store(r)
           /\ UNCHANGED projects
  <2>1. /\ pc'[r] = "done"
        /\ pc' = [pc EXCEPT ![r] = pc'[r]]
        /\ resp' = [resp EXCEPT ![r] = [code |-> "INTERNAL", stage |-> "persist"]]
    BY <1>1, <1>2, <1>5 DEF InternalError, Answer, Goto, TypeOK
  <2> QED
    BY <1>2, <1>5, <2>1, StoreStep
<1> QED
  BY <1>3, <1>4, <1>5 DEF StatementFails

\* A submission takes a step or a statement of it fails.
LEMMA SubmissionStep ==
  ASSUME RunsInv, NEW r \in Requests,
         \/ \E in \in Inputs : Receive(r, in)
         \/ Step(r)
         \/ StatementFails(r)
  PROVE  RunsInv'
<1>1. CASE CreateProjectConflict(r)
  BY <1>1, InternalErrorStep DEF CreateProjectConflict, Stages
<1>2. CASE PersistRefused(r)
  BY <1>2, InternalErrorStep DEF PersistRefused, Stages
<1> QED
  BY <1>1, <1>2, ReceiveStep, GetProjectStep, CreateProjectStep, GetBaselineStep,
     BuildRunStep, PersistStep, RespondStep, StatementFailsStep DEF Step

-----------------------------------------------------------------------------
(* Steps of a read, and a crash. *)

\* A step of one read has to be looked at for that read only.
LEMMA OneRead ==
  ASSUME RunsInv, NEW rd \in Readers,
         UNCHANGED <<tables, clock, pc, locals, resp>>,
         \A other \in Readers \ {rd} :
            rpc'[other] = rpc[other] /\ rrun'[other] = rrun[other]
                /\ ranswer'[other] = ranswer[other],
         rpc' \in [Readers -> ReadStages \cup {"idle", "done", "lost"}],
         rrun' \in [Readers -> Requests \cup {None}],
         DOMAIN ranswer' = Readers, ReaderInv(rd)'
  PROVE  RunsInv'
<1> USE DEF tables, locals
<1>1. TypeOK' /\ OneProjectPerKey' /\ DOMAIN resp' = Requests
  BY SameProjects DEF RunsInv, TypeOK
<1>2. \A s \in Requests : Same(s)
  BY DEF Same
<1>3. Kept
  BY DEF Kept, IsStored, NewRun
<1>4. \A s \in Requests : SubmissionInv(s)'
  BY <1>2, <1>3, OthersStay
<1>5. \A other \in Readers : ReaderInv(other)'
  BY <1>3, ReadersStay
<1> QED
  BY <1>1, <1>4, <1>5 DEF RunsInv

\* A read that ends with another answer than a comparison.
LEMMA PlainAnswer ==
  ASSUME RunsInv, NEW rd \in Readers, NEW answer, ReadAnswer(rd, answer),
         answer.code # "OK", UNCHANGED <<tables, clock, pc, locals, resp, rrun>>
  PROVE  RunsInv'
<1>1. TypeOK /\ DOMAIN ranswer = Readers
  BY DEF RunsInv
<1>2. rpc'[rd] = "done" /\ ranswer'[rd] = answer
  BY <1>1 DEF ReadAnswer, TypeOK
<1>3. (ReadCode(rd) # "OK")'
  BY <1>2 DEF ReadCode
<1>4. ReaderInv(rd)'
  BY <1>2, <1>3 DEF ReaderInv
<1> QED
  BY <1>1, <1>4, OneRead DEF ReadAnswer, TypeOK

\* A comparison of a stored run with a stored one, or with none.
LEMMA ComparisonAnswer ==
  ASSUME RunsInv, NEW rd \in Readers,
         UNCHANGED <<tables, clock, pc, locals, resp, rrun>>,
         NEW c, NEW base, IsStored(c), base # None => IsStored(base),
         ReadAnswer(rd, ReadOutput(c, base))
  PROVE  RunsInv'
<1>1. TypeOK /\ DOMAIN ranswer = Readers
  BY DEF RunsInv
<1>2. rpc'[rd] = "done" /\ ranswer'[rd] = ReadOutput(c, base)
  BY <1>1 DEF ReadAnswer, TypeOK
<1>3. ranswer'[rd].run = c /\ ranswer'[rd].base = base
  BY <1>2 DEF ReadOutput
<1>4. IsStored(c)' /\ (base # None => IsStored(base)')
  BY DEF IsStored, NewRun, tables, locals
<1>5. (IsStored(ranswer[rd].run) /\ (ranswer[rd].base # None => IsStored(ranswer[rd].base)))'
  BY <1>3, <1>4 DEF IsStored
<1>6. (ranswer[rd] = ReadOutput(ranswer[rd].run, ranswer[rd].base))'
  BY <1>2, <1>3 DEF ReadOutput, ListFailedByRunID, tables
<1>7. ReaderInv(rd)'
  BY <1>2, <1>5, <1>6 DEF ReaderInv
<1> QED
  BY <1>1, <1>7, OneRead DEF ReadAnswer, TypeOK

\* A run that is found committed is stored.
LEMMA CommittedIsStored ==
  ASSUME RunsInv, NEW kind, NEW c \in Committed(kind)
  PROVE  c \in Requests /\ IsStored(c)
<1>1. c \in Requests /\ runs[c] # None
  BY DEF Committed
<1> QED
  BY <1>1 DEF RunsInv, SubmissionInv

\* A read that goes on to another stage, with the run it has found.
LEMMA Onward ==
  ASSUME RunsInv, NEW rd \in Readers, NEW stage \in ReadStages,
         UNCHANGED <<tables, clock, pc, locals, resp, ranswer>>,
         rpc' = [rpc EXCEPT ![rd] = stage],
         rpc[rd] # "done",
         \/ stage # "get_baseline" /\ UNCHANGED rrun
         \/ \E c \in Requests : IsStored(c) /\ rrun' = [rrun EXCEPT ![rd] = c]
  PROVE  RunsInv'
<1>1. TypeOK /\ ReaderInv(rd) /\ DOMAIN ranswer = Readers
  BY DEF RunsInv
<1>2. /\ rpc' \in [Readers -> ReadStages \cup {"idle", "done", "lost"}]
      /\ rrun' \in [Readers -> Requests \cup {None}]
      /\ \A other \in Readers \ {rd} : rpc'[other] = rpc[other] /\ rrun'[other] = rrun[other]
  BY <1>1 DEF TypeOK
<1>3. (rpc[rd] = "get_baseline" => IsStored(rrun[rd]))'
  <2>1. CASE stage # "get_baseline"
    BY <1>1, <2>1 DEF TypeOK
  <2>2. CASE \E c \in Requests : IsStored(c) /\ rrun' = [rrun EXCEPT ![rd] = c]
    <3>1. PICK c \in Requests : IsStored(c) /\ rrun' = [rrun EXCEPT ![rd] = c]
      BY <2>2
    <3>2. rrun'[rd] = c
      BY <1>1, <3>1 DEF TypeOK
    <3> QED
      BY <3>1, <3>2 DEF IsStored, NewRun, tables, locals
  <2> QED
    BY <2>1, <2>2
<1>4. (ReadCode(rd) # "OK")'
  BY <1>1 DEF ReaderInv, ReadCode
<1>5. ReaderInv(rd)'
  BY <1>3, <1>4 DEF ReaderInv
<1> QED
  BY <1>1, <1>2, <1>5, OneRead

\* A first statement that answers or goes on.
LEMMA ReceivedStep ==
  ASSUME RunsInv, NEW rd \in Readers, Ask(rd)
  PROVE  RunsInv'
<1> USE DEF Receives
<1>1. ASSUME NEW kind \in Kinds, NEW id \in Requests, ReceiveRead(rd, kind, id) PROVE RunsInv'
  <2>1. CASE projects[id] = None
    BY <1>1, <2>1, PlainAnswer DEF ReceiveRead
  <2>2. CASE projects[id] # None
    BY <1>1, <2>2, Onward DEF ReceiveRead, ReadStages
  <2> QED
    BY <2>1, <2>2
<1>2. ASSUME NEW kind \in Kinds, NEW id \in Requests, NEW c \in Requests,
             ReadByID(rd, kind, id, c)
      PROVE  RunsInv'
  <2>1. CASE c \in RunsOf(kind, id)
    <3>1. IsStored(c)
      BY <2>1, CommittedIsStored DEF RunsOf
    <3>2. ReadAnswer(rd, ReadOutput(c, None))
      BY <1>2, <2>1 DEF ReadByID
    <3>3. UNCHANGED <<tables, clock, pc, locals, resp, rrun>>
      BY <1>2 DEF ReadByID
    <3> QED
      BY <3>1, <3>2, <3>3, ComparisonAnswer
  <2>2. CASE c \notin RunsOf(kind, id)
    BY <1>2, <2>2, PlainAnswer DEF ReadByID
  <2> QED
    BY <2>1, <2>2
<1>3. ASSUME NEW kind \in Kinds, NEW id \in Requests, NEW q \in Questions,
             CountRuns(rd, kind, id, q)
      PROVE  RunsInv'
  <2>1. CASE ValidFilter(kind, q)
    BY <1>3, <2>1, Onward DEF CountRuns, ReadStages
  <2>2. CASE ~ValidFilter(kind, q)
    BY <1>3, <2>2, PlainAnswer DEF CountRuns
  <2> QED
    BY <2>1, <2>2
<1>4. ASSUME NEW kind \in Kinds, NEW q \in Questions, ReadHeatmap(rd, kind, q) PROVE RunsInv'
  <2>1. UNCHANGED <<tables, clock, pc, locals, resp, rrun>>
    BY <1>4 DEF ReadHeatmap
  <2>2. \E answer : answer.code # "OK" /\ ReadAnswer(rd, answer)
    <3>1. CASE ValidFilter(kind, [q EXCEPT !.environment = None])
      <4>1. PICK row : ReadAnswer(rd, [code |-> "HEATMAP", rows |-> row])
        BY <1>4, <3>1 DEF ReadHeatmap
      <4>2. [code |-> "HEATMAP", rows |-> row].code # "OK"
        OBVIOUS
      <4> QED
        BY <4>1, <4>2
    <3>2. CASE ~ValidFilter(kind, [q EXCEPT !.environment = None])
      <4>1. ReadAnswer(rd, [code |-> "INVALID_ARGUMENT"])
        BY <1>4, <3>2 DEF ReadHeatmap
      <4>2. [code |-> "INVALID_ARGUMENT"].code # "OK"
        OBVIOUS
      <4> QED
        BY <4>1, <4>2
    <3> QED
      BY <3>1, <3>2
  <2> QED
    BY <2>1, <2>2, PlainAnswer
<1> QED
  BY <1>1, <1>2, <1>3, <1>4 DEF Ask

\* A later statement of a read, and one that fails.
LEMMA LaterReadStep ==
  ASSUME RunsInv, NEW rd \in Readers, ReadStep(rd)
  PROVE  RunsInv'
<1>1. CASE ReadRun(rd)
  <2> DEFINE found == RunsOf(query[rd].kind, query[rd].projectId)
  <2>1. UNCHANGED <<tables, clock, pc, locals, resp>> /\ rpc[rd] = "get_run"
    BY <1>1 DEF ReadRun
  <2>2. CASE /\ ReadAnswer(rd, [code |-> "NOT_FOUND"])
             /\ UNCHANGED rrun
    BY <2>1, <2>2, PlainAnswer
  <2>3. CASE \E c \in Latest(found) :
              /\ rrun' = [rrun EXCEPT ![rd] = c]
              /\ rpc' = [rpc EXCEPT ![rd] = "get_baseline"]
              /\ UNCHANGED ranswer
    <3>1. PICK c \in Latest(found) :
              /\ rrun' = [rrun EXCEPT ![rd] = c]
              /\ rpc' = [rpc EXCEPT ![rd] = "get_baseline"]
              /\ UNCHANGED ranswer
      BY <2>3
    <3>2. c \in Committed(query[rd].kind)
      BY DEF Latest, RunsOf
    <3>3. c \in Requests /\ IsStored(c)
      BY <3>2, CommittedIsStored
    <3> QED
      BY <2>1, <3>1, <3>3, Onward DEF ReadStages
  <2> QED
    BY <1>1, <2>2, <2>3 DEF ReadRun
<1>2. CASE ReadBaseline(rd)
  <2> DEFINE found == RunsOn(query[rd].kind, query[rd].projectId,
                             rproject[rd].defaultBranch)
  <2>1. /\ UNCHANGED <<tables, clock, pc, locals, resp, rrun>>
        /\ rpc[rd] = "get_baseline"
    BY <1>2 DEF ReadBaseline
  <2>2. PICK c \in IF found = {} THEN {None} ELSE Latest(found) :
           ReadAnswer(rd, ReadOutput(rrun[rd], IF c = rrun[rd] THEN None ELSE c))
    BY <1>2 DEF ReadBaseline
  <2>3. ASSUME c # None PROVE IsStored(c)
    <3>1. c \in Committed(query[rd].kind)
      BY <2>2, <2>3 DEF Latest, RunsOn, RunsOf
    <3> QED
      BY <3>1, CommittedIsStored
  <2>4. IsStored(rrun[rd])
    BY <2>1 DEF RunsInv, ReaderInv
  <2>5. PICK base : base = IF c = rrun[rd] THEN None ELSE c
    OBVIOUS
  <2>6. base # None => IsStored(base)
    BY <2>3, <2>5
  <2>7. ReadAnswer(rd, ReadOutput(rrun[rd], base))
    BY <2>2, <2>5
  <2> QED
    BY <2>1, <2>4, <2>6, <2>7, ComparisonAnswer
<1>3. CASE ListRuns(rd)
  <2>1. UNCHANGED <<tables, clock, pc, locals, resp, rrun>>
    BY <1>3 DEF ListRuns
  <2>2. PICK items : ReadAnswer(rd, [code |-> "LIST", items |-> items,
                                     total |-> query[rd].total])
    BY <1>3 DEF ListRuns
  <2>3. PICK answer : answer = [code |-> "LIST", items |-> items, total |-> query[rd].total]
    OBVIOUS
  <2>4. answer.code # "OK" /\ ReadAnswer(rd, answer)
    BY <2>2, <2>3
  <2> QED
    BY <2>1, <2>4, PlainAnswer
<1>4. CASE ReadFails(rd)
  BY <1>4, PlainAnswer DEF ReadFails
<1> QED
  BY <1>1, <1>2, <1>3, <1>4 DEF ReadStep

\* A crash loses what is in flight; what is stored stays.
LEMMA CrashStep ==
  ASSUME RunsInv, Crash
  PROVE  RunsInv'
<1> USE DEF Crash, tables, locals
<1>1. TypeOK /\ DOMAIN resp = Requests /\ DOMAIN ranswer = Readers
  BY DEF RunsInv
<1>2. TypeOK' /\ OneProjectPerKey'
  <2>1. pc' \in [Requests -> Stages \cup {"idle", "done", "lost"}]
    BY <1>1 DEF TypeOK
  <2>2. rpc' \in [Readers -> ReadStages \cup {"idle", "done", "lost"}]
    BY <1>1 DEF TypeOK
  <2> QED
    BY <1>1, <2>1, <2>2, SameProjects DEF RunsInv, TypeOK
<1>3. Kept
  <2>1. ASSUME NEW c \in Requests, IsStored(c)
        PROVE  IsStored(c)' /\ runs'[c] = runs[c] /\ specs'[c] = specs[c]
    <3>1. pc'[c] \in {"respond", "done", "lost"}
      BY <2>1 DEF IsStored
    <3> QED
      BY <2>1, <3>1 DEF IsStored, NewRun
  <2> QED
    BY <2>1 DEF Kept
<1>4. ASSUME NEW r \in Requests PROVE SubmissionInv(r)'
  <2>1. CASE r \notin InFlight
    <3>1. Same(r)
      BY <2>1 DEF Same
    <3> QED
      BY <1>3, <3>1, OthersStay
  <2>2. CASE r \in InFlight
    <3>1. SubmissionInv(r) /\ pc'[r] = "lost" /\ pc[r] \in Stages
      BY <2>2 DEF RunsInv, InFlight
    <3>2. (Code(r) = "OK" => IsStored(r) /\ resp[r] = TestRunOutput(r))'
      <4>1. Code(r)' = Code(r) /\ TestRunOutput(r)' = TestRunOutput(r)
        BY DEF Code, TestRunOutput, ListFailedByRunID
      <4> QED
        BY <1>3, <3>1, <4>1 DEF SubmissionInv, Kept
    <3>3. (baseline[r] # None => IsStored(baseline[r]))'
      <4>1. baseline[r] # None => baseline[r] \in Requests /\ IsStored(baseline[r])
        BY <1>1, <3>1 DEF SubmissionInv, TypeOK
      <4> QED
        BY <1>3, <4>1 DEF Kept, IsStored
    <3> QED
      BY <1>3, <3>1, <3>2, <3>3 DEF SubmissionInv, Kept, Stages
  <2> QED
    BY <2>1, <2>2
<1>5. ASSUME NEW rd \in Readers PROVE ReaderInv(rd)'
  <2>1. CASE rpc[rd] \notin ReadStages
    BY <1>3, <2>1, ReadersStay
  <2>2. CASE rpc[rd] \in ReadStages
    <3>1. rpc'[rd] = "lost" /\ (ReadCode(rd) # "OK")'
      BY <2>2 DEF RunsInv, ReaderInv, ReadCode, ReadStages
    <3> QED
      BY <3>1 DEF ReaderInv
  <2> QED
    BY <2>1, <2>2
<1> QED
  BY <1>1, <1>2, <1>4, <1>5 DEF RunsInv

-----------------------------------------------------------------------------
(* The invariant. *)

LEMMA InitRuns == Init => RunsInv
<1> SUFFICES ASSUME Init PROVE RunsInv
  OBVIOUS
<1>1. TypeOK
  BY DEF Init, TypeOK, Stages
<1>2. \A r \in Requests : SubmissionInv(r)
  BY DEF Init, SubmissionInv, Code, Stages
<1>3. \A rd \in Readers : ReaderInv(rd)
  BY DEF Init, ReaderInv, ReadCode
<1> QED
  BY <1>1, <1>2, <1>3 DEF Init, RunsInv, OneProjectPerKey

\* A step that changes nothing.
LEMMA Stutter ==
  ASSUME RunsInv, UNCHANGED vars
  PROVE  RunsInv'
<1> USE DEF vars, tables, locals, reads
<1>1. Kept /\ (\A s \in Requests : Same(s)) /\ UNCHANGED <<rpc, rrun, ranswer>>
  BY DEF Kept, IsStored, NewRun, Same
<1>2. TypeOK' /\ OneProjectPerKey' /\ DOMAIN resp' = Requests /\ DOMAIN ranswer' = Readers
  BY SameProjects DEF RunsInv, TypeOK
<1>3. \A r \in Requests : SubmissionInv(r)'
  BY <1>1, OthersStay
<1>4. \A rd \in Readers : ReaderInv(rd)'
  BY <1>1, ReadersStay
<1> QED
  BY <1>2, <1>3, <1>4 DEF RunsInv

LEMMA RunsStep ==
  ASSUME RunsInv, [Next]_vars
  PROVE  RunsInv'
<1>1. ASSUME NEW r \in Requests,
             (\E in \in Inputs : Receive(r, in)) \/ Step(r) \/ StatementFails(r)
      PROVE  RunsInv'
  BY <1>1, SubmissionStep
<1>2. ASSUME NEW rd \in Readers, Ask(rd) \/ ReadStep(rd) PROVE RunsInv'
  BY <1>2, ReceivedStep, LaterReadStep
<1>3. Crash => RunsInv'
  BY CrashStep
<1>4. UNCHANGED vars => RunsInv'
  BY Stutter
<1> QED
  BY <1>1, <1>2, <1>3, <1>4 DEF Next, Terminating

LEMMA RunsInvariant == Spec => []RunsInv
  BY InitRuns, RunsStep, PTL DEF Spec

-----------------------------------------------------------------------------
(* What it gives. *)

\* Rows and locals keep their types.
THEOREM RunsTyped == Spec => []TypeOK
<1>1. RunsInv => TypeOK
  BY DEF RunsInv
<1> QED
  BY <1>1, RunsInvariant, PTL

\* However submissions of both kinds race, a key has one project.
THEOREM KeysAreUnique == Spec => []OneProjectPerKey
<1>1. RunsInv => OneProjectPerKey
  BY DEF RunsInv
<1> QED
  BY <1>1, RunsInvariant, PTL

\* A report that the tables refuse leaves no run, whatever fails and wherever.
THEOREM NothingOfRefused == Spec => []RefusedLeavesNoRun
<1>1. RunsInv => RefusedLeavesNoRun
  BY DEF RunsInv, SubmissionInv, RefusedLeavesNoRun, IsStored
<1> QED
  BY <1>1, RunsInvariant, PTL

\* A read of a run from the tables says what its submission was told, made from
\* the report.
THEOREM ReadsAgree == Spec => []ReadAgreesWithAnswer
<1>1. ASSUME RunsInv PROVE ReadAgreesWithAnswer
  <2> SUFFICES ASSUME NEW rd \in Readers, NEW r \in Requests,
                      ReadCode(rd) = "OK", ranswer[rd].run = r, Code(r) = "OK"
               PROVE  /\ ranswer[rd].failedSpecs = resp[r].failedSpecs
                      /\ ranswer[rd].comparison.currentPassRatePercent
                            = resp[r].comparison.currentPassRatePercent
                      /\ ranswer[rd].base = baseline[r] =>
                            ranswer[rd].comparison = resp[r].comparison
    BY DEF ReadAgreesWithAnswer
  <2>1. IsStored(r) /\ resp[r] = TestRunOutput(r)
    BY <1>1 DEF RunsInv, SubmissionInv
  <2>2. ranswer[rd] = ReadOutput(r, ranswer[rd].base)
    BY <1>1 DEF RunsInv, ReaderInv
  <2>3. ListFailedByRunID(r) = FailedPaths(Results(input[r].specs)) /\ runs[r] = run[r]
    BY <2>1 DEF IsStored, ListFailedByRunID
  <2>4. resp[r].failedSpecs = ListFailedByRunID(r)
    BY <2>1, <2>3 DEF TestRunOutput
  <2>5. ranswer[rd].failedSpecs = ListFailedByRunID(r)
    BY <2>2 DEF ReadOutput
  <2>6. ranswer[rd].comparison.currentPassRatePercent = PassRate(runs[r])
    BY <2>2 DEF ReadOutput, ComparisonWith
  <2>7. resp[r].comparison.currentPassRatePercent = PassRate(runs[r])
    BY <2>1, <2>3 DEF TestRunOutput, ComparisonWith
  <2>8. ASSUME ranswer[rd].base = baseline[r]
        PROVE  ranswer[rd].comparison = resp[r].comparison
    BY <2>1, <2>2, <2>3, <2>8 DEF ReadOutput, TestRunOutput
  <2> QED
    BY <2>4, <2>5, <2>6, <2>7, <2>8
<1> QED
  BY <1>1, RunsInvariant, PTL

\* What an answer says of new and resolved failures balances with the tables.
THEOREM FailuresAddUp == Spec => []FailuresBalance
<1>1. ASSUME RunsInv PROVE FailuresBalance
  <2> SUFFICES ASSUME NEW r \in Requests, Code(r) = "OK", baseline[r] # None
               PROVE  Cardinality(PathsIn(baseline[r], {"failed", "flaky"}))
                         + resp[r].comparison.newFailures
                         - resp[r].comparison.resolvedFailures
                      = Cardinality(PathsIn(r, {"failed", "flaky"}))
    BY DEF FailuresBalance
  <2>1. IsStored(r) /\ IsStored(baseline[r]) /\ resp[r] = TestRunOutput(r)
    BY <1>1 DEF RunsInv, SubmissionInv
  <2>2. specs[r] \in Seq(SpecResult) /\ specs[baseline[r]] \in Seq(SpecResult)
    BY <1>1, <2>1 DEF RunsInv, TypeOK, IsStored
  <2>3. \A c : PathsIn(c, {"failed", "flaky"}) = ListFailedByRunID(c)
    BY DEF PathsIn, Rows, ListFailedByRunID, FailedPaths
  <2>4. IsFiniteSet(ListFailedByRunID(r)) /\ IsFiniteSet(ListFailedByRunID(baseline[r]))
    BY <2>2, FailedPathsFinite DEF ListFailedByRunID
  <2>5. LET compared == compareFailedSpecs(ListFailedByRunID(baseline[r]), ListFailedByRunID(r))
        IN  /\ resp[r].comparison.newFailures = compared.newFailures
            /\ resp[r].comparison.resolvedFailures = compared.resolvedFailures
    BY <2>1 DEF TestRunOutput, ComparisonWith, IsStored, ListFailedByRunID
  <2> QED
    BY <2>3, <2>4, <2>5, Balance
<1> QED
  BY <1>1, RunsInvariant, PTL

\* What a run's row says of its specs is true of the stored specs.
THEOREM SummariesTell == Spec => []SummaryTellsSpecs
<1>1. ASSUME RunsInv PROVE SummaryTellsSpecs
  <2> SUFFICES ASSUME NEW c \in Requests, runs[c] # None
               PROVE  LET row == runs[c]
                          sum == row.passedSpecs + row.failedSpecs + row.skippedSpecs
                                     + row.flakedSpecs + row.pendingSpecs
                      IN  /\ row.totalSpecs = Len(specs[c])
                          /\ row.failedSpecs = Cardinality(Rows(c, {"failed"}))
                          /\ row.flakedSpecs = Cardinality(Rows(c, {"flaky"}))
                          /\ row.totalSpecs - sum =
                                 IF row.kind = "integration" THEN 0
                                 ELSE Cardinality(Rows(c, {"pending"}))
                          /\ row.status = "passed" <=>
                                \A i \in DOMAIN input[c].specs :
                                   input[c].specs[i].state \notin
                                      {"failed", "panicked", "interrupted", "timedout"}
    BY DEF SummaryTellsSpecs
  <2> DEFINE in == input[c]
             results == specs[c]
  <2>1. IsStored(c) /\ in \in TestRunInput \cup {None} /\ results \in Seq(SpecResult)
    BY <1>1 DEF RunsInv, SubmissionInv, TypeOK
  <2>2. in \in TestRunInput /\ ValidReport(in) /\ results = Results(in.specs)
    BY <1>1, <2>1 DEF RunsInv, SubmissionInv, IsStored
  <2>3. /\ in.kind \in Kinds /\ in.specs \in Seq(SpecReport)
        /\ DOMAIN results = DOMAIN in.specs
    BY <2>2, ResultsType DEF TestRunInput
  <2>4. \A state : Rows(c, {state}) = {i \in DOMAIN results : results[i].state = state}
    BY DEF Rows
  <2>5. \A state : /\ CountOf(results, state) = Cardinality(Rows(c, {state}))
                   /\ CountOf(results, state) \in Nat
    BY <2>1, <2>4, CountType DEF CountOf
  <2>6. runs[c] = NewRun(c, run[c].createdAt)
    BY <2>1 DEF IsStored
  <2>7. /\ runs[c].kind = in.kind
        /\ runs[c].totalSpecs = Len(results)
        /\ runs[c].passedSpecs = CountOf(results, "passed")
        /\ runs[c].failedSpecs = CountOf(results, "failed")
        /\ runs[c].skippedSpecs = CountOf(results, "skipped")
        /\ runs[c].flakedSpecs = CountOf(results, "flaky")
        /\ runs[c].pendingSpecs = IF in.kind = "e2e" THEN 0 ELSE CountOf(results, "pending")
        /\ runs[c].status = EvaluateRunStatus(CountOf(results, "failed"),
              Some(in.specs, "interrupted"), Some(in.specs, "timedout"))
    BY <2>2, <2>6 DEF NewRun
  <2>8. \A i \in DOMAIN in.specs :
           /\ results[i].state = "failed" <=>
                 in.specs[i].state \in {"failed", "panicked", "interrupted", "timedout"}
    <3> SUFFICES ASSUME NEW i \in DOMAIN in.specs
                 PROVE  results[i].state = "failed" <=>
                           in.specs[i].state \in {"failed", "panicked", "interrupted", "timedout"}
      OBVIOUS
    <3>1. isAcceptedState(in.kind, in.specs[i].state)
      BY <2>2 DEF ValidReport, ValidSpec
    <3>2. results[i].state = normalizeState(in.specs[i].state)
      BY <2>2 DEF Results
    <3> QED
      BY <3>1, <3>2, FailedWords
  <2>9. CountOf(results, "failed") = 0 <=> \A i \in DOMAIN results : results[i].state # "failed"
    <3>1. IsFiniteSet(1 .. Len(results)) /\ Rows(c, {"failed"}) \in SUBSET (1 .. Len(results))
      <4>1. Len(results) \in Nat /\ DOMAIN results = 1 .. Len(results)
        BY <2>1
      <4> QED
        BY <2>4, <4>1, IndexCount
    <3>2. IsFiniteSet(Rows(c, {"failed"}))
      BY <3>1, FS_Subset
    <3>3. CountOf(results, "failed") = 0 <=> Rows(c, {"failed"}) = {}
      BY <2>5, <3>2, FS_EmptySet
    <3> QED
      BY <2>4, <3>3
  <2>10. runs[c].status = "passed" <=>
            \A i \in DOMAIN in.specs : in.specs[i].state \notin
               {"failed", "panicked", "interrupted", "timedout"}
    BY <2>3, <2>7, <2>8, <2>9 DEF EvaluateRunStatus, Some
  <2>11. runs[c].totalSpecs - (runs[c].passedSpecs + runs[c].failedSpecs
             + runs[c].skippedSpecs + runs[c].flakedSpecs + runs[c].pendingSpecs)
         = IF in.kind = "integration" THEN 0 ELSE CountOf(results, "pending")
    <3>1. Len(results) = CountOf(results, "passed") + CountOf(results, "failed")
             + CountOf(results, "skipped") + CountOf(results, "flaky")
             + CountOf(results, "pending")
      BY <2>1, CountsPartition
    <3>2. \A a, b, d, e, f \in Nat : /\ (a + b + d + e + f) - (a + b + d + e + f) = 0
                                     /\ (a + b + d + e + f) - (a + b + d + e + 0) = f
      OBVIOUS
    <3>3. /\ CountOf(results, "passed") \in Nat /\ CountOf(results, "failed") \in Nat
          /\ CountOf(results, "skipped") \in Nat /\ CountOf(results, "flaky") \in Nat
          /\ CountOf(results, "pending") \in Nat
      BY <2>5
    <3>4. in.kind = "e2e" <=> in.kind # "integration"
      BY <2>3 DEF Kinds
    <3> QED
      BY <2>7, <3>1, <3>2, <3>3, <3>4
  <2> QED
    BY <2>5, <2>7, <2>10, <2>11
<1> QED
  BY <1>1, RunsInvariant, PTL

-----------------------------------------------------------------------------
(* The first rows of a set of runs. *)

\* A page of ids names ids only, and misses none without a reason.
LEMMA PageIsFair ==
  ASSUME NEW ids \in SUBSET Requests, NEW n \in Int, NEW page \in Newest(ids, n),
         NEW items \in Orders(page)
  PROVE  /\ \A k \in DOMAIN items : items[k] \in ids
         /\ ~Missed(ids, items, n)
<1> DEFINE size == Cardinality(page)
<1>1. /\ IsFiniteSet(ids) /\ IsFiniteSet(page) /\ page \subseteq ids
      /\ size \in Nat /\ Cardinality(ids) \in Nat
  <2>1. IsFiniteSet(ids)
    BY TestRunInputs, FS_Subset
  <2>2. page \in SUBSET ids
    BY DEF Newest
  <2>3. IsFiniteSet(page)
    BY <2>1, <2>2, FS_Subset
  <2> QED
    BY <2>1, <2>2, <2>3, FS_CardinalityType
<1>2. items \in [1 .. size -> page] /\ Len(items) = size
  BY <1>1 DEF Orders
<1>3. \A c \in page : \E k \in DOMAIN items : items[k] = c
  <2>1. items \in Injection(1 .. size, page)
    BY <1>2 DEF Orders, Injection, IsInjective
  <2>2. Cardinality(1 .. size) = Cardinality(page)
    BY <1>1, IndexCount
  <2>3. items \in Surjection(1 .. size, page)
    BY <1>1, <2>1, <2>2, FS_Injection
  <2> QED
    BY <1>2, <2>3 DEF Surjection
<1>4. ASSUME NEW c \in ids, \A k \in DOMAIN items : items[k] # c
      PROVE  /\ ~(Len(items) < n)
             /\ \A k \in DOMAIN items : ~Newer(runs[c], runs[items[k]])
  <2>1. c \notin page
    BY <1>3, <1>4
  <2>2. size # Cardinality(ids)
    BY <1>1, <2>1, FS_Subset
  <2>3. size = Smaller(n, Cardinality(ids))
    BY DEF Newest
  <2>4. ~(size < n)
    BY <1>1, <2>2, <2>3 DEF Smaller
  <2>5. \A k \in DOMAIN items : ~Newer(runs[c], runs[items[k]])
    BY <1>2, <2>1 DEF Newest
  <2> QED
    BY <1>2, <2>4, <2>5
<1>5. ~Missed(ids, items, n)
  BY <1>4 DEF Missed
<1> QED
  BY <1>1, <1>2, <1>5

\* What misses nothing of a set misses nothing of a part of it.
LEMMA MissedOfPart ==
  ASSUME NEW ids, NEW part \in SUBSET ids, NEW items, NEW n, ~Missed(ids, items, n)
  PROVE  ~Missed(part, items, n)
  BY DEF Missed

-----------------------------------------------------------------------------
(* Stored runs stay as they are. *)

\* A step leaves every stored run in its rows.
RowsKept ==
    \A c \in StoredRuns : c \in StoredRuns' /\ runs'[c] = runs[c] /\ specs'[c] = specs[c]

\* What was seen and matches a filter still does, and nothing more of it.
LEMMA MatchesStay ==
  ASSUME RowsKept, NEW seen \in SUBSET StoredRuns, NEW kind, NEW id, NEW q
  PROVE  /\ (seen \cap Listable(kind, id, q))' = seen \cap Listable(kind, id, q)
         /\ (seen \cap Mappable(kind, id, q))' = seen \cap Mappable(kind, id, q)
<1>1. \A f : (seen \cap Listable(kind, id, f))' = seen \cap Listable(kind, id, f)
  <2> SUFFICES ASSUME NEW f, NEW c \in seen
               PROVE  c \in Listable(kind, id, f)' <=> c \in Listable(kind, id, f)
    OBVIOUS
  <2>1. /\ c \in Requests /\ runs'[c] = runs[c] /\ specs'[c] = specs[c]
        /\ runs[c] # None
    BY DEF RowsKept, StoredRuns
  <2> QED
    BY <2>1 DEF Listable, RunsOf, Committed, HasSpecOf, EnvironmentOf
<1> QED
  BY <1>1 DEF Mappable

\* Nor does a later step make a run missed that was not.
LEMMA MissedStays ==
  ASSUME RowsKept, NEW ids \in SUBSET StoredRuns, NEW items, NEW n,
         \A k \in DOMAIN items : items[k] \in StoredRuns, ~Missed(ids, items, n)
  PROVE  ~Missed(ids, items, n)'
  BY DEF Missed, RowsKept

\* So an answer that missed nothing misses nothing later.
LEMMA AnswerStays ==
  ASSUME RowsKept, NEW ask, NEW answer, NEW seen \in SUBSET StoredRuns,
         NamesStored(answer), MissesNothing(ask, answer, seen)
  PROVE  NamesStored(answer)' /\ MissesNothing(ask, answer, seen)'
<1>1. NamesStored(answer)'
  BY DEF NamesStored, RowsKept
<1>2. (ask.about \in {"latest", "run"} /\ answer.code = "NOT_FOUND" =>
          \A c \in seen :
              runs[c].projectId = ask.projectId => ask.about = "run" /\ c # ask.run)'
  BY DEF MissesNothing, RowsKept
<1>3. ASSUME answer.code = "LIST"
      PROVE  (LET ids == seen \cap Listable(ask.kind, ask.projectId, ask.question)
              IN  /\ ~Missed(ids, answer.items, EffectiveLimit(ask.question.limit, 20, 100))
                  /\ answer.total >= Cardinality(ids))'
  <2> DEFINE ids == seen \cap Listable(ask.kind, ask.projectId, ask.question)
             n == EffectiveLimit(ask.question.limit, 20, 100)
  <2>1. ids' = ids /\ ids \in SUBSET StoredRuns
    BY MatchesStay
  <2>2. ~Missed(ids, answer.items, n) /\ answer.total >= Cardinality(ids)
    BY <1>3 DEF MissesNothing
  <2>3. \A k \in DOMAIN answer.items : answer.items[k] \in StoredRuns
    BY <1>3 DEF NamesStored
  <2> HIDE DEF ids, n
  <2>4. ~Missed(ids, answer.items, n)'
    BY <2>1, <2>2, <2>3 DEF Missed, RowsKept
  <2> QED
    BY <2>1, <2>2, <2>4 DEF ids, n
<1>4. ASSUME answer.code = "HEATMAP", NEW p \in Requests
      PROVE  (~Missed(seen \cap Mappable(ask.kind, p, ask.question), answer.rows[p],
                      EffectiveLimit(ask.question.limit, 10, 30)))'
  <2> DEFINE ids == seen \cap Mappable(ask.kind, p, ask.question)
             n == EffectiveLimit(ask.question.limit, 10, 30)
  <2>1. ids' = ids /\ ids \in SUBSET StoredRuns
    BY MatchesStay
  <2>2. ~Missed(ids, answer.rows[p], n)
    BY <1>4 DEF MissesNothing
  <2>3. \A k \in DOMAIN answer.rows[p] : answer.rows[p][k] \in StoredRuns
    BY <1>4 DEF NamesStored
  <2> HIDE DEF ids, n
  <2>4. ~Missed(ids, answer.rows[p], n)'
    BY <2>1, <2>2, <2>3 DEF Missed, RowsKept
  <2> QED
    BY <2>4 DEF ids, n
<1> QED
  BY <1>1, <1>2, <1>3, <1>4 DEF MissesNothing

\* What a read that does nothing in a step has seen and answered.
LEMMA SearchStays ==
  ASSUME RowsKept, NEW rd \in Readers, SearchInv(rd), query'[rd] = query[rd],
         before'[rd] = before[rd], ranswer'[rd] = ranswer[rd],
         rpc'[rd] \in {rpc[rd], "lost"}
  PROVE  SearchInv(rd)'
<1> PICK ask, answer, seen, stage :
       ask = query[rd] /\ answer = ranswer[rd] /\ seen = before[rd] /\ stage = rpc'[rd]
  OBVIOUS
<1>1. seen \in SUBSET StoredRuns /\ seen \in SUBSET StoredRuns'
  BY DEF SearchInv, RowsKept
<1>2. answer # None =>
         NamesStored(answer)' /\ MissesNothing(ask, answer, seen)'
  BY <1>1, AnswerStays DEF SearchInv
<1>3. stage \in ReadStages \cup {"idle"} => stage = rpc[rd] /\ answer = None
  BY DEF SearchInv, ReadStages
<1>4. stage = "get_run" =>
         ask.about = "latest" /\ seen \subseteq Committed(ask.kind)'
  <2>1. stage = "get_run" => ask.about = "latest" /\ seen \subseteq Committed(ask.kind)
    BY <1>3 DEF SearchInv, ReadStages
  <2> QED
    BY <1>1, <2>1 DEF Committed, RowsKept, StoredRuns
<1>5. stage = "list_runs" =>
         /\ ask.about = "list" /\ ask.question \in Questions
         /\ ask.total >= Cardinality(seen \cap Listable(ask.kind, ask.projectId, ask.question))'
  <2>1. (seen \cap Listable(ask.kind, ask.projectId, ask.question))'
          = seen \cap Listable(ask.kind, ask.projectId, ask.question)
    BY <1>1, MatchesStay
  <2>2. stage = "list_runs" =>
         /\ ask.about = "list" /\ ask.question \in Questions
         /\ ask.total >= Cardinality(seen \cap Listable(ask.kind, ask.projectId, ask.question))
    BY <1>3 DEF SearchInv, ReadStages
  <2> QED
    BY <2>1, <2>2
<1>6. query'[rd] = ask /\ ranswer'[rd] = answer /\ before'[rd] = seen /\ rpc'[rd] = stage
  OBVIOUS
<1>7. (rpc[rd] = "get_run" =>
         query[rd].about = "latest" /\ before[rd] \subseteq Committed(query[rd].kind))'
  BY <1>4, <1>6 DEF Committed
<1>8. (rpc[rd] = "list_runs" =>
         /\ query[rd].about = "list" /\ query[rd].question \in Questions
         /\ query[rd].total >= Cardinality(before[rd] \cap
              Listable(query[rd].kind, query[rd].projectId, query[rd].question)))'
  BY <1>5, <1>6 DEF Listable
<1>9. (ranswer[rd] # None =>
         NamesStored(ranswer[rd]) /\ MissesNothing(query[rd], ranswer[rd], before[rd]))'
  BY <1>2, <1>6 DEF NamesStored, MissesNothing, Listable, Mappable
<1> QED
  BY <1>1, <1>3, <1>6, <1>7, <1>8, <1>9 DEF SearchInv

\* The only writes are of a run that is not stored yet, and of a new project.
Writes(r) ==
    \/ UNCHANGED tables
    \/ pc[r] = "create_project" /\ UNCHANGED <<runs, specs>>
          /\ projects' = [projects EXCEPT ![r] = NewProject(r)]
    \/ pc[r] = "persist" /\ Store(r) /\ UNCHANGED projects

LEMMA SubmissionWrites ==
  ASSUME NEW r \in Requests,
         (\E in \in Inputs : Receive(r, in)) \/ Step(r) \/ StatementFails(r)
  PROVE  Writes(r) /\ UNCHANGED reads
<1>1. CASE \E in \in Inputs : Receive(r, in)
  BY <1>1 DEF Receive, Writes, tables
<1>2. CASE Step(r)
  BY <1>2 DEF Step, GetProject, CreateProject, CreateProjectConflict, GetBaseline,
     BuildRun, Persist, PersistRefused, Respond, Writes, tables
<1>3. CASE StatementFails(r)
  BY <1>3 DEF StatementFails, Writes, tables
<1> QED
  BY <1>1, <1>2, <1>3

LEMMA WritesKeepRows ==
  ASSUME RunsInv, NEW r \in Requests, Writes(r)
  PROVE  RowsKept
<1>1. CASE UNCHANGED <<runs, specs>>
  BY <1>1 DEF RowsKept, StoredRuns
<1>2. CASE pc[r] = "persist" /\ Store(r)
  <2>1. r \notin StoredRuns
    BY <1>2 DEF RunsInv, SubmissionInv, IsStored, StoredRuns
  <2>2. runs \in [Requests -> TestRun \cup {None}] /\ specs \in [Requests -> Seq(SpecResult)]
    BY DEF RunsInv, TypeOK
  <2> QED
    BY <1>2, <2>1, <2>2 DEF RowsKept, StoredRuns, Store
<1> QED
  BY <1>1, <1>2 DEF Writes, tables

-----------------------------------------------------------------------------
(* Projects exist. *)

\* A project that is there stays, and a new one is under its own ID.
LEMMA WritesKeepProjects ==
  ASSUME RunsInv, OwnersExist, NEW r \in Requests, Writes(r)
  PROVE  /\ \A p \in Requests : projects'[p] # None => projects'[p].id = p
         /\ \A p \in Requests : projects[p] # None => projects'[p] # None
<1>1. CASE UNCHANGED projects
  BY <1>1 DEF OwnersExist
<1>2. CASE /\ pc[r] = "create_project"
           /\ projects' = [projects EXCEPT ![r] = NewProject(r)]
  <2>1. NewProject(r) \in Project /\ NewProject(r).id = r
    <3>1. input[r] \in TestRunInput /\ ValidReport(input[r])
      BY <1>2 DEF RunsInv, SubmissionInv, Stages
    <3> QED
      BY <3>1, NewProjectType DEF NewProject
  <2>2. NewProject(r) # None /\ projects \in [Requests -> Project \cup {None}]
    BY <2>1, TestRunInputs DEF RunsInv, TypeOK
  <2> HIDE DEF NewProject
  <2> QED
    BY <1>2, <2>1, <2>2 DEF OwnersExist
<1> QED
  BY <1>1, <1>2 DEF Writes, tables

\* Whether a submission has a project that must exist.
Owned(c) == pc[c] \in {"get_baseline", "build_run", "persist"} \/ runs[c] # None

\* A step gives its submission a project that is there, or leaves it the one it has.
LEMMA SubmissionOwner ==
  ASSUME RunsInv, OwnersExist, NEW r \in Requests,
         (\E in \in Inputs : Receive(r, in)) \/ Step(r) \/ StatementFails(r)
  PROVE  /\ \A s \in Requests \ {r} : /\ pc'[s] = pc[s] /\ runs'[s] = runs[s]
                                       /\ project'[s] = project[s]
         /\ \/ project'[r] = project[r] /\ (Owned(r)' => Owned(r))
            \/ projects'[project'[r].id] # None
<1> USE DEF Goto, Answer, InternalError, tables, locals
<1>1. TypeOK
  BY DEF RunsInv
<1>2. CASE \E in \in Inputs : Receive(r, in)
  BY <1>1, <1>2 DEF Receive, Owned, TypeOK
<1>3. CASE GetProject(r)
  <2>1. CASE UNCHANGED project /\ Goto(r, "create_project")
    BY <1>1, <1>3, <2>1 DEF GetProject, Owned, TypeOK
  <2>2. CASE \E p \in ProjectsWithKey(input[r].projectKey) :
                project' = [project EXCEPT ![r] = projects[p]]
    <3>1. PICK p \in ProjectsWithKey(input[r].projectKey) :
             project' = [project EXCEPT ![r] = projects[p]]
      BY <2>2
    <3>2. p \in Requests /\ projects[p] # None /\ projects[p].id = p
      BY <3>1 DEF ProjectsWithKey, OwnersExist
    <3>3. \E stage : pc' = [pc EXCEPT ![r] = stage]
      BY <1>3 DEF GetProject
    <3> QED
      BY <1>1, <1>3, <3>1, <3>2, <3>3 DEF GetProject, TypeOK
  <2> QED
    BY <1>3, <2>1, <2>2 DEF GetProject
<1>4. CASE CreateProject(r)
  <2>1. NewProject(r) \in Project /\ NewProject(r).id = r
    <3>1. input[r] \in TestRunInput /\ ValidReport(input[r])
      BY <1>4 DEF CreateProject, RunsInv, SubmissionInv, Stages
    <3> QED
      BY <3>1, NewProjectType DEF NewProject
  <2>2. NewProject(r) # None
    BY <2>1, TestRunInputs
  <2> HIDE DEF NewProject
  <2> QED
    BY <1>1, <1>4, <2>1, <2>2 DEF CreateProject, TypeOK
<1>5. CASE GetBaseline(r) \/ BuildRun(r)
  <2>1. UNCHANGED <<project, runs>> /\ Owned(r)
    BY <1>5 DEF GetBaseline, BuildRun, Owned
  <2>2. \E stage : pc' = [pc EXCEPT ![r] = stage]
    BY <1>5 DEF GetBaseline, BuildRun
  <2> QED
    BY <1>1, <2>1, <2>2 DEF TypeOK
<1>6. CASE Persist(r) \/ PersistRefused(r)
  <2>1. UNCHANGED project /\ Owned(r)
    BY <1>6 DEF Persist, PersistRefused, Owned
  <2>2. \E stage : pc' = [pc EXCEPT ![r] = stage]
    BY <1>6 DEF Persist, PersistRefused
  <2>3. \A s \in Requests \ {r} : runs'[s] = runs[s]
    BY <1>1, <1>6 DEF Persist, PersistRefused, Store, TypeOK
  <2> QED
    BY <1>1, <2>1, <2>2, <2>3 DEF TypeOK
<1>7. CASE CreateProjectConflict(r) \/ Respond(r)
  <2>1. UNCHANGED <<project, runs>> /\ pc' = [pc EXCEPT ![r] = "done"]
    BY <1>7 DEF CreateProjectConflict, Respond
  <2> QED
    BY <1>1, <2>1 DEF Owned, TypeOK
<1>8. CASE StatementFails(r)
  <2>1. UNCHANGED project /\ pc' = [pc EXCEPT ![r] = "done"]
    BY <1>8 DEF StatementFails
  <2>2. UNCHANGED runs \/ (pc[r] = "persist" /\ runs' = [runs EXCEPT ![r] = run[r]])
    BY <1>8 DEF StatementFails, Store
  <2> QED
    BY <1>1, <2>1, <2>2 DEF Owned, TypeOK
<1> QED
  BY <1>2, <1>3, <1>4, <1>5, <1>6, <1>7, <1>8 DEF Step

LEMMA OwnersStay ==
  ASSUME RunsInv, OwnersExist, NEW r \in Requests,
         (\E in \in Inputs : Receive(r, in)) \/ Step(r) \/ StatementFails(r)
  PROVE  OwnersExist'
<1>1. /\ \A p \in Requests : projects'[p] # None => projects'[p].id = p
      /\ \A p \in Requests : projects[p] # None => projects'[p] # None
  BY SubmissionWrites, WritesKeepProjects
<1>2. \A c \in Requests : Owned(c) => project[c].id \in Requests
  <2> SUFFICES ASSUME NEW c \in Requests, Owned(c) PROVE project[c] \in Project
    BY DEF Project
  <2> QED
    BY DEF Owned, RunsInv, SubmissionInv, IsStored
<1>3. ASSUME NEW c \in Requests, Owned(c)' PROVE projects'[project'[c].id] # None
  <2>1. \/ project'[c] = project[c] /\ Owned(c)
        \/ projects'[project'[c].id] # None
    BY <1>3, SubmissionOwner DEF Owned
  <2> QED
    BY <1>1, <1>2, <2>1 DEF OwnersExist, Owned
<1> QED
  BY <1>1, <1>3 DEF OwnersExist, Owned

-----------------------------------------------------------------------------
(* Steps of a read. *)

\* What a step of a read leaves alone: the submissions, and every other read.
ReadsApart(rd) ==
    /\ UNCHANGED <<tables, pc, locals>>
    /\ \A other \in Readers \ {rd} :
          /\ rpc'[other] = rpc[other] /\ query'[other] = query[other]
          /\ before'[other] = before[other] /\ ranswer'[other] = ranswer[other]
    /\ DOMAIN query' = Readers /\ DOMAIN before' = Readers

\* A step of one read has to be looked at for that read only.
LEMMA OneSearch ==
  ASSUME SeekInv, RunsInv', NEW rd \in Readers, ReadsApart(rd), SearchInv(rd)'
  PROVE  SeekInv'
<1>1. OwnersExist'
  BY DEF SeekInv, OwnersExist, ReadsApart, tables, locals
<1>2. RowsKept
  BY DEF ReadsApart, RowsKept, StoredRuns, tables
<1>3. \A other \in Readers \ {rd} : SearchInv(other)'
  BY <1>2, SearchStays DEF SeekInv, ReadsApart
<1> QED
  BY <1>1, <1>3 DEF SeekInv, ReadsApart

\* A read that answers, having missed nothing.
LEMMA Answered ==
  ASSUME SeekInv, RunsInv', NEW rd \in Readers, ReadsApart(rd),
         NEW ask, NEW seen \in SUBSET StoredRuns, NEW answer,
         query'[rd] = ask, before'[rd] = seen, ReadAnswer(rd, answer),
         NamesStored(answer), MissesNothing(ask, answer, seen)
  PROVE  SeekInv'
<1>1. rpc'[rd] = "done" /\ ranswer'[rd] = answer
  BY DEF SeekInv, RunsInv, TypeOK, ReadAnswer
<1>2. RowsKept
  BY DEF ReadsApart, RowsKept, StoredRuns, tables
<1>3. NamesStored(answer)' /\ MissesNothing(ask, answer, seen)'
  BY <1>2, AnswerStays
<1>4. seen \subseteq StoredRuns'
  BY <1>2 DEF RowsKept
<1>5. (NamesStored(ranswer[rd]) /\ MissesNothing(query[rd], ranswer[rd], before[rd]))'
  BY <1>1, <1>3 DEF NamesStored, MissesNothing, Listable, Mappable
<1>6. SearchInv(rd)'
  BY <1>1, <1>4, <1>5 DEF SearchInv, ReadStages
<1> QED
  BY <1>6, OneSearch

\* A read that has asked its first statement and goes on.
LEMMA AskedOn ==
  ASSUME SeekInv, RunsInv', NEW rd \in Readers, ReadsApart(rd),
         NEW ask, query'[rd] = ask, before'[rd] = Committed(ask.kind),
         ranswer[rd] = None, ranswer'[rd] = None,
         \/ rpc'[rd] = "get_run" /\ ask.about = "latest"
         \/ /\ rpc'[rd] = "list_runs" /\ ask.about = "list" /\ ask.question \in Questions
            /\ ask.total = Cardinality(Listable(ask.kind, ask.projectId, ask.question))
  PROVE  SeekInv'
<1>1. RowsKept /\ StoredRuns' = StoredRuns
  BY DEF ReadsApart, RowsKept, StoredRuns, tables
<1> PICK seen : seen = Committed(ask.kind)
  OBVIOUS
<1>2. seen \in SUBSET StoredRuns
  BY DEF Committed, StoredRuns
<1>3. Committed(ask.kind)' = seen
  BY DEF Committed, ReadsApart, tables
<1>4. rpc'[rd] = "list_runs" =>
         ask.total >= Cardinality(seen \cap Listable(ask.kind, ask.projectId, ask.question))'
  <2> DEFINE ids == Listable(ask.kind, ask.projectId, ask.question)
  <2>1. (seen \cap ids)' = seen \cap ids
    BY <1>1, <1>2, MatchesStay
  <2>2. seen \cap ids = ids
    BY DEF Listable, RunsOf
  <2>3. IsFiniteSet(ids) /\ Cardinality(ids) \in Nat
    <3>1. ids \in SUBSET Requests
      BY DEF Listable, RunsOf, Committed
    <3>2. IsFiniteSet(ids)
      BY <3>1, TestRunInputs, FS_Subset
    <3> QED
      BY <3>2, FS_CardinalityType
  <2> HIDE DEF ids
  <2>4. rpc'[rd] = "list_runs" => ask.total = Cardinality(ids)
    BY DEF ids
  <2>5. rpc'[rd] = "list_runs" => ask.total >= Cardinality(seen \cap ids)'
    BY <2>1, <2>2, <2>3, <2>4
  <2> QED
    BY <2>5 DEF ids
<1>5. (rpc[rd] = "list_runs" =>
         /\ query[rd].about = "list" /\ query[rd].question \in Questions
         /\ query[rd].total >= Cardinality(before[rd] \cap
              Listable(query[rd].kind, query[rd].projectId, query[rd].question)))'
  BY <1>4 DEF Listable
<1>6. (rpc[rd] = "get_run" =>
         query[rd].about = "latest" /\ before[rd] \subseteq Committed(query[rd].kind))'
  BY <1>3 DEF Committed
<1>7. SearchInv(rd)'
  BY <1>1, <1>2, <1>5, <1>6 DEF SearchInv
<1> QED
  BY <1>7, OneSearch

\* What the first statement of a read does to it and to the others.
LEMMA AskedApart ==
  ASSUME SeekInv, NEW rd \in Readers, NEW what, Receives(rd, what),
         \/ \E answer : ReadAnswer(rd, answer)
         \/ \E stage : rpc' = [rpc EXCEPT ![rd] = stage] /\ UNCHANGED ranswer
  PROVE  /\ ReadsApart(rd)
         /\ query'[rd] = what /\ before'[rd] = Committed(what.kind)
         /\ Committed(what.kind) \in SUBSET StoredRuns
         /\ ranswer[rd] = None
<1>1. /\ DOMAIN query = Readers /\ DOMAIN before = Readers /\ DOMAIN ranswer = Readers
      /\ DOMAIN rpc = Readers /\ SearchInv(rd)
  BY DEF SeekInv, RunsInv, TypeOK
<1>2. /\ query' = [query EXCEPT ![rd] = what]
      /\ before' = [before EXCEPT ![rd] = Committed(what.kind)]
      /\ UNCHANGED <<tables, pc, locals>> /\ rpc[rd] = "idle"
  BY DEF Receives
<1>3. \A other \in Readers \ {rd} :
         rpc'[other] = rpc[other] /\ ranswer'[other] = ranswer[other]
  BY <1>1 DEF ReadAnswer
<1>4. ReadsApart(rd)
  BY <1>1, <1>2, <1>3 DEF ReadsApart
<1>5. Committed(what.kind) \in SUBSET StoredRuns
  BY DEF Committed, StoredRuns
<1>6. ranswer[rd] = None
  BY <1>1, <1>2 DEF SearchInv
<1> QED
  BY <1>1, <1>2, <1>4, <1>5, <1>6

\* An answer that is neither a list nor a heatmap, nor a NOT_FOUND, misses nothing.
LEMMA OtherAnswer ==
  ASSUME NEW ask, NEW answer, NEW seen,
         answer.code \in {"OK", "INVALID_ARGUMENT", "INTERNAL"}
  PROVE  NamesStored(answer) /\ MissesNothing(ask, answer, seen)
  BY DEF NamesStored, MissesNothing

\* A project that is not there has no runs: latest comparison.
LEMMA ReceiveReadStep ==
  ASSUME SeekInv, RunsInv', NEW rd \in Readers, NEW kind, NEW id \in Requests,
         ReceiveRead(rd, kind, id)
  PROVE  SeekInv'
<1> DEFINE what == [about |-> "latest", kind |-> kind, projectId |-> id]
<1>1. Receives(rd, what)
  BY DEF ReceiveRead
<1>2. CASE projects[id] = None
  <2>1. ReadAnswer(rd, [code |-> "NOT_FOUND"])
    BY <1>2 DEF ReceiveRead
  <2>2. /\ ReadsApart(rd) /\ query'[rd] = what /\ before'[rd] = Committed(kind)
        /\ Committed(kind) \in SUBSET StoredRuns
    BY <1>1, <2>1, AskedApart
  <2>3. ASSUME NEW c \in Committed(kind) PROVE runs[c].projectId # id
    <3>1. c \in Requests /\ runs[c] # None /\ IsStored(c)
      BY <2>3, CommittedIsStored DEF SeekInv, Committed
    <3>2. runs[c].projectId = project[c].id
      BY <3>1 DEF IsStored, NewRun
    <3> QED
      BY <1>2, <3>1, <3>2 DEF SeekInv, OwnersExist
  <2>4. /\ NamesStored([code |-> "NOT_FOUND"])
        /\ MissesNothing(what, [code |-> "NOT_FOUND"], Committed(kind))
    BY <2>3 DEF NamesStored, MissesNothing
  <2> QED
    BY <2>1, <2>2, <2>4, Answered
<1>3. CASE projects[id] # None
  <2>1. rpc' = [rpc EXCEPT ![rd] = "get_run"] /\ UNCHANGED ranswer
    BY <1>3 DEF ReceiveRead
  <2>2. /\ ReadsApart(rd) /\ query'[rd] = what /\ before'[rd] = Committed(what.kind)
        /\ ranswer[rd] = None
    BY <1>1, <2>1, AskedApart
  <2>3. rpc'[rd] = "get_run" /\ ranswer'[rd] = None
    BY <2>1, <2>2 DEF SeekInv, RunsInv, TypeOK
  <2> QED
    BY <2>2, <2>3, AskedOn
<1> QED
  BY <1>2, <1>3

LEMMA ReadByIDStep ==
  ASSUME SeekInv, RunsInv', NEW rd \in Readers, NEW kind, NEW id \in Requests,
         NEW c \in Requests, ReadByID(rd, kind, id, c)
  PROVE  SeekInv'
<1> DEFINE what == [about |-> "run", kind |-> kind, projectId |-> id, run |-> c]
<1>1. Receives(rd, what)
  BY DEF ReadByID
<1>2. PICK answer :
         /\ answer = IF c \in RunsOf(kind, id) THEN ReadOutput(c, None)
                     ELSE [code |-> "NOT_FOUND"]
         /\ ReadAnswer(rd, answer)
  BY DEF ReadByID
<1>3. /\ ReadsApart(rd) /\ query'[rd] = what /\ before'[rd] = Committed(kind)
      /\ Committed(kind) \in SUBSET StoredRuns
  BY <1>1, <1>2, AskedApart
<1>4. NamesStored(answer) /\ MissesNothing(what, answer, Committed(kind))
  <2>1. CASE c \in RunsOf(kind, id)
    <3>1. answer.code = "OK"
      BY <1>2, <2>1 DEF ReadOutput
    <3> QED
      BY <3>1, OtherAnswer
  <2>2. CASE c \notin RunsOf(kind, id)
    <3>1. answer.code = "NOT_FOUND"
      BY <1>2, <2>2
    <3>2. \A d \in Committed(kind) : runs[d].projectId = id => d # c
      BY <2>2 DEF RunsOf
    <3> QED
      BY <3>1, <3>2 DEF NamesStored, MissesNothing
  <2> QED
    BY <2>1, <2>2
<1> QED
  BY <1>2, <1>3, <1>4, Answered

LEMMA CountRunsStep ==
  ASSUME SeekInv, RunsInv', NEW rd \in Readers, NEW kind, NEW id \in Requests,
         NEW q \in Questions, CountRuns(rd, kind, id, q)
  PROVE  SeekInv'
<1> PICK total : total = Cardinality(Listable(kind, id, q))
  OBVIOUS
<1> DEFINE what == [about |-> "list", kind |-> kind, projectId |-> id, question |-> q,
                    total |-> total]
<1>1. Receives(rd, what)
  BY DEF CountRuns
<1>2. CASE ValidFilter(kind, q)
  <2>1. rpc' = [rpc EXCEPT ![rd] = "list_runs"] /\ UNCHANGED ranswer
    BY <1>2 DEF CountRuns
  <2>2. /\ ReadsApart(rd) /\ query'[rd] = what /\ before'[rd] = Committed(what.kind)
        /\ ranswer[rd] = None
    BY <1>1, <2>1, AskedApart
  <2>3. rpc'[rd] = "list_runs" /\ ranswer'[rd] = None
    BY <2>1, <2>2 DEF SeekInv, RunsInv, TypeOK
  <2>4. what.about = "list" /\ what.kind = kind /\ what.projectId = id
          /\ what.question = q /\ what.total = total
    OBVIOUS
  <2> QED
    BY <2>2, <2>3, <2>4, AskedOn
<1>3. CASE ~ValidFilter(kind, q)
  <2>1. ReadAnswer(rd, [code |-> "INVALID_ARGUMENT"])
    BY <1>3 DEF CountRuns
  <2>2. /\ ReadsApart(rd) /\ query'[rd] = what /\ before'[rd] = Committed(kind)
        /\ Committed(kind) \in SUBSET StoredRuns
    BY <1>1, <2>1, AskedApart
  <2> QED
    BY <2>1, <2>2, OtherAnswer, Answered
<1> QED
  BY <1>2, <1>3

\* A limit is an integer, whatever was asked for.
LEMMA LimitType ==
  ASSUME NEW q \in Questions
  PROVE  EffectiveLimit(q.limit, 20, 100) \in Int /\ EffectiveLimit(q.limit, 10, 30) \in Int
<1>1. q.limit \in Int
  BY TestRunInputs DEF Question
<1> QED
  BY <1>1 DEF EffectiveLimit, Smaller

LEMMA ReadHeatmapStep ==
  ASSUME SeekInv, RunsInv', NEW rd \in Readers, NEW kind, NEW q \in Questions,
         ReadHeatmap(rd, kind, q)
  PROVE  SeekInv'
<1> DEFINE what == [about |-> "heatmap", kind |-> kind, question |-> q]
           n == EffectiveLimit(q.limit, 10, 30)
<1>1. Receives(rd, what)
  BY DEF ReadHeatmap
<1>2. ASSUME NEW answer, ReadAnswer(rd, answer), NamesStored(answer),
             MissesNothing(what, answer, Committed(kind))
      PROVE  SeekInv'
  <2>1. /\ ReadsApart(rd) /\ query'[rd] = what /\ before'[rd] = Committed(kind)
        /\ Committed(kind) \in SUBSET StoredRuns
    BY <1>1, <1>2, AskedApart
  <2> QED
    BY <1>2, <2>1, Answered
<1>3. CASE ValidFilter(kind, [q EXCEPT !.environment = None])
  <2> PICK tile \in [Requests -> SUBSET Requests] : \E row :
          /\ \A p \in Requests : tile[p] \in Ranked(kind, p, q, n) /\ row[p] \in Orders(tile[p])
          /\ ReadAnswer(rd, [code |-> "HEATMAP", rows |-> row])
    BY <1>3 DEF ReadHeatmap
  <2>1. PICK row :
          /\ \A p \in Requests : tile[p] \in Ranked(kind, p, q, n) /\ row[p] \in Orders(tile[p])
          /\ ReadAnswer(rd, [code |-> "HEATMAP", rows |-> row])
    OBVIOUS
  <2> PICK answer : answer = [code |-> "HEATMAP", rows |-> row]
    OBVIOUS
  <2>2. ASSUME NEW p \in Requests
        PROVE  /\ \A k \in DOMAIN row[p] : row[p][k] \in StoredRuns
               /\ ~Missed(Committed(kind) \cap Mappable(kind, p, q), row[p], n)
    <3> DEFINE ids == Mappable(kind, p, q)
    <3>1. ids \in SUBSET Requests /\ ids \subseteq StoredRuns
      BY DEF Mappable, Listable, RunsOf, Committed, StoredRuns
    <3>2. tile[p] \in Newest(ids, n) /\ row[p] \in Orders(tile[p])
      BY <2>1 DEF Ranked
    <3>3. n \in Int
      BY LimitType
    <3> HIDE DEF ids, n
    <3>4. (\A k \in DOMAIN row[p] : row[p][k] \in ids) /\ ~Missed(ids, row[p], n)
      BY <3>1, <3>2, <3>3, PageIsFair
    <3>5. ~Missed(Committed(kind) \cap ids, row[p], n)
      BY <3>4, MissedOfPart
    <3> QED
      BY <3>1, <3>4, <3>5 DEF ids
  <2>3. NamesStored(answer) /\ MissesNothing(what, answer, Committed(kind))
    BY <2>2 DEF NamesStored, MissesNothing
  <2> QED
    BY <1>2, <2>1, <2>3
<1>4. CASE ~ValidFilter(kind, [q EXCEPT !.environment = None])
  <2>1. ReadAnswer(rd, [code |-> "INVALID_ARGUMENT"])
    BY <1>4 DEF ReadHeatmap
  <2> QED
    BY <1>2, <2>1, OtherAnswer
<1> QED
  BY <1>3, <1>4

\* A later statement leaves the question alone.
LEMMA LaterApart ==
  ASSUME SeekInv, NEW rd \in Readers, UNCHANGED <<tables, pc, locals, query, before>>,
         \/ \E answer : ReadAnswer(rd, answer)
         \/ \E stage : rpc' = [rpc EXCEPT ![rd] = stage] /\ UNCHANGED ranswer
  PROVE  ReadsApart(rd) /\ before[rd] \in SUBSET StoredRuns
<1>1. /\ DOMAIN query = Readers /\ DOMAIN before = Readers /\ DOMAIN ranswer = Readers
      /\ DOMAIN rpc = Readers /\ SearchInv(rd)
  BY DEF SeekInv, RunsInv, TypeOK
<1>2. \A other \in Readers \ {rd} :
         rpc'[other] = rpc[other] /\ ranswer'[other] = ranswer[other]
  BY <1>1 DEF ReadAnswer
<1> QED
  BY <1>1, <1>2 DEF ReadsApart, SearchInv

LEMMA ReadRunStep ==
  ASSUME SeekInv, RunsInv', NEW rd \in Readers, ReadRun(rd)
  PROVE  SeekInv'
<1>1. /\ UNCHANGED <<tables, pc, locals, query, before>> /\ rpc[rd] = "get_run"
      /\ SearchInv(rd)
  BY DEF ReadRun, SeekInv
<1>2. CASE /\ RunsOf(query[rd].kind, query[rd].projectId) = {}
           /\ ReadAnswer(rd, [code |-> "NOT_FOUND"])
  <2>1. ReadsApart(rd) /\ before[rd] \in SUBSET StoredRuns
    BY <1>1, <1>2, LaterApart
  <2>2. query[rd].about = "latest" /\ before[rd] \subseteq Committed(query[rd].kind)
    BY <1>1 DEF SearchInv
  <2>3. \A c \in before[rd] : runs[c].projectId # query[rd].projectId
    BY <1>2, <2>2 DEF RunsOf
  <2>4. /\ NamesStored([code |-> "NOT_FOUND"])
        /\ MissesNothing(query[rd], [code |-> "NOT_FOUND"], before[rd])
    BY <2>2, <2>3 DEF NamesStored, MissesNothing
  <2> QED
    BY <1>1, <1>2, <2>1, <2>4, Answered
<1>3. CASE rpc' = [rpc EXCEPT ![rd] = "get_baseline"] /\ UNCHANGED ranswer
  <2>1. ReadsApart(rd) /\ before[rd] \in SUBSET StoredRuns
    BY <1>1, <1>3, LaterApart
  <2>2. rpc'[rd] = "get_baseline" /\ ranswer[rd] = None
    BY <1>1, <1>3 DEF SeekInv, RunsInv, TypeOK, SearchInv, ReadStages
  <2>3. SearchInv(rd)'
    BY <1>1, <1>3, <2>1, <2>2 DEF SearchInv, StoredRuns, tables
  <2> QED
    BY <2>1, <2>3, OneSearch
<1> QED
  BY <1>2, <1>3 DEF ReadRun

LEMMA ReadBaselineStep ==
  ASSUME SeekInv, RunsInv', NEW rd \in Readers, ReadBaseline(rd)
  PROVE  SeekInv'
<1>1. UNCHANGED <<tables, pc, locals, query, before>>
  BY DEF ReadBaseline
<1>2. PICK answer : answer.code = "OK" /\ ReadAnswer(rd, answer)
  <2>1. \E c : ReadAnswer(rd, ReadOutput(rrun[rd], IF c = rrun[rd] THEN None ELSE c))
    BY DEF ReadBaseline
  <2>2. \A c, base : ReadOutput(c, base).code = "OK"
    BY DEF ReadOutput
  <2> QED
    BY <2>1, <2>2
<1>3. ReadsApart(rd) /\ before[rd] \in SUBSET StoredRuns
  BY <1>1, <1>2, LaterApart
<1> QED
  BY <1>1, <1>2, <1>3, OtherAnswer, Answered

LEMMA ReadFailsStep ==
  ASSUME SeekInv, RunsInv', NEW rd \in Readers, ReadFails(rd)
  PROVE  SeekInv'
<1>1. /\ UNCHANGED <<tables, pc, locals, query, before>>
      /\ ReadAnswer(rd, [code |-> "INTERNAL"])
  BY DEF ReadFails
<1>2. ReadsApart(rd) /\ before[rd] \in SUBSET StoredRuns
  BY <1>1, LaterApart
<1> QED
  BY <1>1, <1>2, OtherAnswer, Answered

\* COUNT and LIST are two statements: a run committed between them is in neither
\* or in the second, but what was seen before the first is in both.
LEMMA ListRunsStep ==
  ASSUME SeekInv, RunsInv', NEW rd \in Readers, ListRuns(rd)
  PROVE  SeekInv'
<1> PICK ask, seen : ask = query[rd] /\ seen = before[rd]
  OBVIOUS
<1> DEFINE ids == Listable(ask.kind, ask.projectId, ask.question)
           n == EffectiveLimit(ask.question.limit, 20, 100)
<1>1. /\ UNCHANGED <<tables, pc, locals, query, before>> /\ rpc[rd] = "list_runs"
      /\ SearchInv(rd)
  BY DEF ListRuns, SeekInv
<1>2. /\ seen \in SUBSET StoredRuns /\ ask.about = "list" /\ ask.question \in Questions
      /\ ask.total >= Cardinality(seen \cap ids)
  BY <1>1 DEF SearchInv
<1> PICK page \in Newest(ids, n) : \E items \in Orders(page) :
         ReadAnswer(rd, [code |-> "LIST", items |-> items, total |-> ask.total])
  BY DEF ListRuns
<1>3. PICK items \in Orders(page) :
         ReadAnswer(rd, [code |-> "LIST", items |-> items, total |-> ask.total])
  OBVIOUS
<1> PICK answer : answer = [code |-> "LIST", items |-> items, total |-> ask.total]
  OBVIOUS
<1>4. /\ \A k \in DOMAIN items : items[k] \in StoredRuns
      /\ ~Missed(seen \cap ids, items, n)
  <2>1. ids \in SUBSET Requests /\ ids \subseteq StoredRuns
    BY DEF Listable, RunsOf, Committed, StoredRuns
  <2>2. n \in Int
    BY <1>2, LimitType
  <2> HIDE DEF ids, n
  <2>3. (\A k \in DOMAIN items : items[k] \in ids) /\ ~Missed(ids, items, n)
    BY <1>3, <2>1, <2>2, PageIsFair
  <2>4. ~Missed(seen \cap ids, items, n)
    BY <2>3, MissedOfPart
  <2> QED
    BY <2>1, <2>3, <2>4
<1>5. NamesStored(answer) /\ MissesNothing(ask, answer, seen)
  BY <1>2, <1>4 DEF NamesStored, MissesNothing
<1>6. ReadsApart(rd) /\ before[rd] \in SUBSET StoredRuns
  BY <1>1, <1>3, LaterApart
<1> QED
  BY <1>1, <1>2, <1>3, <1>5, <1>6, Answered

-----------------------------------------------------------------------------
(* The invariant, and what it gives. *)

LEMMA InitSeek == Init => SeekInv
<1> SUFFICES ASSUME Init PROVE SeekInv
  OBVIOUS
<1>1. OwnersExist
  BY DEF Init, OwnersExist
<1>2. \A rd \in Readers : SearchInv(rd)
  BY DEF Init, SearchInv
<1> QED
  BY <1>1, <1>2, InitRuns DEF Init, SeekInv

LEMMA SeekStep ==
  ASSUME SeekInv, [Next]_vars
  PROVE  SeekInv'
<1>1. RunsInv /\ RunsInv'
  BY RunsStep DEF SeekInv
<1>2. ASSUME NEW r \in Requests,
             (\E in \in Inputs : Receive(r, in)) \/ Step(r) \/ StatementFails(r)
      PROVE  SeekInv'
  <2>1. RowsKept /\ UNCHANGED reads
    BY <1>1, <1>2, SubmissionWrites, WritesKeepRows
  <2>2. OwnersExist'
    BY <1>1, <1>2, OwnersStay DEF SeekInv
  <2>3. \A rd \in Readers : SearchInv(rd)'
    BY <2>1, SearchStays DEF SeekInv, reads
  <2> QED
    BY <1>1, <2>1, <2>2, <2>3 DEF SeekInv, reads
<1>3. ASSUME NEW rd \in Readers, Ask(rd) PROVE SeekInv'
  BY <1>1, <1>3, ReceiveReadStep, ReadByIDStep, CountRunsStep, ReadHeatmapStep DEF Ask
<1>4. ASSUME NEW rd \in Readers, ReadStep(rd) PROVE SeekInv'
  BY <1>1, <1>4, ReadRunStep, ReadBaselineStep, ListRunsStep, ReadFailsStep DEF ReadStep
<1>5. ASSUME Crash PROVE SeekInv'
  <2>1. UNCHANGED <<tables, locals, query, ranswer, before>>
    BY <1>5 DEF Crash
  <2>2. RowsKept
    BY <2>1 DEF RowsKept, StoredRuns, tables
  <2>3. \A rd \in Readers : rpc'[rd] \in {rpc[rd], "lost"}
    BY <1>5 DEF Crash
  <2>4. \A rd \in Readers : SearchInv(rd)'
    BY <2>1, <2>2, <2>3, SearchStays DEF SeekInv
  <2>5. OwnersExist'
    <3>1. \A c \in Requests : pc'[c] \in {pc[c], "lost"}
      BY <1>5 DEF Crash
    <3> QED
      BY <2>1, <3>1 DEF SeekInv, OwnersExist, tables, locals
  <2> QED
    BY <1>1, <2>1, <2>4, <2>5 DEF SeekInv
<1>6. ASSUME UNCHANGED vars PROVE SeekInv'
  <2>1. RowsKept /\ OwnersExist'
    BY <1>6 DEF SeekInv, OwnersExist, RowsKept, StoredRuns, vars, tables, locals
  <2>2. \A rd \in Readers : SearchInv(rd)'
    BY <1>6, <2>1, SearchStays DEF SeekInv, vars, reads
  <2> QED
    BY <1>1, <1>6, <2>1, <2>2 DEF SeekInv, vars, reads
<1> QED
  BY <1>2, <1>3, <1>4, <1>5, <1>6 DEF Next, Terminating

LEMMA SeekInvariant == Spec => []SeekInv
  BY InitSeek, SeekStep, PTL DEF Spec

\* No read misses a run that was committed when it began, unless the limit is taken
\* by others that are not older.
THEOREM NothingIsMissed == Spec => []ReadsMissNothing
<1>1. SeekInv => ReadsMissNothing
  BY DEF SeekInv, SearchInv, ReadsMissNothing
<1> QED
  BY <1>1, SeekInvariant, PTL
=============================================================================
