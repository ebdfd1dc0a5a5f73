--------------------------- MODULE CoverageDomain ---------------------------
(***************************************************************************)
(* The domain rules of coverage: validation of a submitted report,         *)
(* rounding done by the NUMERIC(5,2) columns, comparison with a baseline   *)
(* and evaluation of the threshold.  Pure operators, no state.             *)
(*                                                                         *)
(* A percentage is an integer number of thousandths of a percent, so that  *)
(* a value the columns cannot hold exactly (79.996) can be told from the   *)
(* value they store (80.00).                                               *)
(***************************************************************************)
EXTENDS Integers

CONSTANT None       \* nil pointer, SQL NULL, blank string: "no value"

Hundred == 100000
Cent == 10
DefaultThresholdPercent == 80 * 1000

\* The value read back from a NUMERIC(5,2) column: rounded half up to cents.
Stored(percent) == ((percent + Cent \div 2) \div Cent) * Cent

StoredPackages(pkgs) ==
    {[p EXCEPT !.coveragePercent = Stored(p.coveragePercent)] : p \in pkgs}

ValidateCoveragePercent(percent) == percent >= 0 /\ percent <= Hundred

ValidateTriggerType(trigger) == trigger \in {"push", "pr", "manual"}

UniqueImportPaths(pkgs) ==
    \A p, q \in pkgs : p.importPath = q.importPath => p = q

\* validateIngestInput and the RFC 3339 parse that follows it.  A string that
\* is blank, and a timestamp that does not parse, is None.
ValidInput(in) ==
    /\ in.projectKey # None
    /\ in.branch # None
    /\ in.commitSha # None
    /\ ValidateTriggerType(in.triggerType)
    /\ ValidateCoveragePercent(in.totalCoveragePercent)
    /\ in.thresholdPercent # None => ValidateCoveragePercent(in.thresholdPercent)
    /\ in.packages # {}
    /\ \A p \in in.packages :
          p.importPath # None /\ ValidateCoveragePercent(p.coveragePercent)
    /\ UniqueImportPaths(in.packages)
    /\ in.runTimestamp # None

Directions == {"up", "down", "equal", "new"}

\* ComparisonResponse and PackageComparisonResponse.
Comparison ==
    [previousTotalCoveragePercent: Int \cup {None},
     currentTotalCoveragePercent: Int, deltaPercent: Int \cup {None},
     direction: Directions, thresholdPercent: Int,
     thresholdStatus: {"passed", "failed"}]
PackageComparison(paths) ==
    [importPath: paths, previousCoveragePercent: Int \cup {None},
     currentCoveragePercent: Int, direction: Directions]

Direction(current, previous) ==
    IF previous = None THEN "new"
    ELSE CASE current > previous -> "up"
           [] current < previous -> "down"
           [] OTHER              -> "equal"

CompareCoverage(current, previous) ==
    [deltaPercent |-> IF previous = None THEN None ELSE current - previous,
     direction    |-> Direction(current, previous)]

EvaluateThreshold(current, threshold) ==
    IF current >= threshold THEN "passed" ELSE "failed"

buildComparison(current, previous, threshold) ==
    LET compared == CompareCoverage(current, previous)
    IN  [previousTotalCoveragePercent |-> previous,
         currentTotalCoveragePercent  |-> current,
         deltaPercent                 |-> compared.deltaPercent,
         direction                    |-> compared.direction,
         thresholdPercent             |-> threshold,
         thresholdStatus              |-> EvaluateThreshold(current, threshold)]

\* One comparison per current package; a path the baseline lacks has no
\* previous value.  Paths only the baseline has are not reported.
buildPackageComparisons(current, previous) ==
    { LET same == {q \in previous : q.importPath = p.importPath}
          prev == IF same = {} THEN None
                  ELSE (CHOOSE q \in same : TRUE).coveragePercent
      IN  [importPath              |-> p.importPath,
           previousCoveragePercent |-> prev,
           currentCoveragePercent  |-> p.coveragePercent,
           direction               |-> Direction(p.coveragePercent, prev)]
      : p \in current }

\* ORDER BY run_timestamp DESC, created_at DESC: a precedes b.
Newer(a, b) ==
    \/ a.runTimestamp > b.runTimestamp
    \/ a.runTimestamp = b.runTimestamp /\ a.createdAt > b.createdAt
=============================================================================
