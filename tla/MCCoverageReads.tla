--------------------------- MODULE MCCoverageReads ---------------------------
(***************************************************************************)
(* Bounded instances of CoverageReads.                                     *)
(***************************************************************************)
EXTENDS CoverageReads, TLC

CONSTANTS r1, r2, k1, main, dev, pa, pb

Pkg(path, percent) == [importPath |-> path, coveragePercent |-> percent]

Body(branch, time, total, pkgs) ==
    [projectKey |-> k1, defaultBranch |-> None, thresholdPercent |-> None,
     branch |-> branch, commitSha |-> "sha", triggerType |-> "push",
     runTimestamp |-> time, totalCoveragePercent |-> total, packages |-> pkgs]

\* Reports of one project on its default branch and beside it, in any order of
\* their timestamps; 79.996 is below the threshold until it is stored, and the
\* run beside the default branch moves the threshold.
ReadInputs ==
    { Body(main, 1, 79996, {Pkg(pa, 79996), Pkg(pb, 50000)}),
      Body(main, 2, 85000, {Pkg(pa, 85000)}),
      [Body(dev, 1, 60000, {Pkg(pb, 60000)}) EXCEPT
          !.thresholdPercent = 59004] }

Symmetry == Permutations(Requests)
=============================================================================
