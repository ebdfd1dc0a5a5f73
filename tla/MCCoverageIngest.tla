-------------------------- MODULE MCCoverageIngest --------------------------
(***************************************************************************)
(* Bounded instances of CoverageIngest.                                    *)
(***************************************************************************)
EXTENDS CoverageIngest, TLC

CONSTANTS k1, k2, main, dev, pa, pb

Pkg(path, percent) == [importPath |-> path, coveragePercent |-> percent]

Body(key, branch, threshold, time, total, pkgs) ==
    [projectKey |-> key, defaultBranch |-> None, thresholdPercent |-> threshold,
     branch |-> branch, commitSha |-> "sha", triggerType |-> "push",
     runTimestamp |-> time, totalCoveragePercent |-> total, packages |-> pkgs]

Two == {Pkg(pa, 79996), Pkg(pb, 50000)}

\* Reports of one key that disagree about its default branch, with and without
\* a threshold, complete and partial, in any order of their timestamps; one for
\* another key; one with a duplicate path; one without a branch.
MixedInputs ==
    { Body(k1, main, None, 1, 79996, Two),
      Body(k1, main, 70004, 2, 80000, {Pkg(pa, 80000)}),
      [Body(k1, dev, 90000, 1, 60000, {Pkg(pa, 60000)}) EXCEPT !.defaultBranch = dev],
      Body(k2, main, None, 1, 50000, {Pkg(pb, 50000)}),
      Body(k1, main, None, 1, 50000, {Pkg(pa, 1), Pkg(pa, 2)}),
      Body(k2, None, None, 1, 50000, {Pkg(pb, 50000)}) }

\* Three submissions on the default branch or beside it, equal or different
\* in their timestamps.
OrderInputs ==
    { Body(k1, main, None, 1, 79996, {Pkg(pa, 79996)}),
      Body(k1, main, None, 2, 80000, {Pkg(pa, 80000)}),
      [Body(k1, dev, None, 2, 60000, {Pkg(pa, 60000)}) EXCEPT !.defaultBranch = dev] }

Symmetry == Permutations(Requests)
=============================================================================
