--------------------------- MODULE MCTestDashboard ---------------------------
(***************************************************************************)
(* Bounded instances of TestDashboard.                                     *)
(***************************************************************************)
EXTENDS TestDashboard, TLC

CONSTANTS p1, p2, main, dev

\* The second project has a branch the first one lacks.
BranchLists == (p1 :> {main}) @@ (p2 :> {main, dev})
Defaults == (p1 :> main) @@ (p2 :> dev)
Infos == (1 :> [project |-> p1, branch |-> main, status |-> "passed"])
    @@ (2 :> [project |-> p2, branch |-> dev, status |-> "failed"])
BothListed == {{p1, p2}}
EitherTask == Permutations(Tasks)

\* One project with two runs to choose from.
OnlyBranch == p1 :> {main}
OnlyDefault == p1 :> main
BothRuns(status) == [r \in {1, 2} |-> [project |-> p1, branch |-> main, status |-> status]]
BothPass == BothRuns("passed")
BothFail == BothRuns("failed")
NoneOrOne == {{}, {p1}}
OneListed == {{p1}}
=============================================================================
