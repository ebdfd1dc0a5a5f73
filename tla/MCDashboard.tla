----------------------------- MODULE MCDashboard -----------------------------
(***************************************************************************)
(* Bounded instances of Dashboard.                                         *)
(***************************************************************************)
EXTENDS Dashboard, TLC

CONSTANTS p1, p2, dev

\* A project exists before its first run, so it may have no branch.
BranchLists == (p1 :> {dev}) @@ (p2 :> {})
SomeCatalogs == {{}, {p1, p2}}
SomeMatches == {{p1, p2}, {p2}}
=============================================================================
