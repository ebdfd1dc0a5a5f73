----------------------------- MODULE MCTestRuns -----------------------------
(***************************************************************************)
(* Bounded instances of TestRuns.                                          *)
(***************************************************************************)
EXTENDS TestRuns, TLC

CONSTANTS r1, r2, k1, k2, main, dev, s1, s2

Sp(path, state) == [specPath |-> path, state |-> state, message |-> TRUE,
                    file |-> TRUE, specType |-> "", padded |-> FALSE]
Body(kind, branch, time, specReports) ==
    [kind |-> kind, projectKey |-> k1, defaultBranch |-> None, branch |-> branch,
     triggerType |-> "push", runTimestamp |-> time, environment |-> None,
     platform |-> "web", specs |-> specReports]

\* Integration runs that pass, flake, repeat a path or are interrupted, on and
\* off the default branch; end-to-end runs with a pending spec, on an unknown
\* platform, with blanks around a spec type and with a state only integration
\* knows; an end-to-end run of another project.
MixedInputs ==
    { Body("integration", main, 1, <<Sp(s1, "failed"), Sp(s1, "passed"), Sp(s2, "flaked")>>),
      Body("integration", main, 2, <<Sp(s1, "passed"), Sp(s2, "flaked")>>),
      Body("integration", dev, 2, <<Sp(s1, "flaked"), Sp(s2, "interrupted")>>),
      [Body("integration", dev, 1, <<Sp(s2, "panicked")>>) EXCEPT !.environment = "qa"],
      [Body("integration", main, 1, <<Sp(s2, "failed")>>) EXCEPT !.specs[1].file = FALSE],
      Body("e2e", main, 1, <<Sp(s1, "passed"), Sp(s2, "pending")>>),
      [Body("e2e", main, 2, <<Sp(s1, "passed")>>) EXCEPT !.platform = "desktop"],
      [Body("e2e", dev, 1, <<Sp(s1, "timedout")>>) EXCEPT !.specs[1].padded = TRUE],
      [Body("e2e", main, 2, <<Sp(s2, "flaked")>>) EXCEPT
          !.projectKey = k2, !.specs[1].specType = "setup", !.environment = "stage"],
      Body("e2e", main, 2, <<Sp(s1, "panicked")>>) }

\* Everything; the newest passed run; runs with a spec of a type; runs without an
\* environment off the default branch; a status nobody knows.
All == [branch |-> None, status |-> None, environment |-> None, specType |-> "", limit |-> 0]
MixedQuestions ==
    { [All EXCEPT !.limit = 1],
      [All EXCEPT !.status = "passed", !.limit = 1],
      [All EXCEPT !.specType = "setup"],
      [All EXCEPT !.branch = dev, !.environment = "none"],
      [All EXCEPT !.status = "other"] }

Symmetry == Permutations(Requests)
=============================================================================
