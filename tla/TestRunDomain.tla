---------------------------- MODULE TestRunDomain ----------------------------
(***************************************************************************)
(* The domain rules of integration (Ginkgo) and end-to-end test runs:      *)
(* accepted and normalized spec states, counts, status, pass rate and the  *)
(* comparison of failed specs.  Pure operators, no state.                  *)
(*                                                                         *)
(* A report is a sequence of specs, in which a path may occur twice.  A    *)
(* state is its lower-case, trimmed word.                                  *)
(***************************************************************************)
EXTENDS CoverageDomain, Sequences, FiniteSets

CONSTANT SpecPaths      \* full names of specs, containers included

Kinds == {"integration", "e2e"}
ReportedStates == {"passed", "failed", "skipped", "pending", "panicked",
                   "interrupted", "timedout", "flaked", "flaky"}
States == {"passed", "failed", "skipped", "pending", "flaky"}
SpecTypes == {"", "happyPath", "negativePath", "setup"}

\* One spec of a report: message and file of the failure are there or not.
\* padded: the spec type has blanks around it, which the code trims to validate
\* but not to store.
SpecReport == [specPath: SpecPaths, state: ReportedStates, message: BOOLEAN,
               file: BOOLEAN, specType: SpecTypes \cup {"other"}, padded: BOOLEAN]
SpecResult == [specPath: SpecPaths, state: States,
               specType: SpecTypes \cup {"other"}, padded: BOOLEAN]

\* normalizeGinkgoState and normalizeTestState
normalizeState(state) ==
    CASE state \in {"passed", "pending", "skipped"} -> state
      [] state = "flaked"                           -> "flaky"
      [] OTHER                                      -> "failed"

\* isAcceptedGinkgoState and isAcceptedTestState
isAcceptedState(kind, state) ==
    /\ state \in {"passed", "failed", "skipped", "pending", "interrupted",
                  "timedout", "flaked", "panicked"}
    /\ state = "panicked" => kind = "integration"

\* What each kind asks of a spec: a failed spec has a message, and in an
\* integration report a location with a file name; an end-to-end spec has a
\* known type.
ValidSpec(kind, spec) ==
    /\ isAcceptedState(kind, spec.state)
    /\ normalizeState(spec.state) = "failed" =>
          spec.message /\ (kind = "integration" => spec.file)
    /\ kind = "e2e" => spec.specType \in SpecTypes

\* Validation of the report and its metadata, in that it looks at them.
ValidReport(in) ==
    /\ in.projectKey # None
    /\ in.branch # None
    /\ ValidateTriggerType(in.triggerType)
    /\ in.kind = "e2e" => in.platform # None
    /\ in.specs # << >>
    /\ \A i \in DOMAIN in.specs : ValidSpec(in.kind, in.specs[i])
    /\ in.runTimestamp # None

Results(specs) ==
    [i \in DOMAIN specs |->
        [specPath |-> specs[i].specPath, state |-> normalizeState(specs[i].state),
         specType |-> specs[i].specType, padded |-> specs[i].padded]]

CountOf(results, state) ==
    Cardinality({i \in DOMAIN results : results[i].state = state})
Some(specs, state) == \E i \in DOMAIN specs : specs[i].state = state

EvaluateRunStatus(failedSpecs, interrupted, timedOut) ==
    IF failedSpecs = 0 /\ ~interrupted /\ ~timedOut THEN "passed" ELSE "failed"

\* passed/total as a percentage, rounded half up to hundredths; 0 of nothing.
calculatePassRate(passed, total) ==
    IF total <= 0 THEN 0 ELSE (passed * 20000 + total) \div (2 * total)

\* Mutant: flaky specs are left out of the failed ones.
OnlyFailed(results) ==
    {results[i].specPath : i \in {j \in DOMAIN results : results[j].state = "failed"}}

\* The paths failedSpecsFromResults and ListFailedByRunID report.
FailedPaths(results) ==
    {results[i].specPath :
        i \in {j \in DOMAIN results : results[j].state \in {"failed", "flaky"}}}

\* Mutant: every failing path counts as new.
CountsAllAsNew(previous, current) ==
    [newFailures      |-> Cardinality(current),
     resolvedFailures |-> Cardinality(previous \ current)]

compareFailedSpecs(previous, current) ==
    [newFailures      |-> Cardinality(current \ previous),
     resolvedFailures |-> Cardinality(previous \ current)]

\* CHECK constraints and enum types of the tables that validation does not
\* repeat: environment of both kinds, platform and spec type of end-to-end.
SatisfiesChecks(in) ==
    /\ in.environment \in {None, "test", "stage", "prod"}
    /\ in.kind = "e2e" =>
          /\ in.platform \in {"web", "android", "ios"}
          /\ \A i \in DOMAIN in.specs : ~in.specs[i].padded
=============================================================================
