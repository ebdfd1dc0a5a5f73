--------------------------- MODULE CoverageHistory ---------------------------
(***************************************************************************)
(* What the coverage store promises its readers, however the requests that *)
(* fill it interleave and fail: a register with one project per key, and a *)
(* history that only grows.  A run enters the history in one step, with    *)
(* every package of the report that was submitted, under the project of    *)
(* the key it was submitted for; and nothing is acknowledged before it is  *)
(* there.                                                                  *)
(***************************************************************************)
EXTENDS CoverageDomain

CONSTANT Ids        \* of submissions, and of the projects and runs they make

VARIABLES
    submitted,      \* the reports sent in, by submission
    projects,       \* the register
    history,        \* [run, packages] of each recorded submission
    acked           \* the submissions answered with success

vars == <<submitted, projects, history, acked>>

\* Only position i of the function f changes, from None to something.
Enters(f, g, i) ==
    /\ f[i] = None
    /\ g[i] # None
    /\ g = [f EXCEPT ![i] = g[i]]

Init ==
    /\ submitted = [i \in Ids |-> None]
    /\ projects = [i \in Ids |-> None]
    /\ history = [i \in Ids |-> None]
    /\ acked = {}

Submit(i) ==
    /\ Enters(submitted, submitted', i)
    /\ UNCHANGED <<projects, history, acked>>

\* A valid submission registers a project for a key that has none.
Register(i) ==
    /\ submitted[i] # None
    /\ ValidInput(submitted[i])
    /\ \A j \in Ids : projects[j] # None =>
          projects[j].projectKey # submitted[i].projectKey
    /\ Enters(projects, projects', i)
    /\ projects'[i].projectKey = submitted[i].projectKey
    /\ UNCHANGED <<submitted, history, acked>>

\* Submission i moves the threshold of its own project, and nothing else.
SetThreshold(i, p) ==
    /\ projects[p] # None
    /\ submitted[i] # None
    /\ submitted[i].thresholdPercent # None
    /\ submitted[i].projectKey = projects[p].projectKey
    /\ projects' = [projects EXCEPT ![p] = [projects[p] EXCEPT
          !.globalThresholdPercent = Stored(submitted[i].thresholdPercent)]]
    /\ UNCHANGED <<submitted, history, acked>>

\* The run of a valid submission enters, whole and as submitted.
Record(i) ==
    /\ submitted[i] # None
    /\ ValidInput(submitted[i])
    /\ Enters(history, history', i)
    /\ LET run == history'[i].run
       IN  /\ projects[run.projectId] # None
           /\ projects[run.projectId].projectKey = submitted[i].projectKey
           /\ run.branch = submitted[i].branch
           /\ run.runTimestamp = submitted[i].runTimestamp
           /\ run.totalCoveragePercent = Stored(submitted[i].totalCoveragePercent)
    /\ history'[i].packages = StoredPackages(submitted[i].packages)
    /\ UNCHANGED <<submitted, projects, acked>>

Acknowledge(i) ==
    /\ history[i] # None
    /\ acked' = acked \cup {i}
    /\ UNCHANGED <<submitted, projects, history>>

Next ==
    \E i \in Ids :
        \/ Submit(i)
        \/ Register(i)
        \/ \E p \in Ids : SetThreshold(i, p)
        \/ Record(i)
        \/ Acknowledge(i)

Spec == Init /\ [][Next]_vars
=============================================================================
