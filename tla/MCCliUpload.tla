----------------------------- MODULE MCCliUpload -----------------------------
(***************************************************************************)
(* Bounded instances of CliUpload.                                         *)
(***************************************************************************)
EXTENDS CliUpload

CONSTANTS a, b

Call(command, report) ==
    [command |-> command, report |-> report, key |-> TRUE, upload |-> TRUE,
     environment |-> None, triggerType |-> "push", threshold |-> 0]

PlaywrightTests ==
    [projectId: {"happypath", "negativePath", "chromium"},
     status: {"expected", "unexpected", "flaky", "skipped"}, error: BOOLEAN]
Test(projectId, status, error) ==
    [projectId |-> projectId, status |-> status, error |-> error]
PlaywrightSpecs ==
    [path: {a}, file: {"setup", "negativePath", "other"},
     tests: {<< >>} \cup {<<test>> : test \in PlaywrightTests}
            \cup {<<Test("chromium", "expected", FALSE), Test("firefox", "unexpected", TRUE)>>}]
PlaywrightReports ==
    {[format |-> "playwright.json", specs |-> <<spec>>] : spec \in PlaywrightSpecs}
    \cup {[format |-> "playwright.json", specs |->
             << [path |-> a, file |-> "other", tests |-> <<Test("setup", first, TRUE)>>],
                [path |-> b, file |-> "other", tests |-> <<Test("chromium", second, FALSE)>>] >>]
          : first \in {"expected", "unexpected"}, second \in {"expected", "skipped"}}

AppiumCases ==
    [path: {a}, failure: {None, "message", "no message"}, skipped: BOOLEAN,
     status: {"", "passed", "failed", "blocked"}, class: {"happyPath", "setup"}]
AppiumReports ==
    {[format |-> "appium.xml", specs |-> <<case>>, platform |-> "ios",
      named |-> TRUE, automation |-> TRUE] : case \in AppiumCases}
    \cup {[format |-> "appium.xml", specs |->
             << [path |-> a, failure |-> None, skipped |-> FALSE, status |-> "",
                 class |-> "happyPath"] >>,
           platform |-> platform, named |-> named, automation |-> automation]
          : platform \in {None, "ios", "desktop"}, named \in BOOLEAN, automation \in BOOLEAN}

GinkgoReports ==
    {[format |-> "ginkgo.json", specs |->
        << [path |-> a, state |-> state, failure |-> failure],
           [path |-> b, state |-> "passed", failure |-> None] >>]
     : state \in ReportedStates, failure \in {None, "message", "located"}}

\* Two functions of one package, one of another, of which the first two have no
\* mean in hundredths.
Profiles ==
    {[total |-> 66700, functions |-> functions] : functions \in
        { << >>,
          << [dir |-> a, percent |-> 100000] >>,
          << [dir |-> a, percent |-> 33300], [dir |-> a, percent |-> 66600],
             [dir |-> a, percent |-> 100], [dir |-> b, percent |-> 0] >> }}
File(path, covered, total, excluded) ==
    [path |-> path, dir |-> a, covered |-> covered, total |-> total, excluded |-> excluded]
Summaries ==
    [total: {50000, 100000, 120000}, groupBy: {"dir", "file"}, files:
        { {File(a, 1, 3, FALSE), File(b, 4, 4, FALSE)},
          {File(a, 0, 0, FALSE), File(b, 2, 3, FALSE)},
          {File(a, 0, 0, FALSE), File(b, 2, 3, TRUE)},
          {File(a, 5, 3, FALSE)} }]

Calls ==
    {Call("e2e", report) : report \in PlaywrightReports \cup AppiumReports}
    \cup {Call("integration", report) : report \in GinkgoReports}
    \cup {Call("coverage", report) : report \in Profiles}
    \cup {Call("npm", report) : report \in Summaries}

\* The same, with the flags that change what a command does.
AllCalls ==
    Calls
    \cup {[in EXCEPT !.key = FALSE] : in \in Calls}
    \cup {[in EXCEPT !.environment = "qa"] :
             in \in {c \in Calls : c.command \in Kinds}}
    \cup {[in EXCEPT !.upload = FALSE] :
             in \in {c \in Calls : c.command \notin Kinds}}
    \cup {[in EXCEPT !.triggerType = "cron"] : in \in Calls}
    \cup {[in EXCEPT !.threshold = 120000] :
             in \in {c \in Calls : c.command \notin Kinds}}

PlaywrightCalls == {Call("e2e", report) : report \in PlaywrightReports}
=============================================================================
