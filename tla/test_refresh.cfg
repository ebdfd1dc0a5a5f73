SPECIFICATION FairSpec
CONSTANTS
    None = None
    p1 = p1
    p2 = p2
    main = main
    dev = dev
    Tasks = {t1, t2}
    Projects = {p1}
    Branches = {main}
    Runs = {1, 2}
    Statuses = {None}
    Intervals = {"off", "60s"}
    PageSize = 2
    Arriving = {2}
    BranchesOf <- OnlyBranch
    DefaultBranch <- OnlyDefault
    RunInfo <- BothPass
    Catalogs <- NoneOrOne
    Matches <- NoneOrOne
    Failing = TRUE
INVARIANTS
    RefreshesNeverOverlap
    AutoRefreshStaysArmed
PROPERTIES
    RefreshKeepsRun
    RefreshEnds
