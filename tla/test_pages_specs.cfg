SPECIFICATION Spec
CONSTANTS
    None = None
    p1 = p1
    p2 = p2
    main = main
    dev = dev
    Tasks = {t1, t2}
    Projects = {p1}
    Branches = {main}
    Runs = {1, 2}
    Statuses = {None}
    Intervals = {"off"}
    PageSize = 2
    Arriving = {}
    BranchesOf <- OnlyBranch
    DefaultBranch <- OnlyDefault
    RunInfo <- BothFail
    Catalogs <- OneListed
    Matches <- OneListed
    Failing = FALSE
INVARIANTS
    SpecsFollowRun
