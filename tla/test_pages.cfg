SPECIFICATION Spec
CONSTANTS
    None = None
    p1 = p1
    p2 = p2
    main = main
    dev = dev
    Tasks = {t1, t2}
    Projects = {p1, p2}
    Branches = {main, dev}
    Runs = {1, 2}
    Statuses = {None, "failed"}
    Intervals = {"off"}
    PageSize = 1
    Arriving = {}
    BranchesOf <- BranchLists
    DefaultBranch <- Defaults
    RunInfo <- Infos
    Catalogs <- BothListed
    Matches <- BothListed
    Failing = TRUE
SYMMETRY EitherTask
INVARIANTS
    RowsFollowSelection
    PanelsFollowSelection
