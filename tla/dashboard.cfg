SPECIFICATION FairSpec
CONSTANTS
    None = None
    p1 = p1
    p2 = p2
    dev = dev
    Tasks = {t1, t2}
    Projects = {p1, p2}
    Branches = {dev}
    Intervals = {"off", "60s"}
    BranchesOf <- BranchLists
    Catalogs <- SomeCatalogs
    Matches <- SomeMatches
    Failing = TRUE
INVARIANTS
    TypeOK
    RefreshesNeverOverlap
    AutoRefreshStaysArmed
    PanelsFollowSelection
PROPERTIES
    SelectionSurvivesRefresh
    RefreshEnds
