SPECIFICATION ReadSpec
CONSTANTS
    None = None
    r1 = r1
    r2 = r2
    Requests = {r1, r2}
    k1 = k1
    main = main
    dev = dev
    pa = pa
    pb = pb
    Keys = {k1}
    Branches = {main, dev}
    MainBranch = main
    Paths = {pa, pb}
    Times = {1, 2}
    Inputs <- ReadInputs
    Faulty = TRUE
    Readers = {q1}
    ProjectIds = {r1, r2}
    AskedBranches = {None, dev}
    PageSizes = {1}
    MCPMaxPageSize = 1
SYMMETRY Symmetry
INVARIANTS
    ReadsWholeRuns
    ReadIsFresh
    WalkIsExact
    BaselineOfDefaultBranchIsRace
    VerdictsMoveWithReason
