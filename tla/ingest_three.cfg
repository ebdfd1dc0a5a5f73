SPECIFICATION Spec
CONSTANTS
    None = None
    Requests = {r1, r2, r3}
    k1 = k1
    k2 = k2
    main = main
    dev = dev
    pa = pa
    pb = pb
    Keys = {k1, k2}
    Branches = {main, dev}
    MainBranch = main
    Paths = {pa, pb}
    Times = {1, 2}
    Inputs <- OrderInputs
    Faulty = TRUE
SYMMETRY Symmetry
INVARIANTS
    BaselineIsFresh
