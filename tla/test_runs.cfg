SPECIFICATION Spec
CONSTANTS
    None = None
    r1 = r1
    r2 = r2
    Requests = {r1, r2}
    Readers = {q1}
    k1 = k1
    k2 = k2
    main = main
    dev = dev
    s1 = s1
    s2 = s2
    SpecPaths = {s1, s2}
    Keys = {k1, k2}
    Branches = {main, dev}
    MainBranch = main
    Times = {1, 2}
    Inputs <- MixedInputs
    Questions <- MixedQuestions
    Faulty = TRUE
SYMMETRY Symmetry
INVARIANTS
    OneProjectPerKey
    SummaryTellsSpecs
    FailuresBalance
    ReadAgreesWithAnswer
    ReadsMissNothing
    RefusedLeavesNoRun
