SPECIFICATION Spec
CONSTANTS
    None = None
    a = a
    b = b
    SpecPaths = {a, b}
    Invocations <- AllCalls
    MaxAttempts = 2
INVARIANTS
    TypeOK
    VerdictSurvivesUpload
    ExitTellsOutcome
    RetryDuplicatesOnlySilentRuns
    ConvertedBodiesAreAccepted
