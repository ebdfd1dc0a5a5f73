SPECIFICATION Spec
CONSTANTS
    None = None
    a = a
    b = b
    SpecPaths = {a, b}
    Invocations <- PlaywrightCalls
    MaxAttempts = 2
INVARIANTS
    PlaywrightReportsAccepted
