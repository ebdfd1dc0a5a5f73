SPECIFICATION FairSpec
CONSTANTS
    None = None
    Requests = {r1, r2}
    PoolSize = 1
    RequestTimeout = 6
    WriteTimeout = 3
    ShutdownTimeout = 2
    ProxyTimeout = 4
    FrontWriteTimeout = 3
    Migrations = 1
    MaxStarts = 2
    Faulty = TRUE
INVARIANTS
    HandlersHaveTheirDatabase
    CommittedIsTold
    BadGatewayMeansGone
    ExitIsBounded
PROPERTIES
    ShutdownEnds
