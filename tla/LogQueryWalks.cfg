SPECIFICATION Spec
CONSTANTS
    Rows <- FourRows
    Requests <- WalkRequests
    Clients = {c1}
    MaxTime = 3
    MaxSpan = 2
    Window = 1
    Retention = 2
    NanoGrain = 2
    SecondGrain = 3
    DriverGrain = 2
    DefaultPageSize = 2
    MaxPageSize = 2
    MetricsEnabled = FALSE
    MaxCalls = 0
INVARIANTS
    TypeOK
    RowsScoped
    RevalidationAgrees
    HasMoreHonest
    WalkMissesNothing
    WalkRepeatsNothing
