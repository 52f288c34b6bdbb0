SPECIFICATION FairSpec
CONSTANTS
    Rows <- TwoRows
    Requests <- FewRequests
    Clients = {c1}
    MaxTime = 1
    MaxSpan = 2
    Window = 1
    Retention = 1
    NanoGrain = 2
    SecondGrain = 3
    DriverGrain = 1
    DefaultPageSize = 2
    MaxPageSize = 2
    MetricsEnabled = TRUE
    MaxCalls = 3
INVARIANTS
    RowsRecorded
PROPERTIES
    RequestsAnswered
CHECK_DEADLOCK FALSE
