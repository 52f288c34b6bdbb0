\* A warmup of two connections, with a deadline or without, in pools of two and of
\* one, a close and a restart of the health check, while the server comes and goes.
SPECIFICATION FairSpec
CONSTANTS
    Updaters = {u1}
    NoUpdater = nobody
    Closers = {k1}
    Warmers = {w1}
    Configs <- SmallConfigs
    WarmupSizes = {2}
INVARIANTS
    TypeOK
    OneChecker
    CloseOrderly
    PoolSizesOrdered
PROPERTIES
    HealthFollows
    WarmupsReturn
    CancelledChecksEnd
CHECK_DEADLOCK FALSE
