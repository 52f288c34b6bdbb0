\* Two reconnecting goroutines, one that closes and one that queries, while the
\* server comes and goes.
SPECIFICATION FairSpec
CONSTANTS
    Reconnecters = {r1, r2}
    Closers = {k1}
    Queries = {q1}
    Handles = {h1, h2, h3}
    NoHandle = none
INVARIANTS
    TypeOK
    NothingLeaks
PROPERTIES
    NilMeansOpen
    Recovers
CHECK_DEADLOCK FALSE
