\* One call of two pods while the limit is replaced.
SPECIFICATION FairSpec
CONSTANTS
    Pods = {p1, p2}
    NoUID = none
    Calls = {c1}
    Inputs <- TwoPods
    Configs <- ParallelConfigs
    MaxLength = 2
    MaxUpdates = 1
PROPERTIES
    OptimizerReturns
CHECK_DEADLOCK FALSE
