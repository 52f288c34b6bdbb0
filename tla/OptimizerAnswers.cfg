\* One call of two pods, each in a goroutine of its own.
SPECIFICATION Spec
CONSTANTS
    Pods = {p1, p2}
    NoUID = none
    Calls = {c1}
    Inputs <- TwoPods
    Configs <- ParallelConfigs
    MaxLength = 2
    MaxUpdates = 0
INVARIANTS
    ParallelAnswers
CHECK_DEADLOCK FALSE
