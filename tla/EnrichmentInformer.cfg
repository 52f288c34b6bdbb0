\* One pod, two calls and the informer: the three writers of one cache entry.
SPECIFICATION FairSpec
CONSTANTS
    Pods = {p1}
    Calls = {c1, c2}
    NoUID = none
    Inputs <- OnePodInputs
    MaxVersion = 2
    StartVersion = 2
    MaxBreaks = 1
    EnableInformer = TRUE
INVARIANTS
    InformerEntriesCurrent
PROPERTIES
    CallsReturn
    LiveEntriesHeal
    DeadEntriesExpire
CHECK_DEADLOCK FALSE
