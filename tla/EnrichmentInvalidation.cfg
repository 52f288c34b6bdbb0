\* One pod, one call and the informer: does the entry of a deleted pod stay away?
SPECIFICATION FairSpec
CONSTANTS
    Pods = {p1}
    Calls = {c1}
    NoUID = none
    Inputs <- OnePodInputs
    MaxVersion = 2
    StartVersion = 2
    MaxBreaks = 0
    EnableInformer = TRUE
PROPERTIES
    InvalidationComplete
CHECK_DEADLOCK FALSE
