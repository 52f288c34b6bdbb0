\* Two pods and two calls without the informer: the loops of the calls among
\* each other and beside a changing cluster.
SPECIFICATION Spec
CONSTANTS
    Pods = {p1, p2}
    Calls = {c1, c2}
    NoUID = none
    Inputs <- TwoPodInputs
    MaxVersion = 2
    StartVersion = 3
    MaxBreaks = 1
    EnableInformer = FALSE
INVARIANTS
    TypeOK
    ResultAccounted
    FailuresCounted
    AnswersJustified
PROPERTIES
    KeepsPromise
SYMMETRY CallSymmetry
CHECK_DEADLOCK FALSE
