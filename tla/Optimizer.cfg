\* Two calls while the configuration is replaced once.
SPECIFICATION FairSpec
CONSTANTS
    Pods = {p1, p2}
    NoUID = none
    Calls = {c1, c2}
    Inputs <- MixedInputs
    Configs <- MixedConfigs
    MaxLength = 3
    MaxUpdates = 1
INVARIANTS
    TypeOK
    TokensConserved
    LimitHeld
    AnswersComplete
PROPERTIES
    ReturnsUnlessCrossed
CHECK_DEADLOCK FALSE
