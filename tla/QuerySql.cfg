SPECIFICATION Spec
CONSTANTS
    Requests <- AllRequests
    Rows <- SomeRows
    Times <- EightTimes
    FloatTime <- Floats
    DriverTime <- DriverTimes
    Near <- NearTimes
    DefaultStart = "t2"
    DefaultEnd = "t5"
    Entries <- Patterns
    Matching <- Matches
    Liked <- Wildcards
    Unreadable <- BadRows
    Upper <- UpperCases
    Inside <- Operators
    Spelling <- Parts
    MaxFilterCount = 3
    MaxSearchTerms = 3
    MaxProximity = 4
    MaxDimensions = 2
    MaxFunctions = 2
    MaxQueryComplexity = 80
INVARIANTS
    TypeOK
    ArgumentsFit
    CountAgrees
    FiltersNeverWiden
    
    NothingMissed
CHECK_DEADLOCK FALSE
