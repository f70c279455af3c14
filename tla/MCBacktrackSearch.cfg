CONSTANTS
    Ids <- MCIds
    Problems <- MCProblems
    Limits <- MCLimits
    NoLimit = NoLimit
    MaxDropped = 1
    Parallel = TRUE
    UsizeMax = 30
SPECIFICATION FairSpec
INVARIANTS
    TreeMatchesStack
    NoPlacementPassedBy
    FirstFit
PROPERTIES
    ImplementsContract
    Terminates
CHECK_DEADLOCK FALSE
