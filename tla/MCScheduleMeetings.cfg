CONSTANTS
    MAX = 3
    Ids <- MCIds
    Requests <- MCRequests
    Problems = {}
    Limits <- MCLimits
    NoLimit = NoLimit
    MaxDropped = 0
    Parallel = FALSE
    UsizeMax = 40
SPECIFICATION RequestSpec
INVARIANTS
    TimetableSound
    EveryMeetingAccountedFor
    PigeonholeExact
    RefusalSound
CHECK_DEADLOCK FALSE
