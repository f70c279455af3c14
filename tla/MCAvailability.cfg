CONSTANTS
    MAX = 3
    DaySlots = 1
    Requests <- MCRequests
SPECIFICATION Spec
INVARIANTS
    YieldsFreeSlots
    EveryoneCanCome
    WindowsInOrder
    SlackCountsWindows
    EstimateErrsOneWay
CHECK_DEADLOCK FALSE
