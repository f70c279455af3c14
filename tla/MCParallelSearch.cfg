CONSTANTS
    Threads = {t1, t2}
    Caller = t1
    Ids <- MCIds
    Problems <- MCProblems
    Budgets <- MCBudgets
    NoLimit = NoLimit
    MaxShuffles = 2
    MaxCost = 2
SPECIFICATION FairSpec
INVARIANTS
    UnwrapSafe
    AnswerSound
    StopHasReason
PROPERTIES
    Returns
    DecisionReachesCaller
CHECK_DEADLOCK FALSE
