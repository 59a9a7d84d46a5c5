SPECIFICATION FairSpec
CONSTANTS
    NOBODY = NOBODY
    first = first
    retry = retry
    third = third
    Request = {first, retry, third}
    Question <- MCQuestion
    Asking <- MCAsking
    Retention = 2
    Timeout = 1
    WorkBudget = 1
    MaxClock = 3
    MaxFaults = 1
INVARIANTS
    OnePerRetention
    TrueReplay
PROPERTIES
    SuccessIsKept
    EveryoneAnswered
CHECK_DEADLOCK FALSE
