SPECIFICATION FairSpec
CONSTANTS
    NONE = NONE
    e1 = e1
    e2 = e2
    e3 = e3
    gymA = gymA
    gymB = gymB
    w1 = w1
    w2 = w2
    Event = {e1, e3}
    Tenant = {gymA, gymB}
    TenantOf <- MCTenantOf
    Worker = {w1, w2}
    BatchSize = 1
    MaxAttempts = 2
    Lease = 1
    MaxBackoff = 2
    Retention = 0
    Delay = {0}
    HandlerBudget = 1
    MaxFaults = 1
PROPERTY EventsSettle
