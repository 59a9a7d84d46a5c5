SPECIFICATION Spec
CONSTANTS
    NONE = NONE
    e1 = e1
    e2 = e2
    e3 = e3
    gymA = gymA
    gymB = gymB
    w1 = w1
    w2 = w2
    Event = {e1, e2}
    Tenant = {gymA}
    TenantOf <- MCTenantOf
    Worker = {w1, w2}
    BatchSize = 2
    MaxAttempts = 2
    Lease = 2
    MaxBackoff = 3
    Retention = 0
    Delay = {0, 1}
    HandlerBudget = 3
    MaxFaults = 1
INVARIANTS
    DeadAfterEveryAttempt
    UnhandledIsUntouched
PROPERTIES
    ImplementsAtLeastOnce
