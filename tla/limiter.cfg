SPECIFICATION FairSpec
CONSTANTS
    Caller = {c1, c2, c3}
    Limit = 1
    Rpm = 1
    Window = 2
    MaxRetries = 1
    MaxBackoff = 1
    Threshold = 2
    Cooldown = 2
INVARIANTS TypeOK PermitAccounting NoIdleCapacity QueueIsExact
PROPERTIES WaiterServed
