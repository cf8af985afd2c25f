SPECIFICATION Spec
CONSTANTS
    None = None
    Worker = {w1, w2}
    Client = {c1}
    Limit <- MCLimit
    MaxTries = 2
    MaxAttempts = 0
    MaxRetries = 1
    MaxFailures = 1
    MaxOutages = 1
    MaxCrashes = 0
    MaxStalls = 0
INVARIANTS TypeOK ReadyIsHonest ClaimsAreStored TailCarried
PROPERTIES CancelledStays
SYMMETRY Symmetry
CHECK_DEADLOCK FALSE
