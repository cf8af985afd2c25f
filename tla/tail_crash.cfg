SPECIFICATION FairSpec
CONSTANTS
    None = None
    Worker = {w1}
    Client = {c1}
    Limit <- MCLimit
    MaxTries = 2
    MaxAttempts = 1
    MaxRetries = 0
    MaxFailures = 1
    MaxOutages = 0
    MaxCrashes = 1
    MaxStalls = 1
PROPERTY JobsEnd
CHECK_DEADLOCK FALSE
