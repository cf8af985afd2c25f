CONSTANTS
    None = None
    Socket = {s1, s2}
    Update = {u1}
    MaxRooms = 2
    MaxFailures = 1
    MaxEarly = 1
    MaxCrashes = 1
SPECIFICATION FairSpec
CHECK_DEADLOCK FALSE
INVARIANTS TypeOK AttachedIsLive LiveIsSubscribed SavedIsWhole Heard
PROPERTIES SavedGrows OpenSettles
