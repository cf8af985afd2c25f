SPECIFICATION FairSpec
CONSTANTS
    None = None
    r1 = r1
    r2 = r2
    empty = empty
    ta = ta
    tb = tb
    tc = tc
    Revision = {r1, empty}
    Text = {ta, tb}
    TextOf <- FourChunks
    BatchSize = 1
    Context = {x1}
    Profile = {p1}
    Primary = p1
    Gen = {g1, g2}
    Worker = {w1, w2}
    Client = {c1}
    MaxActive = 2
    MaxTries = 2
    MaxEdits = 1
    MaxRequests = 0
    MaxProviderFailures = 0
    MaxInfraFailures = 0
    MaxCrashes = 0
    MaxCancels = 0
INVARIANTS BatchWindow
PROPERTIES RunSettles
CHECK_DEADLOCK FALSE
