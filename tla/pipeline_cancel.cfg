SPECIFICATION Spec
CONSTANTS
    None = None
    r1 = r1
    r2 = r2
    empty = empty
    ta = ta
    tb = tb
    tc = tc
    Revision = {r1, empty}
    Text = {ta, tb}
    TextOf <- WithEmpty
    BatchSize = 1
    Context = {x1}
    Profile = {p1}
    Primary = p1
    Gen = {g1, g2}
    Worker = {w1, w2}
    Client = {c1}
    MaxActive = 1
    MaxTries = 2
    MaxEdits = 1
    MaxRequests = 0
    MaxProviderFailures = 1
    MaxInfraFailures = 1
    MaxCrashes = 0
    MaxCancels = 1
SYMMETRY Symmetry
INVARIANTS TypeOK Ownership
PROPERTIES FenceHolds
CHECK_DEADLOCK FALSE
