SPECIFICATION Spec
CONSTANTS
    None = None
    r1 = r1
    r2 = r2
    empty = empty
    ta = ta
    tb = tb
    tc = tc
    Revision = {r1, r2}
    Text = {ta, tb, tc}
    TextOf <- Lengthened
    BatchSize = 2
    Context = {x1}
    Profile = {p1}
    Primary = p1
    Gen = {g1, g2, g3}
    Worker = {w1, w2}
    Client = {c1}
    MaxActive = 1
    MaxTries = 2
    MaxEdits = 2
    MaxRequests = 0
    MaxProviderFailures = 0
    MaxInfraFailures = 0
    MaxCrashes = 0
    MaxCancels = 0
SYMMETRY Symmetry
INVARIANTS RunCarried
PROPERTIES IndexSpec
CHECK_DEADLOCK FALSE
