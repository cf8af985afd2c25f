SPECIFICATION Spec
CONSTANTS
    None = None
    r1 = r1
    r2 = r2
    empty = empty
    ta = ta
    tb = tb
    tc = tc
    Revision = {r1}
    Text = {ta, tb, tc}
    TextOf <- OneRevision
    BatchSize = 2
    Context = {x1, x2}
    Profile = {p1, p2}
    Primary = p1
    Gen = {g1, g2}
    Worker = {w1, w2}
    Client = {c1}
    MaxActive = 2
    MaxTries = 2
    MaxEdits = 0
    MaxRequests = 1
    MaxProviderFailures = 0
    MaxInfraFailures = 0
    MaxCrashes = 0
    MaxCancels = 0
SYMMETRY Symmetry
PROPERTIES IndexSpec
CHECK_DEADLOCK FALSE
