SPECIFICATION FairSpec
CONSTANTS
    None = None
    a1 = a1
    a2 = a2
    u1 = u1
    u2 = u2
    Upload = {u1}
    Account = {a1}
    OwnerOf <- MCOwnerOf
    Confirmer = {c1}
    Task = {w1, w2}
    MaxFailures = 1
    MaxRefusals = 1
    MaxCrashes = 1
    MaxStalls = 1
INVARIANTS TypeOK OneAuthority AttachmentIsWhole ObjectAnswered ChargeAnswered PurgeLeavesNothing
PROPERTIES LifeSpec UploadSettles
CHECK_DEADLOCK FALSE
