SPECIFICATION Spec
CONSTANTS
    None = None
    Key = {k1, k2}
    Call = {c1, c2}
    Order <- Sample
    MaxWrites = 1
SYMMETRY Symmetry
INVARIANTS TypeOK PurgeErases PurgeIsRecorded StepsStayDone
PROPERTIES FenceHoldsOut
CHECK_DEADLOCK FALSE
