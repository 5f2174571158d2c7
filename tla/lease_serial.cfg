SPECIFICATION FairSpec
CONSTANTS
    Conn = {c1, c2, c3}
    None = None
    Overlapping = FALSE
    Faults = {"redis"}
CHECK_DEADLOCK FALSE
INVARIANTS ServedIsReachable
PROPERTIES ImplementsLease HandoverEnds
