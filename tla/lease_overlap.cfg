SPECIFICATION Spec
CONSTANTS
    Conn = {c1, c2, c3}
    None = None
    Overlapping = TRUE
    Faults = {"timeout"}
CHECK_DEADLOCK FALSE
SYMMETRY Symmetry
INVARIANTS RegistryInv NoGhostOnline
