SPECIFICATION HSpec
CONSTANTS
    Node = {n1, n2}
    User = {u1, u2}
    Handler = {h1, h2}
    Conn = {c1, c2}
    None = None
    Requests = {"create", "delete", "modify", "switch", "browser"}
    Dialers = {u1}
    Faults = {"apiCrash"}
    Excused = {"user", "target", "record", "tunnel", "online", "cache"}
SYMMETRY Symmetry
CONSTRAINT NotExcused
INVARIANTS FreeIsUnboundOnline CacheIsFresh

