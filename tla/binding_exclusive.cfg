SPECIFICATION HSpec
CONSTANTS
    Node = {n1, n2}
    User = {u1, u2}
    Handler = {h1, h2}
    Conn = {c1}
    None = None
    Requests = {"create", "createOn", "delete", "switch", "switchOn", "save", "traffic"}
    Dialers = {}
    Faults = {"error", "reply", "rpcCrash", "apiCrash"}
    Excused = {"target", "record", "reply"}
SYMMETRY Symmetry
CONSTRAINT NotExcused
INVARIANTS RoutesInv Exclusive RouteIsBound StoredIsListed
PROPERTIES BindMirrorsHash StopIsKept
