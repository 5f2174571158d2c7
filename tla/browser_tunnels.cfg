SPECIFICATION TunnelsSpec
CONSTANTS
  Conn = {c1, c2, c3}
  Node = {n1, n2}
  IP = {i1, i2}
  MaxPerIP = 2
  None = None
SYMMETRY Symmetry
INVARIANTS RegistryInv NoGhostOnline
