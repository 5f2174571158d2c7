SPECIFICATION LSpec
CONSTANTS
  a1 = a1
  a2 = a2
  a3 = a3
  b1 = b1
  ua = ua
  ub = ub
  Assoc = {a1, a2, a3, b1}
  User = {ua, ub}
  Port = {1, 2, 3}
  None = None
  UserOf <- MCUserOf
  AddrOf <- MCAddrOf
SYMMETRY Symmetry
INVARIANTS AssociationInv ServersAreStopped
