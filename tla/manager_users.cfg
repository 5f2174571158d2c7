SPECIFICATION Spec
CONSTANTS
  Request = {r1, r2}
  User = {u1}
  Pop = {p1, p2, p3}
  None = None
SYMMETRY Symmetry
INVARIANTS UsersInv StoredIsRemembered
