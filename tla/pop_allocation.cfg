SPECIFICATION Spec
CONSTANTS
  Request = {r1, r2}
  Node = {n1, n2, n3}
  p1 = p1
  p2 = p2
  d1 = d1
  Pop = {p1, p2, d1}
  Area = {"here", "default"}
  Pops <- MCPops
  AreaOf <- MCAreaOf
  MaxCount <- MCMaxCount
  DefaultArea = "default"
  None = None
SYMMETRY Symmetry
INVARIANTS CountsInv AnswerAgrees
PROPERTY PopIsKept
