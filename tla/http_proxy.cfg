SPECIFICATION FairSpec
CONSTANTS
  r1 = r1
  r2 = r2
  Request = {r1, r2}
  Tunnel = {t1}
  MaxBody <- MCMaxBody
  NoTun = NoTun
INVARIANTS ReqsInv ClosedIsWhole
PROPERTY AnsweredEnds
CHECK_DEADLOCK FALSE
