SPECIFICATION CSpec
CONSTANTS
  Tunnel = {t1, t2}
  t1 = t1
  t2 = t2
  x = x
  y = y
  Server = {x, y}
  Embedded = {x}
  MaxKills = 2
  None = None
INVARIANTS DestroyedInv OneServiceRuns StartsAgain
PROPERTY StopEnds
CHECK_DEADLOCK FALSE
