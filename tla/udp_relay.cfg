SPECIFICATION FairSpec
CONSTANTS
  u = u
  s1 = s1
  s2 = s2
  i1 = i1
  i2 = i2
  i3 = i3
  i4 = i4
  None = None
  User = {u}
  MaxData = 2
  Src = {s1, s2}
  Id = {i1, i2, i3, i4}
  Datagrams <- MCDatagrams
  AnswerTo <- MCAnswerTo
  BufLen = 24
  PublicDest <- MCPublicDest
  SessionId <- MCSessionId
  MaxSend = 2
  MaxBreaks = 1
INVARIANTS RelayInv ServedAsAuthenticated NothingLostAtHandover DatagramsReachDest AnswersComeHome
CHECK_DEADLOCK FALSE
PROPERTY LeftIsReleased
