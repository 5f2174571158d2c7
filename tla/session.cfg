SPECIFICATION FairSpec
CONSTANTS
  Session = {s1}
  MaxUp = 2
  MaxDown = 2
  MaxBreaks = 2
INVARIANTS SessionInv GapEndsDownload
PROPERTIES UpstreamIsStream CloseReachesUser OrphanEnds
CHECK_DEADLOCK FALSE
