SPECIFICATION FairSpec
CONSTANTS
  p1 = p1
  Pids = {p1}
  NoPid = NoPid
  MAXJOBS = 1
  JidBound = 2
  Keys = {}
PROPERTIES
  WaitfgReturns
CHECK_DEADLOCK FALSE
