SPECIFICATION Spec
CONSTANTS
  p1 = p1
  p2 = p2
  Pids = {p1, p2}
  NoPid = NoPid
  MAXJOBS = 2
  JidBound = 2
  Keys = {}
INVARIANTS
  HandlerReapsAll
CHECK_DEADLOCK FALSE
