SPECIFICATION ListSpec
CONSTANTS
  p1 = p1
  p2 = p2
  p3 = p3
  p4 = p4
  Pids = {p1, p2, p3, p4}
  NoPid = NoPid
  MAXJOBS = 4
  JidBound = 5
INVARIANTS
  JidNamesOneJob
CHECK_DEADLOCK FALSE
