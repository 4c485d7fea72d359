SPECIFICATION MCSpec
CONSTANTS
  p1 = p1
  p2 = p2
  p3 = p3
  Pids = {p1, p2, p3}
  NoPid = NoPid
  MAXJOBS = 2
  JidBound = 2
  Keys = {"INT", "TSTP"}
SYMMETRY Symmetry
INVARIANTS
  TypeOK
  AtMostOneFG
  NoFGOutsideWait
  KeysSpareBackground
  ContinuesItsJob
  ListedAreChildren
PROPERTIES
  RemovedOnlyWhenReaped
  ImplementsJobControl
CHECK_DEADLOCK FALSE
