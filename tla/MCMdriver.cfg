SPECIFICATION Spec
CONSTANTS
  Suites <- SmallSuites
  ALIGNMENT = 2
  MAX_HEAP = 8
  HeapLo = 2
  Runs = 2
  kbest = 2
  maxsamples = 3
  epsilon = 50
  HalfWord = 4
  cyc_per_tick = 2
  Counts = {0, 3}
  Durations = {1, 3}
INVARIANTS
  TypeOK
  RangesAreLive
  FreshPointers
  HighWaterMark
  ReportIsTrue
  KBestKept
PROPERTIES
  VerdictIsExact
CHECK_DEADLOCK FALSE
