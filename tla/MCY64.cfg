SPECIFICATION Spec
CONSTANTS
  LongBytes = 2
  MemSize = 32
  MaxSteps = 6
  MaxLines = 4
  Labels <- Names
  None = None
  Source <- Texts
  Says <- Meanings
INVARIANTS
  TypeOK
  ReadsTheText
  ReferencesResolved
PROPERTIES
  ExecutesSource
  BranchesAgree
  FaultsKeepState
CHECK_DEADLOCK FALSE
