SPECIFICATION Spec
CONSTANTS
  Handles = {b1, b2, b3}
  Ones = {b3}
  Traces <- BigPayload
  MaxHeap = 12304
INVARIANTS
  PayloadsKept
CHECK_DEADLOCK FALSE
