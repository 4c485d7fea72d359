SPECIFICATION Spec
CONSTANTS
  Handles = {b1, b2, b3}
  Ones = {}
  Traces <- Coalescing
  MaxHeap = 12304
SYMMETRY Symmetry
PROPERTIES
  OverlapsAreRefused
