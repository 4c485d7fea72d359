SPECIFICATION Spec
CONSTANTS
  Handles = {b1, b2, b3}
  Ones = {}
  Traces <- Binary
  MaxHeap = 8208
SYMMETRY Symmetry
INVARIANTS
  LastFitFits
