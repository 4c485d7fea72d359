SPECIFICATION Spec
CONSTANTS
  Handles = {b1, b2, b3}
  Ones = {}
  Traces <- MixedAndBinary
  MaxHeap = 1200000
SYMMETRY Symmetry
INVARIANTS
  TypeOK
  BoundaryTags
  NoContiguousFree
  FreeListsExact
  OwnedExactly
PROPERTIES
  ExtendsWhenNeeded
  ReallocSparesOthers
  ImplementsAllocator
