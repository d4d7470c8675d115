SPECIFICATION Spec
CONSTANTS
  HeapBase <- AlignedBase
  MEMORY_CAPACITY = 20000
  Sizes <- BigSizes
  VallocSizes <- PageVallocs
  CallocArgs <- NoArgs
INVARIANT ReallocFindsHeader
CHECK_DEADLOCK FALSE
