SPECIFICATION Spec
CONSTANTS
  HeapBase <- BuiltBase
  MEMORY_CAPACITY = 20000
  Sizes <- BigSizes
  VallocSizes <- NoSizes
  CallocArgs <- NoArgs
INVARIANT BlocksAreAligned
CHECK_DEADLOCK FALSE
