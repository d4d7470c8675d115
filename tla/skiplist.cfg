SPECIFICATION Spec
CONSTANTS
  b1 = b1
  b2 = b2
  b3 = b3
  HEAD = HEAD
  NULL = NULL
  Block <- ThreeBlocks
  Size <- ThreeSizes
  SKIP_MAX_LEVEL = 2
  Requests <- SomeRequests
INVARIANTS TypeOK WellFormed NeverOnStale DeleteFindsNode
PROPERTIES CallsReturn ImplementsFreeBlocks
