SPECIFICATION Spec
CONSTANTS
  MemSize = 5
  Byte <- Bytes
  Half = 4
  Lengths <- SomeLengths
  MEMORY_CAPACITY = 3
  Growths <- SomeGrowths
INVARIANT CallocClears
