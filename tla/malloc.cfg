SPECIFICATION Spec
CONSTANTS
  HeapBase <- AlignedBase
  MEMORY_CAPACITY = 13000
  Sizes <- MixedSizes
  VallocSizes <- PageVallocs
  CallocArgs <- TwoByFive
INVARIANTS TypeOK Inv NothingLost GrowsOnlyWhenFull MetadataApart AssertionsHold CopyFits PhysicalOrder
PROPERTIES ImplementsContract UsesListProperly
CHECK_DEADLOCK FALSE
