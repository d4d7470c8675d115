SPECIFICATION Spec
CONSTANTS
  Bits = 8
  Bases <- AllBases
  Rubbish = 204
INVARIANTS BufferSuffices DigitsDenote ReadsBack
