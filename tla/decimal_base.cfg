SPECIFICATION Spec
CONSTANTS
  BufLen = 5
  NUL = NUL
  Words = 64
  Char <- AllChars
  DigitChar <- DigitsOf16
  Calls <- BaseCalls
INVARIANT BasesAsDocumented
