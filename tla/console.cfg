SPECIFICATION Spec
CONSTANTS
  Width = 64
  Height = 88
  PixelBytes = 4
  Pitch = 256
  CellWidth = 9
  CellHeight = 17
  Margin = 5
  TabSize = 4
  WordBits = 24
  IntBits = 12
  Behind <- Shipped
  Formats <- SomeFormats
  Strings <- SomeStrings
  Labels <- SomeLabels
  Places <- SomePlaces
  MaxX = 100
  MaxY = 22
  LastY = 110
INVARIANTS NeverPastEnd PrintsWhatIsMeant GlyphsFit LabelsInside
PROPERTIES ReadingOrder CallsReturn
