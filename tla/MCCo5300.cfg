SPECIFICATION Spec
CONSTANTS
  Width = 6
  Height = 8
  TileLines = 6
  MaxSpans = 6
  MaxBlocks = 4
  LaterBlocks <- MCLaterBlocks
  MaxFaults = 1
INVARIANTS
  TypeOK
  ShownIsDrawn
PROPERTIES
  OnlyFaultsFail
