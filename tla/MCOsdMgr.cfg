CONSTANTS
  Regions = {0}
  Width = 16
  Height = 12
  Pitch = 18
  Unit = 16
  Word = 4096
  Glyph = 3
  Margin = 2
  Boxes <- MCBoxes
  Points <- MCPoints
SPECIFICATION OsdSpec
INVARIANTS CanvasIsLast RegionAsConfigured
CHECK_DEADLOCK FALSE
