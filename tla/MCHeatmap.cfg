SPECIFICATION HeatmapSpec
CONSTANTS
  Pictures <- MCPictures
  Colors = 3
  Width = 3
  Elstart = 1
  Elsize = 1
  NoValue = NoValue
  MaxInt = 35
  Grey = Grey
  MaxFew = 3
  MaxSamples = 5
  MaxHeight = 6
INVARIANTS ShowsSamples ColoursByRegion
CHECK_DEADLOCK FALSE
