SPECIFICATION Spec
CONSTANTS
  Char = {1, 2, 4}
  Newline = 7
  Upper = {2}
  lower <- MCLower
  Radix = 3
  BinSize = 2
  Size = 5
  Strings <- MCStrings
  MaxSearched = 0
  MaxMerged = 2
  Padding <- MCPadding
  Tails <- DocTails
INVARIANT PrintsLines
CHECK_DEADLOCK FALSE
