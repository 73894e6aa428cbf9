SPECIFICATION Spec
CONSTANTS
  Char = {1, 2, 4}
  Newline = 7
  Upper = {2}
  lower <- MCLower
  Radix = 3
  BinSize = 2
  Size = 5
  Strings <- MCStrings
  MaxSearched = 4
  MaxMerged = 3
  Padding <- MCPadding
  Tails <- MCTails
INVARIANTS ReadsBack WithinCurrent StaysInBin FindsAll StaysSorted IsUnion PrintsLines
PROPERTY Terminates
CHECK_DEADLOCK FALSE
