SPECIFICATION Spec
CONSTANTS
  Rows = 3
  Columns = 1
  Base8 = 2
  Base11 = 3
  Base16 = 4
  IntWord = {0, 1, 2, 5}
  FloatWord = {2, 7, 8, 10, 14}
  NaN = 7
  MinusInf = 14
  Ordinals = {0, 1, 2, 3}
INVARIANT SortsOrdinals
CHECK_DEADLOCK FALSE
