SPECIFICATION SortsSpec
CONSTANTS
  N = 5
  K = 3
  Unset = Unset
  Rows = 3
  Columns = 2
  Base8 = 2
  Base11 = 3
  Base16 = 4
  IntWord = {0, 1, 2, 5}
  FloatWord = {2, 7, 10, 14, 15}
  NaN = 7
  MinusInf = 14
  Ordinals = {0, 1, 2}
INVARIANTS SlotsFree StableSort SortsFloats SortsIntegers SortsOrdinals OrderStatistics
CHECK_DEADLOCK FALSE
