SPECIFICATION Spec
CONSTANTS
  Symbol = {1, 2}
  Freq = {0, 1, 2}
  MinSymbols = 1
INVARIANT OneNodeLeft
CHECK_DEADLOCK FALSE
