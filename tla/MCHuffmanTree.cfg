SPECIFICATION Spec
CONSTANTS
  Symbol = {1, 2, 3, 4, 5}
  Freq = {0, 1, 2, 3, 5}
  MinSymbols = 2
INVARIANTS TypeOK QueuesAscend Optimal Shortest
PROPERTY ImplementsFindDepth
CHECK_DEADLOCK FALSE
