SPECIFICATION SpecDoc
CONSTANTS
  Name = {1}
  MaxLen = 2
  NULL = NULL
  BinSize = 2
  Addr = {a1, a2, a3, a4, a5}
INVARIANT EachBlockFreedOnce
