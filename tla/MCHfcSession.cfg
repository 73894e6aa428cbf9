SPECIFICATION Spec
CONSTANTS
  Name = {1, 2}
  MaxLen = 3
  NULL = NULL
  BinSize = 2
  Addr = {a1, a2, a3, a4, a5}
SYMMETRY AddrSymmetry
INVARIANTS EachBlockFreedOnce NoLeak InnerCoherent
PROPERTIES StringsOutlive ImplementsDict
