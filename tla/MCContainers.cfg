SPECIFICATION AllSpec
CONSTANTS
  Value = {v, w}
  Capacity = 4
  Nodes = {n1, n2, n3}
  BINSIZE = 2
  Free = Free
  Byte = {0, 1}
  NULL = NULL
  SIZE = 2
  MaxCount = 5
  Addr = {a1, a2, a3}
  Unset = Unset
INVARIANTS WellLinked NothingLost CopiesInside
PROPERTIES ImplementFifo ImplementsStream
