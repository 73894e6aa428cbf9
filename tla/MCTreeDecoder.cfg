SPECIFICATION TreeSpec
CONSTANTS
  Symbol = {1, 2, 3, 4, 5}
  NULL = NULL
INVARIANTS ReadsInBounds DecodesOnlyCodes StopsAtCodes TreeAgrees
