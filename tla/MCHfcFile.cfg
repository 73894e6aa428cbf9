SPECIFICATION FileSpec
CONSTANTS
  WordBits = 8
  ByteBits = 2
  BINSIZE = 2
  Codes <- MCCodes
  MaxBins = 2
  MaxBytes = 3
  NULL = NULL
  HeaderCodes <- MCHeaderCodes
  Headers <- MCHeaders
  MaxOlder = 1
INVARIANTS ShiftsDefined PacksCodes HeaderReadsBack BinsReadBack OlderReadsBack
CHECK_DEADLOCK FALSE
