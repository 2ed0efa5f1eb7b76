SPECIFICATION FairSpec

CONSTANTS
  w1 = w1
  w2 = w2
  b1 = b1
  b2 = b2
  b3 = b3
  Writers = {w1, w2}
  Order <- TwoDestinations
  Buffers = {b1, b2, b3}
  Buffer1 = b1
  Buffer2 = b2
  Mine = b3
  MaxChunks = 5
  MaxSessions = 2

INVARIANTS
  TypeOK
  DestinationsGetChunks
  CloseReportsFailure
  NothingLeftOpen

PROPERTIES
  FilledIsFree
  CallsReturn

CHECK_DEADLOCK FALSE
