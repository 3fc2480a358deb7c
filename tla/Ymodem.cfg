SPECIFICATION Spec
CONSTANTS
  Last = 4
  Numbers = 4
  PerRead = 2
  Retries = 3
  CrcRetries = 2
  MaxTimeouts = 1
  MaxNoise = 2
  MaxQueue = 2
  MaxReplies = 3
INVARIANTS TypeOK Prefix WholeAtEof
PROPERTY Ends
CHECK_DEADLOCK FALSE
