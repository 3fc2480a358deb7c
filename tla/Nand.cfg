SPECIFICATION MCSpec
CONSTANTS
  NumBlocks = 2
  PerBlock = 2
  MaxOps = 4
  MaxLen = 2
  MaxErr = 1
  SkipBlocks = 5
  SkipPer = 2
  MaxSkipBad = 3
INVARIANTS Types ReadsRight Skipped
PROPERTY Ends
CHECK_DEADLOCK FALSE
