SPECIFICATION Spec
CONSTANTS
  NumBlocks = 6
  MaxBlocks = 3
  Factory <- MCFactory
  FirstVersion = {1, 127, 255}
  MaxFail = 1
INVARIANT AckedRemembered
CHECK_DEADLOCK FALSE
