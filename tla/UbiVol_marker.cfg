SPECIFICATION Spec
CONSTANTS
  NumPebs = 7
  Slots = 2
  MaxLebs = 2
  Level = 1
  MaxOps = 2
  MaxCut = 1
INVARIANT DamageKnown
CHECK_DEADLOCK FALSE
