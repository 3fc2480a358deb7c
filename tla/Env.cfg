SPECIFICATION MCSpec
CONSTANTS
  Values = {v1, v2}
  Default = default
  Size = 2
  EnvRange = 3
  Offset = 0
  Redund = 4
  NumBlocks = 7
  FlagBits = {0, 1, 2}
  Serials = {253}
  MaxBad = 1
  MaxSaves = 3
  MaxFail = 1
  MaxCut = 1
INVARIANTS SaveIsFound Backup Spares
PROPERTY Returns
CHECK_DEADLOCK FALSE
