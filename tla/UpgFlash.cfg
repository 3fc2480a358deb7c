SPECIFICATION USpec
CONSTANTS
  WriteSize = 4
  PagesPerBlock = 2
  NumBlocks = 4
  Offsets = {0, 3, 4, 7, 8, 13, 15}
  Lengths = {2, 3, 4, 6, 12, 13, 24}
  InitBad <- MCInitBad
  MaxEraseFail = 1
  MaxWriteFail = 2
  MaxMarkFail = 1
  SliceSize = 12
INVARIANTS
  TypeOK
  ImageReadBack
  RestPreserved
  CheckedWrite
  ReadMatches
PROPERTIES
  ProgramInOrder
  UpgReturns
CHECK_DEADLOCK FALSE
