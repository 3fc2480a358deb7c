SPECIFICATION Spec
CONSTANTS
  NumPebs = 5
  Lebs = {l1, l2}
  Pages = 2
  Retries = 1
  Level = 1
  NumHeld = 1
  MaxOps = 2
  MaxMoves = 1
  MaxFail = 2
  MaxCut = 1
INVARIANTS EveryPebHasItsPlace SpaceIsLeft AttachWorks
PROPERTIES AckedIsFound StoreSpec
CHECK_DEADLOCK FALSE
SYMMETRY Alike
