SPECIFICATION Spec
CONSTANTS
  NumBlocks = 6
  MaxBlocks = 3
  Factory <- MCFactory
  FirstVersion = {1, 127, 255}
  MaxFail = 2
INVARIANTS
  TypeOK
  WholeRemembered
  PagesDisjoint
  NewerKnowsMore
  TablesInStep
PROPERTIES
  StoreSpec
