SPECIFICATION Spec
CONSTANTS
  drainLimit = 2
  MaxInt64 = 4
  Sizes = {0, 2, 3, 4}
  MaxVersion = 2
  DefaultMaxBodyBytes = 2
  BodyCaps <- SomeCaps
INVARIANTS
  NotModifiedIsFresh
  ReusedWithinBudget
PROPERTIES
  BodyReleased
