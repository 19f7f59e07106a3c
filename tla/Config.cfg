SPECIFICATION ConfigSpec
CONSTANTS
  MaxDur = 15
  Counts <- SomeCounts
  Delays <- SomeDelays
  MaxOptions = 4
  DefaultMaxAttempts = 3
  DefaultBaseDelay = 2
  DefaultMaxBodyBytes = 5
  RetryAfterCap = 6
CHECK_DEADLOCK FALSE
INVARIANTS
  RefusedOrRunnable
