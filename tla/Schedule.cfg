SPECIFICATION ScheduleSpec
CONSTANTS
  MaxDur = 15
  MaxAttempts = 6
  BaseDelay = 1
  MaxElapsed = 11
  Waits = {0, 1, 4}
  Lag = 1
INVARIANTS
  BackoffIsExponential
  ScheduleInv
PROPERTIES
  RetryBeforeCeiling
  KeepsPromise
