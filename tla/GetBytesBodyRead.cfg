SPECIFICATION GBSpec
CONSTANTS
  MaxDur = 7
  MaxAttempts = 2
  BaseDelay = 1
  MaxElapsed = 0
  Waits = {0, 2}
  Lag = 0
  ClientErrors <- ClientFailures
  ReadErrors <- ReadFailures
  BodyCaps = {2}
INVARIANTS
  TransientErrorsRetried
