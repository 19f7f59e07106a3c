SPECIFICATION DoSpec
CONSTANTS
  MaxDur = 15
  MaxAttempts = 2
  BaseDelay = 1
  MaxElapsed = 0
  Waits <- FnWaits
  Lag = 1
  FnErrors <- FnFailures
  RateLimitModes = {"rlOnly"}
  rlMaxWait = 3
  AttemptTimeouts = {2}
INVARIANTS
  MarkOnlyOwnBound
