SPECIFICATION DoSpec
CONSTANTS
  MaxDur = 15
  MaxAttempts = 3
  BaseDelay = 1
  MaxElapsed = 0
  Waits <- FnWaits
  Lag = 1
  FnErrors <- FnFailures
  RateLimitModes = {"rlNone", "rlRetry", "rlOnly"}
  rlMaxWait = 3
  AttemptTimeouts = {0, 2}
INVARIANTS
  DoInv
  MarkOverruled
  SettledNotRetried
  RateLimitWaitBounded
PROPERTIES
  CallerSeesCancellation
  EndedCtxReturns
  BoundedCallReturns
