SPECIFICATION DoSpec
CONSTANTS
  MaxDur = 15
  MaxAttempts = 2
  BaseDelay = 1
  MaxElapsed = 0
  Waits <- FnWaits
  Lag = 1
  FnErrors <- WithPermanentRateLimit
  RateLimitModes = {"rlRetry"}
  rlMaxWait = 3
  AttemptTimeouts = {0}
INVARIANTS
  PermanentNeverRetried
