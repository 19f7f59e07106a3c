SPECIFICATION NestSpec
CONSTANTS
  MaxDur = 7
  MaxAttempts = 2
  BaseDelay = 1
  MaxElapsed = 0
  Waits = {0, 3}
  Lag = 1
  ClientErrors <- ClientFailures
  ReadErrors <- ReadFailures
  BodyCaps = {2, 7}
  OuterAttempts = 2
  AttemptTimeouts = {0, 2}
  DefaultTimeouts = {0, 1}
INVARIANTS
  GBInv
  BodyNeverTruncated
  ReturnedErrorSafe
  LoopsAgree
  LiveCallerNoDeadline
  OneDeadRequest
  HintHonored
PROPERTIES
  NestImplementsDo
