SPECIFICATION RTSpec
CONSTANTS
  MaxDur = 15
  MaxAttempts = 2
  BaseDelay = 2
  MaxElapsed = 0
  Waits = {0}
  Lag = 1
  Requests <- Rewindable
  TransportErrors <- BaseErrors
  Transports <- OneTransport
INVARIANTS
  RewoundBodyReleased
