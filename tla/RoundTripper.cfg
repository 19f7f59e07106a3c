SPECIFICATION RTSpec
CONSTANTS
  MaxDur = 15
  MaxAttempts = 3
  BaseDelay = 2
  MaxElapsed = 5
  Waits = {0, 3}
  Lag = 1
  Requests <- AllRequests
  TransportErrors <- BaseErrors
  Transports <- AllTransports
INVARIANTS
  RTInv
  ResponsesAccounted
  OneResponseOpen
  ResponseXorError
  OnlyReplayableResent
PROPERTIES
  EndedCtxReturns
