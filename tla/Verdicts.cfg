SPECIFICATION VerdictSpec
CONSTANTS
  MaxDur = 127
  Codes <- SomeCodes
  Digits = {0, 1, 2, 7, 8}
  MaxDigits = 4
  Dates <- SomeDates
  Second = 10
  RetryAfterCap = 60
  maxInt64Digits = 3
  Roots <- SomeRoots
  Wrappers = {"url", "netOp", "dns", "wrap"}
  MaxLayers = 5
INVARIANTS
  ReducedIsSafe
  ReductionKeepsRetry
  MarksHideNoCause
  DeltaSecondsByValue
  DoorsAgree
PROPERTIES
  MarkTransientOverrides
