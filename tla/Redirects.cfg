SPECIFICATION RedirectSpec
CONSTANTS
  Policies <- SomePolicies
  Origins <- SomeOrigins
  Targets <- AllTargets
CHECK_DEADLOCK FALSE
INVARIANTS
  FollowsUpToCap
  StaysOnOrigin
  NeverCleartext
  MethodKeptExactly
  SuffixNamesDomain
