SPECIFICATION FairSpec
CONSTANTS
  r1 = r1
  r2 = r2
  caller = caller
  Requests <- TwoRequests
  Callers <- OneCaller
  Watcher = watcher
  MaxRequests = 1
  Token = token
  OtherToken = otherToken
  Empty = empty
INVARIANTS
  SupportedMeansServed
  CountersMatchRequests
  ReportIsFinal
PROPERTIES
  LifetimeIsBounded
  PromiseKept
CHECK_DEADLOCK FALSE
