\* Six jobs, two proxies of different priority, two origins; the default of one probe.
CONSTANTS
  w1 = w1  w2 = w2  w3 = w3  w4 = w4  w5 = w5  w6 = w6  p1 = p1  p2 = p2  x = x  y = y
  Jobs <- SixJobs
  Proxy = {p1, p2}
  Origin = {x, y}
  OriginOf <- TwoOrigins
  Request <- MixedRequests
  AnyProxy = AnyProxy
  Refused = {w5}
  ProxyPriority <- FirstPreferred
  ProxyCapacity <- TwoEach
  GlobalLimit = 3
  OriginLimit = 2
  FailureThreshold = 1
  HalfOpenMaxProbes = 1
SPECIFICATION FairSpec
INVARIANTS
  CapacityIsKept
  EveryJobAccounted
PROPERTIES
  RunEnds
CHECK_DEADLOCK FALSE
