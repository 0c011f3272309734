SPECIFICATION FairSpec
CONSTANTS
  main = main
  g1 = g1
  g2 = g2
  p1 = p1
  Call = {g1, g2, p1}
  Limiter = {main, p1}
  LimiterOf <- Mixed
  Concurrency = 1
  RateLimit = 1
  WindowMs = 1
  Attempts = 2
  TransientRetries = 1
  Json = {p1}
PROPERTY EveryRequestEnds
