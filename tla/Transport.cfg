SPECIFICATION Spec
CONSTANTS
  main = main
  g1 = g1
  g2 = g2
  p1 = p1
  Call = {r1, r2, r3}
  Limiter = {main}
  LimiterOf <- OneLimiter
  Concurrency = 2
  RateLimit = 1
  WindowMs = 2
  Attempts = 2
  TransientRetries = 1
  Json = {}
INVARIANTS TypeOK SlotsExact NoIdleSlot RateKept
PROPERTY AbortedSendNothing
SYMMETRY Symmetry
