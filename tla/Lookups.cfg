SPECIFICATION Spec
CONSTANTS
  m1 = m1
  m2 = m2
  Asker = {q1}
  Lister = {t1}
  Coin = {m1, m2}
  Markets <- SomeMarkets
  Pages = {1, 3}
  MaxScanPages = 2
  MaxCandidates = 1
  MaxRelists = 1
  MaxExpiries = 1
  r1 = r1
  r2 = r2
  r3 = r3
  o1 = o1
  o2 = o2
  o3 = o3
  Reader = {r1, r2, r3}
  CallOf <- Calls
  NetworkOf <- OneOrTwo
  Wanted <- Objects
  Pruned = {o2}
  NoReader = none
  Pricer = {p1, p2}
  Sample = {k1, k2}
  BreakAfter = 2
  MaxCache = 1
  MaxReads = 3
INVARIANTS NotFoundMeansRead OneMeansOne LiveIsListed AnswerIsOwn FailureIsOwn FailureIsForgotten SkipIsEarned CircuitStaysOpen
PROPERTY GoodEntryStays
CHECK_DEADLOCK FALSE
