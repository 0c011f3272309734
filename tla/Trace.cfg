SPECIFICATION TraceSpec
CONSTANTS
  a = a
  b = b
  h = h
  o = o
  x = x
  Party = {a, b, h, o, x}
  Objects = {o}
  Sinks = {x}
  Hubs = {h}
  Length = 4
  Histories <- AllHistories
  MaxHops = 3
  PageSize = 1
  Pages = 2
  MaxCalls = 1
  Nobody = nobody
INVARIANTS TraceTypeOK HopsLinked HopsOneWay EndIsTrue DeadEndIsRead
CHECK_DEADLOCK FALSE
