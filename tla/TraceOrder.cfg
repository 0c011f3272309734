SPECIFICATION TraceSpec
CONSTANTS
  a = a
  b = b
  h = h
  o = o
  x = x
  Party = {a, b, h, o, x}
  Objects = {o}
  Sinks = {x}
  Hubs = {h}
  Length = 4
  Histories <- AllHistories
  MaxHops = 3
  PageSize = 2
  Pages = 1
  MaxCalls = 1
  Nobody = nobody
INVARIANT NextMoveIsLater
CHECK_DEADLOCK FALSE
