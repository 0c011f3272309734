SPECIFICATION Spec
CONSTANTS
  a1 = a1
  a2 = a2
  a3 = a3
  a4 = a4
  Addr = {a1, a2, a3, a4}
  Tx = {1, 2, 3, 4}
  Chains <- AllHistories
  Starts <- Branches
  Label <- Labels
  MaxDepth = 3
  MaxNodes = 2
  MaxTxReads = 5
  MinShare = 2
  Total = 5
  ScanCap = 2
  MovesPerNode = 1
  MovesPerTrunk = 2
  ExpansionsPerNode = 2
  Origin = origin
INVARIANT HoldingIsHeld
CHECK_DEADLOCK FALSE
