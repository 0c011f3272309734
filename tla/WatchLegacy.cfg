SPECIFICATION Spec
CONSTANTS
  a1 = a1
  k1 = k1
  legacy1 = legacy1
  Malformed = Malformed
  Address = {a1}
  Key = {k1, legacy1}
  Canon <- Canon1
  Norm <- Norm1Legacy
  Sizes = {FALSE}
  Call = {c1}
  Caps = {2}
  BatchSize = 20
  Burst = 2
  MaxHead = 3
  Overlap = FALSE
  Crashes = FALSE
INVARIANT NoGap
CHECK_DEADLOCK FALSE
