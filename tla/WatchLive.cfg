SPECIFICATION FairSpec
CONSTANTS
  a1 = a1
  k1 = k1
  legacy1 = legacy1
  Malformed = Malformed
  Address = {a1}
  Key = {k1}
  Canon <- Canon1
  Norm <- Norm1
  Sizes = {TRUE, FALSE}
  Call = {c1}
  Caps = {2}
  BatchSize = 1
  Burst = 1
  MaxHead = 3
  Overlap = FALSE
  Crashes = FALSE
PROPERTY EventuallyAnswered
CHECK_DEADLOCK FALSE
