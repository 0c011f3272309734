SPECIFICATION Spec
CONSTANTS
  a1 = a1
  k1 = k1
  legacy1 = legacy1
  Malformed = Malformed
  Address = {a1}
  Key = {k1}
  Canon <- Canon1
  Norm <- Norm1
  Sizes = {FALSE}
  Call = {c1, c2}
  Caps = {1, 2}
  BatchSize = 1
  Burst = 2
  MaxHead = 2
  Overlap = FALSE
  Crashes = TRUE
INVARIANTS TypeOK NoGap SnapshotsSound PagesComplete
PROPERTIES CursorNeverRegresses ImplementsFeed
CHECK_DEADLOCK FALSE
SYMMETRY Symmetry
