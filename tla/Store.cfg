SPECIFICATION StoreSpec
CONSTANTS
  Server = {s1, s2}
  Versions = {1, 2}
  Owner = {o1}
  Finding = {f1}
  MaxStarts = 3
INVARIANTS StoreTypeOK LabelsKept RemovedIsGone FanoutOwn OpenIsCurrent
SYMMETRY Symmetry
CHECK_DEADLOCK FALSE
