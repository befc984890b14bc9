SPECIFICATION Spec
CONSTANTS
  e1 = e1
  d1 = d1
  d2 = d2
  w1 = w1
  w2 = w2
  f1 = f1
  f2 = f2
  Export = {e1}
  Deletion = {d1, d2}
  Worker = {w1, w2}
  OldFile = {f1}
  NewFile = {}
  None = None
  Production = TRUE
  MaxFaults = 1
  MaxRetries = 1
SYMMETRY Symmetric
INVARIANTS NothingSurvives
CHECK_DEADLOCK FALSE
