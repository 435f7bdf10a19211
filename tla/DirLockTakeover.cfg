SPECIFICATION Spec
CONSTANTS
  p1 = p1
  p2 = p2
  t1 = t1
  t2 = t2
  t3 = t3
  l1 = l1
  l2 = l2
  Procs = {p1, p2}
  Tokens = {t1, t2, t3}
  Legacies = {l1, l2}
  NoProc = NoProc
  NoToken = NoToken
  MaxAttempts = 2
  MaxAge = 1
  ReclaimLive = TRUE
  Faults = TRUE
SYMMETRY Symmetry
INVARIANTS
  LegacyExclusion
PROPERTIES
  RemovalJustified
CHECK_DEADLOCK FALSE
