SPECIFICATION FairSpec
CONSTANTS
  p1 = p1
  p2 = p2
  t1 = t1
  t2 = t2
  l1 = l1
  Procs = {p1, p2}
  Tokens = {t1, t2}
  Legacies = {l1}
  NoProc = NoProc
  NoToken = NoToken
  MaxAttempts = 2
  MaxAge = 2
  ReclaimLive = TRUE
  Faults = FALSE
INVARIANTS
  MutualExclusion
PROPERTIES
  ImplementsLock
  CallReturns
  DeadOwnerReclaimed
CHECK_DEADLOCK FALSE
