SPECIFICATION FeedSpec
CONSTANTS
  e1 = e1
  e2 = e2
  e3 = e3
  r1 = r1
  t1 = t1
  Events = {e1, e2, e3}
  NoEvent = NoEvent
  MaxSeq = 3
  Retention = 1
  Replayers = {r1}
  Tailers = {t1}
  BatchLimit = 2
  Limit = 1
  MaxFaults = 1
SYMMETRY Symmetry
INVARIANTS
  FeedTypeOK
  WindowReadable
  NeverCorrupt
  IndexesCovered
PROPERTIES
  ImplementsLog
  NoneSkipped
  InOrder
CHECK_DEADLOCK FALSE
