SPECIFICATION Spec
CONSTANTS
  p1 = p1
  p2 = p2
  a = a
  b = b
  l1 = l1
  r1 = r1
  r2 = r2
  w1 = w1
  w2 = w2
  Procs = {p1, p2}
  Items = {a, b}
  LoopItems = {a}
  Loops = {l1}
  Runs = {r1, r2}
  Cands = {w1, w2}
  Direct = Direct
  Dead = Dead
  None = None
  MaxCrashes = 1
SYMMETRY Symmetry
INVARIANTS
  Exclusive
  ReceiptTrue
  Sealable
  OneExecutable
  ClosedIsDone
PROPERTIES
  LedgerKept
  Earned
CHECK_DEADLOCK FALSE
