SPECIFICATION Spec
CONSTANTS
  p1 = p1
  p2 = p2
  c1 = c1
  c2 = c2
  Procs = {p1, p2}
  NoProc = NoProc
  Cands = {c1, c2}
  NoCand = NoCand
  Nodes <- GateNodes
  Entry = "implement"
  Kind <- GateKind
  Final <- FinalStates
  Edge <- GateEdge
  MaxVisits <- GateVisits
  Requires <- GateRequires
  MaxRounds = 1
  MaxAgentRuns = 1
  MaxCheckRuns = 1
  MaxTransitions = 5
  JournalMax = 19
  Commands = {}
  MaxCrashes = 0
SYMMETRY Symmetry
INVARIANTS
  CheckKeepsLease
CHECK_DEADLOCK FALSE
