SPECIFICATION Spec
CONSTANTS
  p1 = p1
  c1 = c1
  c2 = c2
  Procs = {p1}
  NoProc = NoProc
  Cands = {c1, c2}
  NoCand = NoCand
  Nodes <- ReviewNodes
  Entry = "implement"
  Kind <- ReviewKind
  Final <- FinalStates
  Edge <- ReviewEdge
  MaxVisits <- ReviewVisits
  Requires <- ReviewRequires
  MaxRounds = 3
  MaxAgentRuns = 6
  MaxCheckRuns = 3
  MaxTransitions = 12
  JournalMax = 60
  Commands = {}
  MaxCrashes = 0
SYMMETRY Symmetry
INVARIANTS
  AnswerIsWhole
CHECK_DEADLOCK FALSE
