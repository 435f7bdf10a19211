SPECIFICATION FairSpec
CONSTANTS
  p1 = p1
  p2 = p2
  c1 = c1
  Procs = {p1, p2}
  NoProc = NoProc
  Cands = {c1}
  NoCand = NoCand
  Nodes <- GateNodes
  Entry = "implement"
  Kind <- GateKind
  Final <- FinalStates
  Edge <- GateEdge
  MaxVisits <- GateVisits
  Requires <- GateRequires
  MaxRounds = 1
  MaxAgentRuns = 1
  MaxCheckRuns = 1
  MaxTransitions = 5
  JournalMax = 17
  Commands = {}
  MaxCrashes = 1
PROPERTIES
  RunnerStops
  AnswerTakesEffect
CHECK_DEADLOCK FALSE
