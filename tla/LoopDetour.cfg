SPECIFICATION Spec
CONSTANTS
  p1 = p1
  c1 = c1
  c2 = c2
  Procs = {p1}
  NoProc = NoProc
  Cands = {c1, c2}
  NoCand = NoCand
  Nodes <- DetourNodes
  Entry = "implement"
  Kind <- DetourKind
  Final <- FinalStates
  Edge <- DetourEdge
  MaxVisits <- DetourVisits
  Requires <- DetourRequires
  MaxRounds = 3
  MaxAgentRuns = 4
  MaxCheckRuns = 3
  MaxTransitions = 9
  JournalMax = 60
  Commands = {}
  MaxCrashes = 0
SYMMETRY Symmetry
INVARIANTS
  ConvergedOnEvidence
  AnswerWholeInBudget
PROPERTY ReviewedWasChecked
CHECK_DEADLOCK FALSE
