SPECIFICATION Spec
CONSTANTS
  p1 = p1
  p2 = p2
  c1 = c1
  c2 = c2
  Procs = {p1, p2}
  NoProc = NoProc
  Cands = {c1, c2}
  NoCand = NoCand
  Nodes <- GateNodes
  Entry = "implement"
  Kind <- GateKind
  Final <- FinalStates
  Edge <- GateEdge
  MaxVisits <- GateVisits
  Requires <- GateRequires
  MaxRounds = 1
  MaxAgentRuns = 1
  MaxCheckRuns = 1
  MaxTransitions = 5
  JournalMax = 17
  Commands = {"pause", "stop", "abandon", "reconcile"}
  MaxCrashes = 1
SYMMETRY Symmetry
INVARIANTS
  TypeOK
  AnsweredOnce
  TerminalReserve
  TailFits
  LeaseHasProof
  OneOwner
PROPERTIES
  Fenced
  LeaseKept
  ImplementsContract
CHECK_DEADLOCK FALSE
