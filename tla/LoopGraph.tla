------------------------------ MODULE LoopGraph ------------------------------
(***************************************************************************)
(* The compiled graph of a Loop, as validateClosedIr of                    *)
(* src/loops/dsl/ir-validate.mjs admits it, and its budget.                *)
(***************************************************************************)
EXTENDS Naturals

CONSTANTS
  Nodes,           \* the nodes
  Entry,           \* the node a Run starts at
  Kind,            \* kind of each node: "task" and "review" are agents
  Final,           \* the Run state of each terminal node
  Edge,            \* the target of each declared pair <<node, outcome>>
  MaxVisits,       \* visit limit of each declared pair, 0 for none
  Requires,        \* the evidence the convergence gate asks for
  MaxRounds, MaxAgentRuns, MaxCheckRuns, MaxTransitions   \* the budget

TerminalStates == {"converged", "needs-human", "failed", "stopped", "budget-exhausted"}
SystemKinds == {"error", "timeout", "cancelled", "lost", "exhausted"}

\* The outcomes of a node of each kind (outcomesFor).
Outcomes(k) ==
  CASE k = "task"     -> {"complete"}
    [] k = "review"   -> {"approve", "reject", "escalate"}
    [] k = "check"    -> {"pass", "fail"}
    [] k = "gate"     -> {"pass", "fail"}
    [] k = "terminal" -> {}

Kinds == {"task", "review", "check", "gate", "terminal"}
Agents == {n \in Nodes : Kind[n] \in {"task", "review"}}
Checks == {n \in Nodes : Kind[n] = "check"}

\* targetAllowed: which node may follow which outcome.
Allowed(k, o, m) ==
  \/ k = "task" /\ Kind[m] # "terminal"
  \/ k = "check" /\ o = "pass" /\ Kind[m] \in {"gate", "review"}
  \/ k = "check" /\ o = "fail" /\ Kind[m] = "task"
  \/ k = "review" /\ o \in {"approve", "reject"} /\ Kind[m] # "terminal"
  \/ k = "review" /\ o = "escalate" /\ Kind[m] = "terminal" /\ Final[m] = "needs-human"
  \/ k = "gate" /\ o = "pass" /\ Kind[m] = "terminal" /\ Final[m] = "converged"
  \/ k = "gate" /\ o = "fail" /\ Kind[m] = "terminal" /\ Final[m] = "needs-human"

ASSUME NodeAssumption ==
  /\ Kind \in [Nodes -> Kinds]
  /\ Entry \in Nodes
  /\ Kind[Entry] = "task"
  /\ \E n \in Nodes : Kind[n] = "check"
  /\ \E n \in Nodes : Kind[n] = "gate" /\ \A m \in Nodes : Kind[m] = "gate" => m = n

ASSUME FinalAssumption ==
  /\ Final \in [{n \in Nodes : Kind[n] = "terminal"} -> TerminalStates]
  /\ \A s \in TerminalStates : \E n \in DOMAIN Final : Final[n] = s
  /\ \A m, n \in DOMAIN Final : Final[m] = Final[n] => m = n

ASSUME EdgeAssumption ==
  /\ \A n \in Nodes : \A o \in Outcomes(Kind[n]) :
       /\ <<n, o>> \in DOMAIN Edge
       /\ Edge[<<n, o>>] \in Nodes
       /\ Allowed(Kind[n], o, Edge[<<n, o>>])
  /\ \A d \in DOMAIN Edge : \E n \in Nodes : \E o \in Outcomes(Kind[n]) : d = <<n, o>>
  /\ MaxVisits \in [DOMAIN Edge -> Nat]

ASSUME GateAssumption ==
  /\ Requires # {}
  /\ Requires \subseteq {n \in Nodes : Kind[n] \in {"check", "review"}}

ASSUME BudgetAssumption ==
  /\ MaxRounds \in Nat \ {0}
  /\ MaxAgentRuns \in Nat \ {0}
  /\ MaxCheckRuns \in Nat \ {0}
  /\ MaxTransitions \in Nat \ {0}

\* The state a system outcome ends the Run in (SYSTEM and ATOMIC).
StateOf(kind) ==
  CASE kind \in {"error", "timeout"} -> "failed"
    [] kind = "cancelled"            -> "stopped"
    [] kind = "lost"                 -> "needs-human"
    [] kind = "exhausted"            -> "budget-exhausted"
    [] kind = "converged"            -> "converged"

\* The terminal node of that state: the failure policy and the graph agree.
TerminalOf(kind) == CHOOSE n \in DOMAIN Final : Final[n] = StateOf(kind)

\* terminalKind: the outcome that is recorded for a graph that ended there.
KindOf(state) ==
  CASE state = "converged"        -> "converged"
    [] state = "needs-human"      -> "lost"
    [] state = "failed"           -> "error"
    [] state = "stopped"          -> "cancelled"
    [] state = "budget-exhausted" -> "exhausted"
==============================================================================
