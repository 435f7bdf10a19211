------------------------------ MODULE MCLoopRun ------------------------------
(***************************************************************************)
(* Finite instances of LoopRun: the graphs of loops/gate/gate.loop and     *)
(* loops/review/review.loop with smaller budgets.                          *)
(***************************************************************************)
EXTENDS LoopRun, TLC

TerminalNodes == {"completed", "needs-human", "failed", "stopped", "exhausted"}

FinalStates ==
  [n \in TerminalNodes |->
     CASE n = "completed" -> "converged"
       [] n = "exhausted" -> "budget-exhausted"
       [] OTHER -> n]

KindOfNode ==
  [implement |-> "task", validate |-> "check", review |-> "review", converged |-> "gate"]
    @@ [n \in TerminalNodes |-> "terminal"]

\* loops/gate/gate.loop
GateKind == [n \in TerminalNodes \cup {"implement", "validate", "converged"} |-> KindOfNode[n]]
GateNodes == DOMAIN GateKind
GateEdge ==
  (<<"implement", "complete">> :> "validate")
    @@ (<<"validate", "pass">> :> "converged")
    @@ (<<"validate", "fail">> :> "implement")
    @@ (<<"converged", "pass">> :> "completed")
    @@ (<<"converged", "fail">> :> "needs-human")
GateVisits == [d \in DOMAIN GateEdge |-> IF d = <<"validate", "fail">> THEN 1 ELSE 0]
GateRequires == {"validate"}

\* loops/review/review.loop
ReviewKind == KindOfNode
ReviewNodes == DOMAIN ReviewKind
ReviewEdge ==
  (<<"implement", "complete">> :> "validate")
    @@ (<<"validate", "pass">> :> "review")
    @@ (<<"validate", "fail">> :> "implement")
    @@ (<<"review", "approve">> :> "converged")
    @@ (<<"review", "reject">> :> "implement")
    @@ (<<"review", "escalate">> :> "needs-human")
    @@ (<<"converged", "pass">> :> "completed")
    @@ (<<"converged", "fail">> :> "needs-human")
ReviewVisits ==
  [d \in DOMAIN ReviewEdge |->
     IF d \in {<<"validate", "fail">>, <<"review", "reject">>} THEN 1 ELSE 0]
ReviewRequires == {"validate", "review"}

\* A graph in which one rework goes round the check and one round the
\* review, so that evidence of an earlier cycle is met again.  The edges with
\* a limit are its back edges (backEdges of dsl/ir-validate.mjs).
DetourKind ==
  [implement |-> "task", amend |-> "task", rework |-> "task", review |-> "review",
   validate |-> "check", recheck |-> "check", converged |-> "gate"]
    @@ [n \in TerminalNodes |-> "terminal"]
DetourNodes == DOMAIN DetourKind
DetourEdge ==
  (<<"implement", "complete">> :> "validate")
    @@ (<<"validate", "pass">> :> "review")
    @@ (<<"validate", "fail">> :> "implement")
    @@ (<<"review", "approve">> :> "recheck")
    @@ (<<"review", "reject">> :> "amend")
    @@ (<<"review", "escalate">> :> "needs-human")
    @@ (<<"amend", "complete">> :> "review")
    @@ (<<"recheck", "pass">> :> "converged")
    @@ (<<"recheck", "fail">> :> "rework")
    @@ (<<"rework", "complete">> :> "recheck")
    @@ (<<"converged", "pass">> :> "completed")
    @@ (<<"converged", "fail">> :> "needs-human")
DetourVisits ==
  [d \in DOMAIN DetourEdge |->
     IF d \in {<<"validate", "fail">>, <<"amend", "complete">>,
               <<"rework", "complete">>} THEN 1 ELSE 0]
DetourRequires == {"review", "recheck"}

\* Processes are interchangeable, and so are candidates.
Symmetry == Permutations(Procs) \cup Permutations(Cands)
==============================================================================
