------------------------------- MODULE RunFold -------------------------------
(***************************************************************************)
(* What the journal of a Run means: foldStateMachine and foldBudgets as    *)
(* the effect of one more record (After) and the condition under which the *)
(* fold of the longer journal does not throw (Legal).                      *)
(*                                                                         *)
(* Text, digests, findings, telemetry and output bytes are left out.  Node *)
(* starts of agents are too: an agent starts by a bound claim, because     *)
(* production runners hand agents to the host.                             *)
(***************************************************************************)
EXTENDS LoopGraph

CONSTANTS Cands,      \* candidate identities (the contents of the workspace)
          NoCand      \* no candidate

ASSUME CandAssumption == NoCand \notin Cands

NoClaim == [node |-> Entry, att |-> 0, cand |-> NoCand]
Claims == [node : Nodes, att : Nat, cand : Cands \cup {NoCand}]

Results == {"none", "complete", "approve", "reject", "escalate", "pass", "fail"}
             \cup SystemKinds

NoEvidence == [kind |-> "none", cycle |-> 0, cand |-> NoCand]
Evidence == [kind : Results, cycle : Nat, cand : Cands \cup {NoCand}]

Types == {"state-changed", "lease-acquired", "lease-released", "lease-revoked",
          "node-started", "invocation-started", "external-claim-bound",
          "external-report-accepted", "invocation-result", "candidate-bound",
          "system-outcome", "failure-routed", "edge-taken", "terminal-node-committed"}

\* A journal record: its type and the part of the payload that matters.
Kinded == {"state-changed", "terminal-node-committed", "system-outcome"}
Records ==
  [type : {"state-changed"}, kind : {"running", "paused"}, cand : {NoCand}]
    \cup [type : {"terminal-node-committed"}, kind : SystemKinds \cup {"converged"}, cand : {NoCand}]
    \cup [type : {"system-outcome"}, kind : SystemKinds, cand : {NoCand}]
    \cup [type : Types \ Kinded, kind : Results, cand : Cands \cup {NoCand}]

Record(type, kind, cand) == [type |-> type, kind |-> kind, cand |-> cand]
Plain(type) == Record(type, "none", NoCand)
Terminal(kind) == Record("terminal-node-committed", kind, NoCand)

Folds == [state : {"prepared", "running", "paused"} \cup TerminalStates,
          gen : Nat, lease : Nat, node : Nodes, att : [Nodes -> Nat],
          started : BOOLEAN, inv : BOOLEAN, claim : Claims,
          result : Results, system : SystemKinds \cup {"none", "converged"},
          cycle : Nat, ev : [Nodes -> Evidence], cand : Cands \cup {NoCand},
          seq : Nat, rounds : Nat, agentRuns : Nat, checkRuns : Nat,
          transitions : Nat, visits : [DOMAIN Edge -> Nat],
          bound : SUBSET Claims, accepted : SUBSET [claim : Claims, kind : Results]]

\* The fold of the journal createRun writes.
Created ==
  [state |-> "prepared", gen |-> 0, lease |-> 0, node |-> Entry,
   att |-> [n \in Nodes |-> 0], started |-> FALSE, inv |-> FALSE,
   claim |-> NoClaim, result |-> "none", system |-> "none", cycle |-> 0,
   ev |-> [n \in Nodes |-> NoEvidence], cand |-> NoCand, seq |-> 1,
   rounds |-> 0, agentRuns |-> 0, checkRuns |-> 0, transitions |-> 0,
   visits |-> [d \in DOMAIN Edge |-> 0], bound |-> {}, accepted |-> {}]

IsTerminal(r) == r.state \in TerminalStates

\* gateOutcome: every required node's evidence is about this cycle and the
\* current candidate, and favourable.
Favourable(n) == IF Kind[n] = "check" THEN "pass" ELSE "approve"

\* mutant: the cycle of the evidence is not compared
AnyCycle(r, n) == r.ev[n].kind = Favourable(n) /\ r.ev[n].cand = r.cand

Current(r, n) == r.ev[n] = [kind |-> Favourable(n), cycle |-> r.cycle, cand |-> r.cand]

GateOutcome(r) == IF \A n \in Requires : Current(r, n) THEN "pass" ELSE "fail"

------------------------------------------------------------------------------
\* Leaving a node, by an edge or by the failure policy.
Moved(r, n) == [r EXCEPT !.node = n, !.started = FALSE, !.inv = FALSE,
                         !.claim = NoClaim, !.result = "none"]

StateChanged(r, e) ==
  [r EXCEPT !.state = e.kind,
            !.inv = IF e.kind = "paused" /\ r.result = "none" THEN FALSE ELSE @]

LeaseAcquired(r) == [r EXCEPT !.gen = @ + 1, !.lease = r.gen + 1]
LeaseDropped(r) == [r EXCEPT !.lease = 0]

Ended(r, kind) == [r EXCEPT !.lease = 0, !.state = StateOf(kind)]

TerminalCommitted(r, e) ==
  LET n == TerminalOf(e.kind)
      entered == [r EXCEPT !.node = n, !.started = TRUE, !.inv = FALSE,
                           !.result = "none", !.att[n] = @ + 1]
      there == IF r.node = n /\ r.started THEN r ELSE entered
  IN Ended([there EXCEPT !.system = IF @ = "none" THEN e.kind ELSE @], e.kind)

NodeStarted(r) ==
  [r EXCEPT !.started = TRUE, !.att[r.node] = @ + 1,
            !.checkRuns = IF Kind[r.node] = "check" THEN @ + 1 ELSE @]

InvocationStarted(r) == [r EXCEPT !.inv = TRUE]

ClaimBound(r, e) ==
  LET claim == [node |-> r.node, att |-> r.att[r.node] + 1, cand |-> e.cand]
      task == Kind[r.node] = "task"
  IN [r EXCEPT !.started = TRUE, !.inv = TRUE, !.att[r.node] = @ + 1,
               !.claim = claim, !.bound = @ \cup {claim},
               !.cycle = IF task THEN @ + 1 ELSE @,
               !.cand = IF task THEN NoCand ELSE @,
               !.agentRuns = @ + 1,
               !.rounds = IF task THEN @ + 1 ELSE @]

\* A task's report carries no candidate, a review's the current one.
ReportAccepted(r, e) ==
  [r EXCEPT !.result = e.kind, !.claim = NoClaim,
            !.accepted = @ \cup {[claim |-> r.claim, kind |-> e.kind]},
            !.ev[r.node] = [kind |-> e.kind, cycle |-> r.cycle,
                            cand |-> IF Kind[r.node] = "task" THEN NoCand ELSE r.cand]]

InvocationResult(r, e) ==
  IF e.kind \in SystemKinds
    THEN [r EXCEPT !.result = e.kind, !.claim = NoClaim, !.system = e.kind]
    ELSE [r EXCEPT !.result = e.kind, !.claim = NoClaim,
                   !.ev[r.node] = [kind |-> e.kind, cycle |-> r.cycle, cand |-> e.cand]]

CandidateBound(r, e) ==
  [r EXCEPT !.cand = e.cand,
            !.ev[r.node] = [kind |-> "complete", cycle |-> r.cycle, cand |-> e.cand]]

SystemOutcome(r, e) == [r EXCEPT !.system = e.kind]

\* mutant: routed to the name of the state instead of the node
RoutedToState(r) == Moved(r, StateOf(r.system))

FailureRouted(r) == Moved(r, TerminalOf(r.system))

EdgeTaken(r, e) ==
  [Moved(r, Edge[<<r.node, e.kind>>]) EXCEPT
     !.transitions = @ + 1, !.visits[<<r.node, e.kind>>] = @ + 1]

Effect(r, e) ==
  CASE e.type = "state-changed"            -> StateChanged(r, e)
    [] e.type = "lease-acquired"           -> LeaseAcquired(r)
    [] e.type = "lease-released"           -> LeaseDropped(r)
    [] e.type = "lease-revoked"            -> LeaseDropped(r)
    [] e.type = "terminal-node-committed"  -> TerminalCommitted(r, e)
    [] e.type = "node-started"             -> NodeStarted(r)
    [] e.type = "invocation-started"       -> InvocationStarted(r)
    [] e.type = "external-claim-bound"     -> ClaimBound(r, e)
    [] e.type = "external-report-accepted" -> ReportAccepted(r, e)
    [] e.type = "invocation-result"        -> InvocationResult(r, e)
    [] e.type = "candidate-bound"          -> CandidateBound(r, e)
    [] e.type = "system-outcome"           -> SystemOutcome(r, e)
    [] e.type = "failure-routed"           -> FailureRouted(r)
    [] e.type = "edge-taken"               -> EdgeTaken(r, e)

\* The fold of the journal with e appended.
After(r, e) == [Effect(r, e) EXCEPT !.seq = r.seq + 1]

------------------------------------------------------------------------------
\* foldBudgets throws when a limit is passed.
WithinBudget(r) ==
  /\ r.rounds <= MaxRounds
  /\ r.agentRuns <= MaxAgentRuns
  /\ r.checkRuns <= MaxCheckRuns
  /\ r.transitions <= MaxTransitions
  /\ \A d \in DOMAIN Edge : MaxVisits[d] # 0 => r.visits[d] <= MaxVisits[d]

Control(from, to) ==
  \/ from \in {"prepared", "paused"} /\ to = "running"
  \/ from = "running" /\ to = "paused"

\* mutant: any declared edge may be taken at any time
AnyOutcome(r, e) == TRUE

\* An edge follows the result its node has now.
CurrentOutcome(r, e) == e.kind = IF Kind[r.node] = "gate" THEN GateOutcome(r) ELSE r.result

\* Records of a Run that is being advanced: under a lease, while running.
ActiveLegal(r, e) ==
  CASE e.type = "node-started" -> ~r.started
    [] e.type = "invocation-started" ->
         r.started /\ ~r.inv /\ Kind[r.node] \in {"task", "review", "check"}
    [] e.type = "external-claim-bound" ->
         ~r.started /\ ~r.inv /\ r.claim = NoClaim /\ r.result = "none" /\ r.node \in Agents
    [] e.type = "external-report-accepted" ->
         r.inv /\ r.result = "none" /\ r.claim # NoClaim /\ e.kind \in Outcomes(Kind[r.node])
    [] e.type = "invocation-result" ->
         /\ r.inv /\ r.result = "none"
         /\ e.kind \in SystemKinds \cup Outcomes(Kind[r.node])
         /\ e.cand = r.cand
    [] e.type = "candidate-bound" ->
         Kind[r.node] = "task" /\ r.result = "complete" /\ r.cand = NoCand
    [] e.type = "system-outcome" -> r.system = "none"
    [] e.type = "failure-routed" -> r.system # "none" /\ r.node # TerminalOf(r.system)
    [] e.type = "edge-taken" -> <<r.node, e.kind>> \in DOMAIN Edge /\ CurrentOutcome(r, e)

Legal(r, e) ==
  /\ CASE e.type = "state-changed" -> Control(r.state, e.kind)
       [] e.type = "lease-acquired" -> r.state = "running" /\ r.lease = 0
       [] e.type \in {"lease-released", "lease-revoked"} -> r.lease # 0
       [] e.type = "terminal-node-committed" ->
            ~IsTerminal(r) /\ (r.system = "none" \/ r.system = e.kind)
       [] OTHER -> r.lease # 0 /\ r.state = "running" /\ ActiveLegal(r, e)
  /\ WithinBudget(After(r, e))
==============================================================================
