--------------------------- MODULE LoopClaimProofs ---------------------------
(***************************************************************************)
(* What a Run's claims and evidence guarantee, for every loop graph,       *)
(* budget and number of processes: a claim has one answer, an edge out of  *)
(* an agent is paid for by an answer, and neither an approval nor          *)
(* convergence rests on evidence of an earlier cycle or another candidate. *)
(*                                                                         *)
(* The journal grows in one place (OnlyPublish), so the facts about it     *)
(* need only be kept by one more record (AnswersAfter, EvidenceAfter).     *)
(* That a record folds is not enough for some of them: what an operation   *)
(* has looked at when it set out (Meant) is still so when its record is    *)
(* published, because it has the lock (IntentStep).                        *)
(***************************************************************************)
EXTENDS LoopRunProofs, FiniteSetTheorems, SequenceTheorems

\* The answers that pay for the edge d.
Answers(r, d) == {a \in r.accepted : a.claim.node = d[1] /\ a.kind = d[2]}

\* What holds of the claims of a Run.  The current claim is the last one of
\* the node the Run is at, and unanswered; a result of that node is an answer
\* that has not yet been used.
Unique(r) == \A a, b \in r.accepted : a.claim = b.claim => a = b
Numbers(r) == \A a \in r.accepted : a.claim.att <= r.att[a.claim.node]
Paid(r) == \A d \in DOMAIN Edge : d[1] \in Agents => r.visits[d] <= Cardinality(Answers(r, d))
Open(r) ==
  /\ ~r.started => r.claim = NoClaim
  /\ r.claim # NoClaim =>
       /\ r.claim.node = r.node
       /\ r.claim.att = r.att[r.node]
       /\ \A a \in r.accepted : a.claim # r.claim
Due(r) ==
  \A d \in DOMAIN Edge :
    d[1] \in Agents /\ d = <<r.node, r.result>> => r.visits[d] < Cardinality(Answers(r, d))

Answered(r) ==
  /\ IsFiniteSet(r.accepted)
  /\ Unique(r)
  /\ Numbers(r)
  /\ Paid(r)
  /\ ~IsTerminal(r) => Open(r) /\ Due(r)

\* What holds of its evidence.  A Run is at its converged node, or has
\* converged, only on evidence of this cycle and candidate.
Proven(r) == r.cand \in Cands /\ \A n \in Requires : Current(r, n)
Evident(r) ==
  /\ \A n \in Nodes : r.ev[n].kind \in {"pass", "approve"} => r.ev[n].cand \in Cands
  /\ r.state = "converged" => Proven(r)
  /\ ~IsTerminal(r) =>
       /\ r.system # "converged"
       /\ r.claim # NoClaim => r.node \in Agents
       /\ r.node \in DOMAIN Final /\ Final[r.node] = "converged" => Proven(r)
       /\ Kind[r.node] = "review" /\ r.claim # NoClaim => Checked(r, r.claim.cand)

\* What the operation has made sure of before it appends a record.
Meant(r, e) ==
  /\ e.type = "invocation-result" =>
       e.kind \in {"pass", "fail"} \cup SystemKinds /\ (e.kind = "pass" => e.cand \in Cands)
  /\ e.type = "external-claim-bound" /\ Kind[r.node] = "review" => Checked(r, e.cand)
  /\ e.type = "external-report-accepted" /\ Kind[r.node] = "review" =>
       r.cand \in Cands /\ r.claim.cand = r.cand
  /\ e.type = "terminal-node-committed" /\ e.kind = "converged" =>
       r.node \in DOMAIN Final /\ Final[r.node] = "converged"

\* The records that need nothing of the kind.
Trailing == {"candidate-bound", "edge-taken", "lease-acquired", "lease-released"}
Intent(r, s) ==
  /\ s # <<>> => Meant(r, s[1])
  /\ \A i \in 2..Len(s) : s[i].type \in Trailing

\* The invariant.
CInv == Answered(run) /\ Evident(run) /\ Intent(run, op.do)
------------------------------------------------------------------------------
\* The pairs a graph has edges for are nodes with their outcomes.
LEMMA EdgePair ==
  ASSUME NEW d \in DOMAIN Edge
  PROVE  d[1] \in Nodes /\ d[2] \in Outcomes(Kind[d[1]]) /\ d = <<d[1], d[2]>>
BY EdgeAssumption

\* An agent's outcome is neither a check's nor the system's.
LEMMA AgentOutcome ==
  ASSUME NEW n \in Agents
  PROVE  Outcomes(Kind[n]) \cap ({"none", "pass", "fail"} \cup SystemKinds) = {}
BY NodeAssumption DEF Agents, Outcomes, Kinds, SystemKinds

\* Records that change neither claims nor answers.
Quiet == {"state-changed", "lease-acquired", "lease-released", "lease-revoked",
          "invocation-started", "candidate-bound", "system-outcome"}

\* One more record keeps what holds of the claims.
LEMMA AnswersAfter ==
  ASSUME NEW r \in Folds, NEW e \in Records, Legal(r, e), Meant(r, e),
         IsTerminal(r) => r.lease = 0, Answered(r)
  PROVE  Answered(After(r, e))
<1> DEFINE s == Effect(r, e)
           t == After(r, e)
<1> SUFFICES Answered(t)
  OBVIOUS
<1>1. ~IsTerminal(r) /\ (IsTerminal(t) <=> e.type = "terminal-node-committed")
  BY AfterControl
<1>2. /\ s \in Folds
      /\ t.accepted = s.accepted /\ t.att = s.att /\ t.visits = s.visits
      /\ t.started = s.started /\ t.claim = s.claim /\ t.node = s.node
      /\ t.result = s.result
  BY EffectType DEF After, Folds
<1>3. /\ IsFiniteSet(r.accepted) /\ Unique(r) /\ Numbers(r) /\ Paid(r) /\ Open(r) /\ Due(r)
  BY <1>1 DEF Answered
<1>a. /\ r.node \in Nodes /\ r.att \in [Nodes -> Nat] /\ r.visits \in [DOMAIN Edge -> Nat]
      /\ r.claim \in Claims /\ r.accepted \subseteq [claim : Claims, kind : Results]
  BY DEF Folds
<1>b. \A a \in r.accepted : a.claim.node \in Nodes /\ a.claim.att \in Nat /\ a.claim \in Claims
  BY <1>a DEF Claims
<1> HIDE DEF t
<1>4. CASE e.type \in Quiet
  <2>1. /\ s.accepted = r.accepted /\ s.att = r.att /\ s.visits = r.visits
        /\ s.started = r.started /\ s.claim = r.claim /\ s.node = r.node /\ s.result = r.result
    BY <1>4 DEF Quiet, Effect, Folds, StateChanged, LeaseAcquired, LeaseDropped,
                InvocationStarted, CandidateBound, SystemOutcome
  <2> HIDE DEF s
  <2> QED
    BY <1>2, <1>3, <2>1 DEF Answered, Unique, Numbers, Paid, Open, Due, Answers
<1>5. CASE e.type = "terminal-node-committed"
  <2> DEFINE n == TerminalOf(e.kind)
  <2>1. s.accepted = r.accepted /\ s.visits = r.visits
    BY <1>5 DEF Effect, TerminalCommitted, Ended, Folds
  <2>2. s.att = r.att \/ s.att = [r.att EXCEPT ![n] = @ + 1]
    BY <1>5, Zenon DEF Effect, TerminalCommitted, Ended, Folds
  <2>3. \A m \in Nodes : r.att[m] <= s.att[m]
    BY <1>a, <2>2
  <2>4. Numbers(t)
    <3>1. s.att \in [Nodes -> Nat]
      BY <1>2 DEF Folds
    <3> QED
      BY <1>2, <1>3, <1>a, <1>b, <2>1, <2>3, <3>1 DEF Numbers
  <2> HIDE DEF s
  <2> QED
    BY <1>1, <1>2, <1>3, <1>5, <2>1, <2>4 DEF Answered, Unique, Paid, Answers
<1>6. CASE e.type = "node-started"
  <2>1. ~r.started
    BY <1>6 DEF Legal, ActiveLegal
  <2>2. /\ s.accepted = r.accepted /\ s.visits = r.visits /\ s.claim = r.claim
        /\ s.node = r.node /\ s.result = r.result
        /\ s.att = [r.att EXCEPT ![r.node] = @ + 1]
    BY <1>6, Zenon DEF Effect, NodeStarted, Folds
  <2>3. Numbers(t)
    BY <1>2, <1>3, <1>a, <1>b, <2>2 DEF Numbers
  <2>4. t.claim = NoClaim
    BY <1>2, <1>3, <2>1, <2>2 DEF Open
  <2> HIDE DEF s
  <2> QED
    BY <1>2, <1>3, <2>2, <2>3, <2>4 DEF Answered, Unique, Paid, Open, Due, Answers
<1>7. CASE e.type = "external-claim-bound"
  <2> DEFINE claim == [node |-> r.node, att |-> r.att[r.node] + 1, cand |-> e.cand]
  <2>1. /\ s.accepted = r.accepted /\ s.visits = r.visits /\ s.claim = claim
        /\ s.node = r.node /\ s.result = r.result /\ s.started = TRUE
        /\ s.att = [r.att EXCEPT ![r.node] = @ + 1]
    BY <1>7, Zenon DEF Effect, ClaimBound, Folds
  <2>2. Numbers(t)
    BY <1>2, <1>3, <1>a, <1>b, <2>1 DEF Numbers
  <2>3. \A a \in r.accepted : a.claim # claim
    BY <1>3, <1>a, <1>b DEF Numbers
  <2>4. Open(t)
    BY <1>2, <1>a, <2>1, <2>3 DEF Open
  <2> HIDE DEF s, claim
  <2> QED
    BY <1>2, <1>3, <2>1, <2>2, <2>4 DEF Answered, Unique, Paid, Due, Answers
<1>8. CASE e.type = "external-report-accepted"
  <2> DEFINE a == [claim |-> r.claim, kind |-> e.kind]
  <2>1. /\ s.accepted = r.accepted \cup {a} /\ s.visits = r.visits /\ s.claim = NoClaim
        /\ s.node = r.node /\ s.result = e.kind /\ s.started = r.started /\ s.att = r.att
    BY <1>8, Zenon DEF Effect, ReportAccepted, Folds
  <2>2. r.claim # NoClaim
    BY <1>8 DEF Legal, ActiveLegal
  <2>3. /\ a \notin r.accepted /\ a.claim = r.claim /\ a.kind = e.kind
        /\ a.claim.node = r.node /\ a.claim.att = r.att[r.node]
        /\ \A b \in r.accepted : b.claim # a.claim
    BY <1>3, <2>2 DEF Open
  <2> HIDE DEF s, a
  <2>4. IsFiniteSet(t.accepted)
    BY <1>2, <1>3, <2>1, FS_AddElement
  <2>5. Unique(t)
    BY <1>2, <1>3, <2>1, <2>3 DEF Unique
  <2>6. Numbers(t)
    BY <1>2, <1>3, <1>a, <1>b, <2>1, <2>3 DEF Numbers
  <2>7. ASSUME NEW d \in DOMAIN Edge, d[1] \in Agents
        PROVE  /\ t.visits[d] <= Cardinality(Answers(t, d))
               /\ d = <<t.node, t.result>> => t.visits[d] < Cardinality(Answers(t, d))
    <3>1. r.visits[d] <= Cardinality(Answers(r, d)) /\ r.visits[d] \in Nat
      BY <1>3, <1>a, <2>7 DEF Paid
    <3>2. IsFiniteSet(Answers(r, d)) /\ Cardinality(Answers(r, d)) \in Nat
      <4>1. Answers(r, d) \in SUBSET r.accepted
        BY DEF Answers
      <4> QED
        BY <1>3, <4>1, FS_Subset, FS_CardinalityType
    <3>3. CASE d = <<r.node, e.kind>>
      <4>1. Answers(t, d) = Answers(r, d) \cup {a} /\ a \notin Answers(r, d)
        BY <1>2, <2>1, <2>3, <3>3 DEF Answers
      <4>2. Cardinality(Answers(t, d)) = Cardinality(Answers(r, d)) + 1
        BY <3>2, <4>1, FS_AddElement
      <4> QED
        BY <1>2, <2>1, <3>1, <3>2, <4>2
    <3>4. CASE d # <<r.node, e.kind>>
      <4>1. ~(a.claim.node = d[1] /\ a.kind = d[2])
        BY <2>3, <3>4, EdgePair
      <4>2. Answers(t, d) = Answers(r, d)
        BY <1>2, <2>1, <4>1 DEF Answers
      <4> QED
        BY <1>2, <2>1, <3>1, <3>4, <4>2
    <3> QED
      BY <3>3, <3>4
  <2>8. Paid(t) /\ Due(t)
    BY <2>7 DEF Paid, Due
  <2>9. Open(t)
    BY <1>2, <2>1 DEF Open
  <2> QED
    BY <2>4, <2>5, <2>6, <2>8, <2>9 DEF Answered
<1>9. CASE e.type = "invocation-result"
  <2>1. /\ s.accepted = r.accepted /\ s.att = r.att /\ s.visits = r.visits
        /\ s.claim = NoClaim /\ s.node = r.node /\ s.result = e.kind
    BY <1>9 DEF Effect, InvocationResult, Folds
  <2>2. e.kind \in {"pass", "fail"} \cup SystemKinds
    BY <1>9 DEF Meant
  <2> HIDE DEF s
  <2>3. Due(t)
    <3> SUFFICES ASSUME NEW d \in DOMAIN Edge, d[1] \in Agents, d = <<t.node, t.result>>
                 PROVE  FALSE
      BY DEF Due
    <3>1. d[2] \in Outcomes(Kind[d[1]]) /\ d[2] = e.kind
      BY <1>2, <2>1, EdgePair
    <3> QED
      BY <2>2, <3>1, AgentOutcome
  <2> QED
    BY <1>2, <1>3, <2>1, <2>3 DEF Answered, Unique, Numbers, Paid, Open, Answers
<1>10. ASSUME t.node \in Nodes, t.result = "none" PROVE Due(t)
  <2> SUFFICES ASSUME NEW d \in DOMAIN Edge, d[1] \in Agents, d = <<t.node, t.result>>
               PROVE  FALSE
    BY DEF Due
  <2>1. d[2] \in Outcomes(Kind[d[1]]) /\ d[2] = "none"
    BY <1>10, EdgePair
  <2> QED
    BY <2>1, AgentOutcome
<1>11. CASE e.type = "failure-routed"
  <2>1. /\ s.accepted = r.accepted /\ s.att = r.att /\ s.visits = r.visits
        /\ s.claim = NoClaim /\ s.result = "none"
    BY <1>11 DEF Effect, FailureRouted, Moved, Folds
  <2>2. t.node \in Nodes
    BY <1>2 DEF Folds
  <2> HIDE DEF s
  <2> QED
    BY <1>2, <1>3, <1>10, <2>1, <2>2 DEF Answered, Unique, Numbers, Paid, Open, Answers
<1>12. CASE e.type = "edge-taken"
  <2> DEFINE d == <<r.node, e.kind>>
  <2>1. d \in DOMAIN Edge /\ CurrentOutcome(r, e)
    BY <1>12 DEF Legal, ActiveLegal
  <2>2. /\ s.accepted = r.accepted /\ s.att = r.att
        /\ s.visits = [r.visits EXCEPT ![d] = @ + 1]
        /\ s.claim = NoClaim /\ s.result = "none"
    BY <1>12, Zenon DEF Effect, EdgeTaken, Moved, Folds
  <2>3. t.node \in Nodes
    BY <1>2 DEF Folds
  <2>4. d[1] \in Agents => r.visits[d] < Cardinality(Answers(r, d))
    <3>1. d[1] \in Agents => d = <<r.node, r.result>>
      BY <2>1 DEF CurrentOutcome, Agents
    <3> QED
      BY <1>3, <2>1, <3>1 DEF Due
  <2> HIDE DEF s
  <2>5. Paid(t)
    <3> SUFFICES ASSUME NEW f \in DOMAIN Edge, f[1] \in Agents
                 PROVE  t.visits[f] <= Cardinality(Answers(t, f))
      BY DEF Paid
    <3>1. Answers(t, f) = Answers(r, f)
      BY <1>2, <2>2 DEF Answers
    <3>2. Cardinality(Answers(r, f)) \in Nat
      <4>1. Answers(r, f) \in SUBSET r.accepted
        BY DEF Answers
      <4> QED
        BY <1>3, <4>1, FS_Subset, FS_CardinalityType
    <3>3. r.visits[f] <= Cardinality(Answers(r, f))
      BY <1>3 DEF Paid
    <3> HIDE DEF d
    <3>4. CASE f = d
      BY <1>2, <1>a, <2>1, <2>2, <2>4, <3>1, <3>2, <3>4
    <3>5. CASE f # d
      BY <1>2, <1>a, <2>2, <3>1, <3>3, <3>5
    <3> QED
      BY <3>4, <3>5
  <2> QED
    BY <1>2, <1>3, <1>10, <2>2, <2>3, <2>5 DEF Answered, Unique, Numbers, Open
<1> QED
  BY <1>4, <1>5, <1>6, <1>7, <1>8, <1>9, <1>11, <1>12 DEF Records, Types, Kinded, Quiet

\* A gate's pass leads to the converged node, and nothing else does.
LEMMA ConvergedEdge ==
  ASSUME NEW d \in DOMAIN Edge, Edge[d] \in DOMAIN Final, Final[Edge[d]] = "converged"
  PROVE  Kind[d[1]] = "gate" /\ d[2] = "pass"
<1>1. PICK n \in Nodes : \E o \in Outcomes(Kind[n]) : d = <<n, o>>
  BY EdgeAssumption
<1>2. PICK o \in Outcomes(Kind[n]) : d = <<n, o>>
  BY <1>1
<1>3. Allowed(Kind[n], o, Edge[d])
  BY <1>2, EdgeAssumption
<1>4. Kind[Edge[d]] = "terminal" /\ Final[Edge[d]] # "needs-human"
  BY FinalAssumption
<1> QED
  BY <1>2, <1>3, <1>4 DEF Allowed

\* The failure policy never leads there.
LEMMA PolicyNode ==
  ASSUME NEW kind \in SystemKinds
  PROVE  TerminalOf(kind) \in DOMAIN Final /\ Final[TerminalOf(kind)] # "converged"
<1>1. StateOf(kind) \in TerminalStates /\ StateOf(kind) # "converged"
  BY DEF SystemKinds, StateOf, TerminalStates
<1>2. PICK n \in DOMAIN Final : Final[n] = StateOf(kind)
  BY <1>1, FinalAssumption
<1>3. TerminalOf(kind) \in DOMAIN Final /\ Final[TerminalOf(kind)] = StateOf(kind)
  BY <1>2 DEF TerminalOf
<1> QED
  BY <1>1, <1>3

\* One more record keeps what holds of the evidence.
LEMMA EvidenceAfter ==
  ASSUME NEW r \in Folds, NEW e \in Records, Legal(r, e), Meant(r, e),
         IsTerminal(r) => r.lease = 0, Evident(r)
  PROVE  Evident(After(r, e))
<1> DEFINE s == Effect(r, e)
           t == After(r, e)
<1> SUFFICES Evident(t)
  OBVIOUS
<1>1. ~IsTerminal(r) /\ (IsTerminal(t) <=> e.type = "terminal-node-committed")
  BY AfterControl
<1>2. /\ s \in Folds
      /\ t.ev = s.ev /\ t.cand = s.cand /\ t.cycle = s.cycle /\ t.state = s.state
      /\ t.system = s.system /\ t.claim = s.claim /\ t.node = s.node
  BY EffectType DEF After, Folds
<1>3. /\ \A n \in Nodes : r.ev[n].kind \in {"pass", "approve"} => r.ev[n].cand \in Cands
      /\ r.system # "converged"
      /\ r.claim # NoClaim => r.node \in Agents
      /\ r.node \in DOMAIN Final /\ Final[r.node] = "converged" => Proven(r)
      /\ Kind[r.node] = "review" /\ r.claim # NoClaim => Checked(r, r.claim.cand)
  BY <1>1 DEF Evident
<1>a. /\ r.node \in Nodes /\ r.ev \in [Nodes -> Evidence]
      /\ r.system \in SystemKinds \cup {"none", "converged"}
  BY DEF Folds
<1>b. Checks \subseteq Nodes /\ Requires \subseteq Nodes /\ DOMAIN Final \subseteq Nodes
  BY GateAssumption, FinalAssumption DEF Checks
<1>c. \A n \in DOMAIN Final : Kind[n] = "terminal"
  BY FinalAssumption
<1>d. Outcomes("terminal") = {}
  BY DEF Outcomes
<1>e. t.state = "converged" => IsTerminal(t)
  BY DEF IsTerminal, TerminalStates
<1> HIDE DEF t
<1>4. CASE e.type \in {"state-changed", "lease-acquired", "lease-released", "lease-revoked",
                       "invocation-started", "node-started"}
  <2>1. /\ s.ev = r.ev /\ s.cand = r.cand /\ s.cycle = r.cycle
        /\ s.system = r.system /\ s.claim = r.claim /\ s.node = r.node
    BY <1>4 DEF Effect, Folds, StateChanged, LeaseAcquired, LeaseDropped,
                InvocationStarted, NodeStarted
  <2> HIDE DEF s
  <2> QED
    BY <1>1, <1>2, <1>3, <1>4, <1>e, <2>1 DEF Evident, Proven, Current, Checked
<1>5. CASE e.type = "terminal-node-committed"
  <2>1. s.ev = r.ev /\ s.cand = r.cand /\ s.cycle = r.cycle /\ s.state = StateOf(e.kind)
    BY <1>5, Zenon DEF Effect, TerminalCommitted, Ended, Folds
  <2>2. e.kind \in SystemKinds \cup {"converged"}
    BY <1>5 DEF Records, Types, Kinded
  <2>3. s.state = "converged" => e.kind = "converged"
    BY <2>1, <2>2 DEF StateOf, SystemKinds
  <2> HIDE DEF s
  <2> QED
    BY <1>1, <1>2, <1>3, <1>5, <2>1, <2>3 DEF Evident, Proven, Current, Meant
<1>6. CASE e.type = "external-claim-bound"
  <2> DEFINE claim == [node |-> r.node, att |-> r.att[r.node] + 1, cand |-> e.cand]
  <2>1. /\ s.ev = r.ev /\ s.system = r.system /\ s.node = r.node /\ s.claim = claim
        /\ Kind[r.node] # "task" => s.cand = r.cand /\ s.cycle = r.cycle
    BY <1>6, Zenon DEF Effect, ClaimBound, Folds
  <2>2. r.node \in Agents
    BY <1>6 DEF Legal, ActiveLegal
  <2>3. r.node \notin DOMAIN Final
    BY <1>c, <2>2 DEF Agents
  <2>4. Kind[r.node] = "review" => Checked(t, claim.cand)
    BY <1>2, <1>6, <2>1 DEF Meant, Checked
  <2> HIDE DEF s, claim
  <2> QED
    BY <1>1, <1>2, <1>3, <1>6, <1>e, <2>1, <2>2, <2>3, <2>4 DEF Evident
<1>7. CASE e.type = "external-report-accepted"
  <2> DEFINE cand == IF Kind[r.node] = "task" THEN NoCand ELSE r.cand
             v == [kind |-> e.kind, cycle |-> r.cycle, cand |-> cand]
  <2>1. /\ s.ev = [r.ev EXCEPT ![r.node] = v] /\ s.system = r.system /\ s.node = r.node
        /\ s.claim = NoClaim
    BY <1>7, Zenon DEF Effect, ReportAccepted, Folds
  <2>2. e.kind \in Outcomes(Kind[r.node]) /\ r.claim # NoClaim
    BY <1>7 DEF Legal, ActiveLegal
  <2>3. r.node \notin DOMAIN Final
    BY <1>c, <1>d, <2>2
  <2>4. e.kind \in {"pass", "approve"} => Kind[r.node] = "review"
    BY <1>3, <2>2, AgentOutcome DEF Agents, Outcomes
  <2>5. v.kind \in {"pass", "approve"} => v.cand \in Cands
    BY <1>7, <2>4 DEF Meant
  <2> HIDE DEF s, v
  <2> QED
    BY <1>1, <1>2, <1>3, <1>7, <1>a, <1>e, <2>1, <2>3, <2>5 DEF Evident
<1>8. CASE e.type = "invocation-result"
  <2> DEFINE v == [kind |-> e.kind, cycle |-> r.cycle, cand |-> e.cand]
             told == [r.ev EXCEPT ![r.node] = v]
  <2>1. /\ s.cand = r.cand /\ s.cycle = r.cycle /\ s.node = r.node /\ s.claim = NoClaim
        /\ e.kind \in SystemKinds => s.ev = r.ev /\ s.system = e.kind
        /\ e.kind \notin SystemKinds => s.ev = told /\ s.system = r.system
    BY <1>8, Zenon DEF Effect, InvocationResult, Folds
  <2>2. /\ e.kind \in {"pass", "fail"} \cup SystemKinds
        /\ e.kind = "pass" => e.cand \in Cands
    BY <1>8 DEF Meant
  <2>3. e.kind \in SystemKinds \cup Outcomes(Kind[r.node])
    BY <1>8 DEF Legal, ActiveLegal
  <2>4. CASE e.kind \in SystemKinds
    <3>1. e.kind # "converged"
      BY <2>4 DEF SystemKinds
    <3> HIDE DEF s
    <3> QED
      BY <1>1, <1>2, <1>3, <1>8, <1>e, <2>1, <2>4, <3>1 DEF Evident, Proven, Current
  <2>5. CASE e.kind \notin SystemKinds
    <3>1. r.node \notin DOMAIN Final
      BY <1>c, <1>d, <2>3, <2>5
    <3>2. v.kind \in {"pass", "approve"} => v.cand \in Cands
      BY <2>2, <2>5
    <3> HIDE DEF s, v
    <3> QED
      BY <1>1, <1>2, <1>3, <1>8, <1>a, <1>e, <2>1, <2>5, <3>1, <3>2 DEF Evident
  <2> QED
    BY <2>4, <2>5
<1>9. CASE e.type = "candidate-bound"
  <2> DEFINE v == [kind |-> "complete", cycle |-> r.cycle, cand |-> e.cand]
  <2>1. /\ s.ev = [r.ev EXCEPT ![r.node] = v] /\ s.system = r.system /\ s.node = r.node
        /\ s.claim = r.claim
    BY <1>9, Zenon DEF Effect, CandidateBound, Folds
  <2>2. Kind[r.node] = "task"
    BY <1>9 DEF Legal, ActiveLegal
  <2>3. r.node \notin DOMAIN Final
    BY <1>c, <2>2
  <2>4. v.kind \notin {"pass", "approve"}
    OBVIOUS
  <2> HIDE DEF s, v
  <2> QED
    BY <1>1, <1>2, <1>3, <1>9, <1>a, <1>e, <2>1, <2>2, <2>3, <2>4 DEF Evident
<1>10. CASE e.type = "system-outcome"
  <2>1. /\ s.ev = r.ev /\ s.cand = r.cand /\ s.cycle = r.cycle
        /\ s.system = e.kind /\ s.claim = r.claim /\ s.node = r.node
    BY <1>10 DEF Effect, SystemOutcome, Folds
  <2>2. e.kind # "converged"
    BY <1>10 DEF Records, Types, Kinded, SystemKinds
  <2> HIDE DEF s
  <2> QED
    BY <1>1, <1>2, <1>3, <1>10, <1>e, <2>1, <2>2 DEF Evident, Proven, Current, Checked
<1>11. CASE e.type = "failure-routed"
  <2>1. /\ s.ev = r.ev /\ s.system = r.system /\ s.claim = NoClaim
        /\ s.node = TerminalOf(r.system)
    BY <1>11 DEF Effect, FailureRouted, Moved, Folds
  <2>2. r.system \in SystemKinds
    BY <1>3, <1>11, <1>a DEF Legal, ActiveLegal
  <2>3. Final[s.node] # "converged"
    BY <2>1, <2>2, PolicyNode
  <2> HIDE DEF s
  <2> QED
    BY <1>1, <1>2, <1>3, <1>11, <1>e, <2>1, <2>3 DEF Evident
<1>12. CASE e.type = "edge-taken"
  <2> DEFINE d == <<r.node, e.kind>>
  <2>1. d \in DOMAIN Edge /\ CurrentOutcome(r, e)
    BY <1>12 DEF Legal, ActiveLegal
  <2>2. /\ s.ev = r.ev /\ s.cand = r.cand /\ s.cycle = r.cycle
        /\ s.system = r.system /\ s.claim = NoClaim /\ s.node = Edge[d]
    BY <1>12, Zenon DEF Effect, EdgeTaken, Moved, Folds
  <2>3. ASSUME Edge[d] \in DOMAIN Final, Final[Edge[d]] = "converged"
        PROVE  Proven(r)
    <3>1. Kind[r.node] = "gate" /\ e.kind = "pass"
      BY <2>1, <2>3, ConvergedEdge
    <3>2. \A n \in Requires : Current(r, n)
      BY <2>1, <3>1 DEF CurrentOutcome, GateOutcome
    <3>5. PICK n \in Requires : TRUE
      BY GateAssumption
    <3>6. Current(r, n)
      BY <3>2, <3>5
    <3>3. r.ev[n].kind = Favourable(n) /\ r.ev[n].cand = r.cand
      BY <3>6 DEF Current
    <3>4. Favourable(n) \in {"pass", "approve"}
      BY DEF Favourable
    <3> QED
      BY <1>3, <1>b, <3>2, <3>3, <3>4, <3>5 DEF Proven
  <2> HIDE DEF s, d
  <2> QED
    BY <1>1, <1>2, <1>3, <1>12, <1>e, <2>2, <2>3 DEF Evident, Proven, Current
<1> QED
  BY <1>4, <1>5, <1>6, <1>7, <1>8, <1>9, <1>10, <1>11, <1>12 DEF Records, Types, Kinded

------------------------------------------------------------------------------
\* What an operation sets out to append is what it means.
Means(p) ==
  \/ UNCHANGED op
  \/ \E records \in Seq(Records), change \in {"keep", "write", "clear"}, next \in Labels :
       Perform(p, records, change, next) /\ Intent(run, records)

\* One record that is meant.
LEMMA OneMeant ==
  ASSUME NEW p \in Procs, NEW e \in Records, Meant(run, e),
         NEW change \in {"keep", "write", "clear"}, NEW next \in Labels,
         Perform(p, <<e>>, change, next)
  PROVE  Means(p)
<1> DEFINE s == <<e>>
<1>1. s \in Seq(Records) /\ s[1] = e /\ Len(s) = 1
  OBVIOUS
<1>2. Intent(run, s)
  BY <1>1 DEF Intent
<1> QED
  BY <1>1, <1>2 DEF Means

\* Trailing records may follow what is meant.
LEMMA Followed ==
  ASSUME NEW s \in Seq(Records), Intent(run, s), NEW t \in Seq(Records),
         \A i \in 1..Len(t) : t[i].type \in Trailing
  PROVE  s \o t \in Seq(Records) /\ Intent(run, s \o t)
<1> DEFINE u == s \o t
<1>1. /\ u \in Seq(Records) /\ Len(u) = Len(s) + Len(t) /\ Len(s) \in Nat /\ Len(t) \in Nat
      /\ \A i \in 1..Len(u) : u[i] = IF i <= Len(s) THEN s[i] ELSE t[i - Len(s)]
  BY ConcatProperties
<1> HIDE DEF u
<1>2. ASSUME NEW e \in Records, e.type \in Trailing PROVE Meant(run, e)
  BY <1>2 DEF Meant, Trailing
<1>3. u # <<>> => Meant(run, u[1])
  <2>1. CASE s # <<>>
    BY <1>1, <2>1 DEF Intent
  <2>2. CASE s = <<>> /\ u # <<>>
    <3>1. Len(u) > 0 /\ u[1] = t[1] /\ Len(t) > 0
      BY <1>1, <2>2
    <3> QED
      BY <1>2, <3>1
  <2> QED
    BY <2>1, <2>2
<1>4. ASSUME NEW i \in 2..Len(u) PROVE u[i].type \in Trailing
  <2>1. CASE i <= Len(s)
    <3>1. i \in 2..Len(s) /\ i \in 1..Len(u)
      BY <1>1, <2>1
    <3> QED
      BY <1>1, <2>1, <3>1 DEF Intent
  <2>2. CASE ~(i <= Len(s))
    <3>1. i - Len(s) \in 1..Len(t) /\ i \in 1..Len(u)
      BY <1>1, <2>2
    <3> QED
      BY <1>1, <2>2, <3>1
  <2> QED
    BY <2>1, <2>2
<1> QED
  BY <1>1, <1>3, <1>4 DEF Intent, u

\* The record that ends the Run of an owner says "converged" only at the
\* converged node.
LEMMA KillMeant ==
  ASSUME IInv, Evident(run), NEW p \in Procs, NEW kind \in AtomicKinds, ~IsTerminal(run),
         kind = "converged" => run.node \in DOMAIN Final /\ Final[run.node] = "converged",
         NEW next \in Labels, Perform(p, Kill(kind), "clear", next)
  PROVE  Means(p)
<1> DEFINE k == IF run.system = "none" THEN kind ELSE run.system
           e == Terminal(k)
<1>1. k \in AtomicKinds
  BY DEF IInv, TypeOK, Folds, AtomicKinds
<1>2. k = "converged" => kind = "converged"
  BY DEF Evident
<1> HIDE DEF k
<1>3. e \in Records /\ e.type = "terminal-node-committed" /\ e.kind = k
  BY <1>1 DEF Terminal, Record, Records, AtomicKinds
<1>4. Meant(run, e)
  BY <1>2, <1>3 DEF Meant
<1>5. Perform(p, <<e>>, "clear", next)
  BY DEF Kill, k
<1> HIDE DEF e
<1> QED
  BY <1>3, <1>4, <1>5, OneMeant

\* append(), releaseLease() and terminalize().
LEMMA AppendMeant ==
  ASSUME IInv, Evident(run), NEW p \in Procs, NEW e \in Records, Meant(run, e),
         NEW next \in Labels, AppendOne(p, e, next)
  PROVE  Means(p)
<1>1. CASE ~Owns(p) \/ ~Legal(run, e)
  BY <1>1 DEF AppendOne, Throw, Means
<1>2. CASE Owns(p) /\ Legal(run, e) /\ (~Retains(1) \/ (e.type \in Timed /\ late))
  <2>1. Perform(p, Kill("exhausted"), "clear", next)
    BY <1>2 DEF AppendOne
  <2> QED
    BY <1>2, <2>1, OwnerAlive, KillMeant DEF AtomicKinds, SystemKinds
<1>3. CASE Owns(p) /\ Legal(run, e) /\ ~(~Retains(1) \/ (e.type \in Timed /\ late))
  <2>1. Perform(p, <<e>>, "keep", next)
    BY <1>3 DEF AppendOne
  <2> QED
    BY <2>1, OneMeant
<1> QED
  BY <1>1, <1>2, <1>3

LEMMA EndMeant ==
  ASSUME IInv, Evident(run), NEW p \in Procs, NEW next \in Labels, NEW kind \in AtomicKinds,
         kind = "converged" => run.node \in DOMAIN Final /\ Final[run.node] = "converged",
         IF Owns(p) THEN Perform(p, Kill(kind), "clear", next) ELSE Throw(p, "idle")
  PROVE  Means(p)
BY OwnerAlive, KillMeant DEF Throw, Means

LEMMA ReleaseMeant ==
  ASSUME IInv, Evident(run), NEW p \in Procs, NEW next \in Labels, Release(p, next)
  PROVE  Means(p)
<1> DEFINE e == Plain("lease-released")
<1>1. e \in Records /\ e.type = "lease-released"
  BY DEF Plain, Record, Records, Types, Kinded, Results
<1>2. Meant(run, e)
  BY <1>1 DEF Meant
<1>3. \/ Throw(p, "idle")
      \/ Owns(p) /\ Perform(p, <<e>>, "clear", next)
      \/ Owns(p) /\ Perform(p, Kill("exhausted"), "clear", next)
  BY DEF Release
<1> HIDE DEF e
<1> QED
  BY <1>1, <1>2, <1>3, OneMeant, OwnerAlive, KillMeant
     DEF Throw, Means, AtomicKinds, SystemKinds

\* acquireLease() and recoverLease().
LEMMA AcquireMeant ==
  ASSUME IInv, Evident(run), NEW p \in Procs, Acquire(p) \/ Recover(p)
  PROVE  Means(p)
<1> DEFINE a == Record("state-changed", "running", NoCand)
           b == Plain("lease-acquired")
           c == Plain("lease-revoked")
           resume == IF run.state \in {"prepared", "paused"} THEN <<a>> ELSE <<>>
           last == <<b>>
           records == resume \o last
<1>1. /\ a \in Records /\ a.type = "state-changed"
      /\ b \in Records /\ b.type = "lease-acquired"
      /\ c \in Records /\ c.type = "lease-revoked"
  BY DEF Plain, Record, Records, Types, Kinded, Results
<1>2. Meant(run, a) /\ Meant(run, c)
  BY <1>1 DEF Meant
<1>3. {"idle", "acquire"} \subseteq Labels /\ goal[p] \in Labels
  BY DEF IInv, TypeOK, Labels
<1>4. \/ Throw(p, "idle")
      \/ ~IsTerminal(run) /\ \E next \in Labels : Perform(p, Kill("exhausted"), "clear", next)
      \/ Perform(p, records, "write", goal[p])
      \/ Perform(p, <<c>>, "clear", "acquire")
  <2>1. CASE Acquire(p)
    BY <1>3, <2>1 DEF Acquire
  <2>2. CASE Recover(p)
    BY <1>3, <2>2, OwnerAlive DEF Recover
  <2> QED
    BY <2>1, <2>2
<1> HIDE DEF a, b, c
<1>5. records \in Seq(Records) /\ Intent(run, records)
  <2>1. last \in Seq(Records) /\ \A i \in 1..Len(last) : last[i].type \in Trailing
    BY <1>1 DEF Trailing
  <2>2. resume \in Seq(Records) /\ Intent(run, resume)
    BY <1>1, <1>2 DEF Intent
  <2> HIDE DEF resume, last
  <2> QED
    BY <2>1, <2>2, Followed
<1> HIDE DEF records
<1>6. CASE Throw(p, "idle")
  BY <1>6 DEF Throw, Means
<1>7. CASE ~IsTerminal(run) /\ \E next \in Labels : Perform(p, Kill("exhausted"), "clear", next)
  BY <1>7, KillMeant DEF AtomicKinds, SystemKinds
<1>8. CASE Perform(p, <<c>>, "clear", "acquire")
  BY <1>1, <1>2, <1>3, <1>8, OneMeant
<1>9. CASE Perform(p, records, "write", goal[p])
  BY <1>3, <1>5, <1>9 DEF Means
<1> QED
  BY <1>4, <1>6, <1>7, <1>8, <1>9

\* bindExternalClaim(): a reviewer's candidate has been checked.
LEMMA BindMeant ==
  ASSUME IInv, Evident(run), NEW p \in Procs, BindClaim(p)
  PROVE  Means(p)
<1> DEFINE e == Record("external-claim-bound", "none", ws)
<1>1. e \in Records /\ e.type = "external-claim-bound" /\ e.cand = ws
  BY DEF IInv, TypeOK, Record, Records, Types, Kinded, Results
<1>2. \/ Claimable /\ Perform(p, <<e>>, "keep", "idle")
      \/ Throw(p, "unclaim")
  BY DEF BindClaim
<1> HIDE DEF e
<1>3. CASE Claimable /\ Perform(p, <<e>>, "keep", "idle")
  <2>1. Meant(run, e)
    BY <1>1, <1>3 DEF Meant, Claimable
  <2> QED
    BY <1>1, <1>3, <2>1, OneMeant DEF Labels
<1>4. CASE Throw(p, "unclaim")
  BY <1>4 DEF Throw, Means
<1> QED
  BY <1>2, <1>3, <1>4

\* acceptExternalReport(): a review is about the candidate it was given.
LEMMA AcceptMeant ==
  ASSUME IInv, Evident(run), NEW p \in Procs, Accept(p)
  PROVE  Means(p)
<1> DEFINE c == arg[p].claim
           o == arg[p].kind
           prior == AcceptedKind(c) # {}
           answer == Answer(prior, o)
<1>1. {"idle", "proceed"} \subseteq Labels
  BY DEF Labels
<1>2. \/ Throw(p, "idle") \/ Throw(p, "proceed")
      \/ Release(p, "proceed")
      \/ Owns(p) /\ Perform(p, Kill("exhausted"), "clear", "proceed")
      \/ /\ prior \/ run.claim = c
         /\ BoundaryHolds(c, o)
         /\ Perform(p, answer, "clear", "proceed")
  BY DEF Accept
<1>3. ASSUME prior \/ run.claim = c, BoundaryHolds(c, o)
      PROVE  answer \in Seq(Records) /\ Intent(run, answer)
  <2> DEFINE r1 == Record("external-report-accepted", o, NoCand)
             r2 == Record("candidate-bound", "none", ws)
             r3 == Record("edge-taken", o, NoCand)
             r4 == Plain("lease-released")
  <2>1. o \in Results /\ ws \in Cands
    BY DEF IInv, TypeOK, Args
  <2>2. /\ r1 \in Records /\ r1.type = "external-report-accepted"
        /\ r2 \in Records /\ r2.type = "candidate-bound"
        /\ r3 \in Records /\ r3.type = "edge-taken"
        /\ r4 \in Records /\ r4.type = "lease-released"
    BY <2>1 DEF Plain, Record, Records, Types, Kinded, Results
  <2>3. ~prior => Meant(run, r1)
    BY <1>3, <2>1, <2>2 DEF Meant, BoundaryHolds
  <2> DEFINE first == IF prior THEN <<>> ELSE <<r1>>
             second == IF o = "complete" /\ run.cand = NoCand THEN <<r2>> ELSE <<>>
             last == <<r3, r4>>
  <2>4. answer = (first \o second) \o last
    BY DEF Answer
  <2> HIDE DEF r1, r2, r3, r4, answer, prior
  <2>5. first \in Seq(Records) /\ Intent(run, first)
    BY <2>2, <2>3 DEF Intent
  <2>6. second \in Seq(Records) /\ \A i \in 1..Len(second) : second[i].type \in Trailing
    BY <2>2 DEF Trailing
  <2>7. last \in Seq(Records) /\ \A i \in 1..Len(last) : last[i].type \in Trailing
    BY <2>2 DEF Trailing
  <2> HIDE DEF first, second, last
  <2>8. first \o second \in Seq(Records) /\ Intent(run, first \o second)
    BY <2>5, <2>6, Followed
  <2> QED
    BY <2>4, <2>7, <2>8, Followed
<1> HIDE DEF answer, prior, c, o
<1>4. CASE Throw(p, "idle") \/ Throw(p, "proceed")
  BY <1>4 DEF Throw, Means
<1>5. CASE Release(p, "proceed")
  BY <1>1, <1>5, ReleaseMeant
<1>6. CASE Owns(p) /\ Perform(p, Kill("exhausted"), "clear", "proceed")
  BY <1>1, <1>6, OwnerAlive, KillMeant DEF AtomicKinds, SystemKinds
<1>7. CASE (prior \/ run.claim = c) /\ BoundaryHolds(c, o)
           /\ Perform(p, answer, "clear", "proceed")
  BY <1>1, <1>3, <1>7 DEF Means
<1> QED
  BY <1>2, <1>4, <1>5, <1>6, <1>7

\* step().
LEMMA RunnerMeant ==
  ASSUME IInv, Evident(run), NEW p \in Procs, Step(p)
  PROVE  Means(p)
<1>1. {"idle", "run", "check"} \subseteq Labels
  BY DEF Labels
<1>2. run.node \in Nodes /\ run.system \in SystemKinds \cup {"none", "converged"}
      /\ run.result \in Results
  BY DEF IInv, TypeOK, Folds
<1>3. ASSUME NEW e \in Records, NEW next \in Labels, AppendOne(p, e, next),
             e.type \in {"node-started", "invocation-started", "failure-routed",
                         "system-outcome", "edge-taken"}
      PROVE  Means(p)
  BY <1>3, AppendMeant DEF Meant
<1>4. ASSUME NEW type \in {"node-started", "invocation-started", "failure-routed"},
             NEW next \in Labels, AppendOne(p, Plain(type), next)
      PROVE  Means(p)
  <2> DEFINE e == Plain(type)
  <2>1. e \in Records /\ e.type = type
    BY DEF Plain, Record, Records, Types, Kinded, Results
  <2> HIDE DEF e
  <2> QED
    BY <1>3, <1>4, <2>1 DEF e
<1>5. ASSUME NEW kind \in SystemKinds, System(p, kind) PROVE Means(p)
  <2> DEFINE e == Record("system-outcome", kind, NoCand)
  <2>1. e \in Records /\ e.type = "system-outcome"
    BY DEF Record, Records
  <2>2. AppendOne(p, e, "run")
    BY <1>5 DEF System
  <2> HIDE DEF e
  <2> QED
    BY <1>1, <1>3, <2>1, <2>2
<1>6. ASSUME NEW o \in Results, TakeEdge(p, o) PROVE Means(p)
  <2> DEFINE e == Record("edge-taken", o, NoCand)
  <2>1. e \in Records /\ e.type = "edge-taken"
    BY DEF Record, Records, Types, Kinded
  <2>2. System(p, "exhausted") \/ AppendOne(p, e, "run")
    BY <1>6 DEF TakeEdge
  <2> HIDE DEF e
  <2> QED
    BY <1>1, <1>3, <1>5, <2>1, <2>2 DEF SystemKinds
<1>7. ASSUME run.node \in DOMAIN Final, AppendTerminal(p, Final[run.node], "run")
      PROVE  Means(p)
  <2> DEFINE kind == KindOf(Final[run.node])
  <2>1. /\ kind \in AtomicKinds
        /\ kind = "converged" => Final[run.node] = "converged"
    BY <1>7, FinalAssumption DEF TerminalStates, KindOf, AtomicKinds, SystemKinds
  <2>2. IF Owns(p) THEN Perform(p, Kill(kind), "clear", "run") ELSE Throw(p, "idle")
    BY <1>7 DEF AppendTerminal
  <2> HIDE DEF kind
  <2> QED
    BY <1>1, <1>7, <2>1, <2>2, EndMeant
<1>8. ASSUME Route(p), run.system # "none" PROVE Means(p)
  <2>1. TerminalOf(run.system) \in DOMAIN Final
    BY <1>2, <1>8, TerminalNode, FinalAssumption DEF AtomicKinds
  <2> QED
    BY <1>1, <1>4, <1>7, <1>8, <2>1 DEF Route
<1>9. GateOutcome(run) \in Results
  BY DEF GateOutcome, Results
<1>10. Kind[run.node] = "terminal" => run.node \in DOMAIN Final
  BY <1>2, FinalAssumption
<1>11. \/ Throw(p, "idle")
       \/ Route(p) /\ run.system # "none"
       \/ System(p, "exhausted") \/ System(p, "lost")
       \/ Release(p, "idle")
       \/ AppendOne(p, Plain("node-started"), "run")
       \/ Kind[run.node] = "terminal" /\ AppendTerminal(p, Final[run.node], "run")
       \/ TakeEdge(p, GateOutcome(run)) \/ TakeEdge(p, run.result)
       \/ AppendOne(p, Plain("invocation-started"), "check")
  BY DEF Step
<1>12. CASE Throw(p, "idle")
  BY <1>12 DEF Throw, Means
<1>13. CASE Release(p, "idle")
  BY <1>1, <1>13, ReleaseMeant
<1>14. CASE System(p, "exhausted") \/ System(p, "lost")
  BY <1>5, <1>14 DEF SystemKinds
<1>15. CASE AppendOne(p, Plain("node-started"), "run")
            \/ AppendOne(p, Plain("invocation-started"), "check")
  BY <1>1, <1>4, <1>15
<1>16. CASE TakeEdge(p, GateOutcome(run)) \/ TakeEdge(p, run.result)
  BY <1>2, <1>6, <1>9, <1>16
<1> QED
  BY <1>7, <1>8, <1>10, <1>11, <1>12, <1>13, <1>14, <1>15, <1>16

\* The rest of what a process does under the lock.  A check that has passed
\* has passed for the workspace there is.
LEMMA OthersMeant ==
  ASSUME IInv, Evident(run), NEW p \in Procs,
         \/ Unclaim(p) \/ PauseRun(p) \/ PauseRelease(p) \/ StopRun(p)
         \/ AbandonRun(p) \/ LoseRun(p) \/ CheckEnd(p)
  PROVE  Means(p)
<1>1. {"idle", "run", "unpause"} \subseteq Labels
  BY DEF Labels
<1>2. ASSUME Throw(p, "idle") PROVE Means(p)
  BY <1>2 DEF Throw, Means
<1>3. ASSUME NEW kind \in {"cancelled", "lost"}, Terminalize(p, kind) PROVE Means(p)
  BY <1>1, <1>3, EndMeant DEF Terminalize, AtomicKinds, SystemKinds
<1>4. CASE Unclaim(p)
  BY <1>1, <1>2, <1>4, ReleaseMeant DEF Unclaim
<1>5. CASE PauseRun(p)
  <2> DEFINE e == Record("state-changed", "paused", NoCand)
  <2>1. e \in Records /\ e.type = "state-changed"
    BY DEF Record, Records
  <2>2. Throw(p, "idle") \/ AppendOne(p, e, "unpause")
    BY <1>5 DEF PauseRun
  <2> HIDE DEF e
  <2>3. Meant(run, e)
    BY <2>1 DEF Meant
  <2> QED
    BY <1>1, <1>2, <2>1, <2>2, <2>3, AppendMeant
<1>6. CASE PauseRelease(p)
  BY <1>1, <1>6, ReleaseMeant DEF PauseRelease
<1>7. CASE StopRun(p)
  BY <1>3, <1>7 DEF StopRun
<1>8. CASE AbandonRun(p)
  BY <1>2, <1>3, <1>8 DEF AbandonRun
<1>9. CASE LoseRun(p)
  BY <1>3, <1>9 DEF LoseRun
<1>10. CASE CheckEnd(p)
  <2>1. PICK e \in CheckResults(p) : AppendOne(p, e, "run")
    BY <1>10 DEF CheckEnd
  <2>2. /\ arg[p].cand \in Cands \cup {NoCand} /\ run.cand \in Cands \cup {NoCand}
        /\ ws \in Cands
    BY DEF IInv, TypeOK, Args, Folds
  <2>3. PICK o \in {"error", "pass", "fail", "timeout"}, c \in Cands \cup {NoCand} :
          e = Record("invocation-result", o, c) /\ (o = "pass" => c \in Cands)
    BY <2>2 DEF CheckResults
  <2>4. e \in Records /\ e.type = "invocation-result" /\ e.kind = o /\ e.cand = c
    BY <2>3 DEF Record, Records, Types, Kinded, Results, SystemKinds
  <2>5. Meant(run, e)
    BY <2>3, <2>4 DEF Meant, SystemKinds
  <2> QED
    BY <1>1, <2>1, <2>4, <2>5, AppendMeant
<1> QED
  BY <1>4, <1>5, <1>6, <1>7, <1>8, <1>9, <1>10

------------------------------------------------------------------------------
\* A Run that has just been created.
LEMMA InitCInv == Init => CInv
<1> SUFFICES ASSUME Init PROVE CInv
  OBVIOUS
<1>1. run = Created /\ op.do = <<>>
  BY DEF Init, Idle
<1>2. IsFiniteSet(run.accepted) /\ run.accepted = {}
  BY <1>1, FS_EmptySet DEF Created
<1>3. \A d \in DOMAIN Edge : Cardinality(Answers(run, d)) = 0 /\ run.visits[d] = 0
  <2>1. \A d \in DOMAIN Edge : Answers(run, d) = {}
    BY <1>2 DEF Answers
  <2> QED
    BY <1>1, <2>1, FS_EmptySet DEF Created
<1>4. Answered(run)
  <2>1. Due(run)
    <3> SUFFICES ASSUME NEW d \in DOMAIN Edge, d[1] \in Agents, d = <<run.node, run.result>>
                 PROVE  FALSE
      BY DEF Due
    <3>1. d[2] \in Outcomes(Kind[d[1]]) /\ d[2] = "none"
      BY <1>1, EdgePair DEF Created
    <3> QED
      BY <3>1, AgentOutcome
  <2>2. Open(run)
    BY <1>1 DEF Open, Created
  <2> QED
    BY <1>2, <1>3, <2>1, <2>2 DEF Answered, Unique, Numbers, Paid
<1>5. Evident(run)
  <2>1. Entry \notin DOMAIN Final
    BY NodeAssumption, FinalAssumption
  <2> QED
    BY <1>1, <2>1 DEF Evident, Created, NoEvidence
<1>6. Intent(run, op.do)
  BY <1>1 DEF Intent
<1> QED
  BY <1>4, <1>5, <1>6 DEF CInv

\* What an operation means stays so until it has written it.
LEMMA IntentStep == ASSUME IInv, CInv, [Next]_vars PROVE Intent(run', op'.do)
<1>1. op.do \in Seq(Records)
  BY DEF IInv, TypeOK, Ops
<1>2. ASSUME op' = Idle PROVE Intent(run', op'.do)
  BY <1>2 DEF Idle, Intent
<1>3. ASSUME run' = run, op'.do = op.do PROVE Intent(run', op'.do)
  BY <1>3 DEF CInv
<1>4. CASE Publish
  <2>1. CASE op' = Idle
    BY <1>2, <2>1
  <2>2. CASE op' # Idle
    <3>1. op.do # <<>> /\ op' = [op EXCEPT !.do = Tail(@)]
      BY <1>4, <2>2, Zenon DEF Publish
    <3>2. op'.do = Tail(op.do)
      BY <3>1 DEF IInv, TypeOK, Ops
    <3> DEFINE t == Tail(op.do)
    <3>3. t \in Seq(Records) /\ Len(t) = Len(op.do) - 1 /\ Len(op.do) \in Nat
          /\ \A i \in 1..Len(op.do) - 1 : t[i] = op.do[i + 1]
      BY <1>1, <3>1, Rest
    <3> HIDE DEF t
    <3>4. \A i \in 1..Len(t) : t[i].type \in Trailing
      <4> SUFFICES ASSUME NEW i \in 1..Len(t) PROVE t[i].type \in Trailing
        OBVIOUS
      <4>1. i + 1 \in 2..Len(op.do) /\ t[i] = op.do[i + 1]
        BY <3>3
      <4> QED
        BY <4>1 DEF CInv, Intent
    <3>5. t # <<>> => 1 \in 1..Len(t)
      BY <3>3
    <3>6. t # <<>> => Meant(run', t[1])
      BY <3>4, <3>5 DEF Meant, Trailing
    <3>7. \A i \in 2..Len(t) : t[i].type \in Trailing
      BY <3>3, <3>4
    <3> QED
      BY <3>2, <3>6, <3>7 DEF Intent, t
  <2> QED
    BY <2>1, <2>2
<1>5. CASE WriteProof
  BY <1>3, <1>5 DEF WriteProof, IInv, TypeOK, Ops
<1>6. CASE Finish
  BY <1>2, <1>6 DEF Finish
<1>7. ASSUME NEW p \in Procs, Means(p), run' = run PROVE Intent(run', op'.do)
  BY <1>3, <1>7 DEF Means, Perform
<1>8. ASSUME NEW p \in Procs, Work(p) PROVE Intent(run', op'.do)
  <2>1. CASE Busy(p) \/ Proceed(p) \/ CheckBegin(p)
    BY <1>3, <2>1 DEF Busy, Proceed, CheckBegin, Throw
  <2>2. CASE \/ Acquire(p) \/ BindClaim(p) \/ Recover(p) \/ Accept(p) \/ Step(p)
             \/ Unclaim(p) \/ PauseRun(p) \/ PauseRelease(p) \/ StopRun(p)
             \/ AbandonRun(p) \/ LoseRun(p) \/ CheckEnd(p)
    <3>1. Errs(p) \/ Starts(p)
      BY <2>2, AcquireStarts, BindStarts, RecoverStarts, AcceptStarts, RunnerStarts, OthersStart
    <3>2. run' = run
      BY <3>1 DEF Errs, Starts, Throw, Perform
    <3>3. Means(p)
      BY <2>2, AcquireMeant, BindMeant, AcceptMeant, RunnerMeant, OthersMeant DEF CInv
    <3> QED
      BY <1>7, <3>2, <3>3
  <2> QED
    BY <1>8, <2>1, <2>2 DEF Work
<1>9. ASSUME NEW p \in Procs, Command(p) PROVE Intent(run', op'.do)
  BY <1>3, <1>9 DEF Command, ClaimTask, Pause, Stop, Abandon, Reconcile, Report, Want
<1>10. ASSUME NEW p \in Procs, Crash(p) PROVE Intent(run', op'.do)
  BY <1>2, <1>3, <1>10 DEF Crash
<1>11. CASE Edit \/ Expire \/ UNCHANGED vars
  BY <1>3, <1>11 DEF Edit, Expire, vars
<1> QED
  BY <1>4, <1>5, <1>6, <1>8, <1>9, <1>10, <1>11 DEF Next, Store

\* The invariant is inductive.
LEMMA NextCInv == IInv /\ CInv /\ [Next]_vars => CInv'
<1> SUFFICES ASSUME IInv, CInv, [Next]_vars PROVE CInv'
  OBVIOUS
<1>1. Intent(run', op'.do)
  BY IntentStep
<1>2. Answered(run') /\ Evident(run')
  <2>1. CASE run' = run
    BY <2>1 DEF CInv
  <2>2. CASE run' # run
    <3> DEFINE e == Head(op.do)
    <3>1. op.do # <<>> /\ run' = After(run, e) /\ Legal(run, e) /\ e \in Records
      BY <2>2, OnlyPublish
    <3>2. op.do \in Seq(Records)
      BY DEF IInv, TypeOK, Ops
    <3>3. e = op.do[1]
      BY <3>1, <3>2, Rest
    <3> HIDE DEF e
    <3>4. Meant(run, e)
      BY <3>1, <3>3 DEF CInv, Intent
    <3>5. run \in Folds /\ (IsTerminal(run) => run.lease = 0)
      BY DEF IInv, TypeOK, Nobody
    <3> QED
      BY <3>1, <3>4, <3>5, AnswersAfter, EvidenceAfter DEF CInv
  <2> QED
    BY <2>1, <2>2
<1> QED
  BY <1>1, <1>2 DEF CInv

LEMMA ClaimInvariance == Spec => []CInv
<1>1. Init => CInv
  BY InitCInv
<1>2. IInv /\ CInv /\ [Next]_vars => CInv'
  BY NextCInv
<1> QED
  BY <1>1, <1>2, Invariance, PTL DEF Spec

------------------------------------------------------------------------------
\* A claim has one answer, and the graph leaves an agent once for every
\* answer it gave and never without one, whoever repeats which report when
\* (acceptExternalReport).
THEOREM OneAnswer == Spec => []AnsweredOnce
<1>1. CInv => AnsweredOnce
  BY DEF CInv, Answered, Unique, Paid, Answers, AnsweredOnce
<1> QED
  BY <1>1, ClaimInvariance, PTL

\* A Run converges on evidence of its last cycle about its last candidate,
\* on every path of every graph (gateOutcome).
THEOREM Convergence == Spec => []ConvergedOnEvidence
<1>1. CInv => ConvergedOnEvidence
  <2> SUFFICES ASSUME CInv, run.state = "converged", NEW n \in Requires
               PROVE  /\ run.cand \in Cands
                      /\ run.ev[n].kind = Favourable(n)
                      /\ run.ev[n].cycle = run.cycle
                      /\ run.ev[n].cand = run.cand
    BY GateAssumption DEF ConvergedOnEvidence
  <2>1. run.cand \in Cands /\ Current(run, n)
    BY DEF CInv, Evident, Proven
  <2> QED
    BY <2>1 DEF Current
<1> QED
  BY <1>1, ClaimInvariance, PTL

\* An approval is about a candidate that a check has passed in this cycle,
\* and about the one the gate will ask for (prepareHostClaim).
THEOREM Review == Spec => ReviewedWasChecked
<1>1. IInv /\ CInv /\ [Next]_vars =>
        [\A a \in run'.accepted \ run.accepted :
           a.kind = "approve" =>
             /\ a.claim.cand = run.cand
             /\ \E n \in Checks :
                  run.ev[n] = [kind |-> "pass", cycle |-> run.cycle, cand |-> run.cand]]_vars
  <2> SUFFICES ASSUME IInv, CInv, [Next]_vars,
                      NEW a \in run'.accepted \ run.accepted, a.kind = "approve"
               PROVE  /\ a.claim.cand = run.cand
                      /\ \E n \in Checks :
                           run.ev[n] = [kind |-> "pass", cycle |-> run.cycle, cand |-> run.cand]
    OBVIOUS
  <2> DEFINE e == Head(op.do)
  <2>1. op.do # <<>> /\ run' = After(run, e) /\ Legal(run, e) /\ e \in Records
    BY OnlyPublish
  <2>2. op.do \in Seq(Records)
    BY DEF IInv, TypeOK, Ops
  <2>3. e = op.do[1]
    BY <2>1, <2>2, Rest
  <2> HIDE DEF e
  <2>4. Meant(run, e)
    BY <2>1, <2>3 DEF CInv, Intent
  <2>5. run \in Folds /\ ~IsTerminal(run) /\ run'.accepted = Effect(run, e).accepted
    <3>1. run \in Folds /\ (IsTerminal(run) => run.lease = 0)
      BY DEF IInv, TypeOK, Nobody
    <3> QED
      BY <2>1, <3>1, AfterControl, EffectType, ZenonT(60) DEF After, Folds
  <2>6. e.type = "external-report-accepted"
    <3>1. CASE e.type \in Types \ {"external-report-accepted"}
      <4>1. Effect(run, e).accepted = run.accepted
        BY <2>5, <3>1 DEF Types, Effect, Folds, StateChanged, LeaseAcquired, LeaseDropped,
           TerminalCommitted, Ended, NodeStarted, InvocationStarted, ClaimBound,
           InvocationResult, CandidateBound, SystemOutcome, FailureRouted, EdgeTaken, Moved
      <4> QED
        BY <2>5, <4>1
    <3> QED
      BY <2>1, <3>1 DEF Records, Types, Kinded
  <2>7. a = [claim |-> run.claim, kind |-> e.kind]
    <3>1. Effect(run, e).accepted = run.accepted \cup {[claim |-> run.claim, kind |-> e.kind]}
      BY <2>5, <2>6, Zenon DEF Effect, ReportAccepted, Folds
    <3> QED
      BY <2>5, <3>1
  <2>8. Kind[run.node] = "review" /\ run.claim # NoClaim
    <3>1. e.kind = "approve" /\ e.kind \in Outcomes(Kind[run.node]) /\ run.claim # NoClaim
      BY <2>1, <2>6, <2>7 DEF Legal, ActiveLegal
    <3>2. Kind[run.node] \in Kinds
      BY <2>5, NodeAssumption DEF Folds
    <3> QED
      BY <3>1, <3>2 DEF Outcomes, Kinds
  <2>9. run.claim.cand = run.cand /\ Checked(run, run.claim.cand)
    BY <2>4, <2>5, <2>6, <2>8 DEF Meant, CInv, Evident
  <2> QED
    BY <2>7, <2>9 DEF Checked
<1> QED
  BY <1>1, Invariance, ClaimInvariance, PTL DEF Spec, ReviewedWasChecked
=============================================================================
