-------------------------- MODULE LoopContractProofs --------------------------
(***************************************************************************)
(* What a Run promises hosts and operators, for every loop graph, budget   *)
(* and number of processes: LoopRun implements RunContract, one process at *)
(* a time owns the lease it was granted, and an accepted answer stays      *)
(* behind only where a process has died or the edge's budget is spent.     *)
(*                                                                         *)
(* As in LoopClaimProofs, what concerns the journal is shown for one more  *)
(* record (QuestionsAfter, AnswerAfter, ContractStep).  What an operation  *)
(* is about to append, and where its process goes on, is shown for every   *)
(* store operation once (Leads), and used for all of them together.        *)
(***************************************************************************)
EXTENDS LoopClaimProofs

\* The current claim is being worked on and has no result yet; claims are
\* numbered by the attempts at their node.
Waiting(r) == ~IsTerminal(r) /\ r.claim # NoClaim => r.inv /\ r.result = "none"
Dealt(r) == \A c \in r.bound : 0 < c.att /\ c.att <= r.att[c.node]
Questions(r) == Waiting(r) /\ Dealt(r)

\* What is left of an answer when the report has been accepted.
Leaving(o) == <<Record("edge-taken", o, NoCand), Plain("lease-released")>>
Effects(r, o) ==
  {Leaving(o)}
    \cup {<<Record("candidate-bound", "none", c)>> \o Leaving(o) :
            c \in IF o = "complete" /\ r.cand = NoCand THEN Cands ELSE {}}

\* What an operation has made sure of, or sets out to append along with it.
Promised(r, s) ==
  s # <<>> =>
    /\ s[1].type = "state-changed" /\ s[1].kind = "paused" => r.claim = NoClaim
    /\ s[1].type = "external-report-accepted" =>
         /\ Tail(s) \in Effects(r, s[1].kind)
         /\ s[1].kind = "complete" <=> Kind[r.node] = "task"

\* An accepted answer is being acted on, or cannot be.
UnderWay ==
  crashes = 0 /\ Pending # "none" =>
    \/ Spent(<<run.node, run.result>>)
    \/ run.state = "running" /\ run.lease # 0 /\ op.do \in Effects(run, run.result)

\* Those who hold a lease, or have just been granted it.
Holds(p) == pc[p] \in Granted \/ (op.by = p /\ op.do = <<>> /\ op.next \in Granted)
Apart ==
  /\ \A p \in Procs : my[p] <= run.gen
  /\ run.lease <= run.gen
  /\ \A p, q \in Procs : p # q /\ Holds(p) /\ Holds(q) => my[p] = 0 \/ my[p] # my[q]
  /\ op.by # NoProc /\ op.do # <<>> /\ op.next \in Granted /\ pc[op.by] \notin Granted =>
       Last(op.do).type = "lease-acquired"

\* Who may be about to give a lease up without ending the Run: a process that
\* was granted one, a recovery and a report.
Releases == {"lease-released", "lease-revoked"}
Releasing == Granted \cup {"recover", "accept"}
Dropping ==
  op.do # <<>> /\ Last(op.do).type \in Releases => op.by \in Procs /\ pc[op.by] \in Releasing

\* The invariant.
KInv ==
  /\ Questions(run)
  /\ WithinBudget(run)
  /\ Promised(run, op.do)
  /\ UnderWay
  /\ Apart
  /\ Dropping
------------------------------------------------------------------------------
\* One record in front of others.
LEMMA Spliced ==
  ASSUME NEW S, NEW a \in S, NEW t \in Seq(S)
  PROVE  /\ <<a>> \o t \in Seq(S)
         /\ <<a>> \o t # <<>>
         /\ Len(<<a>> \o t) = Len(t) + 1
         /\ (<<a>> \o t)[1] = a
         /\ Tail(<<a>> \o t) = t
<1> DEFINE x == <<a>>
           y == x \o t
<1>1. x \in Seq(S) /\ Len(x) = 1 /\ x[1] = a
  OBVIOUS
<1>2. /\ y \in Seq(S) /\ Len(y) = Len(t) + 1 /\ y[1] = a
      /\ \A i \in 1..Len(t) : y[i + 1] = t[i]
  BY <1>1
<1>3. y # <<>>
  BY <1>2
<1>4. Tail(y) \in Seq(S) /\ Len(Tail(y)) = Len(t) /\ \A i \in 1..Len(t) : Tail(y)[i] = t[i]
  BY <1>2, <1>3
<1>5. Tail(y) = t
  BY <1>4, SeqEqual
<1> QED
  BY <1>2, <1>3, <1>5

\* One more record keeps what holds of the questions.
LEMMA QuestionsAfter ==
  ASSUME NEW r \in Folds, NEW e \in Records, Legal(r, e), IsTerminal(r) => r.lease = 0,
         Answered(r), Questions(r),
         e.type = "state-changed" /\ e.kind = "paused" => r.claim = NoClaim
  PROVE  Questions(After(r, e))
<1> DEFINE s == Effect(r, e)
           t == After(r, e)
<1> SUFFICES Questions(t)
  OBVIOUS
<1>1. ~IsTerminal(r) /\ (IsTerminal(t) <=> e.type = "terminal-node-committed")
  BY AfterControl
<1>2. /\ s \in Folds
      /\ t.bound = s.bound /\ t.att = s.att /\ t.claim = s.claim /\ t.inv = s.inv
      /\ t.result = s.result
  BY EffectType DEF After, Folds
<1>3. Open(r) /\ Waiting(r) /\ Dealt(r)
  BY <1>1 DEF Answered, Questions
<1>a. /\ r.node \in Nodes /\ r.att \in [Nodes -> Nat] /\ r.bound \subseteq Claims
      /\ s.att \in [Nodes -> Nat]
  BY <1>2 DEF Folds
<1>b. \A c \in r.bound : c.node \in Nodes /\ c.att \in Nat
  BY <1>a DEF Claims
<1> HIDE DEF t
<1>4. CASE e.type = "state-changed"
  <2>1. /\ s.bound = r.bound /\ s.att = r.att /\ s.claim = r.claim /\ s.result = r.result
        /\ e.kind # "paused" => s.inv = r.inv
    BY <1>4 DEF Effect, Folds, StateChanged
  <2> HIDE DEF s
  <2>2. e.kind \in {"running", "paused"}
    BY <1>4 DEF Records, Types, Kinded
  <2> QED
    BY <1>1, <1>2, <1>3, <1>4, <2>1, <2>2 DEF Questions, Waiting, Dealt
<1>5. CASE e.type \in {"lease-acquired", "lease-released", "lease-revoked", "system-outcome"}
  <2>1. /\ s.bound = r.bound /\ s.att = r.att /\ s.claim = r.claim /\ s.result = r.result
        /\ s.inv = r.inv
    BY <1>5 DEF Effect, Folds, LeaseAcquired, LeaseDropped, SystemOutcome
  <2> HIDE DEF s
  <2> QED
    BY <1>1, <1>2, <1>3, <1>5, <2>1 DEF Questions, Waiting, Dealt
<1>6. CASE e.type = "terminal-node-committed"
  <2> DEFINE n == TerminalOf(e.kind)
  <2>1. s.bound = r.bound
    BY <1>6 DEF Effect, TerminalCommitted, Ended, Folds
  <2>2. s.att = r.att \/ s.att = [r.att EXCEPT ![n] = @ + 1]
    BY <1>6, Zenon DEF Effect, TerminalCommitted, Ended, Folds
  <2>3. \A m \in Nodes : r.att[m] <= s.att[m]
    BY <1>a, <2>2
  <2> HIDE DEF s
  <2>4. Dealt(t)
    BY <1>2, <1>3, <1>a, <1>b, <2>1, <2>3 DEF Dealt
  <2> QED
    BY <1>1, <1>6, <2>4 DEF Questions, Waiting
<1>7. CASE e.type = "node-started"
  <2>1. ~r.started
    BY <1>7 DEF Legal, ActiveLegal
  <2>2. /\ s.bound = r.bound /\ s.claim = r.claim
        /\ s.att = [r.att EXCEPT ![r.node] = @ + 1]
    BY <1>7, Zenon DEF Effect, NodeStarted, Folds
  <2>3. t.claim = NoClaim
    BY <1>2, <1>3, <2>1, <2>2 DEF Open
  <2> HIDE DEF s
  <2>4. Dealt(t)
    BY <1>2, <1>3, <1>a, <1>b, <2>2 DEF Dealt
  <2> QED
    BY <2>3, <2>4 DEF Questions, Waiting
<1>8. CASE e.type = "invocation-started"
  <2>1. /\ s.bound = r.bound /\ s.att = r.att /\ s.claim = r.claim /\ s.result = r.result
        /\ s.inv = TRUE
    BY <1>8 DEF Effect, Folds, InvocationStarted
  <2> HIDE DEF s
  <2> QED
    BY <1>1, <1>2, <1>3, <1>8, <2>1 DEF Questions, Waiting, Dealt
<1>9. CASE e.type = "external-claim-bound"
  <2> DEFINE claim == [node |-> r.node, att |-> r.att[r.node] + 1, cand |-> e.cand]
  <2>1. /\ s.bound = r.bound \cup {claim} /\ s.claim = claim /\ s.result = r.result
        /\ s.inv = TRUE /\ s.att = [r.att EXCEPT ![r.node] = @ + 1]
    BY <1>9, Zenon DEF Effect, ClaimBound, Folds
  <2>2. r.result = "none"
    BY <1>9 DEF Legal, ActiveLegal
  <2>3. Dealt(t)
    BY <1>2, <1>3, <1>a, <1>b, <2>1 DEF Dealt
  <2> HIDE DEF s, claim
  <2> QED
    BY <1>2, <2>1, <2>2, <2>3 DEF Questions, Waiting
<1>10. CASE e.type = "candidate-bound"
  <2>1. /\ s.bound = r.bound /\ s.att = r.att /\ s.claim = r.claim
    BY <1>10 DEF Effect, Folds, CandidateBound
  <2>2. r.claim = NoClaim
    BY <1>1, <1>3, <1>10 DEF Legal, ActiveLegal, Waiting
  <2> HIDE DEF s
  <2> QED
    BY <1>2, <1>3, <2>1, <2>2 DEF Questions, Waiting, Dealt
<1>11. CASE e.type \in {"external-report-accepted", "invocation-result", "failure-routed",
                        "edge-taken"}
  <2>1. /\ s.bound = r.bound /\ s.att = r.att /\ s.claim = NoClaim
    BY <1>11 DEF Effect, Folds, ReportAccepted, InvocationResult, FailureRouted, EdgeTaken, Moved
  <2> HIDE DEF s
  <2> QED
    BY <1>2, <1>3, <2>1 DEF Questions, Waiting, Dealt
<1> QED
  BY <1>4, <1>5, <1>6, <1>7, <1>8, <1>9, <1>10, <1>11 DEF Records, Types, Kinded
------------------------------------------------------------------------------
\* An agent has given an answer that has not yet taken effect.
Owed(r) == ~IsTerminal(r) /\ r.node \in Agents /\ r.result \in Outcomes(Kind[r.node])

LEMMA PendingOwed ==
  /\ Pending # "none" <=> Owed(run)
  /\ Owed(run) => Pending = run.result
BY AgentOutcome DEF Pending, Owed

\* An answer is owed after a record only if the record was the answer, or if
\* it was owed before and nothing about it has changed.
LEMMA OwedAfter ==
  ASSUME NEW r \in Folds, NEW e \in Records, Legal(r, e), Meant(r, e),
         IsTerminal(r) => r.lease = 0, Owed(After(r, e))
  PROVE  /\ After(r, e).node = r.node
         /\ After(r, e).transitions = r.transitions
         /\ After(r, e).visits = r.visits
         /\ e.type \notin {"edge-taken", "failure-routed", "terminal-node-committed"}
         /\ \/ /\ e.type = "external-report-accepted"
               /\ After(r, e).result = e.kind
               /\ After(r, e).cand = r.cand
            \/ /\ e.type # "external-report-accepted"
               /\ Owed(r)
               /\ After(r, e).result = r.result
<1> DEFINE s == Effect(r, e)
           t == After(r, e)
<1>1. ~IsTerminal(r) /\ ~IsTerminal(t) /\ e.type # "terminal-node-committed"
  BY AfterControl DEF Owed
<1>2. /\ s \in Folds
      /\ t.node = s.node /\ t.result = s.result /\ t.cand = s.cand
      /\ t.transitions = s.transitions /\ t.visits = s.visits
  BY EffectType DEF After, Folds
<1>3. t.node \in Agents /\ t.result \in Outcomes(Kind[t.node])
  BY DEF Owed
<1>a. t.result \notin {"none", "pass", "fail"} \cup SystemKinds
  BY <1>3, AgentOutcome
<1> HIDE DEF t
<1>4. CASE e.type \in {"edge-taken", "failure-routed"}
  <2>1. s.result = "none"
    BY <1>4 DEF Effect, Folds, FailureRouted, EdgeTaken, Moved
  <2> QED
    BY <1>2, <1>a, <2>1
<1>5. CASE e.type = "invocation-result"
  <2>1. s.result = e.kind
    BY <1>5 DEF Effect, Folds, InvocationResult
  <2> QED
    BY <1>2, <1>5, <1>a, <2>1 DEF Meant
<1>6. CASE e.type = "external-report-accepted"
  <2>1. /\ s.node = r.node /\ s.result = e.kind /\ s.cand = r.cand
        /\ s.transitions = r.transitions /\ s.visits = r.visits
    BY <1>6 DEF Effect, Folds, ReportAccepted
  <2> HIDE DEF s
  <2> QED
    BY <1>2, <1>6, <2>1 DEF t
<1>7. CASE e.type \in Types \ {"edge-taken", "failure-routed", "invocation-result",
                               "external-report-accepted", "terminal-node-committed"}
  <2>1. /\ s.node = r.node /\ s.result = r.result
        /\ s.transitions = r.transitions /\ s.visits = r.visits
    BY <1>7 DEF Types, Effect, Folds, StateChanged, LeaseAcquired, LeaseDropped, NodeStarted,
                InvocationStarted, ClaimBound, CandidateBound, SystemOutcome
  <2> HIDE DEF s
  <2> QED
    BY <1>1, <1>2, <1>3, <1>7, <2>1 DEF Owed, t
<1> QED
  BY <1>1, <1>4, <1>5, <1>6, <1>7 DEF Records, Types, Kinded

\* The edge of an answer folds as long as its budget lasts ...
LEMMA EdgeFolds ==
  ASSUME NEW r \in Folds, Owed(r), WithinBudget(r), r.state = "running", r.lease # 0,
         r.transitions < MaxTransitions,
         LET d == <<r.node, r.result>> IN MaxVisits[d] = 0 \/ r.visits[d] < MaxVisits[d]
  PROVE  Legal(r, Record("edge-taken", r.result, NoCand))
<1> DEFINE e == Record("edge-taken", r.result, NoCand)
           d == <<r.node, r.result>>
           s == Effect(r, e)
           t == After(r, e)
<1>1. e.type = "edge-taken" /\ e.kind = r.result /\ e \in Records
  BY DEF Record, Records, Types, Kinded, Folds
<1> HIDE DEF e
<1>2. r.node \in Nodes /\ Kind[r.node] \in {"task", "review"} /\ d \in DOMAIN Edge
  BY EdgeAssumption DEF Owed, Agents
<1>3. ActiveLegal(r, e)
  BY <1>1, <1>2 DEF ActiveLegal, CurrentOutcome
<1>4. /\ s.rounds = r.rounds /\ s.agentRuns = r.agentRuns /\ s.checkRuns = r.checkRuns
      /\ s.transitions = r.transitions + 1
      /\ s.visits = [r.visits EXCEPT ![d] = @ + 1]
  BY <1>1, Zenon DEF Effect, EdgeTaken, Moved, Folds
<1>5. /\ t.rounds = s.rounds /\ t.agentRuns = s.agentRuns /\ t.checkRuns = s.checkRuns
      /\ t.transitions = s.transitions /\ t.visits = s.visits
  BY <1>1, Zenon DEF After, Effect, EdgeTaken, Moved, Folds
<1> HIDE DEF s, t
<1>6. \A f \in DOMAIN Edge : MaxVisits[f] # 0 => t.visits[f] <= MaxVisits[f]
  <2> SUFFICES ASSUME NEW f \in DOMAIN Edge, MaxVisits[f] # 0
               PROVE  t.visits[f] <= MaxVisits[f]
    OBVIOUS
  <2>1. r.visits \in [DOMAIN Edge -> Nat] /\ r.visits[f] <= MaxVisits[f] /\ MaxVisits[f] \in Nat
    BY EdgeAssumption DEF Folds, WithinBudget
  <2>2. d = f => r.visits[f] < MaxVisits[f]
    OBVIOUS
  <2> HIDE DEF d
  <2> QED
    BY <1>4, <1>5, <2>1, <2>2
<1>7. WithinBudget(t)
  BY <1>4, <1>5, <1>6, BudgetAssumption DEF WithinBudget, Folds
<1> QED
  BY <1>1, <1>3, <1>7 DEF Legal, t, e

\* ... and so does the candidate before it.
LEMMA CandidateFolds ==
  ASSUME NEW r \in Folds, Owed(r), WithinBudget(r), r.state = "running", r.lease # 0,
         r.result = "complete", r.cand = NoCand, NEW c \in Cands
  PROVE  /\ Legal(r, Record("candidate-bound", "none", c))
         /\ LET t == After(r, Record("candidate-bound", "none", c)) IN
              t.lease = r.lease /\ t.state = r.state
<1> DEFINE e == Record("candidate-bound", "none", c)
           t == After(r, e)
<1>1. e.type = "candidate-bound" /\ e.cand = c /\ e \in Records
  BY DEF Record, Records, Types, Kinded, Results
<1> HIDE DEF e
<1>2. Kind[r.node] = "task"
  BY NodeAssumption DEF Owed, Agents, Outcomes
<1>3. ActiveLegal(r, e)
  BY <1>1, <1>2 DEF ActiveLegal
<1>4. /\ t.rounds = r.rounds /\ t.agentRuns = r.agentRuns /\ t.checkRuns = r.checkRuns
      /\ t.transitions = r.transitions /\ t.visits = r.visits
      /\ t.lease = r.lease /\ t.state = r.state
  BY <1>1 DEF After, Effect, CandidateBound, Folds
<1> HIDE DEF t
<1>5. WithinBudget(t)
  BY <1>4 DEF WithinBudget
<1> QED
  BY <1>1, <1>3, <1>4, <1>5 DEF Legal, t, e
------------------------------------------------------------------------------
\* What every store operation does: it fails, or sets out to append what it
\* has promised; only a process that has a lease, or is about to be granted
\* one, goes on as the owner of one.
Leads(p) ==
  \/ \E next \in Labels :
       /\ Throw(p, next)
       /\ next \in {"idle", "proceed"} \/ (pc[p] = "claim" /\ next = "unclaim")
  \/ \E records \in Seq(Records), change \in {"keep", "write", "clear"}, next \in Labels :
       /\ Perform(p, records, change, next)
       /\ records # <<>>
       /\ Promised(run, records)
       /\ next \in Granted => pc[p] \in Granted \/ Last(records).type = "lease-acquired"
       /\ Last(records).type \in Releases => pc[p] \in Releasing

\* One record.
LEMMA LeadsOne ==
  ASSUME NEW p \in Procs, NEW e \in Records, e.type # "external-report-accepted",
         e.type = "state-changed" /\ e.kind = "paused" => run.claim = NoClaim,
         NEW change \in {"keep", "write", "clear"}, NEW next \in Labels,
         next \in Granted => pc[p] \in Granted, e.type \in Releases => pc[p] \in Releasing,
         Perform(p, <<e>>, change, next)
  PROVE  Leads(p)
<1> DEFINE s == <<e>>
<1>1. s \in Seq(Records) /\ s[1] = e /\ s # <<>> /\ Last(s) = e
  BY DEF Last
<1>2. Promised(run, s)
  BY <1>1 DEF Promised
<1> QED
  BY <1>1, <1>2 DEF Leads

\* terminalizeCurrent().
LEMMA LeadsKill ==
  ASSUME IInv, NEW p \in Procs, NEW kind \in AtomicKinds, NEW next \in Labels,
         next \in Granted => pc[p] \in Granted,
         Perform(p, Kill(kind), "clear", next)
  PROVE  Leads(p)
<1> DEFINE k == IF run.system = "none" THEN kind ELSE run.system
           e == Terminal(k)
<1>1. k \in AtomicKinds
  BY DEF IInv, TypeOK, Folds, AtomicKinds
<1> HIDE DEF k
<1>2. e \in Records /\ e.type = "terminal-node-committed"
  BY <1>1 DEF Terminal, Record, Records, AtomicKinds
<1>3. Perform(p, <<e>>, "clear", next)
  BY DEF Kill, k
<1> HIDE DEF e
<1> QED
  BY <1>2, <1>3, LeadsOne DEF Releases

\* append(), releaseLease() and terminalize().
LEMMA LeadsAppend ==
  ASSUME IInv, NEW p \in Procs, NEW e \in Records, e.type # "external-report-accepted",
         e.type = "state-changed" /\ e.kind = "paused" => run.claim = NoClaim,
         e.type \notin Releases,
         NEW next \in Labels, next \in Granted => pc[p] \in Granted, AppendOne(p, e, next)
  PROVE  Leads(p)
<1>1. CASE Throw(p, "idle")
  BY <1>1 DEF Leads, Labels
<1>2. CASE Perform(p, Kill("exhausted"), "clear", next)
  BY <1>2, LeadsKill DEF AtomicKinds, SystemKinds
<1>3. CASE Perform(p, <<e>>, "keep", next)
  BY <1>3, LeadsOne
<1> QED
  BY <1>1, <1>2, <1>3 DEF AppendOne

LEMMA LeadsEnd ==
  ASSUME IInv, NEW p \in Procs, NEW kind \in AtomicKinds, NEW next \in Labels,
         next \in Granted => pc[p] \in Granted,
         IF Owns(p) THEN Perform(p, Kill(kind), "clear", next) ELSE Throw(p, "idle")
  PROVE  Leads(p)
BY LeadsKill DEF Leads, Labels

LEMMA LeadsRelease ==
  ASSUME IInv, NEW p \in Procs, NEW next \in {"idle", "proceed"}, pc[p] \in Releasing,
         Release(p, next)
  PROVE  Leads(p)
<1> DEFINE e == Plain("lease-released")
<1>1. e \in Records /\ e.type = "lease-released"
  BY DEF Plain, Record, Records, Types, Kinded, Results
<1>2. next \in Labels /\ next \notin Granted
  BY DEF Labels, Granted
<1>3. \/ Throw(p, "idle")
      \/ Perform(p, <<e>>, "clear", next)
      \/ Perform(p, Kill("exhausted"), "clear", next)
  BY DEF Release
<1> HIDE DEF e
<1>4. CASE Throw(p, "idle")
  BY <1>4 DEF Leads, Labels
<1> QED
  BY <1>1, <1>2, <1>3, <1>4, LeadsOne, LeadsKill DEF AtomicKinds, SystemKinds

\* acquireLease() ends with the record that grants the lease, and
\* recoverLease() grants nothing.
LEMMA LeadsAcquire ==
  ASSUME IInv, NEW p \in Procs, Acquire(p) \/ Recover(p)
  PROVE  Leads(p)
<1> DEFINE a == Record("state-changed", "running", NoCand)
           b == Plain("lease-acquired")
           c == Plain("lease-revoked")
           resume == IF run.state \in {"prepared", "paused"} THEN <<a>> ELSE <<>>
           records == resume \o <<b>>
<1>1. /\ a \in Records /\ a.type = "state-changed" /\ a.kind = "running"
      /\ b \in Records /\ b.type = "lease-acquired"
      /\ c \in Records /\ c.type = "lease-revoked"
  BY DEF Plain, Record, Records, Types, Kinded, Results
<1>2. {"idle", "acquire"} \subseteq Labels /\ goal[p] \in Labels /\ "acquire" \notin Granted
      /\ "idle" \notin Granted
  BY DEF IInv, TypeOK, Labels, Granted
<1>3. \/ Throw(p, "idle")
      \/ Perform(p, Kill("exhausted"), "clear", "idle")
      \/ Perform(p, Kill("exhausted"), "clear", "acquire")
      \/ Perform(p, records, "write", goal[p])
      \/ pc[p] \in Releasing /\ Perform(p, <<c>>, "clear", "acquire")
  BY DEF Acquire, Recover, Ready, Releasing
<1> HIDE DEF a, b, c
<1> DEFINE last == <<b>>
<1>a. last \in Seq(Records) /\ Len(last) = 1 /\ last[1] = b
  BY <1>1
<1>4. /\ records \in Seq(Records) /\ records # <<>> /\ Last(records) = b
      /\ records[1] \in {a, b}
  <2>1. CASE resume = <<a>>
    <3> DEFINE first == <<a>>
    <3>1. /\ records = first \o last
          /\ first \in Seq(Records) /\ Len(first) = 1 /\ first[1] = a
      BY <1>1, <2>1
    <3> HIDE DEF first, last, resume, records
    <3>2. /\ records \in Seq(Records) /\ Len(records) = 2
          /\ records[1] = a /\ records[2] = b
      <4>a. /\ records \in Seq(Records) /\ Len(records) = Len(first) + Len(last)
            /\ \A i \in 1..Len(first) + Len(last) :
                 records[i] = IF i <= Len(first) THEN first[i] ELSE last[i - Len(first)]
        BY <1>a, <3>1, ConcatProperties, Zenon
      <4>1. /\ records \in Seq(Records) /\ Len(records) = 2
            /\ \A i \in 1..2 : records[i] = IF i <= 1 THEN first[i] ELSE last[i - 1]
        BY <1>a, <3>1, <4>a
      <4>2. records[1] = first[1] /\ records[2] = last[1]
        BY <4>1
      <4> QED
        BY <1>a, <3>1, <4>1, <4>2
    <3> QED
      BY <3>2 DEF Last
  <2>2. CASE resume = <<>>
    <3>1. records = last
      BY <1>a, <2>2, ConcatEmptySeq
    <3> QED
      BY <1>a, <3>1 DEF Last
  <2> QED
    BY <2>1, <2>2
<1> HIDE DEF records
<1>5. Promised(run, records)
  BY <1>1, <1>4 DEF Promised
<1>6. CASE Throw(p, "idle")
  BY <1>6 DEF Leads, Labels
<1>7. CASE Perform(p, Kill("exhausted"), "clear", "idle")
           \/ Perform(p, Kill("exhausted"), "clear", "acquire")
  BY <1>2, <1>7, LeadsKill DEF AtomicKinds, SystemKinds
<1>8. CASE pc[p] \in Releasing /\ Perform(p, <<c>>, "clear", "acquire")
  BY <1>1, <1>2, <1>8, LeadsOne
<1>9. CASE Perform(p, records, "write", goal[p])
  BY <1>1, <1>2, <1>4, <1>5, <1>9 DEF Leads, Releases
<1> QED
  BY <1>3, <1>6, <1>7, <1>8, <1>9

\* bindExternalClaim().
LEMMA LeadsBind ==
  ASSUME IInv, NEW p \in Procs, BindClaim(p)
  PROVE  Leads(p)
<1> DEFINE e == Record("external-claim-bound", "none", ws)
<1>1. e \in Records /\ e.type = "external-claim-bound"
  BY DEF IInv, TypeOK, Record, Records, Types, Kinded, Results
<1>2. \/ Perform(p, <<e>>, "keep", "idle")
      \/ pc[p] = "claim" /\ Throw(p, "unclaim")
  BY DEF BindClaim, Ready
<1> HIDE DEF e
<1>3. {"idle", "unclaim"} \subseteq Labels /\ "idle" \notin Granted
  BY DEF Labels, Granted
<1> QED
  BY <1>1, <1>2, <1>3, LeadsOne DEF Leads, Releases

\* acceptExternalReport() sets out to append the answer with all its effects.
LEMMA LeadsAccept ==
  ASSUME IInv, NEW p \in Procs, Accept(p)
  PROVE  Leads(p)
<1> DEFINE c == arg[p].claim
           o == arg[p].kind
           prior == AcceptedKind(c) # {}
           answer == Answer(prior, o)
<1>1. {"idle", "proceed"} \subseteq Labels /\ "proceed" \notin Granted /\ pc[p] \in Releasing
  BY DEF Labels, Granted, Accept, Ready, Releasing
<1>2. \/ Throw(p, "idle") \/ Throw(p, "proceed")
      \/ Release(p, "proceed")
      \/ Perform(p, Kill("exhausted"), "clear", "proceed")
      \/ BoundaryHolds(c, o) /\ Perform(p, answer, "clear", "proceed")
  BY DEF Accept
<1>3. ASSUME BoundaryHolds(c, o)
      PROVE  answer \in Seq(Records) /\ answer # <<>> /\ Promised(run, answer)
  <2> DEFINE r1 == Record("external-report-accepted", o, NoCand)
             r2 == Record("candidate-bound", "none", ws)
             r3 == Record("edge-taken", o, NoCand)
             r4 == Plain("lease-released")
             bound == o = "complete" /\ run.cand = NoCand
  <2>1. o \in Results /\ ws \in Cands
    BY DEF IInv, TypeOK, Args
  <2>2. /\ r1 \in Records /\ r1.type = "external-report-accepted" /\ r1.kind = o
        /\ r2 \in Records /\ r2.type = "candidate-bound"
        /\ r3 \in Records /\ r3.type = "edge-taken"
        /\ r4 \in Records
    BY <2>1 DEF Plain, Record, Records, Types, Kinded, Results
  <2> DEFINE left == Leaving(o)
             rest == IF bound THEN <<r2>> \o left ELSE left
  <2>3. rest \in Effects(run, o)
    BY <2>1 DEF Effects
  <2>4. answer = (IF prior THEN <<>> ELSE <<r1>>) \o (IF bound THEN <<r2>> ELSE <<>>) \o left
    BY DEF Answer, Leaving
  <2>5. o = "complete" <=> Kind[run.node] = "task"
    BY <1>3 DEF BoundaryHolds
  <2>6. left \in Seq(Records) /\ left # <<>> /\ left[1] = r3
    BY <2>2 DEF Leaving
  <2>7. /\ rest \in Seq(Records) /\ rest # <<>> /\ rest[1] \in {r2, r3}
        /\ rest = (IF bound THEN <<r2>> ELSE <<>>) \o left
    <3> HIDE DEF r1, r2, r3, r4, bound, left
    <3> QED
      BY <2>2, <2>6, Spliced, ConcatEmptySeq
  <2>8. answer = (IF prior THEN <<>> ELSE <<r1>>) \o rest
    <3> DEFINE f == IF prior THEN <<>> ELSE <<r1>>
               g == IF bound THEN <<r2>> ELSE <<>>
    <3>1. f \in Seq(Records) /\ g \in Seq(Records)
      BY <2>2
    <3>2. answer = (f \o g) \o left /\ rest = g \o left
      BY <2>4, <2>7
    <3> HIDE DEF f, g, left, rest, answer
    <3>3. answer = f \o rest
      BY <2>6, <3>1, <3>2, ConcatAssociative
    <3> QED
      BY <3>3 DEF f
  <2> HIDE DEF r1, r2, r3, r4, answer, prior, bound, left, rest
  <2>9. CASE prior
    <3>1. answer = rest
      BY <2>7, <2>8, <2>9, ConcatEmptySeq
    <3> QED
      BY <2>2, <2>7, <3>1 DEF Promised
  <2>10. CASE ~prior
    <3>1. answer = <<r1>> \o rest
      BY <2>8, <2>10
    <3>2. Tail(answer) = rest /\ answer[1] = r1 /\ answer \in Seq(Records) /\ answer # <<>>
      BY <2>2, <2>7, <3>1, Spliced
    <3> QED
      BY <2>2, <2>3, <2>5, <3>2 DEF Promised
  <2> QED
    BY <2>9, <2>10
<1> HIDE DEF answer, prior, c, o
<1>4. CASE Throw(p, "idle") \/ Throw(p, "proceed")
  BY <1>1, <1>4 DEF Leads
<1>5. CASE Release(p, "proceed")
  BY <1>1, <1>5, LeadsRelease
<1>6. CASE Perform(p, Kill("exhausted"), "clear", "proceed")
  BY <1>1, <1>6, LeadsKill DEF AtomicKinds, SystemKinds
<1>7. CASE BoundaryHolds(c, o) /\ Perform(p, answer, "clear", "proceed")
  BY <1>1, <1>3, <1>7 DEF Leads
<1> QED
  BY <1>2, <1>4, <1>5, <1>6, <1>7

\* step().
LEMMA LeadsStep ==
  ASSUME IInv, NEW p \in Procs, Step(p)
  PROVE  Leads(p)
<1>1. {"idle", "run", "check"} \subseteq Labels /\ pc[p] \in Granted /\ pc[p] \in Releasing
  BY DEF Labels, Step, Ready, Granted, Releasing
<1>2. run.node \in Nodes /\ run.system \in SystemKinds \cup {"none", "converged"}
      /\ run.result \in Results /\ GateOutcome(run) \in Results
  BY DEF IInv, TypeOK, Folds, GateOutcome, Results
<1>3. ASSUME NEW type \in {"node-started", "invocation-started", "failure-routed"},
             NEW next \in Labels, AppendOne(p, Plain(type), next)
      PROVE  Leads(p)
  <2> DEFINE e == Plain(type)
  <2>1. e \in Records /\ e.type = type
    BY DEF Plain, Record, Records, Types, Kinded, Results
  <2> HIDE DEF e
  <2> QED
    BY <1>1, <1>3, <2>1, LeadsAppend DEF e, Releases
<1>4. ASSUME NEW kind \in SystemKinds, System(p, kind) PROVE Leads(p)
  <2> DEFINE e == Record("system-outcome", kind, NoCand)
  <2>1. e \in Records /\ e.type = "system-outcome"
    BY DEF Record, Records
  <2>2. AppendOne(p, e, "run")
    BY <1>4 DEF System
  <2> HIDE DEF e
  <2> QED
    BY <1>1, <2>1, <2>2, LeadsAppend DEF Releases
<1>5. ASSUME NEW o \in Results, TakeEdge(p, o) PROVE Leads(p)
  <2> DEFINE e == Record("edge-taken", o, NoCand)
  <2>1. e \in Records /\ e.type = "edge-taken"
    BY DEF Record, Records, Types, Kinded
  <2>2. System(p, "exhausted") \/ AppendOne(p, e, "run")
    BY <1>5 DEF TakeEdge
  <2> HIDE DEF e
  <2> QED
    BY <1>1, <1>4, <2>1, <2>2, LeadsAppend DEF SystemKinds, Releases
<1>6. ASSUME run.node \in DOMAIN Final, AppendTerminal(p, Final[run.node], "run")
      PROVE  Leads(p)
  <2> DEFINE kind == KindOf(Final[run.node])
  <2>1. kind \in AtomicKinds
    BY <1>6, FinalAssumption DEF TerminalStates, KindOf, AtomicKinds, SystemKinds
  <2>2. IF Owns(p) THEN Perform(p, Kill(kind), "clear", "run") ELSE Throw(p, "idle")
    BY <1>6 DEF AppendTerminal
  <2> HIDE DEF kind
  <2> QED
    BY <1>1, <2>1, <2>2, LeadsEnd
<1>7. ASSUME Route(p), run.system # "none" PROVE Leads(p)
  <2>1. TerminalOf(run.system) \in DOMAIN Final
    BY <1>2, <1>7, TerminalNode, FinalAssumption DEF AtomicKinds
  <2> QED
    BY <1>1, <1>3, <1>6, <1>7, <2>1 DEF Route
<1>8. Kind[run.node] = "terminal" => run.node \in DOMAIN Final
  BY <1>2, FinalAssumption
<1>9. \/ Throw(p, "idle")
      \/ Route(p) /\ run.system # "none"
      \/ System(p, "exhausted") \/ System(p, "lost")
      \/ Release(p, "idle")
      \/ AppendOne(p, Plain("node-started"), "run")
      \/ Kind[run.node] = "terminal" /\ AppendTerminal(p, Final[run.node], "run")
      \/ TakeEdge(p, GateOutcome(run)) \/ TakeEdge(p, run.result)
      \/ AppendOne(p, Plain("invocation-started"), "check")
  BY DEF Step
<1>10. CASE Throw(p, "idle")
  BY <1>1, <1>10 DEF Leads
<1>11. CASE Release(p, "idle")
  BY <1>1, <1>11, LeadsRelease
<1>12. CASE System(p, "exhausted") \/ System(p, "lost")
  BY <1>4, <1>12 DEF SystemKinds
<1>13. CASE AppendOne(p, Plain("node-started"), "run")
            \/ AppendOne(p, Plain("invocation-started"), "check")
  BY <1>1, <1>3, <1>13
<1>14. CASE TakeEdge(p, GateOutcome(run)) \/ TakeEdge(p, run.result)
  BY <1>2, <1>5, <1>14
<1> QED
  BY <1>6, <1>7, <1>8, <1>9, <1>10, <1>11, <1>12, <1>13, <1>14

\* The rest of what a process does under the lock.  A Run is paused only when
\* nobody is asked.
LEMMA LeadsOthers ==
  ASSUME IInv, Questions(run), NEW p \in Procs,
         \/ Unclaim(p) \/ PauseRun(p) \/ PauseRelease(p) \/ StopRun(p)
         \/ AbandonRun(p) \/ LoseRun(p) \/ CheckEnd(p)
  PROVE  Leads(p)
<1>1. {"idle", "run", "unpause"} \subseteq Labels /\ "idle" \notin Granted
  BY DEF Labels, Granted
<1>2. ASSUME Throw(p, "idle") PROVE Leads(p)
  BY <1>1, <1>2 DEF Leads
<1>3. ASSUME NEW kind \in {"cancelled", "lost"}, Terminalize(p, kind) PROVE Leads(p)
  BY <1>1, <1>3, LeadsEnd DEF Terminalize, AtomicKinds, SystemKinds
<1>4. CASE Unclaim(p)
  BY <1>2, <1>4, LeadsRelease DEF Unclaim, Ready, Releasing, Granted
<1>5. CASE PauseRun(p)
  <2> DEFINE e == Record("state-changed", "paused", NoCand)
  <2>1. e \in Records /\ e.type = "state-changed"
    BY DEF Record, Records
  <2>2. pc[p] \in Granted
    BY <1>5 DEF PauseRun, Ready, Granted
  <2>3. Throw(p, "idle") \/ (~(run.inv /\ run.result = "none") /\ AppendOne(p, e, "unpause"))
    BY <1>5 DEF PauseRun
  <2> HIDE DEF e
  <2>4. CASE ~Owns(p)
    BY <1>2, <2>3, <2>4 DEF AppendOne
  <2>5. CASE Owns(p) /\ ~(run.inv /\ run.result = "none")
    <3>1. run.claim = NoClaim
      BY <2>5, OwnerAlive DEF Questions, Waiting
    <3> QED
      BY <1>1, <1>2, <2>1, <2>2, <2>3, <3>1, LeadsAppend DEF Releases
  <2> QED
    BY <1>2, <2>3, <2>4, <2>5
<1>6. CASE PauseRelease(p)
  BY <1>6, LeadsRelease DEF PauseRelease, Ready, Releasing, Granted
<1>7. CASE StopRun(p)
  BY <1>3, <1>7 DEF StopRun
<1>8. CASE AbandonRun(p)
  BY <1>2, <1>3, <1>8 DEF AbandonRun
<1>9. CASE LoseRun(p)
  BY <1>3, <1>9 DEF LoseRun
<1>10. CASE CheckEnd(p)
  <2>1. PICK e \in CheckResults(p) : AppendOne(p, e, "run")
    BY <1>10 DEF CheckEnd
  <2>2. /\ arg[p].cand \in Cands \cup {NoCand} /\ run.cand \in Cands \cup {NoCand}
        /\ pc[p] \in Granted
    BY <1>10 DEF IInv, TypeOK, Args, Folds, CheckEnd, Ready, Granted
  <2>3. PICK o \in {"error", "pass", "fail", "timeout"}, c \in Cands \cup {NoCand} :
          e = Record("invocation-result", o, c)
    BY <2>2 DEF CheckResults
  <2>4. e \in Records /\ e.type = "invocation-result"
    BY <2>3 DEF Record, Records, Types, Kinded, Results, SystemKinds
  <2> QED
    BY <1>1, <2>1, <2>2, <2>4, LeadsAppend DEF Releases
<1> QED
  BY <1>4, <1>5, <1>6, <1>7, <1>8, <1>9, <1>10

\* Every store operation.
StoreWork(p) ==
  \/ Acquire(p) \/ BindClaim(p) \/ Recover(p) \/ Accept(p) \/ Step(p)
  \/ Unclaim(p) \/ PauseRun(p) \/ PauseRelease(p) \/ StopRun(p)
  \/ AbandonRun(p) \/ LoseRun(p) \/ CheckEnd(p)

LEMMA StoreLeads ==
  ASSUME IInv, Questions(run), NEW p \in Procs, StoreWork(p)
  PROVE  Leads(p) /\ op.by = NoProc /\ op.do = <<>>
<1>1. op = Idle
  BY DEF StoreWork, Acquire, BindClaim, Recover, Accept, Step, Unclaim, PauseRun, PauseRelease,
         StopRun, AbandonRun, LoseRun, CheckEnd, Ready, Free
<1> QED
  BY <1>1, LeadsAcquire, LeadsBind, LeadsAccept, LeadsStep, LeadsOthers DEF StoreWork, Idle
------------------------------------------------------------------------------
\* What a publication does.
LEMMA Published ==
  ASSUME IInv, Publish
  PROVE  LET e == op.do[1] IN
         /\ op.do \in Seq(Records) /\ op.do # <<>> /\ e \in Records /\ op.by \in Procs
         /\ op.next \in Labels
         /\ crashes' = crashes
         /\ \/ /\ Legal(run, e) /\ Fits(e)
               /\ run' = After(run, e)
               /\ op'.do = Tail(op.do) /\ op'.by = op.by /\ op'.next = op.next
               /\ my' = IF e.type = "lease-acquired"
                          THEN [my EXCEPT ![op.by] = run.gen + 1] ELSE my
               /\ pc' = pc
            \/ /\ ~(Legal(run, e) /\ Fits(e))
               /\ run' = run
               /\ op' = Idle
               /\ Land(op.by, "idle")
<1>1. op.do \in Seq(Records) /\ op.do # <<>> /\ op \in Ops /\ op.by \in Procs
      /\ op.next \in Labels
  BY DEF IInv, TypeOK, Called, Ops, Publish, Idle
<1>2. Head(op.do) = op.do[1] /\ op.do[1] \in Records
  BY <1>1, Rest
<1> DEFINE e == Head(op.do)
<1>3. crashes' = crashes
  BY DEF Publish
<1>4. CASE Legal(run, e) /\ Fits(e)
  <2>1. /\ run' = After(run, e)
        /\ op' = [op EXCEPT !.do = Tail(@)]
        /\ my' = IF e.type = "lease-acquired" THEN [my EXCEPT ![op.by] = run.gen + 1] ELSE my
        /\ pc' = pc
    BY <1>4 DEF Publish
  <2>2. op'.do = Tail(op.do) /\ op'.by = op.by /\ op'.next = op.next
    BY <1>1, <2>1 DEF Ops
  <2> HIDE DEF e
  <2> QED
    BY <1>1, <1>2, <1>3, <1>4, <2>1, <2>2 DEF e
<1>5. CASE ~(Legal(run, e) /\ Fits(e))
  <2>1. op' = Idle /\ Land(op.by, "idle") /\ run' = run
    BY <1>5, Zenon DEF Publish
  <2> QED
    BY <1>1, <1>2, <1>3, <1>5, <2>1
<1> QED
  BY <1>4, <1>5

\* Every step, by what it does to the journal and to the operation.
LEMMA Steps ==
  ASSUME [Next]_vars
  PROVE  \/ Publish
         \/ Finish
         \/ \E p \in Procs : StoreWork(p) \/ Crash(p)
         \/ /\ UNCHANGED <<run, crashes>>
            /\ WriteProof \/ UNCHANGED op
BY DEF Next, Store, WriteProof, Work, StoreWork, Busy, Proceed, CheckBegin, Throw, Command,
       ClaimTask, Pause, Stop, Abandon, Reconcile, Report, Want, Edit, Expire, vars

\* The remainder of an answer.
LEMMA EffectParts ==
  ASSUME NEW r \in Folds, NEW o \in Results, NEW s \in Effects(r, o)
  PROVE  /\ s \in Seq(Records) /\ s # <<>>
         /\ \/ s[1] = Record("edge-taken", o, NoCand)
            \/ /\ \E c \in Cands : s[1] = Record("candidate-bound", "none", c)
               /\ o = "complete" /\ r.cand = NoCand
               /\ Tail(s) = Leaving(o)
<1> DEFINE left == Leaving(o)
<1>1. left \in Seq(Records) /\ left # <<>> /\ left[1] = Record("edge-taken", o, NoCand)
  BY DEF Leaving, Record, Plain, Records, Types, Kinded, Results
<1>2. \A c \in Cands : Record("candidate-bound", "none", c) \in Records
  BY DEF Record, Records, Types, Kinded, Results
<1> HIDE DEF left
<1>3. s = left \/ \E c \in Cands : /\ s = <<Record("candidate-bound", "none", c)>> \o left
                                   /\ o = "complete" /\ r.cand = NoCand
  BY DEF Effects, left
<1>4. CASE s = left
  BY <1>1, <1>4
<1>5. ASSUME NEW c \in Cands, s = <<Record("candidate-bound", "none", c)>> \o left,
             o = "complete", r.cand = NoCand
      PROVE  /\ s \in Seq(Records) /\ s # <<>> /\ Tail(s) = left
             /\ s[1] = Record("candidate-bound", "none", c)
  <2> DEFINE a == Record("candidate-bound", "none", c)
  <2>1. a \in Records /\ s = <<a>> \o left
    BY <1>2, <1>5
  <2> HIDE DEF a
  <2>2. /\ s \in Seq(Records) /\ s # <<>> /\ Tail(s) = left /\ s[1] = a
    BY <1>1, <2>1, Spliced
  <2> QED
    BY <2>2 DEF a
<1> QED
  BY <1>3, <1>4, <1>5 DEF left

\* The first record of what is left of an answer folds and fits, unless the
\* budget of the edge is spent.
LEMMA AnswerGoesOn ==
  ASSUME IInv, WithinBudget(run), Owed(run), ~Spent(<<run.node, run.result>>),
         run.state = "running", run.lease # 0, op.do \in Effects(run, run.result)
  PROVE  Legal(run, op.do[1]) /\ Fits(op.do[1])
<1>1. run \in Folds /\ run.result \in Results /\ run.seq \in Nat
  BY DEF IInv, TypeOK, Folds
<1> DEFINE e == op.do[1]
           o == run.result
<1>2. /\ op.do \in Seq(Records) /\ op.do # <<>>
      /\ \/ e = Record("edge-taken", o, NoCand)
         \/ /\ \E c \in Cands : e = Record("candidate-bound", "none", c)
            /\ o = "complete" /\ run.cand = NoCand
  BY <1>1, EffectParts
<1>3. Legal(run, e)
  <2>1. CASE e = Record("edge-taken", o, NoCand)
    <3> DEFINE d == <<run.node, run.result>>
    <3>1. d \in DOMAIN Edge
      BY <1>1, EdgeAssumption DEF Owed, Folds
    <3>2. /\ run.transitions \in Nat /\ MaxTransitions \in Nat
          /\ run.visits[d] \in Nat /\ MaxVisits[d] \in Nat
      BY <1>1, <3>1, BudgetAssumption, EdgeAssumption DEF Folds
    <3> HIDE DEF d
    <3>3. run.transitions < MaxTransitions /\ (MaxVisits[d] = 0 \/ run.visits[d] < MaxVisits[d])
      BY <3>2 DEF Spent, d
    <3> QED
      BY <1>1, <2>1, <3>3, EdgeFolds DEF d
  <2>2. CASE /\ \E c \in Cands : e = Record("candidate-bound", "none", c)
             /\ o = "complete" /\ run.cand = NoCand
    BY <1>1, <2>2, CandidateFolds
  <2> QED
    BY <1>2, <2>1, <2>2
<1>4. e.type # "terminal-node-committed"
  <2>1. e.type \in {"edge-taken", "candidate-bound"}
    <3> HIDE DEF e
    <3> QED
      BY <1>2 DEF Record
  <2> QED
    BY <2>1
<1>5. Len(op.do) \in Nat \ {0}
  BY <1>2
<1>6. run.seq + Len(op.do) < JournalMax
  BY <1>2, <1>4 DEF IInv, TailFits, Terminal, Record
<1>7. Fits(e)
  BY <1>1, <1>4, <1>5, <1>6, JournalAssumption DEF Fits, Retains
<1> QED
  BY <1>3, <1>7

\* An accepted answer is acted on or cannot be.
LEMMA UnderWayStep == ASSUME IInv, CInv, KInv, [Next]_vars PROVE UnderWay'
<1>1. run \in Folds /\ (IsTerminal(run) => run.lease = 0) /\ run.result \in Results
  BY DEF IInv, TypeOK, Nobody, Folds
<1>2. Pending # "none" <=> Owed(run)
  BY PendingOwed
<1>3. op.do \in Effects(run, run.result) => op.do # <<>>
  BY <1>1, EffectParts
<1>4. ASSUME UNCHANGED <<run, crashes>>, op'.do = op.do \/ op.do = <<>> PROVE UnderWay'
  <2>1. CASE op'.do = op.do
    BY <1>4, <2>1 DEF KInv, UnderWay, Pending, Spent
  <2>2. CASE op.do = <<>>
    <3>1. crashes = 0 /\ Pending # "none" => Spent(<<run.node, run.result>>)
      BY <1>3, <2>2 DEF KInv, UnderWay
    <3> QED
      BY <1>4, <3>1 DEF UnderWay, Pending, Spent
  <2> QED
    BY <1>4, <2>1, <2>2
<1>5. CASE Finish
  BY <1>4, <1>5 DEF Finish, Crash
<1>6. ASSUME NEW p \in Procs, StoreWork(p) PROVE UnderWay'
  <2>1. op.do = <<>> /\ UNCHANGED <<run, crashes>>
    BY <1>6, StoreLeads DEF KInv, Leads, Throw, Perform
  <2> QED
    BY <1>4, <2>1
<1>7. ASSUME NEW p \in Procs, Crash(p) PROVE UnderWay'
  BY <1>7, CrashAssumption DEF Crash, UnderWay, IInv, TypeOK
<1>8. CASE UNCHANGED <<run, crashes>> /\ (WriteProof \/ UNCHANGED op)
  BY <1>4, <1>8 DEF WriteProof, IInv, TypeOK, Ops
<1>9. CASE Publish
  <2> DEFINE e == op.do[1]
             d == <<run.node, run.result>>
  <2>1. /\ op.do \in Seq(Records) /\ op.do # <<>> /\ e \in Records /\ crashes' = crashes
        /\ \/ /\ Legal(run, e) /\ Fits(e)
              /\ run' = After(run, e)
              /\ op'.do = Tail(op.do)
           \/ /\ ~(Legal(run, e) /\ Fits(e))
              /\ run' = run
    BY <1>9, Published
  <2> SUFFICES ASSUME crashes = 0, Owed(run')
               PROVE  \/ Spent(<<run.node, run.result>>)'
                      \/ run'.state = "running" /\ run'.lease # 0
                         /\ op'.do \in Effects(run', run'.result)
    <3>1. Pending' # "none" <=> Owed(run')
      <4>1. (Pending # "none")' <=> Owed(run)'
        BY PendingOwed, PTL
      <4> QED
        BY <4>1 DEF Owed, IsTerminal
    <3> QED
      BY <2>1, <3>1 DEF UnderWay
  <2> HIDE DEF e
  <2>2. CASE ~(Legal(run, e) /\ Fits(e)) /\ run' = run
    <3>1. Owed(run) /\ Spent(d)
      BY <1>2, <2>2, AnswerGoesOn DEF KInv, UnderWay, e
    <3> QED
      BY <2>2, <3>1 DEF Spent
  <2>3. CASE Legal(run, e) /\ run' = After(run, e) /\ op'.do = Tail(op.do)
    <3>1. Meant(run, e) /\ Promised(run, op.do)
      BY <2>1 DEF CInv, KInv, Intent, e
    <3>2. /\ run'.node = run.node /\ run'.transitions = run.transitions
          /\ run'.visits = run.visits
          /\ e.type # "edge-taken"
          /\ \/ /\ e.type = "external-report-accepted"
                /\ run'.result = e.kind /\ run'.cand = run.cand
             \/ Owed(run) /\ run'.result = run.result
      BY <1>1, <2>1, <2>3, <3>1, OwedAfter
    <3>3. CASE e.type = "external-report-accepted" /\ run'.result = e.kind /\ run'.cand = run.cand
      <4>1. Tail(op.do) \in Effects(run, e.kind)
        BY <2>1, <3>1, <3>3 DEF Promised, e
      <4>2. run.state = "running" /\ run.lease # 0
        BY <2>3, <3>3 DEF Legal
      <4>3. run'.state = run.state /\ run'.lease = run.lease
        BY <1>1, <2>3, <3>3 DEF After, Effect, ReportAccepted, Folds
      <4>4. Effects(run', run'.result) = Effects(run, e.kind)
        BY <3>3 DEF Effects
      <4> QED
        BY <2>3, <4>1, <4>2, <4>3, <4>4
    <3>4. CASE Owed(run) /\ run'.result = run.result
      <4>1. CASE Spent(d)
        BY <3>2, <3>4, <4>1 DEF Spent
      <4>2. CASE /\ run.state = "running" /\ run.lease # 0
                 /\ op.do \in Effects(run, run.result)
        <5>1. /\ e # Record("edge-taken", run.result, NoCand)
              /\ \E c \in Cands : e = Record("candidate-bound", "none", c)
              /\ run.result = "complete" /\ run.cand = NoCand
              /\ Tail(op.do) = Leaving(run.result)
          <6>1. e # Record("edge-taken", run.result, NoCand)
            BY <3>2 DEF Record
          <6>2. \/ e = Record("edge-taken", run.result, NoCand)
                \/ /\ \E c \in Cands : e = Record("candidate-bound", "none", c)
                   /\ run.result = "complete" /\ run.cand = NoCand
                   /\ Tail(op.do) = Leaving(run.result)
            BY <1>1, <4>2, EffectParts DEF e
          <6> QED
            BY <6>1, <6>2
        <5>2. run'.lease = run.lease /\ run'.state = run.state
          BY <1>1, <2>3, <3>4, <4>2, <5>1, CandidateFolds DEF KInv
        <5>3. op'.do \in Effects(run', run'.result)
          BY <2>3, <3>4, <5>1 DEF Effects
        <5> QED
          BY <4>2, <5>2, <5>3
      <4> QED
        BY <1>2, <3>4, <4>1, <4>2 DEF KInv, UnderWay
    <3> QED
      BY <3>2, <3>3, <3>4
  <2> QED
    BY <2>1, <2>2, <2>3
<1> QED
  BY <1>5, <1>6, <1>7, <1>8, <1>9, Steps

\* What an operation has promised stays true until it has appended it.
LEMMA PromisedStep == ASSUME IInv, CInv, KInv, [Next]_vars PROVE Promised(run', op'.do)
<1>1. ASSUME run' = run, op'.do = op.do PROVE Promised(run', op'.do)
  BY <1>1 DEF KInv
<1>2. ASSUME op'.do = <<>> PROVE Promised(run', op'.do)
  BY <1>2 DEF Promised
<1>3. CASE Publish
  <2>1. op.do \in Seq(Records) /\ op.do # <<>> /\ (op'.do = Tail(op.do) \/ op' = Idle)
    BY <1>3, Published
  <2>2. CASE op' = Idle
    BY <1>2, <2>2 DEF Idle
  <2>3. CASE op'.do = Tail(op.do) /\ op'.do # <<>>
    <3> DEFINE t == Tail(op.do)
    <3>1. Len(op.do) \in Nat /\ Len(op.do) > 1 /\ t[1] = op.do[2]
      BY <2>1, <2>3, Rest
    <3>2. t[1].type \in Trailing
      BY <3>1 DEF CInv, Intent
    <3> HIDE DEF t
    <3> QED
      BY <2>3, <3>2 DEF Promised, Trailing, t
  <2> QED
    BY <1>2, <2>1, <2>2, <2>3
<1>4. CASE Finish
  BY <1>2, <1>4 DEF Finish, Idle
<1>5. ASSUME NEW p \in Procs, StoreWork(p) PROVE Promised(run', op'.do)
  <2>1. Leads(p) /\ op.do = <<>>
    BY <1>5, StoreLeads DEF KInv
  <2>2. CASE \E next \in Labels : Throw(p, next)
    BY <1>1, <2>2 DEF Throw
  <2>3. ASSUME NEW records \in Seq(Records), NEW change, NEW next,
               Perform(p, records, change, next), Promised(run, records)
        PROVE  Promised(run', op'.do)
    BY <2>3 DEF Perform
  <2> QED
    BY <2>1, <2>2, <2>3 DEF Leads
<1>6. ASSUME NEW p \in Procs, Crash(p) PROVE Promised(run', op'.do)
  BY <1>1, <1>2, <1>6 DEF Crash, Idle
<1>7. CASE UNCHANGED run /\ (WriteProof \/ UNCHANGED op)
  BY <1>1, <1>7 DEF WriteProof, IInv, TypeOK, Ops
<1> QED
  BY <1>3, <1>4, <1>5, <1>6, <1>7, Steps
------------------------------------------------------------------------------
\* A step of one process that grants it nothing keeps the holders apart.
LEMMA NothingGranted ==
  ASSUME IInv, Apart, NEW p \in Procs, run' = run,
         \A q \in Procs \ {p} : pc'[q] = pc[q] /\ my'[q] = my[q],
         my'[p] <= run.gen,
         pc'[p] \in Granted => Holds(p) /\ my'[p] \in {0, my[p]},
         op' = Idle \/ (op' = op /\ op.by # p)
  PROVE  Apart'
<1>1. NoProc \notin Procs /\ op.by \in Procs \cup {NoProc}
  BY ProcAssumption DEF IInv, TypeOK, Ops
<1>2. ASSUME NEW q \in Procs, Holds(q)' PROVE Holds(q) /\ my'[q] \in {0, my[q]}
  <2>1. CASE op' = Idle
    <3>1. pc'[q] \in Granted
      BY <1>1, <1>2, <2>1 DEF Holds, Idle
    <3> QED
      BY <3>1 DEF Holds
  <2>2. CASE op' = op /\ op.by # p
    BY <1>2, <2>2 DEF Holds
  <2> QED
    BY <2>1, <2>2
<1>3. \A q \in Procs : my'[q] <= run'.gen
  BY DEF Apart
<1>4. run'.lease <= run'.gen
  BY DEF Apart
<1>5. ASSUME NEW q \in Procs, NEW s \in Procs, q # s, Holds(q)', Holds(s)'
      PROVE  my'[q] = 0 \/ my'[q] # my'[s]
  BY <1>2, <1>5 DEF Apart
<1>6. op'.by # NoProc /\ op'.do # <<>> /\ op'.next \in Granted /\ pc'[op'.by] \notin Granted =>
        Last(op'.do).type = "lease-acquired"
  <2>1. CASE op' = Idle
    BY <2>1 DEF Idle
  <2>2. CASE op' = op /\ op.by # p
    BY <1>1, <2>2 DEF Apart
  <2> QED
    BY <2>1, <2>2
<1> QED
  BY <1>3, <1>4, <1>5, <1>6 DEF Apart, Holds

\* A lease is granted to one process, under a number nobody has yet.
LEMMA PublishApart == ASSUME IInv, Apart, Publish PROVE Apart'
<1> DEFINE e == op.do[1]
           b == op.by
<1>1. /\ op.do \in Seq(Records) /\ op.do # <<>> /\ e \in Records /\ b \in Procs
      /\ \/ /\ Legal(run, e)
            /\ run' = After(run, e)
            /\ op'.do = Tail(op.do) /\ op'.by = b /\ op'.next = op.next
            /\ my' = IF e.type = "lease-acquired" THEN [my EXCEPT ![b] = run.gen + 1] ELSE my
            /\ pc' = pc
         \/ run' = run /\ op' = Idle /\ Land(b, "idle")
  BY Published
<1>2. /\ run \in Folds /\ (IsTerminal(run) => run.lease = 0) /\ run.gen \in Nat
      /\ my \in [Procs -> Nat]
  BY DEF IInv, TypeOK, Nobody, Folds
<1> HIDE DEF e, b
<1>3. CASE run' = run /\ op' = Idle /\ Land(b, "idle")
  <2>1. /\ pc'[b] = "idle" /\ my'[b] = 0
        /\ \A q \in Procs \ {b} : pc'[q] = pc[q] /\ my'[q] = my[q]
    BY <1>1, <1>3, LandType DEF Land, Goto, IInv, TypeOK
  <2> QED
    BY <1>1, <1>2, <1>3, <2>1, NothingGranted DEF Granted
<1>4. CASE /\ Legal(run, e)
           /\ run' = After(run, e)
           /\ op'.do = Tail(op.do) /\ op'.by = b /\ op'.next = op.next
           /\ my' = IF e.type = "lease-acquired" THEN [my EXCEPT ![b] = run.gen + 1] ELSE my
           /\ pc' = pc
  <2>1. /\ Len(op.do) \in Nat \ {0}
        /\ Tail(op.do) # <<>> <=> Len(op.do) > 1
        /\ Tail(op.do) # <<>> => Last(Tail(op.do)) = Last(op.do)
        /\ Tail(op.do) = <<>> => Last(op.do) = e
    <3>1. /\ Len(op.do) \in Nat \ {0}
          /\ Tail(op.do) # <<>> <=> Len(op.do) > 1
          /\ Tail(op.do) # <<>> => Last(Tail(op.do)) = Last(op.do)
      BY <1>1, Rest
    <3>2. Tail(op.do) = <<>> => Last(op.do) = e
      <4> SUFFICES ASSUME Tail(op.do) = <<>> PROVE Last(op.do) = e
        OBVIOUS
      <4> DEFINE n == Len(op.do)
      <4>1. n \in Nat \ {0} /\ ~(n > 1)
        BY <3>1, Zenon
      <4> HIDE DEF n
      <4>2. n = 1
        BY <4>1
      <4> QED
        BY <4>2 DEF Last, e, n
    <3> QED
      BY <3>1, <3>2
  <2>2. CASE e.type = "lease-acquired"
    <3>1. Tail(op.do) = <<>>
      BY <2>1, <2>2 DEF IInv, Progress, Shape, e
    <3>2. run'.gen = run.gen + 1 /\ run'.lease = run.gen + 1
      BY <1>2, <1>4, <2>2 DEF After, Effect, LeaseAcquired, Folds
    <3>3. my'[b] = run.gen + 1 /\ \A q \in Procs \ {b} : my'[q] = my[q] /\ my[q] <= run.gen
      BY <1>1, <1>2, <1>4, <2>2 DEF Apart
    <3>4. \A q \in Procs : my'[q] <= run'.gen
      BY <1>2, <3>2, <3>3
    <3>5. ASSUME NEW q \in Procs, NEW s \in Procs, q # s, Holds(q)', Holds(s)'
          PROVE  my'[q] = 0 \/ my'[q] # my'[s]
      <4>1. CASE q = b \/ s = b
        BY <1>2, <3>3, <3>5, <4>1
      <4>2. CASE q # b /\ s # b
        <5>1. Holds(q) /\ Holds(s)
          BY <1>4, <3>5, <4>2 DEF Holds
        <5> QED
          BY <3>3, <3>5, <4>2, <5>1 DEF Apart
      <4> QED
        BY <4>1, <4>2
    <3> QED
      BY <1>2, <1>4, <3>1, <3>2, <3>4, <3>5 DEF Apart, Holds
  <2>3. CASE e.type # "lease-acquired"
    <3>1. my' = my
      BY <1>4, <2>3
    <3>2. run'.gen = run.gen /\ run'.lease \in {0, run.lease}
      <4>1. CASE e.type \in Ending
        <5>1. run'.lease = 0
          BY <1>1, <1>2, <1>4, <4>1, AfterControl
        <5>2. run'.gen = run.gen
          BY <1>2, <1>4, <4>1, EffectType, <1>1
             DEF Ending, After, Effect, LeaseDropped, TerminalCommitted, Ended, Folds
        <5> QED
          BY <5>1, <5>2
      <4>2. CASE e.type \notin Ending
        BY <1>1, <1>2, <1>4, <2>3, <4>2, AfterControl
      <4> QED
        BY <4>1, <4>2
    <3>3. ASSUME NEW q \in Procs, Holds(q)' PROVE Holds(q)
      <4>1. CASE pc[q] \in Granted
        BY <4>1 DEF Holds
      <4>2. CASE pc[q] \notin Granted
        <5>1. b = q /\ Tail(op.do) = <<>> /\ op.next \in Granted
          BY <1>4, <3>3, <4>2 DEF Holds
        <5>2. Last(op.do).type = "lease-acquired"
          BY <1>1, <4>2, <5>1, ProcAssumption DEF Apart, b
        <5> QED
          BY <2>1, <2>3, <5>1, <5>2
      <4> QED
        BY <4>1, <4>2
    <3>4. \A q \in Procs : my'[q] <= run'.gen
      BY <3>1, <3>2 DEF Apart
    <3>5. run'.lease <= run'.gen
      BY <1>2, <3>2 DEF Apart
    <3>6. ASSUME NEW q \in Procs, NEW s \in Procs, q # s, Holds(q)', Holds(s)'
          PROVE  my'[q] = 0 \/ my'[q] # my'[s]
      BY <3>1, <3>3, <3>6 DEF Apart
    <3>7. op'.by # NoProc /\ op'.do # <<>> /\ op'.next \in Granted /\ pc'[op'.by] \notin Granted =>
            Last(op'.do).type = "lease-acquired"
      BY <1>1, <1>4, <2>1 DEF Apart, b
    <3> QED
      BY <3>4, <3>5, <3>6, <3>7 DEF Apart, Holds
  <2> QED
    BY <2>2, <2>3
<1> QED
  BY <1>1, <1>3, <1>4

\* What a process does outside a store operation.
Aside(p) == Busy(p) \/ Proceed(p) \/ CheckBegin(p) \/ Command(p)

\* The holders of leases stay apart.
LEMMA ApartStep == ASSUME IInv, KInv, [Next]_vars PROVE Apart'
<1>1. Apart /\ Questions(run)
  BY DEF KInv
<1>2. /\ my \in [Procs -> Nat] /\ run.gen \in Nat /\ pc \in [Procs -> Labels]
      /\ op.by \in Procs \cup {NoProc} /\ run.lease <= run.gen
      /\ \A p \in Procs : my[p] <= run.gen
  BY <1>1 DEF IInv, TypeOK, Folds, Ops, Apart
<1>3. ASSUME NEW p \in Procs, NEW next \in Labels, Land(p, next)
      PROVE  /\ \A q \in Procs \ {p} : pc'[q] = pc[q] /\ my'[q] = my[q]
             /\ pc'[p] = next /\ my'[p] \in {0, my[p]} /\ my'[p] <= run.gen
  <2>1. /\ \A q \in Procs \ {p} : pc'[q] = pc[q] /\ my'[q] = my[q]
        /\ pc'[p] = next
    BY <1>2, <1>3, LandType DEF IInv, Land, Goto
  <2>2. my'[p] \in {0, my[p]}
    BY <1>2, <1>3 DEF Land
  <2> QED
    BY <1>2, <2>1, <2>2
<1>4. "idle" \in Labels \ Granted /\ "proceed" \notin Granted
  BY DEF Labels, Granted
<1>5. CASE Publish
  BY <1>1, <1>5, PublishApart
<1>6. CASE Finish
  <2> DEFINE b == op.by
  <2>1. b \in Procs /\ op.next \in Labels /\ op' = Idle /\ run' = run /\ Land(b, op.next)
        /\ op.do = <<>>
    BY <1>2, <1>6 DEF Finish, IInv, TypeOK, Ops
  <2>2. pc'[b] \in Granted => Holds(b)
    BY <1>3, <2>1 DEF Holds
  <2> HIDE DEF b
  <2> QED
    BY <1>1, <1>3, <2>1, <2>2, NothingGranted
<1>7. ASSUME NEW p \in Procs, StoreWork(p) PROVE Apart'
  <2>1. Leads(p) /\ op.by = NoProc /\ op.do = <<>>
    BY <1>1, <1>7, StoreLeads
  <2>2. ASSUME NEW next \in Labels, Throw(p, next),
               next \in {"idle", "proceed"} \/ (pc[p] = "claim" /\ next = "unclaim")
        PROVE  Apart'
    <3>1. Land(p, next) /\ run' = run /\ op' = op /\ op.by # p
      BY <2>1, <2>2, ProcAssumption DEF Throw
    <3>2. next \in Granted => Holds(p)
      BY <1>4, <2>2 DEF Holds, Granted
    <3> QED
      BY <1>1, <1>3, <3>1, <3>2, NothingGranted
  <2>3. ASSUME NEW records \in Seq(Records), NEW change, NEW next \in Labels,
               Perform(p, records, change, next), records # <<>>,
               next \in Granted => pc[p] \in Granted \/ Last(records).type = "lease-acquired"
        PROVE  Apart'
    <3>1. /\ run' = run /\ pc' = pc /\ my' = my
          /\ op'.by = p /\ op'.do = records /\ op'.next = next
      BY <2>3 DEF Perform
    <3>2. \A q \in Procs : Holds(q)' => Holds(q)
      BY <2>3, <3>1 DEF Holds
    <3> QED
      BY <1>1, <2>3, <3>1, <3>2 DEF Apart
  <2> QED
    BY <2>1, <2>2, <2>3 DEF Leads
<1>8. ASSUME NEW p \in Procs, Crash(p) PROVE Apart'
  <2>1. Land(p, "idle") /\ run' = run /\ (op' = Idle \/ (op' = op /\ op.by # p))
    BY <1>8 DEF Crash
  <2> QED
    BY <1>1, <1>3, <1>4, <2>1, NothingGranted
<1>9. ASSUME NEW p \in Procs, Aside(p) PROVE Apart'
  <2>1. run' = run /\ op' = op
    BY <1>9 DEF Aside, Busy, Proceed, CheckBegin, Throw, Command, ClaimTask, Pause, Stop,
                Abandon, Reconcile, Report, Want
  <2>2. op.by # p
    BY <1>9, ProcAssumption
       DEF Aside, Busy, Proceed, CheckBegin, Command, ClaimTask, Pause, Stop, Abandon,
           Reconcile, Report, Want, IInv, Called, Busied
  <2>3. /\ \A q \in Procs \ {p} : pc'[q] = pc[q] /\ my'[q] = my[q]
        /\ my'[p] <= run.gen
        /\ pc'[p] \in Granted => Holds(p) /\ my'[p] \in {0, my[p]}
    <3>1. CASE Busy(p)
      <4>1. PICK next \in {"unclaim", "idle"} :
              Land(p, next) /\ (next = "unclaim" => pc[p] = "claim")
        BY <3>1, Zenon DEF Busy, Throw
      <4> QED
        BY <1>3, <4>1 DEF Labels, Holds, Granted
    <3>2. CASE Proceed(p)
      BY <1>2, <3>2 DEF Proceed, Goto, Granted
    <3>3. CASE CheckBegin(p)
      <4>1. Land(p, "idle") \/ UNCHANGED <<pc, my>>
        BY <3>3 DEF CheckBegin
      <4> QED
        BY <1>2, <1>3, <1>4, <4>1 DEF Holds
    <3>4. CASE Command(p)
      BY <1>2, <3>4 DEF Command, ClaimTask, Pause, Stop, Abandon, Reconcile, Report, Want, Goto,
                        Granted
    <3> QED
      BY <1>9, <3>1, <3>2, <3>3, <3>4 DEF Aside
  <2> QED
    BY <1>1, <2>1, <2>2, <2>3, NothingGranted
<1>10. CASE UNCHANGED <<run, pc, my>> /\ (WriteProof \/ UNCHANGED op)
  <2>1. /\ run' = run /\ pc' = pc /\ my' = my
        /\ op'.by = op.by /\ op'.do = op.do /\ op'.next = op.next
    BY <1>10 DEF WriteProof, IInv, TypeOK, Ops
  <2> QED
    BY <1>1, <2>1 DEF Apart, Holds
<1> QED
  BY <1>5, <1>6, <1>7, <1>8, <1>9, <1>10
     DEF Next, Store, WriteProof, Work, StoreWork, Aside, Edit, Expire, vars

\* A lease is about to be given up by somebody who may.
LEMMA DroppingStep == ASSUME IInv, KInv, [Next]_vars PROVE Dropping'
<1>1. Dropping /\ Questions(run) /\ op.do \in Seq(Records) /\ pc \in [Procs -> Labels]
      /\ op.by \in Procs \cup {NoProc} /\ NoProc \notin Procs
  BY ProcAssumption DEF KInv, IInv, TypeOK, Ops
<1>2. CASE op' = Idle
  BY <1>2 DEF Dropping, Idle
<1>3. CASE Publish
  <2>1. op' = Idle \/ (op'.do = Tail(op.do) /\ op'.by = op.by /\ pc' = pc)
    BY <1>3, Published
  <2>2. op.do # <<>>
    BY <1>3, Published
  <2>3. Tail(op.do) # <<>> => Last(Tail(op.do)) = Last(op.do)
    BY <1>1, <2>2, Rest
  <2> QED
    BY <1>1, <1>2, <2>1, <2>2, <2>3 DEF Dropping
<1>4. ASSUME NEW p \in Procs, StoreWork(p) PROVE Dropping'
  <2>1. Leads(p) /\ op.do = <<>>
    BY <1>1, <1>4, StoreLeads
  <2>2. CASE op' = op
    BY <2>1, <2>2 DEF Dropping
  <2>3. CASE op' # op
    <3>1. PICK records \in Seq(Records), change \in {"keep", "write", "clear"}, next \in Labels :
            /\ Perform(p, records, change, next)
            /\ Last(records).type \in Releases => pc[p] \in Releasing
      BY <2>1, <2>3, Zenon DEF Leads, Throw
    <3>2. op'.do = records /\ op'.by = p /\ pc' = pc
      BY <3>1 DEF Perform
    <3> QED
      BY <3>1, <3>2 DEF Dropping
  <2> QED
    BY <2>2, <2>3
<1>5. ASSUME NEW p \in Procs, op.by # p, op' = op, \A q \in Procs \ {p} : pc'[q] = pc[q]
      PROVE  Dropping'
  BY <1>1, <1>5 DEF Dropping
<1>6. ASSUME NEW p \in Procs, Crash(p) PROVE Dropping'
  <2>1. op' = Idle \/ (op.by # p /\ op' = op)
    BY <1>6 DEF Crash
  <2>2. \A q \in Procs \ {p} : pc'[q] = pc[q]
    BY <1>1, <1>6 DEF Crash, Land, Goto
  <2> QED
    BY <1>2, <1>5, <2>1, <2>2
<1>7. ASSUME NEW p \in Procs, Aside(p) PROVE Dropping'
  <2>1. op' = op /\ op.by # p
    BY <1>7, ProcAssumption
       DEF Aside, Busy, Proceed, CheckBegin, Throw, Command, ClaimTask, Pause, Stop, Abandon,
           Reconcile, Report, Want, IInv, Called, Busied
  <2>2. \A q \in Procs \ {p} : pc'[q] = pc[q]
    BY <1>1, <1>7
       DEF Aside, Busy, Proceed, CheckBegin, Throw, Command, ClaimTask, Pause, Stop, Abandon,
           Reconcile, Report, Want, Land, Goto
  <2> QED
    BY <1>5, <2>1, <2>2
<1>8. CASE Finish
  BY <1>2, <1>8 DEF Finish
<1>9. CASE UNCHANGED pc /\ (WriteProof \/ UNCHANGED op)
  <2>1. pc' = pc /\ op'.by = op.by /\ op'.do = op.do
    BY <1>9 DEF WriteProof, IInv, TypeOK, Ops
  <2> QED
    BY <1>1, <2>1 DEF Dropping
<1> QED
  BY <1>3, <1>4, <1>6, <1>7, <1>8, <1>9
     DEF Next, Store, WriteProof, Work, StoreWork, Aside, Edit, Expire, vars
------------------------------------------------------------------------------
LEMMA InitKInv == Init => KInv
<1> SUFFICES ASSUME Init PROVE KInv
  OBVIOUS
<1>1. run = Created /\ op = Idle /\ my = [p \in Procs |-> 0] /\ pc = [p \in Procs |-> "idle"]
  BY DEF Init
<1>2. ~IsTerminal(run) /\ run.result = "none" /\ run.claim = NoClaim /\ run.bound = {}
  BY <1>1 DEF Created, IsTerminal, TerminalStates
<1>3. Questions(run)
  BY <1>2 DEF Questions, Waiting, Dealt
<1>4. WithinBudget(run)
  <2>1. /\ run.rounds = 0 /\ run.agentRuns = 0 /\ run.checkRuns = 0 /\ run.transitions = 0
        /\ \A d \in DOMAIN Edge : run.visits[d] = 0
    BY <1>1 DEF Created
  <2>2. \A d \in DOMAIN Edge : MaxVisits[d] \in Nat
    BY EdgeAssumption
  <2> QED
    BY <2>1, <2>2, BudgetAssumption DEF WithinBudget
<1>5. Promised(run, op.do)
  BY <1>1 DEF Promised, Idle
<1>6. UnderWay
  BY <1>2, AgentOutcome DEF UnderWay, Pending
<1>7. Apart
  <2>1. \A p \in Procs : ~Holds(p)
    BY <1>1, ProcAssumption DEF Holds, Idle, Granted
  <2> QED
    BY <1>1, <2>1 DEF Apart, Created, Idle
<1>8. Dropping
  BY <1>1 DEF Dropping, Idle
<1> QED
  BY <1>3, <1>4, <1>5, <1>6, <1>7, <1>8 DEF KInv

\* The invariant is inductive.
LEMMA NextKInv == IInv /\ CInv /\ KInv /\ [Next]_vars => KInv'
<1> SUFFICES ASSUME IInv, CInv, KInv, [Next]_vars PROVE KInv'
  OBVIOUS
<1>1. Questions(run') /\ WithinBudget(run')
  <2>1. CASE run' = run
    BY <2>1 DEF KInv
  <2>2. CASE run' # run
    <3> DEFINE e == Head(op.do)
    <3>1. op.do # <<>> /\ run' = After(run, e) /\ Legal(run, e) /\ e \in Records
      BY <2>2, OnlyPublish
    <3>2. e = op.do[1]
      BY <3>1, Rest DEF IInv, TypeOK, Ops
    <3> HIDE DEF e
    <3>3. e.type = "state-changed" /\ e.kind = "paused" => run.claim = NoClaim
      BY <3>1, <3>2 DEF KInv, Promised
    <3>4. /\ run \in Folds /\ (IsTerminal(run) => run.lease = 0)
          /\ Answered(run) /\ Questions(run)
      BY DEF IInv, TypeOK, Nobody, CInv, KInv
    <3>5. WithinBudget(After(run, e))
      BY <3>1 DEF Legal
    <3> QED
      BY <3>1, <3>3, <3>4, <3>5, QuestionsAfter
  <2> QED
    BY <2>1, <2>2
<1> QED
  BY <1>1, PromisedStep, UnderWayStep, ApartStep, DroppingStep DEF KInv

LEMMA ContractInvariance == Spec => []KInv
<1>1. Init => KInv
  BY InitKInv
<1>2. IInv /\ CInv /\ KInv /\ [Next]_vars => KInv'
  BY NextKInv
<1> QED
  BY <1>1, <1>2, Invariance, ClaimInvariance, PTL DEF Spec
------------------------------------------------------------------------------
\* One process at a time owns what it was granted: neither a recovery nor a
\* duplicate report makes two of them believe that the Run is theirs
\* (acquireLease, recoverLease, assertLease).
THEOREM Owner == Spec => []OneOwner
<1>1. KInv => OneOwner
  BY DEF KInv, Apart, Holds, OneOwner, Owns
<1> QED
  BY <1>1, ContractInvariance, PTL

\* A live owner loses the lease it was granted to the end of its Run, to a
\* recovery that has its proof, or to a report, and to nobody else
\* (assertLease in releaseLease, recoverLease and terminalizeCurrent).
THEOREM KeepsLease == Spec => LeaseKept
<1>1. ASSUME IInv, KInv, [Next]_vars, NEW p \in Procs, pc[p] \in Granted, my[p] # 0,
             run.lease = my[p], run'.lease # my[p], op.by # p, ~IsTerminal(run')
      PROVE  pc[op.by] \in {"recover", "accept"}
  <2> DEFINE e == Head(op.do)
  <2>1. op.do # <<>> /\ run' = After(run, e) /\ Legal(run, e) /\ e \in Records
    BY <1>1, OnlyPublish
  <2>2. e = op.do[1]
    BY <1>1, <2>1, Rest DEF IInv, TypeOK, Ops
  <2> HIDE DEF e
  <2>3. e.type \in Releases
    BY <1>1, <2>1, AfterControl DEF IInv, TypeOK, Nobody, Ending, Releases
  <2>4. Last(op.do) = e
    <3>1. op.do \in Seq(Records) /\ Len(op.do) \in Nat \ {0}
      BY <1>1, <2>1, Rest DEF IInv, TypeOK, Ops
    <3>2. 1 \in 1..Len(op.do)
      <4> DEFINE n == Len(op.do)
      <4>1. n \in Nat \ {0}
        BY <3>1
      <4> HIDE DEF n
      <4>2. 1 \in 1..n
        BY <4>1
      <4> QED
        BY <4>2 DEF n
    <3>3. e.type \in Ending
      BY <2>3 DEF Ending, Releases
    <3>4. 1 = Len(op.do)
      BY <1>1, <2>2, <3>2, <3>3, Zenon DEF IInv, Progress, Shape
    <3> QED
      BY <2>2, <3>4 DEF Last
  <2>5. op.by \in Procs /\ pc[op.by] \in Releasing
    BY <1>1, <2>1, <2>3, <2>4 DEF KInv, Dropping
  <2>6. my[op.by] = my[p]
    BY <1>1, <2>1 DEF IInv, Called
  <2>7. pc[op.by] \notin Granted
    BY <1>1, <2>5, <2>6 DEF KInv, Apart, Holds
  <2> QED
    BY <2>5, <2>7 DEF Releasing
<1>2. IInv /\ KInv /\ [Next]_vars =>
        [\A p \in Procs :
           pc[p] \in Granted /\ my[p] # 0 /\ run.lease = my[p] /\ run'.lease # my[p] =>
             op.by = p \/ IsTerminal(run') \/ pc[op.by] \in {"recover", "accept"}]_vars
  BY <1>1
<1> QED
  BY <1>2, Invariance, ContractInvariance, PTL DEF Spec, LeaseKept

\* Unless a process has died, whoever finds the store at rest finds an
\* accepted report that has not left its node only before an edge whose
\* budget is spent (acceptExternalReport).
THEOREM AnswerWhole == Spec => []AnswerWholeInBudget
<1>1. IInv /\ KInv => AnswerWholeInBudget
  <2> SUFFICES ASSUME IInv, KInv, Free, crashes = 0, Pending # "none"
               PROVE  Spent(<<run.node, run.result>>)
    BY DEF AnswerWholeInBudget
  <2>1. op.do = <<>>
    BY DEF Free, Idle
  <2>2. run \in Folds /\ run.result \in Results
    BY DEF IInv, TypeOK, Folds
  <2>3. op.do \notin Effects(run, run.result)
    BY <2>1, <2>2, EffectParts
  <2> QED
    BY <2>3 DEF KInv, UnderWay
<1> QED
  BY <1>1, Invariance, ContractInvariance, PTL
------------------------------------------------------------------------------
\* One more record is one step of the contract, or does not concern it.
LEMMA ContractStep ==
  ASSUME IInv, CInv, KInv, NEW e \in Records, Legal(run, e), Meant(run, e),
         e.type = "state-changed" /\ e.kind = "paused" => run.claim = NoClaim,
         run' = After(run, e)
  PROVE  Contract!Next \/ UNCHANGED Contract!vars
<1> DEFINE s == Effect(run, e)
           Others == {"none", "pass", "fail"} \cup SystemKinds
<1>1. /\ run \in Folds /\ (IsTerminal(run) => run.lease = 0)
      /\ Waiting(run) /\ Dealt(run) /\ Evident(run)
  BY DEF IInv, TypeOK, Nobody, KInv, Questions, CInv
<1>2. /\ ~IsTerminal(run)
      /\ run.state \notin TerminalStates
      /\ run'.state \in TerminalStates <=> e.type = "terminal-node-committed"
  <2>1. ~IsTerminal(run) /\ (IsTerminal(After(run, e)) <=> e.type = "terminal-node-committed")
    BY <1>1, AfterControl
  <2> QED
    BY <2>1 DEF IsTerminal
<1>3. /\ s \in Folds
      /\ run'.state = s.state /\ run'.gen = s.gen /\ run'.lease = s.lease /\ run'.node = s.node
      /\ run'.claim = s.claim /\ run'.result = s.result /\ run'.system = s.system
      /\ run'.bound = s.bound /\ run'.accepted = s.accepted
  BY <1>1, EffectType DEF After, Folds
<1>4. /\ run.node \in Nodes /\ run.claim \in Claims /\ run.result \in Results
      /\ run.att \in [Nodes -> Nat] /\ run.gen \in Nat
  BY <1>1 DEF Folds
<1> HIDE DEF s
<1>5. Asked = run.claim
  BY <1>2 DEF Asked, IsTerminal
<1>6. e.type # "terminal-node-committed" => Asked' = run'.claim
  BY <1>2 DEF Asked, IsTerminal
<1>7. e.type # "terminal-node-committed" /\ run'.node = run.node /\ run'.result = run.result =>
        Pending' = Pending
  BY <1>2 DEF Pending, IsTerminal
<1>8. run.result \in Others => Pending = "none"
  BY AgentOutcome DEF Pending
<1>9. run'.result \in Others => Pending' = "none"
  BY AgentOutcome DEF Pending
<1>10. run.claim # NoClaim => run.result = "none" /\ run.node \in Agents /\ Pending = "none"
  BY <1>1, <1>2, <1>8 DEF Waiting, Evident
<1> HIDE DEF Others
<1>11. "none" \in Others /\ SystemKinds \subseteq Others /\ {"pass", "fail"} \subseteq Others
       /\ SystemKinds \subseteq Results
  BY DEF Others, Results
<1>12. e.type \notin {"state-changed", "lease-acquired", "lease-released", "lease-revoked",
                      "terminal-node-committed"} =>
         run.state = "running" /\ run.lease # 0 /\ ActiveLegal(run, e)
  BY DEF Legal
<1>13. CASE e.type = "state-changed"
  <2>1. /\ s.state = e.kind /\ s.gen = run.gen /\ s.lease = run.lease /\ s.node = run.node
        /\ s.claim = run.claim /\ s.result = run.result /\ s.system = run.system
        /\ s.bound = run.bound /\ s.accepted = run.accepted
    BY <1>1, <1>13 DEF s, Effect, StateChanged, Folds
  <2>2. e.kind \in {"running", "paused"} /\ Control(run.state, e.kind)
    BY <1>13 DEF Legal, Records, Types, Kinded
  <2>3. CASE e.kind = "running"
    <3>1. Contract!Resume
      BY <1>3, <1>5, <1>6, <1>7, <1>13, <2>1, <2>2, <2>3 DEF Contract!Resume, Control
    <3> QED
      BY <3>1 DEF Contract!Next
  <2>4. CASE e.kind = "paused"
    <3>1. Contract!Pause
      BY <1>3, <1>5, <1>6, <1>7, <1>13, <2>1, <2>2, <2>4 DEF Contract!Pause, Control
    <3> QED
      BY <3>1 DEF Contract!Next
  <2> QED
    BY <2>2, <2>3, <2>4
<1>14. CASE e.type = "lease-acquired"
  <2>1. /\ s.state = run.state /\ s.gen = run.gen + 1 /\ s.lease = run.gen + 1
        /\ s.node = run.node
        /\ s.claim = run.claim /\ s.result = run.result /\ s.system = run.system
        /\ s.bound = run.bound /\ s.accepted = run.accepted
    BY <1>1, <1>14 DEF s, Effect, LeaseAcquired, Folds
  <2>2. run.state = "running" /\ run.lease = 0
    BY <1>14 DEF Legal
  <2>3. Contract!Lease
    BY <1>3, <1>5, <1>6, <1>7, <1>14, <2>1, <2>2 DEF Contract!Lease
  <2> QED
    BY <2>3 DEF Contract!Next
<1>15. CASE e.type \in {"lease-released", "lease-revoked"}
  <2>1. /\ s.state = run.state /\ s.gen = run.gen /\ s.lease = 0 /\ s.node = run.node
        /\ s.claim = run.claim /\ s.result = run.result /\ s.system = run.system
        /\ s.bound = run.bound /\ s.accepted = run.accepted
    BY <1>1, <1>15 DEF s, Effect, LeaseDropped, Folds
  <2>2. run.lease # 0
    BY <1>15 DEF Legal
  <2>3. Contract!Drop
    BY <1>3, <1>5, <1>6, <1>7, <1>15, <2>1, <2>2 DEF Contract!Drop
  <2> QED
    BY <2>3 DEF Contract!Next
<1>16. CASE e.type \in {"node-started", "invocation-started", "candidate-bound"}
  <2>1. /\ s.state = run.state /\ s.gen = run.gen /\ s.lease = run.lease /\ s.node = run.node
        /\ s.claim = run.claim /\ s.result = run.result /\ s.system = run.system
        /\ s.bound = run.bound /\ s.accepted = run.accepted
    BY <1>1, <1>16 DEF s, Effect, NodeStarted, InvocationStarted, CandidateBound, Folds
  <2> QED
    BY <1>3, <1>5, <1>6, <1>7, <1>16, <2>1 DEF Contract!vars
<1>17. CASE e.type = "external-claim-bound"
  <2> DEFINE c == [node |-> run.node, att |-> run.att[run.node] + 1, cand |-> e.cand]
  <2>1. /\ s.state = run.state /\ s.gen = run.gen /\ s.lease = run.lease /\ s.node = run.node
        /\ s.claim = c /\ s.result = run.result /\ s.system = run.system
        /\ s.bound = run.bound \cup {c} /\ s.accepted = run.accepted
    BY <1>1, <1>17 DEF s, Effect, ClaimBound, Folds
  <2>2. run.claim = NoClaim /\ run.result = "none" /\ Pending = "none"
    BY <1>8, <1>11, <1>12, <1>17 DEF ActiveLegal
  <2>3. c \in Claims
    BY <1>4, <1>17 DEF Claims, Records
  <2>4. c \notin run.bound
    <3> SUFFICES ASSUME c \in run.bound PROVE FALSE
      OBVIOUS
    <3>1. run.att[run.node] + 1 <= run.att[run.node]
      BY <1>1 DEF Dealt
    <3> QED
      BY <1>4, <3>1
  <2>5. c # NoClaim
    BY <1>4 DEF NoClaim
  <2> HIDE DEF c
  <2>6. Contract!Ask
    BY <1>3, <1>5, <1>6, <1>7, <1>12, <1>17, <2>1, <2>2, <2>3, <2>4, <2>5
       DEF Contract!Ask, Contract!Working
  <2> QED
    BY <2>6 DEF Contract!Next
<1>18. CASE e.type = "external-report-accepted"
  <2> DEFINE a == [claim |-> run.claim, kind |-> e.kind]
  <2>1. /\ s.state = run.state /\ s.gen = run.gen /\ s.lease = run.lease /\ s.node = run.node
        /\ s.claim = NoClaim /\ s.result = e.kind /\ s.system = run.system
        /\ s.bound = run.bound /\ s.accepted = run.accepted \cup {a}
    BY <1>1, <1>18 DEF s, Effect, ReportAccepted, Folds
  <2>2. run.claim # NoClaim /\ e.kind \in Outcomes(Kind[run.node]) /\ e.kind \in Results
    BY <1>12, <1>18 DEF ActiveLegal, Records, Types, Kinded
  <2>3. run.node \in Agents /\ e.kind # "none"
    BY <1>10, <2>2, AgentOutcome
  <2>4. Pending' = e.kind
    BY <1>2, <1>3, <1>18, <2>1, <2>2, <2>3 DEF Pending, IsTerminal
  <2>5. Contract!Answer
    BY <1>3, <1>5, <1>6, <1>10, <1>12, <1>18, <2>1, <2>2, <2>3, <2>4
       DEF Contract!Answer, Contract!Working
  <2> QED
    BY <2>5 DEF Contract!Next
<1>19. CASE e.type = "invocation-result"
  <2>1. /\ s.state = run.state /\ s.gen = run.gen /\ s.lease = run.lease /\ s.node = run.node
        /\ s.claim = NoClaim /\ s.result = e.kind
        /\ s.system = IF e.kind \in SystemKinds THEN e.kind ELSE run.system
        /\ s.bound = run.bound /\ s.accepted = run.accepted
    BY <1>1, <1>19 DEF s, Effect, InvocationResult, Folds
  <2>2. /\ run.result = "none" /\ e.kind \in SystemKinds \cup Outcomes(Kind[run.node])
        /\ e.kind \in {"pass", "fail"} \cup SystemKinds
    BY <1>12, <1>19 DEF ActiveLegal, Meant
  <2>3. Pending = "none" /\ Pending' = "none"
    BY <1>3, <1>8, <1>9, <1>11, <2>1, <2>2
  <2>4. CASE e.kind \in SystemKinds
    <3>1. Contract!Fail
      BY <1>3, <1>6, <1>12, <1>19, <2>1, <2>3, <2>4 DEF Contract!Fail, Contract!Working
    <3> QED
      BY <3>1 DEF Contract!Next
  <2>5. CASE e.kind \notin SystemKinds
    <3>1. run.claim = NoClaim
      BY <1>10, <2>2, <2>5, AgentOutcome
    <3> QED
      BY <1>3, <1>5, <1>6, <1>19, <2>1, <2>3, <2>5, <3>1 DEF Contract!vars
  <2> QED
    BY <2>4, <2>5
<1>20. CASE e.type = "system-outcome"
  <2>1. /\ s.state = run.state /\ s.gen = run.gen /\ s.lease = run.lease /\ s.node = run.node
        /\ s.claim = run.claim /\ s.result = run.result /\ s.system = e.kind
        /\ s.bound = run.bound /\ s.accepted = run.accepted
    BY <1>1, <1>20 DEF s, Effect, SystemOutcome, Folds
  <2>2. e.kind \in SystemKinds
    BY <1>20 DEF Records, Types, Kinded
  <2>3. Contract!Fail
    BY <1>3, <1>5, <1>6, <1>7, <1>12, <1>20, <2>1, <2>2 DEF Contract!Fail, Contract!Working
  <2> QED
    BY <2>3 DEF Contract!Next
<1>21. CASE e.type = "failure-routed"
  <2>1. /\ s.state = run.state /\ s.gen = run.gen /\ s.lease = run.lease
        /\ s.claim = NoClaim /\ s.result = "none" /\ s.system = run.system
        /\ s.bound = run.bound /\ s.accepted = run.accepted
    BY <1>1, <1>21 DEF s, Effect, FailureRouted, Moved, Folds
  <2>2. run.system \in SystemKinds
    BY <1>1, <1>2, <1>12, <1>21 DEF ActiveLegal, Evident, Folds
  <2>3. Contract!Fail
    BY <1>3, <1>6, <1>9, <1>11, <1>12, <1>21, <2>1, <2>2 DEF Contract!Fail, Contract!Working
  <2> QED
    BY <2>3 DEF Contract!Next
<1>22. CASE e.type = "edge-taken"
  <2>1. /\ s.state = run.state /\ s.gen = run.gen /\ s.lease = run.lease
        /\ s.claim = NoClaim /\ s.result = "none" /\ s.system = run.system
        /\ s.bound = run.bound /\ s.accepted = run.accepted
    BY <1>1, <1>22 DEF s, Effect, EdgeTaken, Moved, Folds
  <2>2. <<run.node, e.kind>> \in DOMAIN Edge /\ CurrentOutcome(run, e)
    BY <1>12, <1>22 DEF ActiveLegal
  <2>3. e.kind \in Outcomes(Kind[run.node])
    <3> DEFINE d == <<run.node, e.kind>>
    <3>1. d[2] \in Outcomes(Kind[d[1]])
      BY <2>2, EdgePair
    <3> QED
      BY <3>1
  <2>4. run.claim = NoClaim
    <3> SUFFICES ASSUME run.claim # NoClaim PROVE FALSE
      OBVIOUS
    <3>1. run.result = "none" /\ run.node \in Agents
      BY <1>10
    <3>2. e.kind = "none"
      BY <2>2, <3>1 DEF CurrentOutcome, Agents
    <3> QED
      BY <2>3, <3>1, <3>2, AgentOutcome
  <2>5. Asked = NoClaim /\ Asked' = NoClaim /\ Pending' = "none"
    BY <1>3, <1>5, <1>6, <1>9, <1>11, <1>22, <2>1, <2>4
  <2>6. CASE Pending # "none"
    <3>1. Contract!Leave
      BY <1>3, <1>12, <1>22, <2>1, <2>5, <2>6 DEF Contract!Leave, Contract!Working
    <3> QED
      BY <3>1 DEF Contract!Next
  <2>7. CASE Pending = "none"
    BY <1>3, <2>1, <2>5, <2>7 DEF Contract!vars
  <2> QED
    BY <2>6, <2>7
<1>23. CASE e.type = "terminal-node-committed"
  <2>1. e.kind \in AtomicKinds /\ (run.system = "none" \/ run.system = e.kind)
    BY <1>23 DEF Legal, Records, Types, Kinded, AtomicKinds
  <2>2. /\ s.state = StateOf(e.kind) /\ s.gen = run.gen /\ s.lease = 0
        /\ s.bound = run.bound /\ s.accepted = run.accepted
        /\ s.system = IF run.system = "none" THEN e.kind ELSE run.system
    <3> DEFINE n == TerminalOf(e.kind)
               entered == [run EXCEPT !.node = n, !.started = TRUE, !.inv = FALSE,
                                      !.result = "none", !.att[n] = @ + 1]
               there == IF run.node = n /\ run.started THEN run ELSE entered
    <3>1. s = Ended([there EXCEPT !.system = IF @ = "none" THEN e.kind ELSE @], e.kind)
      BY <1>23, Zenon DEF s, Effect, TerminalCommitted
    <3>2. /\ there.gen = run.gen /\ there.bound = run.bound /\ there.accepted = run.accepted
          /\ there.system = run.system
          /\ DOMAIN there = DOMAIN run
      BY <1>1 DEF Folds
    <3> HIDE DEF there
    <3> QED
      BY <1>1, <3>1, <3>2 DEF Ended, Folds
  <2>3. run'.system = e.kind /\ run'.state = StateOf(e.kind)
    BY <1>3, <2>1, <2>2
  <2>4. e.kind = "converged" <=> StateOf(e.kind) = "converged"
    BY <2>1 DEF AtomicKinds, SystemKinds, StateOf
  <2>5. (run'.system \in SystemKinds) = (run'.state # "converged")
    BY <2>1, <2>3, <2>4 DEF AtomicKinds, SystemKinds
  <2>6. run'.state = "converged" =>
          run.system \notin SystemKinds /\ Asked = NoClaim /\ Pending = "none"
    <3> SUFFICES ASSUME e.kind = "converged"
                 PROVE  run.system \notin SystemKinds /\ Asked = NoClaim /\ Pending = "none"
      BY <2>3, <2>4
    <3>1. run.node \in DOMAIN Final
      BY <1>23 DEF Meant
    <3>2. run.node \notin Agents
      BY <3>1, FinalAssumption DEF Agents
    <3> QED
      BY <1>5, <1>10, <2>1, <3>2 DEF Pending, SystemKinds
  <2>7. Asked' = NoClaim /\ Pending' = "none"
    BY <1>2, <1>23 DEF Asked, Pending, IsTerminal
  <2>8. Contract!End
    BY <1>2, <1>3, <1>23, <2>2, <2>5, <2>6, <2>7 DEF Contract!End
  <2> QED
    BY <2>8 DEF Contract!Next
<1> QED
  BY <1>13, <1>14, <1>15, <1>16, <1>17, <1>18, <1>19, <1>20, <1>21, <1>22, <1>23
     DEF Records, Types, Kinded

\* The journal of a Run, its leases and its reports keep the contract with
\* hosts and operators: whoever appends, crashes, repeats or comes late, a
\* claim is new when it is asked, answered at most once, and its answer is
\* acted on at most once; nothing follows the end (controller.mjs,
\* run-store.mjs).
THEOREM KeepsContract == Spec => ImplementsContract
<1>1. Init => Contract!Init
  <2> SUFFICES ASSUME Init PROVE Contract!Init
    OBVIOUS
  <2>1. run = Created
    BY DEF Init
  <2>2. /\ run.state = "prepared" /\ run.gen = 0 /\ run.lease = 0 /\ run.claim = NoClaim
        /\ run.result = "none" /\ run.system = "none" /\ run.bound = {} /\ run.accepted = {}
    BY <2>1 DEF Created
  <2>3. Asked = NoClaim
    BY <2>2 DEF Asked
  <2>4. Pending = "none"
    BY <2>2, AgentOutcome DEF Pending
  <2> QED
    BY <2>2, <2>3, <2>4 DEF Contract!Init, SystemKinds
<1>2. IInv /\ CInv /\ KInv /\ [Next]_vars => [Contract!Next]_(Contract!vars)
  <2> SUFFICES ASSUME IInv, CInv, KInv, [Next]_vars
               PROVE  Contract!Next \/ UNCHANGED Contract!vars
    OBVIOUS
  <2>1. CASE run' = run
    BY <2>1 DEF Contract!vars, Asked, Pending, IsTerminal
  <2>2. CASE run' # run
    <3> DEFINE e == Head(op.do)
    <3>1. op.do # <<>> /\ run' = After(run, e) /\ Legal(run, e) /\ e \in Records
      BY <2>2, OnlyPublish
    <3>2. e = op.do[1]
      BY <3>1, Rest DEF IInv, TypeOK, Ops
    <3> HIDE DEF e
    <3>3. Meant(run, e) /\ (e.type = "state-changed" /\ e.kind = "paused" => run.claim = NoClaim)
      BY <3>1, <3>2 DEF CInv, Intent, KInv, Promised
    <3> QED
      BY <3>1, <3>3, ContractStep
  <2> QED
    BY <2>1, <2>2
<1>3. Contract!Init /\ [][Contract!Next]_(Contract!vars) => Contract!Spec
  BY DEF Contract!Spec
<1> QED
  BY <1>1, <1>2, <1>3, Invariance, ClaimInvariance, ContractInvariance, PTL
     DEF Spec, ImplementsContract
==============================================================================
