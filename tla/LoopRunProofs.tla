---------------------------- MODULE LoopRunProofs ----------------------------
(***************************************************************************)
(* What LoopRun guarantees for every loop graph, journal length, budget    *)
(* and number of processes.                                                *)
(*                                                                         *)
(* The proof goes in three stages.  First, what a record does to the fold: *)
(* it keeps its type (EffectType, AfterType) and changes the state, the    *)
(* lease and the length of the journal only in the ways of AfterControl.   *)
(* Second, an operation that sets out with "sound" records keeps the       *)
(* invariant until it ends (PerformStep, PublishStep, WriteProofStep,      *)
(* FinishStep, CrashStep), so that what a process does under the lock need *)
(* only be shown to start soundly (OneRecord .. OthersStart).  Third, all  *)
(* other steps touch only what a process knows itself (QuietStep).         *)
(***************************************************************************)
EXTENDS LoopRun, TLAPS

\* The outcomes that end a Run.
AtomicKinds == SystemKinds \cup {"converged"}

\* Every outcome that ends a Run has its own terminal node, and that node's
\* state is the outcome's (failurePolicy, validateClosedIr).
LEMMA TerminalNode ==
  ASSUME NEW kind \in AtomicKinds
  PROVE  /\ TerminalOf(kind) \in Nodes
         /\ Kind[TerminalOf(kind)] = "terminal"
         /\ StateOf(kind) \in TerminalStates
<1>1. StateOf(kind) \in TerminalStates
  BY DEF AtomicKinds, SystemKinds, StateOf, TerminalStates
<1>2. PICK n \in DOMAIN Final : Final[n] = StateOf(kind)
  BY <1>1, FinalAssumption
<1>3. TerminalOf(kind) \in DOMAIN Final
  BY <1>2 DEF TerminalOf
<1> QED
  BY <1>1, <1>3, FinalAssumption

\* A record that folds gives a fold of the right type.
LEMMA EffectType ==
  ASSUME NEW r \in Folds, NEW e \in Records, Legal(r, e)
  PROVE  Effect(r, e) \in Folds
<1> DEFINE s == Effect(r, e)
<1> SUFFICES s \in Folds
  OBVIOUS
<1>1. CASE e.type = "state-changed"
  <2>1. s = StateChanged(r, e)
    BY <1>1, Zenon DEF Effect
  <2>2. e.kind \in {"running", "paused"}
    BY <1>1 DEF Records, Types, Kinded
  <2> QED
    BY <2>1, <2>2, ZenonT(60) DEF StateChanged, Folds
<1>2. CASE e.type = "lease-acquired"
  <2> DEFINE g == r.gen + 1
  <2>1. g \in Nat
    BY DEF Folds
  <2>2. s = [r EXCEPT !.gen = g, !.lease = g]
    BY <1>2, Zenon DEF Effect, LeaseAcquired
  <2> HIDE DEF g
  <2> QED
    BY <2>1, <2>2, ZenonT(60) DEF Folds
<1>3. CASE e.type \in {"lease-released", "lease-revoked"}
  BY <1>3 DEF Effect, LeaseDropped, Folds
<1>4. CASE e.type = "terminal-node-committed"
  <2>1. e.kind \in AtomicKinds
    BY <1>4 DEF Records, Types, Kinded, AtomicKinds
  <2> DEFINE n == TerminalOf(e.kind)
             entered == [r EXCEPT !.node = n, !.started = TRUE, !.inv = FALSE,
                                  !.result = "none", !.att[n] = @ + 1]
             there == IF r.node = n /\ r.started THEN r ELSE entered
             sys == IF there.system = "none" THEN e.kind ELSE there.system
  <2>2. n \in Nodes /\ StateOf(e.kind) \in TerminalStates
    BY <2>1, TerminalNode
  <2> DEFINE att == [r.att EXCEPT ![n] = @ + 1]
  <2>a. att \in [Nodes -> Nat]
    BY <2>2 DEF Folds
  <2>b. entered = [r EXCEPT !.node = n, !.started = TRUE, !.inv = FALSE,
                            !.result = "none", !.att = att]
    OBVIOUS
  <2> HIDE DEF att, entered, n
  <2>3. entered \in Folds
    BY <2>2, <2>a, <2>b DEF Folds, Results
  <2>4. there \in Folds
    BY <2>3
  <2> HIDE DEF there
  <2>5. sys \in SystemKinds \cup {"none", "converged"}
    BY <2>1, <2>4 DEF Folds, AtomicKinds
  <2>6. s = Ended([there EXCEPT !.system = sys], e.kind)
    BY <1>4, Zenon DEF Effect, TerminalCommitted, there, entered, n
  <2> HIDE DEF sys
  <2> DEFINE told == [there EXCEPT !.system = sys]
             state == StateOf(e.kind)
  <2>7. told \in Folds
    BY <2>4, <2>5 DEF Folds
  <2>8. s = [told EXCEPT !.lease = 0, !.state = state]
    BY <2>6 DEF Ended
  <2> HIDE DEF told, state, s
  <2>9. state \in TerminalStates
    BY <2>2 DEF state
  <2> QED
    BY <2>7, <2>8, <2>9 DEF Folds
<1>5. CASE e.type = "node-started"
  <2> DEFINE att == [r.att EXCEPT ![r.node] = @ + 1]
             runs == IF Kind[r.node] = "check" THEN r.checkRuns + 1 ELSE r.checkRuns
  <2>1. att \in [Nodes -> Nat] /\ runs \in Nat
    BY DEF Folds
  <2>2. s = [r EXCEPT !.started = TRUE, !.att = att, !.checkRuns = runs]
    BY <1>5, Zenon DEF Effect, NodeStarted
  <2> HIDE DEF att, runs
  <2> QED
    BY <2>1, <2>2, ZenonT(60) DEF Folds
<1>6. CASE e.type = "invocation-started"
  BY <1>6 DEF Effect, InvocationStarted, Folds
<1>7. CASE e.type = "external-claim-bound"
  <2> DEFINE claim == [node |-> r.node, att |-> r.att[r.node] + 1, cand |-> e.cand]
  <2>1. claim \in Claims
    BY <1>7 DEF Claims, Folds, Records
  <2> DEFINE task == Kind[r.node] = "task"
             att == [r.att EXCEPT ![r.node] = @ + 1]
             cycle == IF task THEN r.cycle + 1 ELSE r.cycle
             cand == IF task THEN NoCand ELSE r.cand
             rounds == IF task THEN r.rounds + 1 ELSE r.rounds
             bound == r.bound \cup {claim}
             runs == r.agentRuns + 1
  <2>2. /\ att \in [Nodes -> Nat]
        /\ cycle \in Nat
        /\ cand \in Cands \cup {NoCand}
        /\ rounds \in Nat
        /\ runs \in Nat
    BY DEF Folds
  <2>3. bound \in SUBSET Claims
    BY <2>1 DEF Folds
  <2> DEFINE claimed == [r EXCEPT !.started = TRUE, !.inv = TRUE, !.att = att,
                                  !.claim = claim, !.bound = bound]
  <2>a. s = [r EXCEPT !.started = TRUE, !.inv = TRUE, !.att = att, !.claim = claim,
                      !.bound = bound, !.cycle = cycle, !.cand = cand,
                      !.agentRuns = runs, !.rounds = rounds]
    BY <1>7, Zenon DEF Effect, ClaimBound
  <2> HIDE DEF claim, task, att, cycle, cand, rounds, bound, runs, s
  <2>4. s = [claimed EXCEPT !.cycle = cycle, !.cand = cand,
                            !.agentRuns = runs, !.rounds = rounds]
    BY <2>a
  <2>5. claimed \in Folds
    BY <2>1, <2>2, <2>3 DEF Folds
  <2> HIDE DEF claimed
  <2> QED
    BY <2>2, <2>4, <2>5 DEF Folds
<1>8. CASE e.type = "external-report-accepted"
  <2>1. e.kind \in Results
    BY <1>8 DEF Records, Kinded
  <2>2. [claim |-> r.claim, kind |-> e.kind] \in [claim : Claims, kind : Results]
    BY <2>1 DEF Folds
  <2>3. NoClaim \in Claims
    BY NodeAssumption DEF NoClaim, Claims
  <2> QED
    BY <1>8, <2>1, <2>2, <2>3 DEF Effect, ReportAccepted, Folds, Evidence
<1>9. CASE e.type = "invocation-result"
  <2>1. e.kind \in Results /\ e.cand \in Cands \cup {NoCand}
    BY <1>9 DEF Records, Kinded
  <2>2. NoClaim \in Claims
    BY NodeAssumption DEF NoClaim, Claims
  <2> QED
    BY <1>9, <2>1, <2>2 DEF Effect, InvocationResult, Folds, Evidence
<1>10. CASE e.type = "candidate-bound"
  <2>1. e.cand \in Cands \cup {NoCand}
    BY <1>10 DEF Records
  <2> QED
    BY <1>10, <2>1 DEF Effect, CandidateBound, Folds, Evidence, Results
<1>11. CASE e.type = "system-outcome"
  <2>1. e.kind \in SystemKinds
    BY <1>11 DEF Records, Types, Kinded
  <2> QED
    BY <1>11, <2>1 DEF Effect, SystemOutcome, Folds
<1>12. ASSUME NEW n \in Nodes PROVE Moved(r, n) \in Folds
  <2>1. NoClaim \in Claims
    BY NodeAssumption DEF NoClaim, Claims
  <2> QED
    BY <2>1 DEF Moved, Folds, Results
<1>13. CASE e.type = "failure-routed"
  <2>1. r.system \in AtomicKinds
    BY <1>13 DEF Legal, ActiveLegal, Folds, AtomicKinds
  <2> QED
    BY <1>12, <1>13, <2>1, TerminalNode DEF Effect, FailureRouted
<1>14. CASE e.type = "edge-taken"
  <2> DEFINE d == <<r.node, e.kind>>
             m == Moved(r, Edge[d])
  <2>1. d \in DOMAIN Edge
    BY <1>14 DEF Legal, ActiveLegal
  <2>2. Edge[d] \in Nodes
    BY <2>1, EdgeAssumption
  <2>3. m \in Folds
    BY <1>12, <2>2
  <2> DEFINE visits == [m.visits EXCEPT ![d] = @ + 1]
             transitions == m.transitions + 1
  <2>4. s = [m EXCEPT !.transitions = transitions, !.visits = visits]
    BY <1>14, Zenon DEF Effect, EdgeTaken
  <2> HIDE DEF m
  <2>5. visits \in [DOMAIN Edge -> Nat] /\ transitions \in Nat
    BY <2>1, <2>3 DEF Folds
  <2> HIDE DEF visits, transitions
  <2> QED
    BY <2>3, <2>4, <2>5, ZenonT(60) DEF Folds
<1> QED
  BY <1>1, <1>2, <1>3, <1>4, <1>5, <1>6, <1>7, <1>8, <1>9, <1>10, <1>11, <1>13, <1>14
     DEF Records, Types, Kinded

\* ... and so does the fold of the longer journal.
LEMMA AfterType ==
  ASSUME NEW r \in Folds, NEW e \in Records, Legal(r, e)
  PROVE  After(r, e) \in Folds
BY EffectType DEF After, Folds

\* The records after which nobody has a lease.
Ending == {"lease-released", "lease-revoked", "terminal-node-committed"}

\* What a record does to the length of the journal, to the state and to the
\* lease.
LEMMA AfterControl ==
  ASSUME NEW r \in Folds, NEW e \in Records, Legal(r, e), IsTerminal(r) => r.lease = 0
  PROVE  /\ ~IsTerminal(r)
         /\ After(r, e).seq = r.seq + 1
         /\ IsTerminal(After(r, e)) <=> e.type = "terminal-node-committed"
         /\ e.type = "lease-acquired" => r.lease = 0 /\ After(r, e).lease = r.gen + 1
         /\ e.type \in Ending => After(r, e).lease = 0
         /\ e.type \notin Ending \cup {"lease-acquired"} =>
              After(r, e).lease = r.lease /\ After(r, e).gen = r.gen
<1> DEFINE s == Effect(r, e)
<1>1. ~IsTerminal(r)
  BY DEF Legal, Control, IsTerminal, TerminalStates, Ending, Records, Types, Kinded
<1>2. /\ After(r, e).seq = r.seq + 1
      /\ After(r, e).state = s.state
      /\ After(r, e).lease = s.lease
      /\ After(r, e).gen = s.gen
  BY EffectType DEF After, Folds
<1>3. CASE e.type = "state-changed"
  <2>1. e.kind \in {"running", "paused"}
    BY <1>3 DEF Records, Types, Kinded
  <2>2. s.state = e.kind /\ s.lease = r.lease /\ s.gen = r.gen
    BY <1>3 DEF Effect, StateChanged, Folds
  <2> QED
    BY <1>1, <1>2, <1>3, <2>1, <2>2 DEF IsTerminal, TerminalStates, Ending
<1>4. CASE e.type = "lease-acquired"
  <2>1. s.state = r.state /\ s.lease = r.gen + 1 /\ r.lease = 0
    BY <1>4 DEF Effect, LeaseAcquired, Folds, Legal
  <2> QED
    BY <1>1, <1>2, <1>4, <2>1 DEF IsTerminal, Ending
<1>5. CASE e.type \in {"lease-released", "lease-revoked"}
  <2>1. s.state = r.state /\ s.lease = 0
    BY <1>5 DEF Effect, LeaseDropped, Folds
  <2> QED
    BY <1>1, <1>2, <1>5, <2>1 DEF IsTerminal, Ending
<1>6. CASE e.type = "terminal-node-committed"
  <2>1. StateOf(e.kind) \in TerminalStates
    BY <1>6, TerminalNode DEF Records, Types, Kinded, AtomicKinds
  <2>2. s.state = StateOf(e.kind) /\ s.lease = 0
    BY <1>6, EffectType DEF Effect, TerminalCommitted, Ended, Folds
  <2> QED
    BY <1>1, <1>2, <1>6, <2>1, <2>2 DEF IsTerminal, Ending
<1>7. CASE e.type \in Types \ ({"state-changed", "lease-acquired"} \cup Ending)
  <2>1. s.state = r.state /\ s.lease = r.lease /\ s.gen = r.gen
    BY <1>7 DEF Types, Ending, Effect, Folds, NodeStarted, InvocationStarted, ClaimBound,
                ReportAccepted, InvocationResult, CandidateBound, SystemOutcome,
                FailureRouted, EdgeTaken, Moved
  <2> QED
    BY <1>1, <1>2, <1>7, <2>1 DEF IsTerminal, Ending
<1> QED
  BY <1>3, <1>4, <1>5, <1>6, <1>7 DEF Records, Types, Kinded, Ending
------------------------------------------------------------------------------
\* The inductive invariant.

\* Nobody has the lease of a Run that has ended.
Nobody == IsTerminal(run) => run.lease = 0

\* What an operation appends: its last record alone may change hands of the
\* lease, an operation that clears the proof ends without a lease, and one
\* that writes it ends with one.
Last(s) == s[Len(s)]
Shape(do, change) ==
  /\ \A i \in 1..Len(do) : do[i].type \in Ending \cup {"lease-acquired"} => i = Len(do)
  /\ change = "clear" /\ do # <<>> => Last(do).type \in Ending
  /\ change = "write" => do # <<>> /\ Last(do).type = "lease-acquired"

\* How far the operation has got.
Progress ==
  /\ Shape(op.do, op.proof)
  /\ op.do = <<>> /\ op.proof = "clear" => run.lease = 0
  /\ op.do # <<>> /\ Last(op.do).type = "lease-acquired" =>
       /\ run.lease = 0
       /\ op.proof = "keep" => Len(op.do) = 1 /\ proof = run.gen + 1

\* Whose the operation is: a process that is in one waits for it.
Busied(p) == pc[p] \notin {"idle", "proceed"} /\ (pc[p] = "check" => arg[p] # NoArg)
Called ==
  /\ op.by = NoProc => op = Idle
  /\ op.by # NoProc => Busied(op.by)
  /\ op.do # <<>> => run.lease = 0 \/ my[op.by] = run.lease

\* The invariant: types, the three properties to be proved, and what an
\* operation in progress must satisfy for them to be inductive.
IInv ==
  /\ TypeOK
  /\ TerminalReserve
  /\ TailFits
  /\ Nobody
  /\ LeaseHasProof
  /\ Progress
  /\ Called

\* A Run that has just been created satisfies the invariant.
LEMMA InitIInv == Init => IInv
<1> SUFFICES ASSUME Init PROVE IInv
  OBVIOUS
<1>1. NoClaim \in Claims
  BY NodeAssumption DEF NoClaim, Claims
<1>2. Created \in Folds
  <2>1. NoEvidence \in Evidence
    BY DEF NoEvidence, Evidence, Results
  <2> QED
    BY <1>1, <2>1, NodeAssumption DEF Created, Folds, Results
<1>3. NoArg \in Args
  BY <1>1 DEF NoArg, Args, Results
<1>4. Idle \in Ops
  BY DEF Idle, Ops, Labels
<1>5. TypeOK
  <2>1. run \in Folds /\ op \in Ops /\ ws \in Cands
    BY <1>2, <1>4 DEF Init
  <2>2. arg \in [Procs -> Args]
    BY <1>3 DEF Init
  <2>3. /\ proof \in Nat
        /\ late \in BOOLEAN /\ overdue \in BOOLEAN
        /\ my \in [Procs -> Nat]
    BY DEF Init
  <2>4. pc \in [Procs -> Labels] /\ goal \in [Procs -> Labels]
    BY DEF Init, Labels
  <2>5. crashes \in 0..MaxCrashes
    BY CrashAssumption DEF Init
  <2> QED
    BY <2>1, <2>2, <2>3, <2>4, <2>5 DEF TypeOK
<1>6. TerminalReserve /\ Nobody /\ LeaseHasProof
  BY JournalAssumption DEF Init, Created, TerminalReserve, Nobody, LeaseHasProof
<1>7. TailFits /\ Progress /\ Called
  BY DEF Init, Idle, TailFits, Progress, Called, Shape, Created
<1> QED
  BY <1>5, <1>6, <1>7 DEF IInv

\* A step that leaves the store alone keeps the invariant, as long as the
\* process that is in an operation still waits for it.
LEMMA QuietStep ==
  ASSUME IInv, TypeOK', UNCHANGED <<run, op, proof>>,
         op.by # NoProc => Busied(op.by)' /\ my'[op.by] = my[op.by]
  PROVE  IInv'
<1>1. TerminalReserve' /\ TailFits' /\ Nobody' /\ LeaseHasProof' /\ Progress'
  BY DEF IInv, TerminalReserve, TailFits, Nobody, LeaseHasProof, Progress, IsTerminal, Retains
<1>2. Called'
  <2>1. op.do # <<>> => op.by # NoProc
    BY DEF IInv, Called, Idle
  <2> QED
    BY <2>1 DEF IInv, Called
<1> QED
  BY <1>1, <1>2 DEF IInv

\* A process that ends an attempt, or moves on, has values of the right type.
LEMMA LandType ==
  ASSUME TypeOK, NEW p \in Procs, NEW next \in Labels, Land(p, next)
  PROVE  /\ pc' \in [Procs -> Labels]
         /\ my' \in [Procs -> Nat]
         /\ goal' \in [Procs -> Labels]
         /\ arg' \in [Procs -> Args]
         /\ \A q \in Procs \ {p} : pc'[q] = pc[q] /\ my'[q] = my[q] /\ arg'[q] = arg[q]
<1>1. "idle" \in Labels
  BY DEF Labels
<1>2. NoArg \in Args
  BY NodeAssumption DEF NoArg, Args, NoClaim, Claims, Results
<1> QED
  BY <1>1, <1>2 DEF TypeOK, Land, Goto

\* An attempt that throws has written nothing.
LEMMA ThrowStep ==
  ASSUME IInv, NEW p \in Procs, NEW next \in Labels, op.by # p, Throw(p, next)
  PROVE  IInv'
<1>1. TypeOK'
  BY LandType DEF IInv, TypeOK, Throw
<1>2. op.by # NoProc => Busied(op.by)' /\ my'[op.by] = my[op.by]
  <2>1. op.by # NoProc => op.by \in Procs \ {p}
    BY DEF IInv, TypeOK, Ops
  <2> QED
    BY <2>1, LandType DEF IInv, TypeOK, Throw, Called, Busied
<1> QED
  BY <1>1, <1>2, QuietStep DEF Throw

\* What an operation may set out to append.
Sound(p, records, change) ==
  /\ records \in Seq(Records)
  /\ records # <<>>
  /\ change \in {"keep", "write", "clear"}
  /\ Shape(records, change)
  /\ Last(records).type = "lease-acquired" => change = "write" /\ run.lease = 0
  /\ run.lease = 0 \/ my[p] = run.lease
  /\ \/ run.seq + Len(records) < JournalMax
     \/ run.seq < JournalMax /\ records = <<Terminal(records[1].kind)>>

\* An operation that sets out soundly.
LEMMA PerformStep ==
  ASSUME IInv, Free, NEW p \in Procs, Busied(p), NEW records, NEW change, NEW next \in Labels,
         Sound(p, records, change), Perform(p, records, change, next)
  PROVE  IInv'
<1>1. TypeOK'
  BY DEF IInv, TypeOK, Ops, Sound, Perform
<1>2. TerminalReserve' /\ Nobody' /\ LeaseHasProof'
  BY DEF IInv, Perform, TerminalReserve, Nobody, LeaseHasProof, IsTerminal
<1>3. op'.do = records /\ op'.by = p /\ op'.proof = change
  BY DEF Perform
<1>4. TailFits'
  BY <1>3 DEF Perform, Sound, TailFits
<1>5. Progress'
  BY <1>3 DEF Perform, Sound, Progress
<1>6. Called'
  BY <1>3, ProcAssumption DEF Perform, Sound, Called, Busied
<1> QED
  BY <1>1, <1>2, <1>4, <1>5, <1>6 DEF IInv

\* An operation is over: the store is left as it is.
LEMMA Freed ==
  ASSUME IInv, op' = Idle, NEW p \in Procs, NEW next \in Labels, Land(p, next),
         UNCHANGED <<run, proof, ws, late, overdue>>, crashes' \in 0..MaxCrashes
  PROVE  IInv'
<1>1. Idle \in Ops /\ Idle.do = <<>> /\ Idle.by = NoProc /\ Idle.proof = "keep"
  BY DEF Idle, Ops, Labels
<1>2. TypeOK'
  BY <1>1, LandType DEF IInv, TypeOK
<1>3. TerminalReserve' /\ Nobody' /\ LeaseHasProof'
  BY DEF IInv, TerminalReserve, Nobody, LeaseHasProof, IsTerminal, Retains
<1>4. TailFits' /\ Called'
  BY <1>1 DEF TailFits, Called
<1>5. Progress'
  BY <1>1 DEF Progress, Shape
<1> QED
  BY <1>2, <1>3, <1>4, <1>5 DEF IInv

\* What is left when the first record of an operation has been published.
LEMMA Rest ==
  ASSUME NEW s \in Seq(Records), s # <<>>
  PROVE  /\ Head(s) \in Records
         /\ Head(s) = s[1]
         /\ Tail(s) \in Seq(Records)
         /\ Len(s) \in Nat \ {0}
         /\ Len(Tail(s)) = Len(s) - 1
         /\ \A i \in 1..Len(s) - 1 : Tail(s)[i] = s[i + 1]
         /\ Tail(s) # <<>> <=> Len(s) > 1
         /\ Tail(s) # <<>> => Last(Tail(s)) = Last(s)
<1>1. Head(s) \in Records /\ Head(s) = s[1] /\ Tail(s) \in Seq(Records)
  OBVIOUS
<1>2. Len(s) \in Nat \ {0} /\ Len(Tail(s)) = Len(s) - 1
  OBVIOUS
<1>3. \A i \in 1..Len(s) - 1 : Tail(s)[i] = s[i + 1]
  OBVIOUS
<1>4. Tail(s) # <<>> <=> Len(s) > 1
  BY <1>1, <1>2
<1> QED
  BY <1>1, <1>2, <1>3, <1>4 DEF Last

\* A record is published, or does not fold or fit and ends the operation.
LEMMA PublishStep == IInv /\ Publish => IInv'
<1> SUFFICES ASSUME IInv, Publish PROVE IInv'
  OBVIOUS
<1> DEFINE e == Head(op.do)
<1>1. /\ op.by \in Procs /\ op.do \in Seq(Records) /\ op.do # <<>> /\ op \in Ops
      /\ op.next \in Labels
  BY DEF IInv, TypeOK, Called, Ops, Publish, Idle
<1> DEFINE n == Len(op.do)
<1>2. /\ e \in Records
      /\ e = op.do[1]
      /\ n \in Nat \ {0}
      /\ Tail(op.do) # <<>> <=> n > 1
      /\ Tail(op.do) # <<>> => Last(Tail(op.do)) = Last(op.do)
  BY <1>1, Rest
<1>a. \A i \in 1..n : op.do[i].type \in Ending \cup {"lease-acquired"} => i = n
  BY DEF IInv, Progress, Shape
<1>b. ~(op.proof = "write" /\ n = 1)
  BY DEF Publish, ProofDue
<1>c. Last(op.do).type = "lease-acquired" => run.lease = 0 /\ (op.proof = "keep" => n = 1)
  BY <1>1 DEF IInv, Progress
<1> HIDE DEF e, n
<1>3. CASE Legal(run, e) /\ Fits(e)
  <2>1. /\ run' = After(run, e)
        /\ op' = [op EXCEPT !.do = Tail(@)]
        /\ my' = IF e.type = "lease-acquired" THEN [my EXCEPT ![op.by] = run.gen + 1] ELSE my
        /\ UNCHANGED <<pc, goal, arg, proof, ws, late, crashes>>
        /\ overdue' = late
    BY <1>3 DEF Publish, e
  <2>2. run \in Folds /\ (IsTerminal(run) => run.lease = 0)
    BY DEF IInv, TypeOK, Nobody
  <2>3. /\ run' \in Folds
        /\ ~IsTerminal(run)
        /\ run'.seq = run.seq + 1
        /\ IsTerminal(run)' <=> e.type = "terminal-node-committed"
        /\ e.type = "lease-acquired" => run.lease = 0 /\ run'.lease = run.gen + 1
        /\ e.type \in Ending => run'.lease = 0
        /\ e.type \notin Ending \cup {"lease-acquired"} =>
             run'.lease = run.lease /\ run'.gen = run.gen
    <3>1. After(run, e) \in Folds
      BY <1>2, <1>3, <2>2, AfterType
    <3>2. IsTerminal(run)' <=> IsTerminal(After(run, e))
      BY <2>1 DEF IsTerminal
    <3> QED
      BY <1>2, <1>3, <2>1, <2>2, <3>1, <3>2, AfterControl
  <2>4. /\ op'.by = op.by /\ op'.proof = op.proof /\ op'.next = op.next
        /\ op'.do = Tail(op.do)
        /\ op' \in Ops
    BY <1>1, <2>1, Rest DEF Ops
  <2>5. TypeOK'
    <3>1. run.gen + 1 \in Nat
      BY <2>2 DEF Folds
    <3> QED
      BY <1>1, <2>1, <2>3, <2>4, <3>1 DEF IInv, TypeOK
  <2>6. TerminalReserve'
    BY <1>3, <2>2, <2>3 DEF TerminalReserve, Fits, Retains, Folds
  <2>7. TailFits'
    <3>1. run.seq \in Nat /\ JournalMax \in Nat /\ Len(op.do) \in Nat
      BY <1>1, <2>2, JournalAssumption DEF Folds
    <3>2. CASE run.seq + Len(op.do) < JournalMax
      BY <1>1, <2>3, <2>4, <3>1, <3>2, Rest DEF TailFits
    <3>3. CASE op.do = <<Terminal(op.do[1].kind)>>
      BY <1>1, <2>4, <3>3, Rest DEF TailFits
    <3> QED
      BY <1>1, <3>2, <3>3 DEF IInv, TailFits
  <2>8. Nobody'
    BY <2>3 DEF Nobody, Ending
  <2>9. e.type \in Ending \cup {"lease-acquired"} => n = 1
    BY <1>2, <1>a
  <2>10. LeaseHasProof'
    <3>1. CASE e.type = "lease-acquired"
      <4>1. Len(op.do) = 1 /\ Last(op.do) = e
        BY <1>2, <2>9, <3>1 DEF Last, n
      <4>2. op.proof # "write"
        BY <4>1 DEF Publish, ProofDue
      <4>3. op.proof # "clear"
        BY <1>1, <3>1, <4>1 DEF IInv, Progress, Shape, Ending
      <4>4. op.proof = "keep"
        BY <1>1, <4>2, <4>3 DEF Ops
      <4> QED
        BY <1>1, <2>1, <2>3, <3>1, <4>1, <4>4 DEF IInv, Progress, LeaseHasProof
    <3>2. CASE e.type # "lease-acquired"
      BY <2>1, <2>3, <3>2 DEF IInv, LeaseHasProof
    <3> QED
      BY <3>1, <3>2
  <2>11. Progress'
    <3>1. Shape(op.do, op.proof)
      BY DEF IInv, Progress
    <3>2. Shape(Tail(op.do), op.proof)
      <4>1. op.proof = "write" => Tail(op.do) # <<>>
        BY <1>2, <1>b
      <4>2. \A i \in 1..Len(Tail(op.do)) :
              Tail(op.do)[i].type \in Ending \cup {"lease-acquired"} => i = Len(Tail(op.do))
        BY <1>1, <3>1, Rest DEF Shape
      <4> QED
        BY <1>1, <3>1, <4>1, <4>2, Rest DEF Shape
    <3>3. Tail(op.do) = <<>> /\ op.proof = "clear" => run'.lease = 0
      <4>1. Tail(op.do) = <<>> => Last(op.do) = e
        BY <1>2 DEF Last, n
      <4> QED
        BY <1>1, <2>3, <3>1, <4>1 DEF Shape
    <3>4. Tail(op.do) # <<>> /\ Last(Tail(op.do)).type = "lease-acquired" =>
            run'.lease = 0 /\ op.proof # "keep"
      <4>1. SUFFICES ASSUME Tail(op.do) # <<>>, Last(Tail(op.do)).type = "lease-acquired"
                     PROVE  run'.lease = 0 /\ op.proof # "keep"
        OBVIOUS
      <4>2. n > 1 /\ Last(op.do).type = "lease-acquired"
        BY <1>2, <4>1
      <4>3. e.type \notin Ending \cup {"lease-acquired"}
        BY <1>2, <2>9, <4>2
      <4>4. run.lease = 0 /\ op.proof # "keep"
        BY <1>2, <1>c, <4>2
      <4> QED
        BY <2>3, <4>3, <4>4
    <3> QED
      BY <2>4, <3>2, <3>3, <3>4 DEF Progress
  <2>12. Called'
    <3>1. op'.by # NoProc /\ Busied(op.by)'
      BY <1>1, <2>1, <2>4, ProcAssumption DEF IInv, Called, Busied
    <3>2. run'.lease = 0 \/ my'[op.by] = run'.lease
      <4>1. run.lease = 0 \/ my[op.by] = run.lease
        BY <1>1 DEF IInv, Called
      <4>2. CASE e.type = "lease-acquired"
        BY <1>1, <2>1, <2>3, <4>2 DEF IInv, TypeOK
      <4>3. CASE e.type # "lease-acquired"
        BY <2>1, <2>3, <4>1, <4>3
      <4> QED
        BY <4>2, <4>3
    <3> QED
      BY <2>4, <3>1, <3>2 DEF Called, Busied
  <2> QED
    BY <2>5, <2>6, <2>7, <2>8, <2>10, <2>11, <2>12 DEF IInv
<1>4. CASE ~(Legal(run, e) /\ Fits(e))
  <2>1. op' = Idle /\ Land(op.by, "idle") /\ UNCHANGED <<run, overdue, proof, ws, late, crashes>>
    BY <1>4, Zenon DEF Publish, e
  <2> QED
    <3>1. "idle" \in Labels /\ crashes' \in 0..MaxCrashes
      BY <2>1 DEF Labels, IInv, TypeOK
    <3> QED
      BY <1>1, <2>1, <3>1, Freed
<1> QED
  BY <1>3, <1>4

\* The proof is on disk before the lease is.
LEMMA WriteProofStep == IInv /\ WriteProof => IInv'
<1> SUFFICES ASSUME IInv, WriteProof PROVE IInv'
  OBVIOUS
<1>1. /\ op \in Ops /\ op.proof = "write" /\ Len(op.do) = 1
      /\ op.do # <<>> /\ Last(op.do).type = "lease-acquired" /\ run.lease = 0
  BY DEF IInv, TypeOK, WriteProof, ProofDue, Progress, Shape
<1>2. /\ op'.by = op.by /\ op'.do = op.do /\ op'.proof = "keep" /\ op' \in Ops
      /\ proof' = run.gen + 1
      /\ UNCHANGED <<run, ws, late, overdue, pc, my, goal, arg, crashes>>
  BY <1>1 DEF WriteProof, Ops
<1>3. TypeOK'
  BY <1>2 DEF IInv, TypeOK, Folds
<1>4. TerminalReserve' /\ Nobody' /\ LeaseHasProof'
  BY <1>1, <1>2 DEF IInv, TerminalReserve, Nobody, LeaseHasProof, IsTerminal, Retains
<1>5. TailFits'
  BY <1>1, <1>2 DEF IInv, TailFits
<1>6. Called'
  BY <1>1, <1>2, ProcAssumption DEF IInv, Called, Busied, Idle
<1>7. Progress'
  BY <1>1, <1>2 DEF IInv, Progress, Shape
<1> QED
  BY <1>3, <1>4, <1>5, <1>6, <1>7 DEF IInv

\* An operation that clears the proof has ended the lease.
LEMMA FinishStep == IInv /\ Finish => IInv'
<1> SUFFICES ASSUME IInv, Finish PROVE IInv'
  OBVIOUS
<1>1. /\ op.by \in Procs /\ op.next \in Labels /\ op.do = <<>>
      /\ op.proof = "clear" => run.lease = 0
  BY DEF IInv, TypeOK, Ops, Finish, Progress
<1>2. /\ op' = Idle /\ Land(op.by, op.next)
      /\ proof' = IF op.proof = "clear" THEN 0 ELSE proof
      /\ UNCHANGED <<run, ws, late, overdue, crashes>>
  BY DEF Finish
<1>3. Idle \in Ops /\ Idle.do = <<>> /\ Idle.by = NoProc /\ Idle.proof = "keep"
  BY DEF Idle, Ops, Labels
<1>4. TypeOK'
  BY <1>1, <1>2, <1>3, LandType DEF IInv, TypeOK
<1>5. TerminalReserve' /\ Nobody' /\ LeaseHasProof'
  BY <1>1, <1>2 DEF IInv, TerminalReserve, Nobody, LeaseHasProof, IsTerminal, Retains
<1>6. TailFits' /\ Called' /\ Progress'
  BY <1>2, <1>3 DEF TailFits, Called, Progress, Shape
<1> QED
  BY <1>4, <1>5, <1>6 DEF IInv

\* A process dies, with or without an operation.
LEMMA CrashStep == ASSUME IInv, NEW p \in Procs, Crash(p) PROVE IInv'
<1>1. /\ Land(p, "idle") /\ "idle" \in Labels
      /\ UNCHANGED <<run, proof, ws, late, overdue>>
      /\ crashes' \in 0..MaxCrashes
  BY CrashAssumption DEF IInv, TypeOK, Crash, Labels
<1>2. CASE op.by = p
  BY <1>1, <1>2, Freed DEF Crash
<1>3. CASE op.by # p
  <2>1. op' = op
    BY <1>3 DEF Crash
  <2>2. TypeOK'
    BY <1>1, <2>1, LandType DEF IInv, TypeOK
  <2>3. op.by # NoProc => Busied(op.by)' /\ my'[op.by] = my[op.by]
    <3>1. op.by # NoProc => op.by \in Procs \ {p}
      BY <1>3 DEF IInv, TypeOK, Ops
    <3> QED
      <4>1. \A q \in Procs \ {p} : pc'[q] = pc[q] /\ my'[q] = my[q] /\ arg'[q] = arg[q]
        BY <1>1, LandType DEF IInv
      <4> QED
        BY <2>1, <3>1, <4>1 DEF IInv, Called, Busied
  <2> QED
    BY <1>1, <2>1, <2>2, <2>3, QuietStep
<1> QED
  BY <1>2, <1>3

\* The workspace is edited, or the Run's time is over.
LEMMA OutsideStep == IInv /\ (Edit \/ Expire) => IInv'
<1> SUFFICES ASSUME IInv, Edit \/ Expire PROVE IInv'
  OBVIOUS
<1>1. TypeOK' /\ UNCHANGED <<run, op, proof, pc, my, arg>>
  BY DEF IInv, TypeOK, Edit, Expire
<1>2. op.by # NoProc => Busied(op.by)' /\ my'[op.by] = my[op.by]
  BY <1>1 DEF IInv, Called, Busied
<1> QED
  BY <1>1, <1>2, QuietStep

\* A process that is in no operation changes only what it knows itself.
Moves(p) ==
  /\ UNCHANGED <<run, op, proof, ws, late, overdue, crashes>>
  /\ \A q \in Procs \ {p} : pc'[q] = pc[q] /\ my'[q] = my[q] /\ arg'[q] = arg[q]
  /\ pc' \in [Procs -> Labels]
  /\ my' \in [Procs -> Nat]
  /\ goal' \in [Procs -> Labels]
  /\ arg' \in [Procs -> Args]

\* ... and so keeps the invariant.
LEMMA MoveStep == ASSUME IInv, NEW p \in Procs, op.by # p, Moves(p) PROVE IInv'
<1>1. TypeOK'
  BY DEF IInv, TypeOK, Moves
<1>2. op.by # NoProc => op.by \in Procs \ {p}
  BY DEF IInv, TypeOK, Ops
<1> QED
  BY <1>1, <1>2, QuietStep DEF IInv, Called, Busied, Moves

\* A command reads the Run and sets out; its process is in no operation.
LEMMA CommandStep == ASSUME IInv, NEW p \in Procs, Command(p) PROVE IInv'
<1>1. run.lease \in Nat /\ run.claim \in Claims /\ run.bound \subseteq Claims
  BY DEF IInv, TypeOK, Folds
<1>2. op.by # p
  <2>1. pc[p] = "idle"
    BY DEF Command, ClaimTask, Pause, Stop, Abandon, Reconcile, Report, Want
  <2> QED
    BY <2>1, ProcAssumption DEF IInv, Called, Busied
<1>3. ASSUME NEW what \in Labels, Want(p, what) PROVE Moves(p)
  BY <1>3 DEF IInv, TypeOK, Want, Goto, Labels, Moves
<1>4. CASE ClaimTask(p) \/ Pause(p) \/ Stop(p)
  BY <1>2, <1>3, <1>4, MoveStep DEF ClaimTask, Pause, Stop, Labels
<1>5. CASE Abandon(p)
  <2>1. PICK c \in run.bound : arg' = [arg EXCEPT ![p].claim = c]
    BY <1>5 DEF Abandon
  <2>2. [arg[p] EXCEPT !.claim = c] \in Args
    BY <1>1 DEF IInv, TypeOK, Args
  <2>3. arg' = [arg EXCEPT ![p] = [arg[p] EXCEPT !.claim = c]]
    BY <2>1 DEF IInv, TypeOK
  <2>4. arg' \in [Procs -> Args]
    BY <2>2, <2>3 DEF IInv, TypeOK
  <2>5. Moves(p)
    BY <1>1, <1>5, <2>4 DEF IInv, TypeOK, Abandon, Goto, Labels, Moves
  <2> QED
    BY <1>2, <2>5, MoveStep
<1>6. CASE Reconcile(p)
  <2>1. Moves(p)
    BY <1>1, <1>6 DEF IInv, TypeOK, Reconcile, Goto, Labels, Moves
  <2> QED
    BY <1>2, <2>1, MoveStep
<1>7. CASE Report(p)
  <2>1. PICK c \in run.bound :
          \E o \in Outcomes(Kind[c.node]) :
            arg' = [arg EXCEPT ![p].claim = c, ![p].kind = o]
    BY <1>7 DEF Report
  <2>2. PICK o \in Outcomes(Kind[c.node]) : arg' = [arg EXCEPT ![p].claim = c, ![p].kind = o]
    BY <2>1
  <2>3. c \in Claims /\ o \in Results
    <3>1. c \in Claims
      BY <1>1
    <3>2. Kind[c.node] \in Kinds
      BY <3>1, NodeAssumption DEF Claims
    <3> QED
      BY <3>1, <3>2 DEF Kinds, Outcomes, Results
  <2>4. [arg[p] EXCEPT !.claim = c, !.kind = o] \in Args
    BY <2>3 DEF IInv, TypeOK, Args
  <2>5. arg' = [arg EXCEPT ![p] = [arg[p] EXCEPT !.claim = c, !.kind = o]]
    BY <2>2 DEF IInv, TypeOK
  <2>6. Moves(p)
    BY <1>1, <1>7, <2>4, <2>5 DEF IInv, TypeOK, Report, Goto, Labels, Moves
  <2> QED
    BY <1>2, <2>6, MoveStep
<1> QED
  BY <1>4, <1>5, <1>6, <1>7 DEF Command

\* A process in the middle of a command either fails before it has written
\* anything or sets out to append sound records.
Errs(p) == \E next \in Labels : Throw(p, next)
Starts(p) ==
  \E records \in Seq(Records), change \in {"keep", "write", "clear"}, next \in Labels :
    Sound(p, records, change) /\ Perform(p, records, change, next)

\* In both cases the invariant is kept.
LEMMA StoreStep ==
  ASSUME IInv, NEW p \in Procs, Free, Busied(p), Errs(p) \/ Starts(p)
  PROVE  IInv'
<1>1. op.by # p
  BY ProcAssumption DEF Free, Idle
<1>2. CASE Errs(p)
  BY <1>1, <1>2, ThrowStep DEF Errs
<1>3. CASE Starts(p)
  BY <1>3, PerformStep DEF Starts
<1> QED
  BY <1>2, <1>3

\* One record.
LEMMA StartOne ==
  ASSUME IInv, NEW p \in Procs, NEW next \in Labels, NEW e \in Records,
         NEW change \in {"keep", "clear"},
         e.type # "lease-acquired",
         change = "clear" => e.type \in Ending,
         run.lease = 0 \/ my[p] = run.lease,
         Retains(1) \/ (run.seq < JournalMax /\ e = Terminal(e.kind)),
         Perform(p, <<e>>, change, next)
  PROVE  Starts(p)
<1> DEFINE s == <<e>>
<1>1. s \in Seq(Records) /\ Len(s) = 1 /\ s[1] = e /\ s # <<>>
  OBVIOUS
<1>2. Sound(p, s, change)
  <2>1. Shape(s, change) /\ Last(s).type # "lease-acquired"
    BY <1>1 DEF Shape, Last
  <2>2. \/ run.seq + Len(s) < JournalMax
        \/ run.seq < JournalMax /\ s = <<Terminal(s[1].kind)>>
    BY <1>1 DEF Retains
  <2> QED
    BY <1>1, <2>1, <2>2 DEF Sound
<1> QED
  BY <1>1, <1>2 DEF Starts

\* The record that ends the Run, whoever asks for it.
LEMMA StartKill ==
  ASSUME IInv, NEW p \in Procs, NEW next \in Labels, NEW kind \in AtomicKinds,
         ~IsTerminal(run), run.lease = 0 \/ my[p] = run.lease,
         Perform(p, Kill(kind), "clear", next)
  PROVE  Starts(p)
<1> DEFINE k == IF run.system = "none" THEN kind ELSE run.system
           e == Terminal(k)
<1>1. k \in AtomicKinds
  BY DEF IInv, TypeOK, Folds, AtomicKinds
<1> HIDE DEF k
<1>2. e \in Records /\ e.type = "terminal-node-committed" /\ e = Terminal(e.kind)
  BY <1>1 DEF Terminal, Record, Records, AtomicKinds
<1>3. Perform(p, <<e>>, "clear", next)
  BY DEF Kill, k
<1>4. run.seq < JournalMax
  BY DEF IInv, TerminalReserve
<1> HIDE DEF e
<1> QED
  BY <1>2, <1>3, <1>4, StartOne DEF Ending

\* An owner's Run has not ended.
LEMMA OwnerAlive == ASSUME IInv, NEW p \in Procs, Owns(p) PROVE ~IsTerminal(run) /\ run.lease = my[p]
BY DEF IInv, Nobody, Owns

\* append(), releaseLease() and terminalize() fail or start soundly.
LEMMA OneRecord ==
  ASSUME IInv, NEW p \in Procs, NEW next \in Labels, NEW e \in Records,
         e.type \notin Ending \cup {"lease-acquired"}, AppendOne(p, e, next)
  PROVE  Errs(p) \/ Starts(p)
<1>1. CASE ~Owns(p) \/ ~Legal(run, e)
  BY <1>1 DEF AppendOne, Errs, Labels
<1>2. CASE Owns(p) /\ Legal(run, e) /\ (~Retains(1) \/ (e.type \in Timed /\ late))
  <2>1. Perform(p, Kill("exhausted"), "clear", next)
    BY <1>2 DEF AppendOne
  <2> QED
    BY <1>2, <2>1, OwnerAlive, StartKill DEF AtomicKinds, SystemKinds
<1>3. CASE Owns(p) /\ Legal(run, e) /\ ~(~Retains(1) \/ (e.type \in Timed /\ late))
  <2>1. Perform(p, <<e>>, "keep", next)
    BY <1>3 DEF AppendOne
  <2> QED
    BY <1>3, <2>1, OwnerAlive, StartOne
<1> QED
  BY <1>1, <1>2, <1>3

\* terminalize() of a Run the process owns.
LEMMA EndRecord ==
  ASSUME IInv, NEW p \in Procs, NEW next \in Labels, NEW kind \in AtomicKinds,
         IF Owns(p) THEN Perform(p, Kill(kind), "clear", next) ELSE Throw(p, "idle")
  PROVE  Errs(p) \/ Starts(p)
<1>1. CASE Owns(p)
  BY <1>1, OwnerAlive, StartKill
<1>2. CASE ~Owns(p)
  BY <1>2 DEF Errs, Labels
<1> QED
  BY <1>1, <1>2

\* releaseLease().
LEMMA ReleaseRecord ==
  ASSUME IInv, NEW p \in Procs, NEW next \in Labels, Release(p, next)
  PROVE  Errs(p) \/ Starts(p)
<1>1. CASE ~Owns(p)
  BY <1>1 DEF Release, Errs, Labels
<1>2. CASE Owns(p) /\ Retains(1)
  <2> DEFINE e == Plain("lease-released")
  <2>1. e \in Records /\ e.type = "lease-released"
    BY DEF Plain, Record, Records, Types, Kinded, Results
  <2>2. Perform(p, <<e>>, "clear", next)
    BY <1>2 DEF Release
  <2> HIDE DEF e
  <2> QED
    BY <1>2, <2>1, <2>2, OwnerAlive, StartOne DEF Ending
<1>3. CASE Owns(p) /\ ~Retains(1)
  <2>1. Perform(p, Kill("exhausted"), "clear", next)
    BY <1>3 DEF Release
  <2> QED
    BY <1>3, <2>1, OwnerAlive, StartKill DEF AtomicKinds, SystemKinds
<1> QED
  BY <1>1, <1>2, <1>3

\* Records that leave the lease where it is, and a sequence of them with a
\* last part.
Middles == {e \in Records : e.type \notin Ending \cup {"lease-acquired"}}

\* Such records in front of a last one are a shape an operation may have.
LEMMA Joined ==
  ASSUME NEW s \in Seq(Middles), NEW t \in Seq(Records), Len(t) > 0,
         \A i \in 1..Len(t) - 1 : t[i] \in Middles
  PROVE  /\ s \o t \in Seq(Records)
         /\ Len(s \o t) > 0
         /\ Last(s \o t) = Last(t)
         /\ \A i \in 1..Len(s \o t) - 1 :
              (s \o t)[i].type \notin Ending \cup {"lease-acquired"}
<1>1. s \in Seq(Records) /\ \A i \in 1..Len(s) : s[i] \in Middles
  BY DEF Middles
<1>2. /\ s \o t \in Seq(Records) /\ Len(s \o t) = Len(s) + Len(t)
      /\ Last(s \o t) = Last(t)
      /\ \A i \in 1..Len(s \o t) - 1 : (s \o t)[i] \in Middles
  BY <1>1 DEF Last
<1>3. Len(s \o t) > 0
  BY <1>1, <1>2
<1> QED
  BY <1>2, <1>3 DEF Middles

\* Several records, the last of which changes hands of the lease.
LEMMA StartMany ==
  ASSUME IInv, NEW p \in Procs, NEW next \in Labels, NEW records \in Seq(Records),
         NEW change \in {"write", "clear"}, Len(records) > 0,
         \A i \in 1..Len(records) - 1 : records[i].type \notin Ending \cup {"lease-acquired"},
         Last(records).type =
           IF change = "write" THEN "lease-acquired" ELSE "lease-released",
         change = "write" => run.lease = 0,
         run.lease = 0 \/ my[p] = run.lease,
         Room(records), Perform(p, records, change, next)
  PROVE  Starts(p)
<1>1. records # <<>> /\ Len(records) \in Nat
  OBVIOUS
<1>2. Shape(records, change)
  BY <1>1 DEF Shape, Ending
<1> QED
  BY <1>1, <1>2 DEF Starts, Sound, Room, Retains

\* acquireLease(): the lease is free.
LEMMA AcquireStarts ==
  ASSUME IInv, NEW p \in Procs, Acquire(p)
  PROVE  Errs(p) \/ Starts(p)
<1> DEFINE a == Record("state-changed", "running", NoCand)
           b == Plain("lease-acquired")
           resume == IF run.state \in {"prepared", "paused"} THEN <<a>> ELSE <<>>
           records == resume \o <<b>>
<1>1. /\ a \in Records /\ a.type \notin Ending \cup {"lease-acquired"}
      /\ b \in Records /\ b.type = "lease-acquired"
  BY DEF Plain, Record, Records, Types, Kinded, Results, Ending
<1>2. \/ Throw(p, "idle")
      \/ run.lease = 0 /\ ~IsTerminal(run) /\ Perform(p, Kill("exhausted"), "clear", "idle")
      \/ run.lease = 0 /\ Room(records) /\ Perform(p, records, "write", goal[p])
  BY DEF Acquire
<1>3. goal[p] \in Labels /\ "idle" \in Labels
  BY DEF IInv, TypeOK, Labels
<1> HIDE DEF a, b
<1>4. /\ records \in Seq(Records) /\ Len(records) > 0 /\ Last(records) = b
      /\ \A i \in 1..Len(records) - 1 : records[i].type \notin Ending \cup {"lease-acquired"}
  <2> DEFINE t == <<b>>
  <2>1. resume \in Seq(Middles)
    <3>1. a \in Middles
      BY <1>1 DEF Middles
    <3> QED
      BY <3>1
  <2>2. /\ t \in Seq(Records) /\ Len(t) > 0 /\ Last(t) = b
        /\ \A i \in 1..Len(t) - 1 : t[i] \in Middles
    BY <1>1 DEF Last
  <2>3. records = resume \o t
    OBVIOUS
  <2> HIDE DEF resume, t, records
  <2> QED
    BY <2>1, <2>2, <2>3, Joined
<1> HIDE DEF records
<1>5. CASE Throw(p, "idle")
  BY <1>3, <1>5 DEF Errs
<1>6. CASE run.lease = 0 /\ ~IsTerminal(run) /\ Perform(p, Kill("exhausted"), "clear", "idle")
  BY <1>3, <1>6, StartKill DEF AtomicKinds, SystemKinds
<1>7. CASE run.lease = 0 /\ Room(records) /\ Perform(p, records, "write", goal[p])
  BY <1>1, <1>3, <1>4, <1>7, StartMany
<1> QED
  BY <1>2, <1>5, <1>6, <1>7

\* recoverLease().
LEMMA RecoverStarts ==
  ASSUME IInv, NEW p \in Procs, Recover(p)
  PROVE  Errs(p) \/ Starts(p)
<1> DEFINE e == Plain("lease-revoked")
<1>1. e \in Records /\ e.type = "lease-revoked"
  BY DEF Plain, Record, Records, Types, Kinded, Results
<1>2. "idle" \in Labels /\ "acquire" \in Labels
  BY DEF Labels
<1>3. \/ Throw(p, "idle")
      \/ Owns(p) /\ Retains(1) /\ Perform(p, <<e>>, "clear", "acquire")
      \/ Owns(p) /\ Perform(p, Kill("exhausted"), "clear", "acquire")
  BY DEF Recover
<1> HIDE DEF e
<1>4. CASE Throw(p, "idle")
  BY <1>2, <1>4 DEF Errs
<1>5. CASE Owns(p) /\ Retains(1) /\ Perform(p, <<e>>, "clear", "acquire")
  BY <1>1, <1>2, <1>5, OwnerAlive, StartOne DEF Ending
<1>6. CASE Owns(p) /\ Perform(p, Kill("exhausted"), "clear", "acquire")
  BY <1>2, <1>6, OwnerAlive, StartKill DEF AtomicKinds, SystemKinds
<1> QED
  BY <1>3, <1>4, <1>5, <1>6

\* bindExternalClaim().
LEMMA BindStarts ==
  ASSUME IInv, NEW p \in Procs, BindClaim(p)
  PROVE  Errs(p) \/ Starts(p)
<1> DEFINE e == Record("external-claim-bound", "none", ws)
<1>1. e \in Records /\ e.type = "external-claim-bound"
  BY DEF IInv, TypeOK, Record, Records, Types, Kinded, Results
<1>2. "idle" \in Labels /\ "unclaim" \in Labels
  BY DEF Labels
<1>3. \/ Owns(p) /\ Fits(e) /\ Perform(p, <<e>>, "keep", "idle")
      \/ Throw(p, "unclaim")
  BY DEF BindClaim
<1> HIDE DEF e
<1>4. CASE Owns(p) /\ Fits(e) /\ Perform(p, <<e>>, "keep", "idle")
  BY <1>1, <1>2, <1>4, OwnerAlive, StartOne DEF Fits, Ending
<1>5. CASE Throw(p, "unclaim")
  BY <1>2, <1>5 DEF Errs
<1> QED
  BY <1>3, <1>4, <1>5

\* acceptExternalReport().
LEMMA AcceptStarts ==
  ASSUME IInv, NEW p \in Procs, Accept(p)
  PROVE  Errs(p) \/ Starts(p)
<1> DEFINE c == arg[p].claim
           o == arg[p].kind
           prior == AcceptedKind(c) # {}
           answer == Answer(prior, o)
<1>1. "idle" \in Labels /\ "proceed" \in Labels
  BY DEF Labels
<1>2. \/ Throw(p, "idle")
      \/ Throw(p, "proceed")
      \/ Release(p, "proceed")
      \/ Owns(p) /\ Perform(p, Kill("exhausted"), "clear", "proceed")
      \/ Owns(p) /\ Room(answer) /\ Perform(p, answer, "clear", "proceed")
  BY DEF Accept
<1>3. /\ answer \in Seq(Records) /\ Len(answer) > 0
      /\ Last(answer).type = "lease-released"
      /\ \A i \in 1..Len(answer) - 1 : answer[i].type \notin Ending \cup {"lease-acquired"}
  <2> DEFINE r1 == Record("external-report-accepted", o, NoCand)
             r2 == Record("candidate-bound", "none", ws)
             r3 == Record("edge-taken", o, NoCand)
             r4 == Plain("lease-released")
             first == IF prior THEN <<>> ELSE <<r1>>
             second == IF o = "complete" /\ run.cand = NoCand THEN <<r2>> ELSE <<>>
  <2>1. o \in Results /\ ws \in Cands
    BY DEF IInv, TypeOK, Args
  <2>2. /\ r1 \in Middles /\ r2 \in Middles /\ r3 \in Middles
        /\ r4 \in Records /\ r4.type = "lease-released"
    BY <2>1 DEF Plain, Record, Records, Types, Kinded, Results, Ending, Middles
  <2> DEFINE t == <<r3, r4>>
  <2>3. answer = first \o second \o t
    BY DEF Answer
  <2> HIDE DEF r1, r2, r3, r4, answer, prior, o
  <2>4. first \o second \in Seq(Middles)
    BY <2>2
  <2>5. /\ t \in Seq(Records) /\ Len(t) > 0 /\ Last(t) = r4
        /\ \A i \in 1..Len(t) - 1 : t[i] \in Middles
    <3>1. r3 \in Records
      BY <2>2 DEF Middles
    <3> QED
      BY <2>2, <3>1 DEF Last
  <2> HIDE DEF first, second, t
  <2> QED
    BY <2>2, <2>3, <2>4, <2>5, Joined
<1> HIDE DEF answer
<1>4. CASE Throw(p, "idle") \/ Throw(p, "proceed")
  BY <1>1, <1>4 DEF Errs
<1>5. CASE Release(p, "proceed")
  BY <1>1, <1>5, ReleaseRecord
<1>6. CASE Owns(p) /\ Perform(p, Kill("exhausted"), "clear", "proceed")
  BY <1>1, <1>6, OwnerAlive, StartKill DEF AtomicKinds, SystemKinds
<1>7. CASE Owns(p) /\ Room(answer) /\ Perform(p, answer, "clear", "proceed")
  BY <1>1, <1>3, <1>7, OwnerAlive, StartMany
<1> QED
  BY <1>2, <1>4, <1>5, <1>6, <1>7

\* step(): every record the runner appends is sound.
LEMMA RunnerStarts ==
  ASSUME IInv, NEW p \in Procs, Step(p)
  PROVE  Errs(p) \/ Starts(p)
<1>1. {"idle", "run", "check"} \subseteq Labels
  BY DEF Labels
<1>2. run.node \in Nodes /\ run.system \in SystemKinds \cup {"none", "converged"}
      /\ run.result \in Results
  BY DEF IInv, TypeOK, Folds
<1>3. ASSUME NEW type \in {"node-started", "invocation-started", "failure-routed"},
             NEW next \in Labels, AppendOne(p, Plain(type), next)
      PROVE  Errs(p) \/ Starts(p)
  <2>1. Plain(type) \in Records /\ Plain(type).type \notin Ending \cup {"lease-acquired"}
    BY DEF Plain, Record, Records, Types, Kinded, Results, Ending
  <2> QED
    BY <1>3, <2>1, OneRecord
<1>4. ASSUME System(p, "exhausted") \/ System(p, "lost") PROVE Errs(p) \/ Starts(p)
  <2>1. PICK kind \in SystemKinds : System(p, kind)
    BY <1>4 DEF SystemKinds
  <2> DEFINE e == Record("system-outcome", kind, NoCand)
  <2>2. e \in Records /\ e.type \notin Ending \cup {"lease-acquired"}
    BY DEF Record, Records, Ending
  <2> QED
    BY <1>1, <2>1, <2>2, OneRecord DEF System
<1>5. ASSUME NEW o \in Results, TakeEdge(p, o) PROVE Errs(p) \/ Starts(p)
  <2> DEFINE e == Record("edge-taken", o, NoCand)
  <2>1. e \in Records /\ e.type \notin Ending \cup {"lease-acquired"}
    BY DEF Record, Records, Types, Kinded, Ending
  <2>2. System(p, "exhausted") \/ AppendOne(p, e, "run")
    BY <1>5 DEF TakeEdge
  <2> QED
    BY <1>1, <1>4, <2>1, <2>2, OneRecord
<1>6. ASSUME NEW n \in DOMAIN Final, AppendTerminal(p, Final[n], "run")
      PROVE  Errs(p) \/ Starts(p)
  <2>1. KindOf(Final[n]) \in AtomicKinds
    BY FinalAssumption DEF TerminalStates, KindOf, AtomicKinds, SystemKinds
  <2> QED
    BY <1>1, <1>6, <2>1, EndRecord DEF AppendTerminal
<1>7. ASSUME Route(p), run.system # "none" PROVE Errs(p) \/ Starts(p)
  <2>1. TerminalOf(run.system) \in DOMAIN Final
    BY <1>2, <1>7, TerminalNode, FinalAssumption DEF AtomicKinds
  <2> QED
    BY <1>1, <1>3, <1>6, <1>7, <2>1 DEF Route
<1>8. GateOutcome(run) \in Results
  BY DEF GateOutcome, Results
<1>9. Kind[run.node] = "terminal" => run.node \in DOMAIN Final
  BY <1>2, FinalAssumption
<1>10. \/ Throw(p, "idle")
       \/ Route(p) /\ run.system # "none"
       \/ System(p, "exhausted") \/ System(p, "lost")
       \/ Release(p, "idle")
       \/ AppendOne(p, Plain("node-started"), "run")
       \/ Kind[run.node] = "terminal" /\ AppendTerminal(p, Final[run.node], "run")
       \/ TakeEdge(p, GateOutcome(run)) \/ TakeEdge(p, run.result)
       \/ AppendOne(p, Plain("invocation-started"), "check")
  BY DEF Step
<1>11. CASE Throw(p, "idle")
  BY <1>1, <1>11 DEF Errs
<1>12. CASE Release(p, "idle")
  BY <1>1, <1>12, ReleaseRecord
<1> QED
  BY <1>1, <1>2, <1>3, <1>4, <1>5, <1>6, <1>7, <1>8, <1>9, <1>10, <1>11, <1>12

\* The rest of what a process does under the lock.
LEMMA OthersStart ==
  ASSUME IInv, NEW p \in Procs,
         \/ Unclaim(p) \/ PauseRun(p) \/ PauseRelease(p) \/ StopRun(p)
         \/ AbandonRun(p) \/ LoseRun(p) \/ CheckEnd(p)
  PROVE  Errs(p) \/ Starts(p)
<1>1. {"idle", "run", "unpause"} \subseteq Labels
  BY DEF Labels
<1>2. ASSUME Throw(p, "idle") PROVE Errs(p)
  BY <1>1, <1>2 DEF Errs
<1>3. ASSUME NEW kind \in {"cancelled", "lost"}, Terminalize(p, kind)
      PROVE  Errs(p) \/ Starts(p)
  BY <1>1, <1>3, EndRecord DEF Terminalize, AtomicKinds, SystemKinds
<1>4. CASE Unclaim(p)
  BY <1>1, <1>2, <1>4, ReleaseRecord DEF Unclaim
<1>5. CASE PauseRun(p)
  <2> DEFINE e == Record("state-changed", "paused", NoCand)
  <2>1. e \in Records /\ e.type \notin Ending \cup {"lease-acquired"}
    BY DEF Record, Records, Ending
  <2> QED
    BY <1>1, <1>2, <1>5, <2>1, OneRecord DEF PauseRun
<1>6. CASE PauseRelease(p)
  BY <1>1, <1>6, ReleaseRecord DEF PauseRelease
<1>7. CASE StopRun(p)
  BY <1>3, <1>7 DEF StopRun
<1>8. CASE AbandonRun(p)
  BY <1>2, <1>3, <1>8 DEF AbandonRun
<1>9. CASE LoseRun(p)
  BY <1>3, <1>9 DEF LoseRun
<1>10. CASE CheckEnd(p)
  <2>1. PICK e \in CheckResults(p) : AppendOne(p, e, "run")
    BY <1>10 DEF CheckEnd
  <2>2. arg[p].cand \in Cands \cup {NoCand} /\ run.cand \in Cands \cup {NoCand}
    BY DEF IInv, TypeOK, Args, Folds
  <2>3. PICK o \in {"error", "pass", "fail", "timeout"}, c \in Cands \cup {NoCand} :
          e = Record("invocation-result", o, c)
    BY <2>2 DEF CheckResults
  <2>4. e \in Records /\ e.type \notin Ending \cup {"lease-acquired"}
    BY <2>3 DEF Record, Records, Types, Kinded, Results, SystemKinds, Ending
  <2> QED
    BY <1>1, <2>1, <2>4, OneRecord
<1> QED
  BY <1>4, <1>5, <1>6, <1>7, <1>8, <1>9, <1>10

\* Every step of a process in the middle of a command.
LEMMA WorkStep == ASSUME IInv, NEW p \in Procs, Work(p) PROVE IInv'
<1>1. CASE Busy(p)
  <2>1. op.by # p /\ {"idle", "unclaim"} \subseteq Labels
    BY <1>1 DEF Busy, Labels
  <2> QED
    BY <1>1, <2>1, ThrowStep DEF Busy
<1>2. CASE Proceed(p)
  <2>1. op.by # p
    BY <1>2, ProcAssumption DEF Proceed, IInv, Called, Busied
  <2>2. NoArg \in Args
    BY NodeAssumption DEF NoArg, Args, NoClaim, Claims, Results
  <2>3. Moves(p)
    BY <1>2, <2>2 DEF Proceed, IInv, TypeOK, Goto, Labels, Moves
  <2> QED
    BY <2>1, <2>3, MoveStep
<1>3. CASE CheckBegin(p)
  <2>1. op.by # p
    BY <1>3, ProcAssumption DEF CheckBegin, IInv, Called, Busied
  <2>2. CASE run.inv
    <3>1. [arg[p] EXCEPT !.cand = ws] \in Args
      BY DEF IInv, TypeOK, Args
    <3>2. arg' = [arg EXCEPT ![p] = [arg[p] EXCEPT !.cand = ws]]
      BY <1>3, <2>2 DEF CheckBegin
    <3>3. Moves(p)
      BY <1>3, <2>2, <3>1, <3>2 DEF CheckBegin, IInv, TypeOK, Moves
    <3> QED
      BY <2>1, <3>3, MoveStep
  <2>3. CASE ~run.inv
    <3>1. Throw(p, "idle") /\ "idle" \in Labels
      BY <1>3, <2>3 DEF CheckBegin, Throw, Labels
    <3> QED
      BY <2>1, <3>1, ThrowStep
  <2> QED
    BY <2>2, <2>3
<1>4. CASE \/ Acquire(p) \/ BindClaim(p) \/ Recover(p) \/ Accept(p) \/ Step(p)
           \/ Unclaim(p) \/ PauseRun(p) \/ PauseRelease(p) \/ StopRun(p)
           \/ AbandonRun(p) \/ LoseRun(p) \/ CheckEnd(p)
  <2>1. Free /\ Busied(p)
    BY <1>4 DEF Acquire, BindClaim, Recover, Accept, Step, Unclaim, PauseRun, PauseRelease,
                StopRun, AbandonRun, LoseRun, CheckEnd, Ready, Busied
  <2>2. Errs(p) \/ Starts(p)
    BY <1>4, AcquireStarts, BindStarts, RecoverStarts, AcceptStarts, RunnerStarts, OthersStart
  <2> QED
    BY <2>1, <2>2, StoreStep
<1> QED
  BY <1>1, <1>2, <1>3, <1>4 DEF Work

\* The invariant is inductive.
LEMMA NextIInv == IInv /\ [Next]_vars => IInv'
<1> SUFFICES ASSUME IInv, [Next]_vars PROVE IInv'
  OBVIOUS
<1>1. CASE Store
  BY <1>1, WriteProofStep, PublishStep, FinishStep DEF Store
<1>2. CASE \E p \in Procs : Work(p) \/ Command(p) \/ Crash(p)
  BY <1>2, WorkStep, CommandStep, CrashStep
<1>3. CASE Edit \/ Expire
  BY <1>3, OutsideStep
<1>4. CASE UNCHANGED vars
  <2>1. TypeOK' /\ UNCHANGED <<run, op, proof, pc, my, arg>>
    BY <1>4 DEF IInv, TypeOK, vars
  <2>2. op.by # NoProc => Busied(op.by)' /\ my'[op.by] = my[op.by]
    BY <2>1 DEF IInv, Called, Busied
  <2> QED
    BY <2>1, <2>2, QuietStep
<1> QED
  BY <1>1, <1>2, <1>3, <1>4 DEF Next

\* ... and therefore holds in every reachable state.
LEMMA Invariance == Spec => []IInv
<1>1. Init => IInv
  BY InitIInv
<1>2. IInv /\ [Next]_vars => IInv'
  BY NextIInv
<1> QED
  BY <1>1, <1>2, PTL DEF Spec

------------------------------------------------------------------------------
\* Every variable has its type: above all, every record the code appends
\* folds to a Run that the engine can read again.
THEOREM Typing == Spec => []TypeOK
<1>1. IInv => TypeOK
  BY DEF IInv
<1> QED
  BY <1>1, Invariance, PTL

\* A Run that has not ended always has a place left for the record that ends
\* it, for every journal length, graph and number of processes
\* (retainsTerminalReserve).
THEOREM Reserve == Spec => []TerminalReserve
<1>1. IInv => TerminalReserve
  BY DEF IInv
<1> QED
  BY <1>1, Invariance, PTL

\* An operation of several records never runs out of room halfway.
THEOREM TailKept == Spec => []TailFits
<1>1. IInv => TailFits
  BY DEF IInv
<1> QED
  BY <1>1, Invariance, PTL

\* The recovery proof of a live lease is on disk at every point at which a
\* process may die (writeRecoveryProof, clearRecoveryProof).
THEOREM ProofKept == Spec => []LeaseHasProof
<1>1. IInv => LeaseHasProof
  BY DEF IInv
<1> QED
  BY <1>1, Invariance, PTL

\* The journal grows in one place only.
LEMMA OnlyPublish ==
  ASSUME IInv, [Next]_vars, run' # run
  PROVE  op.do # <<>> /\ run' = After(run, Head(op.do)) /\ Legal(run, Head(op.do))
         /\ Head(op.do) \in Records
<1>1. Publish
  <2>1. ASSUME NEW p \in Procs, Errs(p) \/ Starts(p) PROVE run' = run
    BY <2>1 DEF Errs, Starts, Throw, Perform
  <2>2. ASSUME NEW p \in Procs, Work(p) PROVE run' = run
    BY <2>1, <2>2, AcquireStarts, BindStarts, RecoverStarts, AcceptStarts, RunnerStarts,
       OthersStart DEF Work, Busy, Proceed, CheckBegin, Throw
  <2>3. ASSUME NEW p \in Procs, Command(p) PROVE run' = run
    BY <2>3 DEF Command, ClaimTask, Pause, Stop, Abandon, Reconcile, Report, Want
  <2> QED
    BY <2>2, <2>3 DEF Next, vars, Store, WriteProof, Finish, Crash, Edit, Expire
<1>2. op.do \in Seq(Records)
  BY DEF IInv, TypeOK, Ops
<1> QED
  BY <1>1, <1>2, Rest DEF Publish

\* Only a process that knows the lease of a leased Run appends to it: one
\* that has lost its lease never does again (assertLease).
THEOREM Fencing == Spec => Fenced
<1>1. IInv /\ [Next]_vars => [run' # run => run.lease = 0 \/ my[op.by] = run.lease]_vars
  BY OnlyPublish DEF IInv, Called
<1> QED
  BY <1>1, Invariance, PTL DEF Spec, Fenced

\* Nothing is appended behind the record that ends the Run
\* (terminalizeCurrent).
THEOREM Frozen == Spec => TerminalFrozen
<1>1. IInv /\ [Next]_vars => [IsTerminal(run) => run' = run]_vars
  <2> SUFFICES ASSUME IInv, [Next]_vars, IsTerminal(run), run' # run PROVE FALSE
    OBVIOUS
  <2>1. Legal(run, Head(op.do)) /\ Head(op.do) \in Records
    BY OnlyPublish
  <2> QED
    BY <2>1, AfterControl DEF IInv, TypeOK, Nobody
<1> QED
  BY <1>1, Invariance, PTL DEF Spec, TerminalFrozen
=============================================================================
