------------------------------- MODULE LoopRun -------------------------------
(***************************************************************************)
(* One Run advanced by short-lived command-line processes that share its   *)
(* directory: the store's operations (run-store.mjs), the controller's     *)
(* commands (controller.mjs) and the system runner (runner.mjs,            *)
(* system-runner.mjs).                                                     *)
(*                                                                         *)
(* A store operation runs under the Run's directory lock (DirLock): it     *)
(* replays the journal, decides, and appends a sequence of records, each   *)
(* of them refolded before it is published.  op is the operation that has  *)
(* the lock, with the records it has still to append.  A process may die   *)
(* at any point; the lock is then reclaimed and what was appended stays.   *)
(* What a process reads without the lock is read in an action of its own,  *)
(* so it may be stale when it is used.                                     *)
(***************************************************************************)
EXTENDS RunFold, Sequences, FiniteSets

CONSTANTS Procs,        \* processes
          NoProc,       \* no process
          JournalMax,   \* journalMaximum
          Commands,     \* the operator's commands: "pause", "stop", "abandon", "reconcile"
          MaxCrashes    \* bound: how often processes may die

ASSUME ProcAssumption == NoProc \notin Procs
ASSUME JournalAssumption == JournalMax \in Nat /\ JournalMax >= 2
ASSUME CommandAssumption == Commands \subseteq {"pause", "stop", "abandon", "reconcile"}
ASSUME CrashAssumption == MaxCrashes \in Nat

VARIABLES
  run,       \* the fold of the journal
  op,        \* the store operation that holds the lock
  proof,     \* generation in the .recovery-proof file, 0 when there is none
  ws,        \* candidate identity of the workspace
  late,      \* the clock is past the Run's minutes
  overdue,   \* ... and was when the last record was appended
  pc,        \* where each process is
  my,        \* the lease generation the process holds or passes, 0 for none
  goal,      \* what the process wants the lease for
  arg,       \* the report the process carries, or the candidate it checks
  crashes    \* how many processes have died

vars == <<run, op, proof, ws, late, overdue, pc, my, goal, arg, crashes>>

Labels == {"idle", "acquire", "claim", "unclaim", "pause", "unpause", "stop", "lost",
           "abandon", "recover", "accept", "run", "check", "proceed"}

NoArg == [claim |-> NoClaim, kind |-> "none", cand |-> NoCand]
Args == [claim : Claims, kind : Results, cand : Cands \cup {NoCand}]

Idle == [by |-> NoProc, do |-> <<>>, proof |-> "keep", next |-> "idle"]

Ops == [by : Procs \cup {NoProc}, do : Seq(Records),
        proof : {"keep", "write", "clear"}, next : Labels]

TypeOK ==
  /\ run \in Folds
  /\ op \in Ops
  /\ proof \in Nat
  /\ ws \in Cands
  /\ late \in BOOLEAN
  /\ overdue \in BOOLEAN
  /\ pc \in [Procs -> Labels]
  /\ my \in [Procs -> Nat]
  /\ goal \in [Procs -> Labels]
  /\ arg \in [Procs -> Args]
  /\ crashes \in 0..MaxCrashes

Init ==
  /\ run = Created
  /\ op = Idle
  /\ proof = 0
  /\ ws \in Cands
  /\ late = FALSE
  /\ overdue = FALSE
  /\ pc = [p \in Procs |-> "idle"]
  /\ my = [p \in Procs |-> 0]
  /\ goal = [p \in Procs |-> "idle"]
  /\ arg = [p \in Procs |-> NoArg]
  /\ crashes = 0

------------------------------------------------------------------------------
\* Store operations.

Free == op = Idle
Ready(p, label) == pc[p] = label /\ Free

\* The process goes on at a label; a command that is over forgets everything.
Goto(p, label) == pc' = [pc EXCEPT ![p] = label]
Land(p, label) ==
  /\ Goto(p, label)
  /\ IF label = "idle"
       THEN /\ my' = [my EXCEPT ![p] = 0]
            /\ goal' = [goal EXCEPT ![p] = "idle"]
            /\ arg' = [arg EXCEPT ![p] = NoArg]
       ELSE UNCHANGED <<my, goal, arg>>

\* mutant: the last place counts as free
RetainsNone(n) == run.seq + n <= JournalMax

\* retainsTerminalReserve: after n more records there is room for one more.
Retains(n) == run.seq + n < JournalMax

\* mutant: room for the first record is enough
RoomForFirst(records) == Retains(1)

\* ... asked for all the records of an operation before the first of them.
Room(records) == Retains(Len(records))

\* mutant: the Run is leased, to whomever
OwnsAny(p) == run.lease # 0

\* assertLease.
Owns(p) == my[p] # 0 /\ run.lease = my[p]

\* Take the lock with the records to append; the process goes on at label
\* next, or ends with an error when an append fails.
Perform(p, records, change, next) ==
  /\ op' = [by |-> p, do |-> records, proof |-> change, next |-> next]
  /\ UNCHANGED <<run, proof, ws, late, overdue, pc, my, goal, arg, crashes>>

\* Only the terminal record may use the last place of the journal.
Fits(e) == IF e.type = "terminal-node-committed" THEN run.seq < JournalMax ELSE Retains(1)

\* mutant: whatever failed is tried again and again
ThrowAgain(p, next) ==
  /\ Land(p, pc[p])
  /\ UNCHANGED <<run, op, proof, ws, late, overdue, crashes>>

\* The operation throws before it has written anything.
Throw(p, next) ==
  /\ Land(p, next)
  /\ UNCHANGED <<run, op, proof, ws, late, overdue, crashes>>

\* terminalizeCurrent: the journal's last record, whatever was asked for.
Kill(kind) == <<Terminal(IF run.system = "none" THEN kind ELSE run.system)>>

\* append(): one record of the lease's owner; out of room or out of time it
\* becomes the terminal record.
Timed == {"node-started", "invocation-started", "invocation-result", "edge-taken"}
AppendOne(p, e, next) ==
  IF ~Owns(p) \/ ~Legal(run, e) THEN Throw(p, "idle")
  ELSE IF ~Retains(1) \/ (e.type \in Timed /\ late)
    THEN Perform(p, Kill("exhausted"), "clear", next)
    ELSE Perform(p, <<e>>, "keep", next)

\* append() of a terminal state change.
AppendTerminal(p, state, next) ==
  IF Owns(p) THEN Perform(p, Kill(KindOf(state)), "clear", next)
             ELSE Throw(p, "idle")

\* terminalize().
Terminalize(p, kind) ==
  IF Owns(p) THEN Perform(p, Kill(kind), "clear", "idle") ELSE Throw(p, "idle")

\* releaseLease().
Release(p, next) ==
  IF Owns(p)
    THEN Perform(p, IF Retains(1) THEN <<Plain("lease-released")>> ELSE Kill("exhausted"),
                 "clear", next)
    ELSE Throw(p, "idle")

\* acquireLease(): a prepared or paused Run is set running first, and the
\* recovery proof is published before the lease.
Acquire(p) ==
  /\ Ready(p, "acquire")
  /\ LET resume == IF run.state \in {"prepared", "paused"}
                     THEN <<Record("state-changed", "running", NoCand)>> ELSE <<>>
         records == resume \o <<Plain("lease-acquired")>>
     IN IF run.lease # 0 \/ IsTerminal(run) THEN Throw(p, "idle")
        ELSE IF ~Room(records) THEN Perform(p, Kill("exhausted"), "clear", "idle")
        ELSE Perform(p, records, "write", goal[p])

\* mutant: the proof follows the lease
ProofOverdue == op.proof = "write" /\ Len(op.do) = 0

\* writeRecoveryProof(): before the last record of an acquisition.
ProofDue == op.proof = "write" /\ Len(op.do) = 1

WriteProof ==
  /\ ProofDue
  /\ proof' = run.gen + 1
  /\ op' = [op EXCEPT !.proof = "keep"]
  /\ UNCHANGED <<run, ws, late, overdue, pc, my, goal, arg, crashes>>

\* prospective(): the record is refolded, then published; a record that does
\* not fold or fit ends the operation with an error, and those after it are
\* not written.
Publish ==
  /\ op.do # <<>>
  /\ ~ProofDue
  /\ LET e == Head(op.do) IN
     IF Legal(run, e) /\ Fits(e)
       THEN /\ run' = After(run, e)
            /\ overdue' = late
            /\ op' = [op EXCEPT !.do = Tail(@)]
            /\ my' = IF e.type = "lease-acquired"
                       THEN [my EXCEPT ![op.by] = run.gen + 1] ELSE my
            /\ UNCHANGED <<pc, goal, arg>>
       ELSE /\ op' = Idle
            /\ Land(op.by, "idle")
            /\ UNCHANGED <<run, overdue>>
  /\ UNCHANGED <<proof, ws, late, crashes>>

\* clearRecoveryProof() where the operation has one to clear, and the unlock.
Finish ==
  /\ op.by # NoProc
  /\ op.do = <<>>
  /\ proof' = IF op.proof = "clear" THEN 0 ELSE proof
  /\ op' = Idle
  /\ Land(op.by, op.next)
  /\ UNCHANGED <<run, ws, late, overdue, crashes>>

\* The lock stays busy for all of withDirectoryLock's attempts (ELOCKED).
Locking == {"acquire", "claim", "unclaim", "pause", "unpause", "stop", "lost",
            "abandon", "recover", "accept", "run"}
Busy(p) ==
  /\ op.by \notin {NoProc, p}
  /\ pc[p] \in Locking \/ (pc[p] = "check" /\ arg[p] # NoArg)
  /\ Throw(p, IF pc[p] = "claim" THEN "unclaim" ELSE "idle")

------------------------------------------------------------------------------
\* The controller's commands.

\* A command wants the lease: it reads the Run without the lock (idleLease)
\* and comes back as the store operation above, which decides again.
Want(p, what) ==
  /\ pc[p] = "idle"
  /\ run.lease = 0
  /\ ~IsTerminal(run)
  /\ Goto(p, "acquire")
  /\ goal' = [goal EXCEPT ![p] = what]
  /\ UNCHANGED <<run, op, proof, ws, late, overdue, my, arg, crashes>>

ClaimTask(p) == run.claim = NoClaim /\ Want(p, "claim")
Pause(p) == "pause" \in Commands /\ Want(p, "pause")
Stop(p) == "stop" \in Commands /\ Want(p, "stop")

\* prepareHostClaim() and bindExternalClaim(): an unstarted agent, and for a
\* reviewer the candidate that a check of this cycle has passed.  Preparation
\* may also fail for reasons outside the Run.
CheckedBefore(r, c) ==   \* mutant: in any cycle
  \E n \in Checks : r.ev[n].kind = "pass" /\ r.ev[n].cand = c

Checked(r, c) ==
  \E n \in Checks : r.ev[n] = [kind |-> "pass", cycle |-> r.cycle, cand |-> c]

Claimable ==
  /\ ~IsTerminal(run)
  /\ ~run.started
  /\ run.node \in Agents
  /\ Kind[run.node] = "review" => run.cand = ws /\ Checked(run, ws)

BindClaim(p) ==
  /\ Ready(p, "claim")
  /\ LET e == Record("external-claim-bound", "none", ws) IN
     \/ /\ Claimable /\ Owns(p) /\ Legal(run, e) /\ Fits(e)
        /\ Perform(p, <<e>>, "keep", "idle")
     \/ Throw(p, "unclaim")

\* claim() failed after it got the lease: it gives the lease back.
Unclaim(p) ==
  /\ Ready(p, "unclaim")
  /\ IF run.lease # 0 THEN Release(p, "idle") ELSE Throw(p, "idle")

\* mutant: pause() does not look at the invocation
PauseAnyway(p) ==
  Ready(p, "pause") /\ AppendOne(p, Record("state-changed", "paused", NoCand), "unpause")

\* pause(): refused while an invocation has no result, and then released.
PauseRun(p) ==
  /\ Ready(p, "pause")
  /\ IF run.inv /\ run.result = "none"
       THEN Throw(p, "idle")
       ELSE AppendOne(p, Record("state-changed", "paused", NoCand), "unpause")

PauseRelease(p) == Ready(p, "unpause") /\ Release(p, "idle")

StopRun(p) == Ready(p, "stop") /\ Terminalize(p, "cancelled")

\* abandon: the operator has read the claim to give up; the Run is read again.
\* While any claim is active its lease is passed on, and otherwise, after the
\* claim has been answered in between, a lease is taken first.
Abandon(p) ==
  /\ "abandon" \in Commands
  /\ pc[p] = "idle"
  /\ ~IsTerminal(run)
  /\ \E c \in run.bound : arg' = [arg EXCEPT ![p].claim = c]
  /\ \/ /\ run.claim # NoClaim
        /\ run.lease # 0
        /\ Goto(p, "abandon")
        /\ my' = [my EXCEPT ![p] = run.lease]
        /\ UNCHANGED goal
     \/ /\ run.claim = NoClaim
        /\ run.lease = 0
        /\ Goto(p, "acquire")
        /\ goal' = [goal EXCEPT ![p] = "abandon"]
        /\ UNCHANGED my
  /\ UNCHANGED <<run, op, proof, ws, late, overdue, crashes>>

\* abandonExternalClaim(): the claim must still be the active one; a lease
\* that was taken for it stays when it is not.
AbandonRun(p) ==
  /\ Ready(p, "abandon")
  /\ IF run.claim = arg[p].claim THEN Terminalize(p, "lost") ELSE Throw(p, "idle")

\* mutant: reconcile adopts the lease it has found
ReconcileAdopting(p) ==
  /\ pc[p] = "idle"
  /\ run.lease # 0 /\ run.inv
  /\ Goto(p, "lost")
  /\ my' = [my EXCEPT ![p] = run.lease]
  /\ UNCHANGED <<run, op, proof, ws, late, overdue, goal, arg, crashes>>

\* reconcile: only for an invocation without owner, with the proof of the
\* lease; it revokes the lease, takes one itself and ends the Run.
Reconcile(p) ==
  /\ "reconcile" \in Commands
  /\ pc[p] = "idle"
  /\ ~IsTerminal(run)
  /\ run.lease # 0
  /\ run.inv
  /\ Goto(p, "recover")
  /\ my' = [my EXCEPT ![p] = run.lease]
  /\ goal' = [goal EXCEPT ![p] = "lost"]
  /\ UNCHANGED <<run, op, proof, ws, late, overdue, arg, crashes>>

\* recoverLease().
Recover(p) ==
  /\ Ready(p, "recover")
  /\ IF Owns(p) /\ proof = my[p]
       THEN Perform(p, IF Retains(1) THEN <<Plain("lease-revoked")>> ELSE Kill("exhausted"),
                    "clear", "acquire")
       ELSE Throw(p, "idle")

LoseRun(p) == Ready(p, "lost") /\ Terminalize(p, "lost")

------------------------------------------------------------------------------
\* Reports.

\* mutant: an answered claim is not recognised
AcceptedNever(c) == {}

AcceptedKind(c) == {a.kind : a \in {b \in run.accepted : b.claim = c}}

\* report(): resolveClaimRef() finds the Run of a claim that is current or
\* has been answered, and the lease of the Run is read along with it.
Report(p) ==
  /\ pc[p] = "idle"
  /\ \E c \in run.bound : \E o \in Outcomes(Kind[c.node]) :
       /\ c = run.claim \/ AcceptedKind(c) # {}
       /\ arg' = [arg EXCEPT ![p].claim = c, ![p].kind = o]
  /\ Goto(p, "accept")
  /\ my' = [my EXCEPT ![p] = run.lease]
  /\ UNCHANGED <<run, op, proof, ws, late, overdue, goal, crashes>>

\* The candidate the report is checked against: a task may end with any
\* workspace, a review only with the candidate it was given.
BoundaryHolds(c, o) ==
  /\ (o = "complete") <=> (Kind[run.node] = "task")
  /\ Kind[run.node] = "review" => ws = c.cand /\ ws = run.cand

\* mutant: the answer stands alone, its effect is left to a retry
AnswerFirst(prior, o) ==
  IF prior THEN <<Record("edge-taken", o, NoCand), Plain("lease-released")>>
           ELSE <<Record("external-report-accepted", o, NoCand)>>

\* The records of acceptExternalReport() from where the journal is.
Answer(prior, o) ==
  (IF prior THEN <<>> ELSE <<Record("external-report-accepted", o, NoCand)>>)
  \o (IF o = "complete" /\ run.cand = NoCand
        THEN <<Record("candidate-bound", "none", ws)>> ELSE <<>>)
  \o <<Record("edge-taken", o, NoCand), Plain("lease-released")>>

\* An unanswered claim may also have expired (hostClaimExpired).
Accept(p) ==
  /\ Ready(p, "accept")
  /\ LET c == arg[p].claim
         o == arg[p].kind
         prior == AcceptedKind(c) # {}
         answer == Answer(prior, o)
     IN \/ IF prior /\ o \notin AcceptedKind(c) THEN Throw(p, "idle")
           ELSE IF prior /\ run.node # c.node
             THEN IF run.lease = 0 THEN Throw(p, "proceed") ELSE Release(p, "proceed")
           ELSE IF ~Owns(p) \/ (~prior /\ run.claim # c) \/ ~BoundaryHolds(c, o)
             THEN Throw(p, "idle")
           ELSE IF ~Room(answer) THEN Perform(p, Kill("exhausted"), "clear", "proceed")
           ELSE Perform(p, answer, "clear", "proceed")
        \/ ~prior /\ Throw(p, "idle")

\* The report is in: the same process runs the system's nodes.
Proceed(p) ==
  /\ pc[p] = "proceed"
  /\ Goto(p, "acquire")
  /\ goal' = [goal EXCEPT ![p] = "run"]
  /\ my' = [my EXCEPT ![p] = 0]
  /\ arg' = [arg EXCEPT ![p] = NoArg]
  /\ UNCHANGED <<run, op, proof, ws, late, overdue, crashes>>

------------------------------------------------------------------------------
\* The system runner.

\* budgetReason() for a node that has not been started.
Exhausted(n) ==
  \/ overdue
  \/ n \in Agents /\ run.agentRuns >= MaxAgentRuns
  \/ Kind[n] = "task" /\ run.rounds >= MaxRounds
  \/ Kind[n] = "check" /\ run.checkRuns >= MaxCheckRuns

System(p, kind) == AppendOne(p, Record("system-outcome", kind, NoCand), "run")

\* edge(): the budget of the edge is looked at before it is taken.
TakeEdge(p, o) ==
  LET d == <<run.node, o>> IN
  IF \/ overdue
     \/ run.transitions >= MaxTransitions
     \/ MaxVisits[d] # 0 /\ run.visits[d] >= MaxVisits[d]
    THEN System(p, "exhausted")
    ELSE AppendOne(p, Record("edge-taken", o, NoCand), "run")

\* routeSystem().
Route(p) ==
  LET n == TerminalOf(run.system) IN
  IF run.node # n THEN AppendOne(p, Plain("failure-routed"), "run")
  ELSE IF ~run.started THEN AppendOne(p, Plain("node-started"), "run")
  ELSE AppendTerminal(p, Final[n], "run")

\* step(), up to the record it appends.
Step(p) ==
  /\ Ready(p, "run")
  /\ LET n == run.node IN
     IF IsTerminal(run) THEN Throw(p, "idle")
     ELSE IF run.system # "none" THEN Route(p)
     ELSE IF overdue THEN System(p, "exhausted")
     ELSE IF ~run.started
       THEN IF Exhausted(n) THEN System(p, "exhausted")
            ELSE IF n \in Agents
              THEN IF run.lease # 0 THEN Release(p, "idle") ELSE Throw(p, "idle")
            ELSE AppendOne(p, Plain("node-started"), "run")
     ELSE IF Kind[n] = "terminal" THEN AppendTerminal(p, Final[n], "run")
     ELSE IF Kind[n] = "gate" THEN TakeEdge(p, GateOutcome(run))
     ELSE IF run.result # "none" THEN TakeEdge(p, run.result)
     ELSE IF run.inv THEN System(p, "lost")
     ELSE AppendOne(p, Plain("invocation-started"), "check")

\* invoke(): the check reads the candidate in front of it and begins; the
\* invocation it was to serve may be gone.
CheckBegin(p) ==
  /\ pc[p] = "check"
  /\ arg[p] = NoArg
  /\ IF run.inv
       THEN /\ arg' = [arg EXCEPT ![p].cand = ws]
            /\ UNCHANGED <<pc, my, goal>>
       ELSE Land(p, "idle")
  /\ UNCHANGED <<run, op, proof, ws, late, overdue, crashes>>

\* The check ends.  Its outcome counts only for a workspace that has not
\* changed; a check that could not be run at all is an error.
CheckResults(p) ==
  {Record("invocation-result", "error", c) : c \in {arg[p].cand, run.cand}}
  \cup {Record("invocation-result", o, arg[p].cand) :
          o \in IF ws = arg[p].cand THEN {"pass", "fail", "timeout"} ELSE {}}

CheckEnd(p) ==
  /\ Ready(p, "check")
  /\ arg[p] # NoArg
  /\ \E e \in CheckResults(p) : AppendOne(p, e, "run")

------------------------------------------------------------------------------
\* The process dies; the lock it may have had is reclaimed.
Crash(p) ==
  /\ crashes < MaxCrashes
  /\ pc[p] # "idle"
  /\ crashes' = crashes + 1
  /\ Land(p, "idle")
  /\ op' = IF op.by = p THEN Idle ELSE op
  /\ UNCHANGED <<run, proof, ws, late, overdue>>

\* The maker, or anybody else, edits the workspace.
Edit ==
  /\ ws' \in Cands \ {ws}
  /\ UNCHANGED <<run, op, proof, late, overdue, pc, my, goal, arg, crashes>>

\* The Run's minutes are over.
Expire ==
  /\ ~late
  /\ late' = TRUE
  /\ UNCHANGED <<run, op, proof, ws, overdue, pc, my, goal, arg, crashes>>

Store == WriteProof \/ Publish \/ Finish

Work(p) ==
  \/ Busy(p) \/ Acquire(p) \/ BindClaim(p) \/ Unclaim(p) \/ PauseRun(p) \/ PauseRelease(p)
  \/ StopRun(p) \/ AbandonRun(p) \/ Recover(p) \/ LoseRun(p) \/ Accept(p)
  \/ Proceed(p) \/ Step(p) \/ CheckBegin(p) \/ CheckEnd(p)

Command(p) ==
  ClaimTask(p) \/ Pause(p) \/ Stop(p) \/ Abandon(p) \/ Reconcile(p) \/ Report(p)

Next ==
  \/ Store
  \/ \E p \in Procs : Work(p) \/ Command(p) \/ Crash(p)
  \/ Edit
  \/ Expire

Spec == Init /\ [][Next]_vars

\* A host that got no answer to a report sends the same report again.
Retry(p) ==
  /\ run.node \in Agents
  /\ run.result # "none"
  /\ Report(p)
  /\ arg'[p].claim.node = run.node
  /\ arg'[p].kind \in AcceptedKind(arg'[p].claim)

\* Commands run to their end unless their process dies, and hosts retry.
FairSpec ==
  /\ Spec
  /\ WF_vars(Store)
  /\ \A p \in Procs : WF_vars(Work(p)) /\ SF_vars(Retry(p))

------------------------------------------------------------------------------
\* Every claim has one answer, and the graph leaves an agent once for every
\* answer it gave and never without one, although reports are retried by any
\* process at any time (acceptExternalReport).
AnsweredOnce ==
  /\ \A a, b \in run.accepted : a.claim = b.claim => a = b
  /\ \A d \in DOMAIN Edge :
       d[1] \in Agents =>
         run.visits[d] <=
           Cardinality({a \in run.accepted : a.claim.node = d[1] /\ a.kind = d[2]})

\* Whoever appends to a leased Run knows its lease: a process that has lost
\* its lease never appends again (assertLease).
Fenced == [][run' # run => run.lease = 0 \/ my[op.by] = run.lease]_vars

\* A Run ends once: nothing is appended behind its terminal state, and it is
\* nobody's (terminalizeCurrent).
TerminalFrozen == [][IsTerminal(run) => run' = run]_vars

\* A Run that has not ended has room for the record that ends it
\* (retainsTerminalReserve).
TerminalReserve == ~IsTerminal(run) => run.seq < JournalMax

\* An operation that has begun never runs out of room, and leaves the last
\* place free unless it ends the Run ("reserve ... before committing its
\* first semantic record").
TailFits ==
  op.do # <<>> =>
    \/ run.seq + Len(op.do) < JournalMax
    \/ run.seq < JournalMax /\ op.do = <<Terminal(op.do[1].kind)>>

\* While a Run has a lease, its recovery proof is on disk, however the owner
\* of the lease ends (writeRecoveryProof, clearRecoveryProof).
LeaseHasProof == run.lease # 0 => proof = run.lease

\* A Run converges on evidence of its last cycle about its last candidate,
\* never on what an earlier round has left behind (gateOutcome).
ConvergedOnEvidence ==
  run.state = "converged" =>
    /\ run.cand \in Cands
    /\ \A n \in Requires :
         /\ run.ev[n].kind = Favourable(n)
         /\ run.ev[n].cycle = run.cycle
         /\ run.ev[n].cand = run.cand

\* An approval is about what a check has passed in this cycle, and about the
\* candidate the gate will ask for, whatever has happened between the review's
\* claim and its report (prepareHostClaim, "review report candidate drifted").
ReviewedWasChecked ==
  [][\A a \in run'.accepted \ run.accepted :
       a.kind = "approve" =>
         /\ a.claim.cand = run.cand
         /\ \E n \in Checks :
              run.ev[n] = [kind |-> "pass", cycle |-> run.cycle, cand |-> run.cand]]_vars

\* The runner comes to an end: at the host's turn, in a terminal state or
\* with an error (runToHostBoundary).
RunnerStops == \A p \in Procs : pc[p] \in {"run", "check"} ~> pc[p] = "idle"

\* An accepted report takes effect even if the process that sent it died
\* halfway ("the exact report retry owns the durable transaction tail").
AnswerTakesEffect ==
  run.node \in Agents /\ run.result # "none" ~> run.node \notin Agents \/ run.result = "none"

\* Unless a process has died, whoever finds the store at rest finds no
\* accepted report that has not left its node: acceptance is "a durable
\* tail, not a collection of independently optional writes".
AnswerIsWhole ==
  Free /\ crashes = 0 => ~(run.node \in Agents /\ run.result # "none")

\* A running check keeps the lease it runs under until its Run has ended
\* ("without an owner proof it cannot take a live lease").
CheckKeepsLease ==
  \A p \in Procs :
    pc[p] = "check" /\ arg[p] # NoArg => run.lease = my[p] \/ IsTerminal(run)

------------------------------------------------------------------------------
\* The Run as its hosts see it: one that has ended asks nothing and owes
\* nothing.
Asked == IF IsTerminal(run) THEN NoClaim ELSE run.claim
Pending ==
  IF ~IsTerminal(run) /\ run.node \in Agents /\ run.result \in Outcomes(Kind[run.node])
    THEN run.result ELSE "none"

Contract == INSTANCE RunContract WITH
  Kinds <- Results, Terminals <- TerminalStates, None <- "none",
  state <- run.state, gen <- run.gen, lease <- run.lease, asked <- Asked, due <- Pending,
  claims <- run.bound, answers <- run.accepted, failed <- run.system \in SystemKinds

\* The journal of a Run, its leases and its reports keep the contract with
\* hosts and operators: whoever appends, crashes, repeats or comes late, a
\* claim is new when it is asked, answered at most once, and its answer is
\* acted on at most once; nothing follows the end (controller.mjs, run-store.mjs).
ImplementsContract == Contract!Spec

\* A process that was granted the lease, and not merely told its number to
\* pass on.  abandon may be either; it appends nothing with a lease it took.
Granted == {"claim", "unclaim", "pause", "unpause", "stop", "lost", "run", "check"}

\* One process at a time owns what it was granted: neither a recovery nor a
\* duplicate report makes two of them believe that the Run is theirs ("a
\* split-brain resume", runner.mjs:66-68).
OneOwner ==
  \A p, q \in Procs :
    p # q /\ pc[p] \in Granted /\ pc[q] \in Granted => ~(Owns(p) /\ Owns(q))

\* CheckKeepsLease fails for one reason only: a live owner loses the lease it
\* was granted to the end of its Run, to a recovery that has its proof, or to
\* a report (report() passes on the lease it has read), and to nobody else.
LeaseKept ==
  [][\A p \in Procs :
       pc[p] \in Granted /\ my[p] # 0 /\ run.lease = my[p] /\ run'.lease # my[p] =>
         op.by = p \/ IsTerminal(run') \/ pc[op.by] \in {"recover", "accept"}]_vars

\* AnswerIsWhole fails for one reason only: unless a process has died, an
\* accepted report that has not left its node stands before an edge whose
\* budget is spent (acceptExternalReport does not ask budgetReason).
Spent(d) ==
  \/ run.transitions >= MaxTransitions
  \/ MaxVisits[d] # 0 /\ run.visits[d] >= MaxVisits[d]
AnswerWholeInBudget ==
  Free /\ crashes = 0 /\ Pending # "none" => Spent(<<run.node, run.result>>)
==============================================================================
