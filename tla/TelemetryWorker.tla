--------------------------- MODULE TelemetryWorker ---------------------------
(***************************************************************************)
(* The worker of a Differential Testing store (worker-runtime.mjs): it     *)
(* takes events out of an inbox, runs telemetry for one scenario at a      *)
(* time, projects its state, and keeps all it knows in state.json.         *)
(*                                                                         *)
(* A worker is one JavaScript thread.  A drain of the inbox, a telemetry   *)
(* run and a projection are under way at the same time; each action is     *)
(* what one of them does from one await to the next, and a tick's two      *)
(* starts (turn) are one such piece.  mem is the worker's state, disk what *)
(* state.json has of it.  The inbox, the validation of events, the runs    *)
(* and the reports belong to the project: their outcomes are choices.  One *)
(* worker runs at a time; its lock file is not modelled.                   *)
(***************************************************************************)
EXTENDS Integers, Sequences, FiniteSets, Functions

CONSTANTS
  Scenarios,      \* scenario ids
  Events,         \* request ids
  ScenarioOf,     \* the scenario of each
  Telemetry,      \* those that ask for telemetry; the others only project
  None,           \* no scenario or request
  MaxScenarios,   \* maxScenarios
  MaxAccepted,    \* maxAcceptedRequestIds
  MaxRejected,    \* maxRejectedEvents
  MaxAttempts,    \* telemetryMaxAttempts
  MaxProjections, \* projectionMaxAttempts
  MaxDeliveries,  \* bound: how many entries are put into the inbox
  MaxFaults       \* bound: crashes, failed writes, broken callbacks, runs that hang

ASSUME WorkerAssumption ==
  /\ IsFiniteSet(Scenarios)
  /\ ScenarioOf \in [Events -> Scenarios]
  /\ Telemetry \subseteq Events
  /\ None \notin Scenarios \cup Events
ASSUME LimitAssumption ==
  {MaxScenarios, MaxAccepted, MaxRejected, MaxAttempts, MaxProjections} \subseteq Nat \ {0}
ASSUME BoundAssumption == {MaxDeliveries, MaxFaults} \subseteq Nat

VARIABLES
  up,          \* a worker runs
  disk,        \* state.json
  mem,         \* the worker's state
  fatal,       \* fatalError is set
  turn,        \* what a tick has still to start before it gives the thread up
  drain,       \* pollPromise: the entries to go, and the one under way
  runner,      \* telemetryPromise: the scenario and the request it runs
  project,     \* projectionPromise, and whether its revision is still the last
  inbox,       \* the project's inbox
  report,      \* the request of each scenario's published report
  dropped,     \* history: a scenario left the queue without a run
  remembered,  \* history: requests accepted on disk, not pushed out by the limit
  deliveries, faults

vars == <<up, disk, mem, fatal, turn, drain, runner, project, inbox, report, dropped,
          remembered, deliveries, faults>>

Statuses == {"absent", "queued", "running", "retrying", "complete", "failed"}
Waiting == {"queued", "retrying"}
Requests == Events \cup {None}

\* event stands for the session as well: both are the last accepted event's.
ScenarioRecords ==
  [status : Statuses, request : Requests, pending : Requests, event : Requests,
   publication : Requests, attempts : Nat]
Absent == [status |-> "absent", request |-> None, pending |-> None, event |-> None,
           publication |-> None, attempts |-> 0]

\* behind: requestedRevision is beyond publishedRevision.
Projections == [status : (Statuses \ {"absent"}) \cup {"idle"}, behind : BOOLEAN, attempts : Nat]

NoActive == [scenario |-> None, request |-> None]
Actives == {NoActive} \cup [scenario : Scenarios, request : Requests]

States == [selected : Scenarios \cup {None}, accepted : Seq(Events), rejected : Seq(Events),
           queue : Seq(Scenarios), active : Actives, projection : Projections,
           scenarios : [Scenarios -> ScenarioRecords]]
EmptyState ==
  [selected |-> None, accepted |-> <<>>, rejected |-> <<>>, queue |-> <<>>,
   active |-> NoActive, projection |-> [status |-> "idle", behind |-> FALSE, attempts |-> 0],
   scenarios |-> [s \in Scenarios |-> Absent]]

NoDrain == [at |-> "idle", todo |-> {}, entry |-> None]

\* A crash in the last attempt gives one more (recoverInterruptedState keeps
\* attempts).
StateTypeOK(m) ==
  /\ m \in States
  /\ \A s \in Scenarios : m.scenarios[s].attempts <= MaxAttempts + faults
  /\ m.projection.attempts <= MaxProjections + faults

TypeOK ==
  /\ up \in BOOLEAN
  /\ StateTypeOK(disk)
  /\ StateTypeOK(mem)
  /\ fatal \in BOOLEAN
  /\ turn \in {"free", "telemetry", "projection"}
  /\ drain \in [at : {"idle", "next", "validate", "delete"}, todo : SUBSET Events,
                entry : Requests]
  /\ runner \in Actives
  /\ project \in {"none", "latest", "outdated"}
  /\ inbox \in SUBSET Events
  /\ report \in [Scenarios -> Requests]
  /\ dropped \in BOOLEAN
  /\ remembered \in SUBSET Events
  /\ deliveries \in 0..MaxDeliveries
  /\ faults \in 0..MaxFaults

Init ==
  /\ up = FALSE
  /\ disk = EmptyState
  /\ mem = EmptyState
  /\ fatal = FALSE
  /\ turn = "free"
  /\ drain = NoDrain
  /\ runner = NoActive
  /\ project = "none"
  /\ inbox = {}
  /\ report = [s \in Scenarios |-> None]
  /\ dropped = FALSE
  /\ remembered = {}
  /\ deliveries = 0
  /\ faults = 0

-----------------------------------------------------------------------------
\* What the state of a worker says and becomes.

\* Array.slice(-n)
Kept(q, n) == IF Len(q) > n THEN SubSeq(q, Len(q) - n + 1, Len(q)) ELSE q

\* Array.splice(i, 1)
Without(q, i) == [j \in 1..Len(q) - 1 |-> IF j < i THEN q[j] ELSE q[j + 1]]

\* A scenario is in the queue once.
Queued(q, s) == IF s \in Range(q) THEN q ELSE Append(q, s)

\* mutant: only the scenarios are looked at
HandledByScenario(d, e) ==
  \E s \in Scenarios :
    LET c == d.scenarios[s] IN e \in {c.event, c.request, c.pending, c.publication}

\* requestWasHandled
Handled(d, e) ==
  \/ e \in Range(d.accepted) \cup Range(d.rejected)
  \/ \E s \in Scenarios :
       LET c == d.scenarios[s] IN e \in {c.event, c.request, c.pending, c.publication}

\* queueProjection
QueueProjection(m) ==
  [m EXCEPT !.projection = IF @.status = "running"
                             THEN [@ EXCEPT !.behind = TRUE]
                             ELSE [status |-> "queued", behind |-> TRUE, attempts |-> 0]]

\* recordAcceptedRequest (a request that is not handled is not in the list yet),
\* and what comes with every acceptance.
Recorded(m, e) ==
  QueueProjection([m EXCEPT !.selected = ScenarioOf[e],
                            !.accepted = Kept(Append(@, e), MaxAccepted)])

Rejected(m, e) == [m EXCEPT !.rejected = Kept(Append(@, e), MaxRejected)]

\* mutant: a successor goes on counting its predecessor's attempts
PromotedTired(c) == [c EXCEPT !.status = "queued", !.request = c.pending, !.pending = None]

\* queuePendingScenario
Promoted(c) == [c EXCEPT !.status = "queued", !.request = c.pending, !.pending = None,
                         !.attempts = 0]

\* mutant: it is left out of the queue
RequeuedOff(m, s) ==
  [m EXCEPT !.scenarios[s] = IF @.pending # None THEN Promoted(@) ELSE [@ EXCEPT !.status = "queued"]]

\* A scenario whose run has not come to its end is queued again.
Requeued(m, s) ==
  [m EXCEPT !.scenarios[s] = IF @.pending # None THEN Promoted(@) ELSE [@ EXCEPT !.status = "queued"],
            !.queue = Queued(@, s)]

\* recoverInterruptedState, of a state that loads: at most the active scenario
\* is running.
Recovered(d) ==
  LET m == IF d.active = NoActive THEN d
           ELSE [Requeued(d, d.active.scenario) EXCEPT !.active = NoActive]
  IN  [m EXCEPT !.projection.status = IF @ = "running" THEN "queued" ELSE @]

With(d, statuses) == {s \in Scenarios : d.scenarios[s].status \in statuses}
Known(d) == With(d, Statuses \ {"absent"})

\* assertDifferentialTestingWorkerState, what it says of the selection and the
\* rest of it.
SelectionValid(d) == IF Known(d) = {} THEN d.selected = None ELSE d.selected \in Known(d)

Consistent(d) ==
  /\ IsInjective(d.accepted)
  /\ IsInjective(d.queue)
  /\ Range(d.queue) = With(d, Waiting)
  /\ With(d, {"running"}) = {d.active.scenario} \ {None}
  /\ \A s \in With(d, {"running"}) : d.scenarios[s].request = d.active.request
  /\ \A s \in With(d, {"complete"}) : d.scenarios[s].publication = d.scenarios[s].request
  /\ d.projection.status = "complete" => ~d.projection.behind
  /\ d.projection.status \in Waiting \cup {"running"} => d.projection.behind

\* validateWorkerState
WithinLimits(d) ==
  /\ Cardinality(Known(d)) <= MaxScenarios
  /\ Len(d.accepted) <= MaxAccepted
  /\ Len(d.rejected) <= MaxRejected

Loads(d) == SelectionValid(d) /\ Consistent(d) /\ WithinLimits(d)

-----------------------------------------------------------------------------
\* bumpAndPersist: state.json is replaced, or writing it fails before or after
\* the rename, which is fatal.
Remember(m, d) ==
  remembered' = (remembered \cup (Range(d.accepted) \ Range(disk.accepted)))
                  \ (Range(mem.accepted) \ Range(m.accepted))

\* mutant: the write is put off
SavedLater(m) == mem' = m /\ UNCHANGED <<disk, remembered, fatal, faults>>

Saved(m) ==
  /\ mem' = m
  /\ disk' = m
  /\ Remember(m, m)
  /\ UNCHANGED <<fatal, faults>>

Unsaved(m) ==
  /\ faults < MaxFaults
  /\ faults' = faults + 1
  /\ fatal' = TRUE
  /\ mem' = m
  /\ disk' \in {disk, m}
  /\ Remember(m, disk')

Untouched == UNCHANGED <<mem, disk, remembered>>

\* What queueProjection does to a projection that is under way.
Outdate == project' = IF project = "latest" THEN "outdated" ELSE project

\* createDifferentialTestingWorker: without a state that loads it throws.
Start ==
  /\ ~up
  /\ Loads(disk)
  /\ up' = TRUE
  /\ mem' = Recovered(disk)
  /\ disk' = mem'
  /\ fatal' = FALSE
  /\ UNCHANGED <<turn, drain, runner, project, inbox, report, dropped, remembered,
                 deliveries, faults>>

StartUnsaved ==
  /\ ~up
  /\ Loads(disk)
  /\ faults < MaxFaults
  /\ faults' = faults + 1
  /\ disk' \in {disk, Recovered(disk)}
  /\ UNCHANGED <<up, mem, fatal, turn, drain, runner, project, inbox, report, dropped,
                 remembered, deliveries>>

StartRefused == ~up /\ ~Loads(disk) /\ UNCHANGED vars

Stopped ==
  /\ up' = FALSE
  /\ mem' = EmptyState
  /\ fatal' = FALSE
  /\ UNCHANGED <<disk, inbox, report, dropped, remembered, deliveries>>

Close ==
  /\ up
  /\ turn = "free" /\ drain = NoDrain /\ runner = NoActive /\ project = "none"
  /\ Stopped
  /\ UNCHANGED <<turn, drain, runner, project, faults>>

Crash ==
  /\ up
  /\ faults < MaxFaults
  /\ faults' = faults + 1
  /\ turn' = "free" /\ drain' = NoDrain /\ runner' = NoActive /\ project' = "none"
  /\ Stopped

\* The project puts an entry into its inbox, not always for the first time.
Deliver(e) ==
  /\ e \notin inbox
  /\ deliveries < MaxDeliveries
  /\ inbox' = inbox \cup {e}
  /\ deliveries' = deliveries + 1
  /\ UNCHANGED <<up, disk, mem, fatal, turn, drain, runner, project, report, dropped,
                 remembered, faults>>

-----------------------------------------------------------------------------
\* drainInbox.  A poll whose readInbox fails for a moment has nothing to do.
Poll ==
  /\ up /\ ~fatal
  /\ turn = "free"
  /\ drain = NoDrain
  /\ \E todo \in {inbox, {}} : drain' = [NoDrain EXCEPT !.at = "next", !.todo = todo]
  /\ UNCHANGED <<up, disk, mem, fatal, turn, runner, project, inbox, report, dropped,
                 remembered, deliveries, faults>>

\* After the last entry a tick goes on to its starts; a drain that only the API's
\* poll() asked for is over.
EndDrain(tick) ==
  /\ drain.at = "next"
  /\ drain.todo = {}
  /\ drain' = NoDrain
  /\ turn' = IF tick THEN "telemetry" ELSE "free"
  /\ UNCHANGED <<up, disk, mem, fatal, runner, project, inbox, report, dropped,
                 remembered, deliveries, faults>>

elsewhere == <<up, turn, runner, report, dropped, deliveries>>

At(step, e) ==
  /\ drain.at = step
  /\ e \in (IF step = "next" THEN drain.todo ELSE {drain.entry})

Go(step, e) ==
  [at |-> step, todo |-> drain.todo \ {e}, entry |-> IF step = "next" THEN None ELSE e]

\* An entry is deleted when what became of it is saved; otherwise the drain ends.
Persisted(m, e) ==
  /\ \/ Saved(m) /\ drain' = Go("delete", e)
     \/ Unsaved(m) /\ drain' = NoDrain
  /\ UNCHANGED inbox

\* A transient error leaves the entry in the inbox.
Defer(e) ==
  /\ At("next", e) \/ At("validate", e)
  /\ drain' = Go("next", e)
  /\ Untouched
  /\ UNCHANGED <<elsewhere, fatal, project, inbox, faults>>

\* A permanent one, before the worker has touched its state.
Refuse(e) ==
  /\ At("next", e) \/ At("validate", e)
  /\ Persisted(Rejected(mem, e), e)
  /\ UNCHANGED <<elsewhere, project>>

SkipHandled(e) ==
  /\ At("next", e)
  /\ Handled(mem, e)
  /\ drain' = Go("delete", e)
  /\ Untouched
  /\ UNCHANGED <<elsewhere, fatal, project, inbox, faults>>

\* acceptTelemetryEvent up to its await
Validate(e) ==
  /\ At("next", e)
  /\ e \in Telemetry
  /\ ~Handled(mem, e)
  /\ drain' = Go("validate", e)
  /\ Untouched
  /\ UNCHANGED <<elsewhere, fatal, project, inbox, faults>>

Accepted(m, e) ==
  /\ Persisted(Recorded(m, e), e)
  /\ Outdate
  /\ UNCHANGED elsewhere

\* acceptProjectionOnlyEvent
AcceptProjection(e) ==
  LET s == ScenarioOf[e] IN
  /\ At("next", e)
  /\ e \notin Telemetry
  /\ ~Handled(mem, e)
  /\ s \in Known(mem)
  /\ Accepted([mem EXCEPT !.scenarios[s].event = e], e)

\* acceptTelemetryEvent after its await: initialScenario
AcceptNew(e) ==
  LET s == ScenarioOf[e] IN
  /\ At("validate", e)
  /\ s \notin Known(mem)
  /\ Cardinality(Known(mem)) < MaxScenarios
  /\ Accepted([mem EXCEPT !.scenarios[s] = [Absent EXCEPT !.status = "queued", !.request = e,
                                                         !.event = e],
                          !.queue = Append(@, s)], e)

\* The scenario is selected before the limit and its identity are looked at.
Selected(e) == [mem EXCEPT !.selected = ScenarioOf[e]]

RefuseNew(e) ==
  /\ At("validate", e)
  /\ ScenarioOf[e] \notin Known(mem)
  /\ Persisted(Rejected(Selected(e), e), e)
  /\ UNCHANGED <<elsewhere, project>>

DeferNew(e) ==
  /\ At("validate", e)
  /\ ScenarioOf[e] \notin Known(mem)
  /\ Cardinality(Known(mem)) < MaxScenarios
  /\ mem' = Selected(e)
  /\ drain' = Go("next", e)
  /\ UNCHANGED <<elsewhere, disk, remembered, fatal, project, inbox, faults>>

\* A successor of the request that runs waits for its end.
AcceptSuccessor(e) ==
  LET s == ScenarioOf[e] IN
  /\ At("validate", e)
  /\ mem.scenarios[s].status = "running"
  /\ Accepted([mem EXCEPT !.scenarios[s] = [@ EXCEPT !.event = e, !.pending = e]], e)

AcceptAgain(e) ==
  LET s == ScenarioOf[e] IN
  /\ At("validate", e)
  /\ s \in Known(mem)
  /\ mem.scenarios[s].status # "running"
  /\ Accepted([mem EXCEPT !.scenarios[s] = [@ EXCEPT !.event = e, !.status = "queued",
                                                     !.request = e, !.pending = None,
                                                     !.attempts = 0],
                          !.queue = Queued(@, s)], e)

\* removeInboxEntry: it succeeds or fails for a moment.
Delete ==
  /\ drain.at = "delete"
  /\ drain' = Go("next", drain.entry)
  /\ inbox' \in {inbox \ {drain.entry}, inbox}
  /\ Untouched
  /\ UNCHANGED <<elsewhere, fatal, project, faults>>

\* A callback of the project's breaks for good: the inbox cannot be read, an entry
\* not be deleted.
DrainBroken ==
  /\ drain.at # "idle"
  /\ faults < MaxFaults
  /\ faults' = faults + 1
  /\ fatal' = TRUE
  /\ drain' = NoDrain
  /\ Untouched
  /\ UNCHANGED <<elsewhere, project, inbox>>

-----------------------------------------------------------------------------
\* startTelemetryIfDue: the first entry of the queue that is due; one that is
\* retried may or may not be.
Due(i) ==
  /\ i \in 1..Len(mem.queue)
  /\ \A j \in 1..i - 1 : mem.scenarios[mem.queue[j]].status = "retrying"

Free == runner = NoActive /\ mem.active = NoActive

\* mutant: a start is not counted as an attempt
StartedFree(m, i) ==
  LET s == m.queue[i] IN
  QueueProjection([m EXCEPT !.scenarios[s].status = "running",
                            !.queue = Without(@, i),
                            !.active = [scenario |-> s, request |-> m.scenarios[s].request]])

\* executeTelemetry up to its await
Started(m, i) ==
  LET s == m.queue[i] IN
  QueueProjection([m EXCEPT !.scenarios[s].status = "running",
                            !.scenarios[s].attempts = @ + 1,
                            !.queue = Without(@, i),
                            !.active = [scenario |-> s, request |-> m.scenarios[s].request]])

StartTelemetry(i) ==
  /\ turn = "telemetry"
  /\ Free
  /\ Due(i)
  /\ \/ Saved(Started(mem, i)) /\ runner' = mem'.active
     \/ Unsaved(Started(mem, i)) /\ runner' = NoActive
  /\ Outdate
  /\ turn' = "projection"
  /\ UNCHANGED <<up, drain, inbox, report, dropped, deliveries>>

\* The scratch directory cannot be made.
StartBroken(i) ==
  /\ turn = "telemetry"
  /\ Free
  /\ Due(i)
  /\ faults < MaxFaults
  /\ faults' = faults + 1
  /\ mem' = [mem EXCEPT !.queue = Without(@, i)]
  /\ fatal' = TRUE
  /\ dropped' = TRUE
  /\ turn' = "projection"
  /\ UNCHANGED <<up, disk, drain, runner, project, inbox, report, remembered, deliveries>>

SkipTelemetry ==
  /\ turn = "telemetry"
  /\ Free => \A i \in 1..Len(mem.queue) : mem.scenarios[mem.queue[i]].status = "retrying"
  /\ turn' = "projection"
  /\ UNCHANGED <<up, disk, mem, fatal, drain, runner, project, inbox, report, dropped,
                 remembered, deliveries, faults>>

\* startProjectionIfDue and executeProjection up to its await
StartProjection ==
  /\ turn = "projection"
  /\ project = "none"
  /\ mem.projection.status \in Waiting
  /\ LET m == [mem EXCEPT !.projection.status = "running", !.projection.attempts = @ + 1] IN
     \/ Saved(m) /\ project' = "latest"
     \/ Unsaved(m) /\ project' = "none"
  /\ turn' = "free"
  /\ UNCHANGED <<up, drain, runner, inbox, report, dropped, deliveries>>

SkipProjection ==
  /\ turn = "projection"
  /\ project # "none" \/ mem.projection.status # "queued"
  /\ turn' = "free"
  /\ UNCHANGED <<up, disk, mem, fatal, drain, runner, project, inbox, report, dropped,
                 remembered, deliveries, faults>>

-----------------------------------------------------------------------------
\* The end of a run (its finally).  publishTelemetry may have put the report in
\* place and fail all the same.
EndRun(m, reports) ==
  LET idle == QueueProjection([m EXCEPT !.active = NoActive]) IN
  /\ turn = "free"
  /\ runner # NoActive
  /\ report' \in reports
  /\ Saved(idle) \/ Unsaved(idle)
  /\ runner' = NoActive
  /\ Outdate
  /\ UNCHANGED <<up, turn, drain, inbox, dropped, deliveries>>

Published == [report EXCEPT ![runner.scenario] = runner.request]
\* mutant: nobody looks for a successor after the await
PendingIgnored == FALSE

Pending == mem.scenarios[runner.scenario].pending # None

\* There is a successor: the result is thrown away, whatever it is.
Supersede ==
  /\ runner # NoActive /\ Pending
  /\ EndRun(Requeued(mem, runner.scenario), {report})

Complete ==
  /\ runner # NoActive /\ ~Pending
  /\ EndRun([mem EXCEPT !.scenarios[runner.scenario] =
               [@ EXCEPT !.status = "complete", !.publication = runner.request]], {Published})

Fail ==
  /\ runner # NoActive /\ ~Pending
  /\ EndRun([mem EXCEPT !.scenarios[runner.scenario].status = "failed"], {report, Published})

Retry ==
  /\ runner # NoActive /\ ~Pending
  /\ mem.scenarios[runner.scenario].attempts < MaxAttempts
  /\ EndRun([mem EXCEPT !.scenarios[runner.scenario].status = "retrying",
                        !.queue = Queued(@, runner.scenario)], {report, Published})

\* A run that does not stop when it is told to, or whose error is fatal.
Quarantine ==
  /\ turn = "free"
  /\ runner # NoActive
  /\ faults < MaxFaults
  /\ faults' = faults + 1
  /\ report' \in {report} \cup {Published : p \in IF Pending THEN {} ELSE {TRUE}}
  /\ runner' = NoActive
  /\ fatal' = TRUE
  /\ Untouched
  /\ UNCHANGED <<up, turn, drain, project, inbox, dropped, deliveries>>

\* executeProjection after its await
Projected(ok) ==
  LET p == mem.projection IN
  CASE project = "outdated"                -> [p EXCEPT !.status = "queued", !.attempts = 0]
    [] project = "latest" /\ ok            -> [p EXCEPT !.status = "complete", !.behind = FALSE]
    [] project = "latest" /\ ~ok /\ p.attempts >= MaxProjections -> [p EXCEPT !.status = "failed"]
    [] OTHER                               -> [p EXCEPT !.status = "retrying"]

EndProjection(ok) ==
  LET m == [mem EXCEPT !.projection = Projected(ok)] IN
  /\ turn = "free"
  /\ project # "none"
  /\ Saved(m) \/ Unsaved(m)
  /\ project' = "none"
  /\ UNCHANGED <<up, turn, drain, runner, inbox, report, dropped, deliveries>>

-----------------------------------------------------------------------------
Accept(e) == AcceptProjection(e) \/ AcceptNew(e) \/ AcceptSuccessor(e) \/ AcceptAgain(e)

DrainStep ==
  \/ \E e \in Events : Defer(e) \/ Refuse(e) \/ SkipHandled(e) \/ Validate(e) \/ Accept(e)
                        \/ RefuseNew(e) \/ DeferNew(e)
  \/ Delete
  \/ DrainBroken

StartStep ==
  \/ \E i \in DOMAIN mem.queue : StartTelemetry(i) \/ StartBroken(i)
  \/ SkipTelemetry
  \/ StartProjection
  \/ SkipProjection

RunStep == Supersede \/ Complete \/ Fail \/ Retry \/ Quarantine

Next ==
  \/ Start \/ StartUnsaved \/ StartRefused \/ Close \/ Crash
  \/ \E e \in Events : Deliver(e)
  \/ Poll
  \/ DrainStep
  \/ \E tick \in BOOLEAN : EndDrain(tick)
  \/ StartStep
  \/ RunStep
  \/ \E ok \in BOOLEAN : EndProjection(ok)

Spec == Init /\ [][Next]_vars

\* The interval ticks for ever, an entry that is retried becomes due, and a run
\* ends or is given up (runWithTimeout).  That a drain goes on rests on the
\* project's callbacks, which the worker awaits without a timeout.
FairSpec ==
  /\ Spec
  /\ WF_vars(Poll)
  /\ WF_vars(DrainStep)
  /\ SF_vars(EndDrain(TRUE))
  /\ WF_vars(StartStep)
  /\ SF_vars(\E i \in DOMAIN mem.queue : StartTelemetry(i))
  /\ SF_vars(RunStep)

-----------------------------------------------------------------------------
\* A restart finds a state it can take up, whatever the three parts of a worker
\* had under way when it ended: queue, active run, statuses and projection agree
\* and keep the limits (loadWorkerState).  A scenario whose scratch directory
\* could not be made, and the selection, are the exceptions (AlwaysReopens).
Reopens == dropped \/ (Consistent(disk) /\ WithinLimits(disk))

\* "A restart reopens the last durable state" (adapter SDK, Generic guarantees).
AlwaysReopens == Loads(disk)

\* Only an entry that is about to be deleted leaves the inbox, and it is about to
\* be only once state.json knows what became of it: no failed write, failed delete
\* or crash between acceptance, save and delete loses a request (drainInbox).
DeletedWhenDurable ==
  [][/\ drain.at # "delete" /\ drain'.at = "delete" => Handled(disk', drain'.entry)
     /\ inbox \ inbox' \subseteq IF drain.at = "delete" THEN {drain.entry} ELSE {}]_vars

\* A request that has been accepted on disk is never accepted again, delivered
\* twice, or left in the inbox by a failed delete or a crash, as long as the
\* limit has not pushed its id out (requestWasHandled, recordAcceptedRequest).
AcceptedOnce == [][\A e \in remembered : ~Accept(e)]_vars

\* A report is only replaced by that of the request which state.json says runs,
\* and never once a successor has been accepted on disk, even while the run
\* ended (executeTelemetry).
PublishedCurrent ==
  [][\A s \in Scenarios :
       report'[s] # report[s] => /\ disk.active = [scenario |-> s, request |-> report'[s]]
                                 /\ disk.scenarios[s].pending = None]_vars

\* A scenario that waits or runs is complete or has failed in the end, over any
\* number of retries and successors, unless the worker stops or breaks.
Unsettled(s) == up /\ ~fatal /\ mem.scenarios[s].status \in Waiting \cup {"running"}
Settles == \A s \in Scenarios : Unsettled(s) ~> ~Unsettled(s)
==============================================================================
