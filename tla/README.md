# Burnlist: specifications, model checking and proofs

TLA+ models of the stateful core of Burnlist (`src/`), the TLC configurations
that check them on small instances, and TLAPS proofs of what holds for every
value of their constants. Paths are relative to the repository's top level,
which is `src/` here, so the program itself is under `src/src/` and the shipped
Ovens' engines under `src/ovens/`.

## 1. The system

Burnlist has no daemon at its centre. Every `burnlist ...` command is a
short-lived process; several of them, run by different hosts, agents and
operators, share directories of one repository. What serialises them is a
directory lock or a lock file; what survives them is files. Two things do stay:
the dashboard server, which reads the files without a lock, and a Differential
Testing worker, which owns its store while it runs.

| Component | State it keeps | Operations | Modelled |
|---|---|---|---|
| Directory lock, `src/src/server/dir-lock.mjs` | lock directory with one owner file, candidate directories | `withDirectoryLock` | `DirLock`, `LockService` |
| Run engine, `src/src/loops/run/{run-store,controller,runner,system-runner,state-machine,run-fold,budgets}.mjs` | a Run's journal, its recovery proof, host claims and reports | acquire/release/recover lease, append, terminalize, bind/accept/abandon a claim, pause, stop, reconcile, run the system's nodes | `LoopGraph`, `RunFold`, `LoopRun`, `RunContract` |
| Run journal, `run-journal.mjs` | numbered record files | append one record, read all | as one atomic append in `LoopRun` |
| Host claims, `run-claim.mjs`, `host-execution.mjs`, `claim-index.mjs` | claim, sealed envelope, index hint | prepare, bind, resolve, report, abandon | in `LoopRun` |
| Loop graphs, `src/src/loops/dsl/*` | none (pure) | parse, validate, freeze | what validation guarantees: `LoopGraph` |
| Candidates, `candidate.mjs` | the workspace | derive an identity | a set of identities in `LoopRun` and `ItemLifecycle` |
| Current-run authority, launch and retention, `current-authority.mjs`, `binder.mjs`, `createRun` and `prune` of `run-store.mjs` | item to Run binding, Run directories | reserve, supersede, publish, prune | `ItemLifecycle` |
| Completion, `src/src/loops/completion/completion.mjs` | intent, plan, receipt | complete a converged Run's item | `ItemLifecycle` |
| Assignment, `src/src/loops/assignment/*` | Loop metadata in the plan | assign, unassign, guard a direct burn | `ItemLifecycle` |
| Lifecycle, `src/src/cli/lifecycle-moves.mjs`, lock file of `src/src/server/oven-package-lock.mjs` | lifecycle folders, `burnlist.md`, `.lock` | ready, start, close, repair, burn | `ItemLifecycle` |
| Event stream, `src/src/events/oven-event-stream-storage.mjs`, `oven-event-store.mjs` | pending file, records, index, state, prune mark | publish, recover, prune; read without a lock | `EventLog`, `EventStream` |
| Observer and feed, `oven-event-observer.mjs`, `oven-event-feed.mjs` | watermarks, subscribers, connections | scan, deliver, reset, subscribe, replay | `EventFeed` |
| Differential Testing worker, `src/ovens/differential-testing/engine/worker-runtime.mjs` | `state.json`: queue, scenarios, active run, projection, accepted and rejected requests | drain the inbox, run telemetry, project, retry, recover | `TelemetryWorker` |
| Projection coordinator, `src/src/server/oven-projection-coordinator.mjs` | pending invalidations | flush, reconcile | not modelled |
| Service supervisor, `src/src/service/supervisor.mjs` | mkdir lock, service record | start, stop, refresh | not modelled |
| Registry, repo state and oven storage | JSON files | read-modify-write under the directory lock | the lock's guarantee only |
| Capabilities and config, hook events | trust records, configuration | run a check, emit an event | their outcomes only |
| Skills/hooks installer, agent monitor, streaming diff | files, feeds | install with rollback, append | not modelled |
| Read models, views, forecast, Differential Testing data and transport, ovens, dashboard, TUI, website | none of their own | validate, render | out of scope: pure functions and I/O |

How they interact:

* Every store operation of a Run is the guarded function of a directory lock
  (`locked`, run-store.mjs:33); the controller and the runner call the store,
  and read the Run without the lock before they do. A host (an agent in another
  process) gets a claim, edits the workspace and reports.
* A Run is created for an item: its launch reads the Burnlist without a lock
  and reserves the item under the lock of `current-runs.json`. Completion burns
  the item of a converged Run under the Burnlist's own lock file, which is not
  the lock the Run was created under.
* Events are published after a lock has been released and never influence a
  Run. The server observes each stream's files while they are written and
  passes the events on to its clients.
* A Differential Testing worker talks to its project by callbacks: an inbox
  to list and delete from, a validator, a telemetry run, a projection.

What is hard in this code, and what must be true of it:

* *Lock.* Everything between two system calls: a stale judgment that is acted
  on later, a candidate collected while it is published, a process that dies
  anywhere. It must exclude, it must not take a live owner's lock (unless the
  caller allows it after 15 minutes), and it must come to an end.
* *Run engine.* Processes die between two records of one operation; leases
  change hands; reports come twice, late, or from somebody who has read the
  Run before it changed; the journal, the clock and the budgets run out. A
  Run must always be able to end, end once, be appended to by its lease's
  owner only, answer every claim once, and converge only on evidence of the
  present cycle and candidate.
* *Graphs.* Evidence of an earlier cycle stays in the fold; nothing but a
  comparison of cycle and candidate keeps it from opening the gate.
* *Items.* Two locks, several files and commands that read before they lock:
  no ledger entry may be lost or invented, an item has one Run that executes,
  and what a crash leaves half done can be sealed.
* *Events.* Five durable writes for one event, and readers among them. The
  files must stay a numbered log with a readable window after any crash, and
  no client may miss an event without being told.
* *Worker.* Three activities of one thread write one file, each with awaits in
  between. No request may be lost or run twice, no outdated result published,
  and what is on disk must be something a restart takes up.

`PROJECT.json` lists these hazards one by one with the line where each bites
and the properties that cover it, or why none does.

## 2. Modules

```
LockService          abstract lock
   ^  implements
DirLock ---- DirLockProofs                      MCDirLock

LoopGraph  a Loop's graph and budget, with the assumptions validation gives
   ^  extends
RunFold    effect and legality of one journal record
   ^  extends
LoopRun ---- LoopRunProofs ---- LoopClaimProofs ---- LoopContractProofs   MCLoopRun
   v  implements
RunContract          abstract Run, as its hosts see it

EventLog             abstract log
   ^  implements
EventStream ---- EventStreamProofs
   ^  extends              ^  extends
EventFeed -------- EventFeedProofs              MCEventFeed

ItemLifecycle ---- ItemLifecycleProofs          MCItemLifecycle
TelemetryWorker ---- TelemetryWorkerProofs      MCTelemetryWorker
```

The modules share no variables; where one component relies on another it does
so through what the other one is shown to guarantee. `LoopRun`, `EventStream`
and `ItemLifecycle` take a directory lock for the `LockService` that `DirLock`
implements; `ItemLifecycle` takes from `LoopRun` that a Run ends once and stays
ended, as `RunContract` says. The MC modules hold a symmetry set and the graphs or
functions a configuration cannot write down.

Definitions that a comment calls a *mutant* are used by nothing: each is a
plausible wrong version of a definition of the code (`PROJECT.json`, `mutants`),
with which the property it is listed for must fail.

### DirLock and LockService

`DirLock` has one action for every system call of `withDirectoryLock` that
another process can observe. `canon` is what is at the lock path: nothing, an
empty directory, the token of the owner file in it, or the regular file of a
v0.0.2 owner;
`cand` is the state of each token's candidate directory, `owner` and `age`
what is in its record, and `pc`, `tok`, `seen`, `todo`, `attempt` are the local
variables of each call. Correspondence:

| Code | Actions |
|---|---|
| `gc`, `removeCandidate` | `Call` (listing), `GcUnlink`, `GcRmdir` |
| `buildCandidate` | `Build` (mkdir), `WriteRecord` |
| rename, self check | `Rename`, `SelfCheck`, `SelfRmdir` |
| `inspectCanonical`, stale reclaim | `Inspect`, `Unlink`, `Rmdir` |
| `reclaimLegacy` | `LegacyCheck` (second reading and compare), `ReclaimLegacy` (unlink) |
| `fn`, `release` | `Leave`, `Release`, `ReleaseRmdir` |
| errors | `GiveUp`, `FaultBefore`, `FaultLeak`, `FaultAfter` |
| environment | `Crash`, `Tick` |
| v0.0.2 processes (external) | `LegacyLink`, `LegacyStop` |

The records read by one `inspectCanonical` are judged in one action: what is
judged stale stays stale (a dead process stays dead, a record only gets older),
so reading and judging at one instant loses nothing; acting on the judgment is a
later action. Tokens are 32 random bytes; a token that occurs nowhere is as
good as a fresh one. Ages are in units of `LOCK_MAX_AGE_MS`, so 2 is the age of
collection. A "process" is a pid together with its start time: pid reuse is a
dead owner, and the text comparison of `ps` output is assumed to be right.
Corrupt lock contents, symbolic links and other hosts' records (never stale)
are not modelled: the code only waits for them.

A v0.0.2 process (a member of `Legacies`) links a regular file to the lock path
whenever nothing is there, releases it or dies, and may come back under a token
nobody remembers; `live` are those that run, whether or not they still have
their file. A v0.0.2 file that was judged stale may thus be replaced by that of
a live owner at any moment: before the second reading of `reclaimLegacy`, which
then leaves it alone, or between that reading and the unlink, which does not.
The history variable `slipped` holds the owners that linked in this window;
`LegacyExclusion` excepts them, and the overdue, and nobody else. The v0.0.2
code is not in the repository: `LegacyLink` is what the comment at
`legacyRecord` says of it, and its own reclaiming of stale files is left out.
Its records have no start time, so an owner whose pid was given away counts as
live, as it does for the code.

`LockService` is what the callers rely on: one owner, who alone enters, and
loses the lock only by leaving or by dying, or alive once its record is overdue
where the callers allow it (`ReclaimLive`). `run-store.mjs` and `claim-index.mjs`
do not allow it (`reclaimLiveAfterAge: false`), so `LoopRun` and `ItemLifecycle`
may take a lock with nobody beside its owner. The repo-state lock allows it, and
`EventStream` assumes that no publication takes `LOCK_MAX_AGE_MS`, 15 minutes.

### LoopGraph, RunFold and LoopRun

`LoopGraph` declares a graph as constants; its assumptions are what
`validateClosedIr` checks, as far as anything depends on it. `RunFold` is
`foldStateMachine` and `foldBudgets` one record at a time: `Legal(r, e)` says
that the fold of the longer journal does not throw and `After(r, e)` what it is
then. The code refolds the whole journal before every append and on every read,
so the fold of the journal is the state of a Run.

`LoopRun` is the Run with its processes. `run` is the fold, `proof` the
generation in the recovery-proof file, `ws` the workspace, `op` the store
operation that has the Run's lock, with the records it has still to write:

* a store operation starts in one action (`Acquire`, `BindClaim`, `Accept`,
  `Step`, ...) that does what the code does between taking the lock and its
  first write, `Perform` being the start and `Throw` the error;
* each record is published by an action of its own (`Publish`, which refolds
  first, as `prospective` does), the proof by `WriteProof` and `Finish`, and a
  `Crash` may fall between any two of them;
* what the controller reads *without* the lock (`Want`, `Abandon`,
  `Reconcile`, `Report`) is a separate action, so that everything may have
  changed by the time the operation starts.

`append` takes the lock, replays and writes one record; the runner replays
just before it calls it. `Step` joins the two. No other process can come
between them with an effect on the outcome other than the loss of the lease:
every append requires the lease, and the code's append refuses without it, as
`AppendOne` does. `Busy` is the caller's `ELOCKED`. `late` and `overdue`
separate the clock of `append` (which reads the present time) from the elapsed
time of `budgetReason` (which reads the last record's).

The operator's commands are switched on by the constant `Commands`. A claim's
hour, which `hostClaimExpired` compares, is a nondeterministic refusal of an
unanswered report or a claim. A check takes two actions, so the workspace may
change while it runs.

Left out: summaries, digests, findings, telemetry and output bytes (with their
limit); the runner's test-only agent execution and prepared agents;
`pause`/`stop` *requests* by signal to a running check (the `run()` loop, which
production's system runner does not use); `resolveExternalClaim`, which nothing
calls; `acquireLease`'s clearing of the proof when the lease record does not
fold, which `LeaseHasProof` and `TailFits` show is not reached.

`RunContract` is a Run as a host or an operator sees it, with neither journal nor
graph nor processes: it works under leases whose numbers never come again, asks
one new claim at a time, takes one answer for it and acts on that once before it
asks again, is not paused while somebody is asked, does not converge after a
failure or with a question open, and ends once. In the mapping `asked` is the
claim in the fold (`Asked`), `due` the agent's result at whose node the Run still
stands (`Pending`), and `claims` and `answers` are the fold's `bound` and
`accepted`. A published record is a step of the contract or does not concern it,
and whatever else happens (proofs, crashes, refusals, reads) is invisible.

`RunFold` and `LoopRun` never mention a particular graph; the shipped gate and
review Loops and one with a detour are in `MCLoopRun`.

### EventLog and EventStream

`publishOvenEvent` runs under the repo-state directory lock, so one publisher
at a time is in a step; its steps are the durable writes and removals, with
what the code reads to decide on each, and `Crash` (a death or a failing system
call) may end it before any of them. `base` and `committed` are `state.json`,
`pending`, `record`, `index` and `mark` the other files, `made` says that the
directories exist; `pc`, `draft`, `cur`, `at` and `back` are the publisher's
local variables.

| Code | Actions |
|---|---|
| `publishStoredOvenEvent` up to its first read | `Publish` |
| `completePrune` | `Settle`, `Raise`, `DropIndex`, `DropRecord`, `Unmark` |
| `recoverPending` | `Recover`, then `WriteIndex`, `Commit`, `Clear`, `Prune` on its behalf |
| the record of the same identity: retry, garbage, half published | `Lookup` |
| the five writes | `WritePending`, `WriteRecord`, `WriteIndex` (`ensureIndex`), `Commit` (`writeState`), `Clear` |
| `prune` | `Prune` |
| `ECORRUPT` | the label "corrupt" |

`EventLog` is what readers rely on: a window `base..committed` of which every
number can be read, `Append` (the next number, for an event not in the window)
and `Trim`. The mapping takes the window from the index and record files, so a
file that is gone or names another event is a step `EventLog` does not have.

### EventFeed

The server is one JavaScript thread: a scan or a request runs to its end before
the next one starts, and only publishers get in between two of its file reads.
`srv` is the read it is at, with the batch read so far.

| Code | Actions |
|---|---|
| the observer's timer, `scan` | `Scan`; `Open`, `ReadIndex`, `ReadRecord` (`openOvenEventStreams`, its `next`) |
| `deliverLive`, the loop over the subscribers | `DeliverReset`, `DeliverEvent`, `Finish` |
| the live reader, `reconcileLiveKeys` | `ReadLive`, a part of every scan |
| a request to the feed, `subscribe` | `Begin`, `Subscribe` |
| a connection that breaks, and the server noticing it | `Lose`, `Close`; a slow client inside `Send` |
| the server's start | `Restart` |

`water` is each subscriber's watermark in the server, `cursor` what the client
has received: they are different things as soon as a connection breaks, and
`NoneSkipped` is about the latter. Replayers reconnect with their Last-Event-ID,
Tailers ask for `tail=1` and read the data anew. Of the live
listeners, which have no connection to lose, only the watermark is kept.

### ItemLifecycle

One Burnlist, its items and their Runs. Every command is a process: `CallX`
is what it reads before it has a lock, the lock file's steps come between, and
each durable write under it is an action. `call` holds what it has read.

| Code | Actions |
|---|---|
| `withLock` (oven-package-lock.mjs): link, a dead owner's takeover, removal | `Link`, `Claim`, `Relink`, `Unlock`, `Fail` |
| `moveLifecycle` and its callers | `CallMove`, `Move`, `WriteDigest`, `Rollback`; `CallRepair`, `Repair` |
| `burnItem`, `assignLoopItem`, `unassignLoopItem` | `CallBurn`, `CallAssign`, `CallUnassign`; `Burn`, `Assign`, `Unassign`; `WritePlan` |
| `createProductionRun` (binder.mjs), `createRun` | `CallCreate`, `Reserve`, `Publish`, `Abort` |
| a Run's way to its end, `pruneRunDirectories` | `End`, `Prune` |
| `completeLoopRun` | `CallComplete`, `FindReceipt`, `FindEntry`, `Prepare`, `WriteIntent`, `Recheck`, `Apply`, `WriteReceipt`, `ClearIntent` |
| environment | `Crash`, `Edit` |

Two things about the lock file matter. It moves with the folder, so a process
may find that the path it knew is gone. And a process that finds a dead
owner's file removes *whatever file is there by then*; if a live process has
made its own in the meantime, that one is removed. The history variable
`usurped` records this, and the properties that need exclusion say "unless
usurped": the model shows that this window is the only thing that breaks them.

A completion's ledger entry bears the `completedAt` of its Run's intent, which
is how the code recognises its own entry; in the model the entry is the Run.

### TelemetryWorker

A worker is one thread with three activities under way at a time: a drain of
the inbox, a telemetry run, a projection. Each action is what one of them does
from one `await` to the next. `mem` is the state in memory, `disk` that in
`state.json`; every action that saves may also fail to (`Unsaved`), which sets
`fatal` and leaves the memory ahead of the disk while the other two go on.

| Code | Actions |
|---|---|
| `createDifferentialTestingWorker`, `recoverInterruptedState`, `close` | `Start`, `StartUnsaved`, `StartRefused`, `Close`, `Crash` |
| the project's inbox | `Deliver` |
| `drainInbox` | `Poll`, `EndDrain`; `Defer`, `Refuse`, `SkipHandled`, `Validate`, `Delete`, `DrainBroken` |
| `acceptProjectionOnlyEvent`, `acceptTelemetryEvent` | `AcceptProjection`, `AcceptNew`, `AcceptSuccessor`, `AcceptAgain`, `RefuseNew`, `DeferNew` |
| the two starts of a tick | `StartTelemetry`, `StartBroken`, `SkipTelemetry`; `StartProjection`, `SkipProjection` |
| `executeTelemetry` after its await | `Supersede`, `Complete`, `Fail`, `Retry`, `Quarantine` (`runWithTimeout`) |
| `executeProjection` after its await | `EndProjection` |

The project's callbacks (inbox, validator, run, report) are choices among the
outcomes the code distinguishes. Two history variables: `remembered`, the
requests accepted on disk and not pushed out by `maxAcceptedRequestIds`, and
`dropped`, a scenario that has left the queue without a run.

## 3. Runs

The configurations of `TelemetryWorker` check for deadlock: a worker can always
poll or stop, and one that is down start or be refused. All others say
`CHECK_DEADLOCK FALSE`: processes may all be idle or dead, a Run that has ended
stays ended, and numbers run out.

| Run | Instance | Checks | Shows |
|---|---|---|---|
| DirLockTakeover | 2 processes, 3 tokens, 2 attempts, 2 v0.0.2 owners, failing system calls, ages up to 1, `ReclaimLive` | `LegacyExclusion`, `RemovalJustified` | late judgments on owners, dead or overdue, who have left and come again; a v0.0.2 file that was replaced is not taken for the judged one |
| DirLockLiveness | 2 processes, 2 tokens, 2 attempts, 1 v0.0.2 owner, ages up to 2, `ReclaimLive` | `MutualExclusion`, `ImplementsLock`, `CallReturns`, `DeadOwnerReclaimed` | refinement of `LockService`: with candidates collected under their publishers, a live owner loses the lock only after `LOCK_MAX_AGE_MS`; calls end; a dead owner's lock is got out of the way |
| LoopReserve | gate Loop, 2 processes, 2 candidates, 1 crash, all commands, journal of 17 | `TypeOK`, `AnsweredOnce`, `TerminalReserve`, `TailFits`, `LeaseHasProof`, `OneOwner`, `Fenced`, `LeaseKept`, `ImplementsContract` | duplicated and retried reports, full journals, recovery, ends racing each other; refinement of `RunContract` |
| LoopDetour | a graph with two rework paths, each back edge of which may be taken once, 3 rounds, 2 candidates, no crash | `ConvergedOnEvidence`, `ReviewedWasChecked`, `AnswerWholeInBudget` | old evidence never counts; an answer stays behind only before a spent edge |
| LoopLiveness | gate Loop, 2 processes, 1 crash, journal of 17 | `RunnerStops`, `AnswerTakesEffect` | the runner ends; an accepted report gets its tail |
| EventFeed | 3 events, 3 numbers, 1 retained, a replaying and a tailing client, batches of 2, 1 fault | `FeedTypeOK`, `WindowReadable`, `NeverCorrupt`, `IndexesCovered`, `ImplementsLog`, `NoneSkipped`, `InOrder` | crashes of publishers, pruning under readers, resets, lost connections |
| ItemLifecycle | 2 commands at a time, 2 items of which 1 gets a Loop, 2 Runs, 2 candidates, 1 crash | `Exclusive`, `ReceiptTrue`, `Sealable`, `OneExecutable`, `ClosedIsDone`, `LedgerKept`, `Earned` | every pair of commands interleaved, and what a dead one leaves |
| TelemetryWorker | 2 scenarios, 4 requests of which 3 for telemetry, 2 deliveries, 1 fault, limits 2 accepted, 1 rejected, 2 attempts | `TypeOK`, `Reopens`, `DeletedWhenDurable`, `AcceptedOnce`, `PublishedCurrent` | the three activities interleaved with failing writes, crashes, restarts |
| TelemetryLiveness | 3 requests, 2 deliveries, no faults | `Settles` | retries, successors and restarts come to an end |
| LoopEdgeBudget | review Loop, no crash | `AnswerIsWhole` | *violated*: finding 1 |
| LoopDuplicateReport | gate Loop, no crash | `CheckKeepsLease` | *violated*: finding 2 |
| TelemetryReopen | as TelemetryWorker with room for one scenario, no faults | `AlwaysReopens` | *violated*: finding 3 |

The type invariants of `DirLock`, `EventStream` and `ItemLifecycle` are proved
(section 4) and not checked again by a run.

**Bounds.**

* *Lock.* `MaxAttempts` stands for 100: an attempt differs from another only by
  being the last, so two contain a first and a last one. Three tokens are what
  a late unlink takes: one that was judged, the judge's own, and the one its
  owner comes back with; with two, a `Build` waits for a token nobody remembers,
  which removes no state of the others. Two v0.0.2 owners are a judged one and
  its replacement. `MaxAge` 1 contains an overdue lock, `MaxAge` 2 a candidate
  old enough to be collected too. Failing system calls, collection and v0.0.2
  owners at once, and more than two processes, are not run but proved
  (section 4).
* *Run.* The shipped gate Loop's budget is lowered to one round with
  `MaxVisits` 1, so every limit is met within the run. A gate Run without
  failures takes fewer than 17 records and one that is taken over takes more, so
  with `JournalMax` 17 Runs converge and Runs run full, both in LoopReserve and
  in LoopLiveness. `MaxCrashes` is 1 because a crash leaves nothing but the
  store, from where any process goes on. Two processes are an owner and an
  intruder. `LoopDetour` has one process: its properties concern the order of
  records, not who writes them, while the workspace is edited by somebody else
  throughout; its Runs converge in the first and in a later cycle, and a second
  rework is accepted before an edge that is spent. Its limits are on its back
  edges and nowhere else, as `validateClosedIr` asks.
* *Events.* With one retained event every publication from the second on
  prunes; three numbers allow a reader to be two windows behind, and a publisher
  to find no number left. The batch holds two, a subscriber takes one per scan,
  so a subscriber with its fill and one that is behind occur in one batch. One
  fault is a death of a publisher, a lost or slow connection, or a restart.
* *Items.* Two Runs are needed to supersede or replace one. The second item has
  no Loop, so that direct burns and closing interleave with a completion. One
  crash is enough for every half-done file and for a dead process's lock file.
* *Worker.* Two deliveries are two requests, or one twice. One accepted id more
  than `MaxAccepted` pushes one out, and `remembered` follows. One fault is one
  crash, one failed write or one broken callback, with the other activities
  going on after it. Requests that differ in nothing are interchangeable
  (`Symmetry`, not used for liveness).

**Fairness.** None is assumed for EventFeed and ItemLifecycle, whose properties
are safety. `DirLock`: weak fairness of each process's steps, because
`withDirectoryLock` is a synchronous loop and the functions it guards return.
`LoopRun`: weak fairness of a started operation (the lock's owner is scheduled)
and of each process's work within a command; commands themselves are never
forced. `AnswerTakesEffect` also assumes that a host which got no answer sends
the same report again (`Retry`, strong fairness, since the resending process
may be busy with something else again and again): that is the contract of
run-store.mjs:239-241, "the exact report retry owns the durable transaction
tail". Crashes are bounded, so the retry is not killed forever.
`TelemetryWorker`: the interval ticks (`Poll`, and strongly `EndDrain(TRUE)`,
because polls of the API may come in between), a tick makes its starts, a
queued scenario whose retry is due again and again is started (strongly, the
projection and other scenarios come first now and then), and a run ends, which
`runWithTimeout` sees to. That a drain goes on (`DrainStep`) rests on the
project's callbacks, which the worker awaits without a timeout.

**Findings.**

1. `AnswerIsWhole` is violated in LoopEdgeBudget. `acceptExternalReport`
   reserves journal space for its tail but not the edge's budget: the rejection
   that goes beyond an edge's `max-visits` is accepted, then `edge-taken` does
   not fold (`EBUDGET`), now and at every retry, and the lease stays. The runner
   asks `budgetReason` first; this path does not, against the comment at
   run-store.mjs:266-269. Reachable in `loops/review/review.loop`. It is the only
   way: `AnswerWholeInBudget`, checked in LoopDetour and proved for every graph.
2. `CheckKeepsLease` is violated in LoopDuplicateReport. A second delivery of
   a report whose node has been left releases the lease the Run has at that
   moment, because `controller.report` passes on the lease it has read; that
   may be the lease of the process running the check. Against
   controller.mjs:120 and runner.mjs:66-68. The rest of that promise holds:
   `LeaseKept` says that a live owner loses its lease to nobody but the end of
   its Run, a recovery with the proof, or a report.
3. `AlwaysReopens` is violated in TelemetryReopen. A request whose new scenario
   is refused (worker-runtime.mjs:338-346) has already been selected
   (:336), and the selection is saved with the rejection. A state whose
   selection names no scenario does not load, so no worker can open the store
   again. Against "A restart reopens the last durable state"
   (`src/skills/burnlist/references/differential-testing-adapter-sdk.md:109`).
   `Reopens`, which the other runs check, is the rest of what loading asks for.

**Reached, but promised otherwise by no line of the repository.** The model
reaches these states; they are listed as hazards, most of them without a property.

* A live v0.0.2 owner whose file is removed (`slipped`). Of two callers that
  have both read a dead v0.0.2 owner's file for the second time
  (dir-lock.mjs:222-224), one unlinks it, a live v0.0.2 process links its own,
  and the other one's unlink, which goes by path (:225), takes that. The test
  "legacy reclaim only removes the exact stale record it inspected"
  (dir-lock.test.mjs:63) replaces the file before the second reading, where
  `LegacyExclusion` says the code is right.
* Two commands inside a Burnlist's lock after a takeover (`usurped`).
* A lease nobody can release (a process that dies between acquiring it and its
  first invocation, `ELOCKED` in a runner, a refused pause, an abandon of a claim
  that was answered in between).
* An intent that stays: its Run was superseded before the retry, or the Burnlist
  was closed while its completion was between two writes.
* A scratch directory that cannot be made drops its scenario from the queue
  (`dropped`); such a state does not load.
* A crash keeps a run's attempt count, so attempts are limited between restarts,
  not across them; `TypeOK` bounds them by the limit plus the faults.
* A reconnecting client whose stream the observer has no key for is sent
  everything again.

## 4. Proofs

All theorems hold for every value of the constants that satisfies the named
assumptions of the modules; TLC evaluates those assumptions in the runs. They
say what the constants are (limits are positive numbers, special values are not
members of the sets, clients and scenarios are finite) and, for a Loop's graph,
what `validateClosedIr` makes sure of (`NodeAssumption`, `FinalAssumption`,
`EdgeAssumption`, `GateAssumption`, `BudgetAssumption`). Every safety property
that a passing run checks is a theorem.

**DirLockProofs.** The inductive invariant is typing and six facts.
`Owned`: a process that is using a token has drawn it itself. `Judged`: what a
process is about to unlink is still stale, which is why a late `unlink` is
harmless. `Held`: whoever is inside has its owner file at the lock path, or is
stale. `Aimed`: what a process is about to unlink in `reclaimLegacy` is the
file it judged, that of an owner that slipped in, or nobody's. `LegacyHeld`: a
live v0.0.2 owner has the lock path, unless it slipped in or its record is
overdue; `Judged` and `Aimed` together keep it. Mutual exclusion alone is not
inductive, since nothing in it says whose file an old judgment will remove.
`Signed`, that an owner file at the lock path has an owner, is needed for the
refinement only. Proved: `Typing`, `Exclusion`, `LegacyExcluded`,
`RemovalIsJustified`, and `Refinement`: with and without `ReclaimLive`,
`DirLock` implements `LockService` (initial states map to initial states, every
step to a step or a stutter). A tick of the clock may be the abstract `Lapse`,
and `Judged` is what makes the unlink of a token that was found stale long ago
the abstract `Reclaim`.

**LoopRunProofs.** Proved: `Typing` (every record the code appends folds to a
well-typed Run), `Reserve` (`TerminalReserve`), `TailKept` (`TailFits`),
`ProofKept` (`LeaseHasProof`), `Fencing` (`Fenced`) and `Frozen`
(`TerminalFrozen`). The inductive invariant adds `Nobody` (an ended Run has no
lease), `Progress` (what the operation under way has left to write has the right
shape: only its last record moves the lease, one that clears the proof ends
without a lease, and the proof written is that of the lease to come) and
`Called` (the operation belongs to a process that waits for it and, under a
lease, knows it). The argument: (1) what a record does to state, lease and
length, from `Effect` alone; (2) an operation that sets out with sound records
keeps the invariant through every publication and crash; (3) every command
sets out soundly or throws; (4) everything else touches only a process's own
variables. No action can be proved on its own because room, lease and proof
are promised at the start of an operation and used records later.

**LoopClaimProofs**, on top of it, for every graph: `OneAnswer`
(`AnsweredOnce`), `Convergence` (`ConvergedOnEvidence`), `Review`
(`ReviewedWasChecked`). The invariant `CInv` has three parts. `Answered`: claim
numbers never exceed their node's, the current claim is unanswered, and an
agent's edges are no more than its answers, with one to spare while a result
waits for its edge. `Evident`: a Run is at its converged node only on evidence
of this cycle and candidate, and a reviewer's claim is for what a check has
passed. `Intent`: what the operation under way looked at before its first record
(`Meant`) still holds when a later one is published. The journal grows in one
action, so the first two are kept by one more record (`AnswersAfter`,
`EvidenceAfter`); `IntentStep` carries the third through everything else.

**LoopContractProofs**, on top of both: `KeepsContract` (`ImplementsContract`),
`Owner` (`OneOwner`), `KeepsLease` (`LeaseKept`) and `AnswerWhole`
(`AnswerWholeInBudget`), for every graph, budget and number of processes. The
invariant `KInv` adds what hosts see to what the others know. `Questions`: the
current claim is being worked on and has no result, and claim numbers are those
of attempts made. `Promised`: an operation that pauses has seen no claim, and one
that accepts a report sets out with all of its effects. `UnderWay`: before any
crash, an answer that has not left its node is being acted on, or its edge is
spent. `Apart`: no two processes hold a lease of one number, and who goes on as
the owner of a lease had one or is just acquiring it. `Dropping`: only a process
that was granted a lease, a recovery or a report is about to give one up without
ending the Run. One more record keeps the journal's part (`QuestionsAfter`) and is
a step of the contract (`ContractStep`); every store operation is shown once to
set out as those need it (`Leads`), and then used for all of them together. That
one process owns a lease is not inductive without `Apart`: a recovery and a
report know a lease's number, too, without having been granted it.

**EventStreamProofs.** That a window is readable says nothing of the files
outside it, and those decide what the next publisher finds. The invariant tells
for every file how it got there: `Ahead` (a record or an index above the state
is that of `pending.json`, the record first), `Behind` (an index below the
window is still listed in `prune.json`), `Numbered`, and `Underway` (what each
step takes for granted). Proved: `Typing`, `Readable` (`WindowReadable`),
`Uncorrupted` (`NeverCorrupt`), `Covered` (`IndexesCovered`) and `Implements`:
the files are an `EventLog`, for any retention and number of events.

**EventFeedProofs.** Whatever the server does, the stream takes its own steps,
so `FeedRefines` and the stream's invariant carry over. `Batched` relates the
batch to every subscriber (it is consecutive, and nobody is behind its first
number but who has had its fill, or is about to be sent the reset), `Notified`
the resets to the watermarks, `Received` a connected client's cursor to its
watermark. Proved: `FeedTyping`, `Ordered` (`InOrder`), `Complete`
(`NoneSkipped`), for any number of clients, limits and faults.

**ItemLifecycleProofs.** What a process is about to write was worked out from
a plan it has read. `Prepared` says it still fits the files, as long as no live
process has lost its lock (`Held`); `Asked` that the Run a completion is about
stays what it was when it was checked; `Publishing` that the process that makes
a Run's directory has `current-runs.json` to itself; `Sealed` that intents and
receipts are those of converged Runs. Proved: `ItemTyping`, `Apart`
(`Exclusive`), `OneRun` (`OneExecutable`), `Recoverable` (`Sealable`), `Truthful`
(`ReceiptTrue`), `Done` (`ClosedIsDone`), `Kept` (`LedgerKept`), `Deserved`
(`Earned`), for any number of processes, items, Runs and crashes.

**TelemetryWorkerProofs.** One `state.json` is written from three places. The
invariant says of both copies of the state that they would load (`Kepts`) and
are in line (`Lined`, `Counted`), and of what is under way what its next step
takes for granted after its await: the run is the active one on disk, and a
successor known on disk is known in memory (`Underway`), the entry before the
drain is not yet handled (`Drained`), all the drain can find handled is on disk
(`HandledSaved`), and what is remembered is in the accepted list of both
(`Recalled`). Proved: `Typing`, `Reopening` (`Reopens`), `Durable`
(`DeletedWhenDurable`), `Once` (`AcceptedOnce`), `Current`
(`PublishedCurrent`), for any scenarios, requests, limits and faults.

**Only model-checked.** The liveness properties: `CallReturns`,
`DeadOwnerReclaimed`, `RunnerStops`, `AnswerTakesEffect`, `Settles`. Liveness
under fairness (and `ENABLED`) is out of the prover's reach.

## 5. Not modelled

* *Rendering, validation and parsing.* Most of the repository's lines: the
  dashboard and its server's routes, Oven renderers and templates, the terminal
  UI, the website, read models, `data-contract.mjs` and `transport.mjs`,
  grammars and codecs. They keep no state between calls, and their outcome is
  what the models choose from.
* *Content.* Digests, seals, file formats, tampered or non-JSON files, symbolic
  links. The models' files are what the program itself writes.
* *Events.* Several streams and their merge by time, the one-page JSON feed,
  deletion of a stream, the publication of events after a move. Liveness of the
  feed (a connected client is sent every event in the end) was left to a later
  step: the fair graph of this instance is too large for TLC.
* *Items.* Creation of a Burnlist, hand edits of `burnlist.md`, reclaiming an
  empty target folder, the store of assignments, retention by count and age.
  `withLock` never waits, so a retried completion has no liveness of its own:
  another command may always be inside.
* *Worker.* Its lock file (two workers on one store), idle and snapshots, Oven
  events of a worker.
* *Whole components.* Projection coordinator, service supervisor, agent monitor,
  installer, capabilities, hook events: see the table in section 1.

## 6. What to add next

1. The projection coordinator: invalidations lost between clearing and
   resolving, and their reconciliation.
2. The locks that are not `withDirectoryLock`: the supervisor's and the worker's
   lock file, the agent monitor's leases.
3. `LoopRun` over `LockService` instead of an atomic lock, and a
   nondeterministic start-time judgment in `DirLock`.
4. Liveness of the feed on a smaller instance.
