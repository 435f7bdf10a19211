---------------------------- MODULE ItemLifecycle ----------------------------
(***************************************************************************)
(* One Burnlist, its items and their Loop Runs: the moves between the      *)
(* lifecycle folders (lifecycle-moves.mjs), assignment (assignment.mjs),   *)
(* the creation and retention of Runs (run-store.mjs, binder.mjs) and      *)
(* completion (completion.mjs).                                            *)
(*                                                                         *)
(* Every command is a process of its own.  Most run under withLock of the  *)
(* Burnlist's folder (oven-package-lock.mjs), a file that says who made it *)
(* and that moves with the folder; nobody waits for it.  current-runs.json *)
(* has the lock of DirLock, taken here at its word (LockService).  A       *)
(* process may die between any two of its durable writes.  How a Run comes *)
(* to its end is LoopRun's matter.                                         *)
(***************************************************************************)
EXTENDS Integers

CONSTANTS
  Procs,       \* commands that may be under way at a time
  Items,       \* the Burnlist's items
  LoopItems,   \* bound: the items that are assigned Loops
  Loops,       \* the Loops an item can be assigned to
  Runs,        \* Run identities, each used for one Run
  Cands,       \* states of the workspace, deriveCandidate's identities
  Direct,      \* the ledger entry of a direct burn
  Dead,        \* the owner of a lock file whose process is gone
  None,        \* no process, Loop, Run, candidate, ledger entry or plan
  MaxCrashes   \* bound: how many processes die

ASSUME ItemAssumption == LoopItems \subseteq Items
ASSUME NoneAssumption == None \notin Procs \cup Items \cup Loops \cup Runs \cup Cands
ASSUME EntryAssumption == Direct \notin Runs \cup {None} /\ Dead \notin Procs \cup {None}
ASSUME CrashAssumption == MaxCrashes \in Nat

VARIABLES
  folder,    \* the lifecycle folder the Burnlist is in
  plan,      \* burnlist.md: each item's ledger entry and Loop metadata
  digest,    \* it has its Completion Digest
  lock,      \* who made .lock
  usurped,   \* history: a live process has lost its .lock to another one
  binding,   \* who holds the lock of current-runs.json
  current,   \* current-runs.json
  run,       \* each Run: its directory with the state its journal folds to
  intent,    \* completion-intent.json of each Run, the plan it leads to
  receipt,   \* completion-receipt.json of each Run
  work,      \* the workspace
  pc,        \* each process's next step
  call,      \* its command and what it has read so far
  crashes    \* how many have died

files == <<folder, plan, digest>>
runFiles == <<current, run, intent, receipt>>
vars == <<files, lock, usurped, binding, runFiles, work, pc, call, crashes>>

Folders == {"draft", "ready", "inprogress", "completed"}

\* An item without a ledger entry is open.  A completion's entry bears the
\* completedAt of its Run's intent, a direct burn's its own.
Plans == [ledger : [Items -> Runs \cup {Direct, None}], meta : [Items -> Loops \cup {None}]]
ASSUME PlanAssumption == None \notin Plans
BlankPlan == [ledger |-> [i \in Items |-> None], meta |-> [i \in Items |-> None]]

\* "safe" stands for failed, stopped, budget-exhausted and needs-human, and a
\* reserved Run without a directory is "none".
States == {"none", "live", "safe", "converged", "archived"}
NoRun == [state |-> "none", item |-> None, loop |-> None, cand |-> None]
RunRecords == {NoRun} \cup [state : States, item : Items, loop : Loops, cand : Cands \cup {None}]

Moves == {"ready", "start", "close"}
Ops == Moves \cup {"none", "repair", "burn", "assign", "unassign", "complete", "create"}
NoCall == [op |-> "none", at |-> "draft", item |-> None, run |-> None, loop |-> None,
           plan |-> BlankPlan, cand |-> None, supersede |-> FALSE]

Calls == [op : Ops, at : Folders, item : Items \cup {None}, run : Runs \cup {None},
          loop : Loops \cup {None}, plan : Plans, cand : Cands \cup {None},
          supersede : BOOLEAN]

\* The steps under the Burnlist's lock, and the others.
Guarded == {"inside", "digest", "write", "intent", "recheck", "plan", "receipt", "clear",
            "unlock"}
Labels == Guarded \cup {"idle", "link", "claim", "relink", "reserve", "publish"}

TypeOK ==
  /\ folder \in Folders
  /\ plan \in Plans
  /\ digest \in BOOLEAN
  /\ lock \in Procs \cup {None, Dead}
  /\ usurped \in BOOLEAN
  /\ binding \in Procs \cup {None}
  /\ current \in [Items -> Runs \cup {None}]
  /\ run \in [Runs -> RunRecords]
  /\ intent \in [Runs -> Plans \cup {None}]
  /\ receipt \in [Runs -> Plans \cup {None}]
  /\ work \in Cands
  /\ pc \in [Procs -> Labels]
  /\ call \in [Procs -> Calls]
  /\ crashes \in 0..MaxCrashes

Init ==
  /\ folder = "draft"
  /\ plan = BlankPlan
  /\ digest = FALSE
  /\ lock = None
  /\ usurped = FALSE
  /\ binding = None
  /\ current = [i \in Items |-> None]
  /\ run = [r \in Runs |-> NoRun]
  /\ intent = [r \in Runs |-> None]
  /\ receipt = [r \in Runs |-> None]
  /\ work \in Cands
  /\ pc = [p \in Procs |-> "idle"]
  /\ call = [p \in Procs |-> NoCall]
  /\ crashes = 0

-----------------------------------------------------------------------------
Goto(p, from, to) ==
  /\ pc[p] = from
  /\ pc' = [pc EXCEPT ![p] = to]

\* A command starts with what it reads before it has a lock.
Begin(p, to, c) ==
  /\ Goto(p, "idle", to)
  /\ call' = [call EXCEPT ![p] = [NoCall EXCEPT !.op = c.op, !.at = folder, !.item = c.item,
                                    !.run = c.run, !.loop = c.loop, !.plan = c.plan,
                                    !.cand = c.cand, !.supersede = c.supersede]]
  /\ UNCHANGED <<files, lock, usurped, binding, runFiles, work, crashes>>

\* The process ends: with a result or an error.
Exit(p) ==
  /\ pc' = [pc EXCEPT ![p] = "idle"]
  /\ call' = [call EXCEPT ![p] = NoCall]

\* The guarded function has returned or thrown; .lock is sought at this path.
Leave(p, path) ==
  /\ pc' = [pc EXCEPT ![p] = "unlock"]
  /\ call' = [call EXCEPT ![p] = [NoCall EXCEPT !.at = path]]

Active(i) == plan.ledger[i] = None

\* burnlist.md with an item moved from the checklist to the ledger: its
\* metadata goes with its text.
Burned(i, entry) == [ledger |-> [plan.ledger EXCEPT ![i] = entry],
                     meta |-> [plan.meta EXCEPT ![i] = None]]

\* repositoryHazardAuthority: a Run of the item that has not ended safely, or
\* a current Run that has no directory.
Hazardous(i) ==
  \/ \E r \in Runs : run[r].item = i /\ run[r].state \in {"live", "converged"}
  \/ current[i] # None /\ run[current[i]].state = "none"

-----------------------------------------------------------------------------
\* withLock.  The folder may have moved away from the path by now.
There(p) == folder = call[p].at

Link(p) ==
  /\ pc[p] = "link"
  /\ \/ /\ There(p)
        /\ lock = None
        /\ lock' = p
        /\ Goto(p, "link", "inside")
        /\ UNCHANGED call
     \/ /\ There(p)
        /\ lock = Dead
        /\ Goto(p, "link", "claim")
        /\ UNCHANGED <<lock, call>>
     \/ /\ ~There(p) \/ lock \in Procs
        /\ Exit(p)
        /\ UNCHANGED lock
  /\ UNCHANGED <<files, usurped, binding, runFiles, work, crashes>>

\* Takes whatever lock is at the path by now for the dead process's.
Claim(p) ==
  /\ pc[p] = "claim"
  /\ IF There(p) /\ lock # None
       THEN /\ lock' = None
            /\ usurped' = (usurped \/ lock \in Procs)
            /\ Goto(p, "claim", "relink")
            /\ UNCHANGED call
       ELSE Exit(p) /\ UNCHANGED <<lock, usurped>>
  /\ UNCHANGED <<files, binding, runFiles, work, crashes>>

\* mutant: the lock is written whether or not there is one
RelinkOver(p) ==
  /\ There(p)
  /\ lock' = p
  /\ Goto(p, "relink", "inside")
  /\ UNCHANGED <<files, usurped, binding, runFiles, work, call, crashes>>

\* Between the removal and this link somebody else may have got the lock.
Relink(p) ==
  /\ pc[p] = "relink"
  /\ IF There(p) /\ lock = None
       THEN lock' = p /\ Goto(p, "relink", "inside") /\ UNCHANGED call
       ELSE Exit(p) /\ UNCHANGED lock
  /\ UNCHANGED <<files, usurped, binding, runFiles, work, crashes>>

\* Removes the lock if it is still the process's own, and ends the process.
Unlock(p) ==
  /\ pc[p] = "unlock"
  /\ lock' = IF lock # p THEN lock ELSE IF There(p) THEN None ELSE Dead
  /\ Exit(p)
  /\ UNCHANGED <<files, usurped, binding, runFiles, work, crashes>>

\* An error in the guarded function.
Fail(p) ==
  /\ pc[p] \in Guarded \ {"unlock"}
  /\ Leave(p, call[p].at)
  /\ UNCHANGED <<files, lock, usurped, binding, runFiles, work, crashes>>

-----------------------------------------------------------------------------
\* readyLifecycle, startLifecycle, closeLifecycle.
From == [ready |-> "draft", start |-> "ready", close |-> "inprogress"]
To == [ready |-> "ready", start |-> "inprogress", close |-> "completed"]

\* assertNoPendingLoopCompletion: no intent of any Run, read without a lock.
NoIntent == \A r \in Runs : intent[r] = None

CallMove(p) ==
  \E op \in Moves :
    /\ folder = From[op]
    /\ op = "close" => NoIntent
    /\ Begin(p, "link", [NoCall EXCEPT !.op = op])

CallRepair(p) ==
  /\ folder = "completed"
  /\ NoIntent
  /\ Begin(p, "link", [NoCall EXCEPT !.op = "repair"])

\* mutant: one burned item is enough
SomeBurned == \E i \in Items : ~Active(i)

\* assertCloseGate
AllBurned == \A i \in Items : ~Active(i)

\* A target folder that is not empty is an error.
Move(p) ==
  /\ pc[p] = "inside"
  /\ call[p].op \in Moves
  /\ There(p)
  /\ call[p].op = "close" => AllBurned
  /\ folder' = To[call[p].op]
  /\ IF call[p].op = "close"
       THEN Goto(p, "inside", "digest") /\ UNCHANGED call
       ELSE Leave(p, folder')
  /\ UNCHANGED <<plan, digest, lock, usurped, binding, runFiles, work, crashes>>

Repair(p) ==
  /\ call[p].op = "repair"
  /\ There(p)
  /\ AllBurned
  /\ Goto(p, "inside", "digest")
  /\ UNCHANGED <<files, lock, usurped, binding, runFiles, work, call, crashes>>

\* appendCompletionDigestIfMissing; then the lock is sought in the new folder.
WriteDigest(p) ==
  /\ pc[p] = "digest"
  /\ folder = "completed"
  /\ digest' = TRUE
  /\ Leave(p, "completed")
  /\ UNCHANGED <<folder, plan, lock, usurped, binding, runFiles, work, crashes>>

\* A digest that cannot be written: the folder is moved back.
Rollback(p) ==
  /\ pc[p] = "digest"
  /\ call[p].op = "close"
  /\ folder = "completed"
  /\ folder' = "inprogress"
  /\ Leave(p, call[p].at)
  /\ UNCHANGED <<plan, digest, lock, usurped, binding, runFiles, work, crashes>>

-----------------------------------------------------------------------------
\* burnItem
CallBurn(p, i) ==
  /\ folder = "inprogress"
  /\ Begin(p, "link", [NoCall EXCEPT !.op = "burn", !.item = i])

\* prepareItemMutation: the bytes of burnlist.md that the change is for.
CallAssign(p, i, l) ==
  /\ folder = "inprogress"
  /\ Active(i)
  /\ Begin(p, "link", [NoCall EXCEPT !.op = "assign", !.item = i, !.loop = l, !.plan = plan])

CallUnassign(p, i) ==
  /\ folder = "inprogress"
  /\ Active(i)
  /\ Begin(p, "link", [NoCall EXCEPT !.op = "unassign", !.item = i, !.plan = plan])

\* From here on call[p].plan is the plan to be written.
Change(p, next) ==
  /\ There(p)
  /\ Goto(p, "inside", "write")
  /\ call' = [call EXCEPT ![p] = [NoCall EXCEPT !.at = folder, !.plan = next]]
  /\ UNCHANGED <<files, lock, usurped, binding, runFiles, work, crashes>>

\* assertDirectBurnAllowed
Burn(p) ==
  LET i == call[p].item
  IN  /\ call[p].op = "burn"
      /\ Active(i)
      /\ plan.meta[i] = None
      /\ ~Hazardous(i)
      /\ Change(p, Burned(i, Direct))

\* mutant: the change is made to the bytes it was prepared for
AssignPrepared(p) ==
  LET i == call[p].item
  IN  /\ call[p].op = "assign"
      /\ call[p].plan.meta[i] = None
      /\ Change(p, [call[p].plan EXCEPT !.meta[i] = call[p].loop])

\* assertExpected: burnlist.md is what it was.
Assign(p) ==
  LET i == call[p].item
  IN  /\ call[p].op = "assign"
      /\ plan = call[p].plan
      /\ plan.meta[i] = None
      /\ Change(p, [plan EXCEPT !.meta[i] = call[p].loop])

Unassign(p) ==
  LET i == call[p].item
  IN  /\ call[p].op = "unassign"
      /\ plan = call[p].plan
      /\ plan.meta[i] # None
      /\ ~Hazardous(i)
      /\ Change(p, [plan EXCEPT !.meta[i] = None])

WritePlan(p) ==
  /\ pc[p] = "write"
  /\ There(p)
  /\ plan' = call[p].plan
  /\ Leave(p, folder)
  /\ UNCHANGED <<folder, digest, lock, usurped, binding, runFiles, work, crashes>>

-----------------------------------------------------------------------------
\* bindRunCreation: the item is assigned.
Bindable(i) == Active(i) /\ plan.meta[i] # None

\* createProductionRun: binds the item's assignment, takes up a reservation of
\* the same assignment that has no Run yet, and finds out whether the current
\* Run's convergence is stale.
CallCreate(p, i, r) ==
  LET previous == current[i]
  IN  /\ Bindable(i)
      /\ IF previous # None /\ run[previous].state = "none" /\ run[previous].loop = plan.meta[i]
           THEN r = previous
           ELSE /\ run[r] = NoRun
                /\ \A q \in Procs : call[q].run # r
                /\ previous # None => run[previous].state # "none"
      /\ Begin(p, "reserve",
               [NoCall EXCEPT !.op = "create", !.item = i, !.run = r, !.loop = plan.meta[i],
                  !.supersede = /\ previous # None
                                /\ run[previous].state = "converged"
                                /\ work # run[previous].cand])

\* mutant: any published Run can be superseded
AdmittedPublished(p) ==
  current[call[p].item] # None => run[current[call[p].item]].state # "none"

\* createRun: the item's current Run must be this one or no longer executable.
Admitted(p) ==
  LET previous == current[call[p].item]
  IN  previous # None =>
        \/ previous = call[p].run /\ run[previous].loop = call[p].loop
        \/ run[previous].state = "safe"
        \/ run[previous].state = "converged" /\ call[p].supersede

Reserve(p) ==
  LET r == call[p].run
  IN  /\ Goto(p, "reserve", "publish")
      /\ binding = None
      /\ run[r].state = "none"
      /\ Admitted(p)
      /\ binding' = p
      /\ current' = [current EXCEPT ![call[p].item] = r]
      /\ run' = [run EXCEPT ![r].item = call[p].item, ![r].loop = call[p].loop]
  /\ UNCHANGED <<files, lock, usurped, intent, receipt, work, call, crashes>>

Publish(p) ==
  /\ pc[p] = "publish"
  /\ run' = [run EXCEPT ![call[p].run].state = "live"]
  /\ binding' = None
  /\ Exit(p)
  /\ UNCHANGED <<files, lock, usurped, current, intent, receipt, work, crashes>>

\* A refusal or an error: the staged directory is removed, a reservation stays.
Abort(p) ==
  /\ pc[p] \in {"reserve", "publish"}
  /\ binding' = IF binding = p THEN None ELSE binding
  /\ Exit(p)
  /\ UNCHANGED <<files, lock, usurped, runFiles, work, crashes>>

\* pruneRunDirectories
Prune(r) ==
  /\ binding = None
  /\ run[r].state = "safe"
  /\ \A i \in Items : current[i] # r
  /\ run' = [run EXCEPT ![r].state = "archived"]
  /\ UNCHANGED <<files, lock, usurped, binding, current, intent, receipt, work, pc, call, crashes>>

\* A Run comes to its end, and converges on the candidate of that moment.
End(r) ==
  /\ run[r].state = "live"
  /\ \/ run' = [run EXCEPT ![r].state = "safe"]
     \/ run' = [run EXCEPT ![r].state = "converged", ![r].cand = work]
  /\ UNCHANGED <<files, lock, usurped, binding, current, intent, receipt, work, pc, call, crashes>>

-----------------------------------------------------------------------------
\* completeLoopRun, of a Run that has converged; of any other it refuses.
CallComplete(p, r) ==
  /\ run[r].state = "converged"
  /\ folder = "inprogress"
  /\ Begin(p, "link", [NoCall EXCEPT !.op = "complete", !.run = r, !.item = run[r].item,
                         !.cand = work])

Completing(p) == call[p].op = "complete"
Entry(p) == plan.ledger[call[p].item]

\* There is a receipt, and perhaps an intent whose removal was cut off.
FindReceipt(p) ==
  LET r == call[p].run
  IN  /\ Completing(p)
      /\ receipt[r] # None
      /\ Entry(p) = r
      /\ intent[r] \in {None, receipt[r]}
      /\ IF intent[r] = None
           THEN pc[p] = "inside" /\ Leave(p, call[p].at)
           ELSE Goto(p, "inside", "clear") /\ UNCHANGED call
  /\ UNCHANGED <<files, lock, usurped, binding, runFiles, work, crashes>>

\* The plan of an intent has been written.
FindEntry(p) ==
  LET r == call[p].run
  IN  /\ Completing(p)
      /\ receipt[r] = None
      /\ intent[r] # None
      /\ Entry(p) = r
      /\ call' = [call EXCEPT ![p].plan = intent[r]]
      /\ Goto(p, "inside", "receipt")
  /\ UNCHANGED <<files, lock, usurped, binding, runFiles, work, crashes>>

\* mutant: the item's metadata is not read again
CurrentRun(p) == current[call[p].item] = call[p].run

\* assertCurrentAssignment: Run, assignment and candidate are the item's.
CurrentAssignment(p) ==
  /\ current[call[p].item] = call[p].run
  /\ plan.meta[call[p].item] = run[call[p].run].loop
  /\ run[call[p].run].cand = call[p].cand

\* The plan the completion leads to; an intent that is there
\* must lead to the same one.
Prepare(p) ==
  LET r == call[p].run
      i == call[p].item
  IN  /\ Completing(p)
      /\ receipt[r] = None
      /\ Active(i)
      /\ CurrentAssignment(p)
      /\ intent[r] \in {None, Burned(i, r)}
      /\ call' = [call EXCEPT ![p].plan = Burned(i, r)]
      /\ Goto(p, "inside", IF intent[r] = None THEN "intent" ELSE "recheck")
  /\ UNCHANGED <<files, lock, usurped, binding, runFiles, work, crashes>>

WriteIntent(p) ==
  /\ intent' = [intent EXCEPT ![call[p].run] = call[p].plan]
  /\ Goto(p, "intent", "recheck")
  /\ UNCHANGED <<files, lock, usurped, binding, current, run, receipt, work, call, crashes>>

\* mutant: the receipt is written before the plan
RecheckSealing(p) ==
  /\ work = call[p].cand
  /\ receipt' = [receipt EXCEPT ![call[p].run] = call[p].plan]
  /\ Goto(p, "recheck", "plan")
  /\ UNCHANGED <<files, lock, usurped, binding, current, run, intent, work, call, crashes>>

\* The final boundary: the workspace is what it was before the lock.
Recheck(p) ==
  /\ work = call[p].cand
  /\ Goto(p, "recheck", "plan")
  /\ UNCHANGED <<files, lock, usurped, binding, runFiles, work, call, crashes>>

\* mutant: the intent has served its purpose
ApplyClearing(p) ==
  /\ There(p)
  /\ plan' = call[p].plan
  /\ intent' = [intent EXCEPT ![call[p].run] = None]
  /\ Goto(p, "plan", "receipt")
  /\ UNCHANGED <<folder, digest, lock, usurped, binding, current, run, receipt, work, call, crashes>>

\* atomicPlanWrite
Apply(p) ==
  /\ There(p)
  /\ plan' = call[p].plan
  /\ Goto(p, "plan", "receipt")
  /\ UNCHANGED <<folder, digest, lock, usurped, binding, runFiles, work, call, crashes>>

WriteReceipt(p) ==
  /\ receipt' = [receipt EXCEPT ![call[p].run] = call[p].plan]
  /\ Goto(p, "receipt", "clear")
  /\ UNCHANGED <<files, lock, usurped, binding, current, run, intent, work, call, crashes>>

ClearIntent(p) ==
  /\ pc[p] = "clear"
  /\ intent' = [intent EXCEPT ![call[p].run] = None]
  /\ Leave(p, call[p].at)
  /\ UNCHANGED <<files, lock, usurped, binding, current, run, receipt, work, crashes>>

-----------------------------------------------------------------------------
\* A process dies.  Its .lock stays; the lock of current-runs.json is got out
\* of the way.
Crash(p) ==
  /\ pc[p] # "idle"
  /\ crashes < MaxCrashes
  /\ crashes' = crashes + 1
  /\ lock' = IF lock = p THEN Dead ELSE lock
  /\ binding' = IF binding = p THEN None ELSE binding
  /\ Exit(p)
  /\ UNCHANGED <<files, usurped, runFiles, work>>

\* Anybody edits the workspace.
Edit ==
  /\ work' \in Cands \ {work}
  /\ UNCHANGED <<files, lock, usurped, binding, runFiles, pc, call, crashes>>

Called(p) ==
  \/ CallMove(p) \/ CallRepair(p)
  \/ \E i \in Items : CallBurn(p, i)
  \/ \E i \in LoopItems, l \in Loops : CallAssign(p, i, l)
  \/ \E i \in LoopItems : CallUnassign(p, i)
  \/ \E i \in LoopItems, r \in Runs : CallCreate(p, i, r)
  \/ \E r \in Runs : CallComplete(p, r)

Locked(p) == Link(p) \/ Claim(p) \/ Relink(p) \/ Unlock(p) \/ Fail(p)
Moved(p) == Move(p) \/ Repair(p) \/ WriteDigest(p) \/ Rollback(p)
Changed(p) == Burn(p) \/ Assign(p) \/ Unassign(p) \/ WritePlan(p)
Created(p) == Reserve(p) \/ Publish(p) \/ Abort(p)
Completed(p) ==
  \/ FindReceipt(p) \/ FindEntry(p) \/ Prepare(p)
  \/ WriteIntent(p) \/ Recheck(p) \/ Apply(p) \/ WriteReceipt(p) \/ ClearIntent(p)

Next ==
  \/ \E p \in Procs :
       Called(p) \/ Locked(p) \/ Moved(p) \/ Changed(p) \/ Created(p) \/ Completed(p) \/ Crash(p)
  \/ \E r \in Runs : End(r) \/ Prune(r)
  \/ Edit

Spec == Init /\ [][Next]_vars

-----------------------------------------------------------------------------
\* Two commands change a Burnlist at the same time only after one of them has
\* taken away the lock of a live process in a dead one's stead.
Exclusive ==
  \A p, q \in Procs :
    p # q /\ pc[p] \in Guarded /\ pc[q] \in Guarded => usurped

\* The ledger only grows: no burn or completion is undone by another command
\* that has read an older plan.
LedgerKept ==
  [][\A i \in Items :
       plan.ledger[i] # None /\ plan'.ledger[i] # plan.ledger[i] => usurped]_vars

\* An item gets into the ledger by a Run only if that Run has converged and the
\* item still has the Run's assignment, and directly only without assignment.
Earned ==
  [][\A i \in Items :
       plan.ledger[i] = None /\ plan'.ledger[i] # None =>
         \/ usurped
         \/ plan'.ledger[i] = Direct /\ plan.meta[i] = None
         \/ \E r \in Runs : /\ plan'.ledger[i] = r
                            /\ run[r].state = "converged"
                            /\ run[r].item = i
                            /\ run[r].loop = plan.meta[i]]_vars

\* A receipt tells the truth, whatever crash it follows.
ReceiptTrue ==
  \A r \in Runs : receipt[r] # None => usurped \/ plan.ledger[run[r].item] = r

\* What a completion has applied can be sealed by a retry: until the receipt is
\* there, the intent that proves whose entry it is stays.
Sealable ==
  \A r \in Runs, i \in Items :
    plan.ledger[i] = r /\ receipt[r] = None => usurped \/ intent[r] # None

\* An item has at most one Run that can still execute, the current one.
OneExecutable ==
  \A r \in Runs : run[r].state = "live" => current[run[r].item] = r

\* A completed Burnlist has nothing left to do: no later command reopens an
\* item, and close and its rollback leave no other way into the folder.
ClosedIsDone ==
  folder = "completed" => usurped \/ \A i \in Items : plan.ledger[i] # None
==============================================================================
