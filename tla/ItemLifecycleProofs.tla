------------------------- MODULE ItemLifecycleProofs -------------------------
(***************************************************************************)
(* Proofs about ItemLifecycle for every number of processes, items, Loops, *)
(* Runs and crashes.                                                       *)
(*                                                                         *)
(* What a process is about to write was worked out from a plan it has      *)
(* read, and is right only if nobody has written another one meanwhile.    *)
(* The inductive invariant says so for each step under the lock (Prepared) *)
(* as long as no live process has lost its lock (Held), and that the Run   *)
(* a completion is about stays as it was when it was checked (Asked).      *)
(***************************************************************************)
EXTENDS ItemLifecycle, TLAPS

\* What the command of a process says, from its start to its end.
Asks(p) ==
  /\ pc[p] = "idle" => call[p] = NoCall
  /\ pc[p] \in {"reserve", "publish"} =>
       /\ call[p].run \in Runs
       /\ call[p].item \in Items
       /\ call[p].loop \in Loops
  /\ pc[p] \in {"intent", "recheck", "plan", "receipt", "clear"} => Completing(p)
  /\ Completing(p) =>
       /\ call[p].run \in Runs
       /\ call[p].item \in Items
       /\ run[call[p].run].state = "converged"
       /\ run[call[p].run].item = call[p].item
  /\ call[p].op = "assign" => call[p].loop \in Loops
  /\ call[p].op \in {"burn", "assign", "unassign", "complete"} \/ pc[p] = "write" =>
       call[p].at = "inprogress"

Asked == \A p \in Procs : Asks(p)

\* The Burnlist's lock belongs to the one that works under it, until it is
\* taken away.
Held == \A p \in Procs : pc[p] \in Guarded => usurped \/ lock = p

\* The one that publishes a Run has current-runs.json to itself.
Publishing ==
  \A p \in Procs :
    pc[p] = "publish" =>
      /\ binding = p
      /\ current[call[p].item] = call[p].run
      /\ run[call[p].run].state = "none"
      /\ run[call[p].run].item = call[p].item
      /\ run[call[p].run].loop = call[p].loop

\* A plan keeps every entry there is, and its new ones are direct burns of
\* items without assignment.
Continues(next) ==
  \A i \in Items :
    /\ plan.ledger[i] # None => next.ledger[i] = plan.ledger[i]
    /\ plan.ledger[i] = None /\ next.ledger[i] # None =>
         next.ledger[i] = Direct /\ plan.meta[i] = None

\* What a process has worked out under the lock still fits the files.
Fits(p) ==
  /\ pc[p] = "write" => Continues(call[p].plan)
  /\ pc[p] \in {"intent", "recheck", "plan"} =>
       /\ Active(call[p].item)
       /\ plan.meta[call[p].item] = run[call[p].run].loop
       /\ call[p].plan = Burned(call[p].item, call[p].run)
  /\ pc[p] \in {"recheck", "plan"} => intent[call[p].run] = call[p].plan
  /\ pc[p] \in {"receipt", "clear"} => plan.ledger[call[p].item] = call[p].run
  /\ pc[p] = "clear" => receipt[call[p].run] # None

Prepared == usurped \/ \A p \in Procs : Fits(p)

\* Only a converged Run has an intent or a receipt.
Sealed == \A r \in Runs : intent[r] # None \/ receipt[r] # None => run[r].state = "converged"

ItemIInv ==
  /\ TypeOK
  /\ Asked
  /\ Held
  /\ Publishing
  /\ OneExecutable
  /\ Prepared
  /\ Sealed
  /\ ReceiptTrue
  /\ Sealable
  /\ ClosedIsDone

USE ItemAssumption, NoneAssumption, EntryAssumption, PlanAssumption, CrashAssumption

\* The steps of a process.
Act(p) ==
  Called(p) \/ Locked(p) \/ Moved(p) \/ Changed(p) \/ Created(p) \/ Completed(p) \/ Crash(p)

-----------------------------------------------------------------------------
LEMMA BlankPlanIsPlan == BlankPlan \in Plans
  BY DEF BlankPlan, Plans

LEMMA NoCallIsCall == NoCall \in Calls
  BY BlankPlanIsPlan DEF NoCall, Calls, Ops, Folders

THEOREM ItemInit == Init => ItemIInv
<1> SUFFICES ASSUME Init PROVE ItemIInv
  OBVIOUS
<1>1. TypeOK
  <2>1. run \in [Runs -> RunRecords]
    BY DEF Init, RunRecords
  <2>2. call \in [Procs -> Calls] /\ plan \in Plans
    BY BlankPlanIsPlan, NoCallIsCall DEF Init
  <2>3. pc \in [Procs -> Labels] /\ folder \in Folders
    BY DEF Init, Labels, Folders
  <2>4. crashes \in 0..MaxCrashes
    BY DEF Init
  <2> QED
    BY <2>1, <2>2, <2>3, <2>4 DEF Init, TypeOK
<1>2. Asked
  <2>1. NoCall.op = "none"
    BY DEF NoCall
  <2> QED
    BY <2>1 DEF Init, Asked, Asks, Completing
<1>3. Held /\ Publishing /\ Prepared
  BY DEF Init, Held, Publishing, Prepared, Fits, Guarded
<1>4. OneExecutable /\ Sealed /\ ReceiptTrue /\ ClosedIsDone
  BY DEF Init, OneExecutable, Sealed, ReceiptTrue, ClosedIsDone, NoRun
<1>5. Sealable
  <2>1. \A i \in Items : plan.ledger[i] = None
    BY DEF Init, BlankPlan
  <2> QED
    BY <2>1 DEF Sealable
<1> QED
  BY <1>1, <1>2, <1>3, <1>4, <1>5 DEF ItemIInv

-----------------------------------------------------------------------------
\* A command starts with a call of its own.
LEMMA BeginFacts ==
  ASSUME TypeOK, NEW p \in Procs, NEW to \in Labels, NEW c \in Calls, Begin(p, to, c)
  PROVE  /\ pc[p] = "idle"
         /\ pc' = [pc EXCEPT ![p] = to]
         /\ pc'[p] = to
         /\ call' \in [Procs -> Calls]
         /\ call'[p] = [c EXCEPT !.at = folder]
         /\ \A q \in Procs : q # p => call'[q] = call[q] /\ pc'[q] = pc[q]
         /\ UNCHANGED <<files, lock, usurped, binding, runFiles, work, crashes>>
<1> DEFINE d == [NoCall EXCEPT !.op = c.op, !.at = folder, !.item = c.item,
                               !.run = c.run, !.loop = c.loop, !.plan = c.plan,
                               !.cand = c.cand, !.supersede = c.supersede]
<1>1. d = [c EXCEPT !.at = folder] /\ d \in Calls
  BY NoCallIsCall, ZenonT(60) DEF Calls, TypeOK
<1>2. call' = [call EXCEPT ![p] = d]
  BY DEF Begin
<1> QED
  BY <1>1, <1>2 DEF Begin, Goto, TypeOK

\* What a process does changes nobody else's call, and its Burnlist's files
\* only under the lock.
LEMMA ActFrame ==
  ASSUME TypeOK, NEW p \in Procs, Act(p)
  PROVE  /\ \A q \in Procs : q # p => call'[q] = call[q] /\ pc'[q] = pc[q]
         /\ pc[p] \notin Guarded => UNCHANGED <<folder, plan, digest, intent, receipt>>
         /\ usurped => usurped'
<1> DEFINE Others == \A q \in Procs : q # p => call'[q] = call[q] /\ pc'[q] = pc[q]
<1> USE DEF TypeOK
<1>1. CASE Called(p)
  <2>1. \E to, c : Begin(p, to, c)
    BY <1>1 DEF Called, CallMove, CallRepair, CallBurn, CallAssign, CallUnassign, CallCreate,
                CallComplete
  <2> QED
    BY <2>1 DEF Begin, Goto, files, runFiles
<1>2. CASE Locked(p)
  <2>1. Others
    BY <1>2 DEF Locked, Link, Claim, Relink, Unlock, Fail, Goto, Exit, Leave
  <2>2. UNCHANGED <<folder, plan, digest, intent, receipt>> /\ (usurped => usurped')
    BY <1>2 DEF Locked, Link, Claim, Relink, Unlock, Fail, files, runFiles
  <2> QED
    BY <2>1, <2>2
<1>3. CASE Moved(p)
  <2>1. Others
    BY <1>3 DEF Moved, Move, Repair, WriteDigest, Rollback, Goto, Exit, Leave
  <2>2. pc[p] \in Guarded /\ usurped' = usurped
    BY <1>3 DEF Moved, Move, Repair, WriteDigest, Rollback, Goto, Guarded
  <2> QED
    BY <2>1, <2>2
<1>4. CASE Changed(p)
  <2>1. Others
    BY <1>4 DEF Changed, Burn, Assign, Unassign, WritePlan, Change, Goto, Exit, Leave
  <2>2. pc[p] \in Guarded /\ usurped' = usurped
    BY <1>4 DEF Changed, Burn, Assign, Unassign, WritePlan, Change, Goto, Guarded
  <2> QED
    BY <2>1, <2>2
<1>5. CASE Created(p)
  <2>1. Others
    BY <1>5 DEF Created, Reserve, Publish, Abort, Goto, Exit
  <2>2. UNCHANGED <<folder, plan, digest, intent, receipt>> /\ usurped' = usurped
    BY <1>5 DEF Created, Reserve, Publish, Abort, files, runFiles
  <2> QED
    BY <2>1, <2>2
<1>6. CASE Completed(p)
  <2>1. Others
    BY <1>6 DEF Completed, FindReceipt, FindEntry, Prepare, WriteIntent, Recheck, Apply,
                WriteReceipt, ClearIntent, Goto, Exit, Leave
  <2>2. pc[p] \in Guarded /\ usurped' = usurped
    BY <1>6 DEF Completed, FindReceipt, FindEntry, Prepare, WriteIntent, Recheck, Apply,
                WriteReceipt, ClearIntent, Goto, Guarded
  <2> QED
    BY <2>1, <2>2
<1>7. CASE Crash(p)
  BY <1>7 DEF Crash, Exit, files, runFiles
<1> QED
  BY <1>1, <1>2, <1>3, <1>4, <1>5, <1>6, <1>7 DEF Act

-----------------------------------------------------------------------------
\* A Run that exists has an item, and a Run that has converged stays as it is.
LEMMA RunFacts ==
  ASSUME TypeOK, NEW r \in Runs
  PROVE  /\ run[r] \in RunRecords
         /\ run[r].item \in Items => run[r] # NoRun
         /\ run[r].state # "none" =>
              run[r] \in [state : States, item : Items, loop : Loops, cand : Cands \cup {None}]
  BY DEF TypeOK, RunRecords, NoRun

\* What a reservation makes of a Run.
LEMMA Reassigned ==
  ASSUME TypeOK, NEW q \in Procs, Asks(q), Reserve(q)
  PROVE  /\ call[q].run \in Runs /\ call[q].item \in Items
         /\ run'[call[q].run] \in RunRecords
         /\ run'[call[q].run].item = call[q].item
         /\ run'[call[q].run].loop = call[q].loop
         /\ run[call[q].run].state = "none" /\ run'[call[q].run].state = "none"
         /\ \A r \in Runs : r # call[q].run => run'[r] = run[r]
<1> DEFINE R == [state : States, item : Items \cup {None}, loop : Loops \cup {None},
                 cand : Cands \cup {None}]
<1>1. call[q].run \in Runs /\ call[q].item \in Items /\ call[q].loop \in Loops
  BY DEF Reserve, Goto, Asks
<1>2. PICK x, y, i, l :
        /\ x = run[call[q].run] /\ i = call[q].item /\ l = call[q].loop
        /\ y = run'[call[q].run]
  OBVIOUS
<1>3. x \in R /\ x.state = "none"
  BY <1>1, <1>2, RunFacts DEF RunRecords, NoRun, States, Reserve
<1>4. y = [x EXCEPT !.item = i, !.loop = l]
  BY <1>1, <1>2 DEF Reserve, TypeOK
<1> HIDE DEF R
<1>5. y.item = i /\ y.loop = l /\ y.state = x.state
  BY <1>3, <1>4 DEF R
<1>6. y \in [state : States, item : Items, loop : Loops, cand : Cands \cup {None}]
  BY <1>1, <1>2, <1>3, <1>4 DEF R
<1>7. \A r \in Runs : r # call[q].run => run'[r] = run[r]
  BY <1>1 DEF Reserve, TypeOK
<1> QED
  BY <1>1, <1>2, <1>3, <1>5, <1>6, <1>7 DEF RunRecords

LEMMA ConvergedKept ==
  ASSUME ItemIInv, [Next]_vars, NEW r \in Runs, run[r].state = "converged"
  PROVE  run'[r] = run[r]
<1> USE DEF ItemIInv
<1>1. run \in [Runs -> RunRecords]
  BY DEF TypeOK
<1>2. ASSUME NEW p \in Procs, Act(p) PROVE run'[r] = run[r]
  <2>1. CASE Reserve(p)
    <3>1. run[call[p].run].state = "none"
      BY <2>1 DEF Reserve
    <3> QED
      BY <1>1, <2>1, <3>1 DEF Reserve
  <2>2. CASE Publish(p)
    <3>1. run[call[p].run].state = "none"
      BY <2>2 DEF Publish, Publishing
    <3> QED
      BY <1>1, <2>2, <3>1 DEF Publish
  <2>3. CASE Called(p)
    BY <2>3 DEF Called, CallMove, CallRepair, CallBurn, CallAssign, CallUnassign, CallCreate,
                CallComplete, Begin, runFiles
  <2>4. CASE Locked(p) \/ Moved(p) \/ Changed(p) \/ Abort(p) \/ Crash(p)
    BY <2>4 DEF Locked, Link, Claim, Relink, Unlock, Fail, Moved, Move, Repair, WriteDigest,
                Rollback, Changed, Burn, Assign, Unassign, WritePlan, Change, Abort, Crash,
                runFiles
  <2>5. CASE Completed(p)
    BY <2>5 DEF Completed, FindReceipt, FindEntry, Prepare, WriteIntent, Recheck, Apply,
                WriteReceipt, ClearIntent, runFiles
  <2> QED
    BY <1>2, <2>1, <2>2, <2>3, <2>4, <2>5 DEF Act, Created
<1>3. ASSUME NEW q \in Runs, End(q) \/ Prune(q) PROVE run'[r] = run[r]
  BY <1>1, <1>3 DEF End, Prune
<1>4. CASE Edit \/ UNCHANGED vars
  BY <1>4 DEF Edit, vars, runFiles
<1> QED
  BY <1>2, <1>3, <1>4 DEF Next, Act

-----------------------------------------------------------------------------
LEMMA CalledFacts ==
  ASSUME ItemIInv, NEW p \in Procs, Called(p)
  PROVE  /\ pc' \in [Procs -> Labels] /\ call' \in [Procs -> Calls]
         /\ pc'[p] \in {"link", "reserve"}
         /\ UNCHANGED <<files, lock, usurped, binding, runFiles, work, crashes>>
         /\ Asks(p)'
<1> USE DEF ItemIInv
<1> DEFINE Goal ==
      /\ pc' \in [Procs -> Labels] /\ call' \in [Procs -> Calls]
      /\ pc'[p] \in {"link", "reserve"}
      /\ UNCHANGED <<files, lock, usurped, binding, runFiles, work, crashes>>
      /\ Asks(p)'
<1>1. ASSUME NEW c \in Calls, NEW to \in {"link", "reserve"}, Begin(p, to, c),
             to = "reserve" => c.run \in Runs /\ c.item \in Items /\ c.loop \in Loops,
             c.op = "complete" => /\ c.run \in Runs /\ c.item \in Items
                                  /\ run[c.run].state = "converged"
                                  /\ run[c.run].item = c.item,
             c.op = "assign" => c.loop \in Loops,
             c.op \in {"burn", "assign", "unassign", "complete"} => folder = "inprogress"
      PROVE  Goal
  <2>1. to \in Labels
    BY DEF Labels
  <2>2. /\ pc' = [pc EXCEPT ![p] = to] /\ pc'[p] = to
        /\ call' \in [Procs -> Calls] /\ call'[p] = [c EXCEPT !.at = folder]
        /\ UNCHANGED <<files, lock, usurped, binding, runFiles, work, crashes>>
    BY <1>1, <2>1, BeginFacts
  <2>3. pc' \in [Procs -> Labels]
    BY <2>1, <2>2 DEF TypeOK
  <2>4. /\ call'[p].run = c.run /\ call'[p].item = c.item /\ call'[p].loop = c.loop
        /\ call'[p].op = c.op /\ call'[p].at = folder
    BY <2>2 DEF Calls
  <2>5. run' = run
    BY <2>2 DEF runFiles
  <2>6. Asks(p)'
    BY <1>1, <2>2, <2>4, <2>5 DEF Asks, Completing
  <2> QED
    BY <2>2, <2>3, <2>6
<1>2. plan \in Plans /\ BlankPlan \in Plans
  BY BlankPlanIsPlan DEF TypeOK
<1> USE NoCallIsCall
<1>3. CASE CallMove(p)
  <2>1. PICK op \in Moves : Begin(p, "link", [NoCall EXCEPT !.op = op])
    BY <1>3 DEF CallMove
  <2>2. [NoCall EXCEPT !.op = op] \in Calls /\ [NoCall EXCEPT !.op = op].op = op
    BY DEF Calls, Ops
  <2>3. op \notin {"burn", "assign", "unassign", "complete"}
    BY DEF Moves
  <2> QED
    BY <1>1, <2>1, <2>2, <2>3
<1>4. CASE CallRepair(p)
  <2> DEFINE c == [NoCall EXCEPT !.op = "repair"]
  <2>1. c \in Calls /\ c.op = "repair"
    BY DEF Calls, Ops
  <2> QED
    BY <1>1, <1>4, <2>1 DEF CallRepair
<1>5. ASSUME NEW i \in Items, CallBurn(p, i) PROVE Goal
  <2> DEFINE c == [NoCall EXCEPT !.op = "burn", !.item = i]
  <2>1. c \in Calls /\ c.op = "burn"
    BY DEF Calls, Ops
  <2> QED
    BY <1>1, <1>5, <2>1 DEF CallBurn
<1>6. ASSUME NEW i \in Items, NEW l \in Loops, CallAssign(p, i, l) PROVE Goal
  <2> DEFINE c == [NoCall EXCEPT !.op = "assign", !.item = i, !.loop = l, !.plan = plan]
  <2>1. c \in Calls /\ c.op = "assign" /\ c.loop = l
    BY <1>2 DEF Calls, Ops
  <2> QED
    BY <1>1, <1>6, <2>1 DEF CallAssign
<1>7. ASSUME NEW i \in Items, CallUnassign(p, i) PROVE Goal
  <2> DEFINE c == [NoCall EXCEPT !.op = "unassign", !.item = i, !.plan = plan]
  <2>1. c \in Calls /\ c.op = "unassign"
    BY <1>2 DEF Calls, Ops
  <2> QED
    BY <1>1, <1>7, <2>1 DEF CallUnassign
<1>8. ASSUME NEW i \in Items, NEW r \in Runs, CallCreate(p, i, r) PROVE Goal
  <2>1. plan.meta[i] \in Loops
    BY <1>2, <1>8 DEF CallCreate, Bindable, Plans
  <2>2. PICK b \in BOOLEAN :
          Begin(p, "reserve", [NoCall EXCEPT !.op = "create", !.item = i, !.run = r,
                                             !.loop = plan.meta[i], !.supersede = b])
    BY <1>8 DEF CallCreate
  <2> DEFINE c == [NoCall EXCEPT !.op = "create", !.item = i, !.run = r,
                                 !.loop = plan.meta[i], !.supersede = b]
  <2>3. c \in Calls /\ c.op = "create" /\ c.run = r /\ c.item = i /\ c.loop = plan.meta[i]
    BY <2>1 DEF Calls, Ops
  <2> QED
    BY <1>1, <2>1, <2>2, <2>3
<1>9. ASSUME NEW r \in Runs, CallComplete(p, r) PROVE Goal
  <2> DEFINE c == [NoCall EXCEPT !.op = "complete", !.run = r, !.item = run[r].item,
                                 !.cand = work]
  <2>1. run[r].state = "converged" /\ run[r].item \in Items /\ work \in Cands
    BY <1>9, RunFacts DEF CallComplete, TypeOK
  <2>2. c \in Calls /\ c.op = "complete" /\ c.run = r /\ c.item = run[r].item
    BY <2>1 DEF Calls, Ops
  <2> QED
    BY <1>1, <1>9, <2>1, <2>2 DEF CallComplete
<1> QED
  BY <1>3, <1>4, <1>5, <1>6, <1>7, <1>8, <1>9 DEF Called

\* A process that has left the guarded function, or ended.
LEMMA LeaveFacts ==
  ASSUME TypeOK, NEW p \in Procs, NEW path \in Folders, Leave(p, path)
  PROVE  /\ pc' \in [Procs -> Labels] /\ call' \in [Procs -> Calls]
         /\ pc'[p] = "unlock" /\ call'[p].op = "none"
  BY NoCallIsCall DEF Leave, TypeOK, Labels, Guarded, Calls, NoCall

LEMMA ExitFacts ==
  ASSUME TypeOK, NEW p \in Procs, Exit(p)
  PROVE  /\ pc' \in [Procs -> Labels] /\ call' \in [Procs -> Calls]
         /\ pc'[p] = "idle" /\ call'[p] = NoCall
  BY NoCallIsCall DEF Exit, TypeOK, Labels

LEMMA GotoFacts ==
  ASSUME TypeOK, NEW p \in Procs, NEW from, NEW to \in Labels, Goto(p, from, to)
  PROVE  pc[p] = from /\ pc' \in [Procs -> Labels] /\ pc'[p] = to
  BY DEF Goto, TypeOK

LEMMA LabelFacts == Guarded \subseteq Labels /\ {"link", "claim", "relink", "publish"} \subseteq Labels
  BY DEF Guarded, Labels

\* The plans that are worked out are plans.
LEMMA BurnedIsPlan ==
  ASSUME TypeOK, NEW i \in Items, NEW e \in Runs \cup {Direct}
  PROVE  /\ Burned(i, e) \in Plans
         /\ Burned(i, e).ledger[i] = e
         /\ Burned(i, e).meta[i] = None
         /\ \A j \in Items : j # i => /\ Burned(i, e).ledger[j] = plan.ledger[j]
                                    /\ Burned(i, e).meta[j] = plan.meta[j]
  BY DEF Burned, TypeOK, Plans

LEMMA ChangeFacts ==
  ASSUME TypeOK, NEW p \in Procs, NEW next \in Plans, Change(p, next)
  PROVE  /\ pc[p] = "inside" /\ pc'[p] = "write" /\ pc' \in [Procs -> Labels]
         /\ call' \in [Procs -> Calls]
         /\ call'[p].plan = next /\ call'[p].op = "none" /\ call'[p].at = folder
         /\ folder = call[p].at
         /\ UNCHANGED <<files, lock, usurped, binding, runFiles, work, crashes>>
<1>1. Goto(p, "inside", "write") /\ "write" \in Labels /\ There(p)
  BY DEF Change, Labels, Guarded
<1>2. [NoCall EXCEPT !.at = folder, !.plan = next] \in Calls
  BY NoCallIsCall DEF Calls, TypeOK
<1> QED
  BY <1>1, <1>2, GotoFacts, NoCallIsCall DEF Change, TypeOK, There, Calls, NoCall

\* The plan of a burn, an assignment or an unassignment.
LEMMA ChangedFacts ==
  ASSUME ItemIInv, NEW p \in Procs, Changed(p), ~WritePlan(p)
  PROVE  \E next \in Plans :
           /\ Change(p, next)
           /\ call[p].op \in {"burn", "assign", "unassign"}
           /\ Continues(next)
<1> USE DEF ItemIInv
<1>1. plan \in Plans /\ call[p] \in Calls /\ Asks(p)
  BY DEF TypeOK, Asked
<1>2. CASE Burn(p)
  <2> DEFINE i == call[p].item
  <2>1. Active(i) /\ plan.meta[i] = None /\ Change(p, Burned(i, Direct)) /\ call[p].op = "burn"
    BY <1>2 DEF Burn
  <2>2. CASE i \in Items
    <3>1. /\ Burned(i, Direct) \in Plans /\ Burned(i, Direct).ledger[i] = Direct
          /\ \A j \in Items : j # i => Burned(i, Direct).ledger[j] = plan.ledger[j]
      BY <2>2, BurnedIsPlan
    <3>2. Continues(Burned(i, Direct))
      BY <2>1, <3>1 DEF Continues, Active
    <3> QED
      BY <2>1, <3>1, <3>2
  <2>3. CASE i \notin Items
    <3>1. Burned(i, Direct) = plan
      BY <1>1, <2>3 DEF Burned, Plans
    <3>2. Continues(plan)
      BY DEF Continues
    <3> QED
      BY <1>1, <2>1, <3>1, <3>2
  <2> QED
    BY <2>2, <2>3
<1>3. CASE Assign(p)
  <2> DEFINE next == [plan EXCEPT !.meta[call[p].item] = call[p].loop]
  <2>1. next \in Plans /\ next.ledger = plan.ledger
    BY <1>1, <1>3 DEF Assign, Asks, Plans
  <2>2. Continues(next)
    BY <2>1 DEF Continues
  <2> QED
    BY <1>3, <2>1, <2>2 DEF Assign
<1>4. CASE Unassign(p)
  <2> DEFINE next == [plan EXCEPT !.meta[call[p].item] = None]
  <2>1. next \in Plans /\ next.ledger = plan.ledger
    BY <1>1 DEF Plans
  <2>2. Continues(next)
    BY <2>1 DEF Continues
  <2> QED
    BY <1>4, <2>1, <2>2 DEF Unassign
<1> QED
  BY <1>2, <1>3, <1>4 DEF Changed

-----------------------------------------------------------------------------
\* The kinds of the variables survive every step.
LEMMA ItemTypeStep == ItemIInv /\ [Next]_vars => TypeOK'
<1> SUFFICES ASSUME ItemIInv, [Next]_vars PROVE TypeOK'
  OBVIOUS
<1>0. TypeOK /\ Asked
  BY DEF ItemIInv
<1> USE LabelFacts DEF files, runFiles
<1>1. ASSUME NEW p \in Procs, Called(p) PROVE TypeOK'
  BY <1>0, <1>1, CalledFacts DEF TypeOK
<1>2. ASSUME NEW p \in Procs, Locked(p) PROVE TypeOK'
  <2>1. CASE Link(p)
    <3>1. pc' \in [Procs -> Labels] /\ call' \in [Procs -> Calls]
      BY <1>0, <2>1, GotoFacts, ExitFacts DEF Link, TypeOK, Guarded
    <3> QED
      BY <1>0, <2>1, <3>1 DEF Link, TypeOK
  <2>2. CASE Claim(p)
    <3>1. pc' \in [Procs -> Labels] /\ call' \in [Procs -> Calls]
      BY <1>0, <2>2, GotoFacts, ExitFacts DEF Claim, TypeOK
    <3> QED
      BY <1>0, <2>2, <3>1 DEF Claim, TypeOK
  <2>3. CASE Relink(p)
    <3>1. pc' \in [Procs -> Labels] /\ call' \in [Procs -> Calls]
      BY <1>0, <2>3, GotoFacts, ExitFacts DEF Relink, TypeOK, Guarded
    <3> QED
      BY <1>0, <2>3, <3>1 DEF Relink, TypeOK
  <2>4. CASE Unlock(p)
    BY <1>0, <2>4, ExitFacts DEF Unlock, TypeOK
  <2>5. CASE Fail(p)
    <3>1. call[p].at \in Folders
      BY <1>0 DEF TypeOK, Calls
    <3> QED
      BY <1>0, <2>5, <3>1, LeaveFacts DEF Fail, TypeOK
  <2> QED
    BY <1>2, <2>1, <2>2, <2>3, <2>4, <2>5 DEF Locked
<1>3. ASSUME NEW p \in Procs, Moved(p) PROVE TypeOK'
  <2>0. call[p].at \in Folders /\ "completed" \in Folders /\ "inprogress" \in Folders
    BY <1>0 DEF TypeOK, Calls, Folders
  <2>1. CASE Move(p)
    <3>1. folder' \in Folders
      BY <2>1 DEF Move, To, Moves, Folders
    <3>2. pc' \in [Procs -> Labels] /\ call' \in [Procs -> Calls]
      BY <1>0, <2>1, <3>1, GotoFacts, LeaveFacts DEF Move, TypeOK, Guarded
    <3> QED
      BY <1>0, <2>1, <3>1, <3>2 DEF Move, TypeOK
  <2>2. CASE Repair(p)
    BY <1>0, <2>2, GotoFacts DEF Repair, TypeOK, Guarded
  <2>3. CASE WriteDigest(p)
    BY <1>0, <2>0, <2>3, LeaveFacts DEF WriteDigest, TypeOK
  <2>4. CASE Rollback(p)
    BY <1>0, <2>0, <2>4, LeaveFacts DEF Rollback, TypeOK
  <2> QED
    BY <1>3, <2>1, <2>2, <2>3, <2>4 DEF Moved
<1>4. ASSUME NEW p \in Procs, Changed(p) PROVE TypeOK'
  <2>1. CASE WritePlan(p)
    <3>1. call[p].plan \in Plans /\ folder \in Folders
      BY <1>0 DEF TypeOK, Calls
    <3> QED
      BY <1>0, <2>1, <3>1, LeaveFacts DEF WritePlan, TypeOK
  <2>2. CASE ~WritePlan(p)
    BY <1>0, <1>4, <2>2, ChangedFacts, ChangeFacts DEF TypeOK
  <2> QED
    BY <2>1, <2>2
<1>5. ASSUME NEW p \in Procs, Created(p) PROVE TypeOK'
  <2>1. CASE Reserve(p)
    <3>1. call[p].run \in Runs /\ call[p].item \in Items /\ call[p].loop \in Loops
      BY <1>0, <2>1 DEF Reserve, Goto, Asked, Asks
    <3>2. run'[call[p].run] \in RunRecords
      BY <1>0, <2>1, Reassigned DEF Asked
    <3>4. run' \in [Runs -> RunRecords]
      BY <1>0, <2>1, <3>1, <3>2 DEF Reserve, TypeOK
    <3>5. current' \in [Items -> Runs \cup {None}]
      BY <1>0, <2>1, <3>1 DEF Reserve, TypeOK
    <3>6. pc' \in [Procs -> Labels] /\ binding' = p /\ UNCHANGED <<files, lock, usurped, intent, receipt, work, call, crashes>>
      BY <1>0, <2>1, GotoFacts DEF Reserve
    <3> QED
      BY <1>0, <3>4, <3>5, <3>6 DEF TypeOK
  <2>2. CASE Publish(p)
    <3> DEFINE r == call[p].run
    <3>1. r \in Runs /\ call[p].item \in Items /\ run[r].item = call[p].item
      BY <1>0, <2>2 DEF Publish, Asked, Asks, ItemIInv, Publishing
    <3>2. run[r] \in RunRecords
      BY <1>0, <3>1 DEF TypeOK
    <3>3. [run[r] EXCEPT !.state = "live"] \in RunRecords
      BY <3>1, <3>2 DEF RunRecords, NoRun, States
    <3>4. run' \in [Runs -> RunRecords]
      BY <1>0, <2>2, <3>1, <3>3 DEF Publish, TypeOK
    <3> QED
      BY <1>0, <2>2, <3>4, ExitFacts DEF Publish, TypeOK
  <2>3. CASE Abort(p)
    BY <1>0, <2>3, ExitFacts DEF Abort, TypeOK
  <2> QED
    BY <1>5, <2>1, <2>2, <2>3 DEF Created
<1>6. ASSUME NEW p \in Procs, Completed(p) PROVE TypeOK'
  <2>0. call[p] \in Calls /\ call[p].at \in Folders /\ call[p].plan \in Plans
    BY <1>0 DEF TypeOK, Calls
  <2>1. CASE FindReceipt(p)
    BY <1>0, <2>0, <2>1, GotoFacts, LeaveFacts DEF FindReceipt, TypeOK, Guarded
  <2>2. CASE FindEntry(p)
    <3>1. call[p].run \in Runs /\ intent[call[p].run] \in Plans
      BY <1>0, <2>2 DEF FindEntry, TypeOK, Asked, Asks
    <3>2. call' \in [Procs -> Calls]
      BY <1>0, <2>0, <2>2, <3>1 DEF FindEntry, TypeOK, Calls
    <3> QED
      BY <1>0, <2>2, <3>2, GotoFacts DEF FindEntry, TypeOK, Guarded
  <2>3. CASE Prepare(p)
    <3>1. call[p].run \in Runs /\ call[p].item \in Items
      BY <1>0, <2>3 DEF Prepare, Asked, Asks
    <3>2. Burned(call[p].item, call[p].run) \in Plans
      BY <1>0, <3>1, BurnedIsPlan
    <3>3. call' \in [Procs -> Calls]
      BY <1>0, <2>0, <2>3, <3>2 DEF Prepare, TypeOK, Calls
    <3> QED
      BY <1>0, <2>3, <3>3, GotoFacts DEF Prepare, TypeOK, Guarded
  <2>4. CASE WriteIntent(p)
    BY <1>0, <2>0, <2>4, GotoFacts DEF WriteIntent, TypeOK, Guarded
  <2>5. CASE Recheck(p)
    BY <1>0, <2>5, GotoFacts DEF Recheck, TypeOK, Guarded
  <2>6. CASE Apply(p)
    BY <1>0, <2>0, <2>6, GotoFacts DEF Apply, TypeOK, Guarded
  <2>7. CASE WriteReceipt(p)
    BY <1>0, <2>0, <2>7, GotoFacts DEF WriteReceipt, TypeOK, Guarded
  <2>8. CASE ClearIntent(p)
    BY <1>0, <2>0, <2>8, LeaveFacts DEF ClearIntent, TypeOK
  <2> QED
    BY <1>6, <2>1, <2>2, <2>3, <2>4, <2>5, <2>6, <2>7, <2>8 DEF Completed
<1>7. ASSUME NEW p \in Procs, Crash(p) PROVE TypeOK'
  <2>1. crashes' \in 0..MaxCrashes
    BY <1>0, <1>7 DEF Crash, TypeOK
  <2> QED
    BY <1>0, <1>7, <2>1, ExitFacts DEF Crash, TypeOK
<1>8. ASSUME NEW r \in Runs, End(r) \/ Prune(r) PROVE TypeOK'
  <2>1. run[r] \in [state : States, item : Items, loop : Loops, cand : Cands \cup {None}]
    BY <1>0, <1>8, RunFacts DEF End, Prune
  <2>2. run'[r] \in [state : States, item : Items, loop : Loops, cand : Cands \cup {None}]
    BY <1>0, <1>8, <2>1 DEF End, Prune, TypeOK, States
  <2>3. \A q \in Runs : q # r => run'[q] = run[q]
    BY <1>0, <1>8 DEF End, Prune, TypeOK
  <2>4. run' \in [Runs -> RunRecords]
    <3>1. DOMAIN run' = Runs /\ run' = [q \in Runs |-> run'[q]]
      BY <1>0, <1>8 DEF End, Prune, TypeOK
    <3> QED
      BY <1>0, <2>2, <2>3, <3>1 DEF TypeOK, RunRecords
  <2> QED
    BY <1>0, <1>8, <2>4 DEF End, Prune, TypeOK
<1>9. CASE Edit \/ UNCHANGED vars
  BY <1>0, <1>9 DEF Edit, vars, TypeOK
<1> QED
  BY <1>1, <1>2, <1>3, <1>4, <1>5, <1>6, <1>7, <1>8, <1>9 DEF Next

-----------------------------------------------------------------------------
\* A process goes on with the call it has.
LEMMA AskedOn ==
  ASSUME ItemIInv, [Next]_vars, NEW p \in Procs,
         call'[p].op = call[p].op, call'[p].run = call[p].run, call'[p].item = call[p].item,
         call'[p].loop = call[p].loop, call'[p].at = call[p].at,
         pc'[p] \notin {"idle", "write", "reserve"} \/ (pc'[p] = pc[p] /\ call'[p] = call[p]),
         pc'[p] = "publish" => pc[p] \in {"reserve", "publish"},
         pc'[p] \in {"intent", "recheck", "plan", "receipt", "clear"} => Completing(p)
  PROVE  Asks(p)'
<1>1. Asks(p)
  BY DEF ItemIInv, Asked
<1>2. Completing(p) => /\ call[p].run \in Runs /\ call[p].item \in Items
                       /\ run'[call[p].run].state = "converged"
                       /\ run'[call[p].run].item = call[p].item
  BY <1>1, ConvergedKept DEF Asks
<1> QED
  BY <1>1, <1>2 DEF Asks, Completing

LEMMA AskedStep == ItemIInv /\ [Next]_vars => Asked'
<1> SUFFICES ASSUME ItemIInv, [Next]_vars, NEW p \in Procs PROVE Asks(p)'
  BY DEF Asked
<1>0. TypeOK /\ Asks(p)
  BY DEF ItemIInv, Asked
<1>1. ASSUME pc'[p] = pc[p], call'[p] = call[p] PROVE Asks(p)'
  BY <1>0, <1>1, AskedOn DEF Asks
<1>2. ASSUME Exit(p) PROVE Asks(p)'
  <2>1. pc'[p] = "idle" /\ call'[p] = NoCall /\ NoCall.op = "none"
    BY <1>0, <1>2, ExitFacts DEF NoCall
  <2> QED
    BY <2>1 DEF Asks, Completing
<1>3. ASSUME NEW path \in Folders, Leave(p, path) PROVE Asks(p)'
  BY <1>0, <1>3, LeaveFacts DEF Asks, Completing
<1>4. ASSUME NEW from, NEW to \in Labels \ {"idle", "write", "reserve"}, Goto(p, from, to),
             call' = call,
             to = "publish" => from = "reserve",
             to \in {"intent", "recheck", "plan", "receipt", "clear"} => Completing(p)
      PROVE  Asks(p)'
  BY <1>0, <1>4, GotoFacts, AskedOn
<1>5. folder \in Folders /\ call[p].at \in Folders /\ "completed" \in Folders
  BY <1>0 DEF TypeOK, Calls, Folders
<1> USE LabelFacts
<1>6. CASE Called(p)
  BY <1>6, CalledFacts
<1>7. CASE Locked(p)
  BY <1>2, <1>3, <1>4, <1>5, <1>7 DEF Locked, Link, Claim, Relink, Unlock, Fail, Guarded
<1>8. CASE Moved(p)
  <2>1. folder' \in Folders
    BY ItemTypeStep DEF TypeOK
  <2> QED
    BY <1>3, <1>4, <1>5, <1>8, <2>1 DEF Moved, Move, Repair, WriteDigest, Rollback, Guarded
<1>9. CASE Changed(p)
  <2>1. CASE WritePlan(p)
    BY <1>3, <1>5, <2>1 DEF WritePlan
  <2>2. CASE ~WritePlan(p)
    <3>1. PICK next \in Plans : Change(p, next) /\ call[p].op \in {"burn", "assign", "unassign"}
      BY <1>9, <2>2, ChangedFacts
    <3>2. call'[p].op = "none" /\ call'[p].at = "inprogress" /\ pc'[p] = "write"
      BY <1>0, <3>1, ChangeFacts DEF Asks
    <3> QED
      BY <3>2 DEF Asks, Completing
  <2> QED
    BY <2>1, <2>2
<1>10. CASE Created(p)
  BY <1>2, <1>4, <1>10 DEF Created, Reserve, Publish, Abort
<1>11. CASE Completed(p)
  <2>1. CASE FindReceipt(p)
    BY <1>3, <1>4, <1>5, <2>1 DEF FindReceipt, Guarded
  <2>2. CASE FindEntry(p) \/ Prepare(p)
    <3>1. PICK next \in Plans : call' = [call EXCEPT ![p].plan = next]
      <4>1. call[p].run \in Runs /\ call[p].item \in Items
        BY <1>0, <2>2 DEF FindEntry, Prepare, Asks
      <4>2. Burned(call[p].item, call[p].run) \in Plans
        BY <1>0, <4>1, BurnedIsPlan
      <4>3. intent[call[p].run] \in Plans \cup {None}
        BY <1>0, <4>1 DEF TypeOK
      <4> QED
        BY <2>2, <4>2, <4>3 DEF FindEntry, Prepare
    <3>2. call[p] \in Calls /\ call'[p] = [call[p] EXCEPT !.plan = next]
      BY <1>0, <3>1 DEF TypeOK
    <3>3. pc'[p] \in {"receipt", "intent", "recheck"}
      BY <1>0, <2>2 DEF FindEntry, Prepare, Goto, TypeOK
    <3>4. Completing(p)
      BY <2>2 DEF FindEntry, Prepare
    <3> QED
      BY <3>2, <3>3, <3>4, AskedOn DEF Calls
  <2>3. CASE WriteIntent(p) \/ Recheck(p) \/ Apply(p) \/ WriteReceipt(p)
    <3>1. Completing(p)
      BY <1>0, <2>3 DEF WriteIntent, Recheck, Apply, WriteReceipt, Goto, Asks
    <3> QED
      BY <1>4, <2>3, <3>1 DEF WriteIntent, Recheck, Apply, WriteReceipt, Guarded
  <2>4. CASE ClearIntent(p)
    BY <1>3, <1>5, <2>4 DEF ClearIntent
  <2> QED
    BY <1>11, <2>1, <2>2, <2>3, <2>4 DEF Completed
<1>12. CASE Crash(p)
  BY <1>2, <1>12 DEF Crash
<1>13. ASSUME NEW q \in Procs, q # p, Act(q) PROVE Asks(p)'
  BY <1>0, <1>1, <1>13, ActFrame
<1>14. CASE Edit \/ UNCHANGED vars \/ \E r \in Runs : End(r) \/ Prune(r)
  BY <1>1, <1>14 DEF Edit, vars, End, Prune
<1> QED
  BY <1>6, <1>7, <1>8, <1>9, <1>10, <1>11, <1>12, <1>13, <1>14 DEF Next, Act

-----------------------------------------------------------------------------
\* Whoever works under the Burnlist's lock has it, as long as no live process
\* has lost it.
LEMMA HeldStep == ItemIInv /\ [Next]_vars => Held'
<1> SUFFICES ASSUME ItemIInv, [Next]_vars, ~usurped', NEW p \in Procs, pc'[p] \in Guarded
             PROVE  lock' = p
  BY DEF Held
<1>0. TypeOK /\ Held
  BY DEF ItemIInv
<1>1. ASSUME NEW q \in Procs, Act(q) PROVE lock' = p
  <2>0. ~usurped
    BY <1>0, <1>1, ActFrame
  <2>1. CASE Link(q) \/ Relink(q)
    <3>1. \/ lock = None /\ lock' = q
          \/ lock' = lock /\ pc'[q] \notin Guarded
      BY <1>0, <2>1 DEF Link, Relink, Goto, Exit, Guarded, TypeOK
    <3>2. p # q => lock = p
      BY <1>0, <1>1, <2>0, ActFrame DEF Held
    <3> QED
      BY <3>1, <3>2
  <2>2. CASE Claim(q)
    <3>1. p # q /\ pc[p] \in Guarded
      BY <1>0, <2>2 DEF Claim, Goto, Exit, Guarded, TypeOK
    <3>2. lock = p
      BY <1>0, <2>0, <3>1 DEF Held
    <3> QED
      BY <2>2, <3>2 DEF Claim
  <2>3. CASE Unlock(q) \/ Crash(q)
    <3>1. p # q /\ pc[p] \in Guarded
      BY <1>0, <2>3 DEF Unlock, Crash, Exit, Guarded, TypeOK
    <3>2. lock = p
      BY <1>0, <2>0, <3>1 DEF Held
    <3> QED
      BY <2>3, <3>1, <3>2 DEF Unlock, Crash
  <2>4. ASSUME UNCHANGED lock, pc'[q] \in Guarded => pc[q] \in Guarded PROVE lock' = p
    BY <1>0, <1>1, <2>0, <2>4, ActFrame DEF Held
  <2>5. CASE Called(q)
    BY <2>4, <2>5, CalledFacts DEF Guarded
  <2>6. CASE Moved(q) \/ Changed(q) \/ Completed(q) \/ Fail(q)
    <3>1. pc[q] \in Guarded
      BY <2>6 DEF Moved, Move, Repair, WriteDigest, Rollback, Changed, Burn, Assign, Unassign,
                  WritePlan, Change, Completed, FindReceipt, FindEntry, Prepare, WriteIntent,
                  Recheck, Apply, WriteReceipt, ClearIntent, Fail, Goto, Guarded
    <3>2. UNCHANGED lock
      BY <2>6 DEF Moved, Move, Repair, WriteDigest, Rollback, Changed, Burn, Assign, Unassign,
                  WritePlan, Change, Completed, FindReceipt, FindEntry, Prepare, WriteIntent,
                  Recheck, Apply, WriteReceipt, ClearIntent, Fail
    <3> QED
      BY <2>4, <3>1, <3>2
  <2>7. CASE Created(q)
    <3>1. pc'[q] \notin Guarded /\ UNCHANGED lock
      BY <1>0, <2>7 DEF Created, Reserve, Publish, Abort, Goto, Exit, Guarded, TypeOK
    <3> QED
      BY <2>4, <3>1
  <2> QED
    BY <1>1, <2>1, <2>2, <2>3, <2>5, <2>6, <2>7 DEF Act, Locked
<1>2. CASE Edit \/ UNCHANGED vars \/ \E r \in Runs : End(r) \/ Prune(r)
  <2>1. UNCHANGED <<pc, lock, usurped>>
    BY <1>2 DEF Edit, vars, End, Prune
  <2> QED
    BY <1>0, <2>1 DEF Held
<1> QED
  BY <1>1, <1>2 DEF Next, Act

\* While a process works under a lock nobody has lost, nobody else does.
LEMMA Alone ==
  ASSUME ItemIInv, ~usurped, NEW p \in Procs, NEW q \in Procs,
         pc[p] \in Guarded, pc[q] \in Guarded
  PROVE  p = q
  BY DEF ItemIInv, Held

-----------------------------------------------------------------------------
\* current-runs.json and the Runs change only as their lock says.
LEMMA RunFrame ==
  ASSUME ItemIInv, NEW q \in Procs, Act(q), ~Reserve(q), ~Publish(q)
  PROVE  /\ UNCHANGED <<current, run>>
         /\ pc'[q] # "publish"
         /\ binding' = binding \/ (binding = q /\ binding' = None)
<1>0. TypeOK
  BY DEF ItemIInv
<1>1. CASE Called(q)
  BY <1>1, CalledFacts DEF runFiles
<1>2. CASE Locked(q) \/ Moved(q)
  BY <1>0, <1>2 DEF Locked, Link, Claim, Relink, Unlock, Fail, Moved, Move, Repair, WriteDigest,
                    Rollback, Goto, Exit, Leave, TypeOK, runFiles
<1>3. CASE Changed(q) \/ Abort(q) \/ Crash(q)
  BY <1>0, <1>3 DEF Changed, Burn, Assign, Unassign, WritePlan, Change, Abort, Crash,
                    Goto, Exit, Leave, TypeOK, runFiles
<1>4. CASE Completed(q)
  BY <1>0, <1>4 DEF Completed, FindReceipt, FindEntry, Prepare, WriteIntent, Recheck, Apply,
                    WriteReceipt, ClearIntent, Goto, Exit, Leave, TypeOK, runFiles
<1> QED
  BY <1>1, <1>2, <1>3, <1>4 DEF Act, Created

\* A new Run takes the item over, and no other Run changes.
LEMMA ReserveFacts ==
  ASSUME ItemIInv, NEW q \in Procs, Reserve(q)
  PROVE  /\ binding = None /\ binding' = q
         /\ call[q].run \in Runs /\ call[q].item \in Items
         /\ call' = call
         /\ pc'[q] = "publish"
         /\ current'[call[q].item] = call[q].run
         /\ \A i \in Items : i # call[q].item => current'[i] = current[i]
         /\ run[call[q].run].state = "none" /\ run'[call[q].run].state = "none"
         /\ run'[call[q].run].item = call[q].item
         /\ run'[call[q].run].loop = call[q].loop
         /\ \A r \in Runs : r # call[q].run => run'[r] = run[r]
<1>0. TypeOK /\ Asks(q)
  BY DEF ItemIInv, Asked
<1>1. pc'[q] = "publish"
  BY <1>0 DEF Reserve, Goto, TypeOK
<1>2. call[q].run \in Runs /\ call[q].item \in Items
  BY <1>0, Reassigned
<1>3. current' = [current EXCEPT ![call[q].item] = call[q].run]
  BY DEF Reserve
<1>4. /\ current'[call[q].item] = call[q].run
      /\ \A i \in Items : i # call[q].item => current'[i] = current[i]
  BY <1>0, <1>2, <1>3 DEF TypeOK
<1>5. binding = None /\ binding' = q /\ call' = call
  BY DEF Reserve
<1> QED
  BY <1>0, <1>1, <1>4, <1>5, Reassigned

LEMMA PublishFacts ==
  ASSUME ItemIInv, NEW q \in Procs, Publish(q)
  PROVE  /\ binding = q /\ binding' = None
         /\ call[q].run \in Runs /\ call[q].item \in Items
         /\ current' = current /\ current[call[q].item] = call[q].run
         /\ run[call[q].run].state = "none"
         /\ run'[call[q].run].item = call[q].item
         /\ \A r \in Runs : r # call[q].run => run'[r] = run[r]
         /\ pc'[q] = "idle"
<1>0. TypeOK /\ Asks(q)
  BY DEF ItemIInv, Asked
<1>1. pc[q] = "publish" /\ call[q].run \in Runs /\ call[q].item \in Items
  BY <1>0 DEF Publish, Asks
<1>2. /\ binding = q /\ current[call[q].item] = call[q].run
      /\ run[call[q].run].state = "none" /\ run[call[q].run].item = call[q].item
  BY <1>1 DEF ItemIInv, Publishing
<1>3. run[call[q].run] \in [state : States, item : Items, loop : Loops, cand : Cands \cup {None}]
  BY <1>0, <1>1, <1>2, RunFacts DEF RunRecords, NoRun
<1>4. run'[call[q].run] = [run[call[q].run] EXCEPT !.state = "live"]
      /\ \A r \in Runs : r # call[q].run => run'[r] = run[r]
  BY <1>0, <1>1 DEF Publish, TypeOK
<1>5. run'[call[q].run].item = call[q].item
  BY <1>2, <1>3, <1>4
<1>6. pc'[q] = "idle"
  BY <1>0, ExitFacts DEF Publish
<1> QED
  BY <1>1, <1>2, <1>4, <1>5, <1>6 DEF Publish

\* A Run's end and its removal.
LEMMA EndFacts ==
  ASSUME ItemIInv, NEW r \in Runs, End(r) \/ Prune(r)
  PROVE  /\ UNCHANGED <<files, lock, usurped, binding, current, intent, receipt, pc, call, crashes>>
         /\ run[r].state \in {"live", "safe"}
         /\ run'[r].item = run[r].item
         /\ run'[r].loop = run[r].loop
         /\ run'[r].state \in {"safe", "converged", "archived"}
         /\ \A q \in Runs : q # r => run'[q] = run[q]
<1>0. TypeOK
  BY DEF ItemIInv
<1>1. run[r].state \in {"live", "safe"}
  BY DEF End, Prune
<1>2. run[r] \in [state : States, item : Items, loop : Loops, cand : Cands \cup {None}]
  BY <1>0, <1>1, RunFacts
<1>3. \A q \in Runs : q # r => run'[q] = run[q]
  BY <1>0 DEF End, Prune, TypeOK
<1>4. \/ run'[r] = [run[r] EXCEPT !.state = "safe"]
      \/ run'[r] = [run[r] EXCEPT !.state = "converged", !.cand = work]
      \/ run'[r] = [run[r] EXCEPT !.state = "archived"]
  BY <1>0 DEF End, Prune, TypeOK
<1>5. /\ run'[r].item = run[r].item /\ run'[r].loop = run[r].loop
      /\ run'[r].state \in {"safe", "converged", "archived"}
  BY <1>2, <1>4
<1> QED
  BY <1>1, <1>3, <1>5 DEF End, Prune

LEMMA PublishingStep == ItemIInv /\ [Next]_vars => Publishing'
<1> SUFFICES ASSUME ItemIInv, [Next]_vars, NEW p \in Procs, pc'[p] = "publish"
             PROVE  /\ binding' = p
                    /\ current'[call'[p].item] = call'[p].run
                    /\ run'[call'[p].run].state = "none"
                    /\ run'[call'[p].run].item = call'[p].item
                    /\ run'[call'[p].run].loop = call'[p].loop
  BY DEF Publishing
<1>0. TypeOK /\ Publishing /\ Asks(p)
  BY DEF ItemIInv, Asked
<1>1. ASSUME NEW q \in Procs, Act(q) PROVE
        \/ q = p /\ Reserve(p)
        \/ q # p /\ pc[p] = "publish" /\ call'[p] = call[p]
    <2>1. CASE q # p
      BY <1>0, <1>1, <2>1, ActFrame
    <2>2. CASE q = p
      BY <1>1, <2>2, RunFrame, PublishFacts
    <2> QED
      BY <2>1, <2>2
<1>2. CASE Reserve(p)
  BY <1>2, ReserveFacts
<1>3. ASSUME NEW q \in Procs, Act(q), q # p, pc[p] = "publish", call'[p] = call[p]
      PROVE  /\ binding' = binding
             /\ UNCHANGED <<current, run>>
  <2>1. binding = p /\ p # None
    BY <1>0, <1>3 DEF Publishing
  <2>2. ~Reserve(q) /\ ~Publish(q)
    BY <1>3, <2>1, ReserveFacts, PublishFacts
  <2> QED
    BY <1>3, <2>1, <2>2, RunFrame
<1>4. ASSUME NEW r \in Runs, End(r) \/ Prune(r), pc[p] = "publish"
      PROVE  run'[call[p].run] = run[call[p].run]
  BY <1>0, <1>4, EndFacts DEF Publishing, Asks
<1>5. ASSUME NEW r \in Runs, End(r) \/ Prune(r)
      PROVE  UNCHANGED <<binding, current, pc, call>>
  BY <1>5, EndFacts
<1>6. CASE Edit \/ UNCHANGED vars
  <2>1. UNCHANGED <<binding, current, run, pc, call>>
    BY <1>6 DEF Edit, vars, runFiles
  <2> QED
    BY <1>0, <2>1 DEF Publishing
<1> QED
  BY <1>0, <1>1, <1>2, <1>3, <1>4, <1>5, <1>6 DEF Next, Act, Publishing

LEMMA OneExecutableStep == ItemIInv /\ [Next]_vars => OneExecutable'
<1> SUFFICES ASSUME ItemIInv, [Next]_vars, NEW r \in Runs, run'[r].state = "live"
             PROVE  current'[run'[r].item] = r
  BY DEF OneExecutable
<1>0. TypeOK /\ OneExecutable
  BY DEF ItemIInv
<1>1. ASSUME NEW q \in Procs, Reserve(q) PROVE current'[run'[r].item] = r
  <2> DEFINE i == call[q].item
  <2>1. r # call[q].run /\ run'[r] = run[r] /\ run[r].state = "live"
    BY <1>1, ReserveFacts
  <2>2. current[run[r].item] = r /\ run[r].item \in Items
    BY <1>0, <2>1, RunFacts DEF OneExecutable
  <2>3. run[r].item # i
    BY <1>1, <2>1, <2>2 DEF Reserve, Admitted
  <2> QED
    BY <1>1, <2>1, <2>2, <2>3, ReserveFacts
<1>2. ASSUME NEW q \in Procs, Publish(q) PROVE current'[run'[r].item] = r
  BY <1>0, <1>2, PublishFacts DEF OneExecutable
<1>3. ASSUME NEW q \in Procs, Act(q), ~Reserve(q), ~Publish(q) PROVE current'[run'[r].item] = r
  BY <1>0, <1>3, RunFrame DEF OneExecutable
<1>4. ASSUME NEW q \in Runs, End(q) \/ Prune(q) PROVE current'[run'[r].item] = r
  BY <1>0, <1>4, EndFacts DEF OneExecutable
<1>5. CASE Edit \/ UNCHANGED vars
  BY <1>0, <1>5 DEF OneExecutable, Edit, vars, runFiles
<1> QED
  BY <1>1, <1>2, <1>3, <1>4, <1>5 DEF Next, Act

-----------------------------------------------------------------------------
\* What each step of a completion does, while the lock has not been lost.
LEMMA PrepareFacts ==
  ASSUME ItemIInv, NEW p \in Procs, Prepare(p)
  PROVE  /\ pc[p] = "inside"
         /\ call[p].run \in Runs /\ call[p].item \in Items
         /\ Active(call[p].item)
         /\ plan.meta[call[p].item] = run[call[p].run].loop
         /\ call'[p].run = call[p].run /\ call'[p].item = call[p].item
         /\ call'[p].plan = Burned(call[p].item, call[p].run)
         /\ \/ pc'[p] = "intent"
            \/ pc'[p] = "recheck" /\ intent[call[p].run] = call'[p].plan
         /\ UNCHANGED <<files, lock, usurped, binding, runFiles, work, crashes>>
<1>0. TypeOK /\ Asks(p)
  BY DEF ItemIInv, Asked
<1>1. call[p].run \in Runs /\ call[p].item \in Items
  BY <1>0 DEF Prepare, Asks
<1>2. call[p] \in Calls /\ call'[p] = [call[p] EXCEPT !.plan = Burned(call[p].item, call[p].run)]
  BY <1>0 DEF Prepare, TypeOK
<1>3. call'[p].run = call[p].run /\ call'[p].item = call[p].item
      /\ call'[p].plan = Burned(call[p].item, call[p].run)
  BY <1>2 DEF Calls
<1>4. pc[p] = "inside" /\ pc'[p] = IF intent[call[p].run] = None THEN "intent" ELSE "recheck"
  BY <1>0 DEF Prepare, Goto, TypeOK
<1>5. intent[call[p].run] \in {None, Burned(call[p].item, call[p].run)}
  BY DEF Prepare
<1> QED
  BY <1>1, <1>3, <1>4, <1>5 DEF Prepare, CurrentAssignment

\* Only three steps change burnlist.md, an intent or a receipt of a completion.
LEMMA FilesFrame ==
  ASSUME ItemIInv, NEW p \in Procs, Act(p),
         ~WritePlan(p), ~WriteIntent(p), ~Apply(p), ~WriteReceipt(p), ~ClearIntent(p)
  PROVE  UNCHANGED <<plan, intent, receipt>>
<1>1. CASE Called(p)
  BY <1>1, CalledFacts DEF files, runFiles
<1>2. CASE Locked(p) \/ Moved(p) \/ Created(p) \/ Crash(p)
  BY <1>2 DEF Locked, Link, Claim, Relink, Unlock, Fail, Moved, Move, Repair, WriteDigest,
              Rollback, Created, Reserve, Publish, Abort, Crash, files, runFiles
<1>3. CASE Changed(p) \/ Completed(p)
  BY <1>3 DEF Changed, Burn, Assign, Unassign, Change, Completed, FindReceipt, FindEntry,
              Prepare, Recheck, files, runFiles
<1> QED
  BY <1>1, <1>2, <1>3 DEF Act

\* The other steps that leave burnlist.md, intents and receipts alone.
LEMMA ElseFrame ==
  ASSUME [Next]_vars, ~\E p \in Procs : Act(p)
  PROVE  UNCHANGED <<files, lock, usurped, intent, receipt, pc, call>>
<1>1. ASSUME NEW r \in Runs, End(r) \/ Prune(r)
      PROVE  UNCHANGED <<files, lock, usurped, intent, receipt, pc, call>>
  BY <1>1 DEF End, Prune
<1>2. CASE Edit \/ UNCHANGED vars
  BY <1>2 DEF Edit, vars, files, runFiles
<1> QED
  BY <1>1, <1>2 DEF Next, Act

\* A process that only waits, or works without writing, still fits.
LEMMA FitsOn ==
  ASSUME ItemIInv, [Next]_vars, NEW p \in Procs, Fits(p),
         UNCHANGED <<plan, intent, receipt>>,
         pc'[p] = pc[p], call'[p] = call[p]
  PROVE  Fits(p)'
<1>1. Asks(p)
  BY DEF ItemIInv, Asked
<1>2. pc[p] \in {"intent", "recheck", "plan"} => run'[call[p].run] = run[call[p].run]
  BY <1>1, ConvergedKept DEF Asks
<1> QED
  BY <1>1, <1>2 DEF Fits, Continues, Active, Burned

LEMMA PreparedStep == ItemIInv /\ [Next]_vars => Prepared'
<1> SUFFICES ASSUME ItemIInv, [Next]_vars, ~usurped', NEW p \in Procs PROVE Fits(p)'
  BY DEF Prepared
<1>0. TypeOK /\ Asks(p) /\ Prepared
  BY DEF ItemIInv, Asked
<1>1. CASE ~\E q \in Procs : Act(q)
  <2>1. UNCHANGED <<files, lock, usurped, intent, receipt, pc, call>>
    BY <1>1, ElseFrame
  <2>2. Fits(p)
    BY <1>0, <2>1 DEF Prepared
  <2> QED
    BY <2>1, <2>2, FitsOn DEF files
<1>2. ASSUME NEW q \in Procs, Act(q), q # p PROVE Fits(p)'
  <2>1. ~usurped /\ pc'[p] = pc[p] /\ call'[p] = call[p]
    BY <1>0, <1>2, ActFrame
  <2>2. Fits(p)
    BY <1>0, <2>1 DEF Prepared
  <2>3. CASE pc[p] \in Guarded
    <3>1. pc[q] \notin Guarded
      BY <1>2, <2>1, <2>3, Alone
    <3>2. UNCHANGED <<plan, intent, receipt>>
      BY <1>0, <1>2, <3>1, ActFrame
    <3> QED
      BY <2>1, <2>2, <3>2, FitsOn
  <2>4. CASE pc[p] \notin Guarded
    BY <2>1, <2>4 DEF Fits, Guarded
  <2> QED
    BY <2>3, <2>4
<1>3. ASSUME Act(p) PROVE Fits(p)'
  <2>0. ~usurped /\ Fits(p)
    BY <1>0, <1>3, ActFrame DEF Prepared
  <2>1. ASSUME pc'[p] \notin {"write", "intent", "recheck", "plan", "receipt", "clear"}
        PROVE  Fits(p)'
    BY <2>1 DEF Fits
  <2>2. CASE Called(p)
    BY <2>1, <2>2, CalledFacts
  <2>3. CASE Locked(p) \/ Moved(p) \/ Created(p) \/ Crash(p) \/ WritePlan(p) \/ ClearIntent(p)
    <3>1. pc'[p] \in {"inside", "claim", "relink", "idle", "unlock", "digest", "publish"}
      BY <1>0, <2>3 DEF Locked, Link, Claim, Relink, Unlock, Fail, Moved, Move, Repair,
                        WriteDigest, Rollback, Created, Reserve, Publish, Abort, Crash,
                        WritePlan, ClearIntent, Goto, Exit, Leave, TypeOK
    <3> QED
      BY <2>1, <3>1
  <2>4. CASE Changed(p) /\ ~WritePlan(p)
    <3>1. PICK next \in Plans : Change(p, next) /\ Continues(next)
      BY <2>4, ChangedFacts
    <3>2. pc'[p] = "write" /\ call'[p].plan = next /\ plan' = plan
      BY <1>0, <3>1, ChangeFacts DEF files
    <3> QED
      BY <3>1, <3>2 DEF Fits, Continues
  <2>5. CASE FindReceipt(p)
    <3>1. \/ pc'[p] = "unlock"
          \/ pc'[p] = "clear" /\ call' = call /\ UNCHANGED <<files, runFiles>>
             /\ receipt[call[p].run] # None /\ Entry(p) = call[p].run
      BY <1>0, <2>5 DEF FindReceipt, Goto, Leave, TypeOK
    <3> QED
      BY <2>1, <3>1 DEF Fits, Entry, files, runFiles
  <2>6. CASE FindEntry(p)
    <3>1. call[p] \in Calls /\ call'[p] = [call[p] EXCEPT !.plan = intent[call[p].run]]
      BY <1>0, <2>6 DEF FindEntry, TypeOK
    <3>2. call'[p].run = call[p].run /\ call'[p].item = call[p].item
      BY <3>1 DEF Calls
    <3>3. pc'[p] = "receipt" /\ plan' = plan /\ plan.ledger[call[p].item] = call[p].run
      BY <1>0, <2>6 DEF FindEntry, Goto, TypeOK, Entry, files
    <3> QED
      BY <3>2, <3>3 DEF Fits
  <2>7. CASE Prepare(p)
    <3>1. /\ call'[p].run = call[p].run /\ call'[p].item = call[p].item
          /\ call'[p].plan = Burned(call[p].item, call[p].run)
          /\ Active(call[p].item) /\ plan.meta[call[p].item] = run[call[p].run].loop
          /\ pc'[p] = "intent" \/ (pc'[p] = "recheck" /\ intent[call[p].run] = call'[p].plan)
          /\ plan' = plan /\ run' = run /\ intent' = intent
      BY <2>7, PrepareFacts DEF files, runFiles
    <3> QED
      BY <3>1 DEF Fits, Active, Burned
  <2>8. CASE WriteIntent(p)
    <3>1. pc[p] = "intent" /\ pc'[p] = "recheck" /\ call' = call /\ plan' = plan /\ run' = run
          /\ intent' = [intent EXCEPT ![call[p].run] = call[p].plan]
      BY <1>0, <2>8 DEF WriteIntent, Goto, TypeOK, files
    <3>2. call[p].run \in Runs
      BY <1>0, <3>1 DEF Asks
    <3>3. intent'[call[p].run] = call[p].plan
      BY <1>0, <3>1, <3>2 DEF TypeOK
    <3> QED
      BY <2>0, <3>1, <3>3 DEF Fits, Active, Burned
  <2>9. CASE Recheck(p)
    <3>1. pc[p] = "recheck" /\ pc'[p] = "plan" /\ call' = call /\ plan' = plan /\ run' = run
          /\ intent' = intent
      BY <1>0, <2>9 DEF Recheck, Goto, TypeOK, files, runFiles
    <3> QED
      BY <2>0, <3>1 DEF Fits, Active, Burned
  <2>10. CASE Apply(p)
    <3>1. pc[p] = "plan" /\ pc'[p] = "receipt" /\ call' = call /\ plan' = call[p].plan
      BY <1>0, <2>10 DEF Apply, Goto, TypeOK
    <3>2. call[p].run \in Runs /\ call[p].item \in Items
          /\ plan' = Burned(call[p].item, call[p].run)
      BY <1>0, <2>0, <3>1 DEF Asks, Fits
    <3>3. plan'.ledger[call[p].item] = call[p].run
      BY <1>0, <3>2, BurnedIsPlan
    <3> QED
      BY <3>1, <3>3 DEF Fits
  <2>11. CASE WriteReceipt(p)
    <3>1. pc[p] = "receipt" /\ pc'[p] = "clear" /\ call' = call /\ plan' = plan
          /\ receipt' = [receipt EXCEPT ![call[p].run] = call[p].plan]
      BY <1>0, <2>11 DEF WriteReceipt, Goto, TypeOK, files
    <3>2. call[p].run \in Runs /\ call[p].plan \in Plans
      BY <1>0, <3>1 DEF Asks, TypeOK, Calls
    <3>3. receipt'[call[p].run] # None
      BY <1>0, <3>1, <3>2 DEF TypeOK
    <3> QED
      BY <2>0, <3>1, <3>3 DEF Fits
  <2> QED
    BY <1>3, <2>2, <2>3, <2>4, <2>5, <2>6, <2>7, <2>8, <2>9, <2>10, <2>11
    DEF Act, Changed, Completed
<1> QED
  BY <1>1, <1>2, <1>3

-----------------------------------------------------------------------------
LEMMA SealedStep == ItemIInv /\ [Next]_vars => Sealed'
<1> SUFFICES ASSUME ItemIInv, [Next]_vars, NEW r \in Runs, intent'[r] # None \/ receipt'[r] # None
             PROVE  run'[r].state = "converged"
  BY DEF Sealed
<1>0. TypeOK /\ Sealed
  BY DEF ItemIInv
<1> SUFFICES run[r].state = "converged"
  BY ConvergedKept
<1>1. CASE UNCHANGED <<intent, receipt>>
  BY <1>0, <1>1 DEF Sealed
<1>2. ASSUME NEW p \in Procs, WriteIntent(p) \/ WriteReceipt(p) PROVE run[r].state = "converged"
  <2>1. Completing(p) /\ Asks(p)
    BY <1>2 DEF WriteIntent, WriteReceipt, Goto, ItemIInv, Asked, Asks
  <2>2. r # call[p].run => intent'[r] = intent[r] /\ receipt'[r] = receipt[r]
    BY <1>0, <1>2 DEF WriteIntent, WriteReceipt, TypeOK
  <2> QED
    BY <1>0, <2>1, <2>2 DEF Sealed, Asks
<1>3. ASSUME NEW p \in Procs, ClearIntent(p) PROVE run[r].state = "converged"
  BY <1>0, <1>3 DEF ClearIntent, TypeOK, Sealed
<1>4. ASSUME NEW p \in Procs, WritePlan(p) \/ Apply(p) PROVE UNCHANGED <<intent, receipt>>
  BY <1>4 DEF WritePlan, Apply, runFiles
<1> QED
  BY <1>1, <1>2, <1>3, <1>4, FilesFrame, ElseFrame

\* What a write does to the ledger, while the lock has not been lost.
LEMMA PlanStep ==
  ASSUME ItemIInv, [Next]_vars, ~usurped, NEW i \in Items
  PROVE  \/ plan'.ledger[i] = plan.ledger[i]
         \/ plan.ledger[i] = None /\ plan'.ledger[i] = Direct /\ plan.meta[i] = None
         \/ \E p \in Procs :
              /\ pc[p] = "plan" /\ Completing(p) /\ Fits(p) /\ i = call[p].item
              /\ call[p].run \in Runs
              /\ plan.ledger[i] = None /\ plan'.ledger[i] = call[p].run
              /\ UNCHANGED <<intent, receipt>>
<1>0. TypeOK /\ Prepared
  BY DEF ItemIInv
<1>1. ASSUME NEW p \in Procs, WritePlan(p)
      PROVE  \/ plan'.ledger[i] = plan.ledger[i]
             \/ plan.ledger[i] = None /\ plan'.ledger[i] = Direct /\ plan.meta[i] = None
  <2>1. Continues(plan')
    BY <1>0, <1>1 DEF WritePlan, Prepared, Fits
  <2> QED
    BY <2>1 DEF Continues
<1>2. ASSUME NEW p \in Procs, Apply(p)
      PROVE  \/ plan'.ledger[i] = plan.ledger[i]
             \/ /\ pc[p] = "plan" /\ Completing(p) /\ Fits(p) /\ i = call[p].item
                /\ call[p].run \in Runs
                /\ plan.ledger[i] = None /\ plan'.ledger[i] = call[p].run
                /\ UNCHANGED <<intent, receipt>>
  <2>1. pc[p] = "plan" /\ plan' = call[p].plan /\ UNCHANGED <<intent, receipt>> /\ Fits(p)
    BY <1>0, <1>2 DEF Apply, Goto, Prepared, runFiles
  <2>2. Completing(p) /\ call[p].run \in Runs /\ call[p].item \in Items
    BY <2>1 DEF ItemIInv, Asked, Asks
  <2>3. plan' = Burned(call[p].item, call[p].run) /\ Active(call[p].item)
    BY <2>1 DEF Fits
  <2>4. /\ plan'.ledger[call[p].item] = call[p].run
        /\ i # call[p].item => plan'.ledger[i] = plan.ledger[i]
    BY <1>0, <2>2, <2>3, BurnedIsPlan
  <2> QED
    BY <2>1, <2>2, <2>3, <2>4 DEF Active
<1>3. CASE UNCHANGED plan
  BY <1>3
<1>4. ASSUME NEW p \in Procs, WriteIntent(p) \/ WriteReceipt(p) \/ ClearIntent(p) PROVE UNCHANGED plan
  BY <1>4 DEF WriteIntent, WriteReceipt, ClearIntent, files
<1> QED
  BY <1>1, <1>2, <1>3, <1>4, FilesFrame, ElseFrame DEF files

LEMMA UsurpedGrows == ItemIInv /\ [Next]_vars => (usurped => usurped')
  BY ActFrame, ElseFrame DEF ItemIInv

LEMMA ReceiptTrueStep == ItemIInv /\ [Next]_vars => ReceiptTrue'
<1> SUFFICES ASSUME ItemIInv, [Next]_vars, NEW r \in Runs, receipt'[r] # None, ~usurped'
             PROVE  plan'.ledger[run'[r].item] = r
  BY DEF ReceiptTrue
<1>0. TypeOK /\ Sealed /\ Sealed' /\ ReceiptTrue /\ ~usurped
  BY SealedStep, UsurpedGrows DEF ItemIInv
<1>1. plan.ledger[run[r].item] = r /\ run[r].state = "converged"
  <2>1. CASE receipt[r] # None
    BY <1>0, <2>1 DEF ReceiptTrue, Sealed
  <2>2. CASE receipt[r] = None
    <3>1. \E p \in Procs : WriteReceipt(p)
      <4>1. ASSUME NEW p \in Procs, WritePlan(p) \/ WriteIntent(p) \/ Apply(p) \/ ClearIntent(p)
            PROVE  UNCHANGED receipt
        BY <4>1 DEF WritePlan, WriteIntent, Apply, ClearIntent, runFiles
      <4> QED
        BY <2>2, <4>1, FilesFrame, ElseFrame
    <3>2. PICK p \in Procs : WriteReceipt(p)
      BY <3>1
    <3>3. pc[p] = "receipt" /\ r = call[p].run
      BY <1>0, <2>2, <3>2 DEF WriteReceipt, Goto, TypeOK
    <3>4. plan.ledger[call[p].item] = r
      BY <1>0, <3>3 DEF ItemIInv, Prepared, Fits
    <3>5. run[r].state = "converged" /\ run[r].item = call[p].item
      BY <3>3 DEF ItemIInv, Asked, Asks
    <3> QED
      BY <3>4, <3>5
  <2> QED
    BY <2>1, <2>2
<1>2. run'[r] = run[r] /\ run[r].item \in Items
  BY <1>0, <1>1, ConvergedKept, RunFacts
<1>3. plan'.ledger[run[r].item] = plan.ledger[run[r].item]
  BY <1>0, <1>1, <1>2, PlanStep
<1> QED
  BY <1>1, <1>2, <1>3

LEMMA SealableStep == ItemIInv /\ [Next]_vars => Sealable'
<1> SUFFICES ASSUME ItemIInv, [Next]_vars, NEW r \in Runs, NEW i \in Items,
                    plan'.ledger[i] = r, receipt'[r] = None, ~usurped'
             PROVE  intent'[r] # None
  BY DEF Sealable
<1>0. TypeOK /\ Sealable /\ ~usurped
  BY UsurpedGrows DEF ItemIInv
<1>1. CASE plan'.ledger[i] = plan.ledger[i]
  <2>1. receipt[r] = None
    <3>1. ASSUME NEW p \in Procs, WriteReceipt(p), receipt[r] # None PROVE FALSE
      <4>1. call[p].plan # None
        BY <1>0 DEF TypeOK, Calls
      <4> QED
        BY <1>0, <3>1, <4>1 DEF WriteReceipt, TypeOK
    <3>2. ASSUME NEW p \in Procs, WritePlan(p) \/ WriteIntent(p) \/ Apply(p) \/ ClearIntent(p)
          PROVE  UNCHANGED receipt
      BY <3>2 DEF WritePlan, WriteIntent, Apply, ClearIntent, runFiles
    <3> QED
      BY <3>1, <3>2, FilesFrame, ElseFrame
  <2>2. intent[r] # None
    BY <1>0, <1>1, <2>1 DEF Sealable
  <2>3. ASSUME NEW p \in Procs, ClearIntent(p) PROVE r # call[p].run
    BY <1>0, <2>1, <2>3 DEF ClearIntent, ItemIInv, Prepared, Fits
  <2>4. ASSUME NEW p \in Procs, ClearIntent(p) PROVE intent'[r] # None
    BY <1>0, <2>2, <2>3, <2>4 DEF ClearIntent, TypeOK
  <2>5. ASSUME NEW p \in Procs, WriteIntent(p) PROVE intent'[r] # None
    <3>1. call[p].plan # None
      BY <1>0 DEF TypeOK, Calls
    <3> QED
      BY <1>0, <2>2, <2>5, <3>1 DEF WriteIntent, TypeOK
  <2>6. ASSUME NEW p \in Procs, WritePlan(p) \/ WriteReceipt(p) \/ Apply(p) PROVE UNCHANGED intent
    BY <2>6 DEF WritePlan, WriteReceipt, Apply, runFiles
  <2> QED
    BY <2>2, <2>4, <2>5, <2>6, FilesFrame, ElseFrame
<1>2. ASSUME NEW p \in Procs, pc[p] = "plan", Fits(p), call[p].run = r, UNCHANGED intent
      PROVE  intent'[r] # None
  BY <1>0, <1>2 DEF Fits, TypeOK, Calls
<1>3. r # Direct
  OBVIOUS
<1> QED
  BY <1>0, <1>1, <1>2, <1>3, PlanStep

LEMMA ClosedStep == ItemIInv /\ [Next]_vars => ClosedIsDone'
<1> SUFFICES ASSUME ItemIInv, [Next]_vars, folder' = "completed", ~usurped', NEW i \in Items
             PROVE  plan'.ledger[i] # None
  BY DEF ClosedIsDone
<1>0. TypeOK /\ ClosedIsDone /\ ~usurped
  BY UsurpedGrows DEF ItemIInv
<1>1. CASE folder' = folder
  <2>1. plan.ledger[i] # None
    BY <1>0, <1>1 DEF ClosedIsDone
  <2> QED
    BY <1>0, <2>1, PlanStep
<1>2. CASE folder' # folder
  <2>1. PICK p \in Procs : Act(p)
    BY <1>2, ElseFrame DEF files
  <2>2. Move(p) \/ Rollback(p)
    <3>1. CASE Called(p)
      BY <1>2, <3>1, CalledFacts DEF files
    <3>2. ~(Locked(p) \/ Repair(p) \/ WriteDigest(p) \/ Created(p) \/ Crash(p))
      BY <1>2 DEF Locked, Link, Claim, Relink, Unlock, Fail, Repair, WriteDigest, Created,
                  Reserve, Publish, Abort, Crash, files
    <3>3. ~(Changed(p) \/ Completed(p))
      BY <1>2 DEF Changed, Burn, Assign, Unassign, Change, WritePlan, Completed, FindReceipt,
                  FindEntry, Prepare, WriteIntent, Recheck, Apply, WriteReceipt, ClearIntent, files
    <3> QED
      BY <2>1, <3>1, <3>2, <3>3 DEF Act, Moved
  <2>3. Move(p)
    BY <2>2 DEF Rollback
  <2>4. call[p].op = "close" /\ plan' = plan
    BY <2>3 DEF Move, Moves, To
  <2> QED
    BY <2>3, <2>4 DEF Move, AllBurned, Active
<1> QED
  BY <1>1, <1>2

-----------------------------------------------------------------------------
THEOREM ItemInductive == ItemIInv /\ [Next]_vars => ItemIInv'
  BY ItemTypeStep, AskedStep, HeldStep, PublishingStep, OneExecutableStep, PreparedStep,
     SealedStep, ReceiptTrueStep, SealableStep, ClosedStep DEF ItemIInv

THEOREM ItemInvariance == Spec => []ItemIInv
  BY ItemInit, ItemInductive, PTL DEF Spec

\* The files of a Burnlist and its Runs and what every process has read keep
\* their kinds.
THEOREM ItemTyping == Spec => []TypeOK
<1>1. ItemIInv => TypeOK
  BY DEF ItemIInv
<1> QED
  BY <1>1, ItemInvariance, PTL

\* withLock keeps any number of commands apart as long as no live process's
\* lock is taken for a dead one's.
THEOREM Apart == Spec => []Exclusive
<1>1. ItemIInv => Exclusive
  BY Alone DEF Exclusive
<1> QED
  BY <1>1, ItemInvariance, PTL

\* Launches, supersessions, prunes and crashes leave an item with one Run that
\* can execute, the current one.
THEOREM OneRun == Spec => []OneExecutable
<1>1. ItemIInv => OneExecutable
  BY DEF ItemIInv
<1> QED
  BY <1>1, ItemInvariance, PTL

\* However a completion is cut off or retried, a receipt is only there for an
\* item whose entry in the ledger is that of the receipt's Run.
THEOREM Truthful == Spec => []ReceiptTrue
<1>1. ItemIInv => ReceiptTrue
  BY DEF ItemIInv
<1> QED
  BY <1>1, ItemInvariance, PTL

\* ... and an entry without a receipt still has the intent the retry needs.
THEOREM Recoverable == Spec => []Sealable
<1>1. ItemIInv => Sealable
  BY DEF ItemIInv
<1> QED
  BY <1>1, ItemInvariance, PTL

\* A Burnlist in the completed folder has no open item.
THEOREM Done == Spec => []ClosedIsDone
<1>1. ItemIInv => ClosedIsDone
  BY DEF ItemIInv
<1> QED
  BY <1>1, ItemInvariance, PTL

\* No command writes a plan over an entry another one has made.
THEOREM Kept == Spec => LedgerKept
<1> DEFINE Keeps(i) == plan.ledger[i] # None /\ plan'.ledger[i] # plan.ledger[i] => usurped
<1>1. ItemIInv /\ [Next]_vars => \A i \in Items : Keeps(i)
  BY PlanStep
<1> QED
  BY <1>1, ItemInvariance, PTL DEF Spec, LedgerKept

\* An item is burned by a converged Run of its own assignment, or directly and
\* without assignment.
THEOREM Deserved == Spec => Earned
<1> DEFINE Earns(i) ==
      plan.ledger[i] = None /\ plan'.ledger[i] # None =>
        \/ usurped
        \/ plan'.ledger[i] = Direct /\ plan.meta[i] = None
        \/ \E r \in Runs : /\ plan'.ledger[i] = r
                           /\ run[r].state = "converged"
                           /\ run[r].item = i
                           /\ run[r].loop = plan.meta[i]
<1>1. ItemIInv /\ [Next]_vars => \A i \in Items : Earns(i)
  <2> SUFFICES ASSUME ItemIInv, [Next]_vars, NEW i \in Items,
                      plan.ledger[i] = None, plan'.ledger[i] # None, ~usurped
               PROVE  \/ plan'.ledger[i] = Direct /\ plan.meta[i] = None
                      \/ \E r \in Runs : /\ plan'.ledger[i] = r
                                         /\ run[r].state = "converged"
                                         /\ run[r].item = i
                                         /\ run[r].loop = plan.meta[i]
    OBVIOUS
  <2>1. ASSUME NEW p \in Procs, pc[p] = "plan", Completing(p), Fits(p), i = call[p].item
        PROVE  /\ run[call[p].run].state = "converged"
               /\ run[call[p].run].item = i
               /\ run[call[p].run].loop = plan.meta[i]
    BY <2>1 DEF ItemIInv, Asked, Asks, Fits
  <2> QED
    BY <2>1, PlanStep
<1> QED
  BY <1>1, ItemInvariance, PTL DEF Spec, Earned
==============================================================================
