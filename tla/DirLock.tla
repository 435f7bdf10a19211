------------------------------- MODULE DirLock -------------------------------
(***************************************************************************)
(* The directory lock of src/server/dir-lock.mjs, one action per file      *)
(* system call that other processes can observe.                           *)
(*                                                                         *)
(* A caller builds a candidate directory that holds one owner file named   *)
(* after a random token, renames it onto the lock path (which succeeds     *)
(* only when the lock path is missing or an empty directory), checks that  *)
(* its owner file arrived, runs the guarded function, unlinks its owner    *)
(* file and removes the directory.  A caller whose rename fails looks at   *)
(* the owner it finds, and unlinks the owner file of a process it judges   *)
(* stale before it tries again.  Old candidates of any process are         *)
(* collected at the start of a call.  A process may die anywhere.          *)
(*                                                                         *)
(* The lock path may also hold the regular file of a v0.0.2 process, which *)
(* this protocol shares the path with: LegacyLink and LegacyStop are what  *)
(* that code does, as far as legacyRecord and its comment tell.            *)
(*                                                                         *)
(* A token that occurs nowhere is as good as one never drawn, so a finite  *)
(* set of tokens stands for the 2^256 of the code.                         *)
(***************************************************************************)
EXTENDS Naturals

CONSTANTS Procs,        \* processes
          Tokens,       \* owner tokens
          Legacies,     \* v0.0.2 owners, each with the token of its file
          NoProc,       \* no process
          NoToken,      \* no token
          MaxAttempts,  \* MAX_ATTEMPTS
          MaxAge,       \* bound: the oldest age the model lets a record reach
          ReclaimLive,  \* reclaimLiveAfterAge
          Faults        \* file system calls may also fail in unexpected ways

Shapes == {"missing", "empty"}
Records == Tokens \cup Legacies

ASSUME TokenAssumption == NoToken \notin Records /\ Records \cap Shapes = {}
ASSUME LegacyAssumption == Tokens \cap Legacies = {}
ASSUME ProcAssumption == NoProc \notin Procs
ASSUME AttemptAssumption == MaxAttempts \in Nat \ {0}
ASSUME AgeAssumption == MaxAge \in 0..2
ASSUME ModeAssumption == ReclaimLive \in BOOLEAN /\ Faults \in BOOLEAN

(***************************************************************************)
(* Ages, in units of LOCK_MAX_AGE_MS: a record of age 1 is old enough to   *)
(* lose a live owner its lock, a candidate of age 2 to be collected.       *)
(***************************************************************************)
LockMaxAge == 1
CandidateGcAge == 2

VARIABLES
  canon,       \* what is at the lock path: a shape, or the token of its owner
  live,        \* the v0.0.2 owners that have taken the lock and are running
  slipped,     \* history: those that took the path while another process
               \* stood between reading a regular file again and unlinking it
  cand,        \* candidate directory of each token: "none", "empty", "full"
  owner,       \* the process that wrote the token's record
  age,         \* age of the record of that token, and of its directory
  pc,          \* where each process is in withDirectoryLock
  tok,         \* the token of the process's candidate or published lock
  seen,        \* the token of the record the process has judged stale
  todo,        \* old candidates the process has still to collect
  attempt      \* the attempt the process is at

vars == <<canon, live, slipped, cand, owner, age, pc, tok, seen, todo, attempt>>

Labels == {"idle", "gc", "gcRmdir", "build", "record", "rename", "selfCheck",
           "selfRmdir", "inspect", "unlink", "rmdir", "legacyCheck",
           "legacyUnlink", "inside", "release", "releaseRmdir", "giveUp", "dead"}

TypeOK ==
  /\ canon \in Shapes \cup Records
  /\ live \in SUBSET Legacies
  /\ slipped \in SUBSET Legacies
  /\ cand \in [Tokens -> {"none", "empty", "full"}]
  /\ owner \in [Tokens -> Procs \cup {NoProc}]
  /\ age \in [Records -> 0..2]
  /\ pc \in [Procs -> Labels]
  /\ tok \in [Procs -> Tokens \cup {NoToken}]
  /\ seen \in [Procs -> Records \cup {NoToken}]
  /\ todo \in [Procs -> SUBSET Tokens]
  /\ attempt \in [Procs -> 1..MaxAttempts]

Init ==
  /\ canon = "missing"
  /\ live = {}
  /\ slipped = {}
  /\ cand = [t \in Tokens |-> "none"]
  /\ owner = [t \in Tokens |-> NoProc]
  /\ age = [t \in Records |-> 0]
  /\ pc = [p \in Procs |-> "idle"]
  /\ tok = [p \in Procs |-> NoToken]
  /\ seen = [p \in Procs |-> NoToken]
  /\ todo = [p \in Procs |-> {}]
  /\ attempt = [p \in Procs |-> 1]

------------------------------------------------------------------------------
Goto(p, from, to) ==
  /\ pc[p] = from
  /\ pc' = [pc EXCEPT ![p] = to]

\* mutant: attempts are not counted
RetryForever(p, from, to) == Goto(p, from, to) /\ UNCHANGED attempt

\* The end of an attempt: the next one starts at label "to", or the caller
\* gives up with the error of its errorFactory.
\* On its last attempt the code still builds a candidate where the label is
\* "build", and removes it unused: nobody but its owner ever names it, so the
\* model does not build it.
Retry(p, from, to) ==
  IF attempt[p] < MaxAttempts
    THEN /\ Goto(p, from, to)
         /\ attempt' = [attempt EXCEPT ![p] = @ + 1]
    ELSE /\ Goto(p, from, "giveUp")
         /\ UNCHANGED attempt

\* A token that nobody else knows and that names no file; the one of a
\* candidate the process itself has lost may as well come again.
Fresh(p, t) ==
  /\ cand[t] = "none"
  /\ canon # t
  /\ \A q \in Procs \ {p} : tok[q] # t /\ seen[q] # t /\ t \notin todo[q]

\* The call is over: nothing is left of it but files.
Return(p) ==
  /\ tok' = [tok EXCEPT ![p] = NoToken]
  /\ seen' = [seen EXCEPT ![p] = NoToken]

\* A record is stale when its process is gone (ESRCH, or the pid now belongs
\* to a process that started at another time), or, where the caller allows
\* it, when it is older than LOCK_MAX_AGE_MS.
Stale(t) ==
  \/ owner[t] \in Procs /\ pc[owner[t]] = "dead"
  \/ ReclaimLive /\ age[t] >= LockMaxAge

\* The start time of a process is not in a v0.0.2 record: an owner whose pid
\* now belongs to another process counts as live.
StaleLegacy(l) ==
  \/ l \notin live
  \/ ReclaimLive /\ age[l] >= LockMaxAge

------------------------------------------------------------------------------
\* gc(): one listing and one clock reading decide which candidates are old.
Call(p) ==
  /\ Goto(p, "idle", "gc")
  /\ todo' = [todo EXCEPT ![p] =
                {t \in Tokens : cand[t] # "none" /\ age[t] = CandidateGcAge}]
  /\ attempt' = [attempt EXCEPT ![p] = 1]
  /\ UNCHANGED <<canon, live, slipped, cand, owner, age, tok, seen>>

\* removeCandidate() on a collected candidate: its owner file first ...
GcUnlink(p) ==
  /\ Goto(p, "gc", "gcRmdir")
  /\ \E t \in todo[p] :
       /\ seen' = [seen EXCEPT ![p] = t]
       /\ todo' = [todo EXCEPT ![p] = @ \ {t}]
       /\ cand' = [cand EXCEPT ![t] = IF @ = "full" THEN "empty" ELSE @]
  /\ UNCHANGED <<canon, live, slipped, owner, age, tok, attempt>>

\* ... and then the directory.
GcRmdir(p) ==
  /\ pc[p] = "gcRmdir"
  /\ Goto(p, "gcRmdir", "gc")
  /\ cand' = [cand EXCEPT ![seen[p]] = IF @ = "empty" THEN "none" ELSE @]
  /\ seen' = [seen EXCEPT ![p] = NoToken]
  /\ UNCHANGED <<canon, live, slipped, owner, age, tok, todo, attempt>>

------------------------------------------------------------------------------
\* buildCandidate(): an empty directory named after a fresh token ...
Build(p) ==
  /\ todo[p] = {}
  /\ \/ Goto(p, "gc", "record")
     \/ Goto(p, "build", "record")
  /\ \E t \in Tokens :
       /\ Fresh(p, t)
       /\ cand' = [cand EXCEPT ![t] = "empty"]
       /\ owner' = [owner EXCEPT ![t] = p]
       /\ age' = [age EXCEPT ![t] = 0]
       /\ tok' = [tok EXCEPT ![p] = t]
  /\ UNCHANGED <<canon, live, slipped, seen, todo, attempt>>

\* ... then its owner file, which fails when the directory was collected.
WriteRecord(p) ==
  /\ pc[p] = "record"
  /\ IF cand[tok[p]] = "none"
       THEN Goto(p, "record", "giveUp") /\ UNCHANGED cand
       ELSE /\ Goto(p, "record", "rename")
            /\ cand' = [cand EXCEPT ![tok[p]] = "full"]
  /\ UNCHANGED <<canon, live, slipped, owner, age, tok, seen, todo, attempt>>

\* rename(2) of a directory: onto nothing or onto an empty directory.
Rename(p) ==
  /\ pc[p] = "rename"
  /\ LET t == tok[p] IN
     \/ /\ cand[t] = "none"
        /\ Retry(p, "rename", "build")
        /\ UNCHANGED <<canon, cand>>
     \/ /\ cand[t] # "none"
        /\ canon \in {"missing", "empty"}
        /\ Goto(p, "rename", "selfCheck")
        /\ canon' = IF cand[t] = "full" THEN t ELSE "empty"
        /\ cand' = [cand EXCEPT ![t] = "none"]
        /\ UNCHANGED attempt
     \/ /\ cand[t] # "none"
        /\ canon \notin {"missing", "empty"}
        /\ Goto(p, "rename", "inspect")
        /\ UNCHANGED <<canon, cand, attempt>>
  /\ UNCHANGED <<live, slipped, owner, age, tok, seen, todo>>

\* The owner file must have arrived with the directory.
SelfCheck(p) ==
  /\ Goto(p, "selfCheck", IF canon = tok[p] THEN "inside" ELSE "selfRmdir")
  /\ UNCHANGED <<canon, live, slipped, cand, owner, age, tok, seen, todo, attempt>>

\* rmdir(2) of the lock path: does something only to an empty directory.
RemoveEmpty == canon' = IF canon = "empty" THEN "missing" ELSE canon

SelfRmdir(p) ==
  /\ Retry(p, "selfRmdir", "build")
  /\ RemoveEmpty
  /\ UNCHANGED <<live, slipped, cand, owner, age, tok, seen, todo>>

\* inspectCanonical() and the judgment on what it found.
Inspect(p) ==
  /\ \/ /\ canon \in Tokens
        /\ Stale(canon)
        /\ Goto(p, "inspect", "unlink")
        /\ seen' = [seen EXCEPT ![p] = canon]
        /\ UNCHANGED attempt
     \/ /\ canon \in Legacies
        /\ StaleLegacy(canon)
        /\ Goto(p, "inspect", "legacyCheck")
        /\ seen' = [seen EXCEPT ![p] = canon]
        /\ UNCHANGED attempt
     \/ /\ \/ canon \in {"missing", "empty"}
           \/ canon \in Tokens /\ ~Stale(canon)
           \/ canon \in Legacies /\ ~StaleLegacy(canon)
        /\ Retry(p, "inspect", "rename")
        /\ UNCHANGED seen
  /\ UNCHANGED <<canon, live, slipped, cand, owner, age, tok, todo>>

\* mutant: whoever's owner file is there by now is unlinked
UnlinkAny(p) ==
  /\ Goto(p, "unlink", "rmdir")
  /\ canon' = IF canon \in Tokens THEN "empty" ELSE canon
  /\ UNCHANGED <<live, slipped, cand, owner, age, tok, seen, todo, attempt>>

\* mutant: the process's own token is unlinked
UnlinkOwn(p) ==
  /\ Goto(p, "unlink", "rmdir")
  /\ canon' = IF canon = tok[p] THEN "empty" ELSE canon
  /\ UNCHANGED <<live, slipped, cand, owner, age, tok, seen, todo, attempt>>

\* Takes the owner file of that token away, whatever is there by now ...
Unlink(p) ==
  /\ Goto(p, "unlink", "rmdir")
  /\ canon' = IF canon = seen[p] THEN "empty" ELSE canon
  /\ UNCHANGED <<live, slipped, cand, owner, age, tok, seen, todo, attempt>>

\* ... and the directory, which another publisher may have replaced.
Rmdir(p) ==
  /\ Retry(p, "rmdir", "rename")
  /\ RemoveEmpty
  /\ seen' = [seen EXCEPT ![p] = NoToken]
  /\ UNCHANGED <<live, slipped, cand, owner, age, tok, todo>>

\* mutant: any regular file will do
LegacyUnchecked(p) ==
  /\ \/ /\ canon \in Legacies
        /\ Goto(p, "legacyCheck", "legacyUnlink")
        /\ UNCHANGED <<seen, attempt>>
     \/ /\ canon \notin Legacies
        /\ Retry(p, "legacyCheck", "rename")
        /\ seen' = [seen EXCEPT ![p] = NoToken]
  /\ UNCHANGED <<canon, live, slipped, cand, owner, age, tok, todo>>

\* reclaimLegacy() reads the file again: only the record that was judged ...
LegacyCheck(p) ==
  /\ \/ /\ canon = seen[p]
        /\ Goto(p, "legacyCheck", "legacyUnlink")
        /\ UNCHANGED <<seen, attempt>>
     \/ /\ canon # seen[p]
        /\ Retry(p, "legacyCheck", "rename")
        /\ seen' = [seen EXCEPT ![p] = NoToken]
  /\ UNCHANGED <<canon, live, slipped, cand, owner, age, tok, todo>>

\* ... and then unlinks the lock path, which takes whatever regular file is
\* there by now and does nothing to a directory.
ReclaimLegacy(p) ==
  /\ Retry(p, "legacyUnlink", "rename")
  /\ canon' = IF canon \in Legacies THEN "missing" ELSE canon
  /\ seen' = [seen EXCEPT ![p] = NoToken]
  /\ UNCHANGED <<live, slipped, cand, owner, age, tok, todo>>

\* The guarded function returns or throws.
Leave(p) ==
  /\ Goto(p, "inside", "release")
  /\ UNCHANGED <<canon, live, slipped, cand, owner, age, tok, seen, todo, attempt>>

\* mutant: the owner file is removed whosever it is
ReleaseAny(p) ==
  /\ Goto(p, "release", "releaseRmdir")
  /\ canon' = IF canon \in Tokens THEN "empty" ELSE canon
  /\ UNCHANGED <<live, slipped, cand, owner, age, tok, seen, todo, attempt>>

\* release(): its own owner file, if it is still there ...
Release(p) ==
  /\ Goto(p, "release", "releaseRmdir")
  /\ canon' = IF canon = tok[p] THEN "empty" ELSE canon
  /\ UNCHANGED <<live, slipped, cand, owner, age, tok, seen, todo, attempt>>

\* ... and the directory in either case.
ReleaseRmdir(p) ==
  /\ Goto(p, "releaseRmdir", "idle")
  /\ RemoveEmpty
  /\ Return(p)
  /\ UNCHANGED <<live, slipped, cand, owner, age, todo, attempt>>

\* removeCandidate() and the caller's error.
GiveUp(p) ==
  /\ Goto(p, "giveUp", "idle")
  /\ cand' = [t \in Tokens |-> IF t = tok[p] THEN "none" ELSE cand[t]]
  /\ Return(p)
  /\ UNCHANGED <<canon, live, slipped, owner, age, todo, attempt>>

------------------------------------------------------------------------------
\* A system call fails in a way the protocol does not expect.  Before the
\* publication the candidate is removed ...
FaultBefore(p) ==
  /\ Faults
  /\ \E from \in {"record", "rename", "unlink", "rmdir"} : Goto(p, from, "giveUp")
  /\ UNCHANGED <<canon, live, slipped, cand, owner, age, tok, seen, todo, attempt>>

\* ... unless it was the inspection or a legacy reclaim that failed: the
\* error leaves the function with the candidate in place.  The owner file
\* also stays when release() cannot unlink it.
FaultLeak(p) ==
  /\ Faults
  /\ \E from \in {"inspect", "legacyCheck", "legacyUnlink", "release"} :
       Goto(p, from, "idle")
  /\ Return(p)
  /\ UNCHANGED <<canon, live, slipped, cand, owner, age, todo, attempt>>

\* After the publication (lstat or the fsync of the parent) it releases.
FaultAfter(p) ==
  /\ Faults
  /\ Goto(p, "selfCheck", "release")
  /\ UNCHANGED <<canon, live, slipped, cand, owner, age, tok, seen, todo, attempt>>

\* The process dies; its files stay.
Crash(p) ==
  /\ pc[p] # "dead"
  /\ pc' = [pc EXCEPT ![p] = "dead"]
  /\ todo' = [todo EXCEPT ![p] = {}]
  /\ Return(p)
  /\ UNCHANGED <<canon, live, slipped, cand, owner, age, attempt>>

\* Time passes for the files of token t.  Of a record at the lock path it only
\* matters whether it has reached LockMaxAge; a v0.0.2 record whose owner is
\* gone is stale at any age.
Tick(t) ==
  /\ age[t] < MaxAge
  /\ t \in Legacies => t \in live
  /\ canon = t => age[t] < LockMaxAge
  /\ canon = t \/ (t \in Tokens /\ cand[t] # "none")
  /\ age' = [age EXCEPT ![t] = @ + 1]
  /\ UNCHANGED <<canon, live, slipped, cand, owner, pc, tok, seen, todo, attempt>>

\* A v0.0.2 process links its file, under a token nobody remembers, to a lock
\* path where nothing is.
LegacyLink(l) ==
  /\ canon = "missing"
  /\ l \notin live
  /\ \A q \in Procs : seen[q] # l
  /\ canon' = l
  /\ live' = live \cup {l}
  /\ slipped' = IF \E q \in Procs : pc[q] = "legacyUnlink"
                  THEN slipped \cup {l} ELSE slipped
  /\ age' = [age EXCEPT ![l] = 0]
  /\ UNCHANGED <<cand, owner, pc, tok, seen, todo, attempt>>

\* It releases its lock, or it dies and leaves the file.
LegacyStop(l) ==
  /\ l \in live
  /\ live' = live \ {l}
  /\ canon' \in {canon, IF canon = l THEN "missing" ELSE canon}
  /\ slipped' = slipped \ {l}
  /\ UNCHANGED <<cand, owner, age, pc, tok, seen, todo, attempt>>

Step(p) ==
  \/ GcUnlink(p) \/ GcRmdir(p) \/ Build(p) \/ WriteRecord(p) \/ Rename(p)
  \/ SelfCheck(p) \/ SelfRmdir(p) \/ Inspect(p) \/ Unlink(p) \/ Rmdir(p)
  \/ LegacyCheck(p) \/ ReclaimLegacy(p)
  \/ Leave(p) \/ Release(p) \/ ReleaseRmdir(p) \/ GiveUp(p)

Next ==
  \/ \E p \in Procs : \/ Call(p) \/ Step(p) \/ Crash(p)
                     \/ FaultBefore(p) \/ FaultLeak(p) \/ FaultAfter(p)
  \/ \E t \in Records : Tick(t)
  \/ \E l \in Legacies : LegacyLink(l) \/ LegacyStop(l)

Spec == Init /\ [][Next]_vars

\* withDirectoryLock is a synchronous loop: a process that is scheduled and
\* alive goes on, and the functions it guards return.
FairSpec == Spec /\ \A p \in Procs : WF_vars(Step(p))

------------------------------------------------------------------------------
\* Two callers run their guarded functions at the same time only where
\* live owners may be reclaimed, and only when one has held the lock for
\* LOCK_MAX_AGE_MS (LOCK_MAX_AGE_MS, reclaimLiveAfterAge).
MutualExclusion ==
  \A p, q \in Procs :
    pc[p] = "inside" /\ pc[q] = "inside" /\ p # q =>
      /\ ReclaimLive
      /\ age[tok[p]] >= LockMaxAge \/ age[tok[q]] >= LockMaxAge

\* Nobody runs the guarded function beside a live v0.0.2 owner, unless live
\* owners may be reclaimed and one of the two is overdue, or the v0.0.2 owner
\* took the path in the middle of another process's reclaimLegacy, after the
\* second reading: a file that replaced the judged one is not unlinked.
LegacyExclusion ==
  \A l \in Legacies, p \in Procs :
    l \in live /\ pc[p] = "inside" =>
      \/ l \in slipped
      \/ ReclaimLive /\ (age[l] >= LockMaxAge \/ age[tok[p]] >= LockMaxAge)

\* An owner file leaves the lock path only by the hand of its own process
\* on its way out, or once its process is stale, however long ago another
\* process formed that judgment (afterStaleJudgment ... unlinkSync).
RemovalJustified ==
  [][\A t \in Tokens :
       canon = t /\ canon' # t => Stale(t) \/ pc[owner[t]] = "release"]_vars

\* The lock is a lock: every step is a step of LockService or invisible.
holder == IF canon \in Tokens THEN owner[canon] ELSE NoProc
overdue == canon \in Tokens /\ age[canon] >= LockMaxAge
inside == {p \in Procs : pc[p] = "inside"}
dead == {p \in Procs : pc[p] = "dead"}

Service == INSTANCE LockService
             WITH Procs <- Procs, NoProc <- NoProc, ReclaimLive <- ReclaimLive,
                  holder <- holder, overdue <- overdue,
                  inside <- inside, dead <- dead
ImplementsLock == Service!Spec

\* A call ends: with the function's result or with the caller's error after
\* MAX_ATTEMPTS attempts, whatever the other processes do.
CallReturns ==
  \A p \in Procs :
    pc[p] \notin {"idle", "dead"} ~> pc[p] \in {"idle", "dead"}

\* A process that starts to publish while the lock belongs to a dead process
\* gets that process's lock out of the way before it gives up.
DeadOwnerReclaimed ==
  \A p \in Procs, t \in Tokens :
    /\ pc[p] = "rename"
    /\ canon = t
    /\ Stale(t)
    /\ attempt[p] < MaxAttempts
    /\ cand[tok[p]] # "none"
    ~> canon # t \/ pc[p] = "dead"
==============================================================================
