----------------------------- MODULE LockService -----------------------------
(***************************************************************************)
(* What withDirectoryLock promises its callers: the lock has one owner at  *)
(* a time, only the owner starts the guarded function, the owner gives the *)
(* lock up after the function has ended, and somebody else may take it     *)
(* away only once the owner has died or, where the callers allow it, is    *)
(* overdue.  An overdue owner may go on with its function: that two        *)
(* functions never overlap is promised only where nobody allows it.        *)
(***************************************************************************)
CONSTANTS Procs,        \* the processes that may ask for the lock
          NoProc,       \* "nobody"
          ReclaimLive   \* an overdue owner may lose the lock alive

VARIABLES holder,   \* the process that owns the lock, or NoProc
          overdue,  \* its record is LOCK_MAX_AGE_MS old
          inside,   \* the processes that are running the guarded function
          dead      \* the processes that have died

vars == <<holder, overdue, inside, dead>>

Init ==
  /\ holder = NoProc
  /\ overdue = FALSE
  /\ inside = {}
  /\ dead = {}

\* The record is dated when it is built, so it may be old on arrival.
Acquire(p) ==
  /\ holder = NoProc
  /\ p \notin dead \cup inside
  /\ holder' = p
  /\ overdue' \in BOOLEAN
  /\ UNCHANGED <<inside, dead>>

Enter(p) ==
  /\ holder = p
  /\ inside' = inside \cup {p}
  /\ UNCHANGED <<holder, overdue, dead>>

Leave(p) ==
  /\ p \in inside
  /\ inside' = inside \ {p}
  /\ UNCHANGED <<holder, overdue, dead>>

Free ==
  /\ holder' = NoProc
  /\ overdue' = FALSE
  /\ UNCHANGED <<inside, dead>>

Release(p) ==
  /\ holder = p
  /\ p \notin inside
  /\ Free

Die(p) ==
  /\ dead' = dead \cup {p}
  /\ inside' = inside \ {p}
  /\ UNCHANGED <<holder, overdue>>

Lapse ==
  /\ holder # NoProc
  /\ overdue' = TRUE
  /\ UNCHANGED <<holder, inside, dead>>

Reclaim ==
  /\ holder \in dead \/ (ReclaimLive /\ overdue)
  /\ Free

Next ==
  \/ \E p \in Procs : Acquire(p) \/ Enter(p) \/ Leave(p) \/ Release(p) \/ Die(p)
  \/ Lapse \/ Reclaim

Spec == Init /\ [][Next]_vars
==============================================================================
