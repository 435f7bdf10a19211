---------------------------- MODULE DirLockProofs ----------------------------
(***************************************************************************)
(* Proofs about DirLock for every set of processes and tokens and every    *)
(* number of attempts, with and without the reclaiming of live owners.     *)
(*                                                                         *)
(* Everything rests on one fact the code relies on without saying so: a    *)
(* judgment "stale" never becomes wrong.  The inductive invariant records  *)
(* it where the code acts on it (Judged), together with what it protects   *)
(* (Held) and whose token is whose (Owned).                                *)
(***************************************************************************)
EXTENDS DirLock, TLAPS

\* The labels at which a process has a candidate or a published lock.
WithToken == {"record", "rename", "selfCheck", "selfRmdir", "inspect", "unlink",
              "rmdir", "legacyCheck", "legacyUnlink", "inside", "release",
              "releaseRmdir", "giveUp"}

\* A process's token is a token it has drawn itself.
Owned ==
  \A p \in Procs :
    /\ tok[p] # NoToken => owner[tok[p]] = p
    /\ pc[p] \in WithToken => tok[p] # NoToken

\* What a process is about to unlink is still stale.
Judged ==
  \A p \in Procs :
    /\ pc[p] = "unlink" => seen[p] \in Tokens /\ Stale(seen[p])
    /\ pc[p] = "gcRmdir" => seen[p] \in Tokens
    /\ pc[p] \in {"legacyCheck", "legacyUnlink"} =>
         seen[p] \in Legacies /\ StaleLegacy(seen[p])

\* Who runs the guarded function has its owner file at the lock path, or
\* has lost it because it was stale.
Held == \A p \in Procs : pc[p] = "inside" => canon = tok[p] \/ Stale(tok[p])

\* A process about to unlink a regular file would unlink the one it judged,
\* one that came after its second reading, or one whose owner is gone.
Aimed ==
  \A p \in Procs : pc[p] = "legacyUnlink" /\ canon \in live \ slipped =>
                    canon = seen[p]

\* A live v0.0.2 owner has its file at the lock path, unless it is overdue
\* or came into somebody's second reading.
LegacyHeld == \A l \in live \ slipped : canon = l \/ StaleLegacy(l)

\* An owner file at the lock path was put there by a process.
Signed == canon \in Tokens => owner[canon] \in Procs

IInv == TypeOK /\ Owned /\ Judged /\ Held /\ Aimed /\ LegacyHeld
        /\ Signed

USE DEF Labels, Shapes, Records

\* The initial state has every part of the invariant.
THEOREM InitIInv == Init => IInv
<1> SUFFICES ASSUME Init PROVE IInv
  OBVIOUS
<1>1. TypeOK
  BY AttemptAssumption DEF Init, TypeOK
<1>2. Owned /\ Judged /\ Held
  BY DEF Init, Owned, Judged, Held, WithToken
<1>3. Aimed /\ LegacyHeld
  BY DEF Init, Aimed, LegacyHeld
<1>4. Signed
  BY TokenAssumption DEF Init, Signed
<1> QED
  BY <1>1, <1>2, <1>3, <1>4 DEF IInv

\* The kinds and ranges of the variables survive every step.
THEOREM TypeStep == TypeOK /\ Owned /\ Judged /\ [Next]_vars => TypeOK'
<1> SUFFICES ASSUME TypeOK, Owned, Judged, [Next]_vars PROVE TypeOK'
  OBVIOUS
<1> USE TokenAssumption, ProcAssumption, AttemptAssumption, AgeAssumption
    DEF TypeOK, Goto
<1>1. ASSUME NEW p \in Procs, Call(p) PROVE TypeOK'
  BY <1>1 DEF Call
<1>2. ASSUME NEW p \in Procs, GcUnlink(p) PROVE TypeOK'
  BY <1>2 DEF GcUnlink
<1>3. ASSUME NEW p \in Procs, GcRmdir(p) PROVE TypeOK'
  BY <1>3 DEF GcRmdir, Judged
<1>4. ASSUME NEW p \in Procs, Build(p) PROVE TypeOK'
  BY <1>4 DEF Build
<1>5. ASSUME NEW p \in Procs, WriteRecord(p) PROVE TypeOK'
  BY <1>5 DEF WriteRecord
<1>6. ASSUME NEW p \in Procs, Rename(p) PROVE TypeOK'
  BY <1>6 DEF Rename, Retry, Owned, WithToken
<1>7. ASSUME NEW p \in Procs, SelfCheck(p) PROVE TypeOK'
  BY <1>7 DEF SelfCheck
<1>8. ASSUME NEW p \in Procs, SelfRmdir(p) PROVE TypeOK'
  BY <1>8 DEF SelfRmdir, Retry, RemoveEmpty
<1>9. ASSUME NEW p \in Procs, Inspect(p) PROVE TypeOK'
  BY <1>9 DEF Inspect, Retry
<1>10. ASSUME NEW p \in Procs, Unlink(p) PROVE TypeOK'
  BY <1>10 DEF Unlink
<1>11. ASSUME NEW p \in Procs, Rmdir(p) PROVE TypeOK'
  BY <1>11 DEF Rmdir, Retry, RemoveEmpty
<1>12. ASSUME NEW p \in Procs, LegacyCheck(p) \/ ReclaimLegacy(p)
      PROVE  TypeOK'
  BY <1>12 DEF LegacyCheck, ReclaimLegacy, Retry
<1>13. ASSUME NEW p \in Procs, Leave(p) PROVE TypeOK'
  BY <1>13 DEF Leave
<1>14. ASSUME NEW p \in Procs, Release(p) PROVE TypeOK'
  BY <1>14 DEF Release
<1>15. ASSUME NEW p \in Procs, ReleaseRmdir(p) PROVE TypeOK'
  BY <1>15 DEF ReleaseRmdir, RemoveEmpty, Return
<1>16. ASSUME NEW p \in Procs, GiveUp(p) PROVE TypeOK'
  BY <1>16 DEF GiveUp, Return
<1>17. ASSUME NEW p \in Procs, Crash(p) PROVE TypeOK'
  BY <1>17 DEF Crash, Return
<1>18. ASSUME NEW p \in Procs, FaultBefore(p) \/ FaultLeak(p) \/ FaultAfter(p)
       PROVE TypeOK'
  BY <1>18 DEF FaultBefore, FaultLeak, FaultAfter, Return
<1>19. ASSUME NEW t \in Records, Tick(t) PROVE TypeOK'
  BY <1>19 DEF Tick
<1>20. CASE \E l \in Legacies : LegacyLink(l) \/ LegacyStop(l)
  BY <1>20 DEF LegacyLink, LegacyStop
<1>21. CASE UNCHANGED vars
  BY <1>21 DEF vars
<1> QED
  BY <1>1, <1>2, <1>3, <1>4, <1>5, <1>6, <1>7, <1>8, <1>9, <1>10, <1>11, <1>12,
     <1>13, <1>14, <1>15, <1>16, <1>17, <1>18, <1>19, <1>20, <1>21
  DEF Next, Step

------------------------------------------------------------------------------
\* A token that some process uses, or that is at the lock path, is not drawn
\* again, so a record once stale is stale for as long as anybody remembers it.
InUse(t) ==
  \/ canon = t
  \/ \E q \in Procs : pc[q] \notin {"gc", "build"} /\ (tok[q] = t \/ seen[q] = t)

LEMMA StaleStays ==
  ASSUME TypeOK, [Next]_vars, NEW t \in Tokens, Stale(t),
         InUse(t)
  PROVE  Stale(t)'
<1> USE DEF TypeOK, Goto, Stale, LockMaxAge
<1>1. ASSUME NEW p \in Procs, Call(p) PROVE Stale(t)'
  BY <1>1 DEF Call
<1>2. ASSUME NEW p \in Procs, GcUnlink(p) \/ GcRmdir(p) PROVE Stale(t)'
  BY <1>2 DEF GcUnlink, GcRmdir
<1>3. ASSUME NEW p \in Procs, Build(p) PROVE Stale(t)'
  <2>1. PICK u \in Tokens : /\ Fresh(p, u)
                            /\ owner' = [owner EXCEPT ![u] = p]
                            /\ age' = [age EXCEPT ![u] = 0]
    BY <1>3 DEF Build
  <2>2. u # t
    BY <1>3, <2>1 DEF Build, Fresh, InUse
  <2>3. owner'[t] = owner[t] /\ age'[t] = age[t]
    BY <2>1, <2>2
  <2> QED
    BY <1>3, <2>3 DEF Build
<1>4. ASSUME NEW p \in Procs, WriteRecord(p) \/ Rename(p) PROVE Stale(t)'
  BY <1>4 DEF WriteRecord, Rename, Retry
<1>5. ASSUME NEW p \in Procs, SelfCheck(p) \/ SelfRmdir(p) \/ Inspect(p)
      PROVE Stale(t)'
  BY <1>5 DEF SelfCheck, SelfRmdir, Inspect, Retry
<1>6. ASSUME NEW p \in Procs,
             Unlink(p) \/ Rmdir(p) \/ LegacyCheck(p) \/ ReclaimLegacy(p)
      PROVE Stale(t)'
  BY <1>6 DEF Unlink, Rmdir, LegacyCheck, ReclaimLegacy, Retry
<1>7. ASSUME NEW p \in Procs,
             Leave(p) \/ Release(p) \/ ReleaseRmdir(p) \/ GiveUp(p)
      PROVE Stale(t)'
  BY <1>7 DEF Leave, Release, ReleaseRmdir, GiveUp
<1>8. ASSUME NEW p \in Procs, Crash(p) PROVE Stale(t)'
  BY <1>8 DEF Crash
<1>9. ASSUME NEW p \in Procs, FaultBefore(p) \/ FaultLeak(p) \/ FaultAfter(p)
      PROVE Stale(t)'
  BY <1>9 DEF FaultBefore, FaultLeak, FaultAfter
<1>10. ASSUME NEW u \in Records, Tick(u) PROVE Stale(t)'
  <2>1. age'[t] \in {age[t], age[t] + 1} /\ age[t] \in 0..2
    BY <1>10 DEF Tick
  <2> QED
    BY <1>10, <2>1 DEF Tick
<1>11. CASE \E l \in Legacies : LegacyLink(l) \/ LegacyStop(l)
  BY <1>11, LegacyAssumption DEF LegacyLink, LegacyStop
<1>12. CASE UNCHANGED vars
  BY <1>12 DEF vars
<1> QED
  BY <1>1, <1>2, <1>3, <1>4, <1>5, <1>6, <1>7, <1>8, <1>9, <1>10, <1>11, <1>12
  DEF Next, Step

\* Every process keeps the token it drew until its call is over.
LEMMA OwnedStep == IInv /\ [Next]_vars => Owned'
<1> SUFFICES ASSUME IInv, [Next]_vars PROVE Owned'
  OBVIOUS
<1> USE TokenAssumption DEF IInv, TypeOK, Owned, WithToken, Goto
<1>1. ASSUME NEW p \in Procs, Call(p) PROVE Owned'
  BY <1>1 DEF Call
<1>2. ASSUME NEW p \in Procs, GcUnlink(p) PROVE Owned'
  BY <1>2 DEF GcUnlink
<1>3. ASSUME NEW p \in Procs, GcRmdir(p) PROVE Owned'
  BY <1>3 DEF GcRmdir
<1>4. ASSUME NEW p \in Procs, Build(p) PROVE Owned'
  BY <1>4 DEF Build, Fresh
<1>5. ASSUME NEW p \in Procs, WriteRecord(p) PROVE Owned'
  BY <1>5 DEF WriteRecord
<1>6. ASSUME NEW p \in Procs, Rename(p) PROVE Owned'
  BY <1>6 DEF Rename, Retry
<1>7. ASSUME NEW p \in Procs, SelfCheck(p) PROVE Owned'
  BY <1>7 DEF SelfCheck
<1>8. ASSUME NEW p \in Procs, SelfRmdir(p) PROVE Owned'
  BY <1>8 DEF SelfRmdir, Retry, RemoveEmpty
<1>9. ASSUME NEW p \in Procs, Inspect(p) PROVE Owned'
  BY <1>9 DEF Inspect, Retry
<1>10. ASSUME NEW p \in Procs, Unlink(p) PROVE Owned'
  BY <1>10 DEF Unlink
<1>11. ASSUME NEW p \in Procs, Rmdir(p) PROVE Owned'
  BY <1>11 DEF Rmdir, Retry, RemoveEmpty
<1>12. ASSUME NEW p \in Procs, LegacyCheck(p) \/ ReclaimLegacy(p)
      PROVE  Owned'
  BY <1>12 DEF LegacyCheck, ReclaimLegacy, Retry
<1>13. ASSUME NEW p \in Procs, Leave(p) PROVE Owned'
  BY <1>13 DEF Leave
<1>14. ASSUME NEW p \in Procs, Release(p) PROVE Owned'
  BY <1>14 DEF Release
<1>15. ASSUME NEW p \in Procs, ReleaseRmdir(p) PROVE Owned'
  BY <1>15 DEF ReleaseRmdir, RemoveEmpty, Return
<1>16. ASSUME NEW p \in Procs, GiveUp(p) PROVE Owned'
  BY <1>16 DEF GiveUp, Return
<1>17. ASSUME NEW p \in Procs, Crash(p) PROVE Owned'
  BY <1>17 DEF Crash, Return
<1>18. ASSUME NEW p \in Procs, FaultBefore(p) \/ FaultLeak(p) \/ FaultAfter(p)
      PROVE Owned'
  BY <1>18 DEF FaultBefore, FaultLeak, FaultAfter, Return
<1>19. ASSUME NEW t \in Records, Tick(t) PROVE Owned'
  BY <1>19 DEF Tick
<1>20. CASE \E l \in Legacies : LegacyLink(l) \/ LegacyStop(l)
  BY <1>20 DEF LegacyLink, LegacyStop
<1>21. CASE UNCHANGED vars
  BY <1>21 DEF vars
<1> QED
  BY <1>1, <1>2, <1>3, <1>4, <1>5, <1>6, <1>7, <1>8, <1>9, <1>10, <1>11, <1>12,
     <1>13, <1>14, <1>15, <1>16, <1>17, <1>18, <1>19, <1>20, <1>21
  DEF Next, Step

\* Where a process is about to unlink after a step, it was before the step
\* that the owner it has seen was stale, and its token was in use.
LEMMA JudgedBefore ==
  ASSUME IInv, [Next]_vars, NEW q \in Procs, pc'[q] = "unlink"
  PROVE  \E u \in Tokens : u = seen'[q] /\ Stale(u) /\ InUse(u)
<1> DEFINE Goal == \E u \in Tokens : u = seen'[q] /\ Stale(u) /\ InUse(u)
<1> USE TokenAssumption DEF IInv, TypeOK, Judged, Goto, InUse
<1>1. ASSUME NEW p \in Procs, Call(p) PROVE Goal
  BY <1>1 DEF Call
<1>2. ASSUME NEW p \in Procs, GcUnlink(p) PROVE Goal
  BY <1>2 DEF GcUnlink
<1>3. ASSUME NEW p \in Procs, GcRmdir(p) PROVE Goal
  BY <1>3 DEF GcRmdir
<1>4. ASSUME NEW p \in Procs, Build(p) PROVE Goal
  BY <1>4 DEF Build, Fresh
<1>5. ASSUME NEW p \in Procs, WriteRecord(p) PROVE Goal
  BY <1>5 DEF WriteRecord
<1>6. ASSUME NEW p \in Procs, Rename(p) PROVE Goal
  BY <1>6 DEF Rename, Retry
<1>7. ASSUME NEW p \in Procs, SelfCheck(p) PROVE Goal
  BY <1>7 DEF SelfCheck
<1>8. ASSUME NEW p \in Procs, SelfRmdir(p) PROVE Goal
  BY <1>8 DEF SelfRmdir, Retry, RemoveEmpty
<1>9. ASSUME NEW p \in Procs, Inspect(p) PROVE Goal
  BY <1>9 DEF Inspect, Retry
<1>10. ASSUME NEW p \in Procs, Unlink(p) PROVE Goal
  BY <1>10 DEF Unlink
<1>11. ASSUME NEW p \in Procs, Rmdir(p) PROVE Goal
  BY <1>11 DEF Rmdir, Retry, RemoveEmpty
<1>12. ASSUME NEW p \in Procs, LegacyCheck(p) \/ ReclaimLegacy(p)
      PROVE  Goal
  BY <1>12 DEF LegacyCheck, ReclaimLegacy, Retry
<1>13. ASSUME NEW p \in Procs, Leave(p) PROVE Goal
  BY <1>13 DEF Leave
<1>14. ASSUME NEW p \in Procs, Release(p) PROVE Goal
  BY <1>14 DEF Release
<1>15. ASSUME NEW p \in Procs, ReleaseRmdir(p) PROVE Goal
  BY <1>15 DEF ReleaseRmdir, RemoveEmpty, Return
<1>16. ASSUME NEW p \in Procs, GiveUp(p) PROVE Goal
  BY <1>16 DEF GiveUp, Return
<1>17. ASSUME NEW p \in Procs, Crash(p) PROVE Goal
  BY <1>17 DEF Crash, Return
<1>18. ASSUME NEW p \in Procs, FaultBefore(p) \/ FaultLeak(p) \/ FaultAfter(p)
      PROVE Goal
  BY <1>18 DEF FaultBefore, FaultLeak, FaultAfter, Return
<1>19. ASSUME NEW t \in Records, Tick(t) PROVE Goal
  BY <1>19 DEF Tick
<1>20. CASE \E l \in Legacies : LegacyLink(l) \/ LegacyStop(l)
  BY <1>20 DEF LegacyLink, LegacyStop
<1>21. CASE UNCHANGED vars
  BY <1>21 DEF vars
<1> QED
  BY <1>1, <1>2, <1>3, <1>4, <1>5, <1>6, <1>7, <1>8, <1>9, <1>10, <1>11, <1>12,
     <1>13, <1>14, <1>15, <1>16, <1>17, <1>18, <1>19, <1>20, <1>21
  DEF Next, Step

\* A judgment stays right until it is acted on.
LEMMA JudgedStep == IInv /\ [Next]_vars => Judged'
<1> SUFFICES ASSUME IInv, [Next]_vars, NEW q \in Procs
             PROVE  /\ pc'[q] = "unlink" => seen'[q] \in Tokens /\ Stale(seen[q])'
                    /\ pc'[q] = "gcRmdir" => seen'[q] \in Tokens
                    /\ pc'[q] \in {"legacyCheck", "legacyUnlink"} =>
                         seen'[q] \in Legacies /\ StaleLegacy(seen[q])'
  BY DEF Judged
<1>a. ASSUME pc'[q] = "unlink" PROVE seen'[q] \in Tokens /\ Stale(seen[q])'
  <2>1. PICK u \in Tokens : u = seen'[q] /\ Stale(u) /\ InUse(u)
    BY <1>a, JudgedBefore
  <2>2. Stale(u)'
    BY <2>1, StaleStays DEF IInv
  <2> QED
    BY <2>1, <2>2, TokenAssumption DEF Stale
<1> DEFINE Goal == /\ pc'[q] = "gcRmdir" => seen'[q] \in Tokens
                   /\ pc'[q] \in {"legacyCheck", "legacyUnlink"} =>
                        seen'[q] \in Legacies /\ StaleLegacy(seen[q])'
<1>b. Goal
  <2> USE TokenAssumption, LegacyAssumption
      DEF IInv, TypeOK, Judged, Goto, StaleLegacy, LockMaxAge
  <2>1. ASSUME NEW p \in Procs, Call(p) PROVE Goal
    BY <2>1 DEF Call
  <2>2. ASSUME NEW p \in Procs, GcUnlink(p) PROVE Goal
    BY <2>2 DEF GcUnlink
  <2>3. ASSUME NEW p \in Procs, GcRmdir(p) PROVE Goal
    BY <2>3 DEF GcRmdir
  <2>4. ASSUME NEW p \in Procs, Build(p) PROVE Goal
    BY <2>4 DEF Build, Fresh
  <2>5. ASSUME NEW p \in Procs, WriteRecord(p) PROVE Goal
    BY <2>5 DEF WriteRecord
  <2>6. ASSUME NEW p \in Procs, Rename(p) PROVE Goal
    BY <2>6 DEF Rename, Retry
  <2>7. ASSUME NEW p \in Procs, SelfCheck(p) PROVE Goal
    BY <2>7 DEF SelfCheck
  <2>8. ASSUME NEW p \in Procs, SelfRmdir(p) PROVE Goal
    BY <2>8 DEF SelfRmdir, Retry, RemoveEmpty
  <2>9. ASSUME NEW p \in Procs, Inspect(p) PROVE Goal
    BY <2>9 DEF Inspect, Retry
  <2>10. ASSUME NEW p \in Procs, Unlink(p) PROVE Goal
    BY <2>10 DEF Unlink
  <2>11. ASSUME NEW p \in Procs, Rmdir(p) PROVE Goal
    BY <2>11 DEF Rmdir, Retry, RemoveEmpty
  <2>12. ASSUME NEW p \in Procs, LegacyCheck(p) \/ ReclaimLegacy(p)
        PROVE  Goal
    BY <2>12 DEF LegacyCheck, ReclaimLegacy, Retry
  <2>13. ASSUME NEW p \in Procs, Leave(p) PROVE Goal
    BY <2>13 DEF Leave
  <2>14. ASSUME NEW p \in Procs, Release(p) PROVE Goal
    BY <2>14 DEF Release
  <2>15. ASSUME NEW p \in Procs, ReleaseRmdir(p) PROVE Goal
    BY <2>15 DEF ReleaseRmdir, RemoveEmpty, Return
  <2>16. ASSUME NEW p \in Procs, GiveUp(p) PROVE Goal
    BY <2>16 DEF GiveUp, Return
  <2>17. ASSUME NEW p \in Procs, Crash(p) PROVE Goal
    BY <2>17 DEF Crash, Return
  <2>18. ASSUME NEW p \in Procs, FaultBefore(p) \/ FaultLeak(p) \/ FaultAfter(p)
        PROVE Goal
    BY <2>18 DEF FaultBefore, FaultLeak, FaultAfter, Return
  <2>19. ASSUME NEW t \in Records, Tick(t) PROVE Goal
    BY <2>19 DEF Tick
  <2>20. CASE \E l \in Legacies : LegacyLink(l) \/ LegacyStop(l)
    BY <2>20 DEF LegacyLink, LegacyStop
  <2>21. CASE UNCHANGED vars
    BY <2>21 DEF vars
  <2> QED
    BY <2>1, <2>2, <2>3, <2>4, <2>5, <2>6, <2>7, <2>8, <2>9, <2>10, <2>11, <2>12,
       <2>13, <2>14, <2>15, <2>16, <2>17, <2>18, <2>19, <2>20, <2>21
    DEF Next, Step
<1> QED
  BY <1>a, <1>b

\* An owner file goes away by its owner's release or after its owner is stale.
LEMMA Removal ==
  ASSUME IInv, [Next]_vars, NEW u \in Tokens, canon = u, canon' # u
  PROVE  Stale(u) \/ pc[owner[u]] = "release"
<1> DEFINE Goal == Stale(u) \/ pc[owner[u]] = "release"
<1> USE TokenAssumption, LegacyAssumption
    DEF IInv, TypeOK, Owned, WithToken, Judged, Goto
<1>1. ASSUME NEW p \in Procs, Call(p) PROVE Goal
  BY <1>1 DEF Call
<1>2. ASSUME NEW p \in Procs, GcUnlink(p) PROVE Goal
  BY <1>2 DEF GcUnlink
<1>3. ASSUME NEW p \in Procs, GcRmdir(p) PROVE Goal
  BY <1>3 DEF GcRmdir
<1>4. ASSUME NEW p \in Procs, Build(p) PROVE Goal
  BY <1>4 DEF Build, Fresh
<1>5. ASSUME NEW p \in Procs, WriteRecord(p) PROVE Goal
  BY <1>5 DEF WriteRecord
<1>6. ASSUME NEW p \in Procs, Rename(p) PROVE Goal
  BY <1>6 DEF Rename, Retry
<1>7. ASSUME NEW p \in Procs, SelfCheck(p) PROVE Goal
  BY <1>7 DEF SelfCheck
<1>8. ASSUME NEW p \in Procs, SelfRmdir(p) PROVE Goal
  BY <1>8 DEF SelfRmdir, Retry, RemoveEmpty
<1>9. ASSUME NEW p \in Procs, Inspect(p) PROVE Goal
  BY <1>9 DEF Inspect, Retry
<1>10. ASSUME NEW p \in Procs, Unlink(p) PROVE Goal
  BY <1>10 DEF Unlink
<1>11. ASSUME NEW p \in Procs, Rmdir(p) PROVE Goal
  BY <1>11 DEF Rmdir, Retry, RemoveEmpty
<1>12. ASSUME NEW p \in Procs, LegacyCheck(p) \/ ReclaimLegacy(p)
      PROVE  Goal
  BY <1>12 DEF LegacyCheck, ReclaimLegacy, Retry
<1>13. ASSUME NEW p \in Procs, Leave(p) PROVE Goal
  BY <1>13 DEF Leave
<1>14. ASSUME NEW p \in Procs, Release(p) PROVE Goal
  BY <1>14 DEF Release
<1>15. ASSUME NEW p \in Procs, ReleaseRmdir(p) PROVE Goal
  BY <1>15 DEF ReleaseRmdir, RemoveEmpty, Return
<1>16. ASSUME NEW p \in Procs, GiveUp(p) PROVE Goal
  BY <1>16 DEF GiveUp, Return
<1>17. ASSUME NEW p \in Procs, Crash(p) PROVE Goal
  BY <1>17 DEF Crash, Return
<1>18. ASSUME NEW p \in Procs, FaultBefore(p) \/ FaultLeak(p) \/ FaultAfter(p)
      PROVE Goal
  BY <1>18 DEF FaultBefore, FaultLeak, FaultAfter, Return
<1>19. ASSUME NEW t \in Records, Tick(t) PROVE Goal
  BY <1>19 DEF Tick
<1>20. CASE \E l \in Legacies : LegacyLink(l) \/ LegacyStop(l)
  BY <1>20 DEF LegacyLink, LegacyStop
<1>21. CASE UNCHANGED vars
  BY <1>21 DEF vars
<1> QED
  BY <1>1, <1>2, <1>3, <1>4, <1>5, <1>6, <1>7, <1>8, <1>9, <1>10, <1>11, <1>12,
     <1>13, <1>14, <1>15, <1>16, <1>17, <1>18, <1>19, <1>20, <1>21
  DEF Next, Step

\* Who gets to run the function has seen its owner file at the lock path.
LEMMA EntersHolding ==
  ASSUME IInv, [Next]_vars, NEW q \in Procs, pc'[q] = "inside"
  PROVE  /\ tok'[q] = tok[q]
         /\ pc[q] = "inside" \/ canon' = tok[q]
<1> DEFINE Goal == tok'[q] = tok[q] /\ (pc[q] = "inside" \/ canon' = tok[q])
<1> USE DEF IInv, TypeOK, Goto
<1>1. ASSUME NEW p \in Procs, Call(p) PROVE Goal
  BY <1>1 DEF Call
<1>2. ASSUME NEW p \in Procs, GcUnlink(p) PROVE Goal
  BY <1>2 DEF GcUnlink
<1>3. ASSUME NEW p \in Procs, GcRmdir(p) PROVE Goal
  BY <1>3 DEF GcRmdir
<1>4. ASSUME NEW p \in Procs, Build(p) PROVE Goal
  BY <1>4 DEF Build, Fresh
<1>5. ASSUME NEW p \in Procs, WriteRecord(p) PROVE Goal
  BY <1>5 DEF WriteRecord
<1>6. ASSUME NEW p \in Procs, Rename(p) PROVE Goal
  BY <1>6 DEF Rename, Retry
<1>7. ASSUME NEW p \in Procs, SelfCheck(p) PROVE Goal
  BY <1>7 DEF SelfCheck
<1>8. ASSUME NEW p \in Procs, SelfRmdir(p) PROVE Goal
  BY <1>8 DEF SelfRmdir, Retry, RemoveEmpty
<1>9. ASSUME NEW p \in Procs, Inspect(p) PROVE Goal
  BY <1>9 DEF Inspect, Retry
<1>10. ASSUME NEW p \in Procs, Unlink(p) PROVE Goal
  BY <1>10 DEF Unlink
<1>11. ASSUME NEW p \in Procs, Rmdir(p) PROVE Goal
  BY <1>11 DEF Rmdir, Retry, RemoveEmpty
<1>12. ASSUME NEW p \in Procs, LegacyCheck(p) \/ ReclaimLegacy(p)
      PROVE  Goal
  BY <1>12 DEF LegacyCheck, ReclaimLegacy, Retry
<1>13. ASSUME NEW p \in Procs, Leave(p) PROVE Goal
  BY <1>13 DEF Leave
<1>14. ASSUME NEW p \in Procs, Release(p) PROVE Goal
  BY <1>14 DEF Release
<1>15. ASSUME NEW p \in Procs, ReleaseRmdir(p) PROVE Goal
  BY <1>15 DEF ReleaseRmdir, RemoveEmpty, Return
<1>16. ASSUME NEW p \in Procs, GiveUp(p) PROVE Goal
  BY <1>16 DEF GiveUp, Return
<1>17. ASSUME NEW p \in Procs, Crash(p) PROVE Goal
  BY <1>17 DEF Crash, Return
<1>18. ASSUME NEW p \in Procs, FaultBefore(p) \/ FaultLeak(p) \/ FaultAfter(p)
      PROVE Goal
  BY <1>18 DEF FaultBefore, FaultLeak, FaultAfter, Return
<1>19. ASSUME NEW t \in Records, Tick(t) PROVE Goal
  BY <1>19 DEF Tick
<1>20. CASE \E l \in Legacies : LegacyLink(l) \/ LegacyStop(l)
  BY <1>20 DEF LegacyLink, LegacyStop
<1>21. CASE UNCHANGED vars
  BY <1>21 DEF vars
<1> QED
  BY <1>1, <1>2, <1>3, <1>4, <1>5, <1>6, <1>7, <1>8, <1>9, <1>10, <1>11, <1>12,
     <1>13, <1>14, <1>15, <1>16, <1>17, <1>18, <1>19, <1>20, <1>21
  DEF Next, Step

\* Only a stale owner loses the lock while it runs the function.
LEMMA HeldStep == IInv /\ [Next]_vars => Held'
<1> SUFFICES ASSUME IInv, [Next]_vars, NEW q \in Procs, pc'[q] = "inside"
             PROVE  canon' = tok'[q] \/ Stale(tok[q])'
  BY DEF Held
<1>1. tok'[q] = tok[q] /\ (pc[q] = "inside" \/ canon' = tok[q])
  BY EntersHolding
<1>2. CASE pc[q] = "inside"
  <2>1. PICK u \in Tokens : u = tok[q] /\ owner[u] = q
    BY <1>2 DEF IInv, TypeOK, Owned, WithToken
  <2>2. InUse(u)
    BY <1>2, <2>1 DEF InUse
  <2>3. Stale(u) \/ canon' = u
    BY <1>2, <2>1, Removal DEF IInv, Held
  <2>4. Stale(u) => Stale(u)'
    BY <2>2, StaleStays DEF IInv
  <2> QED
    BY <1>1, <2>1, <2>3, <2>4 DEF Stale
<1> QED
  BY <1>1, <1>2

\* The second reading holds until the unlink for whatever took the path before.
LEMMA AimedStep == IInv /\ [Next]_vars => Aimed'
<1> SUFFICES ASSUME IInv, [Next]_vars, NEW q \in Procs,
                    pc'[q] = "legacyUnlink", canon' \in live' \ slipped'
             PROVE  canon' = seen'[q]
  BY DEF Aimed
<1> DEFINE Goal == canon' = seen'[q]
<1> USE TokenAssumption, LegacyAssumption DEF IInv, TypeOK, Aimed, Goto
<1>1. ASSUME NEW p \in Procs, Call(p) PROVE Goal
  BY <1>1 DEF Call
<1>2. ASSUME NEW p \in Procs, GcUnlink(p) PROVE Goal
  BY <1>2 DEF GcUnlink
<1>3. ASSUME NEW p \in Procs, GcRmdir(p) PROVE Goal
  BY <1>3 DEF GcRmdir
<1>4. ASSUME NEW p \in Procs, Build(p) PROVE Goal
  BY <1>4 DEF Build, Fresh
<1>5. ASSUME NEW p \in Procs, WriteRecord(p) PROVE Goal
  BY <1>5 DEF WriteRecord
<1>6. ASSUME NEW p \in Procs, Rename(p) PROVE Goal
  BY <1>6 DEF Rename, Retry
<1>7. ASSUME NEW p \in Procs, SelfCheck(p) PROVE Goal
  BY <1>7 DEF SelfCheck
<1>8. ASSUME NEW p \in Procs, SelfRmdir(p) PROVE Goal
  BY <1>8 DEF SelfRmdir, Retry, RemoveEmpty
<1>9. ASSUME NEW p \in Procs, Inspect(p) PROVE Goal
  BY <1>9 DEF Inspect, Retry
<1>10. ASSUME NEW p \in Procs, Unlink(p) PROVE Goal
  BY <1>10 DEF Unlink
<1>11. ASSUME NEW p \in Procs, Rmdir(p) PROVE Goal
  BY <1>11 DEF Rmdir, Retry, RemoveEmpty
<1>12. ASSUME NEW p \in Procs, LegacyCheck(p) \/ ReclaimLegacy(p)
      PROVE  Goal
  BY <1>12 DEF LegacyCheck, ReclaimLegacy, Retry
<1>13. ASSUME NEW p \in Procs, Leave(p) PROVE Goal
  BY <1>13 DEF Leave
<1>14. ASSUME NEW p \in Procs, Release(p) PROVE Goal
  BY <1>14 DEF Release
<1>15. ASSUME NEW p \in Procs, ReleaseRmdir(p) PROVE Goal
  BY <1>15 DEF ReleaseRmdir, RemoveEmpty, Return
<1>16. ASSUME NEW p \in Procs, GiveUp(p) PROVE Goal
  BY <1>16 DEF GiveUp, Return
<1>17. ASSUME NEW p \in Procs, Crash(p) PROVE Goal
  BY <1>17 DEF Crash, Return
<1>18. ASSUME NEW p \in Procs, FaultBefore(p) \/ FaultLeak(p) \/ FaultAfter(p)
      PROVE Goal
  BY <1>18 DEF FaultBefore, FaultLeak, FaultAfter, Return
<1>19. ASSUME NEW t \in Records, Tick(t) PROVE Goal
  BY <1>19 DEF Tick
<1>20. CASE \E l \in Legacies : LegacyLink(l) \/ LegacyStop(l)
  BY <1>20 DEF LegacyLink, LegacyStop
<1>21. CASE UNCHANGED vars
  BY <1>21 DEF vars
<1> QED
  BY <1>1, <1>2, <1>3, <1>4, <1>5, <1>6, <1>7, <1>8, <1>9, <1>10, <1>11, <1>12,
     <1>13, <1>14, <1>15, <1>16, <1>17, <1>18, <1>19, <1>20, <1>21
  DEF Next, Step

\* A live v0.0.2 lock is left alone by whoever has not judged that very lock.
LEMMA LegacyStep == IInv /\ [Next]_vars => LegacyHeld'
<1> SUFFICES ASSUME IInv, [Next]_vars, NEW l \in Legacies,
                    l \in live', l \notin slipped'
             PROVE  canon' = l \/ StaleLegacy(l)'
  BY TypeStep DEF IInv, TypeOK, LegacyHeld
<1> DEFINE Goal == canon' = l \/ StaleLegacy(l)'
<1> USE TokenAssumption, LegacyAssumption DEF IInv, TypeOK, Owned, WithToken,
                             LegacyHeld, Judged, Aimed, StaleLegacy,
                             LockMaxAge, Goto
<1>1. ASSUME NEW p \in Procs, Call(p) PROVE Goal
  BY <1>1 DEF Call
<1>2. ASSUME NEW p \in Procs, GcUnlink(p) PROVE Goal
  BY <1>2 DEF GcUnlink
<1>3. ASSUME NEW p \in Procs, GcRmdir(p) PROVE Goal
  BY <1>3 DEF GcRmdir
<1>4. ASSUME NEW p \in Procs, Build(p) PROVE Goal
  BY <1>4 DEF Build, Fresh
<1>5. ASSUME NEW p \in Procs, WriteRecord(p) PROVE Goal
  BY <1>5 DEF WriteRecord
<1>6. ASSUME NEW p \in Procs, Rename(p) PROVE Goal
  BY <1>6 DEF Rename, Retry
<1>7. ASSUME NEW p \in Procs, SelfCheck(p) PROVE Goal
  BY <1>7 DEF SelfCheck
<1>8. ASSUME NEW p \in Procs, SelfRmdir(p) PROVE Goal
  BY <1>8 DEF SelfRmdir, Retry, RemoveEmpty
<1>9. ASSUME NEW p \in Procs, Inspect(p) PROVE Goal
  BY <1>9 DEF Inspect, Retry
<1>10. ASSUME NEW p \in Procs, Unlink(p) PROVE Goal
  BY <1>10 DEF Unlink
<1>11. ASSUME NEW p \in Procs, Rmdir(p) PROVE Goal
  BY <1>11 DEF Rmdir, Retry, RemoveEmpty
<1>12. ASSUME NEW p \in Procs, LegacyCheck(p) \/ ReclaimLegacy(p)
      PROVE  Goal
  BY <1>12 DEF LegacyCheck, ReclaimLegacy, Retry
<1>13. ASSUME NEW p \in Procs, Leave(p) PROVE Goal
  BY <1>13 DEF Leave
<1>14. ASSUME NEW p \in Procs, Release(p) PROVE Goal
  BY <1>14 DEF Release
<1>15. ASSUME NEW p \in Procs, ReleaseRmdir(p) PROVE Goal
  BY <1>15 DEF ReleaseRmdir, RemoveEmpty, Return
<1>16. ASSUME NEW p \in Procs, GiveUp(p) PROVE Goal
  BY <1>16 DEF GiveUp, Return
<1>17. ASSUME NEW p \in Procs, Crash(p) PROVE Goal
  BY <1>17 DEF Crash, Return
<1>18. ASSUME NEW p \in Procs, FaultBefore(p) \/ FaultLeak(p) \/ FaultAfter(p)
      PROVE Goal
  BY <1>18 DEF FaultBefore, FaultLeak, FaultAfter, Return
<1>19. ASSUME NEW t \in Records, Tick(t) PROVE Goal
  BY <1>19 DEF Tick
<1>20. CASE \E k \in Legacies : LegacyLink(k) \/ LegacyStop(k)
  BY <1>20 DEF LegacyLink, LegacyStop
<1>21. CASE UNCHANGED vars
  BY <1>21 DEF vars
<1> QED
  BY <1>1, <1>2, <1>3, <1>4, <1>5, <1>6, <1>7, <1>8, <1>9, <1>10, <1>11, <1>12,
     <1>13, <1>14, <1>15, <1>16, <1>17, <1>18, <1>19, <1>20, <1>21
  DEF Next, Step

\* Only a process that has signed its candidate publishes it.
LEMMA SignedStep == IInv /\ [Next]_vars => Signed'
<1> SUFFICES ASSUME IInv, [Next]_vars, canon' \in Tokens
             PROVE  owner'[canon'] \in Procs
  BY DEF Signed
<1> USE TokenAssumption DEF IInv, TypeOK
<1>1. CASE canon' = canon /\ owner' = owner
  BY <1>1 DEF Signed
<1>2. ASSUME NEW p \in Procs, Build(p) PROVE owner'[canon'] \in Procs
  BY <1>2 DEF Build, Signed
<1>3. ASSUME NEW p \in Procs, Rename(p), canon' # canon
      PROVE  owner'[canon'] \in Procs
  <2>1. canon' = tok[p] /\ owner' = owner /\ pc[p] = "rename"
    BY <1>3 DEF Rename
  <2> QED
    BY <2>1 DEF Owned, WithToken
<1>4. ASSUME NEW p \in Procs, ~Build(p), ~Rename(p),
             Call(p) \/ Step(p) \/ Crash(p) \/ FaultBefore(p) \/ FaultLeak(p)
               \/ FaultAfter(p)
      PROVE  canon' = canon /\ owner' = owner
  BY <1>4 DEF Call, Step, GcUnlink, GcRmdir, WriteRecord, SelfCheck, SelfRmdir,
     Inspect, Unlink, Rmdir, LegacyCheck, ReclaimLegacy, Leave, Release,
     ReleaseRmdir, GiveUp,
     Crash, FaultBefore, FaultLeak, FaultAfter, RemoveEmpty
<1>5. CASE \/ \E l \in Legacies : LegacyLink(l) \/ LegacyStop(l)
           \/ \E t \in Records : Tick(t)
           \/ UNCHANGED vars
  BY <1>1, <1>5, LegacyAssumption DEF LegacyLink, LegacyStop, Tick, vars
<1>6. ASSUME NEW p \in Procs, Rename(p) PROVE owner' = owner
  BY <1>6 DEF Rename
<1> QED
  BY <1>1, <1>2, <1>3, <1>4, <1>5, <1>6 DEF Next, Step

\* Every reachable state has the invariant.
THEOREM Invariance == Spec => []IInv
<1>1. IInv /\ [Next]_vars => IInv'
  BY TypeStep, OwnedStep, JudgedStep, HeldStep, AimedStep, LegacyStep, SignedStep
  DEF IInv
<1> QED
  BY <1>1, InitIInv, PTL DEF Spec

------------------------------------------------------------------------------
\* The variables of the lock protocol keep their kinds and ranges.
THEOREM Typing == Spec => []TypeOK
BY Invariance, PTL DEF IInv

\* Two callers are inside together only after one of them is overdue, and
\* only where the caller chose to reclaim live owners.
THEOREM Exclusion == Spec => []MutualExclusion
<1>1. IInv => MutualExclusion
  <2> SUFFICES ASSUME IInv, NEW p \in Procs, NEW q \in Procs,
                      pc[p] = "inside", pc[q] = "inside", p # q
               PROVE  /\ ReclaimLive
                      /\ age[tok[p]] >= LockMaxAge \/ age[tok[q]] >= LockMaxAge
    BY DEF MutualExclusion
  <2>1. owner[tok[p]] = p /\ owner[tok[q]] = q
    BY DEF IInv, Owned, WithToken
  <2>2. canon # tok[p] \/ canon # tok[q]
    BY <2>1
  <2> QED
    BY <2>1, <2>2 DEF IInv, Held, Stale
<1> QED
  BY <1>1, Invariance, PTL

\* A live v0.0.2 owner and a caller are inside together only after one of
\* the two is overdue and may be reclaimed, or in reclaimLegacy's window.
THEOREM LegacyExcluded == Spec => []LegacyExclusion
<1>1. IInv => LegacyExclusion
  <2> SUFFICES ASSUME IInv, NEW l \in Legacies, NEW p \in Procs,
                      l \in live, pc[p] = "inside", l \notin slipped
               PROVE  ReclaimLive /\ (\/ age[l] >= LockMaxAge
                                     \/ age[tok[p]] >= LockMaxAge)
    BY DEF LegacyExclusion
  <2>1. tok[p] \in Tokens /\ owner[tok[p]] = p
    BY DEF IInv, TypeOK, Owned, WithToken
  <2>2. canon = l \/ StaleLegacy(l)
    BY DEF IInv, LegacyHeld
  <2>3. canon = tok[p] \/ Stale(tok[p])
    BY DEF IInv, Held
  <2>4. StaleLegacy(l) \/ Stale(tok[p])
    BY <2>1, <2>2, <2>3, LegacyAssumption
  <2> QED
    BY <2>1, <2>4 DEF Stale, StaleLegacy
<1> QED
  BY <1>1, Invariance, PTL

\* No owner file is taken away from a process that is alive and in time.
THEOREM RemovalIsJustified == Spec => RemovalJustified
<1>1. IInv /\ [Next]_vars =>
        [\A t \in Tokens :
           canon = t /\ canon' # t => Stale(t) \/ pc[owner[t]] = "release"]_vars
  BY Removal
<1> QED
  BY <1>1, Invariance, PTL DEF Spec, RemovalJustified

------------------------------------------------------------------------------
\* The refinement.  A step that moves neither the lock nor the processes in
\* or out of the guarded function or of life is invisible.
LEMMA Invisible ==
  ASSUME TypeOK, NEW p \in Procs, NEW from, NEW to, Goto(p, from, to),
         from \notin {"inside", "dead"}, to \notin {"inside", "dead"}
  PROVE  inside' = inside /\ dead' = dead
<1>1. pc[p] = from /\ pc' = [pc EXCEPT ![p] = to]
  BY DEF Goto
<1> QED
  BY <1>1 DEF TypeOK, inside, dead

\* Each step is a step of the lock or invisible; where live owners may lose
\* the lock, an owner that loses it alive is overdue.
LEMMA RefinementStep ==
  ASSUME IInv, [Next]_vars
  PROVE  [Service!Next]_(Service!vars)
<1> DEFINE Goal == Service!Next \/ UNCHANGED <<holder, overdue, inside, dead>>
<1> SUFFICES Goal
  BY Zenon DEF Service!vars
<1> USE TokenAssumption DEF IInv, TypeOK
<1>1. ASSUME NEW p \in Procs, NEW from, NEW to, Goto(p, from, to),
             from \notin {"inside", "dead"}, to \notin {"inside", "dead"},
             holder' = holder, overdue' = overdue
      PROVE  Goal
  BY <1>1, Invisible
<1>2. ASSUME NEW p \in Procs, Call(p) \/ GcUnlink(p) \/ GcRmdir(p) PROVE Goal
  BY <1>1, <1>2 DEF Call, GcUnlink, GcRmdir, holder, overdue
<1>3. ASSUME NEW p \in Procs, Build(p) PROVE Goal
  <2>1. PICK t \in Tokens : /\ Fresh(p, t)
                            /\ owner' = [owner EXCEPT ![t] = p]
                            /\ age' = [age EXCEPT ![t] = 0]
    BY <1>3 DEF Build
  <2>2. canon' = canon /\ canon # t
    BY <1>3, <2>1 DEF Build, Fresh
  <2>3. holder' = holder
    BY <2>1, <2>2 DEF holder
  <2>4. overdue' = overdue
    BY <2>1, <2>2 DEF overdue
  <2> QED
    BY <1>1, <1>3, <2>3, <2>4 DEF Build
<1>4. ASSUME NEW p \in Procs, WriteRecord(p) PROVE Goal
  BY <1>1, <1>4 DEF WriteRecord, holder, overdue
<1>5. ASSUME NEW p \in Procs, Rename(p) PROVE Goal
  <2>1. inside' = inside /\ dead' = dead
    BY <1>5, Invisible DEF Rename, Retry
  <2>2. pc[p] = "rename" /\ owner[tok[p]] = p /\ tok[p] \in Tokens
    BY <1>5 DEF Rename, Owned, WithToken
  <2>3. p \notin dead \cup inside
    BY <2>2 DEF dead, inside
  <2>4. overdue' \in BOOLEAN
    BY DEF overdue
  <2>5. \/ holder' = holder /\ overdue' = overdue
        \/ holder = NoProc /\ holder' = p
    <3>1. CASE canon' = canon
      BY <1>5, <3>1 DEF Rename, holder, overdue
    <3>2. CASE canon' # canon
      <4>1. canon \in {"missing", "empty"} /\ canon' \in {tok[p], "empty"}
        BY <1>5, <3>2 DEF Rename
      <4>2. canon \notin Tokens /\ owner' = owner
        BY <1>5, <4>1 DEF Rename, Shapes
      <4>3. CASE canon' = tok[p]
        BY <2>2, <4>2, <4>3 DEF holder
      <4>4. CASE canon' = "empty"
        BY <4>2, <4>4 DEF holder, overdue, Shapes
      <4> QED
        BY <4>1, <4>3, <4>4
    <3> QED
      BY <3>1, <3>2
  <2> QED
    BY <2>1, <2>3, <2>4, <2>5 DEF Service!Next, Service!Acquire
<1>6. ASSUME NEW p \in Procs, SelfCheck(p) PROVE Goal
  <2>1. holder' = holder /\ overdue' = overdue
    BY <1>6 DEF SelfCheck, holder, overdue
  <2>2. CASE canon = tok[p]
    <3>1. holder = p
      BY <1>6, <2>2 DEF SelfCheck, Goto, Owned, WithToken, holder
    <3>2. pc' = [pc EXCEPT ![p] = "inside"] /\ pc[p] = "selfCheck"
      BY <1>6, <2>2 DEF SelfCheck, Goto
    <3>3. inside' = inside \cup {p} /\ dead' = dead
      BY <3>2 DEF inside, dead
    <3> QED
      BY <2>1, <3>1, <3>3 DEF Service!Next, Service!Enter
  <2>3. CASE canon # tok[p]
    BY <1>1, <1>6, <2>1, <2>3 DEF SelfCheck
  <2> QED
    BY <2>2, <2>3
<1>7. ASSUME NEW p \in Procs, SelfRmdir(p) \/ Inspect(p) \/ Rmdir(p) PROVE Goal
  <2>1. holder' = holder /\ overdue' = overdue
    BY <1>7 DEF SelfRmdir, Inspect, Rmdir, RemoveEmpty, holder, overdue, Shapes
  <2> QED
    BY <1>1, <1>7, <2>1 DEF SelfRmdir, Inspect, Rmdir, Retry
<1>8. ASSUME NEW p \in Procs, Unlink(p) PROVE Goal
  <2>1. inside' = inside /\ dead' = dead
    BY <1>8, Invisible DEF Unlink
  <2>2. seen[p] \in Tokens /\ Stale(seen[p])
    BY <1>8 DEF Unlink, Goto, Judged
  <2>3. CASE canon = seen[p]
    <3>1. canon' \notin Tokens /\ canon \in Tokens
      BY <1>8, <2>2, <2>3 DEF Unlink, Shapes
    <3>2. holder' = NoProc /\ overdue' = FALSE
      BY <3>1 DEF holder, overdue
    <3>3. holder \in dead \/ (ReclaimLive /\ overdue)
      BY <2>2, <2>3, <3>1 DEF Stale, holder, overdue, dead
    <3> QED
      BY <2>1, <3>2, <3>3 DEF Service!Next, Service!Reclaim, Service!Free
  <2>4. CASE canon # seen[p]
    BY <1>8, <2>1, <2>4 DEF Unlink, holder, overdue
  <2> QED
    BY <2>3, <2>4
<1>9. ASSUME NEW p \in Procs,
             LegacyCheck(p) \/ ReclaimLegacy(p) \/ ReleaseRmdir(p) \/ GiveUp(p)
      PROVE  Goal
  <2>1. holder' = holder /\ overdue' = overdue
    BY <1>9, LegacyAssumption DEF LegacyCheck, ReclaimLegacy, ReleaseRmdir,
       GiveUp, RemoveEmpty, holder, overdue, Shapes
  <2> QED
    BY <1>1, <1>9, <2>1 DEF LegacyCheck, ReclaimLegacy, ReleaseRmdir, GiveUp,
                             Retry
<1>10. ASSUME NEW p \in Procs, Leave(p) PROVE Goal
  <2>1. holder' = holder /\ overdue' = overdue
    BY <1>10 DEF Leave, holder, overdue
  <2>2. pc[p] = "inside" /\ pc' = [pc EXCEPT ![p] = "release"]
    BY <1>10 DEF Leave, Goto
  <2>3. p \in inside /\ inside' = inside \ {p} /\ dead' = dead
    BY <2>2 DEF inside, dead
  <2> QED
    BY <2>1, <2>3 DEF Service!Next, Service!Leave
<1>11. ASSUME NEW p \in Procs, Release(p) PROVE Goal
  <2>1. inside' = inside /\ dead' = dead
    BY <1>11, Invisible DEF Release
  <2>2. pc[p] = "release" /\ owner[tok[p]] = p /\ tok[p] \in Tokens
    BY <1>11 DEF Release, Goto, Owned, WithToken
  <2>3. CASE canon = tok[p]
    <3>1. canon' \notin Tokens /\ canon \in Tokens
      BY <1>11, <2>2, <2>3 DEF Release, Shapes
    <3>2. holder = p /\ holder' = NoProc /\ overdue' = FALSE
      BY <2>2, <2>3, <3>1 DEF holder, overdue
    <3>3. p \notin inside
      BY <2>2 DEF inside
    <3> QED
      BY <2>1, <3>2, <3>3 DEF Service!Next, Service!Release, Service!Free
  <2>4. CASE canon # tok[p]
    BY <1>11, <2>1, <2>4 DEF Release, holder, overdue
  <2> QED
    BY <2>3, <2>4
<1>12. ASSUME NEW p \in Procs, Crash(p) PROVE Goal
  <2>1. holder' = holder /\ overdue' = overdue
    BY <1>12 DEF Crash, holder, overdue
  <2>2. pc' = [pc EXCEPT ![p] = "dead"]
    BY <1>12 DEF Crash
  <2>3. inside' = inside \ {p} /\ dead' = dead \cup {p}
    BY <2>2 DEF inside, dead
  <2> QED
    BY <2>1, <2>3 DEF Service!Next, Service!Die
<1>13. ASSUME NEW p \in Procs, FaultBefore(p) \/ FaultLeak(p) \/ FaultAfter(p)
       PROVE  Goal
  BY <1>1, <1>13 DEF FaultBefore, FaultLeak, FaultAfter, holder, overdue
<1>14. ASSUME NEW t \in Records, Tick(t) PROVE Goal
  <2>1. holder' = holder /\ inside' = inside /\ dead' = dead
    BY <1>14 DEF Tick, holder, inside, dead
  <2>2. CASE canon = t /\ t \in Tokens
    <3>1. canon' \in Tokens /\ age'[canon'] >= LockMaxAge
      BY <1>14, <2>2 DEF Tick, LockMaxAge
    <3>2. overdue' = TRUE
      BY <3>1 DEF overdue
    <3>3. holder # NoProc
      BY <1>14, <2>2, ProcAssumption DEF holder, Signed
    <3> QED
      BY <2>1, <3>2, <3>3 DEF Service!Next, Service!Lapse
  <2>3. CASE canon # t \/ t \notin Tokens
    <3>1. overdue' = overdue
      BY <1>14, <2>3 DEF Tick, overdue
    <3> QED
      BY <2>1, <3>1
  <2> QED
    BY <2>2, <2>3
<1>15. CASE UNCHANGED vars
  BY <1>15 DEF vars, holder, overdue, inside, dead
<1>16. ASSUME NEW l \in Legacies, LegacyLink(l) \/ LegacyStop(l) PROVE Goal
  <2>1. canon' = canon \/ (canon \notin Tokens /\ canon' \notin Tokens)
    BY <1>16, LegacyAssumption DEF LegacyLink, LegacyStop
  <2>2. holder' = holder /\ inside' = inside /\ dead' = dead
    BY <1>16, <2>1 DEF LegacyLink, LegacyStop, holder, inside, dead
  <2>3. overdue' = overdue
    BY <1>16, <2>1, LegacyAssumption DEF LegacyLink, LegacyStop, overdue
  <2> QED
    BY <2>2, <2>3
<1> QED
  BY <1>2, <1>3, <1>4, <1>5, <1>6, <1>7, <1>8, <1>9, <1>10, <1>11, <1>12,
     <1>13, <1>14, <1>15, <1>16 DEF Next, Step

\* The protocol of renames and unlinks is a lock, in both modes: run-store.mjs
\* and claim-index.mjs pass reclaimLiveAfterAge: false, the others do not.
THEOREM Refinement == Spec => ImplementsLock
<1>1. Init => Service!Init
  BY TokenAssumption
  DEF Init, Service!Init, Shapes, holder, overdue, inside, dead
<1>2. IInv /\ [Next]_vars => [Service!Next]_(Service!vars)
  BY RefinementStep
<1> QED
  BY <1>1, <1>2, Invariance, PTL DEF Spec, Service!Spec, ImplementsLock
==============================================================================
