-------------------------- MODULE EventStreamProofs --------------------------
(***************************************************************************)
(* Proofs about EventStream for every set of events, every retention limit *)
(* and every largest number.                                               *)
(*                                                                         *)
(* That a window stays readable says nothing of the files outside it, and  *)
(* those decide what the next publisher finds.  The inductive invariant    *)
(* tells for every file how it got there: a number above the state is that *)
(* of pending.json (Ahead), an index below the window is still listed in   *)
(* prune.json (Behind), and what each step of a publication relies on      *)
(* (Underway).                                                             *)
(***************************************************************************)
EXTENDS EventStream, TLAPS

\* The window is one, and pending.json has the next number or the last.
Numbered ==
  /\ base <= committed + 1
  /\ pending # NoPending => /\ pending.ev \in Events
                            /\ pending.seq \in 1..committed + 1
  /\ pending.seq = committed + 1 => record[pending.ev] \in {0, committed + 1}
  /\ \A e, f \in Events : record[e] = record[f] /\ record[e] # 0 => e = f

\* A record or an index beyond the state belongs to pending.json, and the
\* record was there first.
Ahead ==
  /\ \A e \in Events :
       record[e] > committed => record[e] = committed + 1
                                /\ pending = [seq |-> committed + 1, ev |-> e]
  /\ \A s \in Seqs :
       s > committed /\ index[s] # NoEvent =>
         /\ s = committed + 1
         /\ pending = [seq |-> s, ev |-> index[s]]
         /\ record[index[s]] = s

\* prune.json is written before the window moves and removed after the last of
\* the indexes it lists.
Behind ==
  /\ mark # NoMark => /\ mark.from \in 1..base
                      /\ mark.from <= mark.to
                      /\ mark.to < committed
                      /\ pc \in {"idle", "settle", "raise", "drop", "unlink"}
  /\ pc \in {"raise", "drop", "unlink"} => mark # NoMark
  /\ pc \in {"drop", "unlink"} => mark.to < base /\ at \in 1..mark.to + 1
  /\ \A s \in Seqs :
       s < base /\ index[s] # NoEvent =>
         /\ s \in mark.from..mark.to
         /\ pc = "drop" => s >= at
         /\ pc = "unlink" => s > at

\* What a publisher relies on from one step to the next.
Underway ==
  /\ pc \notin {"idle", "corrupt"} => draft \in Events
  /\ pc = "settle" => back = "recover"
  /\ pc \in {"index", "commit", "clear", "prune"} => back \in {"idle", "lookup"}
  /\ pc \in {"lookup", "pending", "prune"} => pending = NoPending
  /\ pc \in {"raise", "drop", "unlink"} /\ back = "lookup" => pending = NoPending
  /\ pc \in {"pending", "record"} => record[draft] = 0 /\ Sequence <= MaxSeq
  /\ pc = "record" => pending = [seq |-> Sequence, ev |-> draft]
  /\ pc \in {"index", "commit"} => /\ cur \in Events
                                   /\ record[cur] = Sequence
                                   /\ pending = [seq |-> Sequence, ev |-> cur]
  /\ pc = "commit" => index[Sequence] = cur
  /\ pc = "clear" => pending.seq <= committed
  /\ pc = "unlink" => cur \in Events /\ record[cur] = at /\ at <= mark.to

IInv ==
  /\ TypeOK
  /\ Numbered
  /\ Ahead
  /\ Behind
  /\ Underway
  /\ WindowReadable
  /\ NeverCorrupt

USE EventAssumption, SequenceAssumption, RetentionAssumption
USE DEF Seqs, NoPending, NoMark, Labels

\* The initial state has every part of the invariant.
THEOREM InitIInv == Init => IInv
<1> SUFFICES ASSUME Init PROVE IInv
  OBVIOUS
<1>0. made \in BOOLEAN
  BY Zenon DEF Init
<1>1. TypeOK
  BY <1>0 DEF Init, TypeOK
<1>2. Numbered /\ Ahead /\ Behind /\ Underway
  BY DEF Init, Numbered, Ahead, Behind, Underway
<1>3. WindowReadable /\ NeverCorrupt
  BY DEF Init, WindowReadable, NeverCorrupt
<1> QED
  BY <1>1, <1>2, <1>3 DEF IInv

\* The kinds and ranges of the variables survive every step.
THEOREM TypeStep == IInv /\ [Next]_vars => TypeOK'
<1> SUFFICES ASSUME IInv, [Next]_vars PROVE TypeOK'
  OBVIOUS
<1> USE DEF IInv, TypeOK, Goto, Return, Sequence
<1>1. ASSUME NEW e \in Events, Publish(e) PROVE TypeOK'
  BY <1>1 DEF Publish
<1>2. CASE Crash
  BY <1>2 DEF Crash, files
<1>3. CASE Settle
  BY <1>3 DEF Settle, files, locals, Underway
<1>4. CASE Prune
  BY <1>4 DEF Prune, locals, DesiredBase, Underway
<1>5. CASE Raise
  BY <1>5 DEF Raise, RaisedBase, Numbered
<1>6. CASE DropIndex
  <2>1. Stored(at) \in Events \cup {NoEvent}
    BY <1>6 DEF DropIndex, Stored, Behind
  <2>2. at + 1 \in 0..MaxSeq + 1
    BY <1>6 DEF DropIndex
  <2> QED
    BY <1>6, <2>1, <2>2 DEF DropIndex
<1>7. CASE DropRecord
  BY <1>7 DEF DropRecord, Underway
<1>8. CASE Unmark
  BY <1>8 DEF Unmark
<1>9. CASE Recover
  BY <1>9 DEF Recover, files, locals, Numbered
<1>10. CASE Lookup
  BY <1>10, SMTT(30) DEF Lookup, locals, Underway
<1>11. CASE WritePending
  <2>1. [seq |-> Sequence, ev |-> draft] \in [seq : Seqs, ev : Events]
    BY <1>11 DEF WritePending, Underway
  <2>2. /\ pc' = "record" /\ pending' = [seq |-> Sequence, ev |-> draft]
        /\ UNCHANGED <<made, base, committed, record, index, mark, locals>>
    BY <1>11 DEF WritePending
  <2> QED
    BY <2>1, <2>2 DEF locals
<1>12. CASE WriteRecord
  BY <1>12 DEF WriteRecord, locals, Underway
<1>13. CASE WriteIndex
  BY <1>13 DEF WriteIndex, locals, Underway
<1>14. CASE Commit
  BY <1>14 DEF Commit, Underway
<1>15. CASE Clear
  BY <1>15 DEF Clear, locals
<1>16. CASE UNCHANGED vars
  BY <1>16 DEF vars
<1> QED
  BY <1>1, <1>2, <1>3, <1>4, <1>5, <1>6, <1>7, <1>8, <1>9, <1>10, <1>11, <1>12,
     <1>13, <1>14, <1>15, <1>16 DEF Next, Step

------------------------------------------------------------------------------
\* The next number is not taken: neither by a record nor by an index, unless it
\* is the pending event's.
LEMMA NextIsFree ==
  ASSUME IInv, NEW e \in Events, pending = [seq |-> Sequence, ev |-> e], Sequence <= MaxSeq
  PROVE  index[Sequence] \in {NoEvent, e}
<1> USE DEF IInv, TypeOK, Sequence
<1>1. Sequence \in Seqs /\ Sequence > committed
  OBVIOUS
<1>2. CASE index[Sequence] # NoEvent
  <2>1. pending = [seq |-> Sequence, ev |-> index[Sequence]]
    BY <1>1, <1>2 DEF Ahead
  <2> QED
    BY <2>1
<1> QED
  BY <1>2

\* recoverPending finds nothing it has to refuse.
LEMMA RecoverDecides ==
  ASSUME IInv, pending # NoPending
  PROVE  Forgettable \/ Committable
<1> USE DEF IInv, TypeOK, Sequence
<1>1. pending.ev \in Events /\ pending.seq \in 1..committed + 1
  BY DEF Numbered
<1>2. CASE pending.seq <= committed
  BY <1>2 DEF Forgettable
<1>3. CASE pending.seq = committed + 1
  <2>1. pending.seq \in Seqs
    BY <1>3
  <2>2. record[pending.ev] \in {0, committed + 1}
    BY <1>3 DEF Numbered
  <2>3. CASE record[pending.ev] = 0
    <3>1. index[pending.seq] = NoEvent
      <4> SUFFICES ASSUME index[pending.seq] # NoEvent PROVE FALSE
        OBVIOUS
      <4>1. /\ pending = [seq |-> pending.seq, ev |-> index[pending.seq]]
            /\ record[index[pending.seq]] = pending.seq
        BY <1>3, <2>1 DEF Ahead
      <4>2. pending.ev = index[pending.seq]
        BY <4>1
      <4> QED
        BY <1>3, <2>3, <4>1, <4>2
    <3> QED
      BY <1>3, <2>3, <3>1 DEF Forgettable
  <2> QED
    BY <1>3, <2>2, <2>3 DEF Committable
<1> QED
  BY <1>1, <1>2, <1>3

\* A draft's record that is in the window is the one the window shows.
LEMMA RetryIsStored ==
  ASSUME IInv, NEW e \in Events, ~Garbage(e), record[e] <= committed
  PROVE  record[e] \in Seqs /\ index[record[e]] = e
<1> USE DEF IInv, TypeOK, Garbage
<1>1. record[e] \in base..committed /\ record[e] \in Seqs
  OBVIOUS
<1>2. Stored(record[e]) # NoEvent
  BY <1>1 DEF WindowReadable
<1>3. /\ index[record[e]] \in Events
      /\ record[index[record[e]]] = record[e]
  BY <1>1, <1>2 DEF Stored
<1>4. index[record[e]] = e
  BY <1>1, <1>3 DEF Numbered
<1> QED
  BY <1>1, <1>4

\* Without a pending event no record is beyond the state.
LEMMA NoneBeyond ==
  ASSUME IInv, pending = NoPending, NEW e \in Events
  PROVE  record[e] <= committed
<1>1. committed \in Nat /\ record[e] \in Nat
  BY DEF IInv, TypeOK
<1>2. CASE record[e] > committed
  <2>1. pending = [seq |-> committed + 1, ev |-> e]
    BY <1>2 DEF IInv, Ahead
  <2>2. committed + 1 = 0
    BY <2>1
  <2> QED
    BY <1>1, <2>2
<1> QED
  BY <1>1, <1>2

------------------------------------------------------------------------------
\* Numbers stay unique and pending.json's stays in turn.
LEMMA NumberedStep == IInv /\ [Next]_vars => Numbered'
<1> SUFFICES ASSUME IInv, [Next]_vars PROVE Numbered'
  OBVIOUS
<1> USE DEF IInv, TypeOK, Numbered, Goto, Return, Sequence
<1>1. ASSUME NEW e \in Events, Publish(e) PROVE Numbered'
  BY <1>1 DEF Publish
<1>2. CASE Crash \/ Settle
  BY <1>2 DEF Crash, Settle, files, locals
<1>4. CASE Prune
  BY <1>4 DEF Prune, locals
<1>5. CASE Raise
  BY <1>5 DEF Raise, RaisedBase
<1>6. CASE DropIndex
  BY <1>6 DEF DropIndex
<1>7. CASE DropRecord
  BY <1>7 DEF DropRecord, Underway
<1>8. CASE Unmark
  BY <1>8 DEF Unmark
<1>9. CASE Recover
  BY <1>9 DEF Recover, files, locals
<1>10. CASE Lookup
  <2>1. draft \in Events /\ pending = NoPending
    BY <1>10 DEF Lookup, Underway
  <2> QED
    BY <1>10, <2>1 DEF Lookup, locals
<1>11. CASE WritePending
  BY <1>11 DEF WritePending, locals, Underway
<1>12. CASE WriteRecord
  <2>1. draft \in Events /\ pending = [seq |-> Sequence, ev |-> draft]
    BY <1>12 DEF WriteRecord, Underway
  <2>2. \A e \in Events : e # draft => record[e] # Sequence
    <3> SUFFICES ASSUME NEW e \in Events, e # draft, record[e] = Sequence PROVE FALSE
      OBVIOUS
    <3>1. pending = [seq |-> committed + 1, ev |-> e]
      BY DEF Ahead
    <3> QED
      BY <2>1, <3>1
  <2>3. \A e \in Events : record'[e] = IF e = draft THEN Sequence ELSE record[e]
    BY <1>12 DEF WriteRecord
  <2>4. \A e, f \in Events : record'[e] = record'[f] /\ record'[e] # 0 => e = f
    BY <2>2, <2>3
  <2>5. UNCHANGED <<base, committed, pending>>
    BY <1>12 DEF WriteRecord
  <2> QED
    BY <2>1, <2>3, <2>4, <2>5
<1>13. CASE WriteIndex
  BY <1>13 DEF WriteIndex, locals
<1>14. CASE Commit
  BY <1>14 DEF Commit, Underway
<1>15. CASE Clear
  BY <1>15 DEF Clear, locals
<1>16. CASE UNCHANGED vars
  BY <1>16 DEF vars
<1> QED
  BY <1>1, <1>2, <1>4, <1>5, <1>6, <1>7, <1>8, <1>9, <1>10, <1>11, <1>12,
     <1>13, <1>14, <1>15, <1>16 DEF Next, Step

\* Nothing gets beyond the state but by way of pending.json.
LEMMA AheadStep == IInv /\ [Next]_vars => Ahead'
<1> SUFFICES ASSUME IInv, [Next]_vars PROVE Ahead'
  OBVIOUS
<1> USE DEF IInv, TypeOK, Ahead, Goto, Return, Sequence
<1>1. ASSUME NEW e \in Events, Publish(e) PROVE Ahead'
  BY <1>1 DEF Publish
<1>2. CASE Crash \/ Settle
  BY <1>2 DEF Crash, Settle, files, locals
<1>4. CASE Prune
  BY <1>4 DEF Prune, locals
<1>5. CASE Raise
  BY <1>5 DEF Raise
<1>6. CASE DropIndex
  BY <1>6 DEF DropIndex, Behind
<1>7. CASE DropRecord
  BY <1>7 DEF DropRecord, Underway, Behind, Numbered
<1>8. CASE Unmark
  BY <1>8 DEF Unmark
<1>9. CASE Recover
  BY <1>9 DEF Recover, files, locals, Forgettable, Numbered
<1>10. CASE Lookup
  BY <1>10, NoneBeyond, RetryIsStored, SMTT(30) DEF Lookup, locals, Underway, Garbage
<1>11. CASE WritePending
  BY <1>11, NoneBeyond DEF WritePending, locals, Underway
<1>12. CASE WriteRecord
  BY <1>12 DEF WriteRecord, Underway
<1>13. CASE WriteIndex
  BY <1>13 DEF WriteIndex, locals, Underway
<1>14. CASE Commit
  BY <1>14 DEF Commit, Underway
<1>15. CASE Clear
  BY <1>15 DEF Clear, locals, Underway
<1>16. CASE UNCHANGED vars
  BY <1>16 DEF vars
<1> QED
  BY <1>1, <1>2, <1>4, <1>5, <1>6, <1>7, <1>8, <1>9, <1>10, <1>11, <1>12,
     <1>13, <1>14, <1>15, <1>16 DEF Next, Step

\* prune.json covers what is behind the window, also after a crash.
LEMMA BehindStep == IInv /\ [Next]_vars => Behind'
<1> SUFFICES ASSUME IInv, [Next]_vars PROVE Behind'
  OBVIOUS
<1> USE DEF IInv, TypeOK, Behind, Goto, Return, Sequence
<1>1. ASSUME NEW e \in Events, Publish(e) PROVE Behind'
  BY <1>1 DEF Publish
<1>2. CASE Crash
  BY <1>2 DEF Crash, files
<1>3. CASE Settle
  BY <1>3 DEF Settle, files, locals, Underway
<1>4. CASE Prune
  <2>1. mark = NoMark
    BY <1>4 DEF Prune
  <2>2. CASE DesiredBase = base
    BY <1>4, <2>1, <2>2 DEF Prune, locals, Underway
  <2>3. CASE DesiredBase > base
    <3>1. DesiredBase = committed - Retention + 1 /\ base <= DesiredBase - 1
      BY <2>3 DEF DesiredBase
    <3>2. mark' = [from |-> base, to |-> DesiredBase - 1] /\ pc' = "raise"
      BY <1>4, <2>3 DEF Prune
    <3>3. mark'.from = base /\ base <= mark'.to /\ mark'.to < committed /\ mark' # NoMark
      BY <3>1, <3>2
    <3>4. UNCHANGED <<base, committed, index, at>>
      BY <1>4, <2>3 DEF Prune, locals
    <3>5. \A s \in Seqs : s < base => index[s] = NoEvent
      BY <2>1
    <3> QED
      BY <3>2, <3>3, <3>4, <3>5
  <2> QED
    BY <1>4, <2>2, <2>3 DEF Prune
<1>5. CASE Raise
  <2>1. /\ mark.from \in 1..base
        /\ mark.from <= mark.to
        /\ mark.to < committed
        /\ mark # NoMark
        /\ UNCHANGED <<committed, mark, index>>
        /\ pc' = "drop" /\ at' = mark.from
    BY <1>5 DEF Raise
  <2>2. base' = IF mark.to + 1 > base THEN mark.to + 1 ELSE base
    BY <1>5, <2>1 DEF Raise, RaisedBase, Numbered
  <2> QED
    BY <2>1, <2>2
<1>6. CASE DropIndex
  BY <1>6 DEF DropIndex
<1>7. CASE DropRecord
  BY <1>7 DEF DropRecord, Underway
<1>8. CASE Unmark
  BY <1>8 DEF Unmark
<1>9. CASE Recover
  BY <1>9 DEF Recover, files, locals
<1>10. CASE Lookup
  BY <1>10, RetryIsStored DEF Lookup, locals, Underway
<1>11. CASE WritePending \/ WriteRecord
  BY <1>11 DEF WritePending, WriteRecord, locals
<1>12. CASE WriteIndex
  BY <1>12 DEF WriteIndex, locals, Numbered
<1>13. CASE Commit
  BY <1>13 DEF Commit
<1>14. CASE Clear
  BY <1>14 DEF Clear, locals
<1>15. CASE UNCHANGED vars
  BY <1>15 DEF vars
<1> QED
  BY <1>1, <1>2, <1>3, <1>4, <1>5, <1>6, <1>7, <1>8, <1>9, <1>10, <1>11, <1>12,
     <1>13, <1>14, <1>15 DEF Next, Step

\* Each step finds what the one before it has left.
LEMMA UnderwayStep == IInv /\ [Next]_vars => Underway'
<1> SUFFICES ASSUME IInv, [Next]_vars PROVE Underway'
  OBVIOUS
<1> USE DEF IInv, TypeOK, Underway, Goto, Return, Sequence
<1>1. ASSUME NEW e \in Events, Publish(e) PROVE Underway'
  BY <1>1 DEF Publish
<1>2. CASE Crash
  BY <1>2 DEF Crash, files
<1>3. CASE Settle
  BY <1>3 DEF Settle, files, locals
<1>4. CASE Prune
  BY <1>4 DEF Prune, locals
<1>5. CASE Raise
  BY <1>5 DEF Raise
<1>6. CASE DropIndex
  BY <1>6 DEF DropIndex, Stored, Behind
<1>7. CASE DropRecord
  BY <1>7 DEF DropRecord
<1>8. CASE Unmark
  BY <1>8 DEF Unmark
<1>9. CASE Recover
  BY <1>9 DEF Recover, files, locals, Committable, Numbered
<1>10. CASE Lookup
  BY <1>10, NoneBeyond DEF Lookup, locals, OutOfNumbers, Garbage
<1>11. CASE WritePending
  BY <1>11 DEF WritePending, locals
<1>12. CASE WriteRecord
  BY <1>12 DEF WriteRecord
<1>13. CASE WriteIndex
  BY <1>13 DEF WriteIndex, locals
<1>14. CASE Commit
  BY <1>14 DEF Commit
<1>15. CASE Clear
  BY <1>15 DEF Clear, locals
<1>16. CASE UNCHANGED vars
  BY <1>16 DEF vars
<1> QED
  BY <1>1, <1>2, <1>3, <1>4, <1>5, <1>6, <1>7, <1>8, <1>9, <1>10, <1>11, <1>12,
     <1>13, <1>14, <1>15, <1>16 DEF Next, Step

\* Nothing is ever refused as corrupt.
LEMMA CorruptStep == IInv /\ [Next]_vars => NeverCorrupt'
<1> SUFFICES ASSUME IInv, [Next]_vars PROVE NeverCorrupt'
  OBVIOUS
<1> USE DEF IInv, NeverCorrupt, Goto, Return
<1>1. CASE Crash \/ UNCHANGED vars \/ \E e \in Events : Publish(e)
  BY <1>1 DEF Crash, Publish, vars
<1>2. CASE Settle \/ Prune \/ Unmark
  <2>1. back # "corrupt"
    BY DEF TypeOK
  <2> QED
    BY <1>2, <2>1 DEF Settle, Prune, Unmark
<1>3. CASE Raise \/ DropIndex \/ DropRecord
  BY <1>3 DEF Raise, DropIndex, DropRecord
<1>4. CASE Recover
  BY <1>4, RecoverDecides DEF Recover
<1>5. CASE Lookup
  <2>1. draft \in Events /\ pending = NoPending
    BY <1>5 DEF Lookup, Underway
  <2>2. CASE ~Garbage(draft) /\ record[draft] <= committed
    <3>1. /\ record[draft] \in Seqs
          /\ index[record[draft]] = draft
          /\ draft # NoEvent
      BY <2>1, <2>2, RetryIsStored
    <3>2. CASE index' = [index EXCEPT ![record[draft]] = IF @ = NoEvent THEN draft ELSE @]
      <4>1. index'[record[draft]] = draft
        BY <3>1, <3>2 DEF TypeOK
      <4> QED
        BY <1>5, <2>1, <2>2, <4>1 DEF Lookup, TypeOK
    <3> QED
      BY <1>5, <2>1, <2>2, <3>2 DEF Lookup, TypeOK
  <2>3. CASE Garbage(draft)
    BY <1>5, <2>3 DEF Lookup
  <2> QED
    BY <1>5, <2>1, <2>2, <2>3, NoneBeyond DEF Lookup
<1>6. CASE WriteIndex
  <2>1. /\ cur \in Events
        /\ pending = [seq |-> Sequence, ev |-> cur]
        /\ record[cur] = Sequence
    BY <1>6 DEF WriteIndex, Underway
  <2>2. Sequence \in Seqs /\ index[Sequence] \in {NoEvent, cur}
    BY <2>1, NextIsFree DEF TypeOK, Sequence
  <2>3. index'[Sequence] = cur
    BY <1>6, <2>2 DEF WriteIndex, TypeOK
  <2> QED
    BY <1>6, <2>3 DEF WriteIndex
<1>7. CASE WritePending \/ WriteRecord \/ Commit \/ Clear
  BY <1>7 DEF WritePending, WriteRecord, Commit, Clear
<1> QED
  BY <1>1, <1>2, <1>3, <1>4, <1>5, <1>6, <1>7 DEF Next, Step

------------------------------------------------------------------------------
\* The window as a reader sees it.
Window == [s \in base..committed |-> Stored(s)]

\* A step other than Raise and Commit does not touch what is in the window.
LEMMA WindowUntouched ==
  ASSUME IInv, [Next]_vars, ~Raise, ~Commit
  PROVE  /\ UNCHANGED <<base, committed>>
         /\ \A s \in base..committed : Stored(s)' = Stored(s)
<1> USE DEF IInv, TypeOK, Goto, Return, Sequence, Stored
<1> DEFINE Same == /\ UNCHANGED <<base, committed>>
                   /\ \A s \in base..committed : Stored(s)' = Stored(s)
<1>1. CASE Crash \/ UNCHANGED vars \/ \E e \in Events : Publish(e)
  BY <1>1 DEF Crash, Publish, files, vars
<1>2. CASE Settle \/ Prune \/ Unmark \/ Recover \/ WritePending \/ Clear
  BY <1>2 DEF Settle, Prune, Unmark, Recover, WritePending, Clear, files, locals
<1>3. CASE DropIndex
  <2>1. at < base /\ UNCHANGED <<base, committed, record>>
    BY <1>3 DEF DropIndex, Behind
  <2>2. \A s \in base..committed : s \in Seqs /\ index'[s] = index[s]
    BY <1>3, <2>1 DEF DropIndex
  <2> QED
    BY <2>1, <2>2
<1>4. CASE DropRecord
  <2>1. /\ cur \in Events /\ record[cur] < base
        /\ UNCHANGED <<base, committed, index>>
    BY <1>4 DEF DropRecord, Behind, Underway
  <2>2. \A s \in base..committed : s \in Seqs /\ index[s] \in Events /\ record[index[s]] = s
    BY DEF WindowReadable
  <2>3. \A s \in base..committed : record'[index[s]] = record[index[s]]
    BY <1>4, <2>1, <2>2 DEF DropRecord
  <2> QED
    BY <2>1, <2>2, <2>3
<1>5. CASE Lookup
  <2>1. draft \in Events /\ pending = NoPending
    BY <1>5 DEF Lookup, Underway
  <2>2. record[draft] <= committed
    BY <2>1, NoneBeyond
  <2>3. CASE ~Garbage(draft)
    <3>1. record[draft] \in Seqs /\ index[record[draft]] = draft /\ draft # NoEvent
      BY <2>1, <2>2, <2>3, RetryIsStored
    <3>2. index' = index /\ UNCHANGED <<base, committed, record>>
      BY <1>5, <2>2, <2>3, <3>1 DEF Lookup
    <3> QED
      BY <3>2
  <2>4. CASE Garbage(draft)
    <3>1. UNCHANGED <<base, committed, index>> /\ record' = [record EXCEPT ![draft] = 0]
      BY <1>5, <2>4 DEF Lookup, Garbage
    <3>2. \A s \in base..committed : s \in Seqs /\ index[s] \in Events /\ record[index[s]] = s
      BY DEF WindowReadable
    <3>3. \A s \in base..committed : record'[index[s]] = record[index[s]]
      BY <2>4, <3>1, <3>2 DEF Garbage
    <3> QED
      BY <3>1, <3>2, <3>3
  <2> QED
    BY <2>3, <2>4
<1>6. CASE WriteRecord
  <2>1. draft \in Events /\ record[draft] = 0
    BY <1>6 DEF WriteRecord, Underway
  <2>2. \A s \in base..committed : s \in Seqs /\ index[s] \in Events /\ record[index[s]] = s
    BY DEF WindowReadable
  <2>3. \A s \in base..committed : record'[index[s]] = record[index[s]]
    BY <1>6, <2>1, <2>2 DEF WriteRecord
  <2>4. UNCHANGED <<base, committed, index>>
    BY <1>6 DEF WriteRecord
  <2> QED
    BY <2>2, <2>3, <2>4
<1>7. CASE WriteIndex
  <2>1. \A s \in base..committed : s \in Seqs /\ s # Sequence
    OBVIOUS
  <2>2. UNCHANGED <<base, committed, record>>
    BY <1>7 DEF WriteIndex
  <2>3. \A s \in base..committed : index'[s] = index[s]
    BY <1>7, <2>1 DEF WriteIndex
  <2> QED
    BY <2>1, <2>2, <2>3
<1> QED
  BY <1>1, <1>2, <1>3, <1>4, <1>5, <1>6, <1>7 DEF Next, Step

\* The number that Commit makes public can be read.
LEMMA CommitsReadable ==
  ASSUME IInv, Commit
  PROVE  /\ cur \in Events
         /\ committed' = committed + 1
         /\ UNCHANGED <<base, index, record>>
         /\ Stored(committed + 1) = cur
         /\ committed + 1 \in Seqs
         /\ \A s \in base..committed : Stored(s) # cur
<1> USE DEF IInv, TypeOK, Sequence
<1>1. /\ cur \in Events
      /\ record[cur] = committed + 1
      /\ index[committed + 1] = cur
      /\ committed' = committed + 1
      /\ UNCHANGED <<base, index, record>>
  BY DEF Commit, Underway
<1>2. committed + 1 \in Seqs
  BY <1>1
<1>3. Stored(committed + 1) = cur
  BY <1>1, <1>2 DEF Stored
<1>4. \A s \in base..committed : Stored(s) # cur
  <2> SUFFICES ASSUME NEW s \in base..committed, Stored(s) = cur PROVE FALSE
    OBVIOUS
  <2>1. record[cur] = s
    BY <1>1 DEF Stored
  <2> QED
    BY <1>1, <2>1
<1> QED
  BY <1>1, <1>2, <1>3, <1>4

\* The window stays readable.
LEMMA WindowStep == IInv /\ [Next]_vars => WindowReadable'
<1> SUFFICES ASSUME IInv, [Next]_vars PROVE WindowReadable'
  OBVIOUS
<1>1. CASE Raise
  <2>1. UNCHANGED <<committed, index, record>> /\ base' >= base
    BY <1>1 DEF Raise, RaisedBase, IInv, Numbered, TypeOK
  <2>2. base \in Int /\ base' \in Int /\ committed \in Int
    BY TypeStep DEF IInv, TypeOK
  <2> QED
    BY <2>1, <2>2 DEF IInv, WindowReadable, Stored
<1>2. CASE Commit
  <2>1. \A s \in Int : Stored(s)' = Stored(s)
    BY <1>2, CommitsReadable DEF Stored
  <2>2. base \in Int /\ committed \in Int
    BY DEF IInv, TypeOK
  <2>3. \A s \in base..committed + 1 : s \in base..committed \/ s = committed + 1
    BY <2>2
  <2> QED
    BY <1>2, <2>1, <2>2, <2>3, CommitsReadable DEF IInv, WindowReadable
<1>3. CASE ~Raise /\ ~Commit
  BY <1>3, WindowUntouched DEF IInv, WindowReadable
<1> QED
  BY <1>1, <1>2, <1>3

\* Every step keeps the invariant.
THEOREM Inductive == IInv /\ [Next]_vars => IInv'
  BY TypeStep, NumberedStep, AheadStep, BehindStep, UnderwayStep, CorruptStep, WindowStep
  DEF IInv

THEOREM Invariance == Spec => []IInv
  BY InitIInv, Inductive, PTL DEF Spec

------------------------------------------------------------------------------
\* The files and the publisher's variables always are of their kinds, so the
\* number in a record or in the state is never beyond the largest one.
THEOREM Typing == Spec => []TypeOK
<1>1. IInv => TypeOK
  BY DEF IInv
<1> QED
  BY <1>1, Invariance, PTL

\* A reader without a lock can read every published and retained number at any
\* moment, between any two writes of a publisher and after its death.
THEOREM Readable == Spec => []WindowReadable
<1>1. IInv => WindowReadable
  BY DEF IInv
<1> QED
  BY <1>1, Invariance, PTL

\* No sequence of publications, prunes and deaths leads to ECORRUPT.
THEOREM Uncorrupted == Spec => []NeverCorrupt
<1>1. IInv => NeverCorrupt
  BY DEF IInv
<1> QED
  BY <1>1, Invariance, PTL

\* No index file is left over that the next publisher does not know of.
THEOREM Covered == Spec => []IndexesCovered
<1>1. IInv => IndexesCovered
  BY DEF IInv, TypeOK, IndexesCovered, Ahead, Behind
<1> QED
  BY <1>1, Invariance, PTL

------------------------------------------------------------------------------
\* The files start as an empty log.
LEMMA InitRefines == Init => Log!Init
  BY DEF Init, Log!Init

\* Moving the window is Trim or invisible, writing the state is Append, and no
\* other write can be seen.
LEMMA StepRefines == IInv /\ [Next]_vars => [Log!Next]_(Log!vars)
<1> SUFFICES ASSUME IInv, [Next]_vars PROVE [Log!Next]_(Log!vars)
  OBVIOUS
<1> USE DEF IInv, TypeOK
<1>1. CASE Raise
  <2>1. /\ mark # NoMark /\ mark.to < committed
        /\ UNCHANGED <<committed, index, record>>
        /\ base' = RaisedBase
    BY <1>1 DEF Raise, Behind
  <2>2. base' = base \/ base' \in base + 1..committed
    BY <2>1 DEF RaisedBase, Numbered
  <2>3. \A s : Stored(s)' = Stored(s)
    BY <2>1 DEF Stored
  <2>4. CASE base' = base
    BY <2>1, <2>3, <2>4 DEF Log!vars
  <2>5. CASE base' \in base + 1..committed
    <3>1. \A s \in base'..committed : Window[s] = Stored(s)
      BY <2>5 DEF Window
    <3>2. Log!Trim
      BY <2>1, <2>3, <2>5, <3>1 DEF Log!Trim, Window
    <3> QED
      BY <3>2 DEF Log!Next
  <2> QED
    BY <2>2, <2>4, <2>5
<1>2. CASE Commit
  <2>1. \A s : Stored(s)' = Stored(s)
    BY <1>2, CommitsReadable DEF Stored
  <2>2. \A s \in base..committed + 1 : s # committed + 1 => s \in base..committed
    OBVIOUS
  <2>3. Log!Append(cur)
    BY <1>2, <2>1, <2>2, CommitsReadable DEF Log!Append
  <2> QED
    BY <1>2, <2>3, CommitsReadable DEF Log!Next
<1>3. CASE ~Raise /\ ~Commit
  <2>1. Window' = Window
    BY <1>3, WindowUntouched DEF Window
  <2> QED
    BY <1>3, <2>1, WindowUntouched DEF Log!vars, Window
<1> QED
  BY <1>1, <1>2, <1>3

\* The five or six writes of a publication, a prune, and whatever a crash leaves
\* of them look to every reader like a numbered log that grows by one event at a
\* time and forgets the oldest.
THEOREM Implements == Spec => ImplementsLog
<1>1. Spec => Log!Init
  BY InitRefines, PTL DEF Spec
<1>2. IInv /\ [Next]_vars => [Log!Next]_(Log!vars)
  BY StepRefines
<1> QED
  BY <1>1, <1>2, Invariance, PTL DEF Spec, ImplementsLog, Log!Spec

==============================================================================
