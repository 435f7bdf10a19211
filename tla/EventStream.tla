----------------------------- MODULE EventStream -----------------------------
(***************************************************************************)
(* The files of one Oven's event stream (oven-event-stream-storage.mjs)    *)
(* and the process that publishes to it.                                   *)
(*                                                                         *)
(* publishOvenEvent runs under the repo-state directory lock, so one       *)
(* process at a time is in one of the steps below; the others wait.  Each  *)
(* step is one durable write or removal (atomicWrite, removeDurably), with *)
(* what the code reads to decide on it.  The process may die between any   *)
(* two; the next one finds the files and a fresh set of local variables.   *)
(* Readers take no lock and see the files between any two steps.           *)
(***************************************************************************)
EXTENDS Integers

CONSTANTS
  Events,     \* event identities: a draft published again has the same one
  NoEvent,    \* no event
  MaxSeq,     \* OVEN_EVENT_MAX_SEQUENCE
  Retention   \* retentionLimit

ASSUME EventAssumption == NoEvent \notin Events
ASSUME SequenceAssumption == MaxSeq \in Nat \ {0}
ASSUME RetentionAssumption == Retention \in Nat \ {0}

VARIABLES
  made,       \* the stream's directories exist
  base,       \* state.json: baseSequence
  committed,  \* state.json: committedSequence
  pending,    \* pending.json, the event with its number
  record,     \* records/<event>.json: the number in it, 0 when there is none
  index,      \* sequence/<number>.idx: the event it names
  mark,       \* prune.json, from 0 when there is none
  pc,         \* the publisher's next step
  draft,      \* the event it has been called with
  cur,        \* the event it is committing, or whose record it removes
  at,         \* the number a prune has come to
  back        \* where the publisher goes on after a prune

vars == <<made, base, committed, pending, record, index, mark, pc, draft, cur, at, back>>
files == <<made, base, committed, pending, record, index, mark>>
locals == <<draft, cur, at, back>>

Seqs == 1..MaxSeq
NoPending == [seq |-> 0, ev |-> NoEvent]
NoMark == [from |-> 0, to |-> 0]

Labels == {"idle", "settle", "raise", "drop", "unlink", "recover", "lookup",
           "pending", "record", "index", "commit", "clear", "prune", "corrupt"}

TypeOK ==
  /\ made \in BOOLEAN
  /\ base \in 1..MaxSeq + 1
  /\ committed \in 0..MaxSeq
  /\ pending \in [seq : 0..MaxSeq, ev : Events \cup {NoEvent}]
  /\ record \in [Events -> 0..MaxSeq]
  /\ index \in [Seqs -> Events \cup {NoEvent}]
  /\ mark \in [from : 0..MaxSeq, to : 0..MaxSeq]
  /\ pc \in Labels
  /\ draft \in Events \cup {NoEvent}
  /\ cur \in Events \cup {NoEvent}
  /\ at \in 0..MaxSeq + 1
  /\ back \in {"idle", "recover", "lookup"}

Init ==
  /\ made = FALSE
  /\ base = 1
  /\ committed = 0
  /\ pending = NoPending
  /\ record = [e \in Events |-> 0]
  /\ index = [s \in Seqs |-> NoEvent]
  /\ mark = NoMark
  /\ pc = "idle"
  /\ draft = NoEvent
  /\ cur = NoEvent
  /\ at = 0
  /\ back = "idle"

Goto(label) == pc' = label

\* The call has returned or thrown: its local variables are gone.
Return ==
  /\ pc' = "idle"
  /\ draft' = NoEvent
  /\ cur' = NoEvent
  /\ at' = 0
  /\ back' = "idle"

\* The next number, which the record under way has or will get.
Sequence == committed + 1

\* What readIndexedOvenEvent finds under a number: the event, or an error.
Stored(s) ==
  IF index[s] # NoEvent /\ record[index[s]] = s THEN index[s] ELSE NoEvent

\* publishOvenEvent gets the lock; ensureDirectories.
Publish(e) ==
  /\ pc = "idle"
  /\ made' = TRUE
  /\ draft' = e
  /\ back' = "recover"
  /\ Goto("settle")
  /\ UNCHANGED <<base, committed, pending, record, index, mark, cur, at>>

\* mutant: the prune.json of an earlier process is not looked for
SettleNothing ==
  /\ pc = "settle"
  /\ Goto(back)
  /\ UNCHANGED <<files, locals>>

\* completePrune without and with a prune.json of an earlier process.
Settle ==
  /\ pc = "settle"
  /\ Goto(IF mark = NoMark THEN back ELSE "raise")
  /\ UNCHANGED <<files, locals>>

\* prune: whether anything is beyond the retention limit, and prune.json.
DesiredBase == IF committed - Retention + 1 > base THEN committed - Retention + 1 ELSE base

Prune ==
  /\ pc = "prune"
  /\ \/ /\ DesiredBase = base
        /\ mark' = mark
        /\ IF back = "idle"
             THEN Return
             ELSE Goto(back) /\ UNCHANGED locals
     \/ /\ DesiredBase > base
        /\ mark' = [from |-> base, to |-> DesiredBase - 1]
        /\ Goto("raise")
        /\ UNCHANGED locals
  /\ UNCHANGED <<made, base, committed, pending, record, index>>

\* mutant: the window is not moved
SameBase == base

\* completePrune moves the window before it removes a file.
RaisedBase ==
  LET wanted == IF mark.to + 1 > base THEN mark.to + 1 ELSE base
  IN  IF wanted > committed + 1 THEN committed + 1 ELSE wanted

Raise ==
  /\ pc = "raise"
  /\ base' = RaisedBase
  /\ at' = mark.from
  /\ Goto("drop")
  /\ UNCHANGED <<made, committed, pending, record, index, mark, draft, cur, back>>

\* The index goes first; an event that cannot be read loses only its index.
DropIndex ==
  /\ pc = "drop"
  /\ at <= mark.to
  /\ index' = [index EXCEPT ![at] = NoEvent]
  /\ \/ /\ Stored(at) # NoEvent
        /\ cur' = Stored(at)
        /\ at' = at
        /\ Goto("unlink")
     \/ /\ Stored(at) = NoEvent
        /\ at' = at + 1
        /\ Goto("drop")
        /\ UNCHANGED cur
  /\ UNCHANGED <<made, base, committed, pending, record, mark, draft, back>>

DropRecord ==
  /\ pc = "unlink"
  /\ record' = [record EXCEPT ![cur] = 0]
  /\ cur' = NoEvent
  /\ at' = at + 1
  /\ Goto("drop")
  /\ UNCHANGED <<made, base, committed, pending, index, mark, draft, back>>

Unmark ==
  /\ pc = "drop"
  /\ at > mark.to
  /\ mark' = NoMark
  /\ IF back = "idle"
       THEN Return
       ELSE Goto(back) /\ at' = 0 /\ UNCHANGED <<draft, cur, back>>
  /\ UNCHANGED <<made, base, committed, pending, record, index>>

\* mutant: the record is not looked for
ForgettableAnyway ==
  \/ pending.seq <= committed
  \/ pending.seq = Sequence /\ index[pending.seq] = NoEvent

\* recoverPending: the event a dead publisher has left is forgotten unless its
\* record was written, and committed if it was.  A number out of turn, an index
\* without a record and a record with another number are ECORRUPT, now and at
\* every later call.
Forgettable ==
  \/ pending.seq <= committed
  \/ pending.seq = Sequence /\ record[pending.ev] = 0 /\ index[pending.seq] = NoEvent

Committable == pending.seq = Sequence /\ record[pending.ev] = pending.seq

Recover ==
  /\ pc = "recover"
  /\ \/ /\ pending = NoPending \/ Forgettable
        /\ pending' = NoPending
        /\ Goto("lookup")
        /\ UNCHANGED locals
     \/ /\ pending # NoPending
        /\ Committable
        /\ cur' = pending.ev
        /\ back' = "lookup"
        /\ Goto("index")
        /\ UNCHANGED <<pending, draft, at>>
     \/ /\ pending # NoPending
        /\ ~Forgettable
        /\ ~Committable
        /\ Goto("corrupt")
        /\ UNCHANGED <<pending, locals>>
  /\ UNCHANGED <<made, base, committed, record, index, mark>>

\* mutant: the first retained event counts as pruned
GarbageToo(e) == record[e] <= base

\* Its number is behind the window, or it has none.
Garbage(e) == record[e] < base

\* OVEN_EVENT_MAX_SEQUENCE is reached.
OutOfNumbers == Sequence > MaxSeq

\* The draft's record may be there already.  In the window it is a retry of
\* what was published; behind the window it is garbage, to be removed before
\* the draft gets a new number; beyond it an older version of the program died
\* before the state was written, or the files are ECORRUPT.
Lookup ==
  /\ pc = "lookup"
  /\ \/ /\ ~Garbage(draft)
        /\ record[draft] <= committed
        /\ index' = [index EXCEPT ![record[draft]] = IF @ = NoEvent THEN draft ELSE @]
        /\ IF index'[record[draft]] = draft
             THEN Return
             ELSE Goto("corrupt") /\ UNCHANGED locals
        /\ UNCHANGED record
     \/ /\ Garbage(draft)
        /\ record' = [record EXCEPT ![draft] = 0]
        /\ IF OutOfNumbers
             THEN Return
             ELSE Goto("pending") /\ UNCHANGED locals
        /\ UNCHANGED index
     \/ /\ ~Garbage(draft)
        /\ record[draft] > committed
        /\ IF record[draft] = Sequence
             THEN cur' = draft /\ back' = "idle" /\ Goto("index") /\ UNCHANGED <<draft, at>>
             ELSE Goto("corrupt") /\ UNCHANGED locals
        /\ UNCHANGED <<record, index>>
  /\ UNCHANGED <<made, base, committed, pending, mark>>

WritePending ==
  /\ pc = "pending"
  /\ pending' = [seq |-> Sequence, ev |-> draft]
  /\ Goto("record")
  /\ UNCHANGED <<made, base, committed, record, index, mark, locals>>

WriteRecord ==
  /\ pc = "record"
  /\ record' = [record EXCEPT ![draft] = Sequence]
  /\ cur' = draft
  /\ back' = "idle"
  /\ Goto("index")
  /\ UNCHANGED <<made, base, committed, pending, index, mark, draft, at>>

\* ensureIndex never replaces an index.
WriteIndex ==
  /\ pc = "index"
  /\ index' = [index EXCEPT ![Sequence] = IF @ = NoEvent THEN cur ELSE @]
  /\ Goto(IF index'[Sequence] = cur THEN "commit" ELSE "corrupt")
  /\ UNCHANGED <<made, base, committed, pending, record, mark, locals>>

\* writeState: from here on the event is published.
Commit ==
  /\ pc = "commit"
  /\ committed' = Sequence
  /\ cur' = NoEvent
  /\ Goto("clear")
  /\ UNCHANGED <<made, base, pending, record, index, mark, draft, at, back>>

Clear ==
  /\ pc = "clear"
  /\ pending' = NoPending
  /\ Goto("prune")
  /\ UNCHANGED <<made, base, committed, record, index, mark, locals>>

\* The publisher dies or a system call of it fails: the lock is reclaimed or
\* released, the files stay.
Crash ==
  /\ pc # "idle"
  /\ Return
  /\ UNCHANGED files

Step ==
  \/ Settle \/ Prune \/ Raise \/ DropIndex \/ DropRecord \/ Unmark
  \/ Recover \/ Lookup
  \/ WritePending \/ WriteRecord \/ WriteIndex \/ Commit \/ Clear

Next == Crash \/ Step \/ \E e \in Events : Publish(e)

Spec == Init /\ [][Next]_vars

-----------------------------------------------------------------------------
\* Every number that state.json calls published and retained can be read at
\* every moment, by a reader without the lock and after any crash: the index
\* file and the record it names are both there (publishStoredOvenEvent writes
\* them before the state, completePrune removes them after it).
WindowReadable ==
  \A s \in base..committed : Stored(s) # NoEvent

\* No sequence of publications and deaths leads to files that recoverPending,
\* ensureIndex or the record check refuse as ECORRUPT, which nobody repairs.
NeverCorrupt == pc # "corrupt"

\* Indexes do not leak: one outside the window belongs to the prune.json or to
\* the pending.json on disk, so the next publisher gets rid of it or uses it.
IndexesCovered ==
  \A s \in Seqs :
    index[s] # NoEvent =>
      \/ s \in base..committed
      \/ s \in mark.from..mark.to
      \/ pending = [seq |-> s, ev |-> index[s]]

\* The files are the log: every step is a step of EventLog or invisible.
Log == INSTANCE EventLog
         WITH base <- base, committed <- committed, Events <- Events,
              window <- [s \in base..committed |-> Stored(s)]
ImplementsLog == Log!Spec
==============================================================================
