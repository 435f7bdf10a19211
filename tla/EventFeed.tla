------------------------------ MODULE EventFeed ------------------------------
(***************************************************************************)
(* The readers of an Oven's event stream: the dashboard server's observer  *)
(* (oven-event-observer.mjs), the feed it serves (oven-event-feed.mjs) and *)
(* its clients, over the files of EventStream, which publishers in other   *)
(* processes change while they are read.                                   *)
(*                                                                         *)
(* The server is one JavaScript thread: a scan or a request runs to its    *)
(* end before the next one starts, and only publishers get in between two  *)
(* of its file reads.  srv is the read it is at.  A scan reads the stream  *)
(* for the live listeners, of which only the watermark it arrives at is    *)
(* kept here, and once for all subscribers together, from the lowest of    *)
(* their watermarks.                                                       *)
(***************************************************************************)
EXTENDS EventStream, Sequences, FiniteSets

CONSTANTS
  Replayers,    \* clients of the SSE feed that reconnect with Last-Event-ID
  Tailers,      \* clients of the SSE feed with tail=1, which have no cursor
  BatchLimit,   \* batchLimit
  Limit,        \* a selection's limit
  MaxFaults     \* bound: connections lost, slow clients, deaths of server and publisher

ASSUME LimitAssumption == BatchLimit \in Nat \ {0} /\ Limit \in 1..BatchLimit
ASSUME FaultAssumption == MaxFaults \in Nat
ASSUME ClientAssumption ==
  Replayers \cap Tailers = {} /\ IsFiniteSet(Replayers) /\ IsFiniteSet(Tailers)

Clients == Replayers \cup Tailers

VARIABLES
  mark0,     \* observerWatermarks of the stream, Unknown while it has no key
  srv,       \* what the server's thread is doing
  link,      \* each client's connection
  water,     \* watermark of each subscriber
  told,      \* the resets each subscriber has been notified of
  count,     \* deliveries to each subscriber in this scan
  cursor,    \* the last watermark each client has received
  faults     \* how many faults have happened

feedVars == <<mark0, srv, link, water, told, count, cursor, faults>>
allVars == <<vars, feedVars>>

Unknown == MaxSeq + 1
Watermarks == 0..MaxSeq

\* A reset item, as far as it differs: the cursor asked for and the window.
Resets == [asked : Watermarks, base : 1..MaxSeq + 1, committed : Watermarks]
NoReset == [asked |-> 0, base |-> 0, committed |-> 0]

Rest == [at |-> "idle", next |-> 0, upto |-> 0, ev |-> NoEvent,
         reset |-> NoReset, batch |-> <<>>]

FeedTypeOK ==
  /\ mark0 \in Watermarks \cup {Unknown}
  /\ srv \in [at : {"idle", "open", "index", "record", "deliver"},
              next : 0..MaxSeq + 1, upto : Watermarks, ev : Events \cup {NoEvent},
              reset : Resets \cup {NoReset}, batch : Seq(Seqs)]
  /\ link \in [Clients -> {"new", "down", "up", "dying"}]
  /\ water \in [Clients -> Watermarks]
  /\ told \in [Clients -> SUBSET Resets]
  /\ count \in [Clients -> 0..Limit]
  /\ cursor \in [Clients -> Watermarks]
  /\ faults \in 0..MaxFaults

FeedInit ==
  /\ Init
  /\ mark0 = Unknown
  /\ srv = Rest
  /\ link = [c \in Clients |-> "new"]
  /\ water = [c \in Clients |-> 0]
  /\ told = [c \in Clients |-> {}]
  /\ count = [c \in Clients |-> 0]
  /\ cursor = [c \in Clients |-> 0]
  /\ faults = 0

-----------------------------------------------------------------------------
\* The observer's subscribers: a dying connection is one the server still has.
Subscribers == {c \in Clients : link[c] \in {"up", "dying"}}

\* mutant: the subscriber that is farthest ahead decides
Maximum ==
  CHOOSE w \in {water[c] : c \in Subscribers} : \A c \in Subscribers : w >= water[c]

\* subscriberMinimums
Minimum ==
  CHOOSE w \in {water[c] : c \in Subscribers} : \A c \in Subscribers : w <= water[c]

\* resetWatermark, and a reset stream's startWatermark.
ResetWatermark(r) == IF r.base - 1 < r.committed THEN r.base - 1 ELSE r.committed

\* openOvenEventStreams reads the state; a cursor behind the window starts at
\* its base, and is told so.  A stream that is not there yet has no reader.
Open ==
  /\ srv.at = "open"
  /\ srv' = IF ~made
              THEN [srv EXCEPT !.at = "deliver"]
              ELSE LET reset == IF Minimum < base - 1 \/ Minimum > committed
                                  THEN [asked |-> Minimum, base |-> base, committed |-> committed]
                                  ELSE NoReset
                   IN  [srv EXCEPT !.at = "index", !.reset = reset, !.upto = committed,
                                   !.next = IF reset = NoReset THEN Minimum + 1 ELSE base]
  /\ UNCHANGED <<mark0, link, water, told, count, cursor, faults>>

Exhausted == srv.next > srv.upto \/ Len(srv.batch) = BatchLimit

\* next(): the index file, then the record it names.  A file that is gone or
\* does not match blocks the reader for the rest of this read.
ReadIndex ==
  /\ srv.at = "index"
  /\ srv' = IF Exhausted \/ index[srv.next] = NoEvent
              THEN [srv EXCEPT !.at = "deliver"]
              ELSE [srv EXCEPT !.at = "record", !.ev = index[srv.next]]
  /\ UNCHANGED <<mark0, link, water, told, count, cursor, faults>>

ReadRecord ==
  /\ srv.at = "record"
  /\ srv' = IF record[srv.ev] # srv.next
              THEN [srv EXCEPT !.at = "deliver", !.ev = NoEvent]
              ELSE [srv EXCEPT !.at = "index", !.ev = NoEvent, !.next = @ + 1,
                               !.batch = Append(@, record[srv.ev])]
  /\ UNCHANGED <<mark0, link, water, told, count, cursor, faults>>

-----------------------------------------------------------------------------
\* A callback writes to a connection; a slow one is closed and removed at once,
\* and a dead one takes the bytes.
Send(to, slow, w) ==
  /\ slow \subseteq to
  /\ faults + Cardinality(slow) <= MaxFaults
  /\ faults' = faults + Cardinality(slow)
  /\ link' = [c \in Clients |-> IF c \in slow THEN "down" ELSE link[c]]
  /\ cursor' = [c \in Clients |->
                  IF c \in (to \ slow) /\ link[c] # "dying" THEN w ELSE cursor[c]]
  /\ water' = [c \in Clients |-> IF c \in to THEN w ELSE water[c]]

\* A signature of an earlier window cannot come again, so only those of this
\* reset's window are kept.
Remember(c) == {r \in told[c] : r.base = srv.reset.base /\ r.committed = srv.reset.committed}

\* notifyLiveReset, notifySubscriberReset: a reset goes to every subscriber of
\* the stream that has not had the same one, wherever it is itself.
DeliverReset ==
  /\ srv.at = "deliver"
  /\ srv.reset # NoReset
  /\ LET to == {c \in Subscribers : srv.reset \notin told[c]}
         w == ResetWatermark(srv.reset)
     IN  /\ \E slow \in SUBSET to : Send(to, slow, w)
         /\ told' = [c \in Clients |-> IF c \in to THEN Remember(c) \cup {srv.reset} ELSE told[c]]
  /\ srv' = [srv EXCEPT !.reset = NoReset]
  /\ UNCHANGED <<mark0, count>>

\* mutant: whatever the scan reads is sent to everybody
DueAnyway(c, s) == count[c] < Limit

\* An event the subscriber has not had, within its selection's limit.
Due(c, s) == s > water[c] /\ count[c] < Limit

\* deliverLive and the loop over the subscribers, for one event of the batch.
DeliverEvent ==
  /\ srv.at = "deliver"
  /\ srv.reset = NoReset
  /\ srv.batch # <<>>
  /\ LET s == Head(srv.batch)
         to == {c \in Subscribers : Due(c, s)}
     IN  /\ \E slow \in SUBSET to : Send(to, slow, s)
         /\ count' = [c \in Clients |-> IF c \in to THEN count[c] + 1 ELSE count[c]]
         /\ mark0' = IF mark0 = Unknown \/ s > mark0 THEN s ELSE mark0
  /\ srv' = [srv EXCEPT !.batch = Tail(@)]
  /\ UNCHANGED told

\* The thread is free.
Finish ==
  /\ srv.at = "deliver"
  /\ srv.reset = NoReset
  /\ srv.batch = <<>>
  /\ srv' = Rest
  /\ count' = [c \in Clients |-> 0]
  /\ water' = [c \in Clients |-> IF c \in Subscribers THEN water[c] ELSE 0]
  /\ told' = [c \in Clients |-> IF c \in Subscribers THEN told[c] ELSE {}]
  /\ UNCHANGED <<mark0, link, cursor, faults>>

Free == srv.at = "idle"

\* The live reader takes the listeners from their watermark to any later one,
\* by deliveries or a reset, according to what it is able to read; a new stream
\* gets its key (reconcileLiveKeys).
ReadLive ==
  IF made
    THEN \E m \in Watermarks : m <= committed /\ (mark0 # Unknown => mark0 <= m) /\ mark0' = m
    ELSE UNCHANGED mark0

ScanFor(subscribers) ==
  /\ ReadLive
  /\ srv' = IF subscribers = {} THEN Rest ELSE [Rest EXCEPT !.at = "open"]

\* The observer's timer.
Scan ==
  /\ Free
  /\ ScanFor(Subscribers)
  /\ UNCHANGED <<link, water, told, count, cursor, faults>>

\* A client starts with the first event, or with the baseline's cursor.
Begin(c) ==
  /\ Free
  /\ link[c] = "new"
  /\ link' = [link EXCEPT ![c] = "down"]
  /\ cursor' = [cursor EXCEPT ![c] = committed] \/ cursor' = cursor
  /\ UNCHANGED <<mark0, srv, water, told, count, faults>>

\* mutant: the watermark of an unknown stream is taken as it is
KnownAlways(w) == w

\* scopedKnownWatermarks: a stream the observer has no key for starts at 0.
Known(w) == IF mark0 = Unknown THEN 0 ELSE w

\* subscribe: a cursor counts only for a stream the observer knows; a scan
\* follows at once.
Subscribe(c) ==
  /\ Free
  /\ link[c] = "down"
  /\ link' = [link EXCEPT ![c] = "up"]
  /\ water' = [water EXCEPT ![c] = Known(IF c \in Tailers THEN mark0 ELSE cursor[c])]
  /\ cursor' = [cursor EXCEPT ![c] = IF c \in Tailers THEN Known(mark0) ELSE @]
  /\ told' = [told EXCEPT ![c] = {}]
  /\ ScanFor({c})
  /\ UNCHANGED <<count, faults>>

\* A connection breaks: what the server writes is lost until it notices.
Lose(c) ==
  /\ link[c] = "up"
  /\ faults < MaxFaults
  /\ faults' = faults + 1
  /\ link' = [link EXCEPT ![c] = "dying"]
  /\ UNCHANGED <<mark0, srv, water, told, count, cursor>>

Close(c) ==
  /\ Free
  /\ link[c] = "dying"
  /\ link' = [link EXCEPT ![c] = "down"]
  /\ UNCHANGED <<mark0, srv, water, told, count, cursor, faults>>

\* The server dies and starts: the observer begins at the stream's tail.
Restart ==
  /\ faults < MaxFaults
  /\ faults' = faults + 1
  /\ mark0' = IF made THEN committed ELSE Unknown
  /\ srv' = Rest
  /\ link' = [c \in Clients |-> IF c \in Subscribers THEN "down" ELSE link[c]]
  /\ water' = [c \in Clients |-> 0]
  /\ told' = [c \in Clients |-> {}]
  /\ count' = [c \in Clients |-> 0]
  /\ UNCHANGED cursor

Serve == Open \/ ReadIndex \/ ReadRecord \/ DeliverReset \/ DeliverEvent \/ Finish

FeedNext ==
  \/ Step /\ UNCHANGED feedVars
  \/ \E e \in Events : Publish(e) /\ UNCHANGED feedVars
  \/ /\ Crash
     /\ faults < MaxFaults
     /\ faults' = faults + 1
     /\ UNCHANGED <<mark0, srv, link, water, told, count, cursor>>
  \/ /\ \/ Serve \/ Scan \/ Restart
        \/ \E c \in Clients : Begin(c) \/ Subscribe(c) \/ Lose(c) \/ Close(c)
     /\ UNCHANGED vars

FeedSpec == FeedInit /\ [][FeedNext]_allVars

-----------------------------------------------------------------------------
\* A client never misses an event silently: its cursor moves on by one event,
\* or over events that have left the window, and then it has been sent a reset
\* (oven-reset).  A tail client that reconnects reads the canonical data anew.
NoneSkipped ==
  [][\A c \in Clients :
       link[c] # "new" /\ cursor'[c] > cursor[c] + 1 =>
         \/ srv.reset # NoReset /\ cursor'[c] < base
         \/ c \in Tailers /\ link[c] = "down"]_allVars

\* As long as a subscriber stays connected, it is sent every event once and in
\* order, whatever the other subscribers need; only a reset starts over.
InOrder ==
  [][\A c \in Clients :
       c \in Subscribers /\ c \in Subscribers' /\ water'[c] # water[c] =>
         water'[c] = water[c] + 1 \/ srv.reset # NoReset]_allVars
==============================================================================
