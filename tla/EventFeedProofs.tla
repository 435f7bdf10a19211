--------------------------- MODULE EventFeedProofs ---------------------------
(***************************************************************************)
(* Proofs about EventFeed for every set of clients, events and limits.     *)
(*                                                                         *)
(* The server reads once for all its subscribers, from the lowest of their *)
(* watermarks, while publishers in other processes move the window.  The   *)
(* inductive invariant relates what it has read and not yet delivered to   *)
(* every subscriber's watermark (Batched), the watermark to what the       *)
(* client has (Received), and both to the resets (Notified).               *)
(***************************************************************************)
EXTENDS EventFeed, EventStreamProofs, FiniteSetTheorems, WellFoundedInduction

Reading == {"index", "record", "deliver"}

\* The number the batch starts with, or would.
First == srv.next - Len(srv.batch)

\* The batch is consecutive; nobody is behind its first number but who has had
\* its fill of this scan, or who is about to be sent the reset.
Batched ==
  /\ srv.at # "deliver" => \A c \in Clients : count[c] = 0
  /\ srv.at = "open" => Subscribers # {} /\ srv = [Rest EXCEPT !.at = "open"]
  /\ srv.at = "idle" => srv.reset = NoReset
  /\ srv.at = "index" => srv.next >= 1
  /\ srv.at = "record" => srv.next \in Seqs
  /\ srv.at \in Reading =>
       /\ \A i \in 1..Len(srv.batch) : srv.batch[i] = First + i - 1
       /\ srv.reset = NoReset =>
            \A c \in Subscribers : count[c] = Limit \/ water[c] >= First - 1
       /\ srv.reset # NoReset => First = srv.reset.base

\* A reset's base is behind the window's or is it, and who has been told of a
\* reset is not behind its base.
Notified ==
  /\ srv.reset # NoReset => srv.reset.base <= base /\ srv.reset.base <= srv.reset.committed + 1
  /\ \A c \in Clients : \A r \in told[c] : r.base <= water[c] + 1

\* Who is connected has received what the server takes it to have.
Received == \A c \in Clients : link[c] = "up" => water[c] <= cursor[c]

FeedIInv ==
  /\ IInv
  /\ FeedTypeOK
  /\ Batched
  /\ Notified
  /\ Received

USE EventAssumption, SequenceAssumption, LimitAssumption, FaultAssumption, ClientAssumption
USE DEF Seqs, NoReset, Watermarks

-----------------------------------------------------------------------------
\* Whatever the server and its clients do, the stream sees its own steps.
LEMMA StreamStep == [FeedNext]_allVars => [Next]_vars
  BY DEF FeedNext, Next, allVars

LEMMA ClientsFinite == IsFiniteSet(Clients)
  BY FS_Union DEF Clients

\* The window's base only grows.
LEMMA BaseGrows == IInv /\ [Next]_vars => base' >= base
<1> SUFFICES ASSUME IInv, [Next]_vars PROVE base' >= base
  OBVIOUS
<1>1. CASE Raise
  BY <1>1 DEF Raise, RaisedBase, IInv, Numbered, TypeOK
<1>2. CASE Commit
  BY <1>2 DEF Commit, IInv, TypeOK
<1>3. CASE ~Raise /\ ~Commit
  BY <1>3, WindowUntouched DEF IInv, TypeOK
<1> QED
  BY <1>1, <1>2, <1>3

\* A scan for subscribers starts with the lowest of their watermarks.
LEMMA MinimumIsLowest ==
  ASSUME FeedTypeOK, Subscribers # {}
  PROVE  /\ Minimum \in Watermarks
         /\ \A c \in Subscribers : Minimum <= water[c]
<1> DEFINE W == {water[c] : c \in Subscribers}
<1>1. W \subseteq Nat /\ W \subseteq Watermarks /\ W # {}
  <2>1. \A c \in Subscribers : water[c] \in Watermarks
    BY DEF FeedTypeOK, Subscribers
  <2>2. Watermarks \subseteq Nat
    OBVIOUS
  <2> QED
    BY <2>1, <2>2
<1>2. PICK m \in W : \A w \in W : ~(<<w, m>> \in OpToRel(<, Nat))
  BY <1>1, WFMin, NatLessThanWellFounded, Zenon
<1>3. \A w \in W : m <= w
  <2>1. OpToRel(<, Nat) = {ss \in Nat \X Nat : ss[1] < ss[2]}
    BY Zenon DEF OpToRel
  <2> HIDE DEF W
  <2>2. \A w \in W : ~(w < m)
    BY <1>1, <1>2, <2>1
  <2> QED
    BY <1>1, <2>2
<1>4. \A c \in Subscribers : m <= water[c]
  BY <1>3
<1>5. Minimum \in W /\ \A c \in Subscribers : Minimum <= water[c]
  BY <1>2, <1>4 DEF Minimum
<1> QED
  BY <1>1, <1>5

-----------------------------------------------------------------------------
THEOREM FeedInitIInv == FeedInit => FeedIInv
<1> SUFFICES ASSUME FeedInit PROVE FeedIInv
  OBVIOUS
<1> USE DEF FeedInit, Rest
<1>1. IInv
  BY InitIInv
<1>2. FeedTypeOK
  BY DEF FeedTypeOK, Clients, Unknown
<1>3. Batched /\ Notified /\ Received
  BY DEF Batched, Notified, Received, Reading
<1> QED
  BY <1>1, <1>2, <1>3 DEF FeedIInv

-----------------------------------------------------------------------------
\* Sending to some subscribers moves their watermarks, and the cursors of those
\* that are connected before and after.
LEMMA SendFacts ==
  ASSUME FeedTypeOK, NEW to \in SUBSET Clients, NEW slow \in SUBSET to,
         NEW w \in Watermarks, Send(to, slow, w)
  PROVE  /\ link' \in [Clients -> {"new", "down", "up", "dying"}]
         /\ water' \in [Clients -> Watermarks]
         /\ cursor' \in [Clients -> Watermarks]
         /\ faults' \in 0..MaxFaults
         /\ \A c \in Clients : /\ water'[c] = IF c \in to THEN w ELSE water[c]
                               /\ link'[c] = link[c] \/ link'[c] = "down"
                               /\ cursor'[c] = cursor[c] \/ cursor'[c] = w
                               /\ cursor'[c] # cursor[c] => c \in to /\ link[c] # "dying"
         /\ Subscribers' \subseteq Subscribers
<1> USE DEF Send, FeedTypeOK
<1>1. Cardinality(slow) \in Nat
  BY ClientsFinite, FS_Subset, FS_CardinalityType
<1>2. faults' \in 0..MaxFaults
  BY <1>1
<1>3. /\ link' \in [Clients -> {"new", "down", "up", "dying"}]
      /\ water' \in [Clients -> Watermarks]
      /\ cursor' \in [Clients -> Watermarks]
  OBVIOUS
<1>4. \A c \in Clients : /\ water'[c] = IF c \in to THEN w ELSE water[c]
                         /\ link'[c] = link[c] \/ link'[c] = "down"
                         /\ cursor'[c] = cursor[c] \/ cursor'[c] = w
                         /\ cursor'[c] # cursor[c] => c \in to /\ link[c] # "dying"
  OBVIOUS
<1>5. Subscribers' \subseteq Subscribers
  BY <1>4 DEF Subscribers
<1> QED
  BY <1>2, <1>3, <1>4, <1>5

\* A scan starts at rest or with somebody to read for.
LEMMA ScanFacts ==
  ASSUME FeedTypeOK, NEW S, ScanFor(S)
  PROVE  /\ mark0' \in Watermarks \cup {Unknown}
         /\ srv' = IF S = {} THEN Rest ELSE [Rest EXCEPT !.at = "open"]
<1> USE DEF ScanFor, ReadLive
<1>1. CASE made
  BY <1>1
<1>2. CASE ~made
  BY <1>2 DEF FeedTypeOK
<1> QED
  BY <1>1, <1>2

Thread == [at : {"idle", "open", "index", "record", "deliver"},
           next : 0..MaxSeq + 1, upto : Watermarks, ev : Events \cup {NoEvent},
           reset : Resets \cup {NoReset}, batch : Seq(Seqs)]

LEMMA RestIsThread == Rest \in Thread /\ [Rest EXCEPT !.at = "open"] \in Thread
<1>1. Rest \in Thread
  BY DEF Rest, Thread
<1> QED
  BY <1>1 DEF Thread

\* Opening the stream finds the first number to read.
LEMMA OpenFacts ==
  ASSUME FeedIInv, Open
  PROVE  /\ srv' \in Thread
         /\ srv'.batch = <<>>
         /\ srv'.at \in {"index", "deliver"}
         /\ srv'.at = "index" => srv'.next >= 1
         /\ srv'.reset = NoReset =>
              \A c \in Subscribers : water[c] >= srv'.next - 1
         /\ srv'.reset # NoReset => /\ srv'.reset.base = base
                                    /\ srv'.reset.committed = committed
                                    /\ srv'.next = base
<1> USE DEF FeedIInv, FeedTypeOK, IInv, TypeOK
<1>1. /\ Minimum \in Watermarks
      /\ \A c \in Subscribers : Minimum <= water[c]
  BY MinimumIsLowest DEF Open, Batched
<1>2. srv \in Thread /\ srv.batch = <<>> /\ srv.reset = NoReset /\ srv.next = 0
  BY DEF Open, Batched, Thread, Rest
<1>3. \A c \in Subscribers : water[c] \in Nat
  BY DEF Subscribers
<1>4. CASE ~made
  <2>1. srv' = [srv EXCEPT !.at = "deliver"]
    BY <1>4 DEF Open
  <2>2. srv' \in Thread /\ srv'.at = "deliver"
    BY <1>2, <2>1 DEF Thread
  <2>3. srv'.batch = <<>> /\ srv'.reset = NoReset /\ srv'.next = 0
    BY <1>2, <2>1 DEF Thread
  <2>4. \A c \in Subscribers : water[c] >= srv'.next - 1
    BY <1>3, <2>3, SMTT(30)
  <2> QED
    BY <2>2, <2>3, <2>4
<1>5. CASE made
  <2> DEFINE behind == Minimum < base - 1 \/ Minimum > committed
             reset == IF behind
                        THEN [asked |-> Minimum, base |-> base, committed |-> committed]
                        ELSE NoReset
  <2>1. srv' = [srv EXCEPT !.at = "index", !.reset = reset, !.upto = committed,
                           !.next = IF reset = NoReset THEN Minimum + 1 ELSE base]
    BY <1>5 DEF Open
  <2>2. behind => reset # NoReset
    OBVIOUS
  <2>3. reset \in Resets \cup {NoReset}
    BY <1>1 DEF Resets
  <2>4. Minimum + 1 \in 0..MaxSeq + 1 /\ base \in 0..MaxSeq + 1
    BY <1>1
  <2>5. srv' \in Thread /\ srv'.batch = <<>> /\ srv'.at = "index" /\ srv'.reset = reset
    BY <1>2, <2>1, <2>3, <2>4, ZenonT(60) DEF Thread
  <2>6. srv'.next = IF reset = NoReset THEN Minimum + 1 ELSE base
    BY <1>2, <2>1 DEF Thread
  <2>7. CASE reset = NoReset
    <3>1. srv'.next = Minimum + 1 /\ Minimum \in Nat
      BY <1>1, <2>6, <2>7
    <3>2. srv'.next >= 1 /\ \A c \in Subscribers : water[c] >= srv'.next - 1
      BY <1>1, <1>3, <3>1
    <3> QED
      BY <2>5, <2>7, <3>2
  <2>8. CASE reset # NoReset
    BY <2>2, <2>5, <2>6, <2>8
  <2> QED
    BY <2>7, <2>8
<1> QED
  BY <1>4, <1>5

\* The kinds and ranges of the feed's variables survive every step.
LEMMA FeedTypeStep == FeedIInv /\ [FeedNext]_allVars => FeedTypeOK'
<1> SUFFICES ASSUME FeedIInv, [FeedNext]_allVars PROVE FeedTypeOK'
  OBVIOUS
<1> USE DEF FeedIInv, FeedTypeOK, IInv, TypeOK
<1>0. srv \in Thread
  BY DEF Thread
<1>1. CASE UNCHANGED feedVars
  BY <1>1 DEF feedVars
<1>2. CASE Crash /\ faults < MaxFaults /\ faults' = faults + 1
           /\ UNCHANGED <<mark0, srv, link, water, told, count, cursor>>
  BY <1>2, SMTT(30)
<1>3. CASE Open
  <2>1. srv' \in Thread
    BY <1>3, OpenFacts
  <2> QED
    BY <1>3, <2>1 DEF Open, Thread
<1>4. CASE ReadIndex
  <2>1. srv' \in Thread
    <3>1. CASE srv' = [srv EXCEPT !.at = "deliver"]
      BY <1>0, <3>1 DEF Thread
    <3>2. CASE ~Exhausted /\ srv' = [srv EXCEPT !.at = "record", !.ev = index[srv.next]]
      <4>1. srv.next \in 0..MaxSeq + 1 /\ srv.upto \in 0..MaxSeq
        BY <1>0 DEF Thread
      <4>2. srv.next \in Seqs
        BY <1>4, <3>2, <4>1 DEF Exhausted, ReadIndex, Batched
      <4>3. index[srv.next] \in Events \cup {NoEvent}
        BY <4>2
      <4> QED
        BY <1>0, <3>2, <4>3 DEF Thread
    <3> QED
      BY <1>4, <3>1, <3>2 DEF ReadIndex
  <2> QED
    BY <1>4, <2>1 DEF ReadIndex, Thread
<1>5. CASE ReadRecord
  <2>1. srv.next \in Seqs
    BY <1>5 DEF ReadRecord, Batched
  <2>2. srv' \in Thread
    <3>1. CASE srv' = [srv EXCEPT !.at = "deliver", !.ev = NoEvent]
      BY <1>0, <3>1 DEF Thread
    <3>2. CASE /\ record[srv.ev] = srv.next
               /\ srv' = [srv EXCEPT !.at = "index", !.ev = NoEvent, !.next = @ + 1,
                                     !.batch = Append(@, record[srv.ev])]
      <4>1. Append(srv.batch, record[srv.ev]) \in Seq(Seqs)
        BY <1>0, <2>1, <3>2 DEF Thread
      <4>2. srv.next + 1 \in 0..MaxSeq + 1
        BY <2>1, SMTT(30)
      <4> QED
        BY <1>0, <3>2, <4>1, <4>2 DEF Thread
    <3> QED
      BY <1>5, <3>1, <3>2 DEF ReadRecord
  <2> QED
    BY <1>5, <2>2 DEF ReadRecord, Thread
<1>6. CASE DeliverReset
  <2> DEFINE to == {c \in Subscribers : srv.reset \notin told[c]}
             w == ResetWatermark(srv.reset)
  <2>1. srv.reset \in Resets
    BY <1>6 DEF DeliverReset
  <2>2. w \in Watermarks
    BY <2>1, SMTT(30) DEF ResetWatermark, Resets
  <2>3. to \in SUBSET Clients
    BY DEF Subscribers
  <2>4. PICK slow \in SUBSET to : Send(to, slow, w)
    BY <1>6 DEF DeliverReset
  <2>5. /\ link' \in [Clients -> {"new", "down", "up", "dying"}]
        /\ water' \in [Clients -> Watermarks]
        /\ cursor' \in [Clients -> Watermarks]
        /\ faults' \in 0..MaxFaults
    BY <2>2, <2>3, <2>4, SendFacts
  <2>6. told' = [c \in Clients |-> IF c \in to THEN Remember(c) \cup {srv.reset} ELSE told[c]]
    BY <1>6 DEF DeliverReset
  <2>7. told' \in [Clients -> SUBSET Resets]
    BY <2>1, <2>6 DEF Remember
  <2>8. srv' \in Thread
    BY <1>0, <1>6 DEF DeliverReset, Thread
  <2>9. UNCHANGED <<mark0, count>>
    BY <1>6 DEF DeliverReset
  <2> QED
    BY <2>5, <2>7, <2>8, <2>9 DEF Thread
<1>7. CASE DeliverEvent
  <2> DEFINE s == Head(srv.batch)
             to == {c \in Subscribers : Due(c, s)}
  <2>1. s \in Watermarks /\ Tail(srv.batch) \in Seq(Seqs)
    <3>1. srv.batch \in Seq(Seqs) /\ srv.batch # <<>>
      BY <1>0, <1>7 DEF DeliverEvent, Thread
    <3>2. Head(srv.batch) \in Seqs
      BY <3>1, SMTT(30)
    <3>3. Tail(srv.batch) \in Seq(Seqs)
      BY <3>1
    <3> QED
      BY <3>2, <3>3
  <2>2. to \in SUBSET Clients
    BY DEF Subscribers
  <2>3. PICK slow \in SUBSET to : Send(to, slow, s)
    BY <1>7 DEF DeliverEvent
  <2>4. /\ link' \in [Clients -> {"new", "down", "up", "dying"}]
        /\ water' \in [Clients -> Watermarks]
        /\ cursor' \in [Clients -> Watermarks]
        /\ faults' \in 0..MaxFaults
    BY <2>1, <2>2, <2>3, SendFacts
  <2>5. count' = [c \in Clients |-> IF c \in to THEN count[c] + 1 ELSE count[c]]
    BY <1>7 DEF DeliverEvent
  <2>6. \A c \in to : count[c] + 1 \in 0..Limit
    <3>1. \A c \in to : count[c] \in 0..Limit /\ count[c] < Limit
      BY <2>2 DEF Due
    <3>2. Limit \in Nat
      OBVIOUS
    <3> HIDE DEF FeedIInv, FeedTypeOK
    <3> QED
      BY <3>1, <3>2
  <2>7. count' \in [Clients -> 0..Limit]
    BY <2>5, <2>6
  <2>8. srv' \in Thread
    BY <1>0, <1>7, <2>1 DEF DeliverEvent, Thread
  <2>9. told' = told /\ mark0' \in {mark0, s}
    BY <1>7 DEF DeliverEvent
  <2> QED
    BY <2>1, <2>4, <2>7, <2>8, <2>9 DEF Thread
<1>8. CASE Finish
  <2>1. srv' \in Thread
    BY <1>8, RestIsThread DEF Finish
  <2>2. /\ count' = [c \in Clients |-> 0]
        /\ water' = [c \in Clients |-> IF c \in Subscribers THEN water[c] ELSE 0]
        /\ told' = [c \in Clients |-> IF c \in Subscribers THEN told[c] ELSE {}]
        /\ UNCHANGED <<mark0, link, cursor, faults>>
    BY <1>8 DEF Finish
  <2>3. count' \in [Clients -> 0..Limit]
    BY <2>2
  <2>4. water' \in [Clients -> Watermarks] /\ told' \in [Clients -> SUBSET Resets]
    BY <2>2
  <2> QED
    BY <2>1, <2>2, <2>3, <2>4 DEF Thread
<1>9. CASE Scan
  <2>1. ScanFor(Subscribers) /\ UNCHANGED <<link, water, told, count, cursor, faults>>
    BY <1>9 DEF Scan
  <2>2. mark0' \in Watermarks \cup {Unknown} /\ srv' \in Thread
    BY <2>1, ScanFacts, RestIsThread
  <2> QED
    BY <2>1, <2>2 DEF Thread
<1>10. CASE Restart
  <2>1. srv' \in Thread
    BY <1>10, RestIsThread DEF Restart
  <2>2. link' = [c \in Clients |-> IF c \in Subscribers THEN "down" ELSE link[c]]
    BY <1>10 DEF Restart
  <2>3. mark0' \in Watermarks \cup {Unknown} /\ faults' \in 0..MaxFaults
    BY <1>10 DEF Restart
  <2>4. /\ water' = [c \in Clients |-> 0]
        /\ told' = [c \in Clients |-> {}]
        /\ count' = [c \in Clients |-> 0]
        /\ UNCHANGED cursor
    BY <1>10 DEF Restart
  <2> QED
    BY <2>1, <2>2, <2>3, <2>4, SMTT(30) DEF Thread
<1>11. ASSUME NEW c \in Clients, Begin(c) PROVE FeedTypeOK'
  <2>1. link' = [link EXCEPT ![c] = "down"]
    BY <1>11 DEF Begin
  <2>2. cursor' \in [Clients -> Watermarks]
    BY <1>11 DEF Begin
  <2>3. UNCHANGED <<mark0, srv, water, told, count, faults>>
    BY <1>11 DEF Begin
  <2> QED
    BY <2>1, <2>2, <2>3
<1>12. ASSUME NEW c \in Clients, Subscribe(c) PROVE FeedTypeOK'
  <2>1. ScanFor({c})
    BY <1>12 DEF Subscribe
  <2>2. mark0' \in Watermarks \cup {Unknown} /\ srv' \in Thread
    BY <2>1, ScanFacts, RestIsThread
  <2>3. Known(mark0) \in Watermarks /\ Known(cursor[c]) \in Watermarks
    BY DEF Known
  <2>4. link' = [link EXCEPT ![c] = "up"] /\ told' = [told EXCEPT ![c] = {}]
    BY <1>12 DEF Subscribe
  <2>5. water' \in [Clients -> Watermarks] /\ cursor' \in [Clients -> Watermarks]
    BY <1>12, <2>3 DEF Subscribe
  <2>6. UNCHANGED <<count, faults>>
    BY <1>12 DEF Subscribe
  <2> QED
    BY <2>2, <2>4, <2>5, <2>6 DEF Thread
<1>13. ASSUME NEW c \in Clients, Lose(c) PROVE FeedTypeOK'
  <2>1. link' = [link EXCEPT ![c] = "dying"]
    BY <1>13 DEF Lose
  <2>3. faults' \in 0..MaxFaults
    BY <1>13 DEF Lose
  <2>2. UNCHANGED <<mark0, srv, water, told, count, cursor>>
    BY <1>13 DEF Lose
  <2> QED
    BY <2>1, <2>2, <2>3
<1>14. ASSUME NEW c \in Clients, Close(c) PROVE FeedTypeOK'
  <2>1. link' = [link EXCEPT ![c] = "down"]
    BY <1>14 DEF Close
  <2>2. UNCHANGED <<mark0, srv, water, told, count, cursor, faults>>
    BY <1>14 DEF Close
  <2> QED
    BY <2>1, <2>2
<1> QED
  BY <1>1, <1>2, <1>3, <1>4, <1>5, <1>6, <1>7, <1>8, <1>9, <1>10, <1>11, <1>12, <1>13, <1>14
  DEF FeedNext, Serve, allVars

-----------------------------------------------------------------------------
\* What the two deliveries do to watermarks, cursors and connections.
LEMMA ResetFacts ==
  ASSUME FeedIInv, DeliverReset
  PROVE  /\ srv.reset \in Resets
         /\ srv' = [srv EXCEPT !.reset = NoReset]
         /\ ResetWatermark(srv.reset) = srv.reset.base - 1
         /\ UNCHANGED count
         /\ \A c \in Clients :
              \/ /\ srv.reset \notin told[c]
                 /\ water'[c] = srv.reset.base - 1
                 /\ \A r \in told'[c] : r.base = srv.reset.base
                 /\ cursor'[c] = cursor[c] \/ cursor'[c] = srv.reset.base - 1
                 /\ link'[c] = "up" => cursor'[c] = water'[c]
              \/ /\ srv.reset \in told[c] \/ c \notin Subscribers
                 /\ UNCHANGED <<water[c], told[c], cursor[c]>>
         /\ \A c \in Clients : link'[c] = link[c] \/ link'[c] = "down"
         /\ Subscribers' \subseteq Subscribers
<1>1. srv.reset \in Resets
  BY DEF DeliverReset, FeedIInv, FeedTypeOK
<1>2. ResetWatermark(srv.reset) = srv.reset.base - 1 /\ srv.reset.base - 1 \in Watermarks
  <2>1. srv.reset.base <= srv.reset.committed + 1
    BY DEF FeedIInv, Notified, DeliverReset
  <2> QED
    BY <1>1, <2>1 DEF ResetWatermark, Resets
<1>3. {c \in Subscribers : srv.reset \notin told[c]} \in SUBSET Clients
  BY DEF Subscribers
<1>4. PICK to \in SUBSET Clients, w \in Watermarks, slow \in SUBSET Clients :
        /\ slow \in SUBSET to
        /\ to = {c \in Subscribers : srv.reset \notin told[c]}
        /\ w = srv.reset.base - 1
        /\ Send(to, slow, w)
  BY <1>2, <1>3 DEF DeliverReset
<1>5. /\ \A c \in Clients : /\ water'[c] = IF c \in to THEN w ELSE water[c]
                            /\ link'[c] = link[c] \/ link'[c] = "down"
                            /\ cursor'[c] = cursor[c] \/ cursor'[c] = w
                            /\ cursor'[c] # cursor[c] => c \in to /\ link[c] # "dying"
                            /\ c \in to /\ link'[c] = "up" => cursor'[c] = w
      /\ Subscribers' \subseteq Subscribers
  <2>1. FeedTypeOK
    BY DEF FeedIInv
  <2>2. \A c \in to : link'[c] = "up" => cursor'[c] = w
    BY <1>4, <2>1 DEF Send, FeedTypeOK
  <2>3. \A c \in Clients : /\ water'[c] = IF c \in to THEN w ELSE water[c]
                           /\ link'[c] = link[c] \/ link'[c] = "down"
                           /\ cursor'[c] = cursor[c] \/ cursor'[c] = w
                           /\ cursor'[c] # cursor[c] => c \in to /\ link[c] # "dying"
    BY <1>4, <2>1 DEF Send, FeedTypeOK
  <2>4. Subscribers' \subseteq Subscribers
    BY <1>4, <2>1, SendFacts
  <2> QED
    BY <2>2, <2>3, <2>4
<1>6. /\ told' = [c \in Clients |-> IF c \in to THEN Remember(c) \cup {srv.reset} ELSE told[c]]
      /\ srv' = [srv EXCEPT !.reset = NoReset]
      /\ UNCHANGED count
  BY <1>4 DEF DeliverReset
<1>7. ASSUME NEW c \in to PROVE \A r \in told'[c] : r.base = srv.reset.base
  BY <1>6 DEF Remember
<1>8. ASSUME NEW c \in Clients
      PROVE  \/ /\ srv.reset \notin told[c]
                /\ water'[c] = srv.reset.base - 1
                /\ \A r \in told'[c] : r.base = srv.reset.base
                /\ cursor'[c] = cursor[c] \/ cursor'[c] = srv.reset.base - 1
                /\ link'[c] = "up" => cursor'[c] = water'[c]
             \/ /\ srv.reset \in told[c] \/ c \notin Subscribers
                /\ UNCHANGED <<water[c], told[c], cursor[c]>>
  <2>1. CASE c \in to
    BY <1>4, <1>5, <1>7, <2>1
  <2>2. CASE c \notin to
    BY <1>4, <1>5, <1>6, <2>2
  <2> QED
    BY <2>1, <2>2
<1> QED
  BY <1>1, <1>2, <1>5, <1>6, <1>8

LEMMA EventFacts ==
  ASSUME FeedIInv, DeliverEvent
  PROVE  /\ Head(srv.batch) = First /\ First \in Int
         /\ srv.batch # <<>>
         /\ srv.batch \in Seq(Seqs)
         /\ srv.reset = NoReset
         /\ srv' = [srv EXCEPT !.batch = Tail(@)]
         /\ UNCHANGED told
         /\ \A c \in Clients :
              \/ /\ c \in Subscribers
                 /\ water[c] = First - 1
                 /\ water'[c] = First
                 /\ cursor'[c] = cursor[c] \/ cursor'[c] = First
                 /\ cursor'[c] # cursor[c] => link[c] = "up"
                 /\ link'[c] = "up" => cursor'[c] = First
              \/ /\ c \in Subscribers => count'[c] = Limit \/ water[c] >= First
                 /\ UNCHANGED <<water[c], cursor[c]>>
         /\ \A c \in Clients : link'[c] = link[c] \/ link'[c] = "down"
         /\ Subscribers' \subseteq Subscribers
<1> DEFINE head == Head(srv.batch)
<1>1. /\ srv.batch \in Seq(Seqs) /\ srv.batch # <<>>
      /\ srv.reset = NoReset /\ srv.at = "deliver"
      /\ srv.next \in Nat
  BY DEF DeliverEvent, FeedIInv, FeedTypeOK
<1>2. head = First /\ head \in Watermarks /\ head \in Int
  <2>1. head = srv.batch[1] /\ 1 \in 1..Len(srv.batch) /\ head \in Seqs
    BY <1>1
  <2>2. head = First + 1 - 1
    BY <1>1, <2>1 DEF FeedIInv, Batched, Reading
  <2> QED
    BY <1>1, <2>1, <2>2 DEF First
<1>3. {c \in Subscribers : Due(c, head)} \in SUBSET Clients
  BY DEF Subscribers
<1>4. PICK to \in SUBSET Clients, s \in Watermarks, slow \in SUBSET Clients :
        /\ slow \in SUBSET to
        /\ to = {c \in Subscribers : Due(c, head)}
        /\ s = head
        /\ Send(to, slow, s)
  BY <1>2, <1>3 DEF DeliverEvent
<1>5. /\ \A c \in Clients : /\ water'[c] = IF c \in to THEN s ELSE water[c]
                            /\ link'[c] = link[c] \/ link'[c] = "down"
                            /\ cursor'[c] = cursor[c] \/ cursor'[c] = s
                            /\ cursor'[c] # cursor[c] => c \in to /\ link[c] # "dying"
                            /\ c \in to /\ link'[c] = "up" => cursor'[c] = s
      /\ Subscribers' \subseteq Subscribers
  <2>1. FeedTypeOK
    BY DEF FeedIInv
  <2>2. \A c \in to : link'[c] = "up" => cursor'[c] = s
    BY <1>4, <2>1 DEF Send, FeedTypeOK
  <2>3. \A c \in Clients : /\ water'[c] = IF c \in to THEN s ELSE water[c]
                           /\ link'[c] = link[c] \/ link'[c] = "down"
                           /\ cursor'[c] = cursor[c] \/ cursor'[c] = s
                           /\ cursor'[c] # cursor[c] => c \in to /\ link[c] # "dying"
    BY <1>4, <2>1 DEF Send, FeedTypeOK
  <2>4. Subscribers' \subseteq Subscribers
    BY <1>4, <2>1, SendFacts
  <2> QED
    BY <2>2, <2>3, <2>4
<1>6. /\ count' = [c \in Clients |-> IF c \in to THEN count[c] + 1 ELSE count[c]]
      /\ srv' = [srv EXCEPT !.batch = Tail(@)]
      /\ UNCHANGED told
  BY <1>4 DEF DeliverEvent
<1>7. \A c \in Subscribers : count[c] = Limit \/ water[c] >= First - 1
  BY <1>1 DEF FeedIInv, Batched, Reading
<1>8. \A c \in Clients : water[c] \in Nat /\ count[c] \in 0..Limit
  BY DEF FeedIInv, FeedTypeOK
<1>9. ASSUME NEW c \in Clients
      PROVE  \/ /\ c \in Subscribers
                /\ water[c] = First - 1
                /\ water'[c] = First
                /\ cursor'[c] = cursor[c] \/ cursor'[c] = First
                /\ cursor'[c] # cursor[c] => link[c] = "up"
                /\ link'[c] = "up" => cursor'[c] = First
             \/ /\ c \in Subscribers => count'[c] = Limit \/ water[c] >= First
                /\ UNCHANGED <<water[c], cursor[c]>>
  <2>1. CASE c \in to
    <3>1. c \in Subscribers /\ s > water[c] /\ count[c] < Limit
      BY <1>4, <2>1 DEF Due
    <3>2. water[c] >= s - 1
      BY <1>2, <1>4, <1>7, <1>8, <3>1
    <3>3. water[c] = s - 1
      BY <1>2, <1>4, <1>8, <3>1, <3>2
    <3>4. link[c] \in {"up", "dying"}
      BY <3>1 DEF Subscribers
    <3> QED
      BY <1>2, <1>4, <1>5, <2>1, <3>1, <3>3, <3>4
  <2>2. CASE c \notin to
    <3>1. UNCHANGED <<water[c], cursor[c], count[c]>>
      BY <1>5, <1>6, <2>2
    <3>2. c \in Subscribers => ~(s > water[c] /\ count[c] < Limit)
      BY <1>4, <2>2 DEF Due
    <3> QED
      BY <1>2, <1>4, <1>8, <3>1, <3>2
  <2> QED
    BY <2>1, <2>2
<1> QED
  BY <1>1, <1>2, <1>5, <1>6, <1>9

\* A reset that is being delivered is of a window that was.
LEMMA NotifiedStep == FeedIInv /\ [FeedNext]_allVars => Notified'
<1> SUFFICES ASSUME FeedIInv, [FeedNext]_allVars PROVE Notified'
  OBVIOUS
<1>1. base \in Int /\ base' \in Int /\ base' >= base
  BY StreamStep, BaseGrows, TypeStep, SMTT(30) DEF FeedIInv, IInv, TypeOK
<1>2. /\ srv.reset # NoReset => /\ srv.reset.base <= base
                                /\ srv.reset.base <= srv.reset.committed + 1
                                /\ srv.reset \in Resets
      /\ \A c \in Clients : \A r \in told[c] : r.base <= water[c] + 1
      /\ \A c \in Clients : water[c] \in Nat /\ told[c] \in SUBSET Resets
  BY DEF FeedIInv, FeedTypeOK, Notified
<1>3. ASSUME srv'.reset \in {srv.reset, NoReset},
             \A c \in Clients : told'[c] = {} \/ UNCHANGED <<told[c], water[c]>>
      PROVE  Notified'
  <2>1. srv'.reset # NoReset => /\ srv'.reset.base <= base'
                                /\ srv'.reset.base <= srv'.reset.committed + 1
    BY <1>1, <1>2, <1>3 DEF Resets
  <2>2. \A c \in Clients : \A r \in told'[c] : r.base <= water'[c] + 1
    BY <1>2, <1>3
  <2> QED
    BY <2>1, <2>2 DEF Notified
<1>4. CASE UNCHANGED <<srv, told, water>>
  BY <1>3, <1>4
<1>5. CASE Open
  <2>1. srv'.reset # NoReset => srv'.reset.base = base /\ srv'.reset.committed = committed
    BY <1>5, OpenFacts
  <2>2. base <= committed + 1
    BY DEF FeedIInv, IInv, Numbered
  <2>3. UNCHANGED <<told, water>>
    BY <1>5 DEF Open
  <2> QED
    BY <1>1, <1>2, <2>1, <2>2, <2>3 DEF Notified
<1>6. CASE ReadIndex \/ ReadRecord
  <2>1. srv \in Thread /\ UNCHANGED <<told, water>>
    BY <1>6 DEF FeedIInv, FeedTypeOK, Thread, ReadIndex, ReadRecord
  <2>2. srv'.reset = srv.reset
    BY <1>6, <2>1 DEF ReadIndex, ReadRecord, Thread
  <2> QED
    BY <1>3, <2>1, <2>2
<1>7. CASE DeliverReset
  <2>1. srv'.reset = NoReset
    BY <1>7, ResetFacts DEF FeedIInv, FeedTypeOK
  <2>2. ASSUME NEW c \in Clients, NEW r \in told'[c] PROVE r.base <= water'[c] + 1
    <3>1. CASE UNCHANGED <<water[c], told[c]>>
      BY <1>2, <3>1
    <3>2. CASE water'[c] = srv.reset.base - 1 /\ r.base = srv.reset.base
      BY <1>7, <3>2, ResetFacts DEF Resets
    <3> QED
      BY <1>7, <3>1, <3>2, ResetFacts
  <2> QED
    BY <2>1, <2>2 DEF Notified
<1>8. CASE DeliverEvent
  <2>1. srv'.reset = NoReset /\ told' = told
    BY <1>8, EventFacts DEF FeedIInv, FeedTypeOK
  <2>2. ASSUME NEW c \in Clients PROVE water'[c] >= water[c]
    BY <1>2, <1>8, EventFacts, SMTT(30)
  <2>3. ASSUME NEW c \in Clients PROVE water'[c] \in Nat
    BY FeedTypeStep DEF FeedTypeOK
  <2>4. ASSUME NEW c \in Clients, NEW r \in told'[c] PROVE r.base <= water'[c] + 1
    <3>1. r.base \in Nat /\ r.base <= water[c] + 1
      BY <1>2, <2>1 DEF Resets
    <3> QED
      BY <1>2, <2>2, <2>3, <3>1
  <2> QED
    BY <2>1, <2>4 DEF Notified
<1>9. CASE Finish
  <2>1. srv'.reset = NoReset
    BY <1>9 DEF Finish, Rest
  <2>2. \A c \in Clients : told'[c] = {} \/ UNCHANGED <<told[c], water[c]>>
    BY <1>9 DEF Finish
  <2> QED
    BY <1>3, <2>1, <2>2
<1>10. CASE Scan
  <2>1. srv'.reset = NoReset /\ UNCHANGED <<told, water>>
    BY <1>10 DEF Scan, ScanFor, Rest
  <2> QED
    BY <1>3, <2>1
<1>11. CASE Restart
  <2>1. srv'.reset = NoReset /\ \A c \in Clients : told'[c] = {}
    BY <1>11 DEF Restart, Rest
  <2> QED
    BY <1>3, <2>1
<1>12. ASSUME NEW c \in Clients, Subscribe(c) PROVE Notified'
  <2>1. srv'.reset = NoReset
    BY <1>12 DEF Subscribe, ScanFor, Rest
  <2>2. \A d \in Clients : told'[d] = {} \/ UNCHANGED <<told[d], water[d]>>
    BY <1>12 DEF Subscribe, FeedIInv, FeedTypeOK
  <2> QED
    BY <1>3, <2>1, <2>2
<1>13. ASSUME NEW c \in Clients, Begin(c) \/ Lose(c) \/ Close(c) PROVE Notified'
  BY <1>4, <1>13 DEF Begin, Lose, Close
<1> QED
  BY <1>4, <1>5, <1>6, <1>7, <1>8, <1>9, <1>10, <1>11, <1>12, <1>13
  DEF FeedNext, Serve, allVars, feedVars

\* A client that stays connected has what the server takes it to have.
LEMMA ReceivedStep == FeedIInv /\ [FeedNext]_allVars => Received'
<1> SUFFICES ASSUME FeedIInv, [FeedNext]_allVars PROVE Received'
  OBVIOUS
<1>1. /\ \A c \in Clients : link[c] = "up" => water[c] <= cursor[c]
      /\ \A c \in Clients : water[c] \in Nat /\ cursor[c] \in Nat
  BY DEF FeedIInv, FeedTypeOK, Received
<1>2. ASSUME \A c \in Clients :
               link'[c] = "up" => link[c] = "up" /\ UNCHANGED <<water[c], cursor[c]>>
      PROVE  Received'
  BY <1>1, <1>2 DEF Received
<1>3. CASE UNCHANGED <<link, water, cursor>>
  BY <1>2, <1>3
<1>4. CASE Open \/ ReadIndex \/ ReadRecord \/ Scan
  BY <1>3, <1>4 DEF Open, ReadIndex, ReadRecord, Scan
<1>5. CASE DeliverReset
  <2> SUFFICES ASSUME NEW c \in Clients, link'[c] = "up" PROVE water'[c] <= cursor'[c]
    BY DEF Received
  <2>1. link[c] = "up"
    BY <1>5, ResetFacts
  <2>2. CASE cursor'[c] = water'[c]
    <3>1. water'[c] \in Nat
      BY FeedTypeStep DEF FeedTypeOK
    <3> QED
      BY <2>2, <3>1
  <2>3. CASE UNCHANGED <<water[c], cursor[c]>>
    BY <1>1, <2>1, <2>3
  <2> QED
    BY <1>5, <2>2, <2>3, ResetFacts
<1>6. CASE DeliverEvent
  <2> SUFFICES ASSUME NEW c \in Clients, link'[c] = "up" PROVE water'[c] <= cursor'[c]
    BY DEF Received
  <2>1. link[c] = "up" /\ First \in Int
    BY <1>6, EventFacts
  <2>2. CASE cursor'[c] = First /\ water'[c] = First
    BY <2>1, <2>2
  <2>3. CASE UNCHANGED <<water[c], cursor[c]>>
    BY <1>1, <2>1, <2>3
  <2> QED
    BY <1>6, <2>2, <2>3, EventFacts
<1>7. CASE Finish
  BY <1>2, <1>7 DEF Finish, Subscribers
<1>8. CASE Restart
  BY <1>2, <1>8 DEF Restart, Subscribers
<1>9. ASSUME NEW c \in Clients, Begin(c) PROVE Received'
  <2>1. \A d \in Clients : link'[d] = "up" => d # c
    BY <1>9 DEF Begin, FeedIInv, FeedTypeOK
  <2> QED
    BY <1>2, <1>9, <2>1 DEF Begin, FeedIInv, FeedTypeOK
<1>10. ASSUME NEW c \in Clients, Subscribe(c) PROVE Received'
  <2>1. /\ link' = [link EXCEPT ![c] = "up"]
        /\ water' = [water EXCEPT ![c] = Known(IF c \in Tailers THEN mark0 ELSE cursor[c])]
        /\ cursor' = [cursor EXCEPT ![c] = IF c \in Tailers THEN Known(mark0) ELSE @]
    BY <1>10 DEF Subscribe
  <2>2. water'[c] <= cursor'[c]
    BY <1>1, <2>1 DEF Known, FeedIInv, FeedTypeOK
  <2>3. ASSUME NEW d \in Clients, d # c, link'[d] = "up" PROVE water'[d] <= cursor'[d]
    BY <1>1, <2>1, <2>3 DEF FeedIInv, FeedTypeOK
  <2> QED
    BY <2>2, <2>3 DEF Received
<1>11. ASSUME NEW c \in Clients, Lose(c) PROVE Received'
  BY <1>2, <1>11 DEF Lose, FeedIInv, FeedTypeOK
<1>12. ASSUME NEW c \in Clients, Close(c) PROVE Received'
  BY <1>2, <1>12 DEF Close, FeedIInv, FeedTypeOK
<1> QED
  BY <1>3, <1>4, <1>5, <1>6, <1>7, <1>8, <1>9, <1>10, <1>11, <1>12
  DEF FeedNext, Serve, allVars, feedVars

\* What is read and not delivered stays in step with every subscriber.
LEMMA BatchedStep == FeedIInv /\ [FeedNext]_allVars => Batched'
<1> SUFFICES ASSUME FeedIInv, [FeedNext]_allVars PROVE Batched'
  OBVIOUS
<1> USE DEF Reading
<1>0. /\ Batched /\ srv \in Thread
      /\ \A c \in Clients : count[c] \in 0..Limit /\ water[c] \in Nat
      /\ DOMAIN count = Clients
  BY DEF FeedIInv, FeedTypeOK, Thread
<1>1. ASSUME UNCHANGED <<srv, count>>, Subscribers' = Subscribers,
             \A c \in Subscribers : UNCHANGED water[c]
      PROVE  Batched'
  BY <1>0, <1>1 DEF Batched, First
<1>2. ASSUME srv' = Rest, \A c \in Clients : count'[c] = 0 PROVE Batched'
  BY <1>2 DEF Batched, Rest
<1>3. ASSUME srv' = [Rest EXCEPT !.at = "open"], Subscribers' # {}, \A c \in Clients : count'[c] = 0
      PROVE  Batched'
  BY <1>3 DEF Batched, Rest
<1>4. CASE UNCHANGED feedVars
  BY <1>1, <1>4 DEF feedVars, Subscribers
<1>5. CASE Crash /\ faults < MaxFaults /\ faults' = faults + 1
           /\ UNCHANGED <<mark0, srv, link, water, told, count, cursor>>
  BY <1>1, <1>5 DEF Subscribers
<1>6. CASE Open
  <2>1. /\ UNCHANGED <<link, water, count>>
        /\ \A c \in Clients : count'[c] = 0
        /\ Subscribers' = Subscribers
    BY <1>0, <1>6 DEF Open, Batched, Subscribers
  <2>2. srv' \in Thread
    BY <1>6, OpenFacts
  <2>3. First' = srv'.next
    BY <1>6, <2>2, OpenFacts DEF First, Thread
  <2>4. 1..Len(srv'.batch) = {}
    BY <1>6, OpenFacts
  <2>5. srv'.reset = NoReset => \A c \in Subscribers' : water'[c] >= First' - 1
    BY <1>6, <2>1, <2>3, OpenFacts
  <2>6. srv'.reset # NoReset => First' = srv'.reset.base
    BY <1>6, <2>3, OpenFacts
  <2>7. srv'.at \in {"index", "deliver"} /\ (srv'.at = "index" => srv'.next >= 1)
    BY <1>6, OpenFacts
  <2> QED
    BY <2>1, <2>4, <2>5, <2>6, <2>7 DEF Batched
<1>7. CASE ReadIndex
  <2>1. /\ UNCHANGED <<link, water, count>> /\ Subscribers' = Subscribers
        /\ srv.at = "index" /\ srv.next >= 1
    BY <1>0, <1>7 DEF ReadIndex, Subscribers, Batched
  <2>2. /\ srv'.next = srv.next /\ srv'.batch = srv.batch /\ srv'.reset = srv.reset
        /\ srv'.at = "deliver" \/ (srv'.at = "record" /\ ~Exhausted)
    BY <1>0, <1>7 DEF ReadIndex, Thread
  <2>3. First' = First
    BY <2>2 DEF First
  <2>4. ~Exhausted => srv.next \in Seqs
    BY <1>0, <2>1 DEF Exhausted, Thread
  <2> QED
    BY <1>0, <2>1, <2>2, <2>3, <2>4 DEF Batched
<1>8. CASE ReadRecord
  <2>1. /\ UNCHANGED <<link, water, count>> /\ Subscribers' = Subscribers
        /\ srv.at = "record" /\ srv.next \in Seqs /\ srv.batch \in Seq(Seqs)
    BY <1>0, <1>8 DEF ReadRecord, Subscribers, Batched, Thread
  <2>2. CASE srv' = [srv EXCEPT !.at = "deliver", !.ev = NoEvent]
    <3>1. /\ srv'.next = srv.next /\ srv'.batch = srv.batch /\ srv'.reset = srv.reset
          /\ srv'.at = "deliver" /\ First' = First
      BY <1>0, <2>2 DEF Thread, First
    <3> QED
      BY <1>0, <2>1, <3>1 DEF Batched
  <2>3. CASE /\ record[srv.ev] = srv.next
             /\ srv' = [srv EXCEPT !.at = "index", !.ev = NoEvent, !.next = @ + 1,
                                   !.batch = Append(@, record[srv.ev])]
    <3>1. /\ srv'.next = srv.next + 1 /\ srv'.batch = Append(srv.batch, srv.next)
          /\ srv'.reset = srv.reset /\ srv'.at = "index"
      BY <1>0, <2>3 DEF Thread
    <3>2. /\ Len(srv'.batch) = Len(srv.batch) + 1
          /\ \A i \in 1..Len(srv.batch) : srv'.batch[i] = srv.batch[i]
          /\ srv'.batch[Len(srv.batch) + 1] = srv.next
      BY <2>1, <3>1
    <3>3. First' = First /\ First \in Int /\ Len(srv.batch) \in Nat
      <4>1. Len(srv.batch) \in Nat /\ srv.next \in Int
        BY <2>1
      <4>2. First = srv.next - Len(srv.batch) /\ First' = srv'.next - Len(srv'.batch)
        BY DEF First
      <4> QED
        BY <3>1, <3>2, <4>1, <4>2
    <3>4. \A i \in 1..Len(srv'.batch) : srv'.batch[i] = First' + i - 1
      <4> SUFFICES ASSUME NEW i \in 1..Len(srv.batch) + 1 PROVE srv'.batch[i] = First + i - 1
        BY <3>2, <3>3
      <4>1. CASE i = Len(srv.batch) + 1
        BY <2>1, <3>2, <3>3, <4>1 DEF First
      <4>2. CASE i \in 1..Len(srv.batch)
        BY <1>0, <2>1, <3>2, <4>2 DEF Batched
      <4> QED
        BY <3>3, <4>1, <4>2
    <3>5. srv.next + 1 >= 1
      BY <2>1
    <3>6. \A c \in Clients : count'[c] = 0
      BY <1>0, <2>1 DEF Batched
    <3>7. srv'.reset = NoReset => \A c \in Subscribers' : count'[c] = Limit \/ water'[c] >= First' - 1
      BY <1>0, <2>1, <3>1, <3>3 DEF Batched
    <3>8. srv'.reset # NoReset => First' = srv'.reset.base
      BY <1>0, <2>1, <3>1, <3>3 DEF Batched
    <3> QED
      BY <3>1, <3>4, <3>5, <3>6, <3>7, <3>8 DEF Batched
  <2> QED
    BY <1>8, <2>2, <2>3 DEF ReadRecord
<1>9. CASE DeliverReset
  <2>1. /\ srv.at = "deliver" /\ srv.reset # NoReset
        /\ First = srv.reset.base
        /\ \A i \in 1..Len(srv.batch) : srv.batch[i] = First + i - 1
        /\ First \in Int
    <3>1. srv.at = "deliver" /\ srv.reset # NoReset
      BY <1>9 DEF DeliverReset
    <3>2. First = srv.reset.base /\ \A i \in 1..Len(srv.batch) : srv.batch[i] = First + i - 1
      BY <1>0, <3>1 DEF Batched
    <3>3. srv.reset.base \in 1..MaxSeq + 1
      BY <1>9, ResetFacts DEF Resets
    <3> QED
      BY <3>1, <3>2, <3>3
  <2>2. /\ srv'.at = "deliver" /\ srv'.reset = NoReset
        /\ srv'.batch = srv.batch /\ First' = First
    BY <1>0, <1>9, <2>1, ResetFacts DEF Thread, First
  <2>3. ASSUME NEW c \in Subscribers' PROVE water'[c] >= First - 1
    <3>1. c \in Subscribers /\ c \in Clients
      BY <1>9, ResetFacts DEF Subscribers
    <3>2. CASE water'[c] = srv.reset.base - 1
      BY <2>1, <3>2
    <3>3. CASE srv.reset \in told[c] /\ water'[c] = water[c]
      BY <1>0, <2>1, <3>1, <3>3 DEF FeedIInv, Notified
    <3> QED
      BY <1>9, <3>1, <3>2, <3>3, ResetFacts
  <2> QED
    BY <2>1, <2>2, <2>3 DEF Batched
<1>10. CASE DeliverEvent
  <2>1. /\ srv.at = "deliver" /\ srv.reset = NoReset /\ srv.batch # <<>>
        /\ srv.batch \in Seq(Seqs) /\ First \in Int /\ srv.next \in Nat
        /\ \A i \in 1..Len(srv.batch) : srv.batch[i] = First + i - 1
        /\ \A c \in Subscribers : count[c] = Limit \/ water[c] >= First - 1
    <3>1. srv.at = "deliver" /\ srv.reset = NoReset /\ srv.batch # <<>>
      BY <1>10 DEF DeliverEvent
    <3>2. srv.batch \in Seq(Seqs) /\ First \in Int
      BY <1>10, EventFacts
    <3>3. srv.next \in Nat
      BY <1>0 DEF Thread
    <3>4. \A i \in 1..Len(srv.batch) : srv.batch[i] = First + i - 1
      BY <1>0, <3>1 DEF Batched
    <3>5. \A c \in Subscribers : count[c] = Limit \/ water[c] >= First - 1
      BY <1>0, <3>1 DEF Batched
    <3> QED
      BY <3>1, <3>2, <3>3, <3>4, <3>5
  <2>2. /\ srv'.at = "deliver" /\ srv'.reset = NoReset
        /\ srv'.batch = Tail(srv.batch) /\ srv'.next = srv.next
    BY <1>0, <1>10, <2>1, EventFacts DEF Thread
  <2>3. /\ Len(srv'.batch) = Len(srv.batch) - 1
        /\ \A i \in 1..Len(srv.batch) - 1 : srv'.batch[i] = srv.batch[i + 1]
    BY <2>1, <2>2
  <2>4. First' = First + 1
    <3>1. Len(srv.batch) \in Nat
      BY <2>1
    <3>2. First = srv.next - Len(srv.batch) /\ First' = srv'.next - Len(srv'.batch)
      BY DEF First
    <3> QED
      BY <2>1, <2>2, <2>3, <3>1, <3>2
  <2>5. \A i \in 1..Len(srv'.batch) : srv'.batch[i] = First' + i - 1
    <3>1. Len(srv.batch) \in Nat
      BY <2>1
    <3> QED
      BY <2>1, <2>3, <2>4, <3>1
  <2>6. ASSUME NEW c \in Subscribers' PROVE count'[c] = Limit \/ water'[c] >= First' - 1
    <3>1. c \in Subscribers /\ c \in Clients
      BY <1>10, EventFacts DEF Subscribers
    <3>2. CASE water'[c] = First
      BY <2>1, <2>4, <3>2
    <3>3. CASE count'[c] = Limit \/ (water[c] >= First /\ water'[c] = water[c])
      BY <2>1, <2>4, <3>3
    <3> QED
      BY <1>10, <3>1, <3>2, <3>3, EventFacts
  <2> QED
    BY <2>2, <2>5, <2>6 DEF Batched
<1>11. CASE Finish
  BY <1>2, <1>11 DEF Finish
<1>12. CASE Scan
  <2>1. \A c \in Clients : count'[c] = 0
    BY <1>0, <1>12 DEF Scan, Free, Batched
  <2>2. Subscribers' = Subscribers
    BY <1>12 DEF Scan, Subscribers
  <2> QED
    BY <1>2, <1>3, <1>12, <2>1, <2>2 DEF Scan, ScanFor
<1>13. CASE Restart
  BY <1>2, <1>13 DEF Restart
<1>14. ASSUME NEW c \in Clients, Begin(c) PROVE Batched'
  <2>1. srv' = srv /\ srv.at = "idle" /\ count' = count
    BY <1>14 DEF Begin, Free
  <2> QED
    BY <1>0, <2>1 DEF Batched
<1>15. ASSUME NEW c \in Clients, Subscribe(c) PROVE Batched'
  <2>1. \A d \in Clients : count'[d] = 0
    BY <1>0, <1>15 DEF Subscribe, Free, Batched
  <2>2. c \in Subscribers'
    BY <1>15 DEF Subscribe, Subscribers, FeedIInv, FeedTypeOK
  <2>3. srv' = Rest \/ srv' = [Rest EXCEPT !.at = "open"]
    BY <1>15 DEF Subscribe, ScanFor
  <2> QED
    BY <1>2, <1>3, <2>1, <2>2, <2>3
<1>16. ASSUME NEW c \in Clients, Lose(c) PROVE Batched'
  <2>1. UNCHANGED <<srv, count, water>> /\ link[c] = "up" /\ link' = [link EXCEPT ![c] = "dying"]
    BY <1>16 DEF Lose
  <2>2. Subscribers' = Subscribers
    BY <2>1 DEF Subscribers, FeedIInv, FeedTypeOK
  <2> QED
    BY <1>1, <2>1, <2>2
<1>17. ASSUME NEW c \in Clients, Close(c) PROVE Batched'
  <2>1. srv' = srv /\ srv.at = "idle" /\ count' = count
    BY <1>17 DEF Close, Free
  <2> QED
    BY <1>0, <2>1 DEF Batched
<1> QED
  BY <1>4, <1>5, <1>6, <1>7, <1>8, <1>9, <1>10, <1>11, <1>12, <1>13, <1>14, <1>15,
     <1>16, <1>17 DEF FeedNext, Serve, allVars

THEOREM FeedInductive == FeedIInv /\ [FeedNext]_allVars => FeedIInv'
<1> SUFFICES ASSUME FeedIInv, [FeedNext]_allVars PROVE FeedIInv'
  OBVIOUS
<1>1. IInv'
  BY StreamStep, Inductive DEF FeedIInv
<1> QED
  BY <1>1, FeedTypeStep, BatchedStep, NotifiedStep, ReceivedStep DEF FeedIInv

THEOREM FeedInvariance == FeedSpec => []FeedIInv
  BY FeedInitIInv, FeedInductive, PTL DEF FeedSpec

-----------------------------------------------------------------------------
\* Watermarks and cursors never leave the numbers of the stream, and no scan
\* delivers more than a selection's limit to a subscriber.
THEOREM FeedTyping == FeedSpec => []FeedTypeOK
<1>1. FeedIInv => FeedTypeOK
  BY DEF FeedIInv
<1> QED
  BY <1>1, FeedInvariance, PTL

\* Composed with its readers a stream is still a stream: they disturb nothing,
\* so what is proved of its files holds while they are read.
THEOREM FeedRefines == FeedSpec => ImplementsLog /\ []WindowReadable /\ []NeverCorrupt
<1>1. FeedInit => Init
  BY DEF FeedInit
<1>2. FeedSpec => Spec
  BY <1>1, StreamStep, PTL DEF FeedSpec, Spec
<1> QED
  BY <1>2, Implements, Readable, Uncorrupted, PTL

\* As long as a subscriber stays connected it is sent every event once and in
\* order, although all subscribers are served from one read that starts with
\* the slowest of them.
THEOREM Ordered == FeedSpec => InOrder
<1> DEFINE Sent(c) ==
      c \in Subscribers /\ c \in Subscribers' /\ water'[c] # water[c] =>
        water'[c] = water[c] + 1 \/ srv.reset # NoReset
<1>1. FeedIInv /\ [FeedNext]_allVars => \A c \in Clients : Sent(c)
  <2> SUFFICES ASSUME FeedIInv, [FeedNext]_allVars, NEW c \in Clients,
                      c \in Subscribers, c \in Subscribers', water'[c] # water[c],
                      srv.reset = NoReset
               PROVE  water'[c] = water[c] + 1
    OBVIOUS
  <2>1. CASE DeliverEvent
    <3>1. \/ water[c] = First - 1 /\ water'[c] = First
          \/ water'[c] = water[c]
      BY <2>1, EventFacts
    <3>2. First \in Int
      BY <2>1, EventFacts
    <3> QED
      BY <3>1, <3>2
  <2>2. CASE DeliverReset
    BY <2>2 DEF DeliverReset
  <2>3. CASE Finish
    BY <2>3 DEF Finish
  <2>4. CASE Restart
    BY <2>4 DEF Restart, Subscribers
  <2>5. ASSUME NEW d \in Clients, Subscribe(d) PROVE FALSE
    BY <2>5 DEF Subscribe, Subscribers, FeedIInv, FeedTypeOK
  <2>6. CASE UNCHANGED water
    BY <2>6
  <2> QED
    BY <2>1, <2>2, <2>3, <2>4, <2>5, <2>6
    DEF FeedNext, Serve, Open, ReadIndex, ReadRecord, Scan, Begin, Lose, Close, feedVars, allVars
<1> QED
  BY <1>1, FeedInvariance, PTL DEF FeedSpec, InOrder

\* A client's cursor never passes over an event that can still be read, whoever
\* else subscribes and whatever is pruned under the reader.
THEOREM Complete == FeedSpec => NoneSkipped
<1> DEFINE Heard(c) ==
      link[c] # "new" /\ cursor'[c] > cursor[c] + 1 =>
        \/ srv.reset # NoReset /\ cursor'[c] < base
        \/ c \in Tailers /\ link[c] = "down"
<1>1. FeedIInv /\ [FeedNext]_allVars => \A c \in Clients : Heard(c)
  <2> SUFFICES ASSUME FeedIInv, [FeedNext]_allVars, NEW c \in Clients,
                      link[c] # "new", cursor'[c] > cursor[c] + 1
               PROVE  \/ srv.reset # NoReset /\ cursor'[c] < base
                      \/ c \in Tailers /\ link[c] = "down"
    OBVIOUS
  <2>0. cursor[c] \in Nat /\ water[c] \in Nat
    BY DEF FeedIInv, FeedTypeOK
  <2>1. CASE DeliverEvent
    <3>1. \/ /\ water[c] = First - 1
             /\ cursor'[c] = cursor[c] \/ cursor'[c] = First
             /\ cursor'[c] # cursor[c] => link[c] = "up"
          \/ cursor'[c] = cursor[c]
      BY <2>1, EventFacts
    <3>2. First \in Int
      BY <2>1, EventFacts
    <3>3. cursor'[c] # cursor[c]
      BY <2>0
    <3>4. link[c] = "up" => water[c] <= cursor[c]
      BY DEF FeedIInv, Received
    <3> QED
      BY <2>0, <3>1, <3>2, <3>3, <3>4
  <2>2. CASE DeliverReset
    <3>1. srv.reset # NoReset
      BY <2>2 DEF DeliverReset
    <3>2. cursor'[c] = cursor[c] \/ cursor'[c] = srv.reset.base - 1
      BY <2>2, ResetFacts
    <3>3. srv.reset.base <= base
      BY <3>1 DEF FeedIInv, Notified
    <3>4. srv.reset.base \in Nat /\ base \in Nat
      <4>1. srv.reset.base \in 1..MaxSeq + 1
        BY <2>2, ResetFacts DEF Resets
      <4>2. base \in Nat
        BY DEF FeedIInv, IInv, TypeOK
      <4> QED
        BY <4>1, <4>2
    <3> QED
      BY <2>0, <3>1, <3>2, <3>3, <3>4
  <2>3. ASSUME NEW d \in Clients, Subscribe(d)
        PROVE  c \in Tailers /\ link[c] = "down"
    <3>1. link[d] = "down"
      BY <2>3 DEF Subscribe
    <3>2. cursor' = [cursor EXCEPT ![d] = IF d \in Tailers THEN Known(mark0) ELSE @]
      BY <2>3 DEF Subscribe
    <3>3. cursor \in [Clients -> Watermarks]
      BY DEF FeedIInv, FeedTypeOK
    <3>4. cursor'[c] # cursor[c]
      BY <2>0
    <3>5. c = d /\ d \in Tailers
      BY <3>2, <3>3, <3>4
    <3> QED
      BY <3>1, <3>5
  <2>4. ASSUME NEW d \in Clients, Begin(d) PROVE FALSE
    <3>1. link[d] = "new" /\ (cursor' = [cursor EXCEPT ![d] = committed] \/ cursor' = cursor)
      BY <2>4 DEF Begin
    <3>2. cursor \in [Clients -> Watermarks]
      BY DEF FeedIInv, FeedTypeOK
    <3>3. cursor'[c] = cursor[c]
      BY <3>1, <3>2
    <3> QED
      BY <2>0, <3>3
  <2>5. CASE UNCHANGED cursor
    BY <2>0, <2>5
  <2> QED
    BY <2>1, <2>2, <2>3, <2>4, <2>5
    DEF FeedNext, Serve, Open, ReadIndex, ReadRecord, Scan, Finish, Lose, Close, Restart,
        feedVars, allVars
<1> QED
  BY <1>1, FeedInvariance, PTL DEF FeedSpec, NoneSkipped
==============================================================================
