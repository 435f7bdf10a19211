------------------------ MODULE TelemetryWorkerProofs ------------------------
(***************************************************************************)
(* Proofs about TelemetryWorker for every set of scenarios and requests    *)
(* and every limit.                                                        *)
(*                                                                         *)
(* The drain, the run and the projection write one state.json from three   *)
(* places.  The inductive invariant says of both copies of the state what  *)
(* a restart relies on (Kepts), and of what is under way what its next     *)
(* step takes for granted after its await (Underway, Drained).             *)
(***************************************************************************)
EXTENDS TelemetryWorker, SequenceTheorems, FiniteSetTheorems, TLAPS

-----------------------------------------------------------------------------
\* The inductive invariant

\* What holds of a state whatever has been dropped from the queue.
Lined(m) ==
  /\ IsInjective(m.queue)
  /\ Range(m.queue) \subseteq With(m, Waiting)

\* A run or a projection that is to start has an attempt left, or a fault to
\* excuse it; only what is under way (scenario, ~idle) may have had its last one.
CountedBy(m, scenario, idle, f) ==
  /\ \A s \in Scenarios \ {scenario} :
       m.scenarios[s].status \in Waiting \cup {"running"} =>
         m.scenarios[s].attempts < MaxAttempts + f
  /\ m.projection.status \in Waiting \cup {"running"} /\ idle =>
       m.projection.attempts < MaxProjections + f
Counted(m) == CountedBy(m, runner.scenario, project = "none", faults)

\* What is under way belongs to a worker, and the state knows of it.
Underway ==
  /\ ~up => turn = "free" /\ drain = NoDrain /\ runner = NoActive /\ project = "none"
  /\ project # "none" => mem.projection.status = "running"
  /\ runner # NoActive =>
       LET c == mem.scenarios[runner.scenario] IN
       /\ mem.active = runner
       /\ disk.active = runner
       /\ c.status = "running"
       /\ c.request = runner.request
       /\ disk.scenarios[runner.scenario].pending # None => c.pending # None

\* The drain and the requests it has before it.
Drained ==
  /\ drain.at \in {"idle", "next"} <=> drain.entry = None
  /\ drain.at = "idle" => drain.todo = {}
  /\ drain.at # "idle" => turn = "free"
  /\ drain.at = "validate" => /\ drain.entry \in Telemetry
                              /\ ~Handled(mem, drain.entry)

\* All the drain can find handled, a restart would find handled.
HandledSaved ==
  up /\ (~fatal \/ drain.at # "idle") =>
    \A e \in Events : Handled(mem, e) => Handled(disk, e)

Recalled ==
  /\ remembered \subseteq Range(disk.accepted)
  /\ up => remembered \subseteq Range(mem.accepted)

Sound(m) == Consistent(m) /\ WithinLimits(m)
Kepts == dropped \/ (Sound(mem) /\ Sound(disk))

IInv ==
  /\ TypeOK
  /\ Lined(mem) /\ Lined(disk)
  /\ Counted(mem) /\ Counted(disk)
  /\ Underway
  /\ Drained
  /\ HandledSaved
  /\ Recalled
  /\ Kepts

-----------------------------------------------------------------------------
\* The queue and the lists of ids

LEMMA WithoutFacts ==
  ASSUME NEW S, NEW q \in Seq(S), NEW i \in 1..Len(q), IsInjective(q)
  PROVE  /\ Without(q, i) \in Seq(S)
         /\ Range(Without(q, i)) = Range(q) \ {q[i]}
         /\ IsInjective(Without(q, i))
<1>. DEFINE w == Without(q, i)
<1>1. w \in Seq(S) /\ Len(w) = Len(q) - 1 /\ DOMAIN w = 1..Len(q) - 1
  BY DEF Without
<1>2. \A j \in 1..Len(q) - 1 : w[j] = IF j < i THEN q[j] ELSE q[j + 1]
  BY DEF Without
<1>3. \A j \in 1..Len(q) : j # i => q[j] # q[i]
  BY DEF IsInjective
<1>4. Range(w) \subseteq Range(q) \ {q[i]}
  BY <1>1, <1>2, <1>3 DEF Range
<1>5. ASSUME NEW j \in 1..Len(q), j # i PROVE q[j] \in Range(w)
  <2>1. j < i => q[j] = w[j] /\ j \in DOMAIN w
    BY <1>1, <1>2, <1>5
  <2>2. j > i => q[j] = w[j - 1] /\ j - 1 \in DOMAIN w
    BY <1>1, <1>2, <1>5
  <2>. QED BY <1>5, <2>1, <2>2 DEF Range
<1>6. Range(w) = Range(q) \ {q[i]}
  <2>1. Range(q) = {q[j] : j \in 1..Len(q)}
    BY DEF Range
  <2>2. Range(q) \ {q[i]} \subseteq Range(w)
    BY <1>5, <2>1
  <2>. HIDE DEF w
  <2>. QED BY <1>4, <2>2
<1>7. IsInjective(w)
  <2>. HIDE DEF w
  <2>. SUFFICES ASSUME NEW j \in 1..Len(q) - 1, NEW k \in 1..Len(q) - 1, w[j] = w[k]
                PROVE  j = k
    BY <1>1 DEF IsInjective
  <2>. DEFINE at(l) == IF l < i THEN l ELSE l + 1
  <2>1. at(j) \in 1..Len(q) /\ at(k) \in 1..Len(q) /\ w[j] = q[at(j)] /\ w[k] = q[at(k)]
    BY <1>2
  <2>2. q[at(j)] = q[at(k)]
    <3>. HIDE DEF at
    <3>. QED BY <2>1
  <2>4. DOMAIN q = 1..Len(q)
    OBVIOUS
  <2>3. at(j) = at(k)
    <3>. HIDE DEF at
    <3>. QED BY <2>1, <2>2, <2>4 DEF IsInjective
  <2>. QED BY <2>3
<1>. QED BY <1>1, <1>6, <1>7

LEMMA AppendFacts ==
  ASSUME NEW S, NEW q \in Seq(S), NEW s \in S
  PROVE  /\ Append(q, s) \in Seq(S)
         /\ Range(Append(q, s)) = Range(q) \cup {s}
         /\ Len(Append(q, s)) = Len(q) + 1
         /\ IsInjective(q) /\ s \notin Range(q) => IsInjective(Append(q, s))
<1>. DEFINE r == Append(q, s)
<1>1. r \in Seq(S) /\ Len(r) = Len(q) + 1 /\ DOMAIN r = 1..Len(q) + 1 /\ DOMAIN q = 1..Len(q)
  OBVIOUS
<1>2. r[Len(q) + 1] = s /\ \A j \in 1..Len(q) : r[j] = q[j]
  OBVIOUS
<1>3. Range(r) = Range(q) \cup {s}
  <2>. HIDE DEF r
  <2>. QED BY <1>1, <1>2 DEF Range
<1>4. ASSUME IsInjective(q), s \notin Range(q) PROVE IsInjective(r)
  <2>. HIDE DEF r
  <2>. QED BY <1>1, <1>2, <1>4 DEF IsInjective, Range
<1>. QED BY <1>1, <1>3, <1>4

LEMMA QueuedFacts ==
  ASSUME NEW S, NEW q \in Seq(S), NEW s \in S, IsInjective(q)
  PROVE  /\ Queued(q, s) \in Seq(S)
         /\ Range(Queued(q, s)) = Range(q) \cup {s}
         /\ IsInjective(Queued(q, s))
<1>1. CASE s \in Range(q)
  BY <1>1 DEF Queued
<1>2. CASE s \notin Range(q)
  BY <1>2, AppendFacts DEF Queued
<1>. QED BY <1>1, <1>2

\* What slice(-n) keeps of a list that has just been added to.
LEMMA KeptFacts ==
  ASSUME NEW S, NEW q \in Seq(S), NEW e \in S, NEW n \in Nat \ {0}
  PROVE  LET k == Kept(Append(q, e), n) IN
         /\ k \in Seq(S)
         /\ Len(k) <= n
         /\ e \in Range(k)
         /\ Range(k) \subseteq Range(q) \cup {e}
         /\ IsInjective(q) /\ e \notin Range(q) => IsInjective(k)
<1>. DEFINE r == Append(q, e)
            k == Kept(r, n)
            d == Len(r) - n
<1>1. /\ r \in Seq(S) /\ Len(r) = Len(q) + 1 /\ r[Len(r)] = e
      /\ Range(r) = Range(q) \cup {e}
      /\ IsInjective(q) /\ e \notin Range(q) => IsInjective(r)
  BY AppendFacts
<1>. HIDE DEF r
<1>2. CASE Len(r) > n
  <2>1. k = SubSeq(r, d + 1, Len(r)) /\ d \in Nat /\ d + 1 \in 1..Len(r) /\ Len(r) \in Nat
    BY <1>1, <1>2 DEF Kept
  <2>2. k \in Seq(S) /\ Len(k) = n
    BY <1>1, <1>2, <2>1, SubSeqProperties
  <2>3. ASSUME NEW j \in 1..n PROVE k[j] = r[d + j] /\ d + j \in 1..Len(r)
    <3>1. d + 1 + j - 1 = d + j /\ j \in 1..Len(r) - (d + 1) + 1
      BY <1>1, <1>2
    <3>2. k[j] = r[d + 1 + j - 1]
      BY <1>1, <2>1, <3>1, SubSeqProperties
    <3>. QED BY <1>1, <1>2, <3>1, <3>2
  <2>. HIDE DEF k
  <2>4. DOMAIN k = 1..n /\ DOMAIN r = 1..Len(r)
    BY <1>1, <2>2
  <2>5. n \in 1..n /\ d + n = Len(r)
    BY <1>1
  <2>6. k[n] = e
    BY <1>1, <2>3, <2>5
  <2>7. e \in Range(k) /\ Range(k) \subseteq Range(r)
    BY <2>3, <2>4, <2>5, <2>6 DEF Range
  <2>8. ASSUME IsInjective(r) PROVE IsInjective(k)
    <3>. SUFFICES ASSUME NEW i \in 1..n, NEW j \in 1..n, k[i] = k[j] PROVE i = j
      BY <2>4 DEF IsInjective
    <3>1. d + i \in DOMAIN r /\ d + j \in DOMAIN r /\ r[d + i] = r[d + j]
      BY <2>3, <2>4
    <3>2. d + i = d + j
      <4>. HIDE DEF d
      <4>. QED BY <2>8, <3>1 DEF IsInjective
    <3>. QED BY <2>1, <3>2
  <2>. QED BY <1>1, <2>2, <2>7, <2>8 DEF k, r
<1>3. CASE ~(Len(r) > n)
  <2>1. k = r /\ Len(r) \in Nat
    BY <1>1, <1>3 DEF Kept
  <2>. HIDE DEF k
  <2>2. e \in Range(r) /\ Len(r) <= n
    BY <1>1, <1>3, <2>1
  <2>. QED BY <1>1, <2>1, <2>2 DEF k, r
<1>. QED BY <1>2, <1>3 DEF r

-----------------------------------------------------------------------------
\* What a change of the state leaves true of it

LEMMA LimitFacts ==
  /\ MaxScenarios \in Nat \ {0} /\ MaxAccepted \in Nat \ {0} /\ MaxRejected \in Nat \ {0}
  /\ MaxAttempts \in Nat \ {0} /\ MaxProjections \in Nat \ {0}
  /\ MaxDeliveries \in Nat /\ MaxFaults \in Nat
BY LimitAssumption, BoundAssumption

\* Consistent without what it says of the projection, and that.
Agree(d) ==
  /\ IsInjective(d.accepted)
  /\ IsInjective(d.queue)
  /\ Range(d.queue) = With(d, Waiting)
  /\ With(d, {"running"}) = {d.active.scenario} \ {None}
  /\ \A s \in With(d, {"running"}) : d.scenarios[s].request = d.active.request
  /\ \A s \in With(d, {"complete"}) : d.scenarios[s].publication = d.scenarios[s].request

Projectable(p) ==
  /\ p.status = "complete" => ~p.behind
  /\ p.status \in Waiting \cup {"running"} => p.behind

LEMMA SoundParts ==
  ASSUME NEW m PROVE Sound(m) <=> Agree(m) /\ Projectable(m.projection) /\ WithinLimits(m)
BY DEF Sound, Consistent, Agree, Projectable

\* queueProjection leaves a projection that is due, and nothing else changed.
LEMMA QueueProjectionFacts ==
  ASSUME NEW m \in States
  PROVE  LET q == QueueProjection(m) IN
         /\ q \in States
         /\ q.selected = m.selected /\ q.accepted = m.accepted /\ q.rejected = m.rejected
         /\ q.queue = m.queue /\ q.active = m.active /\ q.scenarios = m.scenarios
         /\ Projectable(q.projection)
         /\ IF m.projection.status = "running"
              THEN q.projection.status = "running" /\ q.projection.attempts = m.projection.attempts
              ELSE q.projection.status = "queued" /\ q.projection.attempts = 0
BY DEF QueueProjection, States, Projections, Statuses, Projectable, Waiting

\* One scenario and the queue are changed.
Put(m, s, c, q) == [m EXCEPT !.scenarios[s] = c, !.queue = q]

LEMMA PutFacts ==
  ASSUME NEW m \in States, NEW s \in Scenarios, NEW c \in ScenarioRecords, NEW q \in Seq(Scenarios)
  PROVE  /\ Put(m, s, c, q) \in States
         /\ Put(m, s, c, q).selected = m.selected
         /\ Put(m, s, c, q).accepted = m.accepted
         /\ Put(m, s, c, q).rejected = m.rejected
         /\ Put(m, s, c, q).active = m.active
         /\ Put(m, s, c, q).projection = m.projection
         /\ Put(m, s, c, q).queue = q
         /\ Put(m, s, c, q).scenarios[s] = c
         /\ \A u \in Scenarios \ {s} : Put(m, s, c, q).scenarios[u] = m.scenarios[u]
BY DEF Put, States

\* The scenarios of a status, after one of them has been changed.
LEMMA OneChanged ==
  ASSUME NEW m, NEW n, NEW s \in Scenarios,
         \A u \in Scenarios \ {s} : n.scenarios[u] = m.scenarios[u]
  PROVE  \A X : With(n, X) = IF n.scenarios[s].status \in X THEN With(m, X) \cup {s}
                                                         ELSE With(m, X) \ {s}
BY DEF With

LEMMA StatusFacts ==
  ASSUME NEW m, NEW s \in Scenarios, NEW X
  PROVE  s \in With(m, X) <=> m.scenarios[s].status \in X
BY DEF With

\* The same scenarios, queue and active run say the same.
LEMMA SameFacts ==
  ASSUME NEW m, NEW n,
         n.queue = m.queue, n.active = m.active, n.scenarios = m.scenarios
  PROVE  /\ \A X : With(n, X) = With(m, X)
         /\ Lined(m) => Lined(n)
         /\ Agree(m) /\ IsInjective(n.accepted) => Agree(n)
         /\ Known(n) = Known(m)
<1>1. \A X : With(n, X) = With(m, X)
  BY DEF With
<1>2. Lined(m) => Lined(n)
  BY <1>1 DEF Lined
<1>3. Agree(m) /\ IsInjective(n.accepted) => Agree(n)
  BY <1>1 DEF Agree
<1>. QED BY <1>1, <1>2, <1>3 DEF Known

LEMMA KnownFacts ==
  ASSUME NEW m
  PROVE  /\ Known(m) \subseteq Scenarios
         /\ IsFiniteSet(Known(m))
         /\ Cardinality(Known(m)) \in Nat
BY WorkerAssumption, FS_Subset, FS_CardinalityType DEF Known, With

\* acceptTelemetryEvent and acceptProjectionOnlyEvent are followed by this.
LEMMA RecordedFacts ==
  ASSUME NEW m \in States, NEW e \in Events
  PROVE  LET n == Recorded(m, e) IN
         /\ n \in States
         /\ n.rejected = m.rejected /\ n.queue = m.queue /\ n.active = m.active
         /\ n.scenarios = m.scenarios
         /\ e \in Range(n.accepted)
         /\ Range(n.accepted) \subseteq Range(m.accepted) \cup {e}
         /\ Len(n.accepted) <= MaxAccepted
         /\ IsInjective(m.accepted) /\ e \notin Range(m.accepted) => IsInjective(n.accepted)
         /\ Projectable(n.projection)
         /\ IF m.projection.status = "running"
              THEN n.projection.status = "running" /\ n.projection.attempts = m.projection.attempts
              ELSE n.projection.status = "queued" /\ n.projection.attempts = 0
<1>. DEFINE k == Kept(Append(m.accepted, e), MaxAccepted)
            x == [m EXCEPT !.selected = ScenarioOf[e], !.accepted = k]
<1>1. m.accepted \in Seq(Events)
  BY DEF States
<1>2. /\ k \in Seq(Events)
      /\ Len(k) <= MaxAccepted
      /\ e \in Range(k)
      /\ Range(k) \subseteq Range(m.accepted) \cup {e}
      /\ IsInjective(m.accepted) /\ e \notin Range(m.accepted) => IsInjective(k)
  BY <1>1, KeptFacts, LimitFacts
<1>. HIDE DEF k
<1>3. ScenarioOf[e] \in Scenarios
  BY WorkerAssumption
<1>4. /\ x \in States
      /\ x.accepted = k /\ x.rejected = m.rejected /\ x.queue = m.queue /\ x.active = m.active
      /\ x.scenarios = m.scenarios /\ x.projection = m.projection
  BY <1>2, <1>3 DEF States
<1>5. Recorded(m, e) = QueueProjection(x)
  BY DEF Recorded, k
<1>. HIDE DEF x
<1>. QED BY <1>2, <1>4, <1>5, QueueProjectionFacts

LEMMA RejectedFacts ==
  ASSUME NEW m \in States, NEW e \in Events
  PROVE  LET n == Rejected(m, e) IN
         /\ n \in States
         /\ n.accepted = m.accepted /\ n.queue = m.queue /\ n.active = m.active
         /\ n.scenarios = m.scenarios /\ n.projection = m.projection
         /\ e \in Range(n.rejected)
         /\ Len(n.rejected) <= MaxRejected
<1>. DEFINE k == Kept(Append(m.rejected, e), MaxRejected)
<1>1. k \in Seq(Events) /\ Len(k) <= MaxRejected /\ e \in Range(k)
  BY KeptFacts, LimitFacts DEF States
<1>2. Rejected(m, e) = [m EXCEPT !.rejected = k]
  BY DEF Rejected
<1>. HIDE DEF k
<1>. QED BY <1>1, <1>2 DEF States

\* What accepting e makes of the state before it is recorded: the run under way
\* keeps its request, and a scenario that is queued starts counting at 0.
GoesOn(c, d) ==
  /\ \/ d.status = c.status /\ d.attempts = c.attempts
     \/ d.status = "queued" /\ d.attempts = 0
  /\ c.status = "running" => d.status = "running" /\ d.request = c.request
  /\ c.status = "running" /\ c.pending # None => d.pending # None

Takes(m, x, e) ==
  /\ x \in States
  /\ x.accepted = m.accepted /\ x.rejected = m.rejected /\ x.active = m.active
  /\ x.projection = m.projection
  /\ x.scenarios[ScenarioOf[e]].event = e
  /\ Lined(m) => Lined(x)
  /\ Agree(m) => Agree(x)
  /\ WithinLimits(m) => WithinLimits(x)
  /\ \A u \in Scenarios : GoesOn(m.scenarios[u], x.scenarios[u])

LEMMA TakesProjection ==
  ASSUME NEW m \in States, NEW e \in Events, ScenarioOf[e] \in Known(m)
  PROVE  Takes(m, [m EXCEPT !.scenarios[ScenarioOf[e]].event = e], e)
<1>. DEFINE s == ScenarioOf[e]
            c == [m.scenarios[s] EXCEPT !.event = e]
            x == [m EXCEPT !.scenarios[s].event = e]
<1>1. s \in Scenarios /\ m.scenarios \in [Scenarios -> ScenarioRecords] /\ m.queue \in Seq(Scenarios)
  BY WorkerAssumption DEF States
<1>2. /\ c \in ScenarioRecords
      /\ c.event = e /\ c.status = m.scenarios[s].status /\ c.attempts = m.scenarios[s].attempts
      /\ c.request = m.scenarios[s].request /\ c.pending = m.scenarios[s].pending
      /\ c.publication = m.scenarios[s].publication
  BY <1>1 DEF ScenarioRecords, Requests
<1>3. x = Put(m, s, c, m.queue)
  BY <1>1 DEF States, Put
<1>. HIDE DEF s, c, x
<1>4. /\ x \in States
      /\ x.accepted = m.accepted /\ x.rejected = m.rejected /\ x.active = m.active
      /\ x.projection = m.projection /\ x.queue = m.queue
      /\ x.scenarios[s] = c
      /\ \A u \in Scenarios \ {s} : x.scenarios[u] = m.scenarios[u]
  BY <1>1, <1>2, <1>3, PutFacts
<1>6. \A X : With(x, X) = With(m, X)
  <2>1. \A u \in Scenarios : x.scenarios[u].status = m.scenarios[u].status
    BY <1>1, <1>2, <1>4
  <2>. QED BY <2>1 DEF With
<1>7. Lined(m) => Lined(x)
  BY <1>4, <1>6 DEF Lined
<1>8. Agree(m) => Agree(x)
  BY <1>1, <1>2, <1>4, <1>6 DEF Agree, With
<1>9. WithinLimits(m) => WithinLimits(x)
  BY <1>4, <1>6 DEF WithinLimits, Known
<1>10. \A u \in Scenarios : GoesOn(m.scenarios[u], x.scenarios[u])
  <2>1. GoesOn(m.scenarios[s], x.scenarios[s])
    BY <1>1, <1>2, <1>4 DEF GoesOn
  <2>2. ASSUME NEW u \in Scenarios \ {s} PROVE GoesOn(m.scenarios[u], x.scenarios[u])
    <3>1. x.scenarios[u] = m.scenarios[u]
      BY <1>4
    <3>. QED BY <3>1 DEF GoesOn
  <2>. QED BY <2>1, <2>2
<1>11. x.scenarios[s].event = e
  BY <1>2, <1>4
<1>12. Takes(m, x, e)
  BY <1>4, <1>7, <1>8, <1>9, <1>10, <1>11 DEF Takes, s
<1>. QED BY <1>12 DEF s, x

LEMMA TakesNew ==
  ASSUME NEW m \in States, NEW e \in Events, ScenarioOf[e] \notin Known(m), Lined(m),
         Cardinality(Known(m)) < MaxScenarios
  PROVE  LET s == ScenarioOf[e] IN
         Takes(m, [m EXCEPT !.scenarios[s] = [Absent EXCEPT !.status = "queued", !.request = e,
                                                            !.event = e],
                            !.queue = Append(@, s)], e)
<1>. DEFINE s == ScenarioOf[e]
            c == [Absent EXCEPT !.status = "queued", !.request = e, !.event = e]
            q == Append(m.queue, s)
            x == [m EXCEPT !.scenarios[s] = c, !.queue = Append(@, s)]
<1>1. s \in Scenarios /\ m.scenarios \in [Scenarios -> ScenarioRecords] /\ m.queue \in Seq(Scenarios)
  BY WorkerAssumption DEF States
<1>2. c \in ScenarioRecords /\ c.status = "queued" /\ c.event = e /\ c.attempts = 0
  BY DEF Absent, ScenarioRecords, Statuses, Requests
<1>3. m.scenarios[s].status = "absent"
  BY <1>1 DEF Known, With, ScenarioRecords
<1>4. /\ q \in Seq(Scenarios) /\ Range(q) = Range(m.queue) \cup {s}
      /\ IsInjective(m.queue) /\ s \notin Range(m.queue) => IsInjective(q)
  BY <1>1, AppendFacts
<1>5. x = Put(m, s, c, q)
  BY DEF States, Put
<1>. HIDE DEF s, c, x, q
<1>6. /\ x \in States
      /\ x.accepted = m.accepted /\ x.rejected = m.rejected /\ x.active = m.active
      /\ x.projection = m.projection /\ x.queue = q
      /\ x.scenarios[s] = c
      /\ \A u \in Scenarios \ {s} : x.scenarios[u] = m.scenarios[u]
  BY <1>1, <1>2, <1>4, <1>5, PutFacts, SMTT(30)
<1>8. /\ With(x, Waiting) = With(m, Waiting) \cup {s} /\ s \notin With(m, Waiting)
      /\ With(x, {"running"}) = With(m, {"running"}) /\ s \notin With(m, {"running"})
      /\ With(x, {"complete"}) = With(m, {"complete"}) /\ s \notin With(m, {"complete"})
      /\ Known(x) = Known(m) \cup {s} /\ s \notin Known(m)
  BY <1>1, <1>2, <1>3, <1>6 DEF Waiting, Statuses, Known, With
<1>9. Lined(x)
  BY <1>4, <1>6, <1>8 DEF Lined
<1>10. Agree(m) => Agree(x)
  <2>. SUFFICES ASSUME Agree(m) PROVE Agree(x)
    OBVIOUS
  <2>1. \A u \in With(m, {"running"}) \cup With(m, {"complete"}) :
          u # s /\ u \in Scenarios /\ x.scenarios[u] = m.scenarios[u]
    BY <1>6, <1>8 DEF With
  <2>. QED BY <1>4, <1>6, <1>8, <1>9, <2>1 DEF Agree, Lined
<1>11. WithinLimits(m) => WithinLimits(x)
  <2>1. Cardinality(Known(x)) = Cardinality(Known(m)) + 1
    BY <1>8, KnownFacts, FS_AddElement
  <2>2. Cardinality(Known(x)) <= MaxScenarios
    BY <2>1, KnownFacts, LimitFacts
  <2>. QED BY <1>6, <2>2 DEF WithinLimits
<1>12. \A u \in Scenarios : GoesOn(m.scenarios[u], x.scenarios[u])
  <2>1. GoesOn(m.scenarios[s], x.scenarios[s])
    BY <1>1, <1>2, <1>3, <1>6 DEF GoesOn
  <2>2. ASSUME NEW u \in Scenarios \ {s} PROVE GoesOn(m.scenarios[u], x.scenarios[u])
    <3>1. x.scenarios[u] = m.scenarios[u]
      BY <1>6
    <3>. QED BY <3>1 DEF GoesOn
  <2>. QED BY <2>1, <2>2
<1>13. x.scenarios[s].event = e
  BY <1>2, <1>6
<1>14. Takes(m, x, e)
  BY <1>6, <1>9, <1>10, <1>11, <1>12, <1>13 DEF Takes, s
<1>. QED BY <1>14 DEF s, c, x

LEMMA TakesSuccessor ==
  ASSUME NEW m \in States, NEW e \in Events, m.scenarios[ScenarioOf[e]].status = "running"
  PROVE  LET s == ScenarioOf[e] IN
         Takes(m, [m EXCEPT !.scenarios[s] = [@ EXCEPT !.event = e, !.pending = e]], e)
<1>. DEFINE s == ScenarioOf[e]
            c == [m.scenarios[s] EXCEPT !.event = e, !.pending = e]
            x == [m EXCEPT !.scenarios[s] = [@ EXCEPT !.event = e, !.pending = e]]
<1>1. s \in Scenarios /\ m.scenarios \in [Scenarios -> ScenarioRecords] /\ m.queue \in Seq(Scenarios)
  BY WorkerAssumption DEF States
<1>2. /\ c \in ScenarioRecords
      /\ c.event = e /\ c.status = m.scenarios[s].status /\ c.attempts = m.scenarios[s].attempts
      /\ c.request = m.scenarios[s].request /\ c.pending = e
      /\ c.publication = m.scenarios[s].publication
  BY <1>1 DEF ScenarioRecords, Requests
<1>3. x = Put(m, s, c, m.queue)
  BY <1>1 DEF States, Put
<1>. HIDE DEF s, c, x
<1>4. /\ x \in States
      /\ x.accepted = m.accepted /\ x.rejected = m.rejected /\ x.active = m.active
      /\ x.projection = m.projection /\ x.queue = m.queue
      /\ x.scenarios[s] = c
      /\ \A u \in Scenarios \ {s} : x.scenarios[u] = m.scenarios[u]
  BY <1>1, <1>2, <1>3, PutFacts, SMTT(30)
<1>6. \A X : With(x, X) = With(m, X)
  <2>1. \A u \in Scenarios : x.scenarios[u].status = m.scenarios[u].status
    BY <1>1, <1>2, <1>4
  <2>. QED BY <2>1 DEF With
<1>7. Lined(m) => Lined(x)
  BY <1>4, <1>6 DEF Lined
<1>8. Agree(m) => Agree(x)
  <2>1. \A u \in Scenarios : /\ x.scenarios[u].request = m.scenarios[u].request
                             /\ x.scenarios[u].publication = m.scenarios[u].publication
    BY <1>1, <1>2, <1>4
  <2>2. \A X : With(m, X) \subseteq Scenarios
    BY DEF With
  <2>. QED BY <1>4, <1>6, <2>1, <2>2 DEF Agree
<1>9. WithinLimits(m) => WithinLimits(x)
  BY <1>4, <1>6 DEF WithinLimits, Known
<1>10. \A u \in Scenarios : GoesOn(m.scenarios[u], x.scenarios[u])
  <2>1. e # None
    BY WorkerAssumption
  <2>2. GoesOn(m.scenarios[s], x.scenarios[s])
    BY <1>1, <1>2, <1>4, <2>1 DEF GoesOn
  <2>3. ASSUME NEW u \in Scenarios \ {s} PROVE GoesOn(m.scenarios[u], x.scenarios[u])
    <3>1. x.scenarios[u] = m.scenarios[u]
      BY <1>4
    <3>. QED BY <3>1 DEF GoesOn
  <2>. QED BY <2>2, <2>3
<1>11. x.scenarios[s].event = e
  BY <1>2, <1>4
<1>12. Takes(m, x, e)
  BY <1>4, <1>7, <1>8, <1>9, <1>10, <1>11 DEF Takes, s
<1>. QED BY <1>12 DEF s, x

LEMMA TakesAgain ==
  ASSUME NEW m \in States, NEW e \in Events, Lined(m), ScenarioOf[e] \in Known(m),
         m.scenarios[ScenarioOf[e]].status # "running"
  PROVE  LET s == ScenarioOf[e] IN
         Takes(m, [m EXCEPT !.scenarios[s] = [@ EXCEPT !.event = e, !.status = "queued",
                                                       !.request = e, !.pending = None,
                                                       !.attempts = 0],
                            !.queue = Queued(@, s)], e)
<1>. DEFINE s == ScenarioOf[e]
            c == [m.scenarios[s] EXCEPT !.event = e, !.status = "queued", !.request = e,
                                        !.pending = None, !.attempts = 0]
            q == Queued(m.queue, s)
            x == [m EXCEPT !.scenarios[s] = [@ EXCEPT !.event = e, !.status = "queued",
                                                       !.request = e, !.pending = None,
                                                       !.attempts = 0],
                            !.queue = Queued(@, s)]
<1>1. s \in Scenarios /\ m.scenarios \in [Scenarios -> ScenarioRecords] /\ m.queue \in Seq(Scenarios)
  BY WorkerAssumption DEF States
<1>2. c \in ScenarioRecords /\ c.status = "queued" /\ c.event = e /\ c.attempts = 0
  BY <1>1, ZenonT(60) DEF ScenarioRecords, Statuses, Requests
<1>3. m.scenarios[s].status \notin {"absent", "running"}
  BY <1>1 DEF Known, With
<1>4. /\ q \in Seq(Scenarios) /\ Range(q) = Range(m.queue) \cup {s} /\ IsInjective(q)
  BY <1>1, QueuedFacts DEF Lined
<1>5. x = Put(m, s, c, q)
  BY DEF States, Put
<1>. HIDE DEF s, c, x, q
<1>6. /\ x \in States
      /\ x.accepted = m.accepted /\ x.rejected = m.rejected /\ x.active = m.active
      /\ x.projection = m.projection /\ x.queue = q
      /\ x.scenarios[s] = c
      /\ \A u \in Scenarios \ {s} : x.scenarios[u] = m.scenarios[u]
  <2>1. /\ Put(m, s, c, q) \in States
        /\ Put(m, s, c, q).accepted = m.accepted /\ Put(m, s, c, q).rejected = m.rejected
        /\ Put(m, s, c, q).active = m.active /\ Put(m, s, c, q).projection = m.projection
        /\ Put(m, s, c, q).queue = q /\ Put(m, s, c, q).scenarios[s] = c
    BY <1>1, <1>2, <1>4, PutFacts
  <2>2. \A u \in Scenarios \ {s} : Put(m, s, c, q).scenarios[u] = m.scenarios[u]
    BY <1>1, <1>2, <1>4, PutFacts
  <2>. QED BY <1>5, <2>1, <2>2
<1>7. /\ With(x, Waiting) = With(m, Waiting) \cup {s}
      /\ With(x, {"running"}) = With(m, {"running"}) /\ s \notin With(m, {"running"})
      /\ With(x, {"complete"}) = With(m, {"complete"}) \ {s}
      /\ Known(x) = Known(m)
  <2>1. x.scenarios[s].status = "queued" /\ s \in Known(m) /\ s \notin With(m, {"running"})
    BY <1>1, <1>2, <1>3, <1>6 DEF s, With
  <2>2. With(x, Waiting) = With(m, Waiting) \cup {s}
    BY <1>1, <1>6, <2>1 DEF With, Waiting
  <2>3. With(x, {"running"}) = With(m, {"running"})
    BY <1>1, <1>6, <2>1 DEF With
  <2>4. With(x, {"complete"}) = With(m, {"complete"}) \ {s}
    BY <1>1, <1>6, <2>1 DEF With
  <2>5. Known(x) = Known(m)
    BY <1>1, <1>6, <2>1 DEF With, Known, Statuses
  <2>. QED BY <2>1, <2>2, <2>3, <2>4, <2>5
<1>8. Lined(x)
  BY <1>4, <1>6, <1>7 DEF Lined
<1>9. Agree(m) => Agree(x)
  <2>. SUFFICES ASSUME Agree(m) PROVE Agree(x)
    OBVIOUS
  <2>1. \A u \in With(x, {"running"}) \cup With(x, {"complete"}) :
          u # s /\ u \in Scenarios /\ x.scenarios[u] = m.scenarios[u]
    BY <1>6, <1>7 DEF With
  <2>. QED BY <1>4, <1>6, <1>7, <1>8, <2>1 DEF Agree, Lined
<1>10. WithinLimits(m) => WithinLimits(x)
  BY <1>6, <1>7 DEF WithinLimits
<1>11. \A u \in Scenarios : GoesOn(m.scenarios[u], x.scenarios[u])
  <2>1. GoesOn(m.scenarios[s], x.scenarios[s])
    BY <1>1, <1>2, <1>3, <1>6 DEF GoesOn
  <2>2. ASSUME NEW u \in Scenarios \ {s} PROVE GoesOn(m.scenarios[u], x.scenarios[u])
    <3>1. x.scenarios[u] = m.scenarios[u]
      BY <1>6
    <3>. QED BY <3>1 DEF GoesOn
  <2>. QED BY <2>1, <2>2
<1>12. x.scenarios[s].event = e
  BY <1>2, <1>6
<1>13. Takes(m, x, e)
  BY <1>6, <1>8, <1>9, <1>10, <1>11, <1>12 DEF Takes, s
<1>. QED BY <1>13 DEF s, c, x

\* All four become this when they are recorded.
LEMMA TakesRecorded ==
  ASSUME NEW m \in States, NEW x, NEW e \in Events, Takes(m, x, e), Lined(m)
  PROVE  LET n == Recorded(x, e) IN
         /\ n \in States /\ Lined(n)
         /\ e \notin Range(m.accepted) /\ Sound(m) => Sound(n)
         /\ Handled(n, e)
         /\ Range(n.accepted) \subseteq Range(m.accepted) \cup {e}
         /\ n.active = m.active
         /\ \A u \in Scenarios : GoesOn(m.scenarios[u], n.scenarios[u])
         /\ IF m.projection.status = "running"
              THEN n.projection.status = "running" /\ n.projection.attempts = m.projection.attempts
              ELSE n.projection.status = "queued" /\ n.projection.attempts = 0
<1>. DEFINE n == Recorded(x, e)
<1>1. /\ x \in States
      /\ x.accepted = m.accepted /\ x.rejected = m.rejected /\ x.active = m.active
      /\ x.projection = m.projection
      /\ Lined(x) /\ (Agree(m) => Agree(x)) /\ (WithinLimits(m) => WithinLimits(x))
      /\ \A u \in Scenarios : GoesOn(m.scenarios[u], x.scenarios[u])
  BY DEF Takes
<1>2. /\ n \in States
      /\ n.rejected = x.rejected /\ n.queue = x.queue /\ n.active = x.active
      /\ n.scenarios = x.scenarios
      /\ e \in Range(n.accepted)
      /\ Range(n.accepted) \subseteq Range(x.accepted) \cup {e}
      /\ Len(n.accepted) <= MaxAccepted
      /\ IsInjective(x.accepted) /\ e \notin Range(x.accepted) => IsInjective(n.accepted)
      /\ Projectable(n.projection)
      /\ IF x.projection.status = "running"
           THEN n.projection.status = "running" /\ n.projection.attempts = x.projection.attempts
           ELSE n.projection.status = "queued" /\ n.projection.attempts = 0
  BY <1>1, RecordedFacts
<1>. HIDE DEF n
<1>3. Lined(n) /\ (Agree(x) /\ IsInjective(n.accepted) => Agree(n)) /\ Known(n) = Known(x)
  BY <1>1, <1>2, SameFacts
<1>4. ASSUME e \notin Range(m.accepted), Sound(m) PROVE Sound(n)
  <2>1. Agree(m) /\ WithinLimits(m)
    BY <1>4, SoundParts
  <2>2. IsInjective(n.accepted)
    BY <1>1, <1>2, <1>4, <2>1 DEF Agree
  <2>3. Agree(n)
    BY <1>1, <1>3, <2>1, <2>2
  <2>4. WithinLimits(n)
    BY <1>1, <1>2, <1>3, <2>1 DEF WithinLimits
  <2>. QED BY <1>2, <2>3, <2>4, SoundParts
<1>5. Handled(n, e)
  BY <1>2 DEF Handled
<1>. QED BY <1>1, <1>2, <1>3, <1>4, <1>5 DEF n

-----------------------------------------------------------------------------
\* A write, whoever does it

Attempts(m, f) ==
  /\ \A s \in Scenarios : m.scenarios[s].attempts <= MaxAttempts + f
  /\ m.projection.attempts <= MaxProjections + f

LEMMA StateFacts ==
  ASSUME NEW m PROVE StateTypeOK(m) <=> m \in States /\ Attempts(m, faults)
BY DEF StateTypeOK, Attempts

\* Everybody is within his attempts after one more fault.
LEMMA FaultFacts ==
  ASSUME NEW m \in States, NEW f \in Nat, Attempts(m, f)
  PROVE  /\ Attempts(m, f + 1)
         /\ \A s, idle : CountedBy(m, s, idle, f + 1)
<1>1. \A s \in Scenarios : m.scenarios[s].attempts \in Nat /\ m.projection.attempts \in Nat
  BY DEF States, ScenarioRecords, Projections
<1>2. \A s \in Scenarios : m.scenarios[s].attempts < MaxAttempts + (f + 1)
  BY <1>1, LimitFacts DEF Attempts
<1>3. m.projection.attempts < MaxProjections + (f + 1)
  <2>1. m.projection.attempts \in Nat
    BY DEF States, Projections
  <2>. QED BY <2>1, LimitFacts DEF Attempts
<1>4. Attempts(m, f + 1)
  <2>1. m.projection.attempts \in Nat
    BY DEF States, Projections
  <2>. QED BY <1>1, <1>2, <1>3, <2>1, LimitFacts DEF Attempts
<1>. QED BY <1>2, <1>3, <1>4 DEF CountedBy

\* What has been remembered is in both states, whatever the limit pushes out.
LEMMA RememberFacts ==
  ASSUME Recalled, up, up' = up, NEW n, Remember(n, disk'), mem' = n, disk' \in {disk, n},
         remembered \in SUBSET Events, n \in States, disk \in States
  PROVE  Recalled' /\ remembered' \in SUBSET Events
<1>1. \A d \in States : Range(d.accepted) \subseteq Events
  <2>. SUFFICES ASSUME NEW d \in States PROVE Range(d.accepted) \subseteq Events
    OBVIOUS
  <2>1. d.accepted \in Seq(Events)
    BY DEF States
  <2>. QED BY <2>1 DEF Range
<1>2. disk' \in States
  OBVIOUS
<1>3. Range(disk'.accepted) \subseteq Events
  BY <1>1, <1>2
<1>4. remembered' \subseteq Range(disk'.accepted)
  BY DEF Recalled, Remember
<1>5. remembered' \subseteq Range(mem'.accepted)
  BY DEF Recalled, Remember
<1>. QED BY <1>3, <1>4, <1>5 DEF Recalled

LEMMA WriteFacts ==
  ASSUME IInv, up, up' = up, dropped' = dropped,
         NEW n \in States, Lined(n), dropped \/ Sound(n), Attempts(n, faults),
         Saved(n) => CountedBy(n, runner'.scenario, project' = "none", faults),
         Saved(n) \/ Unsaved(n)
  PROVE  /\ mem' = n /\ disk' \in {disk, n}
         /\ StateTypeOK(mem)' /\ StateTypeOK(disk)'
         /\ Lined(mem)' /\ Lined(disk)'
         /\ Counted(mem)' /\ Counted(disk)'
         /\ Recalled' /\ Kepts'
         /\ fatal' \in BOOLEAN /\ remembered' \in SUBSET Events /\ faults' \in 0..MaxFaults
<1>1. /\ disk \in States /\ Attempts(disk, faults) /\ faults \in Nat /\ faults \in 0..MaxFaults
      /\ remembered \in SUBSET Events /\ fatal \in BOOLEAN
  BY StateFacts, LimitFacts DEF IInv, TypeOK
<1>2. mem' = n /\ disk' \in {disk, n} /\ Remember(n, disk')
  BY DEF Saved, Unsaved
<1>3. Recalled' /\ remembered' \in SUBSET Events
  BY <1>1, <1>2, RememberFacts DEF IInv
<1>4. Lined(mem)' /\ Lined(disk)'
  BY <1>2 DEF IInv, Lined, With
<1>5. Kepts'
  BY <1>2, ZenonT(60) DEF IInv, Kepts, Sound, Consistent, WithinLimits, With, Known
<1>6. CASE Saved(n)
  <2>1. faults' = faults /\ fatal' = fatal /\ mem' = n /\ disk' = n
    BY <1>6 DEF Saved
  <2>2. StateTypeOK(mem)' /\ StateTypeOK(disk)'
    BY <2>1 DEF StateTypeOK, Attempts
  <2>3. Counted(mem)' /\ Counted(disk)'
    BY <1>6, <2>1 DEF Counted, CountedBy
  <2>. QED BY <1>1, <1>2, <1>3, <1>4, <1>5, <2>1, <2>2, <2>3
<1>7. CASE Unsaved(n)
  <2>1. faults' = faults + 1 /\ fatal' = TRUE /\ faults < MaxFaults
    BY <1>7 DEF Unsaved
  <2>2. \A m \in {disk, n} : Attempts(m, faults') /\ \A s, idle : CountedBy(m, s, idle, faults')
    BY <1>1, <2>1, FaultFacts
  <2>3. faults' \in 0..MaxFaults
    BY <1>1, <2>1, LimitFacts
  <2>4. /\ Attempts(mem', faults') /\ CountedBy(mem', runner'.scenario, project' = "none", faults')
        /\ Attempts(disk', faults') /\ CountedBy(disk', runner'.scenario, project' = "none", faults')
    BY <1>2, <2>2
  <2>. QED BY <1>1, <1>2, <1>3, <1>4, <1>5, <2>1, <2>3, <2>4 DEF Counted, CountedBy, StateTypeOK, Attempts
<1>. QED BY <1>6, <1>7

\* A step that leaves the state alone.
LEMMA RestFacts ==
  ASSUME IInv, Untouched, up' = up, dropped' = dropped, runner' = runner,
         (project' = "none") <=> (project = "none"), faults' = faults
  PROVE  /\ StateTypeOK(mem)' /\ StateTypeOK(disk)'
         /\ Lined(mem)' /\ Lined(disk)'
         /\ Counted(mem)' /\ Counted(disk)'
         /\ Recalled' /\ Kepts' /\ remembered' \in SUBSET Events
<1>1. mem' = mem /\ disk' = disk /\ remembered' = remembered
  BY DEF Untouched
<1>2. StateTypeOK(mem)' /\ StateTypeOK(disk)' /\ remembered' \in SUBSET Events
  BY <1>1 DEF IInv, TypeOK, StateTypeOK
<1>3. Lined(mem)' /\ Lined(disk)'
  BY <1>1 DEF IInv, Lined, With
<1>4. Counted(mem)' /\ Counted(disk)'
  BY <1>1 DEF IInv, Counted, CountedBy
<1>5. Recalled' /\ Kepts'
  BY <1>1 DEF IInv, Recalled, Kepts, Sound, Consistent, WithinLimits, With, Known
<1>. QED BY <1>2, <1>3, <1>4, <1>5

\* The same of one that breaks the worker.
LEMMA BreakFacts ==
  ASSUME IInv, Untouched, up' = up, dropped' = dropped, faults < MaxFaults, faults' = faults + 1
  PROVE  /\ StateTypeOK(mem)' /\ StateTypeOK(disk)'
         /\ Lined(mem)' /\ Lined(disk)'
         /\ Counted(mem)' /\ Counted(disk)'
         /\ Recalled' /\ Kepts' /\ remembered' \in SUBSET Events /\ faults' \in 0..MaxFaults
<1>1. mem' = mem /\ disk' = disk /\ remembered' = remembered
  BY DEF Untouched
<1>2. /\ mem \in States /\ Attempts(mem, faults) /\ disk \in States /\ Attempts(disk, faults)
      /\ faults \in Nat /\ faults' \in 0..MaxFaults /\ remembered \in SUBSET Events
  BY StateFacts, LimitFacts DEF IInv, TypeOK
<1>3. \A m \in {mem, disk} : Attempts(m, faults') /\ \A s, idle : CountedBy(m, s, idle, faults')
  BY <1>2, FaultFacts
<1>4. StateTypeOK(mem)' /\ StateTypeOK(disk)'
  BY <1>1, <1>2, <1>3 DEF StateTypeOK, Attempts
<1>5. Lined(mem)' /\ Lined(disk)'
  BY <1>1 DEF IInv, Lined, With
<1>6. /\ CountedBy(mem', runner'.scenario, project' = "none", faults')
      /\ CountedBy(disk', runner'.scenario, project' = "none", faults')
  BY <1>1, <1>3
<1>7. Counted(mem)' /\ Counted(disk)'
  BY <1>6 DEF Counted, CountedBy
<1>8. Recalled' /\ Kepts'
  BY <1>1 DEF IInv, Recalled, Kepts, Sound, Consistent, WithinLimits, With, Known
<1>. QED BY <1>1, <1>2, <1>4, <1>5, <1>7, <1>8

-----------------------------------------------------------------------------
\* The drain

\* What the drain makes of the state for e: the run that is under way keeps its
\* request, and a projection that is under way goes on.
Taken(m, n, e) ==
  /\ n \in States /\ Lined(n)
  /\ Sound(m) => Sound(n)
  /\ Handled(n, e)
  /\ Range(n.accepted) \subseteq Range(m.accepted) \cup {e}
  /\ n.active = m.active
  /\ \A u \in Scenarios : GoesOn(m.scenarios[u], n.scenarios[u])
  /\ \/ n.projection = m.projection
     \/ IF m.projection.status = "running"
          THEN n.projection.status = "running" /\ n.projection.attempts = m.projection.attempts
          ELSE n.projection.status = "queued" /\ n.projection.attempts = 0

\* It counts as before, or from the beginning.
LEMMA TakenCounts ==
  ASSUME NEW m \in States, NEW n \in States, NEW e, Taken(m, n, e), NEW s, NEW idle \in BOOLEAN,
         NEW f \in Nat, Attempts(m, f), CountedBy(m, s, idle, f)
  PROVE  Attempts(n, f) /\ CountedBy(n, s, idle, f)
<1>1. MaxAttempts + f \in Nat /\ 0 < MaxAttempts + f /\ MaxProjections + f \in Nat /\ 0 < MaxProjections + f
  BY LimitFacts
<1>2. ASSUME NEW u \in Scenarios
      PROVE  /\ n.scenarios[u].attempts <= MaxAttempts + f
             /\ u # s /\ n.scenarios[u].status \in Waiting \cup {"running"} =>
                  n.scenarios[u].attempts < MaxAttempts + f
  <2>1. GoesOn(m.scenarios[u], n.scenarios[u])
    BY DEF Taken
  <2>2. /\ m.scenarios[u].attempts <= MaxAttempts + f
        /\ u # s /\ m.scenarios[u].status \in Waiting \cup {"running"} =>
             m.scenarios[u].attempts < MaxAttempts + f
    BY DEF Attempts, CountedBy
  <2>. QED BY <1>1, <2>1, <2>2 DEF GoesOn
<1>3. /\ n.projection.attempts <= MaxProjections + f
      /\ n.projection.status \in Waiting \cup {"running"} /\ idle =>
           n.projection.attempts < MaxProjections + f
  BY <1>1 DEF Taken, Attempts, CountedBy, Waiting
<1>. QED BY <1>2, <1>3 DEF Attempts, CountedBy

LEMMA UpFacts ==
  ASSUME IInv, drain.at # "idle" PROVE up /\ turn = "free"
BY DEF IInv, Underway, Drained, NoDrain

LEMMA DrainWrites ==
  ASSUME IInv, NEW e \in Events, NEW n, Taken(mem, n, e),
         At("next", e) \/ At("validate", e), Persisted(n, e),
         (project' = project) \/ Outdate, UNCHANGED elsewhere
  PROVE  IInv'
<1>1. up /\ turn = "free" /\ drain.at # "idle"
  BY UpFacts DEF At
<1>2. UNCHANGED <<up, turn, runner, report, dropped, deliveries, inbox>>
  BY DEF elsewhere, Persisted
<1>3. /\ n \in States /\ mem \in States /\ faults \in Nat /\ project \in {"none", "latest", "outdated"}
      /\ Attempts(mem, faults)
  BY StateFacts, LimitFacts DEF IInv, TypeOK, Taken
<1>4. project' \in {"none", "latest", "outdated"} /\ (project' = "none" <=> project = "none")
  BY <1>3 DEF Outdate
<1>5. Attempts(n, faults) /\ CountedBy(n, runner'.scenario, project' = "none", faults)
  BY <1>2, <1>3, <1>4, TakenCounts DEF IInv, Counted
<1>6. Lined(n) /\ (dropped \/ Sound(n)) /\ (Saved(n) \/ Unsaved(n))
  BY DEF Taken, IInv, Kepts, Persisted
<1>7. /\ mem' = n /\ disk' \in {disk, n}
      /\ StateTypeOK(mem)' /\ StateTypeOK(disk)'
      /\ Lined(mem)' /\ Lined(disk)' /\ Counted(mem)' /\ Counted(disk)'
      /\ Recalled' /\ Kepts'
      /\ fatal' \in BOOLEAN /\ remembered' \in SUBSET Events /\ faults' \in 0..MaxFaults
  <2>1. up' = up /\ dropped' = dropped
    BY <1>2
  <2>. QED BY <1>1, <1>3, <1>5, <1>6, <2>1, WriteFacts
<1>8. drain' = Go("delete", e) \/ drain' = NoDrain
  BY DEF Persisted
<1>9. drain' \in [at : {"idle", "next", "validate", "delete"}, todo : SUBSET Events, entry : Requests]
  BY <1>8 DEF Go, NoDrain, Requests, IInv, TypeOK
<1>10. TypeOK'
  BY <1>2, <1>4, <1>7, <1>9 DEF IInv, TypeOK
<1>11. Underway'
  <2>1. project' # "none" => mem'.projection.status = "running"
    BY <1>4, <1>7 DEF IInv, Underway, Taken
  <2>2. ASSUME runner # NoActive
        PROVE  LET c == mem'.scenarios[runner.scenario] IN
               /\ mem'.active = runner /\ disk'.active = runner
               /\ c.status = "running" /\ c.request = runner.request
               /\ disk'.scenarios[runner.scenario].pending # None => c.pending # None
    <3>1. runner.scenario \in Scenarios
      BY <2>2 DEF IInv, TypeOK, Actives
    <3>2. GoesOn(mem.scenarios[runner.scenario], n.scenarios[runner.scenario]) /\ n.active = mem.active
      BY <3>1 DEF Taken
    <3>. QED BY <1>7, <2>2, <3>2 DEF IInv, Underway, GoesOn
  <2>. QED BY <1>1, <1>2, <2>1, <2>2 DEF Underway
<1>12. Drained'
  <2>1. None \notin Events
    BY WorkerAssumption
  <2>. QED BY <1>1, <1>2, <1>8, <2>1 DEF Drained, Go, NoDrain
<1>13. HandledSaved'
  <2>1. CASE Saved(n)
    BY <2>1 DEF Saved, HandledSaved, Handled
  <2>2. CASE Unsaved(n) /\ drain' = NoDrain
    BY <2>2 DEF Unsaved, HandledSaved, NoDrain
  <2>. QED BY <2>1, <2>2 DEF Persisted
<1>. QED BY <1>7, <1>10, <1>11, <1>12, <1>13 DEF IInv

LEMMA SameTaken ==
  ASSUME NEW m \in States, NEW n \in States, NEW e \in Events, Lined(m),
         n.queue = m.queue, n.active = m.active, n.scenarios = m.scenarios,
         n.projection = m.projection, n.accepted = m.accepted,
         Len(n.rejected) <= MaxRejected, e \in Range(n.rejected)
  PROVE  Taken(m, n, e)
<1>1. Lined(n) /\ (Agree(m) /\ IsInjective(n.accepted) => Agree(n)) /\ Known(n) = Known(m)
  BY SameFacts
<1>2. Sound(m) => Sound(n)
  <2>1. Sound(m) => Agree(n)
    BY <1>1, SoundParts DEF Agree
  <2>2. Sound(m) => WithinLimits(n)
    BY <1>1, SoundParts DEF WithinLimits
  <2>. QED BY <2>1, <2>2, SoundParts
<1>3. Handled(n, e)
  BY DEF Handled
<1>4. \A u \in Scenarios : GoesOn(m.scenarios[u], n.scenarios[u])
  BY DEF GoesOn
<1>. QED BY <1>1, <1>2, <1>3, <1>4 DEF Taken

LEMMA RejectedTaken ==
  ASSUME NEW m \in States, NEW e \in Events, Lined(m)
  PROVE  /\ Taken(m, Rejected(m, e), e)
         /\ Taken(m, Rejected([m EXCEPT !.selected = ScenarioOf[e]], e), e)
<1>. DEFINE x == [m EXCEPT !.selected = ScenarioOf[e]]
<1>1. /\ x \in States /\ x.queue = m.queue /\ x.active = m.active /\ x.scenarios = m.scenarios
      /\ x.projection = m.projection /\ x.accepted = m.accepted
  BY WorkerAssumption DEF States
<1>. HIDE DEF x
<1>2. Taken(m, Rejected(m, e), e)
  <2>1. /\ Rejected(m, e) \in States
        /\ Rejected(m, e).accepted = m.accepted /\ Rejected(m, e).queue = m.queue
        /\ Rejected(m, e).active = m.active /\ Rejected(m, e).scenarios = m.scenarios
        /\ Rejected(m, e).projection = m.projection
        /\ e \in Range(Rejected(m, e).rejected) /\ Len(Rejected(m, e).rejected) <= MaxRejected
    BY RejectedFacts
  <2>. QED BY <2>1, SameTaken
<1>3. Taken(m, Rejected(x, e), e)
  <2>1. /\ Rejected(x, e) \in States
        /\ Rejected(x, e).accepted = x.accepted /\ Rejected(x, e).queue = x.queue
        /\ Rejected(x, e).active = x.active /\ Rejected(x, e).scenarios = x.scenarios
        /\ Rejected(x, e).projection = x.projection
        /\ e \in Range(Rejected(x, e).rejected) /\ Len(Rejected(x, e).rejected) <= MaxRejected
    BY <1>1, RejectedFacts
  <2>. QED BY <1>1, <2>1, SameTaken
<1>. QED BY <1>2, <1>3 DEF x

LEMMA AcceptedTaken ==
  ASSUME IInv, NEW x, NEW e \in Events, Takes(mem, x, e), ~Handled(mem, e)
  PROVE  Taken(mem, Recorded(x, e), e)
<1>1. mem \in States /\ Lined(mem) /\ e \notin Range(mem.accepted)
  BY DEF IInv, TypeOK, StateTypeOK, Handled
<1>. DEFINE n == Recorded(x, e)
<1>2. /\ n \in States /\ Lined(n)
      /\ Sound(mem) => Sound(n)
      /\ Handled(n, e)
      /\ Range(n.accepted) \subseteq Range(mem.accepted) \cup {e}
      /\ n.active = mem.active
      /\ \A u \in Scenarios : GoesOn(mem.scenarios[u], n.scenarios[u])
      /\ IF mem.projection.status = "running"
           THEN n.projection.status = "running" /\ n.projection.attempts = mem.projection.attempts
           ELSE n.projection.status = "queued" /\ n.projection.attempts = 0
  BY <1>1, TakesRecorded
<1>. HIDE DEF n
<1>3. Taken(mem, n, e)
  BY <1>2 DEF Taken
<1>. QED BY <1>3 DEF n

\* What the drain writes of e.
LEMMA DrainTaken ==
  ASSUME IInv, NEW e \in Events, Accept(e) \/ Refuse(e) \/ RefuseNew(e)
  PROVE  \E n : /\ Taken(mem, n, e) /\ Persisted(n, e)
                /\ At("next", e) \/ At("validate", e)
                /\ project' = project \/ Outdate
                /\ UNCHANGED elsewhere
<1>1. mem \in States /\ Lined(mem)
  BY DEF IInv, TypeOK, StateTypeOK
<1>2. At("validate", e) => ~Handled(mem, e)
  BY DEF At, IInv, Drained
<1>. DEFINE s == ScenarioOf[e]
<1>3. CASE AcceptProjection(e)
  <2>. DEFINE x == [mem EXCEPT !.scenarios[s].event = e]
  <2>1. At("next", e) /\ ~Handled(mem, e) /\ s \in Known(mem) /\ Accepted(x, e)
    BY <1>3 DEF AcceptProjection
  <2>2. Takes(mem, x, e)
    BY <1>1, <2>1, TakesProjection
  <2>. HIDE DEF x
  <2>. QED BY <2>1, <2>2, AcceptedTaken DEF Accepted
<1>4. CASE AcceptNew(e)
  <2>. DEFINE x == [mem EXCEPT !.scenarios[s] = [Absent EXCEPT !.status = "queued", !.request = e,
                                                         !.event = e],
                               !.queue = Append(@, s)]
  <2>1. At("validate", e) /\ s \notin Known(mem) /\ Cardinality(Known(mem)) < MaxScenarios /\ Accepted(x, e)
    BY <1>4 DEF AcceptNew
  <2>2. Takes(mem, x, e)
    BY <1>1, <2>1, TakesNew
  <2>. HIDE DEF x
  <2>. QED BY <1>2, <2>1, <2>2, AcceptedTaken DEF Accepted
<1>5. CASE AcceptSuccessor(e)
  <2>. DEFINE x == [mem EXCEPT !.scenarios[s] = [@ EXCEPT !.event = e, !.pending = e]]
  <2>1. At("validate", e) /\ mem.scenarios[s].status = "running" /\ Accepted(x, e)
    BY <1>5 DEF AcceptSuccessor
  <2>2. Takes(mem, x, e)
    BY <1>1, <2>1, TakesSuccessor
  <2>. HIDE DEF x
  <2>. QED BY <1>2, <2>1, <2>2, AcceptedTaken DEF Accepted
<1>6. CASE AcceptAgain(e)
  <2>. DEFINE x == [mem EXCEPT !.scenarios[s] = [@ EXCEPT !.event = e, !.status = "queued",
                                                     !.request = e, !.pending = None,
                                                     !.attempts = 0],
                               !.queue = Queued(@, s)]
  <2>1. At("validate", e) /\ s \in Known(mem) /\ mem.scenarios[s].status # "running" /\ Accepted(x, e)
    BY <1>6 DEF AcceptAgain
  <2>2. Takes(mem, x, e)
    BY <1>1, <2>1, TakesAgain
  <2>. HIDE DEF x
  <2>. QED BY <1>2, <2>1, <2>2, AcceptedTaken DEF Accepted
<1>7. CASE Refuse(e)
  BY <1>1, <1>7, RejectedTaken DEF Refuse
<1>8. CASE RefuseNew(e)
  <2>1. At("validate", e) /\ Persisted(Rejected(Selected(e), e), e) /\ UNCHANGED <<elsewhere, project>>
    BY <1>8 DEF RefuseNew
  <2>2. Taken(mem, Rejected(Selected(e), e), e)
    BY <1>1, RejectedTaken DEF Selected
  <2>. QED BY <2>1, <2>2
<1>. QED BY <1>3, <1>4, <1>5, <1>6, <1>7, <1>8 DEF Accept

LEMMA DrainSafe ==
  ASSUME IInv, NEW e \in Events, Accept(e) \/ Refuse(e) \/ RefuseNew(e)
  PROVE  IInv'
BY DrainTaken, DrainWrites

\* The steps of the drain, and of the project's inbox, that leave the state alone.
LEMMA DrainRests ==
  ASSUME IInv, Untouched, UNCHANGED <<up, fatal, runner, project, report, dropped, faults>>,
         deliveries' \in 0..MaxDeliveries, inbox' \in SUBSET Events,
         drain' \in [at : {"idle", "next", "validate", "delete"}, todo : SUBSET Events,
                     entry : Requests],
         turn' \in {"free", "telemetry", "projection"},
         ~up => turn' = "free" /\ drain' = NoDrain,
         fatal => drain.at # "idle" \/ drain'.at = "idle",
         Drained'
  PROVE  IInv'
<1>1. mem' = mem /\ disk' = disk /\ remembered' = remembered
  BY DEF Untouched
<1>2. /\ StateTypeOK(mem)' /\ StateTypeOK(disk)'
      /\ Lined(mem)' /\ Lined(disk)' /\ Counted(mem)' /\ Counted(disk)'
      /\ Recalled' /\ Kepts' /\ remembered' \in SUBSET Events
  BY RestFacts
<1>3. TypeOK'
  BY <1>2 DEF IInv, TypeOK
<1>4. Underway'
  BY <1>1 DEF IInv, Underway
<1>5. HandledSaved'
  BY <1>1 DEF IInv, HandledSaved, Handled
<1>. QED BY <1>2, <1>3, <1>4, <1>5 DEF IInv

LEMMA InboxSafe ==
  ASSUME IInv,
         \/ \E e \in Events : Deliver(e) \/ Defer(e) \/ SkipHandled(e) \/ Validate(e)
         \/ Poll \/ Delete \/ \E tick \in BOOLEAN : EndDrain(tick)
  PROVE  IInv'
<1>. USE DEF Untouched, elsewhere
<1>1. /\ drain \in [at : {"idle", "next", "validate", "delete"}, todo : SUBSET Events,
                    entry : Requests]
      /\ turn \in {"free", "telemetry", "projection"}
      /\ deliveries \in 0..MaxDeliveries /\ inbox \in SUBSET Events /\ MaxDeliveries \in Nat
      /\ None \notin Events
  BY LimitFacts, WorkerAssumption DEF IInv, TypeOK
<1>2. drain.at # "idle" => up /\ turn = "free"
  BY UpFacts
<1>3. ~up => turn = "free" /\ drain = NoDrain
  BY DEF IInv, Underway
<1>4. Drained
  BY DEF IInv
<1>5. ASSUME NEW e \in Events, Deliver(e) PROVE IInv'
  <2>1. Drained'
    BY <1>4, <1>5 DEF Deliver, Drained, Handled
  <2>. QED BY <1>1, <1>3, <1>5, <2>1, DrainRests DEF Deliver
<1>6. ASSUME NEW e \in Events, At("next", e) \/ At("validate", e), drain' = Go("next", e),
             Untouched, UNCHANGED <<elsewhere, fatal, project, faults, inbox>>
      PROVE  IInv'
  <2>1. drain.at # "idle"
    BY <1>6 DEF At
  <2>2. Drained'
    BY <1>2, <1>6, <2>1 DEF Drained, Go
  <2>3. drain' \in [at : {"idle", "next", "validate", "delete"}, todo : SUBSET Events,
                    entry : Requests]
    BY <1>1, <1>6 DEF Go, Requests
  <2>. QED BY <1>1, <1>2, <1>3, <1>6, <2>1, <2>2, <2>3, DrainRests
<1>7. ASSUME NEW e \in Events, Defer(e) PROVE IInv'
  BY <1>6, <1>7 DEF Defer
<1>8. ASSUME NEW e \in Events, SkipHandled(e) PROVE IInv'
  <2>1. drain.at # "idle"
    BY <1>8 DEF SkipHandled, At
  <2>2. Drained'
    BY <1>1, <1>2, <1>8, <2>1 DEF Drained, Go, SkipHandled
  <2>3. drain' \in [at : {"idle", "next", "validate", "delete"}, todo : SUBSET Events,
                    entry : Requests]
    BY <1>1, <1>8 DEF Go, SkipHandled, Requests
  <2>. QED BY <1>1, <1>2, <1>3, <1>8, <2>1, <2>2, <2>3, DrainRests DEF SkipHandled
<1>9. ASSUME NEW e \in Events, Validate(e) PROVE IInv'
  <2>1. drain.at # "idle"
    BY <1>9 DEF Validate, At
  <2>2. Drained'
    BY <1>1, <1>2, <1>9, <2>1 DEF Drained, Go, Validate, Handled
  <2>3. drain' \in [at : {"idle", "next", "validate", "delete"}, todo : SUBSET Events,
                    entry : Requests]
    BY <1>1, <1>9 DEF Go, Validate, Requests
  <2>. QED BY <1>1, <1>2, <1>3, <1>9, <2>1, <2>2, <2>3, DrainRests DEF Validate
<1>10. CASE Poll
  <2>1. PICK todo \in {inbox, {}} : drain' = [NoDrain EXCEPT !.at = "next", !.todo = todo]
    BY <1>10 DEF Poll
  <2>2. drain'.at = "next" /\ drain'.entry = None
    BY <2>1 DEF NoDrain
  <2>3. Drained'
    BY <1>10, <2>2 DEF Drained, Poll
  <2>4. drain' \in [at : {"idle", "next", "validate", "delete"}, todo : SUBSET Events,
                    entry : Requests]
    BY <1>1, <2>1 DEF NoDrain, Requests
  <2>. QED BY <1>1, <1>3, <1>10, <2>3, <2>4, DrainRests DEF Poll
<1>11. CASE Delete
  <2>1. Drained'
    BY <1>1, <1>2, <1>11 DEF Drained, Go, Delete
  <2>2. drain' \in [at : {"idle", "next", "validate", "delete"}, todo : SUBSET Events,
                    entry : Requests]
    BY <1>1, <1>11 DEF Go, Delete, Requests
  <2>. QED BY <1>1, <1>2, <1>3, <1>11, <2>1, <2>2, DrainRests DEF Delete
<1>12. ASSUME NEW tick \in BOOLEAN, EndDrain(tick) PROVE IInv'
  <2>1. Drained'
    BY <1>12 DEF Drained, EndDrain, NoDrain
  <2>2. drain' \in [at : {"idle", "next", "validate", "delete"}, todo : SUBSET Events,
                    entry : Requests]
    BY <1>12 DEF EndDrain, NoDrain, Requests
  <2>3. drain'.at = "idle"
    BY <1>12 DEF EndDrain, NoDrain
  <2>. QED BY <1>1, <1>2, <1>12, <2>1, <2>2, <2>3, DrainRests DEF EndDrain
<1>. QED BY <1>5, <1>7, <1>8, <1>9, <1>10, <1>11, <1>12

\* A scenario is selected, and its event left for later.
LEMMA DeferNewSafe ==
  ASSUME IInv, NEW e \in Events, DeferNew(e) PROVE IInv'
<1>1. /\ At("validate", e)
      /\ mem' = Selected(e) /\ drain' = Go("next", e)
      /\ UNCHANGED <<up, turn, runner, report, dropped, deliveries, disk, remembered, fatal,
                     project, inbox, faults>>
  BY DEF DeferNew, elsewhere
<1>2. up /\ turn = "free" /\ drain.at # "idle"
  BY <1>1, UpFacts DEF At
<1>3. /\ mem' \in States
      /\ mem'.accepted = mem.accepted /\ mem'.rejected = mem.rejected /\ mem'.queue = mem.queue
      /\ mem'.active = mem.active /\ mem'.projection = mem.projection
      /\ mem'.scenarios = mem.scenarios
  BY <1>1, WorkerAssumption DEF Selected, States, IInv, TypeOK, StateTypeOK
<1>4. TypeOK'
  <2>1. drain' \in [at : {"idle", "next", "validate", "delete"}, todo : SUBSET Events,
                    entry : Requests]
    BY <1>1 DEF Go, Requests, IInv, TypeOK
  <2>. QED BY <1>1, <1>3, <2>1 DEF IInv, TypeOK, StateTypeOK
<1>5. /\ Lined(mem') /\ (Agree(mem) /\ IsInjective(mem'.accepted) => Agree(mem'))
      /\ Known(mem') = Known(mem)
  BY <1>3, SameFacts DEF IInv
<1>6. Lined(mem)' /\ Lined(disk)'
  BY <1>1, <1>5 DEF IInv, Lined, With
<1>7. Counted(mem)' /\ Counted(disk)'
  BY <1>1, <1>3 DEF IInv, Counted, CountedBy
<1>8. Underway' /\ Recalled'
  BY <1>1, <1>2, <1>3 DEF IInv, Underway, Recalled
<1>9. Drained'
  BY <1>1, <1>2 DEF Drained, Go
<1>10. HandledSaved'
  BY <1>1, <1>2, <1>3 DEF IInv, HandledSaved, Handled
<1>11. Kepts'
  <2>1. Sound(mem) => Sound(mem')
    <3>1. Sound(mem) => Agree(mem')
      BY <1>3, <1>5, SoundParts DEF Agree
    <3>2. Sound(mem) => WithinLimits(mem')
      BY <1>3, <1>5, SoundParts DEF WithinLimits
    <3>. QED BY <1>3, <3>1, <3>2, SoundParts
  <2>2. dropped' \/ (Sound(mem') /\ Sound(disk'))
    BY <1>1, <2>1 DEF IInv, Kepts
  <2>. QED BY <2>2 DEF Kepts, Sound, Consistent, WithinLimits, With, Known
<1>. QED BY <1>4, <1>6, <1>7, <1>8, <1>9, <1>10, <1>11 DEF IInv

\* The steps that break the worker without touching its state.
LEMMA BrokenSafe ==
  ASSUME IInv, DrainBroken \/ Quarantine PROVE IInv'
<1>1. /\ Untouched /\ faults < MaxFaults /\ faults' = faults + 1 /\ fatal' = TRUE
      /\ UNCHANGED <<up, turn, project, inbox, dropped, deliveries>>
      /\ drain' \in {drain, NoDrain} /\ runner' \in {runner, NoActive}
  BY DEF DrainBroken, Quarantine, elsewhere
<1>2. /\ StateTypeOK(mem)' /\ StateTypeOK(disk)'
      /\ Lined(mem)' /\ Lined(disk)' /\ Counted(mem)' /\ Counted(disk)'
      /\ Recalled' /\ Kepts' /\ remembered' \in SUBSET Events /\ faults' \in 0..MaxFaults
  BY <1>1, BreakFacts
<1>3. report' \in [Scenarios -> Requests]
  <2>1. report \in [Scenarios -> Requests] /\ runner \in Actives
    BY DEF IInv, TypeOK
  <2>2. runner # NoActive => Published \in [Scenarios -> Requests]
    BY <2>1 DEF Published, Actives
  <2>. QED BY <2>1, <2>2 DEF DrainBroken, Quarantine, elsewhere
<1>4. TypeOK'
  BY <1>1, <1>2, <1>3 DEF IInv, TypeOK, NoDrain, Requests, Actives
<1>5. Underway'
  BY <1>1 DEF IInv, Underway, Untouched
<1>6. Drained'
  BY <1>1 DEF IInv, Drained, NoDrain, Untouched, Handled
<1>7. HandledSaved'
  BY <1>1 DEF IInv, HandledSaved, NoDrain, Untouched, Handled
<1>. QED BY <1>2, <1>4, <1>5, <1>6, <1>7 DEF IInv

LEMMA StutterSafe ==
  ASSUME IInv, UNCHANGED vars PROVE IInv'
<1>1. TypeOK'
  BY DEF vars, IInv, TypeOK, StateTypeOK
<1>2. Lined(mem)' /\ Lined(disk)' /\ Counted(mem)' /\ Counted(disk)'
  BY DEF vars, IInv, Lined, With, Counted, CountedBy
<1>3. Underway' /\ Drained'
  BY DEF vars, IInv, Underway, Drained, With, Handled
<1>4. HandledSaved' /\ Recalled'
  BY DEF vars, IInv, HandledSaved, Handled, Recalled
<1>5. Kepts'
  BY DEF vars, IInv, Kepts, Sound, Consistent, WithinLimits, With, Known
<1>. QED BY <1>1, <1>2, <1>3, <1>4, <1>5 DEF IInv

LEMMA SkipSafe ==
  ASSUME IInv, StartRefused \/ SkipTelemetry \/ SkipProjection PROVE IInv'
<1>1. CASE StartRefused
  BY <1>1, StutterSafe DEF StartRefused
<1>2. CASE SkipTelemetry \/ SkipProjection
  <2>1. /\ UNCHANGED <<up, disk, mem, fatal, drain, runner, project, inbox, report, dropped,
                       remembered, deliveries, faults>>
        /\ turn # "free" /\ turn' \in {"free", "projection"}
    BY <1>2 DEF SkipTelemetry, SkipProjection
  <2>2. drain.at = "idle" /\ up /\ fatal \in BOOLEAN
    BY <2>1, UpFacts DEF IInv, Underway, TypeOK
  <2>3. Drained'
    BY <2>1, <2>2 DEF IInv, Drained, Handled
  <2>. QED BY <2>1, <2>2, <2>3, DrainRests DEF IInv, TypeOK, Untouched
<1>. QED BY <1>1, <1>2

-----------------------------------------------------------------------------
\* A tick starts a run and a projection

\* The scenario that is started leaves the queue and becomes the active one.
LEMMA StartedFacts ==
  ASSUME NEW m \in States, NEW i \in 1..Len(m.queue), Lined(m), m.active = NoActive
  PROVE  LET s == m.queue[i]
             n == Started(m, i)
         IN  /\ s \in Scenarios /\ m.scenarios[s].status \in Waiting
             /\ n \in States /\ Lined(n)
             /\ Sound(m) => Sound(n)
             /\ n.active = [scenario |-> s, request |-> m.scenarios[s].request]
             /\ n.accepted = m.accepted /\ n.rejected = m.rejected
             /\ n.scenarios[s] = [m.scenarios[s] EXCEPT !.status = "running",
                                                        !.attempts = m.scenarios[s].attempts + 1]
             /\ \A u \in Scenarios \ {s} : n.scenarios[u] = m.scenarios[u]
             /\ IF m.projection.status = "running"
                  THEN n.projection.status = "running" /\ n.projection.attempts = m.projection.attempts
                  ELSE n.projection.status = "queued" /\ n.projection.attempts = 0
<1>. DEFINE s == m.queue[i]
            a == [scenario |-> s, request |-> m.scenarios[s].request]
            c == [m.scenarios[s] EXCEPT !.status = "running", !.attempts = m.scenarios[s].attempts + 1]
            w == Without(m.queue, i)
            x == [Put(m, s, c, w) EXCEPT !.active = a]
            n == Started(m, i)
<1>1. m.queue \in Seq(Scenarios) /\ m.scenarios \in [Scenarios -> ScenarioRecords]
  BY DEF States
<1>2. s \in Scenarios /\ s \in Range(m.queue)
  BY <1>1 DEF Range
<1>3. m.scenarios[s].status \in Waiting /\ m.scenarios[s] \in ScenarioRecords
  BY <1>1, <1>2 DEF Lined, With
<1>4. /\ c \in ScenarioRecords /\ c.status = "running" /\ c.request = m.scenarios[s].request
      /\ a \in Actives /\ a.scenario = s /\ a.request = m.scenarios[s].request
  <2>1. m.scenarios[s].request \in Requests /\ m.scenarios[s].attempts + 1 \in Nat
    BY <1>3 DEF ScenarioRecords
  <2>2. c \in ScenarioRecords /\ c.status = "running" /\ c.request = m.scenarios[s].request
    BY <1>3, <2>1 DEF ScenarioRecords, Statuses
  <2>3. a \in Actives /\ a.scenario = s /\ a.request = m.scenarios[s].request
    BY <1>2, <2>1 DEF Actives
  <2>. QED BY <2>2, <2>3
<1>5. /\ w \in Seq(Scenarios) /\ Range(w) = Range(m.queue) \ {s} /\ IsInjective(w)
  BY <1>1, WithoutFacts DEF Lined
<1>6. n = QueueProjection(x)
  <2>. DEFINE z == [m EXCEPT !.scenarios[s].status = "running",
                             !.scenarios[s].attempts = @ + 1,
                             !.queue = w, !.active = a]
  <2>1. n = QueueProjection(z)
    BY DEF Started
  <2>4. z = x
    <3>. HIDE DEF s, a, w
    <3>1. m.scenarios \in [Scenarios -> ScenarioRecords] /\ s \in Scenarios
      BY <1>1, <1>2
    <3>2. [m.scenarios EXCEPT ![s].status = "running", ![s].attempts = @ + 1]
            = [m.scenarios EXCEPT ![s] = c]
      BY <3>1 DEF ScenarioRecords
    <3>. QED BY <3>2 DEF Put, States
  <2>. HIDE DEF z, x, n
  <2>. QED BY <2>1, <2>4
<1>. HIDE DEF s, a, c, w, n
<1>7. /\ x \in States
      /\ x.accepted = m.accepted /\ x.rejected = m.rejected /\ x.active = a
      /\ x.projection = m.projection /\ x.queue = w /\ x.scenarios[s] = c
      /\ \A u \in Scenarios \ {s} : x.scenarios[u] = m.scenarios[u]
  <2>. DEFINE y == Put(m, s, c, w)
  <2>1. /\ y \in States /\ y.accepted = m.accepted /\ y.rejected = m.rejected
        /\ y.projection = m.projection /\ y.queue = w /\ y.scenarios[s] = c
    BY <1>2, <1>4, <1>5, PutFacts
  <2>2. \A u \in Scenarios \ {s} : y.scenarios[u] = m.scenarios[u]
    BY <1>2, <1>4, <1>5, PutFacts
  <2>. HIDE DEF y
  <2>3. /\ [y EXCEPT !.active = a] \in States
        /\ [y EXCEPT !.active = a].active = a
        /\ \A g \in {"accepted", "rejected", "projection", "queue", "scenarios"} :
             [y EXCEPT !.active = a][g] = y[g]
    BY <1>4, <2>1 DEF States
  <2>4. x = [y EXCEPT !.active = a]
    BY DEF y
  <2>. HIDE DEF x
  <2>. QED BY <2>1, <2>2, <2>3, <2>4
<1>. HIDE DEF x
<1>8. /\ n \in States /\ n.accepted = x.accepted /\ n.rejected = x.rejected /\ n.queue = x.queue
      /\ n.active = x.active /\ n.scenarios = x.scenarios /\ Projectable(n.projection)
      /\ IF x.projection.status = "running"
           THEN n.projection.status = "running" /\ n.projection.attempts = x.projection.attempts
           ELSE n.projection.status = "queued" /\ n.projection.attempts = 0
  BY <1>6, <1>7, QueueProjectionFacts
<1>9. n.scenarios[s] = c /\ \A u \in Scenarios \ {s} : n.scenarios[u] = m.scenarios[u]
  BY <1>7, <1>8
<1>10. /\ With(n, Waiting) = With(m, Waiting) \ {s}
       /\ With(n, {"running"}) = With(m, {"running"}) \cup {s}
       /\ With(n, {"complete"}) = With(m, {"complete"}) /\ s \notin With(m, {"complete"})
       /\ Known(n) = Known(m)
  <2>1. With(n, Waiting) = With(m, Waiting) \ {s}
    BY <1>2, <1>4, <1>9 DEF With, Waiting
  <2>2. With(n, {"running"}) = With(m, {"running"}) \cup {s}
    BY <1>2, <1>4, <1>9 DEF With
  <2>3. With(n, {"complete"}) = With(m, {"complete"}) /\ s \notin With(m, {"complete"})
    BY <1>2, <1>3, <1>4, <1>9 DEF With, Waiting
  <2>4. Known(n) = Known(m)
    BY <1>2, <1>3, <1>4, <1>9 DEF With, Waiting, Known, Statuses
  <2>. QED BY <2>1, <2>2, <2>3, <2>4
<1>11. Lined(n)
  BY <1>5, <1>7, <1>8, <1>10 DEF Lined
<1>12. Sound(m) => Sound(n)
  <2>. SUFFICES ASSUME Sound(m) PROVE Sound(n)
    OBVIOUS
  <2>1. Agree(m) /\ WithinLimits(m)
    BY SoundParts
  <2>2. With(m, {"running"}) = {} /\ None \notin Scenarios
    BY <2>1, WorkerAssumption DEF Agree, NoActive
  <2>3. With(n, {"running"}) = {s} /\ {s} = {a.scenario} \ {None}
    BY <1>2, <1>4, <1>10, <2>2
  <2>4. \A u \in With(m, {"complete"}) : n.scenarios[u] = m.scenarios[u]
    BY <1>9, <1>10 DEF With
  <2>5. IsInjective(n.accepted) /\ IsInjective(n.queue) /\ Range(n.queue) = With(n, Waiting)
    BY <1>5, <1>7, <1>8, <1>10, <2>1 DEF Agree
  <2>6. \A u \in With(n, {"running"}) : n.scenarios[u].request = n.active.request
    BY <1>4, <1>7, <1>8, <1>9, <2>3
  <2>7. \A u \in With(n, {"complete"}) : n.scenarios[u].publication = n.scenarios[u].request
    BY <1>10, <2>1, <2>4 DEF Agree
  <2>8. With(n, {"running"}) = {n.active.scenario} \ {None}
    BY <1>7, <1>8, <2>3
  <2>9. Agree(n)
    BY <2>5, <2>6, <2>7, <2>8 DEF Agree
  <2>10. WithinLimits(n)
    BY <1>7, <1>8, <1>10, <2>1 DEF WithinLimits
  <2>. QED BY <1>8, <2>9, <2>10, SoundParts
<1>13. /\ s \in Scenarios /\ m.scenarios[s].status \in Waiting
       /\ n \in States /\ Lined(n)
       /\ Sound(m) => Sound(n)
       /\ n.active = a
       /\ n.accepted = m.accepted /\ n.rejected = m.rejected
       /\ n.scenarios[s] = c
       /\ \A u \in Scenarios \ {s} : n.scenarios[u] = m.scenarios[u]
       /\ IF m.projection.status = "running"
            THEN n.projection.status = "running" /\ n.projection.attempts = m.projection.attempts
            ELSE n.projection.status = "queued" /\ n.projection.attempts = 0
  BY <1>2, <1>3, <1>7, <1>8, <1>9, <1>11, <1>12
<1>. QED BY <1>13 DEF s, a, c, n

LEMMA StartTelemetrySafe ==
  ASSUME IInv, NEW i \in DOMAIN mem.queue, StartTelemetry(i) PROVE IInv'
<1>. DEFINE s == mem.queue[i]
            n == Started(mem, i)
<1>1. /\ turn = "telemetry" /\ runner = NoActive /\ mem.active = NoActive
      /\ \/ Saved(n) /\ runner' = mem'.active
         \/ Unsaved(n) /\ runner' = NoActive
      /\ Outdate /\ turn' = "projection"
      /\ UNCHANGED <<up, drain, inbox, report, dropped, deliveries>>
  BY DEF StartTelemetry, Free
<1>2. /\ mem \in States /\ Attempts(mem, faults) /\ faults \in Nat
      /\ project \in {"none", "latest", "outdated"} /\ Lined(mem) /\ None \notin Scenarios
      /\ i \in 1..Len(mem.queue) /\ CountedBy(mem, None, project = "none", faults)
  <2>1. mem \in States /\ Attempts(mem, faults) /\ faults \in Nat
    BY StateFacts, LimitFacts DEF IInv, TypeOK
  <2>2. mem.queue \in Seq(Scenarios)
    BY <2>1 DEF States
  <2>3. i \in 1..Len(mem.queue)
    BY <2>2
  <2>4. runner.scenario = None
    BY <1>1 DEF NoActive
  <2>. QED BY <2>1, <2>3, <2>4, WorkerAssumption DEF IInv, TypeOK, Counted
<1>3. /\ s \in Scenarios /\ mem.scenarios[s].status \in Waiting
      /\ n \in States /\ Lined(n) /\ (Sound(mem) => Sound(n))
      /\ n.active = [scenario |-> s, request |-> mem.scenarios[s].request]
      /\ n.accepted = mem.accepted /\ n.rejected = mem.rejected
      /\ n.scenarios[s] = [mem.scenarios[s] EXCEPT !.status = "running",
                                                 !.attempts = mem.scenarios[s].attempts + 1]
      /\ \A u \in Scenarios \ {s} : n.scenarios[u] = mem.scenarios[u]
      /\ IF mem.projection.status = "running"
           THEN n.projection.status = "running" /\ n.projection.attempts = mem.projection.attempts
           ELSE n.projection.status = "queued" /\ n.projection.attempts = 0
  BY <1>1, <1>2, StartedFacts
<1>. HIDE DEF s, n
<1>4. /\ mem.scenarios[s] \in ScenarioRecords
      /\ n.scenarios[s].status = "running" /\ n.scenarios[s].request = mem.scenarios[s].request
      /\ n.scenarios[s].attempts = mem.scenarios[s].attempts + 1
      /\ n.scenarios[s].pending = mem.scenarios[s].pending
      /\ n.scenarios[s].event = mem.scenarios[s].event
      /\ n.scenarios[s].publication = mem.scenarios[s].publication
  <2>1. mem.scenarios[s] \in ScenarioRecords
    BY <1>2, <1>3 DEF States
  <2>. QED BY <1>3, <2>1 DEF ScenarioRecords
<1>5. up /\ drain.at = "idle" /\ up' = up /\ dropped' = dropped
  BY <1>1 DEF IInv, Underway, Drained
<1>6. project' \in {"none", "latest", "outdated"} /\ (project' = "none" <=> project = "none")
  BY <1>1, <1>2 DEF Outdate
<1>7. Attempts(n, faults)
  <2>1. mem.scenarios[s].attempts + 1 <= MaxAttempts + faults
    BY <1>2, <1>3, <1>4, LimitFacts, SMTT(30) DEF CountedBy, ScenarioRecords
  <2>2. n.projection.attempts <= MaxProjections + faults
    BY <1>2, <1>3, LimitFacts DEF Attempts
  <2>. QED BY <1>2, <1>3, <1>4, <2>1, <2>2 DEF Attempts
<1>8. Saved(n) => CountedBy(n, runner'.scenario, project' = "none", faults)
  <2>. SUFFICES ASSUME Saved(n) PROVE CountedBy(n, runner'.scenario, project' = "none", faults)
    OBVIOUS
  <2>1. runner' = n.active \/ Unsaved(n)
    BY <1>1 DEF Saved
  <2>2. ~Unsaved(n)
    <3>1. faults' = faults
      BY DEF Saved
    <3>. QED BY <1>2, <3>1 DEF Unsaved
  <2>3. runner'.scenario = s
    BY <1>3, <2>1, <2>2
  <2>4. \A u \in Scenarios \ {s} : n.scenarios[u].status \in Waiting \cup {"running"} =>
                                     n.scenarios[u].attempts < MaxAttempts + faults
    BY <1>2, <1>3 DEF CountedBy
  <2>5. n.projection.status \in Waiting \cup {"running"} /\ project' = "none" =>
          n.projection.attempts < MaxProjections + faults
    BY <1>2, <1>3, <1>6, LimitFacts DEF CountedBy
  <2>. QED BY <2>3, <2>4, <2>5 DEF CountedBy
<1>9. /\ mem' = n /\ disk' \in {disk, n}
      /\ StateTypeOK(mem)' /\ StateTypeOK(disk)'
      /\ Lined(mem)' /\ Lined(disk)' /\ Counted(mem)' /\ Counted(disk)'
      /\ Recalled' /\ Kepts'
      /\ fatal' \in BOOLEAN /\ remembered' \in SUBSET Events /\ faults' \in 0..MaxFaults
  <2>1. (dropped \/ Sound(n)) /\ (Saved(n) \/ Unsaved(n))
    BY <1>1, <1>3 DEF IInv, Kepts
  <2>. QED BY <1>3, <1>5, <1>7, <1>8, <2>1, WriteFacts
<1>10. TypeOK'
  <2>1. runner' \in Actives
    BY <1>1, <1>3, <1>9 DEF Actives, States
  <2>. QED BY <1>1, <1>6, <1>9, <2>1 DEF IInv, TypeOK
<1>11. Underway'
  <2>1. project' # "none" => mem'.projection.status = "running"
    BY <1>3, <1>6, <1>9 DEF IInv, Underway
  <2>2. ASSUME runner' # NoActive
        PROVE  LET c == mem'.scenarios[runner'.scenario] IN
               /\ mem'.active = runner' /\ disk'.active = runner'
               /\ c.status = "running" /\ c.request = runner'.request
               /\ disk'.scenarios[runner'.scenario].pending # None => c.pending # None
    <3>1. runner' = n.active /\ mem' = n /\ disk' = n
      BY <1>1, <2>2 DEF Saved
    <3>2. runner'.scenario = s /\ runner'.request = mem.scenarios[s].request
      BY <1>3, <3>1
    <3>3. n.scenarios[s].status = "running" /\ n.scenarios[s].request = runner'.request
      BY <1>4, <3>2
    <3>. QED BY <3>1, <3>2, <3>3
  <2>. QED BY <1>5, <2>1, <2>2 DEF Underway
<1>12. Drained'
  BY <1>1, <1>5 DEF IInv, Drained
<1>13. HandledSaved'
  <2>1. CASE Saved(n)
    BY <2>1 DEF Saved, HandledSaved, Handled
  <2>2. CASE Unsaved(n)
    BY <1>1, <1>5, <2>2 DEF Unsaved, HandledSaved
  <2>. QED BY <1>1, <2>1, <2>2
<1>. QED BY <1>9, <1>10, <1>11, <1>12, <1>13 DEF IInv

\* The scenario is out of the queue, and that is all.
LEMMA StartBrokenSafe ==
  ASSUME IInv, NEW i \in DOMAIN mem.queue, StartBroken(i) PROVE IInv'
<1>. DEFINE w == Without(mem.queue, i)
<1>1. /\ turn = "telemetry" /\ Free /\ faults < MaxFaults /\ faults' = faults + 1
      /\ mem' = [mem EXCEPT !.queue = w]
      /\ fatal' = TRUE /\ dropped' = TRUE /\ turn' = "projection"
      /\ UNCHANGED <<up, disk, drain, runner, project, inbox, report, remembered, deliveries>>
  BY DEF StartBroken
<1>2. /\ mem \in States /\ Attempts(mem, faults) /\ disk \in States /\ Attempts(disk, faults)
      /\ faults \in Nat /\ faults' \in 0..MaxFaults
  BY <1>1, StateFacts, LimitFacts DEF IInv, TypeOK
<1>3. mem.queue \in Seq(Scenarios) /\ i \in 1..Len(mem.queue)
  BY <1>2 DEF States
<1>4. w \in Seq(Scenarios) /\ Range(w) \subseteq Range(mem.queue) /\ IsInjective(w)
  BY <1>3, WithoutFacts DEF IInv, Lined
<1>. HIDE DEF w
<1>5. /\ mem' \in States /\ mem'.queue = w
      /\ mem'.accepted = mem.accepted /\ mem'.rejected = mem.rejected
      /\ mem'.active = mem.active /\ mem'.projection = mem.projection
      /\ mem'.scenarios = mem.scenarios
  BY <1>1, <1>2, <1>4 DEF States
<1>6. drain.at = "idle" /\ up
  BY <1>1 DEF IInv, Underway, Drained
<1>7. /\ Attempts(mem, faults') /\ Attempts(disk, faults')
      /\ \A s, idle : CountedBy(mem, s, idle, faults') /\ CountedBy(disk, s, idle, faults')
  BY <1>1, <1>2, FaultFacts
<1>8. StateTypeOK(mem)' /\ StateTypeOK(disk)'
  BY <1>1, <1>2, <1>5, <1>7 DEF StateTypeOK, Attempts
<1>9. TypeOK'
  BY <1>1, <1>2, <1>8 DEF IInv, TypeOK
<1>10. Lined(mem)' /\ Lined(disk)'
  BY <1>1, <1>4, <1>5 DEF IInv, Lined, With
<1>11. /\ CountedBy(mem, runner'.scenario, project' = "none", faults')
       /\ CountedBy(disk, runner'.scenario, project' = "none", faults')
  BY <1>7
<1>12. Counted(mem)' /\ Counted(disk)'
  BY <1>1, <1>5, <1>11 DEF Counted, CountedBy
<1>13. Underway' /\ Recalled'
  BY <1>1, <1>5, <1>6 DEF IInv, Underway, Recalled
<1>14. Drained' /\ HandledSaved' /\ Kepts'
  BY <1>1, <1>6 DEF IInv, Drained, HandledSaved, Kepts
<1>. QED BY <1>9, <1>10, <1>12, <1>13, <1>14 DEF IInv

\* Only the projection is changed.
LEMMA ProjectionFacts ==
  ASSUME NEW m \in States, NEW p \in Projections
  PROVE  LET n == [m EXCEPT !.projection = p] IN
         /\ n \in States /\ n.projection = p
         /\ n.accepted = m.accepted /\ n.rejected = m.rejected /\ n.active = m.active
         /\ n.scenarios = m.scenarios
         /\ Lined(m) => Lined(n)
         /\ Sound(m) /\ Projectable(p) => Sound(n)
         /\ \A e : Handled(n, e) <=> Handled(m, e)
<1>. DEFINE n == [m EXCEPT !.projection = p]
<1>1. /\ n \in States /\ n.projection = p
      /\ n.accepted = m.accepted /\ n.rejected = m.rejected /\ n.active = m.active
      /\ n.scenarios = m.scenarios /\ n.queue = m.queue /\ n.selected = m.selected
  BY DEF States
<1>. HIDE DEF n
<1>2. /\ Lined(m) => Lined(n)
      /\ Agree(m) /\ IsInjective(n.accepted) => Agree(n)
      /\ Known(n) = Known(m)
  BY <1>1, SameFacts
<1>3. ASSUME Sound(m), Projectable(p) PROVE Sound(n)
  <2>1. Agree(m) /\ WithinLimits(m)
    BY <1>3, SoundParts
  <2>2. Agree(n)
    BY <1>1, <1>2, <2>1 DEF Agree
  <2>3. WithinLimits(n)
    BY <1>1, <1>2, <2>1 DEF WithinLimits
  <2>. QED BY <1>1, <1>3, <2>2, <2>3, SoundParts
<1>4. \A e : Handled(n, e) <=> Handled(m, e)
  BY <1>1 DEF Handled
<1>. QED BY <1>1, <1>2, <1>3, <1>4 DEF n

LEMMA ProjectionWrites ==
  ASSUME IInv, up, turn' \in {"free", turn}, NEW p \in Projections,
         p.attempts <= MaxProjections + faults,
         Sound(mem) => Projectable(p),
         LET n == [mem EXCEPT !.projection = p] IN
           \/ /\ Saved(n)
              /\ project' # "none" => p.status = "running"
              /\ p.status \in Waiting \cup {"running"} /\ project' = "none" =>
                   p.attempts < MaxProjections + faults
           \/ Unsaved(n) /\ project' = "none",
         project' \in {"none", "latest", "outdated"},
         drain.at = "idle" \/ turn = "free",
         UNCHANGED <<up, drain, runner, inbox, report, dropped, deliveries>>
  PROVE  IInv'
<1>. DEFINE n == [mem EXCEPT !.projection = p]
<1>1. /\ mem \in States /\ Attempts(mem, faults) /\ faults \in Nat
      /\ CountedBy(mem, runner.scenario, project = "none", faults)
  BY StateFacts, LimitFacts DEF IInv, TypeOK, Counted
<1>2. /\ n \in States /\ n.projection = p
      /\ n.accepted = mem.accepted /\ n.rejected = mem.rejected /\ n.active = mem.active
      /\ n.scenarios = mem.scenarios
      /\ Lined(n)
      /\ Sound(mem) => Sound(n)
      /\ \A e : Handled(n, e) <=> Handled(mem, e)
  BY <1>1, ProjectionFacts DEF IInv
<1>3. /\ \/ /\ Saved(n)
            /\ project' # "none" => p.status = "running"
            /\ p.status \in Waiting \cup {"running"} /\ project' = "none" =>
                 p.attempts < MaxProjections + faults
         \/ Unsaved(n) /\ project' = "none"
  OBVIOUS
<1>. HIDE DEF n
<1>4. Attempts(n, faults)
  BY <1>1, <1>2 DEF Attempts
<1>5. Saved(n) => CountedBy(n, runner'.scenario, project' = "none", faults)
  <2>1. ~(Saved(n) /\ Unsaved(n))
    BY <1>1 DEF Saved, Unsaved
  <2>. QED BY <1>1, <1>2, <1>3, <2>1 DEF CountedBy
<1>6. /\ mem' = n /\ disk' \in {disk, n}
      /\ StateTypeOK(mem)' /\ StateTypeOK(disk)'
      /\ Lined(mem)' /\ Lined(disk)' /\ Counted(mem)' /\ Counted(disk)'
      /\ Recalled' /\ Kepts'
      /\ fatal' \in BOOLEAN /\ remembered' \in SUBSET Events /\ faults' \in 0..MaxFaults
  <2>1. (dropped \/ Sound(n)) /\ (Saved(n) \/ Unsaved(n))
    BY <1>2, <1>3 DEF IInv, Kepts
  <2>. QED BY <1>2, <1>4, <1>5, <2>1, WriteFacts
<1>7. TypeOK'
  BY <1>6 DEF IInv, TypeOK
<1>8. Underway'
  <2>1. project' # "none" => mem'.projection.status = "running"
    <3>1. project' # "none" => p.status = "running"
      BY <1>3
    <3>. QED BY <1>2, <1>6, <3>1
  <2>2. ASSUME runner # NoActive
        PROVE  LET c == mem'.scenarios[runner.scenario] IN
               /\ mem'.active = runner /\ disk'.active = runner
               /\ c.status = "running" /\ c.request = runner.request
               /\ disk'.scenarios[runner.scenario].pending # None => c.pending # None
    BY <1>2, <1>6, <2>2 DEF IInv, Underway
  <2>. QED BY <2>1, <2>2 DEF Underway
<1>9. Drained'
  <2>1. \A e : Handled(mem', e) <=> Handled(mem, e)
    BY <1>2, <1>6
  <2>2. mem'.accepted = mem.accepted
    BY <1>2, <1>6
  <2>3. drain'.at # "idle" => turn' = "free"
    BY DEF IInv, Drained
  <2>. QED BY <2>1, <2>2, <2>3 DEF IInv, Drained
<1>10. HandledSaved'
  <2>1. ASSUME Saved(n) PROVE HandledSaved'
    BY <2>1 DEF Saved, HandledSaved, Handled
  <2>2. ASSUME Unsaved(n), disk' = disk PROVE HandledSaved'
    <3>1. fatal' = TRUE /\ mem' = n
      BY <2>2 DEF Unsaved
    <3>2. \A e : Handled(mem', e) <=> Handled(mem, e)
      BY <1>2, <3>1
    <3>3. up /\ drain.at # "idle" => \A e \in Events : Handled(mem, e) => Handled(disk, e)
      BY DEF IInv, HandledSaved
    <3>. QED BY <2>2, <3>1, <3>2, <3>3 DEF HandledSaved
  <2>3. ASSUME Unsaved(n), disk' = n PROVE HandledSaved'
    BY <2>3 DEF Unsaved, HandledSaved
  <2>. QED BY <1>3, <1>6, <2>1, <2>2, <2>3
<1>. QED BY <1>6, <1>7, <1>8, <1>9, <1>10 DEF IInv

LEMMA StartProjectionSafe ==
  ASSUME IInv, StartProjection PROVE IInv'
<1>. DEFINE p == [mem.projection EXCEPT !.status = "running", !.attempts = mem.projection.attempts + 1]
<1>1. /\ mem \in States /\ faults \in Nat /\ mem.projection \in Projections
      /\ CountedBy(mem, runner.scenario, project = "none", faults)
  BY LimitFacts DEF IInv, TypeOK, StateTypeOK, Counted, States
<1>2. /\ turn = "projection" /\ project = "none" /\ mem.projection.status \in Waiting
      /\ turn' = "free"
      /\ UNCHANGED <<up, drain, runner, inbox, report, dropped, deliveries>>
  BY DEF StartProjection
<1>3. /\ p \in Projections /\ p.status = "running" /\ p.behind = mem.projection.behind
      /\ p.attempts = mem.projection.attempts + 1
  <2>1. mem.projection.attempts + 1 \in Nat
    BY <1>1 DEF Projections
  <2>. QED BY <1>1, <2>1 DEF Projections, Statuses
<1>4. p.attempts <= MaxProjections + faults
  BY <1>1, <1>2, <1>3, LimitFacts DEF CountedBy, Projections
<1>5. Sound(mem) => Projectable(p)
  BY <1>2, <1>3, SoundParts DEF Projectable, Waiting
<1>6. LET n == [mem EXCEPT !.projection = p] IN
      \/ Saved(n) /\ project' = "latest"
      \/ Unsaved(n) /\ project' = "none"
  <2>1. [mem EXCEPT !.projection.status = "running", !.projection.attempts = @ + 1]
          = [mem EXCEPT !.projection = p]
    BY <1>1 DEF States, Projections
  <2>. QED BY <2>1 DEF StartProjection
<1>7. up /\ drain.at = "idle"
  BY <1>2 DEF IInv, Underway, Drained
<1>. HIDE DEF p
<1>. QED BY <1>2, <1>3, <1>4, <1>5, <1>6, <1>7, ProjectionWrites

LEMMA EndProjectionSafe ==
  ASSUME IInv, NEW ok \in BOOLEAN, EndProjection(ok) PROVE IInv'
<1>. DEFINE p == Projected(ok)
<1>1. /\ mem.projection \in Projections /\ faults \in Nat
      /\ project \in {"latest", "outdated"} /\ mem.projection.status = "running"
      /\ mem.projection.attempts <= MaxProjections + faults
  BY StateFacts, LimitFacts DEF IInv, TypeOK, States, EndProjection, Underway, Attempts
<1>2. /\ turn = "free" /\ project' = "none"
      /\ UNCHANGED <<up, turn, drain, runner, inbox, report, dropped, deliveries>>
      /\ Saved([mem EXCEPT !.projection = p]) \/ Unsaved([mem EXCEPT !.projection = p])
  BY DEF EndProjection
<1>3. /\ p \in Projections
      /\ p.attempts <= MaxProjections + faults
      /\ p.status \in Waiting => p.attempts < MaxProjections + faults
      /\ p.status # "running"
      /\ mem.projection.behind => Projectable(p)
  <2>. DEFINE r == mem.projection
  <2>1. \/ p = [r EXCEPT !.status = "queued", !.attempts = 0]
        \/ p = [r EXCEPT !.status = "complete", !.behind = FALSE]
        \/ p = [r EXCEPT !.status = "failed"]
        \/ p = [r EXCEPT !.status = "retrying"] /\ ~(r.attempts >= MaxProjections)
    BY <1>1 DEF Projected
  <2>2. /\ r.attempts \in Nat /\ r.attempts <= MaxProjections + faults
        /\ MaxProjections \in Nat \ {0} /\ faults \in Nat
        /\ r \in [status : (Statuses \ {"absent"}) \cup {"idle"}, behind : BOOLEAN, attempts : Nat]
    BY <1>1, LimitFacts DEF Projections
  <2>. HIDE DEF p, r
  <2>. DEFINE Fine ==
         /\ p \in [status : (Statuses \ {"absent"}) \cup {"idle"}, behind : BOOLEAN, attempts : Nat]
         /\ p.attempts <= MaxProjections + faults
         /\ p.status \in Waiting => p.attempts < MaxProjections + faults
  <2>3. ASSUME p = [r EXCEPT !.status = "queued", !.attempts = 0] PROVE Fine
    <3>1. /\ p.attempts = 0
          /\ p \in [status : (Statuses \ {"absent"}) \cup {"idle"}, behind : BOOLEAN, attempts : Nat]
      BY <2>2, <2>3 DEF Statuses
    <3>2. 0 < MaxProjections + faults /\ 0 <= MaxProjections + faults
      BY <2>2
    <3>3. p.attempts <= MaxProjections + faults /\ p.attempts < MaxProjections + faults
      BY <3>1, <3>2
    <3>. QED BY <3>1, <3>3
  <2>4. ASSUME p = [r EXCEPT !.status = "complete", !.behind = FALSE] PROVE Fine
    BY <2>2, <2>4 DEF Statuses, Waiting
  <2>6. ASSUME p = [r EXCEPT !.status = "failed"] PROVE Fine
    BY <2>2, <2>6 DEF Statuses, Waiting
  <2>7. ASSUME p = [r EXCEPT !.status = "retrying"] /\ ~(r.attempts >= MaxProjections)
        PROVE  Fine
    <3>1. r.attempts < MaxProjections + faults
      BY <2>2, <2>7
    <3>. QED BY <2>2, <2>7, <3>1 DEF Statuses
  <2>5. p.status # "running" /\ (r.behind => Projectable(p))
    BY <2>1, <2>2 DEF Waiting, Projectable
  <2>. QED BY <2>1, <2>3, <2>4, <2>5, <2>6, <2>7 DEF r, Projections
<1>4. Sound(mem) => Projectable(p)
  BY <1>1, <1>3, SoundParts DEF Projectable
<1>5. up
  BY <1>1 DEF IInv, Underway
<1>. HIDE DEF p
<1>. QED BY <1>2, <1>3, <1>4, <1>5, ProjectionWrites

-----------------------------------------------------------------------------
\* The end of a run, or of one that a restart finds

\* The scenario that ran either waits again, in the queue, or is settled.
Settled(c, d, p, q) ==
  /\ d \in ScenarioRecords
  /\ \/ d.status \in Waiting /\ q = Queued(p, c)
     \/ d.status \in {"complete", "failed"} /\ q = p
  /\ d.status = "complete" => d.publication = d.request

\* No request becomes known by it.
NoneNew(c, d) == {d.event, d.request, d.pending, d.publication}
                   \subseteq {c.event, c.request, c.pending, c.publication, None}

LEMMA SettledFacts ==
  ASSUME NEW m \in States, NEW s \in Scenarios, NEW d, NEW q, Lined(m),
         m.scenarios[s].status = "running", Settled(s, d, m.queue, q)
  PROVE  LET n == [Put(m, s, d, q) EXCEPT !.active = NoActive] IN
         /\ n \in States /\ Lined(n)
         /\ m.active.scenario = s /\ Agree(m) => Agree(n)
         /\ Known(n) = Known(m)
         /\ n.active = NoActive
         /\ n.accepted = m.accepted /\ n.rejected = m.rejected /\ n.projection = m.projection
         /\ n.scenarios[s] = d
         /\ \A u \in Scenarios \ {s} : n.scenarios[u] = m.scenarios[u]
<1>. DEFINE y == Put(m, s, d, q)
            n == [y EXCEPT !.active = NoActive]
<1>1. m.queue \in Seq(Scenarios) /\ d \in ScenarioRecords
  BY DEF States, Settled
<1>2. /\ q \in Seq(Scenarios) /\ IsInjective(q)
      /\ Range(q) = IF d.status \in Waiting THEN Range(m.queue) \cup {s} ELSE Range(m.queue)
      /\ d.status \in Waiting \cup {"complete", "failed"}
  <2>1. /\ Queued(m.queue, s) \in Seq(Scenarios) /\ IsInjective(Queued(m.queue, s))
        /\ Range(Queued(m.queue, s)) = Range(m.queue) \cup {s}
    BY <1>1, QueuedFacts DEF Lined
  <2>. QED BY <1>1, <2>1 DEF Settled, Lined, Waiting
<1>3. /\ y \in States /\ y.accepted = m.accepted /\ y.rejected = m.rejected
      /\ y.projection = m.projection /\ y.queue = q /\ y.scenarios[s] = d
  BY <1>1, <1>2, PutFacts
<1>4. \A u \in Scenarios \ {s} : y.scenarios[u] = m.scenarios[u]
  BY <1>1, <1>2, PutFacts
<1>. HIDE DEF y
<1>5. /\ n \in States /\ n.active = NoActive
      /\ n.accepted = y.accepted /\ n.rejected = y.rejected /\ n.projection = y.projection
      /\ n.queue = y.queue /\ n.scenarios = y.scenarios
  BY <1>3 DEF States, Actives
<1>. HIDE DEF n
<1>6. n.scenarios[s] = d /\ \A u \in Scenarios \ {s} : n.scenarios[u] = m.scenarios[u]
  BY <1>3, <1>4, <1>5
<1>7. s \notin With(m, Waiting) /\ s \notin With(m, {"complete"})
  BY DEF With, Waiting
<1>8. With(n, Waiting) = IF d.status \in Waiting THEN With(m, Waiting) \cup {s} ELSE With(m, Waiting)
  BY <1>6, <1>7 DEF With
<1>9. With(n, {"running"}) = With(m, {"running"}) \ {s}
  BY <1>2, <1>6 DEF With, Waiting
<1>10. With(n, {"complete"}) \ {s} = With(m, {"complete"})
  BY <1>6, <1>7 DEF With
<1>11. Known(n) = Known(m)
  BY <1>2, <1>6 DEF Known, With, Waiting, Statuses
<1>12. Lined(n)
  BY <1>2, <1>3, <1>5, <1>8 DEF Lined
<1>13. ASSUME m.active.scenario = s, Agree(m) PROVE Agree(n)
  <2>1. With(n, {"running"}) = {} /\ {NoActive.scenario} \ {None} = {}
    BY <1>9, <1>13 DEF Agree, NoActive
  <2>2. Range(n.queue) = With(n, Waiting) /\ IsInjective(n.queue) /\ IsInjective(n.accepted)
    BY <1>2, <1>3, <1>5, <1>8, <1>13 DEF Agree
  <2>3. ASSUME NEW u \in With(n, {"complete"}) PROVE n.scenarios[u].publication = n.scenarios[u].request
    <3>1. CASE u = s
      <4>1. n.scenarios[s].status = "complete"
        BY <2>3, <3>1 DEF With
      <4>. QED BY <1>6, <3>1, <4>1 DEF Settled
    <3>2. CASE u # s
      <4>1. u \in With(m, {"complete"}) /\ u \in Scenarios
        BY <1>10, <2>3, <3>2 DEF With
      <4>. QED BY <1>6, <1>13, <3>2, <4>1 DEF Agree
    <3>. QED BY <3>1, <3>2
  <2>. QED BY <1>5, <2>1, <2>2, <2>3 DEF Agree
<1>14. /\ n \in States /\ Lined(n)
       /\ m.active.scenario = s /\ Agree(m) => Agree(n)
       /\ Known(n) = Known(m)
       /\ n.active = NoActive
       /\ n.accepted = m.accepted /\ n.rejected = m.rejected /\ n.projection = m.projection
       /\ n.scenarios[s] = d
       /\ \A u \in Scenarios \ {s} : n.scenarios[u] = m.scenarios[u]
  BY <1>3, <1>5, <1>6, <1>11, <1>12, <1>13
<1>. QED BY <1>14 DEF n, y

LEMMA EndRunSafe ==
  ASSUME IInv, NEW x, NEW reports, EndRun(x, reports), runner # NoActive,
         reports \in {{report}, {Published}, {report, Published}},
         NEW d, NEW q,
         [x EXCEPT !.active = NoActive] = [Put(mem, runner.scenario, d, q) EXCEPT !.active = NoActive],
         Settled(runner.scenario, d, mem.queue, q),
         NoneNew(mem.scenarios[runner.scenario], d),
         d.attempts <= MaxAttempts + faults,
         d.status \in Waiting => d.attempts < MaxAttempts + faults
  PROVE  IInv'
<1>. DEFINE s == runner.scenario
            i == [x EXCEPT !.active = NoActive]
            n == QueueProjection(i)
<1>1. /\ turn = "free" /\ report' \in reports /\ (Saved(n) \/ Unsaved(n))
      /\ runner' = NoActive /\ Outdate
      /\ UNCHANGED <<up, turn, drain, inbox, dropped, deliveries>>
  BY DEF EndRun
<1>2. /\ mem \in States /\ Attempts(mem, faults) /\ faults \in Nat /\ Lined(mem)
      /\ project \in {"none", "latest", "outdated"} /\ None \notin Scenarios
      /\ CountedBy(mem, s, project = "none", faults)
  BY StateFacts, LimitFacts, WorkerAssumption DEF IInv, TypeOK, Counted
<1>3. /\ up /\ s \in Scenarios /\ mem.active = runner /\ mem.scenarios[s].status = "running"
  BY DEF IInv, Underway, TypeOK, Actives
<1>4. i = [Put(mem, s, d, q) EXCEPT !.active = NoActive]
  OBVIOUS
<1>. HIDE DEF s, i
<1>5. /\ i \in States /\ Lined(i)
      /\ Agree(mem) => Agree(i)
      /\ Known(i) = Known(mem)
      /\ i.active = NoActive
      /\ i.accepted = mem.accepted /\ i.rejected = mem.rejected /\ i.projection = mem.projection
      /\ i.scenarios[s] = d
      /\ \A u \in Scenarios \ {s} : i.scenarios[u] = mem.scenarios[u]
  <2>1. mem.active.scenario = s
    BY <1>3 DEF s
  <2>. QED BY <1>2, <1>3, <1>4, <2>1, SettledFacts DEF s
<1>6. /\ n \in States /\ n.accepted = i.accepted /\ n.rejected = i.rejected /\ n.queue = i.queue
      /\ n.active = i.active /\ n.scenarios = i.scenarios /\ Projectable(n.projection)
      /\ IF i.projection.status = "running"
           THEN n.projection.status = "running" /\ n.projection.attempts = i.projection.attempts
           ELSE n.projection.status = "queued" /\ n.projection.attempts = 0
  BY <1>5, QueueProjectionFacts
<1>. HIDE DEF n
<1>7. /\ Lined(n) /\ Known(n) = Known(mem) /\ (Agree(i) /\ IsInjective(n.accepted) => Agree(n))
      /\ n.scenarios[s] = d /\ \A u \in Scenarios \ {s} : n.scenarios[u] = mem.scenarios[u]
  BY <1>5, <1>6, SameFacts
<1>8. Sound(mem) => Sound(n)
  <2>1. Sound(mem) => Agree(n)
    BY <1>5, <1>6, <1>7, SoundParts DEF Agree
  <2>2. Sound(mem) => WithinLimits(n)
    BY <1>5, <1>6, <1>7, SoundParts DEF WithinLimits
  <2>. QED BY <1>6, <2>1, <2>2, SoundParts
<1>9. project' \in {"none", "latest", "outdated"} /\ (project' = "none" <=> project = "none")
  BY <1>1, <1>2 DEF Outdate
<1>10. MaxProjections + faults \in Nat /\ 0 < MaxProjections + faults
  BY <1>2, LimitFacts
<1>11. Attempts(n, faults)
  BY <1>2, <1>5, <1>6, <1>7, <1>10 DEF Attempts
<1>12. CountedBy(n, runner'.scenario, project' = "none", faults)
  <2>1. runner'.scenario = None
    BY <1>1 DEF NoActive
  <2>2. ASSUME NEW u \in Scenarios, n.scenarios[u].status \in Waiting \cup {"running"}
        PROVE  n.scenarios[u].attempts < MaxAttempts + faults
    <3>1. CASE u = s
      BY <1>7, <2>2, <3>1 DEF Settled, Waiting
    <3>2. CASE u # s
      BY <1>2, <1>7, <2>2, <3>2 DEF CountedBy
    <3>. QED BY <3>1, <3>2
  <2>3. n.projection.status \in Waiting \cup {"running"} /\ project' = "none" =>
          n.projection.attempts < MaxProjections + faults
    BY <1>2, <1>5, <1>6, <1>9, <1>10 DEF CountedBy
  <2>. QED BY <2>1, <2>2, <2>3 DEF CountedBy
<1>13. /\ mem' = n /\ disk' \in {disk, n}
       /\ StateTypeOK(mem)' /\ StateTypeOK(disk)'
       /\ Lined(mem)' /\ Lined(disk)' /\ Counted(mem)' /\ Counted(disk)'
       /\ Recalled' /\ Kepts'
       /\ fatal' \in BOOLEAN /\ remembered' \in SUBSET Events /\ faults' \in 0..MaxFaults
  <2>1. (dropped \/ Sound(n)) /\ (Saved(n) \/ Unsaved(n)) /\ up' = up /\ dropped' = dropped
    BY <1>1, <1>8 DEF IInv, Kepts
  <2>. QED BY <1>3, <1>6, <1>7, <1>11, <1>12, <2>1, WriteFacts
<1>14. TypeOK'
  <2>1. report' \in [Scenarios -> Requests]
    <3>1. report \in [Scenarios -> Requests] /\ runner.request \in Requests
      BY DEF IInv, TypeOK, Actives
    <3>2. Published \in [Scenarios -> Requests]
      BY <3>1 DEF Published
    <3>. QED BY <1>1, <3>1, <3>2
  <2>. QED BY <1>1, <1>9, <1>13, <2>1 DEF IInv, TypeOK, Actives
<1>15. Underway'
  <2>1. project' # "none" => mem'.projection.status = "running"
    BY <1>5, <1>6, <1>9, <1>13 DEF IInv, Underway
  <2>. QED BY <1>1, <1>3, <2>1 DEF Underway
<1>16. ASSUME NEW e \in Events, Handled(n, e) PROVE Handled(mem, e)
  <2>1. CASE e \in Range(n.accepted) \cup Range(n.rejected)
    BY <1>5, <1>6, <2>1 DEF Handled
  <2>2. CASE \E u \in Scenarios :
               e \in {n.scenarios[u].event, n.scenarios[u].request, n.scenarios[u].pending,
                      n.scenarios[u].publication}
    <3>1. PICK u \in Scenarios :
            e \in {n.scenarios[u].event, n.scenarios[u].request, n.scenarios[u].pending,
                   n.scenarios[u].publication}
      BY <2>2
    <3>2. e # None
      BY WorkerAssumption
    <3>3. e \in {mem.scenarios[u].event, mem.scenarios[u].request, mem.scenarios[u].pending,
                 mem.scenarios[u].publication}
      BY <1>7, <3>1, <3>2 DEF NoneNew, s
    <3>. QED BY <3>3 DEF Handled
  <2>. QED BY <1>16, <2>1, <2>2 DEF Handled
<1>17. Drained'
  <2>1. \A e \in Events : Handled(mem', e) => Handled(mem, e)
    BY <1>13, <1>16
  <2>2. mem'.accepted = mem.accepted
    BY <1>5, <1>6, <1>13
  <2>3. drain.at = "validate" => drain.entry \in Events
    BY WorkerAssumption DEF IInv, Drained
  <2>. QED BY <1>1, <2>1, <2>2, <2>3 DEF IInv, Drained
<1>18. HandledSaved'
  <2>1. ASSUME Saved(n) PROVE HandledSaved'
    BY <2>1 DEF Saved, HandledSaved, Handled
  <2>2. ASSUME Unsaved(n), disk' = disk PROVE HandledSaved'
    <3>1. fatal' = TRUE /\ mem' = n
      BY <2>2 DEF Unsaved
    <3>2. \A e \in Events : Handled(mem', e) => Handled(mem, e)
      BY <1>16, <3>1
    <3>3. drain.at # "idle" => \A e \in Events : Handled(mem, e) => Handled(disk, e)
      BY <1>3 DEF IInv, HandledSaved
    <3>. QED BY <1>1, <2>2, <3>1, <3>2, <3>3 DEF HandledSaved
  <2>3. ASSUME Unsaved(n), disk' = n PROVE HandledSaved'
    BY <2>3 DEF Unsaved, HandledSaved
  <2>. QED BY <1>1, <1>13, <2>1, <2>2, <2>3
<1>. QED BY <1>13, <1>14, <1>15, <1>17, <1>18 DEF IInv

\* What each end makes of the scenario that ran.
LEMMA RunFacts ==
  ASSUME IInv, runner # NoActive
  PROVE  LET s == runner.scenario
             c == mem.scenarios[s]
         IN  /\ mem \in States /\ s \in Scenarios /\ c \in ScenarioRecords /\ c.status = "running"
             /\ c.request = runner.request /\ c.attempts <= MaxAttempts + faults
             /\ mem.scenarios \in [Scenarios -> ScenarioRecords]
             /\ faults \in Nat
<1>1. mem \in States /\ Attempts(mem, faults) /\ faults \in Nat
  BY StateFacts, LimitFacts DEF IInv, TypeOK
<1>2. runner.scenario \in Scenarios
  BY DEF IInv, TypeOK, Actives
<1>. QED BY <1>1, <1>2 DEF IInv, Underway, Attempts, States

LEMMA SupersedeSafe ==
  ASSUME IInv, Supersede PROVE IInv'
<1>. DEFINE s == runner.scenario
            c == mem.scenarios[s]
            d == [c EXCEPT !.status = "queued", !.request = c.pending, !.pending = None, !.attempts = 0]
            q == Queued(mem.queue, s)
            x == Requeued(mem, s)
<1>1. runner # NoActive /\ c.pending # None /\ EndRun(x, {report})
  BY DEF Supersede, Pending
<1>2. /\ mem \in States /\ s \in Scenarios /\ c \in ScenarioRecords /\ faults \in Nat
      /\ mem.scenarios \in [Scenarios -> ScenarioRecords]
  BY <1>1, RunFacts
<1>3. /\ d \in ScenarioRecords /\ d.status = "queued" /\ d.attempts = 0
      /\ d.event = c.event /\ d.request = c.pending /\ d.pending = None
      /\ d.publication = c.publication
  BY <1>2 DEF ScenarioRecords, Statuses, Requests
<1>4. [x EXCEPT !.active = NoActive] = [Put(mem, s, d, q) EXCEPT !.active = NoActive]
  <2>1. x = Put(mem, s, d, q)
    BY <1>1, <1>2 DEF Requeued, Promoted, Put, States
  <2>. HIDE DEF x, d, q, s
  <2>. QED BY <2>1
<1>. HIDE DEF d, q, x
<1>5. Settled(s, d, mem.queue, q) /\ NoneNew(c, d)
  BY <1>3 DEF Settled, NoneNew, Waiting, q
<1>6. d.attempts <= MaxAttempts + faults /\ d.attempts < MaxAttempts + faults
  BY <1>2, <1>3, LimitFacts
<1>. QED BY <1>1, <1>4, <1>5, <1>6, EndRunSafe

LEMMA CompleteSafe ==
  ASSUME IInv, Complete PROVE IInv'
<1>. DEFINE s == runner.scenario
            c == mem.scenarios[s]
            d == [c EXCEPT !.status = "complete", !.publication = runner.request]
            q == mem.queue
            x == [mem EXCEPT !.scenarios[s] = [@ EXCEPT !.status = "complete",
                                                        !.publication = runner.request]]
<1>1. runner # NoActive /\ EndRun(x, {Published})
  BY DEF Complete
<1>2. /\ mem \in States /\ s \in Scenarios /\ c \in ScenarioRecords /\ faults \in Nat
      /\ mem.scenarios \in [Scenarios -> ScenarioRecords]
      /\ c.request = runner.request /\ c.attempts <= MaxAttempts + faults
  BY <1>1, RunFacts
<1>3. /\ d \in ScenarioRecords /\ d.status = "complete" /\ d.attempts = c.attempts
      /\ d.event = c.event /\ d.request = c.request /\ d.pending = c.pending
      /\ d.publication = c.request
  BY <1>2 DEF ScenarioRecords, Statuses, Requests
<1>4. [x EXCEPT !.active = NoActive] = [Put(mem, s, d, q) EXCEPT !.active = NoActive]
  <2>1. x = Put(mem, s, d, q)
    BY <1>1, <1>2 DEF Put, States
  <2>. HIDE DEF x, d, q, s
  <2>. QED BY <2>1
<1>. HIDE DEF d, x
<1>5. Settled(s, d, mem.queue, q) /\ NoneNew(c, d)
  BY <1>3 DEF Settled, NoneNew
<1>6. d.attempts <= MaxAttempts + faults /\ d.status \notin Waiting
  BY <1>2, <1>3 DEF Waiting
<1>. QED BY <1>1, <1>4, <1>5, <1>6, EndRunSafe

LEMMA FailSafe ==
  ASSUME IInv, Fail PROVE IInv'
<1>. DEFINE s == runner.scenario
            c == mem.scenarios[s]
            d == [c EXCEPT !.status = "failed"]
            q == mem.queue
            x == [mem EXCEPT !.scenarios[s].status = "failed"]
<1>1. runner # NoActive /\ EndRun(x, {report, Published})
  BY DEF Fail
<1>2. /\ mem \in States /\ s \in Scenarios /\ c \in ScenarioRecords /\ faults \in Nat
      /\ mem.scenarios \in [Scenarios -> ScenarioRecords]
      /\ c.attempts <= MaxAttempts + faults
  BY <1>1, RunFacts
<1>3. /\ d \in ScenarioRecords /\ d.status = "failed" /\ d.attempts = c.attempts
      /\ d.event = c.event /\ d.request = c.request /\ d.pending = c.pending
      /\ d.publication = c.publication
  BY <1>2 DEF ScenarioRecords, Statuses
<1>4. [x EXCEPT !.active = NoActive] = [Put(mem, s, d, q) EXCEPT !.active = NoActive]
  <2>1. x = Put(mem, s, d, q)
    BY <1>1, <1>2 DEF Put, States
  <2>. HIDE DEF x, d, q, s
  <2>. QED BY <2>1
<1>. HIDE DEF d, x
<1>5. Settled(s, d, mem.queue, q) /\ NoneNew(c, d)
  BY <1>3 DEF Settled, NoneNew
<1>6. d.attempts <= MaxAttempts + faults /\ d.status \notin Waiting
  BY <1>2, <1>3 DEF Waiting
<1>. QED BY <1>1, <1>4, <1>5, <1>6, EndRunSafe

LEMMA RetrySafe ==
  ASSUME IInv, Retry PROVE IInv'
<1>. DEFINE s == runner.scenario
            c == mem.scenarios[s]
            d == [c EXCEPT !.status = "retrying"]
            q == Queued(mem.queue, s)
            x == [mem EXCEPT !.scenarios[s].status = "retrying", !.queue = Queued(@, s)]
<1>1. runner # NoActive /\ EndRun(x, {report, Published}) /\ c.attempts < MaxAttempts
  BY DEF Retry
<1>2. /\ mem \in States /\ s \in Scenarios /\ c \in ScenarioRecords /\ faults \in Nat
      /\ mem.scenarios \in [Scenarios -> ScenarioRecords]
      /\ c.attempts <= MaxAttempts + faults
  BY <1>1, RunFacts
<1>3. /\ d \in ScenarioRecords /\ d.status = "retrying" /\ d.attempts = c.attempts
      /\ d.event = c.event /\ d.request = c.request /\ d.pending = c.pending
      /\ d.publication = c.publication /\ c.attempts \in Nat
  BY <1>2 DEF ScenarioRecords, Statuses
<1>4. [x EXCEPT !.active = NoActive] = [Put(mem, s, d, q) EXCEPT !.active = NoActive]
  <2>1. x = Put(mem, s, d, q)
    BY <1>1, <1>2 DEF Put, States
  <2>. HIDE DEF x, d, q, s
  <2>. QED BY <2>1
<1>. HIDE DEF d, x, q
<1>5. Settled(s, d, mem.queue, q) /\ NoneNew(c, d)
  BY <1>3 DEF Settled, NoneNew, Waiting, q
<1>6. d.attempts <= MaxAttempts + faults /\ d.attempts < MaxAttempts + faults
  BY <1>1, <1>2, <1>3, LimitFacts
<1>. QED BY <1>1, <1>4, <1>5, <1>6, EndRunSafe

-----------------------------------------------------------------------------
\* Restarts

\* A restart takes up a state that loads, and counts on.
LEMMA RecoveredFacts ==
  ASSUME NEW d \in States, Sound(d), Lined(d), NEW f \in Nat, Attempts(d, f), CountedBy(d, None, TRUE, f)
  PROVE  LET r == Recovered(d) IN
         /\ r \in States /\ Lined(r) /\ Sound(r)
         /\ r.accepted = d.accepted
         /\ Attempts(r, f) /\ CountedBy(r, None, TRUE, f)
<1>. DEFINE m == IF d.active = NoActive THEN d
                   ELSE [Requeued(d, d.active.scenario) EXCEPT !.active = NoActive]
<1>1. Agree(d) /\ Projectable(d.projection) /\ WithinLimits(d)
  BY SoundParts
<1>2. MaxAttempts + f \in Nat /\ 0 < MaxAttempts + f /\ None \notin Scenarios
  BY LimitFacts, WorkerAssumption
<1>3. /\ m \in States /\ Lined(m) /\ Agree(m) /\ Known(m) = Known(d)
      /\ m.accepted = d.accepted /\ m.rejected = d.rejected /\ m.projection = d.projection
      /\ \A u \in Scenarios : /\ m.scenarios[u].attempts <= MaxAttempts + f
                              /\ m.scenarios[u].status \in Waiting \cup {"running"} =>
                                   m.scenarios[u].attempts < MaxAttempts + f
  <2>1. CASE d.active = NoActive
    BY <1>1, <1>2, <2>1 DEF Attempts, CountedBy
  <2>2. CASE d.active # NoActive
    <3>. DEFINE s == d.active.scenario
                c == d.scenarios[s]
                p == [c EXCEPT !.status = "queued", !.request = c.pending, !.pending = None,
                               !.attempts = 0]
                g == IF c.pending # None THEN p ELSE [c EXCEPT !.status = "queued"]
                q == Queued(d.queue, s)
    <3>1. s \in Scenarios /\ d.scenarios \in [Scenarios -> ScenarioRecords] /\ c \in ScenarioRecords
      BY <2>2 DEF States, Actives
    <3>2. c.status = "running"
      <4>1. s \in With(d, {"running"})
        BY <1>1, <1>2, <3>1 DEF Agree
      <4>. QED BY <4>1 DEF With
    <3>3. /\ g \in ScenarioRecords /\ g.status = "queued"
          /\ g.attempts = 0 \/ g.attempts = c.attempts
      BY <3>1 DEF ScenarioRecords, Statuses, Requests
    <3>4. m = [Put(d, s, g, q) EXCEPT !.active = NoActive]
      <4>1. Promoted(c) = p
        BY DEF Promoted
      <4>2. Requeued(d, s) = Put(d, s, g, q)
        BY <3>1, <4>1 DEF Requeued, Put, States
      <4>. HIDE DEF s, g, q
      <4>. QED BY <2>2, <4>2 DEF s
    <3>. HIDE DEF m, g
    <3>5. Settled(s, g, d.queue, q)
      BY <3>3 DEF Settled, Waiting
    <3>6. /\ m \in States /\ Lined(m) /\ Agree(m) /\ Known(m) = Known(d)
          /\ m.accepted = d.accepted /\ m.rejected = d.rejected /\ m.projection = d.projection
          /\ m.scenarios[s] = g
          /\ \A u \in Scenarios \ {s} : m.scenarios[u] = d.scenarios[u]
      BY <1>1, <3>1, <3>2, <3>4, <3>5, SettledFacts
    <3>7. g.attempts < MaxAttempts + f
      <4>1. c.attempts < MaxAttempts + f
        BY <1>2, <3>1, <3>2 DEF CountedBy
      <4>. QED BY <1>2, <3>3, <4>1
    <3>8. ASSUME NEW u \in Scenarios
          PROVE  /\ m.scenarios[u].attempts <= MaxAttempts + f
                 /\ m.scenarios[u].status \in Waiting \cup {"running"} =>
                      m.scenarios[u].attempts < MaxAttempts + f
      <4>1. CASE u = s
        <5>1. g.attempts \in Nat
          BY <3>3 DEF ScenarioRecords
        <5>. QED BY <1>2, <3>6, <3>7, <4>1, <5>1
      <4>2. CASE u # s
        BY <1>2, <3>6, <4>2 DEF Attempts, CountedBy
      <4>. QED BY <4>1, <4>2
    <3>. QED BY <3>6, <3>8
  <2>. QED BY <2>1, <2>2
<1>. DEFINE p == [m.projection EXCEPT !.status = IF @ = "running" THEN "queued" ELSE @]
            r == [m EXCEPT !.projection = p]
<1>4. Recovered(d) = r
  <2>1. Recovered(d) = [m EXCEPT !.projection.status = IF @ = "running" THEN "queued" ELSE @]
    BY DEF Recovered
  <2>. HIDE DEF m
  <2>. QED BY <1>3, <2>1 DEF States
<1>. HIDE DEF m
<1>5. /\ p \in Projections /\ p.attempts = d.projection.attempts /\ p.behind = d.projection.behind
      /\ p.status = IF d.projection.status = "running" THEN "queued" ELSE d.projection.status
  BY <1>3 DEF States, Projections, Statuses
<1>6. Projectable(p)
  BY <1>1, <1>5 DEF Projectable, Waiting
<1>. HIDE DEF p
<1>7. Sound(m)
  <2>1. WithinLimits(m)
    BY <1>1, <1>3 DEF WithinLimits
  <2>. QED BY <1>1, <1>3, <2>1, SoundParts
<1>8. /\ r \in States /\ r.projection = p /\ r.accepted = m.accepted
      /\ r.scenarios = m.scenarios /\ Lined(r) /\ Sound(r)
  BY <1>3, <1>5, <1>6, <1>7, ProjectionFacts
<1>. HIDE DEF r
<1>9. Attempts(r, f)
  BY <1>3, <1>5, <1>8 DEF Attempts
<1>10. CountedBy(r, None, TRUE, f)
  <2>1. p.status \in Waiting \cup {"running"} => p.attempts < MaxProjections + f
    BY <1>5 DEF CountedBy, Waiting
  <2>. QED BY <1>2, <1>3, <1>8, <2>1 DEF CountedBy
<1>11. /\ r \in States /\ Lined(r) /\ Sound(r) /\ r.accepted = d.accepted
       /\ Attempts(r, f) /\ CountedBy(r, None, TRUE, f)
  BY <1>3, <1>8, <1>9, <1>10
<1>. QED BY <1>4, <1>11

LEMMA EmptyFacts ==
  /\ EmptyState \in States /\ Lined(EmptyState) /\ Sound(EmptyState)
  /\ \A f \in Nat : Attempts(EmptyState, f) /\ CountedBy(EmptyState, None, TRUE, f)
<1>1. /\ Absent \in ScenarioRecords /\ Absent.status = "absent" /\ Absent.attempts = 0
      /\ NoActive \in Actives /\ NoActive.scenario = None
  BY DEF Absent, ScenarioRecords, Statuses, Requests, NoActive, Actives
<1>2. /\ EmptyState \in States /\ EmptyState.queue = <<>> /\ EmptyState.accepted = <<>>
      /\ EmptyState.rejected = <<>> /\ EmptyState.active = NoActive
      /\ EmptyState.projection.status = "idle" /\ EmptyState.projection.attempts = 0
      /\ \A s \in Scenarios : EmptyState.scenarios[s] = Absent
  BY <1>1 DEF EmptyState, States, Projections, Statuses
<1>. DEFINE m == EmptyState
<1>. HIDE DEF m
<1>3. With(m, Waiting) = {} /\ With(m, {"running"}) = {} /\ With(m, {"complete"}) = {} /\ Known(m) = {}
  BY <1>1, <1>2 DEF With, Waiting, Known, m
<1>4. IsInjective(m.queue) /\ IsInjective(m.accepted) /\ Range(m.queue) = {}
  BY <1>2 DEF IsInjective, Range, m
<1>5. Lined(m) /\ Agree(m) /\ Projectable(m.projection)
  BY <1>1, <1>2, <1>3, <1>4 DEF Lined, Agree, Projectable, Waiting, m
<1>6. WithinLimits(m)
  <2>1. Len(m.accepted) = 0 /\ Len(m.rejected) = 0 /\ Cardinality(Known(m)) = 0
    BY <1>2, <1>3, FS_EmptySet DEF m
  <2>. QED BY <2>1, LimitFacts DEF WithinLimits
<1>7. \A f \in Nat : Attempts(m, f) /\ CountedBy(m, None, TRUE, f)
  <2>. SUFFICES ASSUME NEW f \in Nat PROVE Attempts(m, f) /\ CountedBy(m, None, TRUE, f)
    OBVIOUS
  <2>1. 0 <= MaxAttempts + f /\ 0 <= MaxProjections + f
    BY LimitFacts
  <2>. QED BY <1>1, <1>2, <2>1 DEF Attempts, CountedBy, Waiting, m
<1>. QED BY <1>2, <1>5, <1>6, <1>7, SoundParts DEF m

LEMMA InitSafe == Init => IInv
<1>. SUFFICES ASSUME Init PROVE IInv
  OBVIOUS
<1>. USE DEF Init
<1>1. 0 \in 0..MaxFaults /\ 0 \in 0..MaxDeliveries /\ 0 \in Nat /\ None \notin Events
  BY LimitFacts, WorkerAssumption
<1>2. StateTypeOK(mem) /\ StateTypeOK(disk)
  BY <1>1, EmptyFacts, StateFacts
<1>3. TypeOK
  BY <1>1, <1>2 DEF TypeOK, NoDrain, Requests, Actives
<1>4. runner.scenario = None
  BY DEF NoActive
<1>5. Lined(mem) /\ Lined(disk) /\ Kepts
  BY EmptyFacts DEF Kepts
<1>6. Counted(mem) /\ Counted(disk)
  BY <1>1, <1>4, EmptyFacts DEF Counted
<1>7. Underway /\ Drained /\ HandledSaved /\ Recalled
  BY <1>1 DEF Underway, Drained, HandledSaved, Recalled, NoDrain
<1>. QED BY <1>3, <1>5, <1>6, <1>7 DEF IInv

\* While no worker runs nothing is under way, before a step and after it.
LEMMA DownFacts ==
  ASSUME IInv, ~up
  PROVE  /\ turn = "free" /\ drain = NoDrain /\ runner = NoActive /\ project = "none"
         /\ CountedBy(disk, None, TRUE, faults) /\ CountedBy(mem, None, TRUE, faults)
<1>1. turn = "free" /\ drain = NoDrain /\ runner = NoActive /\ project = "none"
  BY DEF IInv, Underway
<1>2. runner.scenario = None
  BY <1>1 DEF NoActive
<1>. QED BY <1>1, <1>2 DEF IInv, Counted

\* Nothing is under way, and what is said of the two states holds.
LEMMA StillSafe ==
  ASSUME IInv, turn' = "free", drain' = NoDrain, runner' = NoActive, project' = "none",
         UNCHANGED <<inbox, report, deliveries>>, up' \in BOOLEAN, fatal' \in BOOLEAN,
         dropped' = dropped, faults' \in 0..MaxFaults, remembered' = remembered,
         mem' \in States, disk' \in States, Lined(mem'), Lined(disk'),
         dropped \/ (Sound(mem') /\ Sound(disk')),
         Attempts(mem', faults'), Attempts(disk', faults'),
         CountedBy(mem', None, TRUE, faults'), CountedBy(disk', None, TRUE, faults'),
         disk'.accepted = disk.accepted,
         up' => mem' = disk'
  PROVE  IInv'
<1>1. runner'.scenario = None /\ (project' = "none") = TRUE /\ NoDrain.at = "idle" /\ NoDrain.entry = None
      /\ NoDrain.todo = {}
  BY DEF NoActive, NoDrain
<1>2. StateTypeOK(mem)' /\ StateTypeOK(disk)'
  BY DEF StateTypeOK, Attempts
<1>3. TypeOK'
  BY <1>2 DEF IInv, TypeOK, NoDrain, Requests, Actives
<1>4. Lined(mem)' /\ Lined(disk)'
  BY DEF Lined, With
<1>5. Counted(mem)' /\ Counted(disk)'
  BY <1>1 DEF Counted, CountedBy
<1>6. Underway' /\ Recalled'
  BY DEF IInv, Underway, Recalled
<1>7. Drained' /\ HandledSaved'
  BY <1>1 DEF Drained, HandledSaved, Handled
<1>8. Kepts'
  BY DEF Kepts, Sound, Consistent, WithinLimits, With, Known
<1>. QED BY <1>3, <1>4, <1>5, <1>6, <1>7, <1>8 DEF IInv

LEMMA RestartSafe ==
  ASSUME IInv, Start \/ StartUnsaved \/ Close \/ Crash PROVE IInv'
<1>1. /\ mem \in States /\ Attempts(mem, faults) /\ Lined(mem)
      /\ disk \in States /\ Attempts(disk, faults) /\ Lined(disk)
      /\ faults \in Nat /\ faults \in 0..MaxFaults /\ MaxFaults \in Nat
      /\ dropped \/ (Sound(mem) /\ Sound(disk))
      /\ up \in BOOLEAN /\ fatal \in BOOLEAN
  BY StateFacts, LimitFacts DEF IInv, TypeOK, Kepts
<1>. DEFINE r == Recovered(disk)
<1>2. ASSUME ~up, Loads(disk)
      PROVE  /\ r \in States /\ Lined(r) /\ Sound(r) /\ r.accepted = disk.accepted
             /\ Attempts(r, faults) /\ CountedBy(r, None, TRUE, faults)
  BY <1>1, <1>2, DownFacts, RecoveredFacts DEF Loads, Sound
<1>3. CASE Start
  <2>1. ~up /\ Loads(disk) /\ up' = TRUE /\ mem' = r /\ disk' = r /\ fatal' = FALSE
        /\ UNCHANGED <<turn, drain, runner, project, inbox, report, dropped, remembered,
                       deliveries, faults>>
    BY <1>3 DEF Start
  <2>. HIDE DEF r
  <2>2. turn = "free" /\ drain = NoDrain /\ runner = NoActive /\ project = "none"
    BY <2>1, DownFacts
  <2>. QED BY <1>1, <1>2, <2>1, <2>2, StillSafe
<1>4. CASE StartUnsaved
  <2>1. /\ ~up /\ Loads(disk) /\ disk' \in {disk, r} /\ faults < MaxFaults /\ faults' = faults + 1
        /\ UNCHANGED <<up, mem, fatal, turn, drain, runner, project, inbox, report, dropped,
                       remembered, deliveries>>
    BY <1>4 DEF StartUnsaved
  <2>. HIDE DEF r
  <2>2. turn = "free" /\ drain = NoDrain /\ runner = NoActive /\ project = "none"
    BY <2>1, DownFacts
  <2>3. /\ Attempts(disk, faults') /\ CountedBy(disk, None, TRUE, faults')
        /\ Attempts(mem, faults') /\ CountedBy(mem, None, TRUE, faults')
    BY <1>1, <2>1, FaultFacts
  <2>4. Attempts(r, faults') /\ CountedBy(r, None, TRUE, faults')
    BY <1>1, <1>2, <2>1, FaultFacts
  <2>5. Sound(disk) /\ Sound(r) /\ Lined(r) /\ r \in States /\ r.accepted = disk.accepted
    BY <1>2, <2>1 DEF Loads, Sound
  <2>6. faults' \in 0..MaxFaults
    BY <1>1, <2>1
  <2>7. dropped \/ (Sound(mem') /\ Sound(disk'))
    BY <1>1, <2>1, <2>5
  <2>8. /\ disk' \in States /\ Lined(disk') /\ Attempts(disk', faults')
        /\ CountedBy(disk', None, TRUE, faults') /\ disk'.accepted = disk.accepted
    BY <1>1, <2>1, <2>3, <2>4, <2>5
  <2>9. mem' = mem /\ mem' \in States /\ Lined(mem') /\ Attempts(mem', faults')
        /\ CountedBy(mem', None, TRUE, faults') /\ up' \in BOOLEAN /\ fatal' \in BOOLEAN /\ ~up'
    BY <1>1, <2>1, <2>3
  <2>. QED BY <2>1, <2>2, <2>6, <2>7, <2>8, <2>9, StillSafe
<1>5. CASE Close \/ Crash
  <2>1. /\ turn' = "free" /\ drain' = NoDrain /\ runner' = NoActive /\ project' = "none"
        /\ up' = FALSE /\ mem' = EmptyState /\ fatal' = FALSE
        /\ UNCHANGED <<disk, inbox, report, dropped, remembered, deliveries>>
    BY <1>5 DEF Close, Crash, Stopped
  <2>2. faults' \in 0..MaxFaults /\ Attempts(disk, faults') /\ CountedBy(disk, None, TRUE, faults')
    <3>1. CASE Crash
      <4>1. faults' = faults + 1 /\ faults < MaxFaults
        BY <3>1 DEF Crash
      <4>2. faults' \in 0..MaxFaults
        BY <1>1, <4>1
      <4>. QED BY <1>1, <4>1, <4>2, FaultFacts
    <3>2. CASE Close
      <4>1. runner.scenario = None /\ project = "none" /\ faults' = faults
        BY <3>2 DEF Close, NoActive
      <4>. QED BY <1>1, <4>1 DEF IInv, Counted
    <3>. QED BY <1>5, <3>1, <3>2
  <2>3. faults' \in Nat
    BY <1>1, <2>2
  <2>4. /\ EmptyState \in States /\ Lined(EmptyState) /\ Sound(EmptyState)
        /\ Attempts(EmptyState, faults') /\ CountedBy(EmptyState, None, TRUE, faults')
    BY <2>3, EmptyFacts
  <2>. QED BY <1>1, <2>1, <2>2, <2>4, StillSafe
<1>. QED BY <1>3, <1>4, <1>5

-----------------------------------------------------------------------------
\* The theorems

\* IInv is inductive.
LEMMA StepSafe == IInv /\ [Next]_vars => IInv'
<1>. SUFFICES ASSUME IInv, [Next]_vars PROVE IInv'
  OBVIOUS
<1>1. CASE UNCHANGED vars
  BY <1>1, StutterSafe
<1>2. CASE Start \/ StartUnsaved \/ StartRefused \/ Close \/ Crash
  BY <1>2, RestartSafe, SkipSafe
<1>3. ASSUME NEW e \in Events, Deliver(e) PROVE IInv'
  BY <1>3, InboxSafe
<1>4. CASE Poll \/ \E tick \in BOOLEAN : EndDrain(tick)
  BY <1>4, InboxSafe
<1>5. CASE DrainStep
  <2>1. ASSUME NEW e \in Events,
               \/ Defer(e) \/ Refuse(e) \/ SkipHandled(e) \/ Validate(e) \/ Accept(e)
               \/ RefuseNew(e) \/ DeferNew(e)
        PROVE  IInv'
    BY <2>1, InboxSafe, DrainSafe, DeferNewSafe
  <2>. QED BY <1>5, <2>1, InboxSafe, BrokenSafe DEF DrainStep
<1>6. CASE StartStep
  <2>1. ASSUME NEW i \in DOMAIN mem.queue, StartTelemetry(i) \/ StartBroken(i) PROVE IInv'
    BY <2>1, StartTelemetrySafe, StartBrokenSafe
  <2>. QED BY <1>6, <2>1, SkipSafe, StartProjectionSafe DEF StartStep
<1>7. CASE RunStep
  BY <1>7, SupersedeSafe, CompleteSafe, FailSafe, RetrySafe, BrokenSafe DEF RunStep
<1>8. ASSUME NEW ok \in BOOLEAN, EndProjection(ok) PROVE IInv'
  BY <1>8, EndProjectionSafe
<1>. QED BY <1>1, <1>2, <1>3, <1>4, <1>5, <1>6, <1>7, <1>8 DEF Next

\* IInv holds in every state the worker reaches.
THEOREM Invariance == Spec => []IInv
BY InitSafe, StepSafe, PTL DEF Spec

\* Every variable stays in its set; no scenario and no projection is tried more
\* often than its limit says but for what crashes and failures add (TypeOK).
THEOREM Typing == Spec => []TypeOK
<1>1. IInv => TypeOK
  BY DEF IInv
<1>. QED BY <1>1, Invariance, PTL

\* A restart finds statuses, queue, active run and projection that agree, and
\* the limits kept, whatever was under way (loadWorkerState, Reopens).
THEOREM Reopening == Spec => []Reopens
<1>1. IInv => Reopens
  BY DEF IInv, Kepts, Sound, Reopens
<1>. QED BY <1>1, Invariance, PTL

\* What an entry's deletion rests on is saved before it, whatever fails or dies in
\* between (drainInbox, DeletedWhenDurable).
LEMMA DurableStep ==
  ASSUME IInv, Next
  PROVE  /\ drain.at # "delete" /\ drain'.at = "delete" => Handled(disk', drain'.entry)
         /\ inbox \ inbox' \subseteq IF drain.at = "delete" THEN {drain.entry} ELSE {}
<1>1. ASSUME NEW e \in Events, Accept(e) \/ Refuse(e) \/ RefuseNew(e)
      PROVE  (drain'.at = "delete" => Handled(disk', drain'.entry)) /\ inbox' = inbox
  <2>1. PICK n : Taken(mem, n, e) /\ Persisted(n, e) /\ (At("next", e) \/ At("validate", e))
    BY <1>1, DrainTaken
  <2>2. CASE Saved(n) /\ drain' = Go("delete", e)
    <3>1. disk' = n /\ drain'.entry = e /\ Handled(n, e)
      BY <2>1, <2>2 DEF Saved, Go, Taken
    <3>. QED BY <2>1, <3>1 DEF Persisted
  <2>3. CASE drain' = NoDrain
    BY <2>1, <2>3 DEF NoDrain, Persisted
  <2>. QED BY <2>1, <2>2, <2>3 DEF Persisted
<1>2. ASSUME NEW e \in Events, SkipHandled(e)
      PROVE  Handled(disk', drain'.entry) /\ inbox' = inbox
  <2>1. drain.at = "next" /\ Handled(mem, e) /\ disk' = disk /\ drain'.entry = e /\ inbox' = inbox
    BY <1>2 DEF SkipHandled, At, Go, Untouched
  <2>2. Handled(disk, e)
    BY <2>1, UpFacts DEF IInv, HandledSaved
  <2>. QED BY <2>1, <2>2
<1>3. ASSUME NEW e \in Events, Deliver(e) \/ Defer(e) \/ Validate(e) \/ DeferNew(e)
      PROVE  (drain.at # "delete" => drain'.at # "delete") /\ inbox \subseteq inbox'
  BY <1>3 DEF Deliver, Defer, Validate, DeferNew, Go
<1>4. ASSUME Delete
      PROVE  drain.at = "delete" /\ inbox \ inbox' \subseteq {drain.entry}
  <2>1. drain.at = "delete" /\ inbox' \in {inbox \ {drain.entry}, inbox}
    BY <1>4 DEF Delete
  <2>2. inbox \ inbox' \subseteq {drain.entry}
    BY <2>1
  <2>. QED BY <2>1, <2>2
<1>13. ASSUME DrainBroken PROVE drain'.at = "idle" /\ inbox' = inbox
  BY <1>13 DEF DrainBroken, NoDrain
<1>5. CASE Poll \/ \E tick \in BOOLEAN : EndDrain(tick)
  <2>1. inbox' = inbox
    BY <1>5 DEF Poll, EndDrain
  <2>2. Poll => drain'.at = "next"
    BY DEF Poll, NoDrain
  <2>3. ASSUME NEW tick \in BOOLEAN, EndDrain(tick) PROVE drain'.at = "idle"
    BY <2>3 DEF EndDrain, NoDrain
  <2>4. drain'.at # "delete"
    BY <1>5, <2>2, <2>3
  <2>. QED BY <2>1, <2>4
<1>6. CASE Start \/ StartUnsaved \/ StartRefused \/ Close \/ Crash
  BY <1>6 DEF Start, StartUnsaved, StartRefused, Close, Crash, Stopped, NoDrain, vars
<1>7. CASE StartStep
  BY <1>7 DEF StartStep, StartTelemetry, StartBroken, SkipTelemetry, StartProjection, SkipProjection
<1>8. CASE RunStep
  BY <1>8 DEF RunStep, Supersede, Complete, Fail, Retry, Quarantine, EndRun
<1>9. ASSUME NEW ok \in BOOLEAN, EndProjection(ok) PROVE drain' = drain /\ inbox' = inbox
  BY <1>9 DEF EndProjection
<1>10. CASE DrainStep
  BY <1>1, <1>2, <1>3, <1>4, <1>10, <1>13 DEF DrainStep
<1>11. CASE \E e \in Events : Deliver(e)
  BY <1>3, <1>11
<1>12. CASE \E ok \in BOOLEAN : EndProjection(ok)
  BY <1>9, <1>12
<1>. QED BY <1>5, <1>6, <1>7, <1>8, <1>10, <1>11, <1>12 DEF Next

THEOREM Durable == Spec => DeletedWhenDurable
<1>. DEFINE A == /\ drain.at # "delete" /\ drain'.at = "delete" => Handled(disk', drain'.entry)
                 /\ inbox \ inbox' \subseteq IF drain.at = "delete" THEN {drain.entry} ELSE {}
<1>1. IInv /\ [Next]_vars => [A]_vars
  BY DurableStep
<1>. QED BY <1>1, Invariance, PTL DEF DeletedWhenDurable, Spec

\* What is remembered is handled while the worker runs, so that nothing accepts it
\* once more (requestWasHandled, AcceptedOnce).
THEOREM Once == Spec => AcceptedOnce
<1>. DEFINE A == \A e \in remembered : ~Accept(e)
<1>1. ASSUME IInv PROVE A
  <2>. SUFFICES ASSUME NEW e \in remembered, Accept(e) PROVE FALSE
    OBVIOUS
  <2>1. e \in Events
    BY <1>1 DEF IInv, TypeOK
  <2>2. drain.at # "idle" /\ ~Handled(mem, e)
    BY <1>1 DEF Accept, AcceptProjection, AcceptNew, AcceptSuccessor, AcceptAgain, At, IInv, Drained
  <2>3. e \in Range(mem.accepted)
    BY <1>1, <2>2, UpFacts DEF IInv, Recalled
  <2>. QED BY <2>2, <2>3 DEF Handled
<1>2. IInv /\ [Next]_vars => [A]_vars
  BY <1>1
<1>. QED BY <1>2, Invariance, PTL DEF AcceptedOnce, Spec

\* A report in place is that of the run that state.json names, and it has no
\* successor there (executeTelemetry, PublishedCurrent).
LEMMA CurrentStep ==
  ASSUME IInv, Next, NEW s \in Scenarios, report'[s] # report[s]
  PROVE  /\ disk.active = [scenario |-> s, request |-> report'[s]]
         /\ disk.scenarios[s].pending = None
<1>1. /\ runner # NoActive
      /\ report' = Published
      /\ mem.scenarios[runner.scenario].pending = None
  <2>1. CASE RunStep
    <3>1. report' \in {report, Published} /\ runner # NoActive
      BY <2>1 DEF RunStep, Supersede, Complete, Fail, Retry, Quarantine, EndRun
    <3>2. report' # report => ~Pending
      BY <2>1 DEF RunStep, Supersede, Complete, Fail, Retry, Quarantine, EndRun
    <3>. QED BY <3>1, <3>2 DEF Pending
  <2>2. CASE \E e \in Events : Accept(e) \/ Refuse(e) \/ RefuseNew(e)
    <3>1. report' = report
      BY <2>2, DrainTaken DEF elsewhere
    <3>. QED BY <3>1
  <2>3. CASE \E e \in Events : Deliver(e) \/ Defer(e) \/ SkipHandled(e) \/ Validate(e) \/ DeferNew(e)
    BY <2>3 DEF Deliver, Defer, SkipHandled, Validate, DeferNew, elsewhere
  <2>4. CASE Delete \/ DrainBroken \/ Poll \/ \E tick \in BOOLEAN : EndDrain(tick)
    BY <2>4 DEF Delete, DrainBroken, Poll, EndDrain, elsewhere
  <2>5. CASE Start \/ StartUnsaved \/ StartRefused \/ Close \/ Crash
    BY <2>5 DEF Start, StartUnsaved, StartRefused, Close, Crash, Stopped, vars
  <2>6. CASE StartStep
    BY <2>6 DEF StartStep, StartTelemetry, StartBroken, SkipTelemetry, StartProjection, SkipProjection
  <2>7. CASE \E ok \in BOOLEAN : EndProjection(ok)
    BY <2>7 DEF EndProjection
  <2>. QED BY <2>1, <2>2, <2>3, <2>4, <2>5, <2>6, <2>7 DEF Next, DrainStep
<1>2. report \in [Scenarios -> Requests] /\ runner \in [scenario : Scenarios, request : Requests]
  BY <1>1 DEF IInv, TypeOK, Actives
<1>3. s = runner.scenario /\ report'[s] = runner.request
  BY <1>1, <1>2 DEF Published
<1>4. runner = [scenario |-> s, request |-> report'[s]]
  BY <1>2, <1>3
<1>5. disk.active = runner /\ disk.scenarios[s].pending = None
  BY <1>1, <1>3 DEF IInv, Underway
<1>. QED BY <1>4, <1>5

THEOREM Current == Spec => PublishedCurrent
<1>. DEFINE A == \A s \in Scenarios :
                   report'[s] # report[s] => /\ disk.active = [scenario |-> s, request |-> report'[s]]
                                             /\ disk.scenarios[s].pending = None
<1>1. IInv /\ [Next]_vars => [A]_vars
  BY CurrentStep
<1>. QED BY <1>1, Invariance, PTL DEF PublishedCurrent, Spec
=============================================================================
