--------------------------- MODULE StreamsProofs ---------------------------
(***************************************************************************)
(* Proofs about a stream and its consumer, for every set of events, batch  *)
(* size, retention, ring and probe limit, and any number of lives.         *)
(***************************************************************************)
EXTENDS Streams, SequenceLemmas, FiniteSetTheorems, TLAPS

-----------------------------------------------------------------------------
(* The inductive invariant.                                                *)

Appends ==
  [pc : {"idle", "create", "trim", "reply"}, id : Ids \union {NoEvent},
   seq : 0 .. MaxSeq, first : 0 .. MaxSeq, probes : Nat]

Typed ==
  /\ events \in [Seqs -> Ids \union {NoEvent}]
  /\ mem \in Manifests /\ saved \in Manifests /\ app \in Appends
  /\ acked \subseteq Ids /\ owed \subseteq Ids /\ sent \subseteq Ids
  /\ trimmed \subseteq Ids /\ settled \subseteq Ids
  /\ fires \in [Ids -> Nat] /\ prior \in [Ids -> SUBSET Ids]
  /\ crashes \in 0 .. MaxCrashes

\* Neither the first kept event nor the consumer is ahead of the head; ring
\* and batch keep their limits.
Ordered(m) ==
  /\ m.first <= m.head /\ m.off <= m.head
  /\ ~m.anchored => m.off = 0
  /\ Len(m.ring) <= DedupRing /\ Len(m.batch) < BatchSize

\* Retention has been at every sequence number before n.
Dropped(n) == \A s \in Seqs : s < n => events[s] \in trimmed \union {NoEvent}

\* A flush is of the manifest as it was: memory has only gone on from it.
Flushed == saved.head <= mem.head /\ (saved.anchored => mem.anchored)

\* The append under way: it is behind the head until it publishes, its key
\* exists, and what it created is there.
AppendOK ==
  /\ app.pc # "idle" =>
       /\ app.id \in sent \ acked
       /\ 1 <= app.first /\ app.first <= app.seq
       /\ Dropped(app.first)
  /\ app.pc = "create" =>
       /\ app.probes < HeadProbes /\ app.seq = mem.head + 1 + app.probes
       /\ \/ mem.head + HeadProbes <= MaxSeq
          \/ \E s \in app.seq .. MaxSeq : events[s] = NoEvent
  /\ app.pc = "trim" => mem.head < app.seq /\ events[app.seq] = app.id
  /\ app.pc = "reply" =>
       mem.head = app.seq /\ mem.off < app.seq /\ events[app.seq] = app.id

\* Events come from appends; what is owed was wanted, acknowledged and is
\* somewhere; an event's predecessors were acknowledged.
Sent ==
  /\ \A s \in Seqs : events[s] \in sent \union {NoEvent}
  /\ owed \subseteq acked \ Ignored
  /\ \A e \in Ids : prior[e] \subseteq acked /\ (e \notin sent => prior[e] = {})
  /\ From = "new" /\ owed \intersect Outside # {} => saved.anchored

Kept ==
  \A e \in owed : fires[e] > 0 \/ e \in trimmed \/ \E s \in Seqs : events[s] = e

\* A recent id was handed over or waits in the batch.
Recent(m) ==
  /\ Range(m.batch) \subseteq sent
  /\ \A e \in Range(m.ring) : fires[e] > 0 \/ e \in Range(m.batch)

Past(e) == fires[e] > 0 \/ e \in trimmed

\* The consumer that starts from m still comes to what is owed ...
Reaches(m) == \A e \in owed \intersect Outside : Past(e) \/ Ahead(m, e)

\* ... and to d before it comes to e, on whichever sequence numbers e is.
Before(m, d, e) ==
  /\ e \notin Range(m.batch)
  /\ \E s \in m.off + 1 .. m.head :
       events[s] = d /\ \A t \in Seqs : events[t] = e => s < t

Sorted(m) ==
  \A e \in Ids : \A d \in prior[e] \intersect owed \intersect Outside :
    Past(d) \/ d \in Range(m.batch) \/ Before(m, d, e)

Sound(m) ==
  Ordered(m) /\ Dropped(m.first) /\ Recent(m) /\ Reaches(m) /\ Sorted(m)

SInv ==
  Typed /\ Flushed /\ AppendOK /\ Sent /\ Kept /\ Sound(mem) /\ Sound(saved)

-----------------------------------------------------------------------------
(* A manifest in a changing world: what keeps Sound of it.                 *)

\* A manifest that is sound is so whichever variable holds it.
LEMMA MemSound == ASSUME NEW m, mem' = m, Sound(m)' PROVE Sound(mem)'
BY DEF Sound, Ordered, Dropped, Recent, Reaches, Sorted, Before, Past, Ahead

\* The same of the manifest in the store.
LEMMA SavedSound == ASSUME NEW m, saved' = m, Sound(m)' PROVE Sound(saved)'
BY DEF Sound, Ordered, Dropped, Recent, Reaches, Sorted, Before, Past, Ahead

\* What was handed over, or dropped, stays so.
LEMMA PastStays ==
  ASSUME Typed, fires' \in [Ids -> Nat], \A e \in Ids : fires[e] <= fires'[e],
         trimmed \subseteq trimmed', NEW e \in Ids, Past(e)
  PROVE  Past(e)'
<1>1. fires[e] \in Nat /\ fires'[e] \in Nat /\ fires[e] <= fires'[e]
  BY DEF Typed
<1> QED BY <1>1 DEF Past

\* The consumer goes on from m to n (poll_stream_starts, and the head an
\* append publishes): what it passes is handed over, dropped or in the batch,
\* what it puts in the batch it has passed, and no batch is forgotten.
LEMMA Advance ==
  ASSUME Typed, Sent, NEW m \in Manifests, NEW n \in Manifests, Sound(m),
         Ordered(n), Dropped(n.first), m.off <= n.off, m.head <= n.head,
         UNCHANGED <<events, trimmed, owed, sent, prior>>,
         fires' \in [Ids -> Nat], \A e \in Ids : fires[e] <= fires'[e],
         \A s \in m.off + 1 .. n.off :
           events[s] \in owed \intersect Outside => Past(events[s])' \/ events[s] \in Range(n.batch),
         \A e \in Range(m.batch) : Past(e)' \/ e \in Range(n.batch),
         \A e \in Range(n.batch) :
           e \in Range(m.batch) \/ \E s \in m.off + 1 .. n.off : events[s] = e,
         \A e \in Range(n.ring) : fires'[e] > 0 \/ e \in Range(n.batch)
  PROVE  Sound(n)'
<1>1. /\ m.off \in Nat /\ n.off \in Nat /\ m.head \in Nat /\ n.head \in Nat
      /\ m.head <= MaxSeq /\ n.head <= MaxSeq /\ MaxSeq \in Nat
      /\ m.off <= m.head /\ n.off <= n.head
      /\ Range(m.batch) \subseteq Ids /\ Range(n.batch) \subseteq Ids
  BY RangeType, StreamsAssumption DEF Manifests, Sound, Ordered
<1>2. \A s \in m.off + 1 .. m.head : s \in Seqs /\ s \in Nat
  BY <1>1 DEF Seqs
<1>3. \A s \in m.off + 1 .. n.off : s \in Seqs /\ s \in Nat
  BY <1>1 DEF Seqs
<1>4. Ordered(n)' /\ Dropped(n.first)'
  BY DEF Ordered, Dropped
<1>5. Recent(n)'
  <2>1. Range(n.batch) \subseteq sent'
    BY <1>1, <1>3, StreamsAssumption DEF Sent, Sound, Recent, Typed
  <2> QED BY <2>1 DEF Recent
<1>6. ASSUME NEW d \in owed \intersect Outside, NEW s \in m.off + 1 .. m.head, events[s] = d,
             ~Past(d)', d \notin Range(n.batch)
      PROVE  s \in n.off + 1 .. n.head
  <2>1. ~(s \in m.off + 1 .. n.off)
    BY <1>6
  <2> QED BY <2>1, <1>1
<1>7. Reaches(n)'
  <2> SUFFICES ASSUME NEW e \in owed \intersect Outside, ~Past(e)'
               PROVE  Ahead(n, e)'
    BY DEF Reaches
  <2>1. e \in Ids /\ ~Past(e)
    BY PastStays DEF Typed
  <2>2. Ahead(m, e)
    BY <2>1 DEF Sound, Reaches
  <2>3. CASE e \in Range(n.batch)
    BY <2>3 DEF Ahead
  <2>4. CASE e \notin Range(n.batch)
    <3>1. e \notin Range(m.batch)
      BY <2>4
    <3>2. PICK s \in m.off + 1 .. m.head : events[s] = e
      BY <2>2, <3>1 DEF Ahead
    <3>3. s \in n.off + 1 .. n.head
      BY <1>6, <2>4, <3>2
    <3> QED BY <3>2, <3>3 DEF Ahead
  <2> QED BY <2>3, <2>4
<1>8. Sorted(n)'
  <2> SUFFICES ASSUME NEW e \in Ids, NEW d \in prior[e] \intersect owed \intersect Outside,
                      ~Past(d)', d \notin Range(n.batch)
               PROVE  Before(n, d, e)'
    BY DEF Sorted
  <2>1. d \in Ids /\ ~Past(d) /\ d \notin Range(m.batch)
    BY PastStays DEF Typed
  <2>2. Before(m, d, e)
    BY <2>1 DEF Sound, Sorted
  <2>3. PICK s \in m.off + 1 .. m.head :
               events[s] = d /\ \A t \in Seqs : events[t] = e => s < t
    BY <2>2 DEF Before
  <2>4. s \in n.off + 1 .. n.head /\ s \in Nat
    BY <1>2, <1>6, <2>3
  <2>5. e \notin Range(n.batch)
    <3> SUFFICES ASSUME e \in Range(n.batch) PROVE FALSE
      OBVIOUS
    <3>1. e \notin Range(m.batch)
      BY <2>2 DEF Before
    <3>2. PICK t \in m.off + 1 .. n.off : events[t] = e
      BY <3>1
    <3>3. s < t /\ t \in Nat
      BY <1>3, <2>3, <3>2
    <3> QED BY <1>1, <2>4, <3>2, <3>3
  <2> QED BY <2>3, <2>4, <2>5 DEF Before
<1> QED BY <1>4, <1>5, <1>7, <1>8 DEF Sound

\* A manifest nobody changes, while firings are handed over.
LEMMA SameSound ==
  ASSUME Typed, Sent, NEW m \in Manifests, Sound(m),
         UNCHANGED <<events, trimmed, owed, sent, prior>>,
         fires' \in [Ids -> Nat], \A e \in Ids : fires[e] <= fires'[e]
  PROVE  Sound(m)'
<1>1. m.off \in Nat /\ m.head \in Nat
  BY DEF Manifests
<1>2. m.off + 1 .. m.off = {}
  BY <1>1
<1>3. Range(m.ring) \subseteq Ids
  BY RangeType DEF Manifests
<1>4. \A e \in Range(m.ring) : fires'[e] > 0 \/ e \in Range(m.batch)
  BY <1>3 DEF Sound, Recent, Typed
<1>5. m.off <= m.off /\ m.head <= m.head /\ Ordered(m) /\ Dropped(m.first)
  BY <1>1 DEF Sound
<1> QED BY <1>2, <1>4, <1>5, Advance

\* A new event record behind the head of the manifest.
LEMMA CreateSound ==
  ASSUME Typed, NEW m \in Manifests, Sound(m), NEW n \in Seqs, NEW x \in Ids,
         m.head < n, events[n] = NoEvent, events' = [events EXCEPT ![n] = x],
         UNCHANGED <<fires, trimmed, owed, sent, prior>>
  PROVE  Sound(m)'
<1>1. /\ m.off \in Nat /\ m.head \in Nat /\ m.first \in Nat /\ n \in Nat
      /\ m.first <= m.head /\ m.head <= MaxSeq /\ MaxSeq \in Nat
  BY StreamsAssumption DEF Manifests, Sound, Ordered, Seqs
<1>2. \A s \in Seqs : s # n => events'[s] = events[s]
  BY DEF Typed
<1>3. events'[n] = x
  BY DEF Typed
<1>4. \A s \in m.off + 1 .. m.head : s \in Seqs /\ s \in Nat /\ s < n /\ events'[s] = events[s]
  BY <1>1, <1>2 DEF Seqs
<1>5. Ordered(m)' /\ Recent(m)'
  BY DEF Sound, Ordered, Recent
<1>6. Dropped(m.first)'
  <2> SUFFICES ASSUME NEW s \in Seqs, s < m.first
               PROVE  events'[s] \in trimmed \union {NoEvent}
    BY DEF Dropped
  <2>1. s # n
    BY <1>1 DEF Seqs
  <2> QED BY <2>1, <1>2 DEF Sound, Dropped
<1>7. Reaches(m)'
  <2> SUFFICES ASSUME NEW e \in owed \intersect Outside, ~Past(e)
               PROVE  Ahead(m, e)'
    BY DEF Reaches, Past
  <2>1. Ahead(m, e)
    BY DEF Sound, Reaches
  <2> QED BY <2>1, <1>4 DEF Ahead
<1>8. Sorted(m)'
  <2> SUFFICES ASSUME NEW e \in Ids, NEW d \in prior[e] \intersect owed \intersect Outside,
                      ~Past(d), d \notin Range(m.batch)
               PROVE  Before(m, d, e)'
    BY DEF Sorted, Past
  <2>1. Before(m, d, e)
    BY DEF Sound, Sorted
  <2>2. PICK s \in m.off + 1 .. m.head :
               events[s] = d /\ \A t \in Seqs : events[t] = e => s < t
    BY <2>1 DEF Before
  <2>3. events'[s] = d /\ s < n
    BY <1>4, <2>2
  <2>4. \A t \in Seqs : events'[t] = e => s < t
    BY <1>2, <2>2, <2>3
  <2> QED BY <2>1, <2>3, <2>4 DEF Before
<1> QED BY <1>5, <1>6, <1>7, <1>8 DEF Sound

\* Retention drops one event record, or fails to.
LEMMA TrimSound ==
  ASSUME Typed, NEW m \in Manifests, Sound(m), NEW f \in Seqs,
         events' \in {[events EXCEPT ![f] = NoEvent], events},
         trimmed' = trimmed \union ({events[f]} \ {NoEvent}),
         UNCHANGED <<fires, owed, sent, prior>>
  PROVE  Sound(m)'
<1>1. /\ m.off \in Nat /\ m.head \in Nat /\ m.head <= MaxSeq /\ MaxSeq \in Nat
  BY StreamsAssumption DEF Manifests
<1>2. \A s \in Seqs : \/ events'[s] = events[s]
                      \/ s = f /\ events'[s] = NoEvent
  BY DEF Typed
<1>3. \A s \in m.off + 1 .. m.head : s \in Seqs
  BY <1>1 DEF Seqs
<1>4. Ordered(m)' /\ Recent(m)'
  BY DEF Sound, Ordered, Recent
<1>5. Dropped(m.first)'
  BY <1>2 DEF Sound, Dropped
<1>6. ASSUME NEW e \in Ids, ~Past(e)', NEW s \in Seqs, events[s] = e
      PROVE  ~Past(e) /\ events'[s] = e
  <2>1. ~Past(e) /\ e \notin trimmed'
    BY <1>6 DEF Past
  <2>2. e # NoEvent
    BY StreamsAssumption
  <2> QED BY <1>2, <1>6, <2>1, <2>2
<1>7. Reaches(m)'
  <2> SUFFICES ASSUME NEW e \in owed \intersect Outside, ~Past(e)'
               PROVE  Ahead(m, e)'
    BY DEF Reaches
  <2>1. e \in Ids /\ ~Past(e)
    BY DEF Typed, Past
  <2>2. Ahead(m, e)
    BY <2>1 DEF Sound, Reaches
  <2> QED BY <1>3, <1>6, <2>1, <2>2 DEF Ahead
<1>8. Sorted(m)'
  <2> SUFFICES ASSUME NEW e \in Ids, NEW d \in prior[e] \intersect owed \intersect Outside,
                      ~Past(d)', d \notin Range(m.batch)
               PROVE  Before(m, d, e)'
    BY DEF Sorted
  <2>1. d \in Ids /\ ~Past(d)
    BY DEF Typed, Past
  <2>2. Before(m, d, e)
    BY <2>1 DEF Sound, Sorted
  <2>3. PICK s \in m.off + 1 .. m.head :
               events[s] = d /\ \A t \in Seqs : events[t] = e => s < t
    BY <2>2 DEF Before
  <2>4. events'[s] = d
    BY <1>3, <1>6, <2>1, <2>3
  <2>5. \A t \in Seqs : events'[t] = e => s < t
    BY <1>2, <2>3, StreamsAssumption
  <2> QED BY <2>2, <2>4, <2>5 DEF Before
<1> QED BY <1>4, <1>5, <1>7, <1>8 DEF Sound

\* An append begins: what was acknowledged goes before an event first sent now.
LEMMA BeginSound ==
  ASSUME Typed, Sent, NEW m \in Manifests, Sound(m), NEW x \in Ids,
         sent' = sent \union {x},
         prior' = [prior EXCEPT ![x] = IF x \in sent THEN @ ELSE acked],
         UNCHANGED <<events, fires, trimmed, owed>>
  PROVE  Sound(m)'
<1>1. /\ m.off \in Nat /\ m.head \in Nat /\ m.head <= MaxSeq /\ MaxSeq \in Nat
  BY StreamsAssumption DEF Manifests
<1>2. \A s \in m.off + 1 .. m.head : s \in Seqs
  BY <1>1 DEF Seqs
<1>3. Ordered(m)' /\ Recent(m)' /\ Dropped(m.first)'
  BY DEF Sound, Ordered, Recent, Dropped
<1>4. Reaches(m)'
  BY DEF Sound, Reaches, Past, Ahead
<1>5. Sorted(m)'
  <2> SUFFICES ASSUME NEW e \in Ids, NEW d \in prior'[e] \intersect owed \intersect Outside,
                      ~Past(d), d \notin Range(m.batch)
               PROVE  Before(m, d, e)
    BY DEF Sorted, Past, Before
  <2>1. CASE d \in prior[e]
    BY <2>1 DEF Sound, Sorted
  <2>2. CASE d \notin prior[e]
    <3>1. e = x /\ x \notin sent
      BY <2>2 DEF Typed
    <3>2. x # NoEvent
      BY StreamsAssumption
    <3>3. e \notin Range(m.batch) /\ \A t \in Seqs : events[t] # e
      BY <3>1, <3>2 DEF Sound, Recent, Sent
    <3>4. Ahead(m, d)
      BY DEF Sound, Reaches
    <3>5. PICK s \in m.off + 1 .. m.head : events[s] = d
      BY <3>4 DEF Ahead
    <3> QED BY <3>3, <3>5 DEF Before
  <2> QED BY <2>1, <2>2
<1> QED BY <1>3, <1>4, <1>5 DEF Sound

\* A producer is told that its event is kept, when the manifest leads to it.
LEMMA TellSound ==
  ASSUME Typed, Sent, NEW m \in Manifests, Sound(m), NEW x \in Ids \ acked,
         owed' \in {owed, owed \union {x}},
         x \in owed' \intersect Outside => Ahead(m, x),
         UNCHANGED <<events, fires, trimmed, sent, prior>>
  PROVE  Sound(m)'
<1>1. Ordered(m)' /\ Recent(m)' /\ Dropped(m.first)'
  BY DEF Sound, Ordered, Recent, Dropped
<1>2. Reaches(m)'
  <2> SUFFICES ASSUME NEW e \in owed' \intersect Outside, ~Past(e)
               PROVE  Ahead(m, e)
    BY DEF Reaches, Past, Ahead
  <2> QED BY DEF Sound, Reaches
<1>3. Sorted(m)'
  <2> SUFFICES ASSUME NEW e \in Ids, NEW d \in prior[e] \intersect owed' \intersect Outside,
                      ~Past(d), d \notin Range(m.batch)
               PROVE  Before(m, d, e)
    BY DEF Sorted, Past, Before
  <2>1. d \in acked
    BY DEF Sent
  <2>2. d \in owed
    BY <2>1
  <2> QED BY <2>2 DEF Sound, Sorted
<1> QED BY <1>1, <1>2, <1>3 DEF Sound

-----------------------------------------------------------------------------
(* Operators of the consumer.                                              *)

\* The end of a sequence holds nothing the sequence does not hold.
LEMMA SuffixRange ==
  ASSUME NEW S, NEW r \in Seq(S), NEW k \in Nat, k < Len(r)
  PROVE  LET t == SubSeq(r, Len(r) - k + 1, Len(r))
         IN  t \in Seq(S) /\ Len(t) = k /\ Range(t) \subseteq Range(r)
<1> DEFINE a == Len(r) - k + 1
           t == SubSeq(r, a, Len(r))
<1>1. Len(r) \in Nat /\ DOMAIN r = 1 .. Len(r) /\ a \in Nat /\ 1 <= a
      /\ Len(r) - a + 1 = k
  BY LenProperties
<1>2. \A i \in a .. Len(r) : i \in 1 .. Len(r)
  BY <1>1
<1>3. \A i \in a .. Len(r) : r[i] \in S
  BY <1>1, <1>2, ElementOfSeq
<1>4. /\ t \in Seq(S)
      /\ Len(t) = IF a <= Len(r) THEN Len(r) - a + 1 ELSE 0
      /\ \A i \in 1 .. (Len(r) - a + 1) : t[i] = r[a + i - 1]
  BY <1>1, <1>3, SubSeqProperties
<1> HIDE DEF t
<1>5. Len(t) = k
  BY <1>1, <1>4
<1>6. DOMAIN t = 1 .. k
  BY <1>4, <1>5, LenProperties
<1>7. \A i \in 1 .. k : a + i - 1 \in 1 .. Len(r) /\ t[i] = r[a + i - 1]
  BY <1>1, <1>4
<1>8. Range(t) \subseteq Range(r)
  BY <1>1, <1>6, <1>7 DEF Range
<1> QED BY <1>4, <1>5, <1>8 DEF t

\* The ring after one more id.
LEMMA RememberedType ==
  ASSUME Typed, Ordered(mem), NEW e \in Ids
  PROVE  /\ Remembered(e) \in Seq(Ids) /\ Len(Remembered(e)) <= DedupRing
         /\ Range(Remembered(e)) \subseteq Range(mem.ring) \union {e}
         /\ Len(mem.ring) < DedupRing => Remembered(e) = Append(mem.ring, e)
<1> DEFINE r == Append(mem.ring, e)
<1>1. mem.ring \in Seq(Ids) /\ Len(mem.ring) \in Nat /\ DedupRing \in Nat \ {0}
  BY StreamsAssumption, LenProperties DEF Typed, Manifests
<1>2. /\ r \in Seq(Ids) /\ Len(r) = Len(mem.ring) + 1
      /\ Range(r) = Range(mem.ring) \union {e}
  BY <1>1, AppendRange, AppendProperties
<1>3. Remembered(e) = IF Len(r) > DedupRing
                      THEN SubSeq(r, Len(r) - DedupRing + 1, Len(r)) ELSE r
  BY DEF Remembered
<1> HIDE DEF r
<1>4. CASE Len(r) > DedupRing
  <2>1. DedupRing \in Nat /\ DedupRing < Len(r)
    BY <1>1, <1>2, <1>4
  <2>2. /\ SubSeq(r, Len(r) - DedupRing + 1, Len(r)) \in Seq(Ids)
        /\ Len(SubSeq(r, Len(r) - DedupRing + 1, Len(r))) = DedupRing
        /\ Range(SubSeq(r, Len(r) - DedupRing + 1, Len(r))) \subseteq Range(r)
    BY <1>2, <2>1, SuffixRange
  <2>3. ~(Len(mem.ring) < DedupRing)
    BY <1>1, <1>2, <1>4
  <2> QED BY <1>1, <1>2, <1>3, <1>4, <2>2, <2>3
<1>5. CASE ~(Len(r) > DedupRing)
  BY <1>1, <1>2, <1>3, <1>5 DEF r
<1> QED BY <1>4, <1>5

\* What is handed to the inbox counts once more, and nothing counts less.
LEMMA HandedGrows ==
  ASSUME Typed, NEW es, fires' = Handed(es)
  PROVE  /\ fires' \in [Ids -> Nat] /\ \A e \in Ids : fires[e] <= fires'[e]
         /\ \A e \in es \intersect Ids : fires'[e] > 0
         /\ \A e \in Ids \ es : fires'[e] = fires[e]
BY DEF Typed, Handed

-----------------------------------------------------------------------------
(* One step at a time.                                                     *)

\* The numbers of the two manifests and of the append under way.
LEMMA Numbers ==
  ASSUME SInv
  PROVE  /\ \A m \in {mem, saved} :
              /\ m \in Manifests /\ Sound(m)
              /\ m.head \in Nat /\ m.first \in Nat /\ m.off \in Nat
              /\ m.head <= MaxSeq /\ m.first <= m.head /\ m.off <= m.head
         /\ app.seq \in Nat /\ app.first \in Nat /\ app.probes \in Nat
         /\ app.seq <= MaxSeq /\ app.first <= MaxSeq
         /\ MaxSeq \in Nat /\ HeadProbes \in Nat \ {0}
         /\ MaxEvents \in Nat \ {0} /\ BatchSize \in Nat \ {0}
BY StreamsAssumption DEF SInv, Typed, Manifests, Appends, Sound, Ordered

\* No append is under way when the process is idle.
LEMMA IdleType ==
  /\ Idle \in Appends /\ Idle.pc = "idle"
  /\ app' = Idle => AppendOK'
<1>1. Idle \in Appends /\ Idle.pc = "idle"
  BY StreamsAssumption DEF Idle, Appends
<1> QED BY <1>1 DEF AppendOK

\* append_carrying begins.
LEMMA BeginStep == ASSUME SInv, NEW e \in Ids, Begin(e) PROVE SInv'
<1> USE Numbers
<1>1. /\ app' = [pc |-> "create", id |-> e, seq |-> mem.head + 1,
                 first |-> IF mem.first = 0 THEN 1 ELSE mem.first, probes |-> 0]
      /\ sent' = sent \union {e}
      /\ prior' = [prior EXCEPT ![e] = IF e \in sent THEN @ ELSE acked]
      /\ UNCHANGED <<events, mem, saved, acked, crashes, fires, owed, trimmed, settled>>
      /\ e \notin acked /\ Room
  BY DEF Begin
<1>2. mem.head + 1 <= MaxSeq
  BY <1>1 DEF Room
<1>3. app' \in Appends
  BY <1>1, <1>2 DEF Appends
<1>4. Typed'
  BY <1>1, <1>3 DEF SInv, Typed
<1>5. Flushed'
  BY <1>1 DEF SInv, Flushed
<1>6. AppendOK'
  <2>1. app'.pc = "create" /\ app'.id = e /\ app'.seq = mem.head + 1 /\ app'.probes = 0
        /\ app'.first = IF mem.first = 0 THEN 1 ELSE mem.first
    BY <1>1
  <2>2. 1 <= app'.first /\ app'.first <= app'.seq
    BY <2>1
  <2>3. Dropped(app.first)'
    <3>1. CASE mem.first = 0
      BY <2>1, <3>1 DEF Dropped, Seqs
    <3>2. CASE mem.first # 0
      BY <1>1, <2>1, <3>2 DEF Dropped, SInv, Sound
    <3> QED BY <3>1, <3>2
  <2>4. \/ mem'.head + HeadProbes <= MaxSeq
        \/ \E s \in app'.seq .. MaxSeq : events'[s] = NoEvent
    BY <1>1, <2>1 DEF Room
  <2>5. app'.id \in sent' \ acked'
    BY <1>1, <2>1
  <2>6. app'.probes < HeadProbes /\ app'.seq = mem'.head + 1 + app'.probes
    BY <1>1, <2>1
  <2> QED BY <2>1, <2>2, <2>3, <2>4, <2>5, <2>6 DEF AppendOK
<1>7. Sent'
  BY <1>1 DEF SInv, Sent, Typed
<1>8. Kept'
  BY <1>1 DEF SInv, Kept
<1>9. Sound(mem)'
  <2>1. PICK m : m = mem
    OBVIOUS
  <2>2. Sound(m)'
    BY <1>1, <2>1, BeginSound DEF SInv
  <2> QED BY <1>1, <2>1, <2>2, MemSound
<1>10. Sound(saved)'
  <2>1. PICK m : m = saved
    OBVIOUS
  <2>2. Sound(m)'
    BY <1>1, <2>1, BeginSound DEF SInv
  <2> QED BY <1>1, <2>1, <2>2, SavedSound
<1> QED BY <1>4, <1>5, <1>6, <1>7, <1>8, <1>9, <1>10 DEF SInv

\* The key an append tries exists.
LEMMA KeyExists == ASSUME SInv, app.pc # "idle" PROVE app.seq \in Seqs /\ app.first \in Seqs
BY Numbers DEF SInv, AppendOK, Seqs

\* A free key is written and every manifest stays sound, whatever becomes of
\* the append.
LEMMA StoredSound ==
  ASSUME SInv, app.pc = "create", events[app.seq] = NoEvent, events' = Stored,
         UNCHANGED <<mem, saved, acked, fires, owed, sent, prior, trimmed>>
  PROVE  /\ Sound(mem)' /\ Sound(saved)' /\ Sent'
         /\ events' \in [Seqs -> Ids \union {NoEvent}]
         /\ Kept' /\ Dropped(app.first)
<1> USE Numbers
<1>1. /\ app.seq \in Seqs /\ app.id \in Ids /\ app.id \in sent
      /\ events' = [events EXCEPT ![app.seq] = app.id]
      /\ events \in [Seqs -> Ids \union {NoEvent}]
  BY KeyExists DEF SInv, AppendOK, Stored, Typed
<1>2. mem.head < app.seq /\ saved.head < app.seq
  BY DEF SInv, AppendOK, Flushed
<1>3. Sound(mem)'
  <2>1. PICK m : m = mem
    OBVIOUS
  <2>2. Sound(m)'
    BY <1>1, <1>2, <2>1, CreateSound DEF SInv
  <2> QED BY <2>1, <2>2, MemSound
<1>4. Sound(saved)'
  <2>1. PICK m : m = saved
    OBVIOUS
  <2>2. Sound(m)'
    BY <1>1, <1>2, <2>1, CreateSound DEF SInv
  <2> QED BY <2>1, <2>2, SavedSound
<1>5. \A s \in Seqs : events'[s] = IF s = app.seq THEN app.id ELSE events[s]
  BY <1>1
<1>6. Sent'
  BY <1>1, <1>5 DEF SInv, Sent
<1>7. Kept'
  <2> SUFFICES ASSUME NEW e \in owed, ~(fires[e] > 0), e \notin trimmed
               PROVE  \E s \in Seqs : events'[s] = e
    BY DEF Kept
  <2>1. e \in Ids /\ e # NoEvent
    BY StreamsAssumption DEF SInv, Typed
  <2>2. PICK s \in Seqs : events[s] = e
    BY <2>1 DEF SInv, Kept
  <2> QED BY <1>5, <2>1, <2>2
<1> QED BY <1>1, <1>3, <1>4, <1>6, <1>7 DEF SInv, AppendOK

\* The key was free.
LEMMA CreateStep == ASSUME SInv, Create PROVE SInv'
<1> USE Numbers
<1>1. /\ app.pc = "create" /\ events[app.seq] = NoEvent /\ events' = Stored
      /\ app' = [app EXCEPT !.pc = "trim"]
      /\ UNCHANGED <<mem, saved, acked, crashes, fires, owed, sent, prior, trimmed, settled>>
  BY DEF Create, ghosts
<1>2. /\ Sound(mem)' /\ Sound(saved)' /\ Sent' /\ Kept' /\ Dropped(app.first)
      /\ events' \in [Seqs -> Ids \union {NoEvent}]
  BY <1>1, StoredSound
<1>3. app \in Appends /\ app' \in Appends /\ app'.pc = "trim" /\ app'.id = app.id
      /\ app'.seq = app.seq /\ app'.first = app.first
  BY <1>1 DEF SInv, Typed, Appends
<1>4. Typed' /\ Flushed'
  BY <1>1, <1>2, <1>3 DEF SInv, Typed, Flushed
<1>5. app.seq \in Seqs /\ events'[app.seq] = app.id /\ \A s \in Seqs : s # app.seq => events'[s] = events[s]
  BY <1>1, KeyExists DEF Stored, SInv, Typed
<1>6. AppendOK'
  <2>1. /\ app.id \in sent \ acked /\ 1 <= app.first /\ app.first <= app.seq
        /\ mem.head < app.seq
    BY <1>1 DEF SInv, AppendOK
  <2>2. Dropped(app.first)'
    BY <1>1, <1>2, <1>3, <1>5, <2>1 DEF Dropped, Seqs
  <2> QED BY <1>1, <1>3, <1>5, <2>1, <2>2 DEF AppendOK
<1> QED BY <1>2, <1>4, <1>6 DEF SInv

\* Nothing but the append under way, or the head, moves: the manifests are
\* sound if they are no other than before or published the append's head.
LEMMA PublishedSound ==
  ASSUME SInv, app.pc # "idle", mem.head < app.seq,
         mem' = [mem EXCEPT !.head = app.seq, !.first = app.first],
         UNCHANGED <<events, saved, fires, owed, sent, prior, trimmed>>
  PROVE  /\ Sound(mem)' /\ Sound(saved)' /\ mem' \in Manifests
         /\ mem'.head = app.seq /\ mem'.first = app.first /\ mem'.off = mem.off
         /\ mem'.anchored = mem.anchored
<1> USE Numbers
<1>1. mem \in Manifests /\ app \in Appends
  BY DEF SInv, Typed
<1>2. /\ mem' \in Manifests /\ mem'.head = app.seq /\ mem'.first = app.first
      /\ mem'.off = mem.off /\ mem'.anchored = mem.anchored
      /\ mem'.ring = mem.ring /\ mem'.batch = mem.batch
  BY <1>1 DEF Manifests, Appends
<1>3. Typed /\ Sent /\ fires' \in [Ids -> Nat] /\ \A e \in Ids : fires[e] <= fires'[e]
  BY DEF SInv, Typed
<1>4. PICK m : m = mem
  OBVIOUS
<1>5. PICK n : n = mem'
  OBVIOUS
<1>6. /\ app.first <= app.seq /\ Dropped(app.first)
  BY DEF SInv, AppendOK
<1>7. Ordered(n) /\ Dropped(n.first) /\ m.off <= n.off /\ m.head <= n.head
  BY <1>2, <1>4, <1>5, <1>6 DEF SInv, Sound, Ordered
<1>8. m.off + 1 .. n.off = {}
  BY <1>2, <1>4, <1>5
<1>9. \A e \in Range(n.ring) : fires'[e] > 0 \/ e \in Range(n.batch)
  BY <1>2, <1>4, <1>5 DEF SInv, Sound, Recent
<1>10. n.batch = m.batch /\ m \in Manifests /\ n \in Manifests /\ Sound(m)
  BY <1>2, <1>4, <1>5
<1>11. Sound(n)'
  BY <1>3, <1>7, <1>8, <1>9, <1>10, Advance
<1>12. Sound(mem)'
  BY <1>5, <1>11, MemSound
<1>13. Sound(saved)'
  <2>1. PICK k : k = saved
    OBVIOUS
  <2>2. Sound(k)'
    BY <1>3, <2>1, SameSound
  <2> QED BY <2>1, <2>2, SavedSound
<1> QED BY <1>2, <1>12, <1>13

\* A step that hands nothing over, stores nothing and changes no manifest.
LEMMA StillSound ==
  ASSUME SInv, UNCHANGED <<events, mem, saved, fires, owed, sent, prior, trimmed>>
  PROVE  Sound(mem)' /\ Sound(saved)'
<1> USE Numbers
<1>1. Typed /\ Sent /\ fires' \in [Ids -> Nat] /\ \A e \in Ids : fires[e] <= fires'[e]
  BY DEF SInv, Typed
<1>2. PICK m : m = mem
  OBVIOUS
<1>3. Sound(m)'
  BY <1>1, <1>2, SameSound
<1>4. PICK k : k = saved
  OBVIOUS
<1>5. Sound(k)'
  BY <1>1, <1>4, SameSound
<1> QED BY <1>2, <1>3, <1>4, <1>5, MemSound, SavedSound

\* The key is taken.
LEMMA OccupiedStep == ASSUME SInv, Occupied PROVE SInv'
<1> USE Numbers
<1>1. /\ app.pc = "create" /\ events[app.seq] # NoEvent
      /\ UNCHANGED <<events, saved, acked, crashes, fires, owed, sent, prior, trimmed, settled>>
  BY DEF Occupied, ghosts
<1>2. /\ app \in Appends /\ mem.head < app.seq /\ app.probes < HeadProbes
      /\ app.seq = mem.head + 1 + app.probes
      /\ app.id \in sent \ acked /\ 1 <= app.first /\ app.first <= app.seq
      /\ Dropped(app.first)
  BY <1>1 DEF SInv, Typed, AppendOK
<1>3. Sent' /\ Kept'
  BY <1>1 DEF SInv, Sent, Kept
<1>4. CASE /\ app.probes + 1 < HeadProbes
           /\ app' = [app EXCEPT !.seq = @ + 1, !.probes = @ + 1]
           /\ UNCHANGED mem
  <2>1. \/ mem.head + HeadProbes <= MaxSeq
        \/ \E s \in app.seq + 1 .. MaxSeq : events[s] = NoEvent
    <3>1. CASE mem.head + HeadProbes <= MaxSeq
      BY <3>1
    <3>2. CASE \E s \in app.seq .. MaxSeq : events[s] = NoEvent
      BY <1>1, <3>2
    <3> QED BY <1>1, <3>1, <3>2 DEF SInv, AppendOK
  <2>2. app.seq + 1 <= MaxSeq
    BY <1>2, <1>4, <2>1
  <2>3. /\ app' \in Appends /\ app'.pc = "create" /\ app'.id = app.id
        /\ app'.seq = app.seq + 1 /\ app'.first = app.first
        /\ app'.probes = app.probes + 1
    <3>1. app.seq + 1 \in 0 .. MaxSeq /\ app.probes + 1 \in Nat
      BY <2>2
    <3>2. app' = [app EXCEPT !.seq = app.seq + 1, !.probes = app.probes + 1]
      BY <1>2, <1>4 DEF Appends
    <3> HIDE Numbers
    <3> QED BY <1>1, <1>2, <3>1, <3>2 DEF Appends
  <2>4. AppendOK'
    <3>1. Dropped(app.first)'
      BY <1>1, <1>2, <2>3 DEF Dropped
    <3>2. /\ app'.probes < HeadProbes /\ app'.seq = mem'.head + 1 + app'.probes
          /\ 1 <= app'.first /\ app'.first <= app'.seq
      BY <1>2, <1>4, <2>3
    <3>3. \/ mem'.head + HeadProbes <= MaxSeq
          \/ \E s \in app'.seq .. MaxSeq : events'[s] = NoEvent
      BY <1>1, <1>4, <2>1, <2>3
    <3>4. app'.id \in sent' \ acked'
      BY <1>1, <1>2, <2>3
    <3> QED BY <2>3, <3>1, <3>2, <3>3, <3>4 DEF AppendOK
  <2>5. Typed' /\ Flushed'
    BY <1>1, <1>4, <2>3 DEF SInv, Typed, Flushed
  <2>6. Sound(mem)' /\ Sound(saved)'
    BY <1>1, <1>4, StillSound
  <2> QED BY <1>3, <1>4, <2>4, <2>5, <2>6 DEF SInv
<1>5. CASE /\ mem' = [mem EXCEPT !.head = app.seq, !.first = app.first]
           /\ app' = Idle
  <2>0. app.pc # "idle"
    BY <1>1
  <2>1. /\ Sound(mem)' /\ Sound(saved)' /\ mem' \in Manifests
        /\ mem'.head = app.seq /\ mem'.anchored = mem.anchored
    BY <1>1, <1>2, <1>5, <2>0, PublishedSound
  <2>2. AppendOK' /\ Idle \in Appends
    BY <1>5, IdleType
  <2>3. Typed'
    BY <1>1, <1>5, <2>1, <2>2 DEF SInv, Typed
  <2>4. Flushed'
    BY <1>1, <1>2, <2>1 DEF SInv, Flushed
  <2>5. Sent' /\ Kept'
    BY <1>1 DEF SInv, Sent, Kept
  <2> QED BY <2>1, <2>2, <2>3, <2>4, <2>5 DEF SInv
<1> QED BY <1>4, <1>5 DEF Occupied

\* The store did not answer, and may hold the event all the same.
LEMMA CreateFailedStep == ASSUME SInv, CreateFailed PROVE SInv'
<1>1. /\ app.pc = "create" /\ app' = Idle
      /\ UNCHANGED <<mem, saved, acked, crashes, fires, owed, sent, prior, trimmed, settled>>
      /\ \/ events' = events
         \/ events[app.seq] = NoEvent /\ events' = Stored
  BY DEF CreateFailed, ghosts
<1>2. AppendOK' /\ Idle \in Appends
  BY <1>1, IdleType
<1>3. CASE events' = events
  <2>1. Typed' /\ Flushed' /\ Sent' /\ Kept'
    BY <1>1, <1>2, <1>3 DEF SInv, Typed, Flushed, Sent, Kept
  <2>2. Sound(mem)' /\ Sound(saved)'
    BY <1>1, <1>3, StillSound
  <2> QED BY <1>2, <2>1, <2>2 DEF SInv
<1>4. CASE events[app.seq] = NoEvent /\ events' = Stored
  <2>1. /\ Sound(mem)' /\ Sound(saved)' /\ Sent' /\ Kept'
        /\ events' \in [Seqs -> Ids \union {NoEvent}]
    BY <1>1, <1>4, StoredSound
  <2>2. Typed' /\ Flushed'
    BY <1>1, <1>2, <2>1 DEF SInv, Typed, Flushed
  <2> QED BY <1>2, <2>1, <2>2 DEF SInv
<1> QED BY <1>1, <1>3, <1>4

\* Retention drops the first event.
LEMMA TrimStep == ASSUME SInv, Trim PROVE SInv'
<1> USE Numbers
<1>1. /\ app.pc = "trim" /\ app' = [app EXCEPT !.first = @ + 1]
      /\ trimmed' = trimmed \union ({events[app.first]} \ {NoEvent})
      /\ UNCHANGED <<mem, saved, acked, crashes, fires, owed, sent, prior, settled>>
      /\ events' \in {[events EXCEPT ![app.first] = NoEvent], events}
  BY DEF Trim
<1>2. /\ app \in Appends /\ app.seq \in Seqs /\ app.first \in Seqs
      /\ mem.head < app.seq /\ events[app.seq] = app.id /\ app.id \in sent \ acked
      /\ 1 <= app.first /\ app.first <= app.seq /\ Dropped(app.first)
      /\ events \in [Seqs -> Ids \union {NoEvent}]
  BY <1>1, KeyExists DEF SInv, Typed, AppendOK
<1>3. app.first < app.seq
  <2>1. TooMany => app.first < app.seq
    BY <1>2 DEF TooMany
  <2> QED BY <2>1 DEF Trim
<1>4. \A s \in Seqs : \/ events'[s] = events[s]
                      \/ s = app.first /\ events'[s] = NoEvent
  BY <1>1, <1>2
<1>5. /\ app' \in Appends /\ app'.pc = "trim" /\ app'.id = app.id
      /\ app'.seq = app.seq /\ app'.first = app.first + 1
  BY <1>1, <1>2, <1>3 DEF Appends
<1>6. trimmed' \subseteq Ids /\ trimmed \subseteq trimmed'
  BY <1>1, <1>2 DEF SInv, Typed
<1>7. events' \in [Seqs -> Ids \union {NoEvent}]
  BY <1>1, <1>2
<1>8. Typed' /\ Flushed'
  BY <1>1, <1>5, <1>6, <1>7 DEF SInv, Typed, Flushed
<1>9. AppendOK'
  <2>1. events'[app.seq] = app.id
    BY <1>2, <1>3, <1>4
  <2>2. Dropped(app.first)'
    <3> SUFFICES ASSUME NEW s \in Seqs, s < app.first + 1
                 PROVE  events'[s] \in trimmed' \union {NoEvent}
      BY <1>5 DEF Dropped
    <3>1. s < app.first \/ s = app.first
      BY DEF Seqs
    <3> QED BY <1>1, <1>2, <1>4, <1>6, <3>1 DEF Dropped
  <2>3. 1 <= app'.first /\ app'.first <= app'.seq
    BY <1>2, <1>3, <1>5
  <2> QED BY <1>1, <1>2, <1>5, <2>1, <2>2, <2>3 DEF AppendOK
<1>10. Sent'
  BY <1>1, <1>4 DEF SInv, Sent
<1>11. Kept'
  <2> SUFFICES ASSUME NEW e \in owed, ~(fires[e] > 0), e \notin trimmed'
               PROVE  \E s \in Seqs : events'[s] = e
    BY <1>1 DEF Kept
  <2>1. e \in Ids /\ e # NoEvent /\ e \notin trimmed
    BY <1>6, StreamsAssumption DEF SInv, Typed
  <2>2. PICK s \in Seqs : events[s] = e
    BY <2>1 DEF SInv, Kept
  <2>3. events'[s] = e
    BY <1>1, <1>4, <2>1, <2>2
  <2> QED BY <2>3
<1>12. Sound(mem)'
  <2>1. PICK m : m = mem
    OBVIOUS
  <2>2. Sound(m)'
    BY <1>1, <1>2, <2>1, TrimSound DEF SInv
  <2> QED BY <1>1, <2>1, <2>2, MemSound
<1>13. Sound(saved)'
  <2>1. PICK m : m = saved
    OBVIOUS
  <2>2. Sound(m)'
    BY <1>1, <1>2, <2>1, TrimSound DEF SInv
  <2> QED BY <1>1, <2>1, <2>2, SavedSound
<1> QED BY <1>8, <1>9, <1>10, <1>11, <1>12, <1>13 DEF SInv

\* The append returns: the head covers the event.
LEMMA PublishStep == ASSUME SInv, Publish PROVE SInv'
<1> USE Numbers
<1>1. /\ app.pc = "trim" /\ app' = [app EXCEPT !.pc = "reply"]
      /\ mem' = [mem EXCEPT !.head = app.seq, !.first = app.first]
      /\ UNCHANGED <<events, saved, acked, crashes, fires, owed, sent, prior, trimmed, settled>>
  BY DEF Publish, ghosts
<1>2. /\ app \in Appends /\ mem.head < app.seq /\ events[app.seq] = app.id
      /\ app.id \in sent \ acked /\ 1 <= app.first /\ app.first <= app.seq
      /\ Dropped(app.first)
  BY <1>1 DEF SInv, Typed, AppendOK
<1>3. /\ Sound(mem)' /\ Sound(saved)' /\ mem' \in Manifests
      /\ mem'.head = app.seq /\ mem'.off = mem.off /\ mem'.anchored = mem.anchored
  BY <1>1, <1>2, PublishedSound
<1>4. /\ app' \in Appends /\ app'.pc = "reply" /\ app'.id = app.id
      /\ app'.seq = app.seq /\ app'.first = app.first
  BY <1>1, <1>2 DEF Appends
<1>5. Typed' /\ Flushed'
  BY <1>1, <1>2, <1>3, <1>4 DEF SInv, Typed, Flushed
<1>6. AppendOK'
  <2>1. Dropped(app.first)'
    BY <1>1, <1>2, <1>4 DEF Dropped
  <2>2. mem'.head = app'.seq /\ mem'.off < app'.seq /\ events'[app'.seq] = app'.id
    BY <1>1, <1>2, <1>3, <1>4
  <2> QED BY <1>1, <1>2, <1>4, <2>1, <2>2 DEF AppendOK
<1>7. Sent' /\ Kept'
  BY <1>1 DEF SInv, Sent, Kept
<1> QED BY <1>3, <1>5, <1>6, <1>7 DEF SInv

\* Nothing but the manifests moves: each becomes the one or the other.
LEMMA CopiedSound ==
  ASSUME SInv, mem' \in {mem, saved}, saved' \in {mem, saved},
         UNCHANGED <<events, fires, owed, sent, prior, trimmed>>
  PROVE  Sound(mem)' /\ Sound(saved)' /\ mem' \in Manifests /\ saved' \in Manifests
<1> USE Numbers
<1>1. Typed /\ Sent /\ fires' \in [Ids -> Nat] /\ \A e \in Ids : fires[e] <= fires'[e]
  BY DEF SInv, Typed
<1>2. PICK m : m = mem'
  OBVIOUS
<1>3. Sound(m)'
  BY <1>1, <1>2, SameSound
<1>4. PICK k : k = saved'
  OBVIOUS
<1>5. Sound(k)'
  BY <1>1, <1>4, SameSound
<1> QED BY <1>2, <1>3, <1>4, <1>5, MemSound, SavedSound

\* The producer is told: a sender outside once the manifest is flushed, an
\* emit step with or without that.
LEMMA ToldSound ==
  ASSUME SInv, app.pc = "reply", Tell, saved' \in {mem, saved},
         app.id \in Outside => saved' = mem,
         UNCHANGED <<events, mem, fires, sent, prior, trimmed>>
  PROVE  /\ Sound(mem)' /\ Sound(saved)' /\ Sent' /\ Kept' /\ Flushed'
         /\ acked' \subseteq Ids /\ owed' \subseteq Ids /\ saved' \in Manifests
<1> USE Numbers
<1>1. /\ app.seq \in Seqs /\ app.id \in Ids \ acked /\ app.id \in sent
      /\ mem.head = app.seq /\ mem.off < app.seq /\ events[app.seq] = app.id
  BY KeyExists DEF SInv, Typed, AppendOK
<1>2. Ahead(mem, app.id)
  <2>1. app.seq \in mem.off + 1 .. mem.head
    BY <1>1
  <2> QED BY <1>1, <2>1 DEF Ahead
<1>3. /\ owed' \in {owed, owed \union {app.id}} /\ acked' = acked \union {app.id}
      /\ owed' # owed => (From = "earliest" \/ mem.anchored) /\ app.id \notin Ignored
  BY DEF Tell
<1>4. acked' \subseteq Ids /\ owed' \subseteq Ids
  BY <1>1, <1>3 DEF SInv, Typed
<1>5. Sound(mem)'
  <2>1. PICK m : m = mem
    OBVIOUS
  <2>2. Sound(m)'
    BY <1>1, <1>2, <1>3, <2>1, TellSound DEF SInv
  <2> QED BY <2>1, <2>2, MemSound
<1>6. Sound(saved)'
  <2>1. PICK m : m = saved'
    OBVIOUS
  <2>2. app.id \in Outside => Ahead(m, app.id)
    BY <1>2, <2>1
  <2>3. m \in Manifests /\ Sound(m)
    BY <2>1
  <2>4. Sound(m)'
    BY <1>1, <1>3, <2>2, <2>3, TellSound DEF SInv
  <2> QED BY <2>1, <2>4, SavedSound
<1>7. Flushed'
  BY DEF SInv, Flushed
<1>8. Kept'
  <2> SUFFICES ASSUME NEW e \in owed', ~(fires[e] > 0), e \notin trimmed
               PROVE  \E s \in Seqs : events[s] = e
    BY DEF Kept
  <2> QED BY <1>1, <1>3 DEF SInv, Kept
<1>9. Sent'
  <2>1. owed' \subseteq acked' \ Ignored
    BY <1>3 DEF SInv, Sent
  <2>2. \A e \in Ids : prior'[e] \subseteq acked' /\ (e \notin sent' => prior'[e] = {})
    BY <1>3 DEF SInv, Sent
  <2>3. ASSUME From = "new", owed' \intersect Outside # {} PROVE saved'.anchored
    <3>1. CASE owed \intersect Outside # {}
      <4>1. saved.anchored /\ mem.anchored
        BY <2>3, <3>1 DEF SInv, Sent, Flushed
      <4> QED BY <4>1
    <3>2. CASE owed \intersect Outside = {}
      <4>1. app.id \in Outside /\ owed' # owed
        BY <1>3, <2>3, <3>2
      <4>2. From # "earliest"
        BY <2>3
      <4> QED BY <1>3, <4>1, <4>2
    <3> QED BY <3>1, <3>2
  <2>4. \A s \in Seqs : events'[s] \in sent' \union {NoEvent}
    BY DEF SInv, Sent
  <2> QED BY <2>1, <2>2, <2>3, <2>4 DEF Sent
<1> QED BY <1>4, <1>5, <1>6, <1>7, <1>8, <1>9

\* The emit step is done.
LEMMA EmittedStep == ASSUME SInv, Emitted PROVE SInv'
<1>1. /\ app.pc = "reply" /\ app.id \notin Outside /\ Tell /\ app' = Idle
      /\ UNCHANGED <<events, mem, saved, crashes, fires, sent, prior, trimmed, settled>>
  BY DEF Emitted
<1>2. /\ Sound(mem)' /\ Sound(saved)' /\ Sent' /\ Kept' /\ Flushed'
      /\ acked' \subseteq Ids /\ owed' \subseteq Ids
  BY <1>1, ToldSound
<1>3. AppendOK' /\ Idle \in Appends
  BY <1>1, IdleType
<1>4. Typed'
  BY <1>1, <1>2, <1>3 DEF SInv, Typed
<1> QED BY <1>2, <1>3, <1>4 DEF SInv

\* What a flush records as settled are events.
LEMMA RecordedType == ASSUME Typed PROVE Recorded \subseteq Ids
BY RangeType DEF Recorded, Typed, Manifests

\* A manifest is flushed, or read back, between appends or at the end of one.
LEMMA CopiedStep ==
  ASSUME SInv, (saved' = mem /\ mem' = mem) \/ (mem' = saved /\ saved' = saved),
         app' = Idle, crashes' \in 0 .. MaxCrashes,
         UNCHANGED <<events, acked, fires, owed, sent, prior, trimmed>>,
         settled' \subseteq Ids
  PROVE  SInv'
<1> USE Numbers
<1>1. Sound(mem)' /\ Sound(saved)' /\ mem' \in Manifests /\ saved' \in Manifests
  BY CopiedSound
<1>2. AppendOK' /\ Idle \in Appends
  BY IdleType
<1>3. Typed'
  BY <1>1, <1>2 DEF SInv, Typed
<1>4. mem' = saved'
  OBVIOUS
<1>5. Flushed'
  BY <1>1, <1>4 DEF Flushed, Manifests
<1>6. Sent'
  BY <1>4 DEF SInv, Sent, Flushed
<1>7. Kept'
  BY DEF SInv, Kept
<1> QED BY <1>1, <1>2, <1>3, <1>5, <1>6, <1>7 DEF SInv

\* append_event_acked answers, or refuses, or its answer is lost.
LEMMA AnswerStep == ASSUME SInv, Answer PROVE SInv'
<1>1. /\ app.pc = "reply" /\ app.id \in Outside /\ app' = Idle
      /\ UNCHANGED <<events, mem, crashes, fires, sent, prior, trimmed>>
  BY DEF Answer
<1>2. AppendOK' /\ Idle \in Appends
  BY <1>1, IdleType
<1>3. crashes' \in 0 .. MaxCrashes
  BY <1>1 DEF SInv, Typed
<1>4. CASE saved' = mem /\ settled' = settled \union Recorded
  <2>1. settled' \subseteq Ids
    BY <1>4, RecordedType DEF SInv, Typed
  <2>2. CASE Tell
    <3>1. /\ Sound(mem)' /\ Sound(saved)' /\ Sent' /\ Kept' /\ Flushed'
          /\ acked' \subseteq Ids /\ owed' \subseteq Ids /\ saved' \in Manifests
      BY <1>1, <1>4, <2>2, ToldSound
    <3>2. Typed'
      BY <1>1, <1>2, <2>1, <3>1 DEF SInv, Typed
    <3> QED BY <1>2, <3>1, <3>2 DEF SInv
  <2>3. CASE UNCHANGED <<acked, owed>>
    BY <1>1, <1>3, <1>4, <2>1, <2>3, CopiedStep
  <2> QED BY <1>4, <2>2, <2>3 DEF Answer
<1>5. CASE UNCHANGED <<acked, owed, saved, settled>>
  <2>1. Sound(mem)' /\ Sound(saved)'
    BY <1>1, <1>5, StillSound
  <2>2. Typed' /\ Flushed' /\ Sent' /\ Kept'
    BY <1>1, <1>2, <1>5 DEF SInv, Typed, Flushed, Sent, Kept
  <2> QED BY <1>2, <2>1, <2>2 DEF SInv
<1> QED BY <1>4, <1>5 DEF Answer

\* Durable::flush.
LEMMA FlushStep == ASSUME SInv, Flush PROVE SInv'
<1>1. /\ app' = Idle /\ saved' = mem /\ settled' = settled \union Recorded
      /\ UNCHANGED <<events, mem, acked, crashes, fires, owed, sent, prior, trimmed>>
  BY DEF Flush
<1>2. settled' \subseteq Ids /\ crashes' \in 0 .. MaxCrashes
  BY <1>1, RecordedType DEF SInv, Typed
<1> QED BY <1>1, <1>2, CopiedStep

\* The process dies and the next one restores the flushed manifest.
LEMMA CrashStep == ASSUME SInv, Crash PROVE SInv'
<1>1. /\ app' = Idle /\ mem' = saved
      /\ UNCHANGED <<events, saved, acked, fires, owed, sent, prior, trimmed, settled>>
  BY DEF Crash, ghosts
<1>2. settled' \subseteq Ids /\ crashes' \in 0 .. MaxCrashes
  BY <1>1, StreamsAssumption DEF SInv, Typed, Crash
<1> QED BY <1>1, <1>2, CopiedStep

\* A poll of the consumer between appends: it goes on from the manifest in
\* memory, in a world where only firings are handed over.
LEMMA PollStep ==
  ASSUME SInv, app = Idle, mem' \in Manifests, Ordered(mem)',
         mem'.head = mem.head, mem'.first = mem.first, mem.off <= mem'.off,
         mem.anchored => mem'.anchored,
         UNCHANGED <<events, saved, app, acked, crashes, owed, sent, prior, trimmed, settled>>,
         fires' \in [Ids -> Nat], \A e \in Ids : fires[e] <= fires'[e],
         \A s \in mem.off + 1 .. mem'.off :
           events[s] \in owed \intersect Outside => Past(events[s])' \/ events[s] \in Range(mem'.batch),
         \A e \in Range(mem.batch) : Past(e)' \/ e \in Range(mem'.batch),
         \A e \in Range(mem'.batch) :
           e \in Range(mem.batch) \/ \E s \in mem.off + 1 .. mem'.off : events[s] = e,
         \A e \in Range(mem'.ring) : fires'[e] > 0 \/ e \in Range(mem'.batch)
  PROVE  SInv'
<1> USE Numbers
<1>1. Typed /\ Sent /\ Sound(mem)
  BY DEF SInv
<1>2. Sound(mem)'
  <2>1. PICK m : m = mem
    OBVIOUS
  <2>2. PICK n : n = mem'
    OBVIOUS
  <2>3. m \in Manifests /\ n \in Manifests /\ Sound(m)
    BY <1>1, <2>1, <2>2
  <2>4. Ordered(n) /\ Dropped(n.first) /\ m.off <= n.off /\ m.head <= n.head
    BY <1>1, <2>1, <2>2 DEF Ordered, Dropped, Sound
  <2>5. /\ \A s \in m.off + 1 .. n.off :
             events[s] \in owed \intersect Outside => Past(events[s])' \/ events[s] \in Range(n.batch)
        /\ \A e \in Range(m.batch) : Past(e)' \/ e \in Range(n.batch)
        /\ \A e \in Range(n.batch) :
             e \in Range(m.batch) \/ \E s \in m.off + 1 .. n.off : events[s] = e
        /\ \A e \in Range(n.ring) : fires'[e] > 0 \/ e \in Range(n.batch)
    BY <2>1, <2>2
  <2>6. Sound(n)'
    BY <1>1, <2>3, <2>4, <2>5, Advance
  <2> QED BY <2>2, <2>6, MemSound
<1>3. Sound(saved)'
  <2>1. PICK m : m = saved
    OBVIOUS
  <2>2. Sound(m)'
    BY <1>1, <2>1, SameSound
  <2> QED BY <2>1, <2>2, SavedSound
<1>4. Typed'
  BY <1>1 DEF Typed
<1>5. Flushed'
  BY DEF SInv, Flushed
<1>6. AppendOK'
  BY IdleType
<1>7. Sent'
  BY DEF SInv, Sent
<1>8. Kept'
  <2> SUFFICES ASSUME NEW e \in owed, ~(fires'[e] > 0), e \notin trimmed
               PROVE  \E s \in Seqs : events[s] = e
    BY DEF Kept
  <2>1. e \in Ids /\ fires[e] \in Nat /\ fires'[e] \in Nat /\ fires[e] <= fires'[e]
    BY <1>1 DEF Typed
  <2>2. ~(fires[e] > 0)
    BY <2>1
  <2> QED BY <2>2 DEF SInv, Kept
<1> QED BY <1>2, <1>3, <1>4, <1>5, <1>6, <1>7, <1>8 DEF SInv

\* A poll that only moves the offset, past events that are owed to nobody or
\* were handed over.
LEMMA MovedStep ==
  ASSUME SInv, app = Idle, NEW o \in 0 .. MaxSeq, mem.off <= o, o <= mem.head,
         \/ mem' = [mem EXCEPT !.off = o] /\ mem.anchored
         \/ mem' = [mem EXCEPT !.anchored = TRUE, !.off = o],
         \A s \in mem.off + 1 .. o :
           events[s] \in owed \intersect Outside => Past(events[s]) \/ events[s] \in Range(mem.batch),
         UNCHANGED <<events, saved, app, acked, crashes, owed, sent, prior, trimmed, settled, fires>>
  PROVE  SInv'
<1> USE Numbers
<1>1. Typed /\ Sound(mem) /\ mem \in Manifests
  BY DEF SInv
<1>2. /\ mem' \in Manifests /\ mem'.head = mem.head /\ mem'.first = mem.first
      /\ mem'.off = o /\ mem'.anchored = TRUE
      /\ mem'.ring = mem.ring /\ mem'.batch = mem.batch
  <2>1. CASE mem' = [mem EXCEPT !.off = o] /\ mem.anchored
    <3>1. mem.anchored = TRUE
      BY <1>1, <2>1 DEF Manifests
    <3> QED BY <1>1, <2>1, <3>1 DEF Manifests
  <2>2. CASE mem' = [mem EXCEPT !.anchored = TRUE, !.off = o]
    BY <1>1, <2>2 DEF Manifests
  <2> QED BY <2>1, <2>2
<1>3. Ordered(mem)'
  BY <1>1, <1>2 DEF Ordered, Sound
<1>4. fires' \in [Ids -> Nat] /\ \A e \in Ids : fires[e] <= fires'[e]
  BY <1>1 DEF Typed
<1>5. \A s \in mem.off + 1 .. mem'.off :
        events[s] \in owed \intersect Outside => Past(events[s])' \/ events[s] \in Range(mem'.batch)
  BY <1>2 DEF Past
<1>6. \A e \in Range(mem'.ring) : fires'[e] > 0 \/ e \in Range(mem'.batch)
  BY <1>1, <1>2 DEF Sound, Recent
<1> QED BY <1>2, <1>3, <1>4, <1>5, <1>6, PollStep

\* What retention has passed is owed no longer.
LEMMA DroppedPast ==
  ASSUME SInv, NEW s \in Seqs, s < mem.first, events[s] \in owed
  PROVE  Past(events[s])
<1>1. events[s] \in trimmed \union {NoEvent} /\ events[s] \in Ids
  BY DEF SInv, Sound, Dropped, Typed
<1> QED BY <1>1, StreamsAssumption DEF Past

\* poll_stream_starts, first arm.
LEMMA AnchorStep == ASSUME SInv, Anchor PROVE SInv'
<1> USE Numbers
<1> DEFINE o == IF From = "new" THEN mem.head
                ELSE IF mem.first = 0 THEN 0 ELSE mem.first - 1
<1>1. /\ app = Idle /\ ~mem.anchored
      /\ mem' = [mem EXCEPT !.anchored = TRUE, !.off = o]
      /\ UNCHANGED <<events, saved, app, acked, crashes, fires, owed, sent, prior, trimmed, settled>>
  BY DEF Anchor, ghosts
<1>2. mem.off = 0
  BY <1>1 DEF SInv, Sound, Ordered
<1>3. o \in 0 .. MaxSeq /\ mem.off <= o /\ o <= mem.head
  BY <1>2
<1>4. ASSUME NEW s \in mem.off + 1 .. o, events[s] \in owed \intersect Outside
      PROVE  Past(events[s]) \/ events[s] \in Range(mem.batch)
  <2>1. s \in Seqs
    BY <1>2, <1>3 DEF Seqs
  <2>2. CASE From = "new"
    <3>1. owed \intersect Outside = {}
      BY <1>1, <2>2 DEF SInv, Sent, Flushed
    <3> QED BY <1>4, <3>1
  <2>3. CASE From # "new"
    <3>1. s < mem.first
      BY <1>2, <2>3
    <3> QED BY <1>4, <2>1, <3>1, DroppedPast
  <2> QED BY <2>2, <2>3
<1> HIDE DEF o
<1> QED BY <1>1, <1>3, <1>4, MovedStep

\* Retention has passed the consumer.
LEMMA SkipStep == ASSUME SInv, Skip PROVE SInv'
<1> USE Numbers
<1>1. /\ app = Idle /\ mem.anchored /\ mem.off + 1 < mem.first
      /\ mem' = [mem EXCEPT !.off = mem.first - 1]
      /\ UNCHANGED <<events, saved, app, acked, crashes, fires, owed, sent, prior, trimmed, settled>>
  BY DEF Skip, ghosts
<1>2. mem.first - 1 \in 0 .. MaxSeq /\ mem.off <= mem.first - 1 /\ mem.first - 1 <= mem.head
  BY <1>1
<1>3. \A s \in mem.off + 1 .. mem.first - 1 : s \in Seqs /\ s < mem.first
  BY DEF Seqs
<1>4. \A s \in mem.off + 1 .. mem.first - 1 :
         events[s] \in owed \intersect Outside => Past(events[s]) \/ events[s] \in Range(mem.batch)
  BY <1>3, DroppedPast
<1> QED BY <1>1, <1>2, <1>4, MovedStep

\* The window of a partial batch is over.
LEMMA WindowStep == ASSUME SInv, Window PROVE SInv'
<1> USE Numbers
<1>1. /\ app = Idle /\ mem' = [mem EXCEPT !.batch = <<>>]
      /\ fires' = Handed(Range(mem.batch))
      /\ UNCHANGED <<events, saved, app, acked, crashes, owed, sent, prior, trimmed, settled>>
  BY DEF Window
<1>2. Typed /\ Sound(mem) /\ mem \in Manifests /\ Ordered(mem)
  BY DEF SInv, Sound
<1>3. /\ mem' \in Manifests /\ mem'.head = mem.head /\ mem'.first = mem.first
      /\ mem'.off = mem.off /\ mem'.anchored = mem.anchored
      /\ mem'.ring = mem.ring /\ mem'.batch = <<>>
  <2>1. <<>> \in Seq(Ids)
    OBVIOUS
  <2> HIDE Numbers
  <2> QED BY <1>1, <1>2, <2>1 DEF Manifests
<1>4. Range(mem.batch) \subseteq Ids /\ Range(mem.ring) \subseteq Ids /\ Range(mem'.batch) = {}
  BY <1>2, <1>3, RangeType, EmptyRange DEF Manifests
<1>5. /\ fires' \in [Ids -> Nat] /\ \A e \in Ids : fires[e] <= fires'[e]
      /\ \A e \in Range(mem.batch) : fires'[e] > 0
  BY <1>1, <1>2, <1>4, HandedGrows
<1>6. Ordered(mem)'
  <2>1. Len(mem'.batch) = 0
    BY <1>3
  <2> QED BY <1>2, <1>3, <2>1 DEF Ordered
<1>7. mem.off + 1 .. mem'.off = {} /\ mem.off <= mem'.off
  BY <1>3
<1>8. \A e \in Range(mem.batch) : Past(e)'
  BY <1>5 DEF Past
<1>9. \A e \in Range(mem'.ring) : fires'[e] > 0 \/ e \in Range(mem'.batch)
  <2> SUFFICES ASSUME NEW e \in Range(mem.ring) PROVE fires'[e] > 0
    BY <1>3
  <2>1. e \in Ids /\ fires[e] \in Nat /\ fires'[e] \in Nat /\ fires[e] <= fires'[e]
    BY <1>2, <1>4, <1>5 DEF Typed
  <2>2. fires[e] > 0 \/ e \in Range(mem.batch)
    BY <1>2 DEF Sound, Recent
  <2> QED BY <1>5, <2>1, <2>2
<1> QED BY <1>1, <1>3, <1>4, <1>5, <1>6, <1>7, <1>8, <1>9, PollStep

\* poll_stream_starts takes the next event.
LEMMA ConsumeStep == ASSUME SInv, Consume PROVE SInv'
<1> USE Numbers
<1> DEFINE e == events[mem.off + 1]
           fills == Len(mem.batch) + 1 = BatchSize
<1>1. /\ app = Idle /\ mem.anchored /\ mem.off < mem.head
      /\ UNCHANGED <<events, saved, app, acked, crashes, owed, sent, prior, trimmed, settled>>
      /\ IF e # NoEvent /\ Wanted(e) THEN Taken(e)
         ELSE mem' = [mem EXCEPT !.off = @ + 1] /\ UNCHANGED fires
  BY DEF Consume
<1>2. Typed /\ Sound(mem) /\ mem \in Manifests /\ Ordered(mem)
  BY DEF SInv, Sound
<1>3. mem.off + 1 \in Seqs /\ mem.off + 1 .. mem.off + 1 = {mem.off + 1}
  BY <1>1 DEF Seqs
<1>4. e \in Ids \union {NoEvent}
  BY <1>2, <1>3 DEF Typed
<1> HIDE DEF e
<1>5. CASE ~(e # NoEvent /\ Wanted(e))
  <2>1. mem' = [mem EXCEPT !.off = mem.off + 1] /\ UNCHANGED fires
    BY <1>1, <1>2, <1>5 DEF Manifests
  <2>2. ASSUME e \in owed PROVE Past(e) \/ e \in Range(mem.batch)
    <3>1. e \in Ids /\ e # NoEvent /\ e \notin Ignored
      BY <1>2, <2>2, StreamsAssumption DEF Typed, SInv, Sent
    <3>2. e \in Range(mem.ring)
      BY <1>5, <3>1 DEF Wanted
    <3> QED BY <1>2, <3>2 DEF Sound, Recent, Past
  <2>3. \A s \in mem.off + 1 .. mem.off + 1 :
           events[s] \in owed \intersect Outside => Past(events[s]) \/ events[s] \in Range(mem.batch)
    BY <1>3, <2>2 DEF e
  <2>4. mem.off + 1 \in 0 .. MaxSeq /\ mem.off <= mem.off + 1 /\ mem.off + 1 <= mem.head
    BY <1>1
  <2> QED BY <1>1, <2>1, <2>3, <2>4, MovedStep
<1>6. CASE e # NoEvent /\ Wanted(e)
  <2>1. /\ e \in Ids
        /\ mem' = [mem EXCEPT !.off = @ + 1, !.ring = Remembered(e),
                     !.batch = IF fills THEN <<>> ELSE Append(@, e)]
        /\ fires' = IF fills THEN Handed(Range(mem.batch) \union {e}) ELSE fires
    BY <1>1, <1>4, <1>6 DEF Taken
  <2>2. /\ Remembered(e) \in Seq(Ids) /\ Len(Remembered(e)) <= DedupRing
        /\ Range(Remembered(e)) \subseteq Range(mem.ring) \union {e}
    BY <1>2, <2>1, RememberedType
  <2>3. mem.batch \in Seq(Ids) /\ Len(mem.batch) \in Nat /\ Len(mem.batch) < BatchSize
    BY <1>2, LenProperties DEF Manifests, Ordered
  <2>4. PICK b : b = IF fills THEN <<>> ELSE Append(mem.batch, e)
    OBVIOUS
  <2>5. b \in Seq(Ids) /\ Len(b) < BatchSize
    <3>1. CASE fills
      BY <2>4, <3>1
    <3>2. CASE ~fills
      <4>1. b = Append(mem.batch, e)
        BY <2>4, <3>2
      <4>2. b \in Seq(Ids) /\ Len(b) = Len(mem.batch) + 1
        BY <2>1, <2>3, <4>1, AppendProperties
      <4> QED BY <2>3, <3>2, <4>2
    <3> QED BY <3>1, <3>2
  <2>6. /\ mem' \in Manifests /\ mem'.head = mem.head /\ mem'.first = mem.first
        /\ mem'.off = mem.off + 1 /\ mem'.anchored = mem.anchored
        /\ mem'.ring = Remembered(e) /\ mem'.batch = b
    <3>1. mem' = [mem EXCEPT !.off = mem.off + 1, !.ring = Remembered(e), !.batch = b]
      BY <1>2, <2>1, <2>4 DEF Manifests
    <3>2. mem.off + 1 \in 0 .. MaxSeq
      BY <1>1
    <3> HIDE Numbers
    <3> QED BY <1>2, <2>2, <2>5, <3>1, <3>2 DEF Manifests
  <2>7. Ordered(mem)'
    BY <1>1, <1>2, <2>2, <2>5, <2>6 DEF Ordered
  <2>8. Range(mem.batch) \subseteq Ids /\ Range(mem.ring) \subseteq Ids
    BY <1>2, RangeType DEF Manifests
  <2>9. /\ fires' \in [Ids -> Nat] /\ \A x \in Ids : fires[x] <= fires'[x]
        /\ fills => \A x \in Range(mem.batch) \union {e} : fires'[x] > 0
    <3>1. CASE fills
      BY <1>2, <2>1, <2>8, <3>1, HandedGrows
    <3>2. CASE ~fills
      BY <1>2, <2>1, <3>2 DEF Typed
    <3> QED BY <3>1, <3>2
  <2>10. Range(b) = IF fills THEN {} ELSE Range(mem.batch) \union {e}
    BY <2>1, <2>3, <2>4, EmptyRange, AppendRange
  <2>11. \A x \in Range(mem.batch) \union {e} : Past(x)' \/ x \in Range(mem'.batch)
    BY <2>6, <2>9, <2>10 DEF Past
  <2>12. \A s \in mem.off + 1 .. mem'.off :
           events[s] \in owed \intersect Outside => Past(events[s])' \/ events[s] \in Range(mem'.batch)
    <3> SUFFICES ASSUME NEW s \in mem.off + 1 .. mem'.off
                 PROVE  Past(events[s])' \/ events[s] \in Range(mem'.batch)
      OBVIOUS
    <3>1. events[s] = e /\ events' = events
      BY <1>1, <1>3, <2>6 DEF e
    <3>2. (fires'[e] > 0 \/ e \in trimmed') \/ e \in Range(mem'.batch)
      BY <2>11 DEF Past
    <3> QED BY <3>1, <3>2 DEF Past
  <2>13. \A x \in Range(mem'.batch) :
           x \in Range(mem.batch) \/ \E s \in mem.off + 1 .. mem'.off : events[s] = x
    BY <1>3, <2>6, <2>10 DEF e
  <2>14. \A x \in Range(mem'.ring) : fires'[x] > 0 \/ x \in Range(mem'.batch)
    <3> SUFFICES ASSUME NEW x \in Range(Remembered(e)), x \notin Range(b)
                 PROVE  fires'[x] > 0
      BY <2>6
    <3>1. CASE x \in Range(mem.batch) \union {e}
      BY <2>9, <2>10, <3>1
    <3>2. CASE x \notin Range(mem.batch) \union {e}
      <4>1. x \in Range(mem.ring) /\ x \in Ids
        BY <2>2, <2>8, <3>2
      <4>2. fires[x] > 0 /\ fires[x] \in Nat /\ fires'[x] \in Nat /\ fires[x] <= fires'[x]
        BY <1>2, <2>9, <3>2, <4>1 DEF Sound, Recent, Typed
      <4> QED BY <4>2
    <3> QED BY <3>1, <3>2
  <2>15. mem.off <= mem'.off
    BY <2>6
  <2> QED BY <1>1, <2>6, <2>7, <2>9, <2>11, <2>12, <2>13, <2>14, <2>15, PollStep
<1> QED BY <1>5, <1>6

-----------------------------------------------------------------------------
(* The theorems.                                                           *)

\* Every step keeps the invariant.
LEMMA SInvStep == ASSUME SInv, [Next]_vars PROVE SInv'
<1>1. CASE Next
  BY <1>1, BeginStep, CreateStep, OccupiedStep, CreateFailedStep, TrimStep,
     PublishStep, EmittedStep, AnswerStep, AnchorStep, SkipStep, ConsumeStep,
     WindowStep, FlushStep, CrashStep DEF Next, AppendStep, Poll
<1>2. CASE UNCHANGED vars
  <2>1. UNCHANGED <<events, mem, saved, app, acked, crashes, fires, owed, sent,
                    prior, trimmed, settled>>
    BY <1>2 DEF vars
  <2>2. Sound(mem)' /\ Sound(saved)'
    BY <2>1, StillSound
  <2>3. Typed' /\ Flushed' /\ AppendOK' /\ Sent' /\ Kept'
    BY <2>1 DEF SInv, Typed, Flushed, AppendOK, Dropped, Sent, Kept
  <2> QED BY <2>2, <2>3 DEF SInv
<1> QED BY <1>1, <1>2

\* A stream no life has written has it.
LEMMA SInvInit == ASSUME Init PROVE SInv
<1>1. MaxSeq \in Nat /\ MaxCrashes \in Nat /\ DedupRing \in Nat /\ BatchSize \in Nat \ {0}
  BY StreamsAssumption
<1>2. <<>> \in Seq(Ids) /\ Len(<<>>) = 0
  OBVIOUS
<1>3. Blank \in Manifests /\ Ordered(Blank)
  BY <1>1, <1>2 DEF Blank, Manifests, Ordered
<1>4. /\ mem = Blank /\ saved = Blank /\ app = Idle /\ owed = {} /\ sent = {}
      /\ events = [s \in Seqs |-> NoEvent] /\ trimmed = {}
      /\ Blank.ring = <<>> /\ Blank.batch = <<>>
  BY DEF Init, Blank
<1>5. Typed
  BY <1>1, <1>3, <1>4, IdleType DEF Init, Typed
<1>6. Sound(Blank)
  <2>1. Dropped(Blank.first) /\ Recent(Blank) /\ Reaches(Blank) /\ Sorted(Blank)
    BY <1>4, EmptyRange DEF Dropped, Recent, Reaches, Sorted
  <2> QED BY <1>3, <2>1 DEF Sound
<1>7. Flushed
  BY <1>1, <1>4 DEF Flushed, Blank
<1>8. AppendOK
  BY <1>4, IdleType DEF AppendOK
<1>9. Sent /\ Kept
  BY <1>4 DEF Init, Sent, Kept
<1> QED BY <1>4, <1>5, <1>6, <1>7, <1>8, <1>9 DEF SInv

\* The invariant of a stream and its consumer, in every reachable state.
THEOREM StreamsInvariance == Spec => []SInv
BY SInvInit, SInvStep, PTL DEF Spec

\* Type correctness (StreamMeta and the start's state): a consumer is never
\* ahead of the head, in memory or in the store, and ring and batch keep
\* their limits.
THEOREM StreamsTypeCorrect == Spec => []TypeOK
<1>1. SInv => TypeOK
  <2> SUFFICES ASSUME SInv PROVE TypeOK
    OBVIOUS
  <2>1. \A m \in {mem, saved} :
          /\ m \in Manifests /\ m.off <= m.head
          /\ Len(m.ring) <= DedupRing /\ Len(m.batch) < BatchSize
    BY DEF SInv, Typed, Sound, Ordered
  <2>2. app.pc \in {"idle", "create", "trim", "reply"} /\ app.seq \in 0 .. MaxSeq
    BY DEF SInv, Typed, Appends
  <2> QED BY <2>1, <2>2 DEF SInv, Typed, TypeOK
<1> QED BY <1>1, StreamsInvariance, PTL

\* append_event_acked: whatever is acknowledged is in the store, dropped by
\* retention, handed over or in a batch, and a consumer that restarts from
\* the stored manifest comes to what a sender outside was told is kept.
THEOREM AcknowledgedSurvive == Spec => []AckedSurvives
<1>1. SInv => AckedSurvives
  <2> SUFFICES ASSUME SInv PROVE AckedSurvives
    OBVIOUS
  <2>1. AckedIsKept
    BY DEF SInv, Kept, AckedIsKept
  <2>2. AckedIsReachable
    BY DEF SInv, Sound, Reaches, Past, AckedIsReachable
  <2> QED BY <2>1, <2>2 DEF AckedSurvives
<1> QED BY <1>1, StreamsInvariance, PTL

\* Only what the consumer has before it is handed over, and never e before d
\* when d was acknowledged before e was first appended.
LEMMA NotOvertakenStep ==
  ASSUME SInv, Next, NEW e \in Ids,
         NEW d \in prior[e] \intersect owed \intersect Outside
  PROVE  NotOvertaken(d, e)
<1> USE Numbers
<1> SUFFICES ASSUME fires[e] = 0, fires'[e] > 0, d \notin trimmed
             PROVE  fires'[d] > 0
  BY DEF NotOvertaken
<1>1. /\ Typed /\ d \in Ids
      /\ fires[d] > 0 \/ d \in Range(mem.batch) \/ Before(mem, d, e)
  BY DEF SInv, Typed, Sound, Sorted, Past
<1>2. fires' # fires
  OBVIOUS
<1>3. ASSUME NEW es, fires' = Handed(es), Range(mem.batch) \subseteq es,
             e \in es => ~Before(mem, d, e)
      PROVE  fires'[d] > 0
  <2>1. /\ \A x \in Ids : fires[x] <= fires'[x]
        /\ \A x \in es \intersect Ids : fires'[x] > 0
        /\ \A x \in Ids \ es : fires'[x] = fires[x]
        /\ fires' \in [Ids -> Nat]
    BY <1>1, <1>3, HandedGrows
  <2>2. e \in es
    BY <2>1
  <2>3. fires[d] > 0 \/ d \in es
    BY <1>1, <1>3, <2>2
  <2>4. fires[d] \in Nat /\ fires'[d] \in Nat /\ fires[d] <= fires'[d]
    BY <1>1, <2>1 DEF Typed
  <2> QED BY <1>1, <2>1, <2>3, <2>4
<1>4. CASE Window
  <2>1. fires' = Handed(Range(mem.batch))
    BY <1>4 DEF Window
  <2>2. e \in Range(mem.batch) => ~Before(mem, d, e)
    BY DEF Before
  <2> QED BY <1>3, <2>1, <2>2
<1>5. CASE Consume
  <2> DEFINE x == events[mem.off + 1]
  <2>1. fires' = Handed(Range(mem.batch) \union {x}) /\ mem.off < mem.head
    BY <1>2, <1>5 DEF Consume, Taken
  <2>2. ASSUME e \in Range(mem.batch) \union {x}, Before(mem, d, e) PROVE FALSE
    <3>1. e = x /\ mem.off + 1 \in Seqs
      BY <2>1, <2>2 DEF Before, Seqs
    <3>2. PICK s \in mem.off + 1 .. mem.head : s < mem.off + 1
      BY <2>2, <3>1 DEF Before
    <3> QED BY <3>2
  <2> QED BY <1>3, <2>1, <2>2
<1> QED BY <1>2, <1>4, <1>5
    DEF Next, AppendStep, Poll, Begin, Create, Occupied, CreateFailed, Trim, Publish,
        Emitted, Answer, Anchor, Skip, Flush, Crash, ghosts

\* A consumer gets in order what senders outside were told is kept, through
\* failed appends, keys stepped over, copies, batches, retention and crashes.
THEOREM DeliveredInOrder == Spec => InOrder
<1>1. SInv /\ [Next]_vars =>
        [\A e \in Ids : \A d \in prior[e] \intersect owed \intersect Outside :
            NotOvertaken(d, e)]_vars
  BY NotOvertakenStep
<1> QED BY <1>1, StreamsInvariance, PTL DEF Spec, InOrder

-----------------------------------------------------------------------------
(* The ring.  An id leaves it only when DEDUP_RING others came after it, so *)
(* while the ring holds every id a producer may send again, a copy of a     *)
(* settled event is always recognised.                                      *)

RingHolds == IsFiniteSet(Ids) /\ Cardinality(Ids) <= DedupRing

\* The ring repeats no id and remembers the batch and all that is settled.
Remembers(m) ==
  /\ IsInjective(m.ring)
  /\ Range(m.batch) \subseteq Range(m.ring)
  /\ settled \subseteq Range(m.ring) \ Range(m.batch)

RingInv == SInv /\ Remembers(mem) /\ Remembers(saved)

\* A ring without repetition, and not with every id, has room for one more.
LEMMA RingRoom ==
  ASSUME RingHolds, NEW r \in Seq(Ids), IsInjective(r), NEW e \in Ids, e \notin Range(r)
  PROVE  Len(r) < DedupRing
<1>1. Len(r) \in Nat /\ DOMAIN r = 1 .. Len(r) /\ Range(r) \subseteq Ids \ {e}
  BY LenProperties, RangeType
<1>2. r \in [1 .. Len(r) -> Range(r)]
  BY <1>1 DEF Range
<1>3. r \in Bijection(1 .. Len(r), Range(r))
  BY <1>1, <1>2 DEF Bijection, Injection, Surjection, IsInjective, Range
<1>4. Cardinality(Range(r)) = Len(r)
  <2>1. ExistsBijection(1 .. Len(r), Range(r))
    BY <1>3 DEF ExistsBijection
  <2> QED BY <1>1, <2>1, FS_CountingElements
<1>5. IsFiniteSet(Ids \ {e}) /\ Cardinality(Ids \ {e}) = Cardinality(Ids) - 1
      /\ Cardinality(Ids) \in Nat
  BY FS_RemoveElement, FS_CardinalityType DEF RingHolds
<1>6. Cardinality(Range(r)) <= Cardinality(Ids \ {e})
  BY <1>1, <1>5, FS_Subset
<1> QED BY <1>1, <1>4, <1>5, <1>6, StreamsAssumption DEF RingHolds

\* One more id, not in the ring yet, and the ring still repeats none.
LEMMA RingAppend ==
  ASSUME NEW r \in Seq(Ids), IsInjective(r), NEW e \in Ids, e \notin Range(r)
  PROVE  IsInjective(Append(r, e))
BY AppendFresh

\* What a flush settles, the manifest remembers.
LEMMA FlushRemembers ==
  ASSUME RingInv, settled' = settled \union Recorded, saved' = mem, UNCHANGED mem
  PROVE  Remembers(mem)' /\ Remembers(saved)'
BY DEF RingInv, Remembers, Recorded

\* The consumer goes on and still remembers.
LEMMA ConsumeRemembers ==
  ASSUME RingHolds, RingInv, Consume
  PROVE  Remembers(mem)' /\ \A e \in settled : fires'[e] = fires[e]
<1> DEFINE x == events[mem.off + 1]
           fills == Len(mem.batch) + 1 = BatchSize
<1>1. /\ SInv /\ Typed /\ Ordered(mem) /\ mem \in Manifests /\ Remembers(mem)
      /\ settled' = settled /\ settled \subseteq Ids
      /\ IF x # NoEvent /\ Wanted(x) THEN Taken(x)
         ELSE mem' = [mem EXCEPT !.off = @ + 1] /\ UNCHANGED fires
  BY DEF RingInv, SInv, Sound, Typed, Consume
<1>2. x \in Ids \union {NoEvent}
  <2>1. mem.off + 1 \in Seqs
    BY <1>1, Numbers DEF Consume, Seqs
  <2> QED BY <1>1, <2>1 DEF Typed
<1> HIDE DEF x
<1>3. CASE ~(x # NoEvent /\ Wanted(x))
  <2>1. mem'.ring = mem.ring /\ mem'.batch = mem.batch /\ fires' = fires
    BY <1>1, <1>3 DEF Manifests
  <2> QED BY <1>1, <2>1 DEF Remembers
<1>4. CASE x # NoEvent /\ Wanted(x)
  <2>1. /\ x \in Ids /\ x \notin Range(mem.ring)
        /\ mem' = [mem EXCEPT !.off = @ + 1, !.ring = Remembered(x),
                     !.batch = IF fills THEN <<>> ELSE Append(@, x)]
        /\ fires' = IF fills THEN Handed(Range(mem.batch) \union {x}) ELSE fires
    BY <1>1, <1>2, <1>4 DEF Taken, Wanted
  <2>2. mem.ring \in Seq(Ids) /\ mem.batch \in Seq(Ids) /\ IsInjective(mem.ring)
    BY <1>1 DEF Manifests, Remembers
  <2>3. Remembered(x) = Append(mem.ring, x)
    <3>1. Len(mem.ring) < DedupRing
      BY <2>1, <2>2, RingRoom
    <3> QED BY <1>1, <2>1, <3>1, RememberedType
  <2>4. mem'.ring = Append(mem.ring, x)
        /\ mem'.batch = IF fills THEN <<>> ELSE Append(mem.batch, x)
    BY <1>1, <2>1, <2>3 DEF Manifests
  <2>5. IsInjective(mem'.ring) /\ Range(mem'.ring) = Range(mem.ring) \union {x}
    <3>1. IsInjective(Append(mem.ring, x))
      BY <2>1, <2>2, RingAppend
    <3>2. Range(Append(mem.ring, x)) = Range(mem.ring) \union {x}
      BY <2>1, <2>2, AppendRange
    <3>3. mem'.ring = Append(mem.ring, x)
      BY <2>4
    <3> QED BY <3>1, <3>2, <3>3, Zenon
  <2>6. Range(mem'.batch) \subseteq Range(mem.batch) \union {x}
    BY <2>1, <2>2, <2>4, EmptyRange, AppendRange
  <2>7. x \notin settled /\ settled \intersect Range(mem.batch) = {}
    BY <1>1, <2>1 DEF Remembers
  <2>8. Remembers(mem)'
    BY <1>1, <2>5, <2>6, <2>7 DEF Remembers
  <2>9. \A e \in settled : fires'[e] = fires[e]
    <3>1. CASE fills
      <4>1. fires' = Handed(Range(mem.batch) \union {x})
        BY <2>1, <3>1
      <4>2. \A e \in Ids \ (Range(mem.batch) \union {x}) : fires'[e] = fires[e]
        BY <1>1, <4>1, HandedGrows
      <4> QED BY <1>1, <2>7, <4>2
    <3>2. CASE ~fills
      BY <2>1, <3>2
    <3> QED BY <3>1, <3>2
  <2> QED BY <2>8, <2>9
<1> QED BY <1>3, <1>4

\* No step forgets what is settled, and none hands it over again.
LEMMA RingStep ==
  ASSUME RingHolds, RingInv, [Next]_vars
  PROVE  RingInv' /\ ((\A e \in settled : fires'[e] = fires[e]) \/ UNCHANGED vars)
<1>1. SInv'
  BY SInvStep DEF RingInv
<1>2. mem \in Manifests /\ settled \subseteq Ids /\ Typed
  BY DEF RingInv, SInv, Typed
<1>3. CASE UNCHANGED vars
  BY <1>1, <1>3 DEF vars, RingInv, Remembers
<1>4. ASSUME NEW es, fires' = Handed(es), es \intersect settled = {}
      PROVE  \A e \in settled : fires'[e] = fires[e]
  BY <1>2, <1>4, HandedGrows
<1>5. CASE Consume
  <2>1. Remembers(mem)' /\ \A e \in settled : fires'[e] = fires[e]
    BY <1>5, ConsumeRemembers
  <2>2. Remembers(saved)'
    BY <1>5 DEF Consume, RingInv, Remembers
  <2> QED BY <1>1, <2>1, <2>2 DEF RingInv
<1>6. CASE Window
  <2>1. mem'.ring = mem.ring /\ mem'.batch = <<>> /\ UNCHANGED <<saved, settled>>
    BY <1>2, <1>6 DEF Window, Manifests
  <2>2. Remembers(mem)' /\ Remembers(saved)'
    BY <2>1, EmptyRange DEF RingInv, Remembers
  <2>3. fires' = Handed(Range(mem.batch)) /\ Range(mem.batch) \intersect settled = {}
    BY <1>6 DEF Window, RingInv, Remembers
  <2> QED BY <1>1, <1>4, <2>2, <2>3 DEF RingInv
<1>7. CASE Flush \/ Answer
  <2>1. fires' = fires /\ mem' = mem
    BY <1>7 DEF Flush, Answer
  <2>2. CASE saved' = mem /\ settled' = settled \union Recorded
    BY <1>1, <2>1, <2>2, FlushRemembers DEF RingInv
  <2>3. CASE UNCHANGED <<saved, settled>>
    BY <1>1, <2>1, <2>3 DEF RingInv, Remembers
  <2> QED BY <1>7, <2>2, <2>3 DEF Flush, Answer
<1>8. CASE Crash
  <2>1. mem' = saved /\ UNCHANGED <<saved, settled, fires>>
    BY <1>8 DEF Crash, ghosts
  <2> QED BY <1>1, <2>1 DEF RingInv, Remembers
<1>9. CASE (\E e \in Ids : Begin(e)) \/ Create \/ Occupied \/ CreateFailed \/ Trim
           \/ Publish \/ Emitted \/ Anchor \/ Skip
  <2>1. /\ mem'.ring = mem.ring /\ mem'.batch = mem.batch
        /\ UNCHANGED <<saved, settled, fires>>
    BY <1>2, <1>9 DEF Begin, Create, Occupied, CreateFailed, Trim, Publish, Emitted,
       Anchor, Skip, ghosts, Manifests
  <2> QED BY <1>1, <2>1 DEF RingInv, Remembers
<1> QED BY <1>3, <1>5, <1>6, <1>7, <1>8, <1>9 DEF Next, AppendStep, Poll

\* While the ring holds every id, a firing that was flushed with the offset
\* is final, whatever is appended again and whenever the process dies.
THEOREM SettledIsFinal ==
  ASSUME RingHolds PROVE Spec => SettledNeverRefires
<1>1. Init => RingInv
  <2> SUFFICES ASSUME Init PROVE RingInv
    OBVIOUS
  <2>1. mem.ring = <<>> /\ saved.ring = <<>> /\ mem.batch = <<>> /\ saved.batch = <<>>
        /\ settled = {}
    BY DEF Init, Blank
  <2>2. IsInjective(<<>>)
    BY DEF IsInjective
  <2> QED BY <2>1, <2>2, SInvInit, EmptyRange DEF RingInv, Remembers
<1>2. RingInv /\ [Next]_vars => RingInv'
  BY RingStep
<1>3. RingInv /\ [Next]_vars => [\A e \in settled : fires'[e] = fires[e]]_vars
  BY RingStep
<1> QED BY <1>1, <1>2, <1>3, PTL DEF Spec, SettledNeverRefires
=============================================================================
