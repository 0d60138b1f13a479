------------------------------ MODULE Streams ------------------------------
(***************************************************************************)
(* One event stream and one durable consumer of it (runtime/streams.rs).   *)
(*                                                                         *)
(* An event is stored under its own key at once; the stream's head, its    *)
(* first kept event and the consumer's offset, recent ids and partial      *)
(* batch live in the manifest, which is flushed later.  A process that     *)
(* dies in between starts again with an older manifest over newer events,  *)
(* so an append creates its key only where there is none and steps over    *)
(* the keys that are taken.                                                *)
(*                                                                         *)
(* The append is one handler of the loop; its store calls are steps here,  *)
(* because the process may die between any two of them.  A producer that   *)
(* was not told `kept' sends the event again under the same id: a sender   *)
(* outside because it got no answer, an emit step because it is replayed.  *)
(***************************************************************************)
EXTENDS Naturals, Sequences, Functions

CONSTANTS
  Ids,         \* event ids
  Outside,     \* those of senders outside the process (append_event_acked)
  Ignored,     \* those the consumer's subject, filter or feedback rule passes over
  NoEvent,     \* an absent record
  From,        \* the consumer's from: "earliest" or "new"
  BatchSize,   \* the consumer's batch.size; 1 stands for no batch
  MaxEvents,   \* the stream's retention, by count
  MayExpire,   \* the stream also has a retention by age
  DedupRing,   \* DEDUP_RING
  HeadProbes,  \* HEAD_PROBES
  StoreFails,  \* calls to the store may fail, applied or not
  MaxSeq,      \* bound on the sequence numbers
  MaxCrashes   \* bound on the lives that end

ASSUME StreamsAssumption ==
  /\ Outside \subseteq Ids /\ Ignored \subseteq Ids /\ NoEvent \notin Ids
  /\ From \in {"earliest", "new"} /\ {MayExpire, StoreFails} \subseteq BOOLEAN
  /\ {BatchSize, MaxEvents, DedupRing, HeadProbes} \subseteq Nat \ {0}
  /\ {MaxSeq, MaxCrashes} \subseteq Nat

VARIABLES
  events,   \* the event records in the store
  mem,      \* the manifest's part for this stream and consumer
  saved,    \* the same, as last flushed
  app,      \* the append under way
  acked,    \* events whose producer was told they are kept
  crashes,  \* lives ended so far
  fires,    \* ghost: how often each event was handed to the inbox
  owed,     \* ghost: events acknowledged while the consumer wanted them
  sent,     \* ghost: events some append of which has begun
  prior,    \* ghost: what was acknowledged when that append began
  trimmed,  \* ghost: events retention has dropped
  settled   \* ghost: events whose firing was flushed with the offset

vars == <<events, mem, saved, app, acked, crashes, fires, owed, sent, prior,
          trimmed, settled>>
ghosts == <<fires, owed, sent, prior, trimmed, settled>>

Seqs == 1 .. MaxSeq

\* StreamMeta (head, first) and the start's state (anchored, off, ring, batch).
Blank == [head |-> 0, first |-> 0, anchored |-> FALSE, off |-> 0,
          ring |-> <<>>, batch |-> <<>>]

Idle == [pc |-> "idle", id |-> NoEvent, seq |-> 0, first |-> 0, probes |-> 0]

Init ==
  /\ events = [s \in Seqs |-> NoEvent]
  /\ mem = Blank /\ saved = Blank /\ app = Idle
  /\ acked = {} /\ crashes = 0
  /\ fires = [e \in Ids |-> 0]
  /\ owed = {} /\ sent = {} /\ prior = [e \in Ids |-> {}]
  /\ trimmed = {} /\ settled = {}

-----------------------------------------------------------------------------
(* Appending.                                                              *)

\* There is a sequence number left for the append to end at.
Room ==
  \/ mem.head + HeadProbes <= MaxSeq
  \/ \E s \in mem.head + 1 .. MaxSeq : events[s] = NoEvent

\* append_carrying begins behind the head it knows.
Begin(e) ==
  /\ app = Idle /\ e \notin acked /\ Room
  /\ app' = [pc |-> "create", id |-> e, seq |-> mem.head + 1,
             first |-> IF mem.first = 0 THEN 1 ELSE mem.first, probes |-> 0]
  /\ sent' = sent \union {e}
  /\ prior' = [prior EXCEPT ![e] = IF e \in sent THEN @ ELSE acked]
  /\ UNCHANGED <<events, mem, saved, acked, crashes, fires, owed, trimmed, settled>>

Stored == [events EXCEPT ![app.seq] = app.id]

\* The key was free.
Create ==
  /\ app.pc = "create" /\ events[app.seq] = NoEvent
  /\ events' = Stored
  /\ app' = [app EXCEPT !.pc = "trim"]
  /\ UNCHANGED <<mem, saved, acked, crashes>> /\ UNCHANGED ghosts

\* The key is taken: the append tries the next one, or has probed enough,
\* keeps the head it found and is refused.
Occupied ==
  /\ app.pc = "create" /\ events[app.seq] # NoEvent
  /\ \/ /\ app.probes + 1 < HeadProbes
        /\ app' = [app EXCEPT !.seq = @ + 1, !.probes = @ + 1]
        /\ UNCHANGED mem
     \/ /\ app.probes + 1 = HeadProbes
        /\ mem' = [mem EXCEPT !.head = app.seq, !.first = app.first]
        /\ app' = Idle
  /\ UNCHANGED <<events, saved, acked, crashes>> /\ UNCHANGED ghosts

\* The store did not answer, and may hold the event all the same.
CreateFailed ==
  /\ StoreFails /\ app.pc = "create"
  /\ events' \in {events} \union (IF events[app.seq] = NoEvent THEN {Stored} ELSE {})
  /\ app' = Idle
  /\ UNCHANGED <<mem, saved, acked, crashes>> /\ UNCHANGED ghosts

TooMany == app.seq - app.first + 1 > MaxEvents

\* Retention drops the first event: there are too many, or it is too old.
\* A failed delete is ignored.
Trim ==
  /\ app.pc = "trim"
  /\ \/ TooMany
     \/ MayExpire /\ app.first < app.seq /\ events[app.first] # NoEvent
  /\ events' \in {[events EXCEPT ![app.first] = NoEvent]} \union
                 (IF StoreFails THEN {events} ELSE {})
  /\ app' = [app EXCEPT !.first = @ + 1]
  /\ trimmed' = trimmed \union ({events[app.first]} \ {NoEvent})
  /\ UNCHANGED <<mem, saved, acked, crashes, fires, owed, sent, prior, settled>>

\* The append returns: the head covers the event.
Publish ==
  /\ app.pc = "trim" /\ ~TooMany
  /\ mem' = [mem EXCEPT !.head = app.seq, !.first = app.first]
  /\ app' = [app EXCEPT !.pc = "reply"]
  /\ UNCHANGED <<events, saved, acked, crashes>> /\ UNCHANGED ghosts

\* The producer is told that the event is kept.
Tell ==
  /\ acked' = acked \union {app.id}
  /\ owed' = IF (From = "earliest" \/ mem.anchored) /\ app.id \notin Ignored
             THEN owed \union {app.id} ELSE owed

\* The emit step is done.
Emitted ==
  /\ app.pc = "reply" /\ app.id \notin Outside
  /\ Tell /\ app' = Idle
  /\ UNCHANGED <<events, mem, saved, crashes, fires, sent, prior, trimmed, settled>>

\* Events whose firing this manifest records.
Recorded == Range(mem.ring) \ Range(mem.batch)

\* Mutant: a head that could not be saved is no reason to refuse.
Answer_Unsaved ==
  /\ app.pc = "reply" /\ app.id \in Outside
  /\ app' = Idle
  /\ \/ saved' = mem /\ settled' = settled \union Recorded
     \/ StoreFails /\ UNCHANGED <<saved, settled>>
  /\ Tell \/ UNCHANGED <<acked, owed>>
  /\ UNCHANGED <<events, mem, crashes, fires, sent, prior, trimmed>>

\* append_event_acked: the head is flushed before the answer, which may be
\* lost; a head that was not saved is a refused append.
Answer ==
  /\ app.pc = "reply" /\ app.id \in Outside
  /\ app' = Idle
  /\ \/ /\ saved' = mem /\ settled' = settled \union Recorded
        /\ Tell \/ UNCHANGED <<acked, owed>>
     \/ /\ StoreFails
        /\ UNCHANGED <<acked, owed, saved, settled>>
  /\ UNCHANGED <<events, mem, crashes, fires, sent, prior, trimmed>>

-----------------------------------------------------------------------------
(* Consuming.                                                              *)

\* Mutant: every consumer begins with the next event.
Anchor_AtHead ==
  /\ app = Idle /\ ~mem.anchored
  /\ mem' = [mem EXCEPT !.anchored = TRUE, !.off = mem.head]
  /\ UNCHANGED <<events, saved, app, acked, crashes>> /\ UNCHANGED ghosts

\* poll_stream_starts, first arm: where history begins for this consumer.
Anchor ==
  /\ app = Idle /\ ~mem.anchored
  /\ mem' = [mem EXCEPT !.anchored = TRUE,
               !.off = IF From = "new" THEN mem.head
                       ELSE IF mem.first = 0 THEN 0 ELSE mem.first - 1]
  /\ UNCHANGED <<events, saved, app, acked, crashes>> /\ UNCHANGED ghosts

\* Retention has passed the consumer.
Skip ==
  /\ app = Idle /\ mem.anchored /\ mem.off + 1 < mem.first
  /\ mem' = [mem EXCEPT !.off = mem.first - 1]
  /\ UNCHANGED <<events, saved, app, acked, crashes>> /\ UNCHANGED ghosts

Handed(es) == [e \in Ids |-> IF e \in es THEN fires[e] + 1 ELSE fires[e]]

\* The last DEDUP_RING ids.
Remembered(e) ==
  LET ring == Append(mem.ring, e)
  IN  IF Len(ring) > DedupRing
      THEN SubSeq(ring, Len(ring) - DedupRing + 1, Len(ring)) ELSE ring

\* Mutant: the recent ids are not looked at.
Wanted_Again(e) == e \notin Ignored

\* The event is there, matches and is not a copy of a recent one.
Wanted(e) == e \notin Ignored /\ e \notin Range(mem.ring)

\* The event fires, alone or with the batch it fills, or joins the batch.
Taken(e) ==
  /\ mem' = [mem EXCEPT !.off = @ + 1, !.ring = Remembered(e),
               !.batch = IF Len(@) + 1 = BatchSize THEN <<>> ELSE Append(@, e)]
  /\ fires' = IF Len(mem.batch) + 1 = BatchSize
              THEN Handed(Range(mem.batch) \union {e}) ELSE fires

\* poll_stream_starts takes the next event.  A firing the inbox refuses, a
\* rate without a token and a read that fails leave everything as it is; an
\* event whose firing is discarded by name counts as handed over.
Consume ==
  /\ app = Idle /\ mem.anchored
  /\ mem.off + 1 >= mem.first /\ mem.off < mem.head
  /\ LET e == events[mem.off + 1]
     IN  IF e # NoEvent /\ Wanted(e) THEN Taken(e)
         ELSE mem' = [mem EXCEPT !.off = @ + 1] /\ UNCHANGED fires
  /\ UNCHANGED <<events, saved, app, acked, crashes, owed, sent, prior, trimmed, settled>>

\* Mutant: the window is looked at only when an event has arrived.
Window_OnArrival ==
  /\ app = Idle /\ mem.batch # <<>> /\ mem.off < mem.head
  /\ mem' = [mem EXCEPT !.batch = <<>>]
  /\ fires' = Handed(Range(mem.batch))
  /\ UNCHANGED <<events, saved, app, acked, crashes, owed, sent, prior, trimmed, settled>>

\* The window of a partial batch is over.
Window ==
  /\ app = Idle /\ mem.batch # <<>>
  /\ mem' = [mem EXCEPT !.batch = <<>>]
  /\ fires' = Handed(Range(mem.batch))
  /\ UNCHANGED <<events, saved, app, acked, crashes, owed, sent, prior, trimmed, settled>>

-----------------------------------------------------------------------------
\* Durable::flush, at the end of some round.
Flush ==
  /\ app = Idle
  /\ saved' = mem /\ settled' = settled \union Recorded
  /\ UNCHANGED <<events, mem, app, acked, crashes, fires, owed, sent, prior, trimmed>>

\* The process dies, between two handlers or inside an append, and the next
\* one restores the flushed manifest.
Crash ==
  /\ crashes < MaxCrashes /\ crashes' = crashes + 1
  /\ mem' = saved /\ app' = Idle
  /\ UNCHANGED <<events, saved, acked>> /\ UNCHANGED ghosts

AppendStep == Create \/ Occupied \/ CreateFailed \/ Trim \/ Publish \/ Emitted \/ Answer
Poll == Anchor \/ Skip \/ Consume \/ Window

Next == (\E e \in Ids : Begin(e)) \/ AppendStep \/ Poll \/ Flush \/ Crash

Spec == Init /\ [][Next]_vars

\* The loop turns: an append ends, and between appends the consumer is polled
\* in every round, however many appends keep coming.
FairSpec == Spec /\ WF_vars(AppendStep) /\ SF_vars(Poll)

-----------------------------------------------------------------------------
\* Type correctness; the consumer is never ahead of the head it reads up to,
\* in the manifest that is flushed as in the one in memory.
Manifests ==
  [head : 0 .. MaxSeq, first : 0 .. MaxSeq, anchored : BOOLEAN, off : 0 .. MaxSeq,
   ring : Seq(Ids), batch : Seq(Ids)]

TypeOK ==
  /\ events \in [Seqs -> Ids \union {NoEvent}]
  /\ \A m \in {mem, saved} :
       /\ m \in Manifests /\ m.off <= m.head
       /\ Len(m.ring) <= DedupRing /\ Len(m.batch) < BatchSize
  /\ app.pc \in {"idle", "create", "trim", "reply"} /\ app.seq \in 0 .. MaxSeq
  /\ {acked, owed, sent, trimmed, settled} \subseteq SUBSET Ids
  /\ fires \in [Ids -> Nat] /\ prior \in [Ids -> SUBSET Ids]
  /\ crashes \in 0 .. MaxCrashes

\* The consumer that starts from this manifest still comes to the event.
Ahead(m, e) ==
  \/ e \in Range(m.batch)
  \/ \E s \in m.off + 1 .. m.head : events[s] = e

\* What a sender outside was told is kept reaches the consumer, whenever the
\* process dies: it was handed over, retention took it, or the manifest in
\* the store, and so the next life, still leads the consumer to it.
AckedIsReachable ==
  \A e \in owed \intersect Outside :
    fires[e] > 0 \/ e \in trimmed \/ Ahead(saved, e)

\* Nothing that was acknowledged is overwritten: until retention drops it or
\* it was handed over, it is in the store, on whichever sequence number, or
\* in a batch.
AckedIsKept ==
  \A e \in owed :
    \/ fires[e] > 0 \/ e \in trimmed
    \/ e \in Range(mem.batch) \union Range(saved.batch)
    \/ \E s \in Seqs : events[s] = e

\* Both: no acknowledged event is overwritten, and the next life's consumer
\* reaches what a sender outside was told is kept.
AckedSurvives == AckedIsKept /\ AckedIsReachable

\* `first' is handed over no later than e is for the first time, unless
\* retention drops it.
NotOvertaken(first, e) ==
  fires[e] = 0 /\ fires'[e] > 0 => fires'[first] > 0 \/ first \in trimmed

\* A consumer gets in order what senders outside were told is kept: nothing
\* that was appended after the answer is handed over before the event.
InOrder ==
  [][\A e \in Ids : \A d \in prior[e] \intersect owed \intersect Outside :
        NotOvertaken(d, e)]_vars

\* A consumer gets in order what emit steps that are done have appended, too.
EmitsInOrder ==
  [][\A e \in Ids : \A d \in prior[e] \intersect owed : NotOvertaken(d, e)]_vars

\* A firing that was flushed with the offset is final: the event is not
\* handed over again, however often it is appended again and whenever the
\* process dies.
SettledNeverRefires ==
  [][\A e \in settled : fires'[e] = fires[e]]_vars

\* Every event a sender outside was told is kept is handed over, unless
\* retention drops it first.
Delivered ==
  \A e \in Outside : e \in owed ~> (fires[e] > 0 \/ e \in trimmed)
=============================================================================
