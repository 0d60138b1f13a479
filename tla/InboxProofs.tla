---------------------------- MODULE InboxProofs -----------------------------
(***************************************************************************)
(* Proofs about the inbox, for every set of events and workflows, every    *)
(* cap and overflow policy, and any number of failed writes and lives.     *)
(***************************************************************************)
EXTENDS Inbox, SequenceLemmas, FiniteSetTheorems, TLAPS

---------------------------------------------------------------------------
(* The inductive invariant.                                                *)

\* A drain, and an end of the process, leave a life to come.
AnotherLife == (phase = "down" \/ Draining) => life < MaxLives

\* process_inbox empties the snapshot it took before the tick goes on.
SnapshotLocal == phase # "inbox" => batch = <<>>

\* Memory and store know the same runs, and no run ends in the store first.
RunsRecorded ==
  \A r \in Runs : /\ runs[r] = "none" <=> saved[r] = "none"
                  /\ runs[r] = "live" => saved[r] = "live"

\* What the reactor holds was accepted, and is on record or dealt with.
Held == Range(queue) \cup Range(batch) \cup Range(turnq) \cup active
Traced ==
  /\ inbox \cup Handled \subseteq Accepted
  /\ Held \subseteq inbox \cup Handled
  /\ owing \in Handled \cup {None}

\* A run was replaced for the firing at the head of the snapshot, and only
\* that firing has the room.
RoomIsHeads ==
  room => /\ phase = "inbox" /\ owing = None /\ batch # <<>>
          /\ Head(batch) \in Starts \ Unknown
          /\ Admitted(Head(batch))
          /\ OnOverflow[Wf[Head(batch)]] = "replace"

\* The live runs of a workflow as the next life would find them, and those
\* that have ended since.
SavedLive == {r \in Runs : saved[r] = "live"}
SavedLiveOf(w) == {r \in SavedLive : Wf[r[1]] = w}
StaleOf(w) == SavedLiveOf(w) \ LiveOf(w)

\* One more run of the workflow fits.
RoomFor(w) == Cardinality(SavedLiveOf(w)) + 1 <= Cap[w] + fails

\* A failed write leaves at most one ended run live in the store.
CapsAccounted ==
  /\ IsFiniteSet(SavedLive)
  /\ \A w \in Workflows : /\ Cardinality(StaleOf(w)) <= fails
                          /\ Cardinality(SavedLiveOf(w)) <= Cap[w] + fails
  /\ room => RoomFor(Wf[Head(batch)])

IInv ==
  /\ TypeOK /\ IsFiniteSet(inbox)
  /\ AnotherLife /\ SnapshotLocal /\ RunsRecorded
  /\ Traced /\ NotStranded /\ RoomIsHeads /\ CapsAccounted
---------------------------------------------------------------------------
(* Types.                                                                  *)

\* The constants and the run of a firing are well typed.
LEMMA Constants ==
  /\ 1 \in Lives /\ Lives \subseteq Nat
  /\ Starts \subseteq Events /\ Messages \subseteq Events /\ None \notin Events
  /\ Deinit \subseteq Starts /\ Firings \subseteq Starts /\ Commands \subseteq Messages
BY EventsAssumption, ConfigAssumption DEF Lives, Events

\* The run of a firing is a run.
LEMMA RunOfType ==
  ASSUME life \in Lives, NEW e \in Starts
  PROVE  RunOf(e) \in Runs /\ RunOf(e)[1] = e
BY Constants DEF RunOf, Runs

\* Accepting an event adds it to the log, the store and the queue.
LEMMA AcceptEventType ==
  ASSUME log \in Seq(Events), queue \in Seq(Events), inbox \subseteq Events,
         IsFiniteSet(inbox), NEW e \in Events, AcceptEvent(e)
  PROVE  /\ log' \in Seq(Events) /\ Accepted' = Accepted \cup {e}
         /\ queue' \in Seq(Events) /\ Range(queue') = Range(queue) \cup {e}
         /\ inbox' \subseteq Events /\ IsFiniteSet(inbox') /\ inbox' = inbox \cup {e}
BY AppendRange, FS_AddElement DEF AcceptEvent, Accepted

\* What a restart queues is a queue of exactly the stored records.
LEMMA ReplaysType ==
  ASSUME inbox \subseteq Events, IsFiniteSet(inbox), NEW q \in Replays
  PROVE  q \in Seq(Events) /\ Range(q) = inbox
<1>1. Cardinality(inbox) \in Nat
  BY FS_CardinalityType
<1>2. q \in [1..Cardinality(inbox) -> Events] /\ Range(q) = inbox
  BY DEF Replays
<1> QED BY <1>1, <1>2

\* The firing or message at the head of the snapshot.
LEMMA OfferedType ==
  ASSUME TypeOK, NEW e, Offered(e)
  PROVE  /\ e \in Events /\ Tail(batch) \in Seq(Events)
         /\ Range(batch) = {e} \cup Range(Tail(batch))
BY TailRange DEF TypeOK, Offered

\* A failed write is counted.
LEMMA StoreFailsType ==
  ASSUME fails \in 0..MaxFails, StoreFails
  PROVE  fails' \in 0..MaxFails /\ fails' = fails + 1
BY ConfigAssumption DEF StoreFails

\* A checkpoint, whichever way it goes, keeps types.
LEMMA CheckpointType ==
  ASSUME TypeOK, Checkpoint, runs' \in [Runs -> {"none", "live", "done"}],
         wait' \in {"idle", "suspended", "woken"}
  PROVE  /\ saved' \in [Runs -> {"none", "live", "done"}]
         /\ kept' \subseteq Messages
         /\ waitSaved' \in {"idle", "suspended", "woken"}
         /\ exiting' \in BOOLEAN
         /\ fails' \in 0..MaxFails
BY StoreFailsType DEF TypeOK, Checkpoint

\* Every action keeps the types, and the records in the store finite.
LEMMA StepType ==
  ASSUME TypeOK, IsFiniteSet(inbox), AnotherLife, Next
  PROVE  TypeOK' /\ IsFiniteSet(inbox)'
<1> USE DEF TypeOK, process, memory, work
<1>1. ASSUME NEW e \in Events, Accept(e)
      PROVE  TypeOK' /\ IsFiniteSet(inbox)'
  BY <1>1, AcceptEventType DEF Accept
<1>2. ASSUME NEW e \in Events, FinishRootTurn(e)
      PROVE  TypeOK' /\ IsFiniteSet(inbox)'
  <2>1. e \in Messages /\ <<e, "turn", life>> \in Events \X Readers \X Lives
    BY <1>2 DEF FinishRootTurn, Readers
  <2> QED BY <1>2, <2>1 DEF FinishRootTurn
<1>3. ASSUME NEW e \in Events, KeepForNextLife(e) \/ OverflowQueue(e)
      PROVE  TypeOK' /\ IsFiniteSet(inbox)'
  <2>0. Offered(e) /\ batch' = Tail(batch) /\ queue' = Append(queue, e)
    BY <1>3 DEF KeepForNextLife, OverflowQueue, OffersStart, Requeue
  <2>1. batch' \in Seq(Events)
    BY <2>0, OfferedType
  <2>2. queue' \in Seq(Events)
    BY <2>0, AppendRange
  <2> QED BY <1>3, <2>1, <2>2 DEF KeepForNextLife, OverflowQueue
<1>4. ASSUME NEW e \in Events, DiscardStart(e) \/ RefuseInputs(e)
      PROVE  TypeOK' /\ IsFiniteSet(inbox)'
  <2>1. <<e, "discard", life>> \in Events \X Readers \X Lives
    BY DEF Readers
  <2>2. batch' \in Seq(Events)
    BY <1>4, OfferedType DEF DiscardStart, RefuseInputs, Fits, OffersStart
  <2>3. room' \in BOOLEAN
    BY <1>4 DEF DiscardStart, RefuseInputs
  <2> QED BY <1>4, <2>1, <2>2, <2>3 DEF DiscardStart, RefuseInputs
<1>5. ASSUME NEW e \in Events, ReplaceOldest(e)
      PROVE  TypeOK' /\ IsFiniteSet(inbox)'
  <2>1. /\ runs' \in [Runs -> {"none", "live", "done"}]
        /\ wait' \in {"idle", "suspended", "woken"}
    BY <1>5 DEF ReplaceOldest
  <2>2. Checkpoint /\ room' \in BOOLEAN
    BY <1>5 DEF ReplaceOldest
  <2> QED BY <1>5, <2>1, <2>2, CheckpointType DEF ReplaceOldest
<1>6. ASSUME NEW e \in Events, StartRun(e)
      PROVE  TypeOK' /\ IsFiniteSet(inbox)'
  <2>1. e \in Starts /\ RunOf(e) \in Runs
    BY <1>6, RunOfType DEF StartRun, Fits, OffersStart
  <2>2. <<e, "run", life>> \in Events \X Readers \X Lives
    BY DEF Readers
  <2>3. batch' \in Seq(Events) /\ room' \in BOOLEAN
    BY <1>6, OfferedType DEF StartRun, Fits, OffersStart
  <2> QED BY <1>6, <2>1, <2>2, <2>3 DEF StartRun
<1>7. ASSUME NEW e \in Events, RunCreateFails(e)
      PROVE  TypeOK' /\ IsFiniteSet(inbox)'
  <2>1. batch' \in Seq(Events) /\ room' \in BOOLEAN
    BY <1>7, OfferedType DEF RunCreateFails, Fits, OffersStart
  <2>2. queue' \in Seq(Events) /\ fails' \in 0..MaxFails
    BY <1>7, AppendRange, StoreFailsType DEF RunCreateFails, Requeue
  <2> QED BY <1>7, <2>1, <2>2 DEF RunCreateFails
<1>8. ASSUME NEW e \in Events, WakeWait(e)
      PROVE  TypeOK' /\ IsFiniteSet(inbox)'
  <2>1. <<e, "wait", life>> \in Events \X Readers \X Lives
    BY DEF Readers
  <2>2. batch' \in Seq(Events)
    BY <1>8, OfferedType DEF WakeWait, OffersMessage
  <2>3. /\ runs' \in [Runs -> {"none", "live", "done"}]
        /\ wait' \in {"idle", "suspended", "woken"}
        /\ Checkpoint
    BY <1>8 DEF WakeWait
  <2> QED BY <1>8, <2>1, <2>2, <2>3, CheckpointType DEF WakeWait
<1>9. ASSUME NEW e \in Events, FireA2aStart(e)
      PROVE  TypeOK' /\ IsFiniteSet(inbox)'
  <2>1. {<<e, "start", life>>, <<e, "refused", life>>} \subseteq Events \X Readers \X Lives
    BY DEF Readers
  <2>2. \A f \in Firings : f \in Events
    BY Constants
  <2> QED BY <1>9, <2>1, <2>2, OfferedType, AcceptEventType
          DEF FireA2aStart, OffersMessage
<1>10. ASSUME NEW e \in Events, QueueTurn(e)
       PROVE  TypeOK' /\ IsFiniteSet(inbox)'
  BY <1>10, OfferedType, AppendRange DEF QueueTurn, OffersMessage
<1>11. ASSUME NEW r \in Runs, RunEnds(r)
       PROVE  TypeOK' /\ IsFiniteSet(inbox)'
  <2>1. /\ runs' \in [Runs -> {"none", "live", "done"}]
        /\ wait' \in {"idle", "suspended", "woken"}
        /\ Checkpoint
    BY <1>11 DEF RunEnds
  <2> QED BY <1>11, <2>1, CheckpointType DEF RunEnds
<1>12. ASSUME NEW i \in 1..Len(turnq), DispatchTurn(i)
       PROVE  TypeOK' /\ IsFiniteSet(inbox)'
  <2>1. turnq' \in Seq(Messages) /\ turnq[i] \in Messages
    BY <1>12, RemoveRange DEF DispatchTurn
  <2>2. <<turnq[i], "turn", life>> \in Events \X Readers \X Lives
    BY <2>1, Constants DEF Readers
  <2>3. active' \subseteq Messages /\ owing' \in Events \cup {None}
        /\ taken' \subseteq Events \X Readers \X Lives
    BY <1>12, <2>1, <2>2, Constants DEF DispatchTurn
  <2> QED BY <1>12, <2>1, <2>3 DEF DispatchTurn
<1>13. CASE InboxDone
  <2>1. inbox' \subseteq Events /\ IsFiniteSet(inbox') /\ fails' \in 0..MaxFails
    <3>1. IsFiniteSet(inbox \ {owing})
      BY FS_RemoveElement
    <3>2. StoreFails => fails' \in 0..MaxFails
      BY StoreFailsType
    <3> QED BY <1>13, <3>1, <3>2 DEF InboxDone
  <2> QED BY <1>13, <2>1 DEF InboxDone
<1>14. CASE Tick
  <2>1. CASE BeginInbox
    BY <2>1 DEF BeginInbox
  <2>2. CASE EndInbox \/ EndRuns \/ Continue
    BY <2>2 DEF EndInbox, EndRuns, Continue
  <2>3. CASE Save
    <3>1. /\ runs' \in [Runs -> {"none", "live", "done"}]
          /\ wait' \in {"idle", "suspended", "woken"}
          /\ Checkpoint
      BY <2>3 DEF Save
    <3> QED BY <2>3, <3>1, CheckpointType DEF Save
  <2> QED BY <1>14, <2>1, <2>2, <2>3 DEF Tick
<1>15. CASE BeginDrain
  BY <1>15, AcceptEventType, Constants DEF BeginDrain
<1>16. CASE ForceDrain
  BY <1>16 DEF ForceDrain
<1>17. CASE Exit \/ Crash
  <2>1. /\ saved' \in [Runs -> {"none", "live", "done"}] /\ kept' \subseteq Messages
        /\ waitSaved' \in {"idle", "suspended", "woken"} /\ fails' \in 0..MaxFails
    <3>1. CASE Crash
      BY <3>1 DEF Crash
    <3>2. CASE Exit
      BY <3>2, StoreFailsType DEF Exit
    <3> QED BY <1>17, <3>1, <3>2
  <2>2. /\ phase' = "down" /\ exiting' \in BOOLEAN /\ room' \in BOOLEAN
        /\ queue' = <<>> /\ batch' = <<>> /\ owing' = None
        /\ turnq' = <<>> /\ active' = {}
        /\ runs' = saved' /\ answered' = kept' /\ wait' = waitSaved'
    BY <1>17 DEF Exit, Crash, Lost
  <2>3. drain' \in {"exited", "no"} /\ UNCHANGED <<life, log, inbox, born, created, taken>>
    BY <1>17 DEF Exit, Crash
  <2> QED BY <2>1, <2>2, <2>3
<1>18. CASE Restart
  <2>1. life + 1 \in Lives
    BY <1>18, ConfigAssumption DEF Restart, AnotherLife, Lives
  <2>2. queue' \in Seq(Events)
    BY <1>18, ReplaysType DEF Restart
  <2> QED BY <1>18, <2>1, <2>2 DEF Restart
<1> QED BY <1>1, <1>2, <1>3, <1>4, <1>5, <1>6, <1>7, <1>8, <1>9, <1>10, <1>11, <1>12,
           <1>13, <1>14, <1>15, <1>16, <1>17, <1>18 DEF Next, Process

---------------------------------------------------------------------------
(* Control: where in the tick, in which life, and whose room.              *)

\* While a run has been replaced for the head of the snapshot, only the
\* start of its own run is possible.
LEMMA RoomWaits ==
  ASSUME RoomIsHeads, room, NEW e, Offered(e)
  PROVE  /\ e \in Starts \ Unknown /\ Admitted(e) /\ e = Head(batch)
         /\ OnOverflow[Wf[e]] = "replace"
BY DEF RoomIsHeads, Offered

\* Every action keeps the control facts.
LEMMA StepControl ==
  ASSUME TypeOK, AnotherLife, SnapshotLocal, RoomIsHeads, Next
  PROVE  AnotherLife' /\ SnapshotLocal' /\ RoomIsHeads'
<1> USE DEF AnotherLife, SnapshotLocal, Draining, process, memory, work
<1>1. ASSUME NEW e \in Events, Accept(e) \/ FinishRootTurn(e)
      PROVE  AnotherLife' /\ SnapshotLocal' /\ RoomIsHeads'
  BY <1>1 DEF Accept, FinishRootTurn, RoomIsHeads
<1>2. ASSUME NEW e \in Events, Process(e), ~ReplaceOldest(e)
      PROVE  /\ AnotherLife' /\ SnapshotLocal' /\ RoomIsHeads'
  <2>1. phase = "inbox" /\ UNCHANGED <<phase, life, drain>>
    BY <1>2 DEF Process, KeepForNextLife, DiscardStart, OverflowQueue, RefuseInputs,
                StartRun, RunCreateFails, WakeWait, FireA2aStart, QueueTurn, Fits,
                OffersStart, OffersMessage, Offered
  <2>2. CASE KeepForNextLife(e) \/ DiscardStart(e) \/ OverflowQueue(e)
             \/ WakeWait(e) \/ FireA2aStart(e) \/ QueueTurn(e)
    <3>1. Offered(e) /\ room' = room
      BY <2>2 DEF KeepForNextLife, DiscardStart, OverflowQueue, WakeWait, FireA2aStart,
                  QueueTurn, OffersStart, OffersMessage
    <3>2. ~room
      <4> SUFFICES ASSUME room PROVE FALSE
        OBVIOUS
      <4>1. e \in Starts \ Unknown /\ Admitted(e) /\ OnOverflow[Wf[e]] = "replace"
        BY <3>1, RoomWaits
      <4> QED BY <4>1, <2>2, EventsAssumption
              DEF KeepForNextLife, DiscardStart, OverflowQueue, WakeWait, FireA2aStart,
                  QueueTurn, OffersMessage
    <3> QED BY <2>1, <3>1, <3>2 DEF RoomIsHeads
  <2>3. CASE RefuseInputs(e) \/ StartRun(e) \/ RunCreateFails(e)
    <3>1. ~room'
      BY <2>3 DEF RefuseInputs, StartRun, RunCreateFails
    <3> QED BY <2>1, <3>1 DEF RoomIsHeads
  <2> QED BY <1>2, <2>2, <2>3 DEF Process
<1>3. ASSUME NEW e \in Events, ReplaceOldest(e)
      PROVE  AnotherLife' /\ SnapshotLocal' /\ RoomIsHeads'
  <2>1. /\ phase = "inbox" /\ owing = None /\ batch # <<>> /\ e = Head(batch)
        /\ e \in Starts \ Unknown /\ Admitted(e) /\ OnOverflow[Wf[e]] = "replace"
        /\ UNCHANGED <<phase, life, drain, owing, batch>>
    BY <1>3 DEF ReplaceOldest, OffersStart, Offered
  <2>2. Admitted(e)'
    BY <2>1 DEF Admitted
  <2> QED BY <2>1, <2>2 DEF RoomIsHeads
<1>4. CASE (\E r \in Runs : RunEnds(r)) \/ (\E i \in 1..Len(turnq) : DispatchTurn(i))
           \/ BeginDrain \/ ForceDrain
  <2>1. phase # "inbox" /\ ~room
    BY <1>4 DEF RunEnds, DispatchTurn, BeginDrain, ForceDrain, RoomIsHeads
  <2>2. room' = room /\ phase' = phase /\ life' = life /\ batch' = batch
    BY <1>4 DEF RunEnds, DispatchTurn, BeginDrain, ForceDrain
  <2>3. drain' = drain \/ life < MaxLives
    BY <1>4 DEF RunEnds, DispatchTurn, BeginDrain, ForceDrain
  <2> QED BY <2>1, <2>2, <2>3 DEF RoomIsHeads
<1>5. CASE InboxDone
  BY <1>5 DEF InboxDone, RoomIsHeads
<1>6. CASE Tick
  BY <1>6 DEF Tick, BeginInbox, EndInbox, EndRuns, Save, Continue, RoomIsHeads
<1>7. CASE Exit \/ Crash
  <2>1. ~room' /\ batch' = <<>>
    BY <1>7 DEF Exit, Crash, Lost
  <2>2. life < MaxLives /\ life' = life
    BY <1>7 DEF Exit, Crash, DrainDone
  <2> QED BY <2>1, <2>2 DEF RoomIsHeads
<1>8. CASE Restart
  BY <1>8 DEF Restart, RoomIsHeads
<1> QED BY <1>1, <1>2, <1>3, <1>4, <1>5, <1>6, <1>7, <1>8 DEF Next, Process

---------------------------------------------------------------------------
(* Runs in memory and in the store.                                        *)

\* The store's view of a run follows memory's.
Kept(r) == /\ saved'[r] = "none" <=> saved[r] = "none"
           /\ saved'[r] = "live" => saved[r] = "live"

\* A checkpoint leaves memory and store in agreement about which runs exist.
LEMMA CheckpointRecords ==
  ASSUME RunsRecorded, Checkpoint,
         \A r \in Runs : /\ runs'[r] = "none" <=> runs[r] = "none"
                         /\ runs'[r] = "live" => runs[r] = "live"
  PROVE  RunsRecorded' /\ \A r \in Runs : Kept(r)
<1>1. saved' = runs' \/ saved' = saved
  BY DEF Checkpoint
<1> QED BY <1>1 DEF RunsRecorded, Kept

\* Only the start of a run makes a run known; nothing forgets one.
LEMMA StepRecorded ==
  ASSUME TypeOK, RunsRecorded, Next
  PROVE  /\ RunsRecorded'
         /\ \/ \E e \in Events : StartRun(e)
            \/ \A r \in Runs : Kept(r)
<1> USE DEF TypeOK, process, memory, work
<1>1. CASE UNCHANGED <<runs, saved>>
  BY <1>1 DEF RunsRecorded, Kept
<1>2. ASSUME NEW e \in Events, ReplaceOldest(e)
      PROVE  RunsRecorded' /\ \A r \in Runs : Kept(r)
  <2>1. PICK q \in LiveOf(Wf[e]) : runs' = [runs EXCEPT ![q] = "done"]
    BY <1>2 DEF ReplaceOldest, Oldest
  <2>2. q \in Runs /\ runs[q] = "live"
    BY DEF LiveOf, Live
  <2> QED BY <1>2, <2>1, <2>2, CheckpointRecords DEF ReplaceOldest
<1>3. ASSUME NEW e \in Events, StartRun(e)
      PROVE  RunsRecorded'
  <2>1. RunOf(e) \in Runs
    BY <1>3, RunOfType DEF StartRun, Fits, OffersStart
  <2> QED BY <1>3, <2>1 DEF StartRun, RunsRecorded
<1>4. ASSUME NEW e \in Events, WakeWait(e)
      PROVE  RunsRecorded' /\ \A r \in Runs : Kept(r)
  BY <1>4, CheckpointRecords DEF WakeWait
<1>5. ASSUME NEW r \in Runs, RunEnds(r)
      PROVE  RunsRecorded' /\ \A q \in Runs : Kept(q)
  BY <1>5, CheckpointRecords DEF RunEnds
<1>6. CASE Save
  BY <1>6, CheckpointRecords DEF Save
<1>7. CASE Exit
  <2>1. runs' = saved'
    BY <1>7 DEF Exit, Lost
  <2>2. \A r \in Runs : Kept(r)
    BY <1>7 DEF Exit, Live, Kept, RunsRecorded
  <2> QED BY <2>1, <2>2 DEF RunsRecorded
<1>8. CASE Crash
  <2>1. runs' = saved' /\ saved' = saved
    BY <1>8 DEF Crash, Lost
  <2> QED BY <2>1 DEF RunsRecorded, Kept
<1>9. \/ UNCHANGED <<runs, saved>>
      \/ \E e \in Events : ReplaceOldest(e) \/ StartRun(e) \/ WakeWait(e)
      \/ \E r \in Runs : RunEnds(r)
      \/ Save \/ Exit \/ Crash
  BY DEF Next, Process, Tick, Accept, FinishRootTurn, KeepForNextLife, DiscardStart,
         OverflowQueue, RefuseInputs, RunCreateFails, FireA2aStart, QueueTurn,
         DispatchTurn, InboxDone, BeginInbox, EndInbox, EndRuns, Continue, BeginDrain,
         ForceDrain, Restart
<1> QED BY <1>1, <1>2, <1>3, <1>4, <1>5, <1>6, <1>7, <1>8, <1>9

---------------------------------------------------------------------------
(* What is handled.                                                        *)

\* Nothing new is handled when no reader takes anything and the store knows
\* the same runs.
LEMMA HandledSame ==
  ASSUME taken' = taken, \A r \in Runs : saved'[r] = "none" <=> saved[r] = "none"
  PROVE  Handled' = Handled
BY DEF Handled, Runs

\* A reader takes one event.
LEMMA HandledTaken ==
  ASSUME life \in Lives, NEW e \in Events, NEW c \in Readers \ {"run"},
         taken' = taken \cup {<<e, c, life>>},
         \A r \in Runs : saved'[r] = "none" <=> saved[r] = "none"
  PROVE  Handled' = Handled \cup {e}
<1>1. \A f \in Events, b \in Readers, l \in Lives :
         <<f, b, l>> \in taken' <=> <<f, b, l>> \in taken \/ (f = e /\ b = c /\ l = life)
  OBVIOUS
<1>2. \A f \in Starts, l \in Lives : saved'[<<f, l>>] = "none" <=> saved[<<f, l>>] = "none"
  BY DEF Runs
<1> QED BY <1>1, <1>2 DEF Handled

\* A run is on record.
LEMMA HandledStarted ==
  ASSUME TypeOK, NEW e \in Starts, StartRun(e)
  PROVE  Handled' = Handled \cup {e}
<1>1. PICK n \in Lives : RunOf(e) = <<e, n>>
  BY Constants DEF RunOf, TypeOK
<1>2. \A f \in Events, b \in Readers \ {"run"}, l \in Lives :
         <<f, b, l>> \in taken' <=> <<f, b, l>> \in taken
  BY DEF StartRun
<1>3. <<e, n>> \in Runs /\ saved' = [saved EXCEPT ![<<e, n>>] = "live"]
  BY <1>1 DEF StartRun, Runs
<1>4. \A f \in Starts, l \in Lives :
         saved'[<<f, l>>] # "none" <=> saved[<<f, l>>] # "none" \/ (f = e /\ l = n)
  BY <1>3 DEF TypeOK, Runs
<1> QED BY <1>2, <1>4, Constants DEF Handled

---------------------------------------------------------------------------
(* Each step of the inbox is a step of module Delivery, or none.           *)

PromiseStep == [Promise!DNext]_(Promise!dvars)

\* The steps Delivery does not see: an event moves from one queue to another.
LEMMA Stutters ==
  ASSUME Traced, Handled' = Handled, Accepted' = Accepted, inbox' = inbox,
         Held' \subseteq Held \cup inbox, owing' \in {owing, None}
  PROVE  Traced' /\ PromiseStep
BY DEF Traced, PromiseStep, Promise!dvars

\* An event the reactor holds is dealt with.
LEMMA Handles ==
  ASSUME Traced, NEW e \in Events \cap Held, Handled' = Handled \cup {e},
         Accepted' = Accepted, inbox' = inbox, Held' \subseteq Held,
         owing' \in {owing, None, e}
  PROVE  Traced' /\ PromiseStep
<1>1. Traced'
  BY DEF Traced
<1>2. CASE e \in inbox
  <2>1. Promise!Handle(e)
    BY <1>2 DEF Promise!Handle
  <2> QED BY <1>1, <2>1 DEF PromiseStep, Promise!DNext
<1>3. CASE e \notin inbox
  BY <1>1, <1>3 DEF Traced, PromiseStep, Promise!dvars
<1> QED BY <1>2, <1>3

\* An event that was never accepted is.
LEMMA Accepts ==
  ASSUME Traced, NEW e \in Events \ Accepted, Handled' = Handled,
         Accepted' = Accepted \cup {e}, inbox' = inbox \cup {e},
         Held' \subseteq Held \cup {e}, owing' = owing
  PROVE  Traced' /\ PromiseStep
<1>1. Traced'
  BY DEF Traced
<1>2. Promise!Accept(e)
  BY DEF Promise!Accept, Traced
<1> QED BY <1>1, <1>2 DEF PromiseStep, Promise!DNext

\* A message is dealt with by accepting a firing.
LEMMA Relays ==
  ASSUME Traced, NEW e \in Events \cap Held, NEW f \in Events \ Accepted,
         Handled' = Handled \cup {e}, Accepted' = Accepted \cup {f},
         inbox' = inbox \cup {f}, Held' \subseteq Held \cup {f}, owing' = owing
  PROVE  Traced' /\ PromiseStep
<1>1. Traced'
  BY DEF Traced
<1>2. CASE e \in inbox
  <2>1. Promise!Relay(e, f)
    BY <1>2 DEF Promise!Relay, Traced
  <2> QED BY <1>1, <2>1 DEF PromiseStep, Promise!DNext
<1>3. CASE e \notin inbox
  <2>1. Handled' = Handled /\ f \notin inbox \cup Handled
    BY <1>3 DEF Traced
  <2>2. Promise!Accept(f)
    BY <2>1 DEF Promise!Accept
  <2> QED BY <1>1, <2>2 DEF PromiseStep, Promise!DNext
<1> QED BY <1>2, <1>3

\* The record of an event that was dealt with goes.
LEMMA Forgets ==
  ASSUME Traced, owing \in Events, Handled' = Handled, None \notin Events,
         Accepted' = Accepted, inbox' = inbox \ {owing}, Held' = Held, owing' = None
  PROVE  Traced' /\ PromiseStep
<1>1. owing \in Handled
  BY DEF Traced
<1>2. Traced'
  BY <1>1 DEF Traced
<1>3. CASE owing \in inbox
  <2>1. Promise!Forget(owing)
    BY <1>1, <1>3 DEF Promise!Forget
  <2> QED BY <1>2, <2>1 DEF PromiseStep, Promise!DNext
<1>4. CASE owing \notin inbox
  BY <1>2, <1>4 DEF PromiseStep, Promise!dvars
<1> QED BY <1>3, <1>4

\* Nothing leaves the reactor's hands.
LEMMA StillHeld ==
  ASSUME NotStranded, Up, life' = life, taken' = taken,
         Held \subseteq Held', inbox' \subseteq inbox \cup Held'
  PROVE  NotStranded'
BY DEF NotStranded, Held

\* What leaves the reactor's hands was taken by a reader of this life.
LEMMA TakenUp ==
  ASSUME NotStranded, Up, life' = life, NEW e, NEW c \in Readers,
         taken' = taken \cup {<<e, c, life>>},
         Held \subseteq Held' \cup {e}, inbox' \subseteq inbox \cup Held'
  PROVE  NotStranded'
BY DEF NotStranded, Held

\* Each action: what it accepts, handles, forgets and still holds.
LEMMA StepDelivers ==
  ASSUME TypeOK, IsFiniteSet(inbox), SnapshotLocal, RunsRecorded, Traced, NotStranded, Next
  PROVE  Traced' /\ PromiseStep /\ NotStranded'
<1> DEFINE Goal == Traced' /\ PromiseStep /\ NotStranded'
<1> USE DEF process, memory, work
<1>0. /\ queue \in Seq(Events) /\ batch \in Seq(Events) /\ turnq \in Seq(Messages)
      /\ active \subseteq Messages /\ life \in Lives
  BY DEF TypeOK
<1>s. \/ phase = "inbox" /\ phase' = "inbox" /\ owing' # None
      \/ \A r \in Runs : saved'[r] = "none" <=> saved[r] = "none"
  <2>1. ASSUME NEW e \in Events, StartRun(e)
        PROVE  phase = "inbox" /\ phase' = "inbox" /\ owing' # None
    BY <2>1, Constants DEF StartRun, Fits, OffersStart, Offered
  <2> QED BY <2>1, StepRecorded DEF Kept
<1>1. ASSUME NEW e \in Events, Accept(e)
      PROVE  Goal
  <2>1. /\ Accepted' = Accepted \cup {e} /\ Range(queue') = Range(queue) \cup {e}
        /\ inbox' = inbox \cup {e}
    BY <1>1, AcceptEventType DEF Accept, TypeOK
  <2>2. Held' = Held \cup {e} /\ owing' = owing /\ e \notin Accepted
    BY <1>1, <2>1 DEF Accept, Held
  <2>3. Handled' = Handled
    BY <1>1, HandledSame DEF Accept
  <2>4. Traced' /\ PromiseStep
    BY <2>1, <2>2, <2>3, Accepts
  <2>5. Up /\ life' = life /\ taken' = taken
    BY <1>1 DEF Accept, Up
  <2>b. NotStranded'
    BY <2>1, <2>2, <2>4, <2>5, StillHeld
  <2> QED BY <2>4, <2>b
<1>2. ASSUME NEW e \in Events, FinishRootTurn(e)
      PROVE  Goal
  <2>1. /\ Up /\ life' = life /\ taken' = taken \cup {<<e, "turn", life>>}
        /\ inbox' = inbox /\ Accepted' = Accepted /\ owing' = e
    BY <1>2 DEF FinishRootTurn, Up, Accepted
  <2>2. e \in Held /\ Held' \subseteq Held /\ Held \subseteq Held' \cup {e}
    BY <1>2 DEF FinishRootTurn, Held
  <2>3. "turn" \in Readers \ {"run"} /\ saved' = saved
    BY <1>2 DEF Readers, FinishRootTurn
  <2>4. Handled' = Handled \cup {e}
    BY <1>0, <2>1, <2>3, HandledTaken
  <2>5. Traced' /\ PromiseStep
    BY <2>1, <2>2, <2>4, Handles
  <2>b. NotStranded'
    BY <2>1, <2>2, <2>3, <2>5, TakenUp
  <2> QED BY <2>5, <2>b
<1>3. ASSUME NEW e \in Events,
             KeepForNextLife(e) \/ OverflowQueue(e) \/ RunCreateFails(e)
      PROVE  Goal
  <2>1. /\ Offered(e) /\ batch' = Tail(batch) /\ queue' = Append(queue, e)
        /\ UNCHANGED <<phase, life, taken, inbox, log, saved, owing, turnq, active>>
    BY <1>3 DEF KeepForNextLife, OverflowQueue, RunCreateFails, Fits, OffersStart, Requeue
  <2>2. /\ Range(batch) = {e} \cup Range(batch')
        /\ Range(queue') = Range(queue) \cup {e}
    BY <1>0, <2>1, OfferedType, AppendRange
  <2>3. Held' = Held /\ Accepted' = Accepted
    BY <2>1, <2>2 DEF Held, Accepted
  <2>4. Handled' = Handled /\ Up
    BY <2>1, HandledSame DEF Up, Offered
  <2>5. Traced' /\ PromiseStep
    BY <2>1, <2>3, <2>4, Stutters
  <2>b. NotStranded'
    BY <2>1, <2>3, <2>4, <2>5, StillHeld
  <2> QED BY <2>5, <2>b
<1>4. ASSUME NEW e \in Events, DiscardStart(e) \/ RefuseInputs(e)
      PROVE  Goal
  <2>1. /\ Offered(e) /\ batch' = Tail(batch) /\ owing' = e
        /\ taken' = taken \cup {<<e, "discard", life>>}
        /\ UNCHANGED <<phase, life, inbox, log, queue, saved, turnq, active>>
    BY <1>4 DEF DiscardStart, RefuseInputs, Fits, OffersStart
  <2>2. Range(batch) = {e} \cup Range(batch')
    BY <2>1, OfferedType
  <2>3. /\ Held' \subseteq Held /\ Held = Held' \cup {e} /\ e \in Held
        /\ Accepted' = Accepted /\ Up
    BY <2>1, <2>2 DEF Held, Accepted, Up, Offered
  <2>4. "discard" \in Readers \ {"run"}
    BY DEF Readers
  <2>5. Handled' = Handled \cup {e}
    BY <1>0, <2>1, <2>4, HandledTaken
  <2>6. Traced' /\ PromiseStep
    BY <2>1, <2>3, <2>5, Handles
  <2>b. NotStranded'
    BY <2>1, <2>3, <2>4, <2>6, TakenUp
  <2> QED BY <2>6, <2>b
<1>5. ASSUME NEW e \in Events, ReplaceOldest(e)
      PROVE  Goal
  <2>1. /\ UNCHANGED <<phase, life, inbox, log, queue, batch, owing, turnq, active, taken>>
        /\ Up
    BY <1>5 DEF ReplaceOldest, OffersStart, Offered, Up
  <2>2. owing' = None
    BY <1>5 DEF ReplaceOldest, OffersStart, Offered
  <2>3. Handled' = Handled
    BY <1>s, <2>1, <2>2, HandledSame
  <2>4. Held' = Held /\ Accepted' = Accepted
    BY <2>1 DEF Held, Accepted
  <2>a. Traced' /\ PromiseStep
    BY <2>1, <2>3, <2>4, Stutters
  <2>b. NotStranded'
    BY <2>1, <2>3, <2>4, StillHeld
  <2> QED BY <2>a, <2>b
<1>6. ASSUME NEW e \in Events, StartRun(e)
      PROVE  Goal
  <2>1. /\ Offered(e) /\ batch' = Tail(batch) /\ owing' = e /\ e \in Starts
        /\ taken' = taken \cup {<<e, "run", life>>}
        /\ UNCHANGED <<phase, life, inbox, log, queue, turnq, active>>
    BY <1>6 DEF StartRun, Fits, OffersStart
  <2>2. Range(batch) = {e} \cup Range(batch')
    BY <2>1, OfferedType
  <2>3. /\ Held' \subseteq Held /\ Held = Held' \cup {e} /\ e \in Held
        /\ Accepted' = Accepted /\ Up
    BY <2>1, <2>2 DEF Held, Accepted, Up, Offered
  <2>4. "run" \in Readers
    BY DEF Readers
  <2>5. Handled' = Handled \cup {e}
    BY <1>6, <2>1, HandledStarted
  <2>6. Traced' /\ PromiseStep
    BY <2>1, <2>3, <2>5, Handles
  <2>b. NotStranded'
    BY <2>1, <2>3, <2>4, <2>6, TakenUp
  <2> QED BY <2>6, <2>b
<1>7. ASSUME NEW e \in Events, WakeWait(e)
      PROVE  Goal
  <2>1. /\ Offered(e) /\ batch' = Tail(batch) /\ owing' = owing /\ owing' = None
        /\ taken' = taken \cup {<<e, "wait", life>>}
        /\ UNCHANGED <<phase, life, inbox, log, queue, turnq, active>>
    BY <1>7 DEF WakeWait, OffersMessage, Offered
  <2>2. Range(batch) = {e} \cup Range(batch')
    BY <2>1, OfferedType
  <2>3. /\ Held' \subseteq Held /\ Held = Held' \cup {e} /\ e \in Held
        /\ Accepted' = Accepted /\ Up
    BY <2>1, <2>2 DEF Held, Accepted, Up, Offered
  <2>4. "wait" \in Readers \ {"run"}
    BY DEF Readers
  <2>5. Handled' = Handled \cup {e}
    BY <1>0, <1>s, <2>1, <2>4, HandledTaken
  <2>6. Traced' /\ PromiseStep
    BY <2>1, <2>3, <2>5, Handles
  <2>b. NotStranded'
    BY <2>1, <2>3, <2>4, <2>6, TakenUp
  <2> QED BY <2>6, <2>b
<1>8. ASSUME NEW e \in Events, FireA2aStart(e)
      PROVE  Goal
  <2>1. /\ Offered(e) /\ batch' = Tail(batch)
        /\ UNCHANGED <<phase, life, saved, owing, turnq, active>>
    BY <1>8 DEF FireA2aStart, OffersMessage
  <2>2. Range(batch) = {e} \cup Range(batch') /\ Up
    BY <2>1, OfferedType DEF Up, Offered
  <2>3. {"start", "refused"} \subseteq Readers \ {"run"}
    BY DEF Readers
  <2>4. ASSUME NEW f \in Firings \ Accepted, AcceptEvent(f),
               taken' = taken \cup {<<e, "start", life>>}
        PROVE  Goal
    <3>1. f \in Events
      BY Constants
    <3>2. /\ Accepted' = Accepted \cup {f} /\ Range(queue') = Range(queue) \cup {f}
          /\ inbox' = inbox \cup {f}
      BY <2>4, <3>1, AcceptEventType DEF TypeOK
    <3>3. /\ Held' \cup {e} = Held \cup {f} \cup {e} /\ e \in Held /\ f \in Held'
          /\ Held' \subseteq Held \cup {f}
      BY <2>1, <2>2, <3>2 DEF Held
    <3>4. Handled' = Handled \cup {e}
      BY <1>0, <2>1, <2>3, <2>4, HandledTaken
    <3>5. Traced' /\ PromiseStep
      BY <2>1, <3>1, <3>2, <3>3, <3>4, Relays
    <3>6. NotStranded'
      BY <2>1, <2>2, <2>3, <2>4, <3>2, <3>3, TakenUp
    <3> QED BY <3>5, <3>6
  <2>5. ASSUME taken' = taken \cup {<<e, "refused", life>>},
               UNCHANGED <<log, inbox, queue>>
        PROVE  Goal
    <3>1. /\ Held' \subseteq Held /\ Held = Held' \cup {e} /\ e \in Held
          /\ Accepted' = Accepted
      BY <2>1, <2>2, <2>5 DEF Held, Accepted
    <3>2. Handled' = Handled \cup {e}
      BY <1>0, <2>1, <2>3, <2>5, HandledTaken
    <3>3. Traced' /\ PromiseStep
      BY <2>1, <2>5, <3>1, <3>2, Handles
    <3>4. NotStranded'
      BY <2>1, <2>2, <2>3, <2>5, <3>1, TakenUp
    <3> QED BY <3>3, <3>4
  <2> QED BY <1>8, <2>4, <2>5 DEF FireA2aStart
<1>9. ASSUME NEW e \in Events, QueueTurn(e)
      PROVE  Goal
  <2>1. /\ Offered(e) /\ batch' = Tail(batch) /\ turnq' = Append(turnq, e)
        /\ e \in Messages
        /\ UNCHANGED <<phase, life, taken, inbox, log, saved, owing, queue, active>>
    BY <1>9 DEF QueueTurn, OffersMessage
  <2>2. /\ Range(batch) = {e} \cup Range(batch')
        /\ Range(turnq') = Range(turnq) \cup {e}
    BY <1>0, <2>1, OfferedType, AppendRange
  <2>3. Held' = Held /\ Accepted' = Accepted
    BY <2>1, <2>2 DEF Held, Accepted
  <2>4. Handled' = Handled /\ Up
    BY <2>1, HandledSame DEF Up, Offered
  <2>a. Traced' /\ PromiseStep
    BY <2>1, <2>3, <2>4, Stutters
  <2>b. NotStranded'
    BY <2>1, <2>3, <2>4, StillHeld
  <2> QED BY <2>a, <2>b
<1>10. ASSUME NEW i \in 1..Len(turnq), DispatchTurn(i)
       PROVE  Goal
  <2>1. /\ UNCHANGED <<phase, life, inbox, log, queue, batch, saved>> /\ owing = None /\ Up
        /\ \/ active' = active \cup {turnq[i]} /\ UNCHANGED <<owing, taken>>
           \/ /\ owing' = turnq[i] /\ active' = active
              /\ taken' = taken \cup {<<turnq[i], "turn", life>>}
    BY <1>10 DEF DispatchTurn, Up
  <2>2. Range(turnq) = Range(turnq') \cup {turnq[i]} /\ turnq[i] \in Events
    BY <1>0, <1>10, RemoveRange, Constants DEF DispatchTurn
  <2>3. turnq[i] \in Held /\ Accepted' = Accepted
    BY <2>1, <2>2 DEF Held, Accepted
  <2>4. CASE active' = active \cup {turnq[i]} /\ UNCHANGED <<owing, taken>>
    <3>1. Held' = Held
      BY <2>1, <2>2, <2>4 DEF Held
    <3>2. Handled' = Handled
      BY <2>1, <2>4, HandledSame
    <3>a. Traced' /\ PromiseStep
      BY <2>1, <2>3, <2>4, <3>1, <3>2, Stutters
    <3>b. NotStranded'
      BY <2>1, <2>3, <2>4, <3>1, <3>2, StillHeld
    <3> QED BY <3>a, <3>b
  <2>5. CASE /\ owing' = turnq[i] /\ active' = active
             /\ taken' = taken \cup {<<turnq[i], "turn", life>>}
    <3>1. Held' \subseteq Held /\ Held = Held' \cup {turnq[i]}
      BY <2>1, <2>2, <2>5 DEF Held
    <3>2. "turn" \in Readers \ {"run"}
      BY DEF Readers
    <3>3. Handled' = Handled \cup {turnq[i]}
      BY <1>0, <2>1, <2>2, <2>5, <3>2, HandledTaken
    <3>4. Traced' /\ PromiseStep
      BY <2>1, <2>2, <2>3, <2>5, <3>1, <3>3, Handles
    <3>b. NotStranded'
      BY <2>1, <2>5, <3>1, <3>2, <3>4, TakenUp
    <3> QED BY <3>4, <3>b
  <2> QED BY <2>1, <2>4, <2>5
<1>11. CASE InboxDone
  <2>1. /\ UNCHANGED <<phase, life, log, queue, batch, turnq, active, saved, taken>>
        /\ owing \in Events /\ owing' = None /\ Up
        /\ inbox' = inbox \/ inbox' = inbox \ {owing}
    BY <1>11 DEF InboxDone, TypeOK
  <2>2. Held' = Held /\ Accepted' = Accepted /\ Handled' = Handled
    BY <2>1, HandledSame DEF Held, Accepted
  <2>3. Traced' /\ PromiseStep
    BY <2>1, <2>2, Stutters, Forgets, Constants
  <2>b. NotStranded'
    BY <2>1, <2>2, <2>3, StillHeld
  <2> QED BY <2>3, <2>b
<1>12. CASE BeginInbox
  <2>1. /\ UNCHANGED <<life, log, inbox, owing, turnq, active, saved, taken>> /\ Up
        /\ batch = <<>> /\ batch' = queue /\ queue' = <<>>
    BY <1>12 DEF BeginInbox, SnapshotLocal, Up
  <2>2. Held' = Held /\ Accepted' = Accepted /\ Handled' = Handled
    BY <2>1, HandledSame, EmptyRange DEF Held, Accepted
  <2>a. Traced' /\ PromiseStep
    BY <2>1, <2>2, Stutters
  <2>b. NotStranded'
    BY <2>1, <2>2, StillHeld
  <2> QED BY <2>a, <2>b
<1>13. CASE EndInbox \/ EndRuns \/ Save \/ Continue \/ ForceDrain
            \/ \E r \in Runs : RunEnds(r)
  <2>1. /\ UNCHANGED <<life, log, inbox, queue, batch, owing, turnq, active, taken>> /\ Up
        /\ owing' = None \/ phase # "inbox"
    BY <1>13 DEF EndInbox, EndRuns, Save, Continue, ForceDrain, RunEnds, Up
  <2>2. Handled' = Handled
    BY <1>s, <2>1, HandledSame
  <2>3. Held' = Held /\ Accepted' = Accepted
    BY <2>1 DEF Held, Accepted
  <2>a. Traced' /\ PromiseStep
    BY <2>1, <2>2, <2>3, Stutters
  <2>b. NotStranded'
    BY <2>1, <2>2, <2>3, StillHeld
  <2> QED BY <2>a, <2>b
<1>14. CASE BeginDrain
  <2>1. /\ UNCHANGED <<phase, life, batch, owing, turnq, active, saved, taken>> /\ Up
    BY <1>14 DEF BeginDrain, Up
  <2>2. Handled' = Handled
    BY <2>1, HandledSame
  <2>3. ASSUME NEW d \in Deinit \ Accepted, AcceptEvent(d)
        PROVE  Goal
    <3>1. d \in Events
      BY Constants
    <3>2. /\ Accepted' = Accepted \cup {d} /\ Range(queue') = Range(queue) \cup {d}
          /\ inbox' = inbox \cup {d}
      BY <2>3, <3>1, AcceptEventType DEF TypeOK
    <3>3. Held' = Held \cup {d}
      BY <2>1, <3>2 DEF Held
    <3>a. Traced' /\ PromiseStep
      BY <2>1, <2>2, <3>1, <3>2, <3>3, Accepts
    <3>b. NotStranded'
      BY <2>1, <2>2, <3>1, <3>2, <3>3, StillHeld
    <3> QED BY <3>a, <3>b
  <2>4. CASE UNCHANGED <<log, inbox, queue>>
    <3>1. Held' = Held /\ Accepted' = Accepted
      BY <2>1, <2>4 DEF Held, Accepted
    <3>a. Traced' /\ PromiseStep
      BY <2>1, <2>2, <2>4, <3>1, Stutters
    <3>b. NotStranded'
      BY <2>1, <2>2, <2>4, <3>1, StillHeld
    <3> QED BY <3>a, <3>b
  <2> QED BY <1>14, <2>3, <2>4 DEF BeginDrain
<1>15. CASE Exit \/ Crash
  <2>1. /\ phase' = "down" /\ queue' = <<>> /\ batch' = <<>> /\ turnq' = <<>>
        /\ active' = {} /\ owing' = None
        /\ UNCHANGED <<log, inbox, taken>>
    BY <1>15 DEF Exit, Crash, Lost
  <2>2. Held' = {} /\ Accepted' = Accepted
    BY <2>1, EmptyRange DEF Held, Accepted
  <2>3. Handled' = Handled
    BY <1>s, <2>1, HandledSame
  <2>4. NotStranded'
    BY <2>1 DEF NotStranded, Up
  <2> QED BY <2>1, <2>2, <2>3, <2>4, Stutters
<1>16. CASE Restart
  <2>1. /\ queue' \in Replays /\ UNCHANGED <<log, inbox, batch, owing, turnq, active, taken>>
        /\ phase = "down" /\ saved' = saved
    BY <1>16 DEF Restart
  <2>2. Range(queue') = inbox
    BY <2>1, ReplaysType DEF TypeOK
  <2>3. Held' \subseteq Held \cup inbox /\ inbox' \subseteq Held' /\ Accepted' = Accepted
    BY <2>1, <2>2 DEF Held, Accepted
  <2>4. Handled' = Handled
    BY <2>1, HandledSame
  <2>5. NotStranded'
    BY <2>3 DEF NotStranded, Held
  <2> QED BY <2>1, <2>3, <2>4, <2>5, Stutters
<1> QED BY <1>1, <1>2, <1>3, <1>4, <1>5, <1>6, <1>7, <1>8, <1>9, <1>10, <1>11, <1>12,
           <1>13, <1>14, <1>15, <1>16 DEF Next, Process, Tick

---------------------------------------------------------------------------
(* The caps.                                                               *)

\* The counts are counts: every set of live runs is finite, and what is live
\* in memory is live in the store.
LEMMA Counted ==
  ASSUME RunsRecorded, IsFiniteSet(SavedLive), NEW w
  PROVE  /\ LiveOf(w) \subseteq SavedLiveOf(w)
         /\ IsFiniteSet(LiveOf(w)) /\ Cardinality(LiveOf(w)) \in Nat
         /\ IsFiniteSet(SavedLiveOf(w)) /\ Cardinality(SavedLiveOf(w)) \in Nat
         /\ IsFiniteSet(StaleOf(w)) /\ Cardinality(StaleOf(w)) \in Nat
         /\ Cardinality(LiveOf(w)) <= Cardinality(SavedLiveOf(w))
         /\ Cardinality(SavedLiveOf(w)) = Cardinality(LiveOf(w)) + Cardinality(StaleOf(w))
<1>1. LiveOf(w) \subseteq SavedLiveOf(w)
  BY DEF LiveOf, Live, SavedLiveOf, SavedLive, RunsRecorded
<1>2. IsFiniteSet(SavedLiveOf(w))
  BY FS_Subset DEF SavedLiveOf
<1>3. IsFiniteSet(LiveOf(w)) /\ Cardinality(LiveOf(w)) <= Cardinality(SavedLiveOf(w))
  BY <1>1, <1>2, FS_Subset
<1>4. /\ IsFiniteSet(StaleOf(w))
      /\ Cardinality(StaleOf(w)) =
           Cardinality(SavedLiveOf(w)) - Cardinality(SavedLiveOf(w) \cap LiveOf(w))
  BY <1>2, FS_Difference DEF StaleOf
<1>5. SavedLiveOf(w) \cap LiveOf(w) = LiveOf(w)
  BY <1>1
<1>6. /\ Cardinality(LiveOf(w)) \in Nat /\ Cardinality(SavedLiveOf(w)) \in Nat
      /\ Cardinality(StaleOf(w)) \in Nat
  BY <1>2, <1>3, <1>4, FS_CardinalityType
<1>7. Cardinality(StaleOf(w)) = Cardinality(SavedLiveOf(w)) - Cardinality(LiveOf(w))
  BY <1>4, <1>5
<1>8. Cardinality(SavedLiveOf(w)) = Cardinality(LiveOf(w)) + Cardinality(StaleOf(w))
  BY <1>6, <1>7
<1> QED BY <1>1, <1>2, <1>3, <1>4, <1>6, <1>8

\* The store loses live runs, never gains them, and the ended ones it still
\* shows are paid for by failed writes.
LEMMA CapsKept ==
  ASSUME RunsRecorded, CapsAccounted, fails \in Nat, fails' \in Nat, fails <= fails',
         \A r \in Runs : Kept(r),
         \A w \in Workflows : Cardinality(StaleOf(w)') <= fails',
         room' => RoomFor(Wf[Head(batch)])'
  PROVE  CapsAccounted'
<1>1. SavedLive' \subseteq SavedLive
  BY DEF SavedLive, Kept
<1>2. IsFiniteSet(SavedLive')
  BY <1>1, FS_Subset DEF CapsAccounted
<1>3. ASSUME NEW w \in Workflows
      PROVE  Cardinality(SavedLiveOf(w)') <= Cap[w] + fails'
  <2>1. SavedLiveOf(w)' \subseteq SavedLiveOf(w)
    BY <1>1 DEF SavedLiveOf
  <2>2. IsFiniteSet(SavedLiveOf(w)) /\ Cardinality(SavedLiveOf(w)) \in Nat
    BY Counted DEF CapsAccounted
  <2>3. /\ Cardinality(SavedLiveOf(w)') <= Cardinality(SavedLiveOf(w))
        /\ Cardinality(SavedLiveOf(w)') \in Nat
    BY <2>1, <2>2, FS_Subset, FS_CardinalityType
  <2>4. Cardinality(SavedLiveOf(w)) <= Cap[w] + fails /\ Cap[w] \in Nat
    BY ConfigAssumption DEF CapsAccounted
  <2> QED BY <2>2, <2>3, <2>4
<1> QED BY <1>2, <1>3 DEF CapsAccounted

\* A checkpoint stores what memory knows, or fails and is counted; in memory
\* at most the run q has ended.
LEMMA CheckpointStale ==
  ASSUME TypeOK, RunsRecorded, IsFiniteSet(SavedLive), Checkpoint, NEW q, NEW w,
         runs' = runs \/ (q \in Runs /\ runs' = [runs EXCEPT ![q] = "done"]),
         Cardinality(StaleOf(w)) <= fails
  PROVE  /\ Cardinality(StaleOf(w)') <= fails'
         /\ fails' \in Nat /\ fails <= fails'
<1>0. fails \in Nat
  BY DEF TypeOK
<1>1. CASE saved' = runs' /\ fails' = fails
  <2>1. StaleOf(w)' = {}
    BY <1>1 DEF StaleOf, SavedLiveOf, SavedLive, LiveOf, Live
  <2> QED BY <1>0, <1>1, <2>1, FS_EmptySet
<1>2. CASE saved' = saved /\ fails' = fails + 1
  <2>1. StaleOf(w)' \subseteq StaleOf(w) \cup {q}
    BY <1>2 DEF StaleOf, SavedLiveOf, SavedLive, LiveOf, Live, TypeOK
  <2>2. IsFiniteSet(StaleOf(w)) /\ Cardinality(StaleOf(w)) \in Nat
    BY Counted
  <2>3. /\ IsFiniteSet(StaleOf(w) \cup {q})
        /\ Cardinality(StaleOf(w) \cup {q}) =
             IF q \in StaleOf(w) THEN Cardinality(StaleOf(w))
                                 ELSE Cardinality(StaleOf(w)) + 1
    BY <2>2, FS_AddElement
  <2>4. /\ Cardinality(StaleOf(w)') <= Cardinality(StaleOf(w) \cup {q})
        /\ Cardinality(StaleOf(w)') \in Nat
    BY <2>1, <2>3, FS_Subset, FS_CardinalityType
  <2> QED BY <1>0, <1>2, <2>2, <2>3, <2>4
<1>3. (saved' = runs' /\ fails' = fails) \/ (saved' = saved /\ fails' = fails + 1)
  BY DEF Checkpoint, StoreFails
<1> QED BY <1>1, <1>2, <1>3

\* Every action keeps the account of live runs.
LEMMA StepCaps ==
  ASSUME TypeOK, TypeOK', RunsRecorded, RunsRecorded', RoomIsHeads, CapsAccounted, Next
  PROVE  CapsAccounted'
<1> USE DEF process, memory, work
<1>0. /\ fails \in Nat /\ fails' \in Nat /\ IsFiniteSet(SavedLive)
      /\ \A w \in Workflows : Cardinality(StaleOf(w)) <= fails
  BY DEF TypeOK, CapsAccounted
<1>w. \A s \in Starts : Wf[s] \in Workflows /\ Cap[Wf[s]] \in Nat
  BY ConfigAssumption
<1>1. ASSUME UNCHANGED <<runs, saved>>, fails <= fails',
             ~room' \/ UNCHANGED <<room, batch>>
      PROVE  CapsAccounted'
  <2>1. /\ SavedLive' = SavedLive
        /\ \A w : StaleOf(w)' = StaleOf(w) /\ SavedLiveOf(w)' = SavedLiveOf(w)
    BY <1>1 DEF SavedLive, StaleOf, SavedLiveOf, LiveOf, Live
  <2>2. ASSUME NEW w \in Workflows
        PROVE  Cardinality(StaleOf(w)') <= fails'
    <3>1. Cardinality(StaleOf(w)) \in Nat /\ Cardinality(StaleOf(w)) <= fails
      BY <1>0, Counted
    <3> QED BY <1>0, <1>1, <2>1, <3>1
  <2>3. ASSUME room' PROVE RoomFor(Wf[Head(batch)])'
    <3>1. room /\ Head(batch) \in Starts /\ UNCHANGED <<room, batch>>
      BY <1>1, <2>3 DEF RoomIsHeads
    <3>0. PICK w : w = Wf[Head(batch)]
      OBVIOUS
    <3>2. Cardinality(SavedLiveOf(w)) + 1 <= Cap[w] + fails
      BY <3>0, <3>1 DEF CapsAccounted, RoomFor
    <3>3. Cardinality(SavedLiveOf(w)) \in Nat /\ Cap[w] \in Nat
      BY <1>0, <1>w, <3>0, <3>1, Counted
    <3>4. Cardinality(SavedLiveOf(w)') + 1 <= Cap[w] + fails'
      BY <1>0, <1>1, <2>1, <3>2, <3>3
    <3> QED BY <3>0, <3>1, <3>4 DEF RoomFor
  <2>4. \A r \in Runs : Kept(r)
    BY <1>1 DEF Kept
  <2> QED BY <1>0, <1>1, <2>2, <2>3, <2>4, CapsKept
<1>2. ASSUME NEW e \in Events, ReplaceOldest(e)
      PROVE  CapsAccounted'
  <2> DEFINE w == Wf[e]
  <2>1. PICK q \in LiveOf(w) : runs' = [runs EXCEPT ![q] = "done"]
    BY <1>2 DEF ReplaceOldest, Oldest
  <2>2. /\ Checkpoint /\ UNCHANGED batch /\ e = Head(batch) /\ e \in Starts
        /\ q \in Runs /\ runs[q] = "live"
    BY <1>2 DEF ReplaceOldest, OffersStart, Offered, LiveOf, Live
  <2>3. \A r \in Runs : Kept(r)
    BY <2>1, <2>2, CheckpointRecords DEF TypeOK
  <2>4. \A v \in Workflows : Cardinality(StaleOf(v)') <= fails'
    BY <1>0, <2>1, <2>2, CheckpointStale
  <2>5. w \in Workflows /\ Cap[w] \in Nat /\ Cardinality(SavedLiveOf(w)) <= Cap[w] + fails
    BY <1>w, <2>2 DEF CapsAccounted
  <2>6. IsFiniteSet(SavedLiveOf(w)) /\ Cardinality(SavedLiveOf(w)) \in Nat
        /\ LiveOf(w) \subseteq SavedLiveOf(w)
    BY <1>0, Counted
  <2>7. RoomFor(w)'
    <3>1. CASE saved' = runs' /\ fails' = fails
      <4>1. SavedLiveOf(w)' \subseteq SavedLiveOf(w) \ {q}
        BY <2>1, <2>2, <2>3, <3>1 DEF SavedLiveOf, SavedLive, Kept, TypeOK
      <4>2. /\ IsFiniteSet(SavedLiveOf(w) \ {q})
            /\ Cardinality(SavedLiveOf(w) \ {q}) = Cardinality(SavedLiveOf(w)) - 1
        BY <2>6, FS_RemoveElement
      <4>3. /\ Cardinality(SavedLiveOf(w)') <= Cardinality(SavedLiveOf(w) \ {q})
            /\ Cardinality(SavedLiveOf(w)') \in Nat
        BY <4>1, <4>2, FS_Subset, FS_CardinalityType
      <4>4. Cardinality(SavedLiveOf(w)') + 1 <= Cap[w] + fails'
        BY <1>0, <2>5, <2>6, <3>1, <4>2, <4>3
      <4> QED BY <4>4 DEF RoomFor
    <3>2. CASE saved' = saved /\ fails' = fails + 1
      <4>1. SavedLiveOf(w)' = SavedLiveOf(w)
        BY <3>2 DEF SavedLiveOf, SavedLive
      <4>2. Cardinality(SavedLiveOf(w)') + 1 <= Cap[w] + fails'
        BY <1>0, <2>5, <2>6, <3>2, <4>1
      <4> QED BY <4>2 DEF RoomFor
    <3> QED BY <2>2, <3>1, <3>2 DEF Checkpoint, StoreFails
  <2>8. fails <= fails'
    BY <1>0, <2>2 DEF Checkpoint, StoreFails
  <2>9. RoomFor(Wf[Head(batch)])'
    BY <2>2, <2>7
  <2> QED BY <1>0, <2>3, <2>4, <2>8, <2>9, CapsKept
<1>3. ASSUME NEW e \in Events, StartRun(e)
      PROVE  CapsAccounted'
  <2> DEFINE w == Wf[e]
             q == RunOf(e)
  <2>1. /\ Fits(e) /\ e \in Starts /\ e = Head(batch) /\ ~room' /\ fails' = fails
        /\ runs' = [runs EXCEPT ![q] = "live"] /\ saved' = [saved EXCEPT ![q] = "live"]
    BY <1>3 DEF StartRun, Fits, OffersStart, Offered
  <2>2. q \in Runs /\ q[1] = e /\ w \in Workflows /\ Cap[w] \in Nat \ {0}
    BY <2>1, RunOfType, ConfigAssumption DEF TypeOK
  <2> HIDE DEF q, w
  <2>3. SavedLive' = SavedLive \cup {q}
    BY <2>1, <2>2 DEF SavedLive, TypeOK
  <2>4. IsFiniteSet(SavedLive')
    BY <1>0, <2>3, FS_AddElement
  <2>5. ASSUME NEW v \in Workflows
        PROVE  Cardinality(StaleOf(v)') <= fails'
    <3>1. StaleOf(v)' \subseteq StaleOf(v)
      BY <2>1, <2>2 DEF StaleOf, SavedLiveOf, SavedLive, LiveOf, Live, TypeOK
    <3>2. /\ IsFiniteSet(StaleOf(v)) /\ Cardinality(StaleOf(v)) \in Nat
          /\ Cardinality(StaleOf(v)) <= fails
      BY <1>0, Counted
    <3>3. /\ Cardinality(StaleOf(v)') <= Cardinality(StaleOf(v))
          /\ Cardinality(StaleOf(v)') \in Nat
      BY <3>1, <3>2, FS_Subset, FS_CardinalityType
    <3> QED BY <1>0, <2>1, <3>2, <3>3
  <2>6. /\ Cardinality(SavedLiveOf(w)) \in Nat /\ IsFiniteSet(SavedLiveOf(w))
        /\ Cardinality(LiveOf(w)) \in Nat /\ Cardinality(StaleOf(w)) \in Nat
        /\ Cardinality(SavedLiveOf(w)) = Cardinality(LiveOf(w)) + Cardinality(StaleOf(w))
        /\ Cardinality(StaleOf(w)) <= fails
    BY <1>0, <2>2, Counted
  <2>7. Cardinality(SavedLiveOf(w)) + 1 <= Cap[w] + fails
    <3>1. CASE room
      BY <2>1, <3>1 DEF CapsAccounted, RoomFor, w
    <3>2. CASE ~AtCap(e)
      <4>1. ~(Cardinality(LiveOf(w)) >= Cap[w])
        BY <3>2 DEF AtCap, w
      <4> QED BY <1>0, <2>2, <2>6, <4>1
    <3>3. CASE LiveOf(w) = {}
      <4>1. Cardinality(LiveOf(w)) = 0
        BY <3>3, FS_EmptySet
      <4> QED BY <1>0, <2>2, <2>6, <4>1
    <3> QED BY <2>1, <3>1, <3>2, <3>3 DEF Fits, w
  <2>8. ASSUME NEW v \in Workflows
        PROVE  Cardinality(SavedLiveOf(v)') <= Cap[v] + fails'
    <3>1. CASE v = w
      <4>1. SavedLiveOf(w)' = SavedLiveOf(w) \cup {q}
        BY <2>2, <2>3 DEF SavedLiveOf, SavedLive, w
      <4>2. Cardinality(SavedLiveOf(w)') =
              IF q \in SavedLiveOf(w) THEN Cardinality(SavedLiveOf(w))
                                      ELSE Cardinality(SavedLiveOf(w)) + 1
        BY <2>6, <4>1, FS_AddElement
      <4> QED BY <1>0, <2>1, <2>2, <2>6, <2>7, <3>1, <4>2
    <3>2. CASE v # w
      <4>1. SavedLiveOf(v)' = SavedLiveOf(v)
        BY <2>2, <2>3, <3>2 DEF SavedLiveOf, SavedLive, w
      <4> QED BY <2>1, <4>1 DEF CapsAccounted
    <3> QED BY <3>1, <3>2
  <2> QED BY <2>1, <2>4, <2>5, <2>8 DEF CapsAccounted
<1>4. ASSUME NEW r, (r \in Runs /\ RunEnds(r)) \/ Save \/ \E e \in Events : WakeWait(e)
      PROVE  CapsAccounted'
  <2>1. Checkpoint /\ ~room'
    BY <1>4, RoomWaits, EventsAssumption
       DEF RunEnds, Save, WakeWait, OffersMessage, RoomIsHeads
  <2>2. \/ runs' = runs
        \/ r \in Runs /\ runs[r] = "live" /\ runs' = [runs EXCEPT ![r] = "done"]
    BY <1>4 DEF RunEnds, Save, WakeWait
  <2>3. \A p \in Runs : Kept(p)
    BY <2>1, <2>2, CheckpointRecords DEF TypeOK
  <2>4. \A v \in Workflows : Cardinality(StaleOf(v)') <= fails'
    BY <1>0, <2>1, <2>2, CheckpointStale
  <2>5. fails <= fails'
    BY <1>0, <2>1 DEF Checkpoint, StoreFails
  <2> QED BY <1>0, <2>1, <2>3, <2>4, <2>5, CapsKept
<1>5. CASE Exit \/ Crash
  <2>1. runs' = saved' /\ ~room' /\ fails <= fails'
    BY <1>0, <1>5 DEF Exit, Crash, Lost, StoreFails
  <2>2. \A r \in Runs : Kept(r)
    BY <1>5 DEF Exit, Crash, Kept, Live, RunsRecorded
  <2>3. ASSUME NEW v \in Workflows
        PROVE  Cardinality(StaleOf(v)') <= fails'
    <3>1. StaleOf(v)' = {}
      BY <2>1 DEF StaleOf, SavedLiveOf, SavedLive, LiveOf, Live
    <3> QED BY <1>0, <3>1, FS_EmptySet
  <2> QED BY <1>0, <2>1, <2>2, <2>3, CapsKept
<1>6. \/ /\ UNCHANGED <<runs, saved>> /\ fails <= fails'
         /\ ~room' \/ UNCHANGED <<room, batch>>
      \/ \E e \in Events : ReplaceOldest(e) \/ StartRun(e) \/ WakeWait(e)
      \/ \E r \in Runs : RunEnds(r)
      \/ Save \/ Exit \/ Crash
  <2>1. \A e \in Events : Offered(e) /\ room =>
           e \in Starts \ Unknown /\ Admitted(e) /\ OnOverflow[Wf[e]] = "replace"
    BY RoomWaits
  <2>2. ASSUME NEW e \in Events,
               KeepForNextLife(e) \/ DiscardStart(e) \/ OverflowQueue(e)
                 \/ FireA2aStart(e) \/ QueueTurn(e)
        PROVE  UNCHANGED <<runs, saved>> /\ fails <= fails' /\ ~room'
    <3>1. UNCHANGED <<runs, saved, fails, room>> /\ Offered(e)
      BY <2>2 DEF KeepForNextLife, DiscardStart, OverflowQueue, FireA2aStart, QueueTurn,
                  OffersStart, OffersMessage
    <3>2. ~room
      BY <2>1, <2>2, <3>1, EventsAssumption
         DEF KeepForNextLife, DiscardStart, OverflowQueue, FireA2aStart, QueueTurn,
             OffersMessage
    <3> QED BY <1>0, <3>1, <3>2
  <2>3. ASSUME NEW e \in Events, RefuseInputs(e) \/ RunCreateFails(e)
        PROVE  UNCHANGED <<runs, saved>> /\ fails <= fails' /\ ~room'
    BY <1>0, <2>3 DEF RefuseInputs, RunCreateFails, StoreFails
  <2>4. ASSUME NEW e \in Events, Accept(e) \/ FinishRootTurn(e)
        PROVE  UNCHANGED <<runs, saved, room, batch>> /\ fails <= fails'
    BY <1>0, <2>4 DEF Accept, FinishRootTurn
  <2>5. ASSUME NEW i \in 1..Len(turnq), DispatchTurn(i)
        PROVE  UNCHANGED <<runs, saved, room, batch>> /\ fails <= fails'
    BY <1>0, <2>5 DEF DispatchTurn
  <2>6. ASSUME InboxDone \/ EndInbox \/ EndRuns \/ Continue \/ BeginDrain \/ ForceDrain
               \/ Restart
        PROVE  UNCHANGED <<runs, saved, room, batch>> /\ fails <= fails'
    BY <1>0, <2>6 DEF InboxDone, EndInbox, EndRuns, Continue, BeginDrain, ForceDrain,
                      Restart, StoreFails
  <2>7. ASSUME BeginInbox
        PROVE  UNCHANGED <<runs, saved>> /\ fails <= fails' /\ ~room'
    BY <1>0, <2>7 DEF BeginInbox, RoomIsHeads
  <2> QED BY <2>2, <2>3, <2>4, <2>5, <2>6, <2>7 DEF Next, Process, Tick
<1> QED BY <1>1, <1>2, <1>3, <1>4, <1>5, <1>6

---------------------------------------------------------------------------
(* The theorems.                                                           *)

\* The initial states satisfy the invariant.
LEMMA InitInv == Init => IInv
<1> SUFFICES ASSUME Init PROVE IInv
  OBVIOUS
<1> USE DEF Init
<1>1. TypeOK
  <2>1. life \in Lives /\ fails \in 0..MaxFails
    BY Constants, ConfigAssumption
  <2>4. exiting \in BOOLEAN /\ room \in BOOLEAN
    BY Zenon
  <2>2. /\ log \in Seq(Events) /\ queue \in Seq(Events) /\ batch \in Seq(Events)
        /\ turnq \in Seq(Messages)
    BY EmptySeq
  <2>3. /\ runs \in [Runs -> {"none", "live", "done"}] /\ saved = runs
        /\ born \in [Runs -> Nat] /\ created \in Nat
    OBVIOUS
  <2> QED BY <2>1, <2>2, <2>3, <2>4 DEF TypeOK
<1>2. IsFiniteSet(inbox)
  BY FS_EmptySet
<1>3. AnotherLife /\ SnapshotLocal /\ RunsRecorded /\ RoomIsHeads
  BY DEF AnotherLife, Draining, SnapshotLocal, RunsRecorded, RoomIsHeads
<1>4. Handled = {} /\ Held = {} /\ Accepted = {}
  <2>1. Range(<<>>) = {}
    BY EmptyRange
  <2>2. \A r \in Runs : saved[r] = "none"
    OBVIOUS
  <2> QED BY <2>1, <2>2 DEF Handled, Held, Accepted, Runs
<1>5. Traced /\ NotStranded
  BY <1>4 DEF Traced, NotStranded
<1>6. CapsAccounted
  <2>1. SavedLive = {} /\ \A w : SavedLiveOf(w) = {} /\ StaleOf(w) = {}
    BY DEF SavedLive, SavedLiveOf, StaleOf
  <2>2. IsFiniteSet({}) /\ Cardinality({}) = 0
    BY FS_EmptySet
  <2>3. \A w \in Workflows : Cap[w] \in Nat
    BY ConfigAssumption
  <2>4. ~room
    BY Zenon
  <2>5. ASSUME NEW w \in Workflows
        PROVE  /\ Cardinality(StaleOf(w)) <= fails
               /\ Cardinality(SavedLiveOf(w)) <= Cap[w] + fails
    <3>1. /\ Cardinality(StaleOf(w)) = 0 /\ Cardinality(SavedLiveOf(w)) = 0
          /\ fails = 0 /\ Cap[w] \in Nat
      BY <2>1, <2>2, <2>3
    <3> QED BY <3>1
  <2> QED BY <2>1, <2>2, <2>4, <2>5 DEF CapsAccounted
<1> QED BY <1>1, <1>2, <1>3, <1>5, <1>6 DEF IInv

\* A stuttering step keeps it, and is none of Delivery's.
LEMMA StutterInv == IInv /\ UNCHANGED vars => IInv' /\ PromiseStep
<1> SUFFICES ASSUME IInv, UNCHANGED vars PROVE IInv' /\ PromiseStep
  OBVIOUS
<1> USE DEF IInv, vars
<1>1. TypeOK' /\ IsFiniteSet(inbox)'
  BY DEF TypeOK
<1>2. AnotherLife' /\ SnapshotLocal' /\ RunsRecorded'
  BY DEF AnotherLife, Draining, SnapshotLocal, RunsRecorded
<1>3. Handled' = Handled /\ Held' = Held /\ Accepted' = Accepted
  BY DEF Handled, Held, Accepted
<1>4. Traced' /\ PromiseStep
  BY <1>3, Stutters
<1>5. NotStranded'
  BY DEF NotStranded, Up
<1>6. RoomIsHeads'
  BY DEF RoomIsHeads, Admitted, Draining
<1>7. CapsAccounted'
  <2>1. \A w : SavedLiveOf(w)' = SavedLiveOf(w) /\ StaleOf(w)' = StaleOf(w)
    BY DEF SavedLive, SavedLiveOf, StaleOf, LiveOf, Live
  <2>2. SavedLive' = SavedLive /\ RoomFor(Wf[Head(batch)])' = RoomFor(Wf[Head(batch)])
    BY <2>1 DEF SavedLive, RoomFor
  <2> QED BY <2>1, <2>2 DEF CapsAccounted
<1> QED BY <1>1, <1>2, <1>4, <1>5, <1>6, <1>7

\* Every action keeps it, and is a step of Delivery or none.
LEMMA NextInv == IInv /\ Next => IInv' /\ PromiseStep
BY StepType, StepControl, StepRecorded, StepDelivers, StepCaps DEF IInv

\* The inductive invariant holds in every state.
THEOREM Invariance == Spec => []IInv
<1>1. IInv /\ [Next]_vars => IInv'
  BY NextInv, StutterInv
<1> QED BY InitInv, <1>1, PTL DEF Spec

\* Type correctness of the inbox, the tick (run_loop) and the runs.
THEOREM InboxTypeCorrect == Spec => []TypeOK
<1>1. IInv => TypeOK
  BY DEF IInv
<1> QED BY Invariance, <1>1, PTL

\* No path of process_inbox, on_start_event or dispatch_turns drops an event
\* from memory while its record stays: for any number of events, caps,
\* failed writes and lives.
THEOREM NothingStranded == Spec => []NotStranded
<1>1. IInv => NotStranded
  BY DEF IInv
<1> QED BY Invariance, <1>1, PTL

\* on_start_event: a workflow has at most max_runs live runs, and one more for
\* each write that failed, whatever its overflow policy.
THEOREM CapsRespected == Spec => []CapsHold
<1>1. IInv => CapsHold
  <2> SUFFICES ASSUME IInv, NEW w \in Workflows
               PROVE  Cardinality(LiveOf(w)) <= Cap[w] + fails
    BY DEF CapsHold
  <2>1. /\ Cardinality(LiveOf(w)) \in Nat /\ Cardinality(SavedLiveOf(w)) \in Nat
        /\ Cardinality(LiveOf(w)) <= Cardinality(SavedLiveOf(w))
    BY Counted DEF IInv, CapsAccounted
  <2>2. /\ Cardinality(SavedLiveOf(w)) <= Cap[w] + fails
        /\ Cap[w] \in Nat /\ fails \in Nat
    BY ConfigAssumption DEF IInv, CapsAccounted, TypeOK
  <2> QED BY <2>1, <2>2
<1> QED BY Invariance, <1>1, PTL

\* drain_step: a drain nothing forced leaves only when every shutdown firing
\* of its life
\* was taken up and every shutdown run has ended.
THEOREM DrainWaits == Spec => ExitWaits
<1>1. IInv /\ [Next]_vars =>
        [(drain = "draining" /\ drain' = "exited") =>
            /\ \A e \in Deinit \cap inbox : \E c \in Readers : <<e, c, life>> \in taken
            /\ \A r \in Runs : r[1] \in Deinit => runs[r] # "live"]_vars
  <2> SUFFICES ASSUME IInv, Next, drain = "draining", drain' = "exited"
               PROVE  /\ \A e \in Deinit \cap inbox :
                           \E c \in Readers : <<e, c, life>> \in taken
                      /\ \A r \in Runs : r[1] \in Deinit => runs[r] # "live"
    BY DEF vars
  <2>1. Exit
    BY DEF Next, Process, Tick, Accept, FinishRootTurn, KeepForNextLife, DiscardStart,
           OverflowQueue, ReplaceOldest, RefuseInputs, StartRun, RunCreateFails, WakeWait,
           FireA2aStart, QueueTurn, RunEnds, DispatchTurn, InboxDone, BeginInbox, EndInbox,
           EndRuns, Save, Continue, BeginDrain, ForceDrain, Crash, Restart, process
  <2>2. phase = "life" /\ ShutdownRunsLive = {}
    BY <2>1 DEF Exit, DrainDone
  <2>3. batch = <<>> /\ turnq \in Seq(Messages) /\ active \subseteq Messages /\ Up
    BY <2>2 DEF IInv, SnapshotLocal, TypeOK, Up
  <2>4. Range(batch) = {} /\ Range(turnq) \subseteq Messages
    BY <2>3, EmptyRange, RangeType
  <2>5. ASSUME NEW e \in Deinit \cap inbox
        PROVE  \E c \in Readers : <<e, c, life>> \in taken
    <3>1. e \notin Messages /\ e \notin Range(queue)
      BY <2>2, EventsAssumption DEF ShutdownRunsLive
    <3> QED BY <2>3, <2>4, <3>1 DEF IInv, NotStranded
  <2>6. \A r \in Runs : r[1] \in Deinit => runs[r] # "live"
    BY <2>2 DEF ShutdownRunsLive, Live
  <2> QED BY <2>5, <2>6
<1> QED BY Invariance, <1>1, PTL DEF Spec, ExitWaits

\* The inbox implements module Delivery: whatever fails and however often the
\* process dies, a record goes only for an event that was dealt with.
THEOREM InboxDelivers == Spec => ImplementsDelivery
<1>1. Init => Promise!DInit
  <2> SUFFICES ASSUME Init PROVE Promise!DInit
    OBVIOUS
  <2>1. Handled = {}
    BY DEF Init, Handled, Runs
  <2> QED BY <2>1 DEF Init, Promise!DInit
<1>2. IInv /\ [Next]_vars => [Promise!DNext]_(Promise!dvars)
  BY NextInv, StutterInv DEF PromiseStep
<1> QED BY Invariance, <1>1, <1>2, PTL DEF Spec, ImplementsDelivery, Promise!DSpec
=============================================================================
