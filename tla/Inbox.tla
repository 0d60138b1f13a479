------------------------------- MODULE Inbox --------------------------------
(***************************************************************************)
(* The durable inbox and the reactor's passes over it (runtime/reactor.rs: *)
(* accept_event_through, process_inbox, route_a2a_message, inbox_done;     *)
(* runtime/steps.rs: on_start_event; runtime/turns.rs: dispatch_turns,     *)
(* start_root_turn, finish_root_turn; runtime/drain.rs: drain_step).       *)
(*                                                                         *)
(* An event is a start firing or an A2A message.  A firing becomes a run,  *)
(* within the concurrency caps; a message is routed to a waiting step, to  *)
(* a start node it commands, or to a conversation turn.  `phase' is the    *)
(* place in the tick; the process may die between any two durable writes   *)
(* and the next life re-delivers every record still stored.                *)
(*                                                                         *)
(* Abstracted: what an event says; which of pressure, an operator's pause, *)
(* preflight, knowledge retrieval or the budget keeps a turn queued (a     *)
(* pass may leave any turn where it is); signals; a degraded store (module *)
(* Durable): here a write is stored or fails; `concurrency.scope: key',    *)
(* under which max_runs counts the runs of one key.                        *)
(***************************************************************************)
EXTENDS Naturals, Sequences, FiniteSets, Functions

CONSTANTS
  Starts,     \* ids of start firings ...
  Messages,   \* ... and of A2A messages
  Firings,    \* the Starts an `a2a' start node fires for a message
  Deinit,     \* the Starts of `lifecycle.shutdown' workflows, fired by a drain
  Unknown,    \* the Starts whose workflow does not exist
  Malformed,  \* the Starts whose inputs the workflow's schema refuses
  Pinned,     \* the Starts whose payload names the run id (A2A, webhooks)
  Commands,   \* the Messages an `a2a' start node matches
  Workflows,  \* workflow names
  Wf,         \* the workflow of a firing
  Cap,        \* concurrency.max_runs of a workflow
  OnOverflow, \* concurrency.on_overflow of a workflow
  Limit,      \* limits.max_runs
  Conv,       \* the conversation of a message
  MaxTurns,   \* agent.max_parallel_turns
  None,       \* no event
  MaxFails,   \* bound: writes the store fails
  MaxLives    \* bound: lives of the process

Events == Starts \cup Messages
Readers == {"run", "wait", "start", "turn", "discard", "refused"}
Lives == 1..MaxLives
Runs == Starts \X Lives

ASSUME EventsAssumption ==
  /\ Starts \cap Messages = {}
  /\ Firings \cap Deinit = {}
  /\ Firings \cup Deinit \cup Unknown \cup Malformed \cup Pinned \subseteq Starts
  /\ Commands \subseteq Messages
  /\ None \notin Starts \cup Messages

ASSUME ConfigAssumption ==
  /\ Wf \in [Starts -> Workflows]
  /\ Cap \in [Workflows -> Nat \ {0}]
  /\ OnOverflow \in [Workflows -> {"queue", "drop", "replace"}]
  /\ Limit \in Nat \ {0}
  /\ MaxTurns \in Nat \ {0}
  /\ MaxFails \in Nat
  /\ MaxLives \in Nat \ {0}

VARIABLES
  phase,     \* place in the reactor's tick, "down" between two lives
  life,      \* which life of the process this is
  drain,     \* "no", "draining", "forced"; "exited" after a clean exit
  exiting,   \* Runtime.exit is set: a checkpoint failed
  log,       \* every accepted event, in order of acceptance (InboxEvent.ts)
  inbox,     \* the inbox records in the store
  queue,     \* Runtime.inbox_queue
  batch,     \* process_inbox's snapshot, what is left of it
  room,      \* the event at the head of batch has had a run replaced for it
  owing,     \* the event handled whose inbox_done is next, or None
  runs,      \* runs in memory ...
  saved,     \* ... and in the store
  born,      \* when a run was created (RunState.created) ...
  created,   \* ... by a clock that counts the runs created
  turnq,     \* Runtime.turn_queue
  active,    \* messages whose turn worker runs
  answered,  \* messages whose turn is folded into its conversation, in memory
  kept,      \* ... and in the store
  wait,      \* the step suspended on a message: in memory ...
  waitSaved, \* ... and in the store
  fails,     \* writes failed so far
  taken      \* history: <<event, reader, life>> of each handling

process == <<life, drain, exiting>>
memory == <<queue, batch, room, owing, turnq, active>>
work == <<runs, saved, born, created, answered, kept, wait, waitSaved>>
vars == <<phase, life, drain, exiting, log, inbox, queue, batch, room, owing, runs,
          saved, born, created, turnq, active, answered, kept, wait, waitSaved, fails,
          taken>>

Accepted == Range(log)
Up == phase # "down"
Draining == drain \in {"draining", "forced"}

TypeOK ==
  /\ phase \in {"down", "events", "inbox", "runs", "turns", "life"}
  /\ life \in Lives
  /\ drain \in {"no", "draining", "forced", "exited"}
  /\ exiting \in BOOLEAN
  /\ log \in Seq(Events)
  /\ inbox \subseteq Events
  /\ queue \in Seq(Events)
  /\ batch \in Seq(Events)
  /\ room \in BOOLEAN
  /\ owing \in Events \cup {None}
  /\ runs \in [Runs -> {"none", "live", "done"}]
  /\ saved \in [Runs -> {"none", "live", "done"}]
  /\ born \in [Runs -> Nat] /\ created \in Nat
  /\ turnq \in Seq(Messages)
  /\ active \subseteq Messages
  /\ answered \subseteq Messages
  /\ kept \subseteq Messages
  /\ wait \in {"idle", "suspended", "woken"}
  /\ waitSaved \in {"idle", "suspended", "woken"}
  /\ fails \in 0..MaxFails
  /\ taken \subseteq Events \X Readers \X Lives

Init ==
  /\ phase = "events" /\ life = 1 /\ drain = "no" /\ exiting = FALSE
  /\ log = <<>> /\ inbox = {} /\ queue = <<>>
  /\ batch = <<>> /\ room = FALSE /\ owing = None
  /\ runs = [r \in Runs |-> "none"] /\ saved = runs
  /\ born = [r \in Runs |-> 0] /\ created = 0
  /\ turnq = <<>> /\ active = {} /\ answered = {} /\ kept = {}
  /\ wait \in {"idle", "suspended"} /\ waitSaved = wait
  /\ fails = 0 /\ taken = {}

\* A write fails: the store answers with an error.  The last life is free of
\* faults: what it does not do is never done.
StoreFails == fails < MaxFails /\ life < MaxLives /\ fails' = fails + 1

\* checkpoint: dirty runs and conversations reach the store; under the halt
\* policy a failure makes the process exit.
Checkpoint ==
  \/ /\ saved' = runs' /\ kept' = answered /\ waitSaved' = wait'
     /\ UNCHANGED <<exiting, fails>>
  \/ /\ StoreFails
     /\ exiting' = TRUE
     /\ UNCHANGED <<saved, kept, waitSaved>>

---------------------------------------------------------------------------
\* Intake: the record is written before the event is queued or acknowledged.

AcceptEvent(e) ==
  /\ log' = Append(log, e)
  /\ inbox' = inbox \cup {e}
  /\ queue' = Append(queue, e)

\* A trigger or a caller offers an event; a failed write is a refusal, and the
\* caller may offer it again.
Accept(e) ==
  /\ phase = "events" /\ owing = None
  /\ e \in Events \ (Accepted \cup Firings \cup Deinit)
  /\ AcceptEvent(e)
  /\ UNCHANGED <<phase, process, room, batch, owing, turnq, active, fails, taken>>
  /\ UNCHANGED work

\* The answer of a turn is folded into its conversation, in memory.
FinishRootTurn(e) ==
  /\ phase = "events" /\ owing = None
  /\ e \in active
  /\ active' = active \ {e}
  /\ answered' = answered \cup {e}
  /\ owing' = e
  /\ taken' = taken \cup {<<e, "turn", life>>}
  /\ UNCHANGED <<phase, process, room, log, inbox, queue, batch, turnq, fails>>
  /\ UNCHANGED <<runs, saved, born, created, kept, wait, waitSaved>>

\* inbox_done: a delete that fails is only logged.
InboxDone ==
  /\ Up /\ owing # None
  /\ owing' = None
  /\ \/ inbox' = inbox \ {owing} /\ UNCHANGED fails
     \/ StoreFails /\ UNCHANGED inbox
  /\ UNCHANGED <<phase, process, room, log, queue, batch, turnq, active, taken>>
  /\ UNCHANGED work

\* process_inbox drains a snapshot: what is queued from here on waits for the
\* next tick.
BeginInbox ==
  /\ phase = "events" /\ owing = None
  /\ phase' = "inbox"
  /\ batch' = queue
  /\ queue' = <<>>
  /\ UNCHANGED <<process, room, log, inbox, owing, turnq, active, fails, taken>>
  /\ UNCHANGED work

---------------------------------------------------------------------------
\* One event of the snapshot.

Offered(e) == phase = "inbox" /\ owing = None /\ batch # <<>> /\ e = Head(batch)
Admitted(e) == Draining => e \in Deinit

Requeue(e) == queue' = Append(queue, e)

\* A drain keeps what it does not process for the next life.
KeepForNextLife(e) ==
  /\ Offered(e) /\ ~Admitted(e)
  /\ batch' = Tail(batch)
  /\ Requeue(e)
  /\ UNCHANGED <<phase, process, room, log, inbox, owing, turnq, active, fails, taken>>
  /\ UNCHANGED work

Live == {r \in Runs : runs[r] = "live"}
LiveOf(w) == {r \in Live : Wf[r[1]] = w}
AtCap_OffByOne(e) == \/ Cardinality(LiveOf(Wf[e])) > Cap[Wf[e]]
                     \/ Cardinality(Live) > Limit
AtCap(e) == \/ Cardinality(LiveOf(Wf[e])) >= Cap[Wf[e]]
            \/ Cardinality(Live) >= Limit

\* The run a firing starts: the id its payload names, or a fresh one.
RunOf(e) == IF e \in Pinned THEN <<e, 1>> ELSE <<e, life>>

OffersStart(e) == Offered(e) /\ Admitted(e) /\ e \in Starts

\* Consumed with nothing started: an unknown workflow, or at a cap
\* `on_overflow: drop'.
DiscardStart(e) ==
  /\ OffersStart(e)
  /\ e \in Unknown \/ (AtCap(e) /\ OnOverflow[Wf[e]] = "drop")
  /\ batch' = Tail(batch)
  /\ owing' = e
  /\ taken' = taken \cup {<<e, "discard", life>>}
  /\ UNCHANGED <<phase, process, room, log, inbox, queue, turnq, active, fails>>
  /\ UNCHANGED work

\* At a cap, `on_overflow: queue': the event waits for a later tick.
OverflowQueue(e) ==
  /\ OffersStart(e) /\ e \notin Unknown
  /\ AtCap(e) /\ OnOverflow[Wf[e]] = "queue"
  /\ batch' = Tail(batch)
  /\ Requeue(e)
  /\ UNCHANGED <<phase, process, room, log, inbox, owing, turnq, active, fails, taken>>
  /\ UNCHANGED work

\* `on_overflow: replace' cancels the workflow's oldest live run, and
\* on_run_terminal checkpoints.
Oldest(w) == {r \in LiveOf(w) : \A q \in LiveOf(w) : born[r] <= born[q]}

ReplaceOldest(e) ==
  /\ OffersStart(e) /\ e \notin Unknown /\ ~room
  /\ AtCap(e) /\ OnOverflow[Wf[e]] = "replace"
  /\ \E r \in Oldest(Wf[e]) : runs' = [runs EXCEPT ![r] = "done"]
  /\ room' = TRUE
  /\ UNCHANGED <<born, created, answered, wait>>
  /\ Checkpoint
  /\ UNCHANGED <<phase, life, drain, log, inbox, queue, batch, owing, turnq, active>>
  /\ UNCHANGED taken

\* The firing may have its run: there is room, room was made, or `replace'
\* found no run of its workflow to cancel.
Fits(e) ==
  /\ OffersStart(e) /\ e \notin Unknown
  /\ \/ ~AtCap(e) \/ room
     \/ OnOverflow[Wf[e]] = "replace" /\ LiveOf(Wf[e]) = {}

\* The inputs are looked at after the cap made room for the run.
RefuseInputs(e) ==
  /\ Fits(e) /\ e \in Malformed
  /\ batch' = Tail(batch)
  /\ room' = FALSE
  /\ owing' = e
  /\ taken' = taken \cup {<<e, "discard", life>>}
  /\ UNCHANGED <<phase, process, log, inbox, queue, turnq, active, fails>>
  /\ UNCHANGED work

StartRun_Unsaved(e) ==
  /\ Fits(e) /\ e \notin Malformed
  /\ runs' = [runs EXCEPT ![RunOf(e)] = "live"]
  /\ created' = created + 1
  /\ born' = [born EXCEPT ![RunOf(e)] = created']
  /\ batch' = Tail(batch)
  /\ room' = FALSE
  /\ owing' = e
  /\ taken' = taken \cup {<<e, "run", life>>}
  /\ UNCHANGED <<phase, process, log, inbox, queue, turnq, active, fails>>
  /\ UNCHANGED <<saved, answered, kept, wait, waitSaved>>

\* A firing becomes a run: the run record is written, then the run is known.
StartRun(e) ==
  /\ Fits(e) /\ e \notin Malformed
  /\ runs' = [runs EXCEPT ![RunOf(e)] = "live"]
  /\ saved' = [saved EXCEPT ![RunOf(e)] = "live"]
  /\ created' = created + 1
  /\ born' = [born EXCEPT ![RunOf(e)] = created']
  /\ batch' = Tail(batch)
  /\ room' = FALSE
  /\ owing' = e
  /\ taken' = taken \cup {<<e, "run", life>>}
  /\ UNCHANGED <<phase, process, log, inbox, queue, turnq, active, fails>>
  /\ UNCHANGED <<answered, kept, wait, waitSaved>>

RunCreateFails_Dropped(e) ==
  /\ Fits(e) /\ e \notin Malformed
  /\ StoreFails
  /\ batch' = Tail(batch)
  /\ room' = FALSE
  /\ UNCHANGED queue
  /\ UNCHANGED <<phase, process, log, inbox, owing, turnq, active, taken>>
  /\ UNCHANGED work

\* run.create.fail: the event is retried on a later tick.
RunCreateFails(e) ==
  /\ Fits(e) /\ e \notin Malformed
  /\ StoreFails
  /\ batch' = Tail(batch)
  /\ room' = FALSE
  /\ Requeue(e)
  /\ UNCHANGED <<phase, process, log, inbox, owing, turnq, active, taken>>
  /\ UNCHANGED work

OffersMessage(e) == Offered(e) /\ Admitted(e) /\ e \in Messages

\* Reader 1: a step suspended on the conversation takes the message, and
\* finish_step checkpoints.
WakeWait(e) ==
  /\ OffersMessage(e) /\ wait = "suspended"
  /\ wait' = "woken" /\ UNCHANGED runs
  /\ Checkpoint
  /\ batch' = Tail(batch)
  /\ taken' = taken \cup {<<e, "wait", life>>}
  /\ UNCHANGED <<phase, life, drain, log, inbox, queue, owing, turnq, active>>
  /\ UNCHANGED <<room, born, created, answered>>

\* Reader 2: a start node the message commands fires, as an inbox event of
\* its own, unless admission refuses it (pressure, a frozen config, inputs,
\* the write); either way the message went to the start node.
FireA2aStart(e) ==
  /\ OffersMessage(e) /\ wait # "suspended" /\ e \in Commands
  /\ \/ /\ \E f \in Firings \ Accepted : AcceptEvent(f)
        /\ taken' = taken \cup {<<e, "start", life>>}
     \/ /\ taken' = taken \cup {<<e, "refused", life>>}
        /\ UNCHANGED <<log, inbox, queue>>
  /\ batch' = Tail(batch)
  /\ UNCHANGED <<phase, process, room, owing, turnq, active, fails>>
  /\ UNCHANGED work

\* Reader 3: otherwise it is a turn of its conversation.
QueueTurn(e) ==
  /\ OffersMessage(e) /\ wait # "suspended" /\ e \notin Commands
  /\ turnq' = Append(turnq, e)
  /\ batch' = Tail(batch)
  /\ UNCHANGED <<phase, process, room, log, inbox, queue, owing, active, fails, taken>>
  /\ UNCHANGED work

EndInbox ==
  /\ phase = "inbox" /\ owing = None /\ batch = <<>>
  /\ phase' = "runs"
  /\ UNCHANGED <<process, log, inbox, memory, fails, taken>>
  /\ UNCHANGED work

---------------------------------------------------------------------------
\* The rest of the tick.

\* A run reaches its end; on_run_terminal checkpoints.
RunEnds(r) ==
  /\ phase = "runs" /\ runs[r] = "live"
  /\ runs' = [runs EXCEPT ![r] = "done"]
  /\ UNCHANGED <<born, created, answered, wait>>
  /\ Checkpoint
  /\ UNCHANGED <<phase, life, drain, log, inbox, memory, taken>>

EndRuns ==
  /\ phase = "runs"
  /\ phase' = "turns"
  /\ UNCHANGED <<process, log, inbox, memory, fails, taken>>
  /\ UNCHANGED work

\* dispatch_turns takes a queued turn whose conversation is idle; the turn's
\* worker is spawned, or the turn is refused (budget, spawn, owner) and its
\* record closed.
DispatchTurn(i) ==
  /\ phase = "turns" /\ owing = None /\ ~Draining
  /\ i \in DOMAIN turnq
  /\ Cardinality(active) < MaxTurns
  /\ \A a \in active : Conv[a] # Conv[turnq[i]]
  /\ turnq' = SubSeq(turnq, 1, i - 1) \o SubSeq(turnq, i + 1, Len(turnq))
  /\ \/ /\ active' = active \cup {turnq[i]}
        /\ UNCHANGED <<owing, taken>>
     \/ /\ owing' = turnq[i]
        /\ taken' = taken \cup {<<turnq[i], "turn", life>>}
        /\ UNCHANGED active
  /\ UNCHANGED <<phase, process, room, log, inbox, queue, batch, fails>>
  /\ UNCHANGED work

\* The tick's own checkpoint.
Save ==
  /\ phase = "turns" /\ owing = None
  /\ phase' = "life"
  /\ UNCHANGED <<runs, born, created, answered, wait>>
  /\ Checkpoint
  /\ UNCHANGED <<life, drain, log, inbox, memory, taken>>

\* A signal, or a checkpoint that failed: begin_drain fires the
\* `lifecycle.shutdown' starts (admission may refuse them) and stops intake.
BeginDrain ==
  /\ phase = "life" /\ drain = "no" /\ life < MaxLives
  /\ drain' = "draining"
  /\ \/ \E d \in Deinit \ Accepted : AcceptEvent(d)
     \/ UNCHANGED <<log, inbox, queue>>
  /\ UNCHANGED <<room, phase, life, exiting, batch, owing, turnq, active, fails, taken>>
  /\ UNCHANGED work

\* The drain's timeout, or a second signal.
ForceDrain ==
  /\ phase = "life" /\ drain = "draining"
  /\ drain' = "forced"
  /\ UNCHANGED <<phase, life, exiting, log, inbox, memory, fails, taken>>
  /\ UNCHANGED work

ShutdownRunsLive_NoQueue == {r \in Live : r[1] \in Deinit}

\* shutdown_runs_live: live runs of a shutdown workflow, and their firings
\* still queued.
ShutdownRunsLive ==
  {r \in Live : r[1] \in Deinit} \cup (Range(queue) \cap Deinit)

\* The process is gone: its memory with it.
Lost ==
  /\ phase' = "down" /\ exiting' = FALSE
  /\ queue' = <<>> /\ batch' = <<>> /\ room' = FALSE /\ owing' = None
  /\ turnq' = <<>> /\ active' = {}
  /\ runs' = saved' /\ answered' = kept' /\ wait' = waitSaved'

\* drain_step is done when the workers are gone (a forced or an exiting drain
\* stops them, their turns' records stay) and, unless forced, the shutdown runs
\* have ended.
DrainDone ==
  \/ drain = "forced"
  \/ drain = "draining" /\ (exiting \/ active = {}) /\ ShutdownRunsLive = {}

\* A shutdown run a force cut short is cancelled; then the last checkpoint.
Exit ==
  /\ phase = "life" /\ DrainDone
  /\ drain' = "exited"
  /\ \/ /\ saved' = [r \in Runs |-> IF r \in Live /\ r[1] \in Deinit THEN "done"
                                  ELSE runs[r]]
        /\ kept' = answered /\ waitSaved' = wait
        /\ UNCHANGED fails
     \/ /\ StoreFails
        /\ UNCHANGED <<saved, kept, waitSaved>>
  /\ Lost
  /\ UNCHANGED <<life, log, inbox, born, created, taken>>

Continue ==
  /\ phase = "life" /\ ~DrainDone /\ (exiting => Draining)
  /\ phase' = "events"
  /\ UNCHANGED <<process, log, inbox, memory, fails, taken>>
  /\ UNCHANGED work

Crash ==
  /\ Up /\ life < MaxLives
  /\ drain' = "no"
  /\ UNCHANGED <<life, log, inbox, saved, born, created, kept, waitSaved, fails, taken>>
  /\ Lost

Restart_NoReplay ==
  /\ phase = "down"
  /\ phase' = "events"
  /\ life' = life + 1
  /\ drain' = "no"
  /\ queue' = <<>>
  /\ UNCHANGED <<room, exiting, log, inbox, batch, owing, turnq, active, fails, taken>>
  /\ UNCHANGED work

\* inbox_pending: the stored records, in order of acceptance.
Precedes(e, f) == \E i, j \in DOMAIN log : i < j /\ log[i] = e /\ log[j] = f
Replays == {q \in [1..Cardinality(inbox) -> inbox] :
              /\ Range(q) = inbox
              /\ \A i, j \in DOMAIN q : i < j => Precedes(q[i], q[j])}

\* Restore: runs and conversations as stored, and every pending record queued.
Restart ==
  /\ phase = "down"
  /\ phase' = "events"
  /\ life' = life + 1
  /\ drain' = "no"
  /\ queue' \in Replays
  /\ UNCHANGED <<room, exiting, log, inbox, batch, owing, turnq, active, fails, taken>>
  /\ UNCHANGED work

Process(e) ==
  \/ KeepForNextLife(e) \/ DiscardStart(e) \/ OverflowQueue(e) \/ ReplaceOldest(e)
  \/ RefuseInputs(e) \/ StartRun(e) \/ RunCreateFails(e)
  \/ WakeWait(e) \/ FireA2aStart(e) \/ QueueTurn(e)

Tick == BeginInbox \/ EndInbox \/ EndRuns \/ Save \/ Continue

Next ==
  \/ \E e \in Events : Accept(e) \/ FinishRootTurn(e) \/ Process(e)
  \/ \E r \in Runs : RunEnds(r)
  \/ \E i \in 1..Len(turnq) : DispatchTurn(i)
  \/ InboxDone
  \/ Tick
  \/ BeginDrain \/ ForceDrain \/ Exit \/ Crash \/ Restart

Spec == Init /\ [][Next]_vars

\* The reactor does not stop inside a tick; a stopped process is started
\* again; a turn and a run of work that is not held back by a drain end; a
\* queued turn whose conversation stays free is dispatched in the end; a
\* drain's timeout passes.
FairSpec ==
  /\ Spec
  /\ WF_vars(Tick) /\ WF_vars(\E e \in Events : Process(e))
  /\ WF_vars(InboxDone) /\ WF_vars(Exit) /\ WF_vars(Restart)
  /\ \A e \in Messages : SF_vars(FinishRootTurn(e))
  /\ \A r \in Runs : SF_vars(Admitted(r[1]) /\ RunEnds(r))
  /\ \A e \in Messages :
       SF_vars(\E i \in 1..Len(turnq) : turnq[i] = e /\ DispatchTurn(i))
  /\ SF_vars(ForceDrain)
  /\ SF_vars(exiting /\ BeginDrain)

---------------------------------------------------------------------------
\* Handled: a reader took it, or a run of it is on record.
Handled == {e \in Events : \/ \E c \in Readers \ {"run"}, l \in Lives : <<e, c, l>> \in taken
                           \/ \E l \in Lives : e \in Starts /\ saved[<<e, l>>] # "none"}

\* While the process is up, a stored record is waiting somewhere the reactor
\* will look, or this life has already dealt with it: no path of
\* process_inbox, on_start_event or dispatch_turns drops an event from memory
\* and leaves its record to the next restart.
NotStranded ==
  Up => \A e \in inbox :
          \/ e \in Range(queue) \cup Range(batch) \cup Range(turnq) \cup active
          \/ \E c \in Readers : <<e, c, life>> \in taken

\* A drain nothing forced leaves only when the `lifecycle.shutdown' firings of
\* this life were taken up and their runs have ended: the gate of
\* shutdown_runs_live does not slip through the tick in which a firing is in
\* the queue and its run does not exist yet.
ExitWaits ==
  [][(drain = "draining" /\ drain' = "exited") =>
        /\ \A e \in Deinit \cap inbox : \E c \in Readers : <<e, c, life>> \in taken
        /\ \A r \in Runs : r[1] \in Deinit => runs[r] # "live"]_vars

\* A workflow stays within concurrency.max_runs, however its firings came:
\* first, requeued, replayed after a crash, or in place of a replaced run.
\* A checkpoint that fails after a run ended leaves it live in the store, and
\* the next life restores it beside its successor: at most one run too many
\* for each write that failed.
CapsHold == \A w \in Workflows : Cardinality(LiveOf(w)) <= Cap[w] + fails

\* The inbox implements module Delivery: through requeues, failed writes,
\* crashes and restarts a record is deleted only for an event that was
\* handled, and a firing counts as handled only when its run is on record.
Promise == INSTANCE Delivery WITH pending <- inbox, handled <- Handled
ImplementsDelivery == Promise!DSpec

\* Every accepted event is handled in the end.
EveryEventHandled == \A e \in Events : (e \in Accepted) ~> (e \in Handled)

\* The comment of route_a2a_message: "An inbound message has three possible
\* readers ... Only one takes it".
OneReader ==
  \A e \in Messages, a, b \in Readers, l, n \in Lives :
     <<e, a, l>> \in taken /\ <<e, b, n>> \in taken => a = b
=============================================================================
