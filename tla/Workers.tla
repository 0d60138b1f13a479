------------------------------ MODULE Workers -------------------------------
(***************************************************************************)
(* Turn workers and how the reactor ends them (runtime/children.rs,        *)
(* runtime/reactor.rs: on_child_frame, on_reaped, on_unhealthy_child;      *)
(* runtime/turns.rs: on_turn_done, on_turn_failed; runtime/drain.rs:       *)
(* drain_step, park_child), composed with the budget governor.             *)
(*                                                                         *)
(* A worker is a process: it writes one terminal frame into its pipe, or   *)
(* none, and dies.  A reader thread moves the frame to the event queue; the *)
(* reactor reaps deaths as it sees them and takes events from the head of  *)
(* the queue.  A drain stops workers and leaves what they owed to the next *)
(* life.                                                                   *)
(*                                                                         *)
(* Abstracted: what a turn says; the calls a worker makes on the way; the  *)
(* kill ladder's clock (a stopped worker dies in the end); the subagent    *)
(* kind of child.                                                          *)
(***************************************************************************)
EXTENDS Governor, Sequences

CONSTANTS
  Kinds,    \* the kinds the units may have: "root", "step" or "think", each
  Used,     \* the usages a terminal frame may report
  MaxLives  \* bound: lives of the process

ASSUME WorkersAssumption ==
  /\ Kinds \subseteq [Units -> {"root", "step", "think"}]
  /\ Used \subseteq Nat
  /\ MaxLives \in Nat \ {0}

VARIABLES
  kind,      \* the kind of each unit
  mode,      \* "up", "draining", "forced", "abandoning", "down"
  life,
  proc,      \* a unit's process: "none", "runs", "dead", "gone" (reaped)
  pipe,      \* what its pipe holds: a sequence of at most one frame
  queue,     \* the reactor's events: <<unit, what, usage>>
  table,     \* units in the child table, and of these:
  settled,   \* Child.settled
  cancelled, \* Child.cancelled
  parked,    \* Child.parked
  deferred,  \* Runtime.reap_deferred
  owned,     \* step units whose step is running and names this worker
  outcome,   \* what became of the unit
  wrote,     \* history: the frame the worker wrote
  folds      \* history: how often its end was folded in

flags == <<settled, cancelled, parked>>
os == <<proc, pipe>>
ends == <<owned, outcome, folds>>
wvars == <<mode, life, proc, pipe, queue, table, settled, cancelled, parked,
           deferred, owned, outcome, wrote, folds>>
vars == <<gvars, wvars, kind>>

Frames == {"done", "cancelled", "failed"}
Outcomes == {"none", "done", "failed", "parked", "refused", "cancelled"}

TypeOK ==
  /\ GTypeOK
  /\ kind \in Kinds
  /\ mode \in {"up", "draining", "forced", "abandoning", "down"}
  /\ life \in 1..MaxLives
  /\ proc \in [Units -> {"none", "runs", "dead", "gone"}]
  /\ DOMAIN pipe = Units
  /\ \A u \in Units : pipe[u] = <<>> \/ \E f \in Frames, n \in Used : pipe[u] = <<<<u, f, n>>>>
  /\ queue \in Seq(Units \X (Frames \cup {"reaped"}) \X Nat)
  /\ \A S \in {table, settled, cancelled, parked, deferred, owned} : S \subseteq Units
  /\ outcome \in [Units -> Outcomes]
  /\ wrote \in [Units -> Frames \cup {"none"}]
  /\ folds \in [Units -> Nat]

WInit ==
  /\ kind \in Kinds
  /\ mode = "up" /\ life = 1
  /\ proc = [u \in Units |-> "none"] /\ pipe = [u \in Units |-> <<>>] /\ queue = <<>>
  /\ table = {} /\ settled = {} /\ cancelled = {} /\ parked = {}
  /\ deferred = {} /\ owned = {}
  /\ outcome = [u \in Units |-> "none"] /\ wrote = [u \in Units |-> "none"]
  /\ folds = [u \in Units |-> 0]

Init == GInit /\ WInit

---------------------------------------------------------------------------
\* Starting a unit.

Idle(u) == mode = "up" /\ proc[u] = "none" /\ outcome[u] = "none"
Reserves(u) == kind[u] # "think"

\* Admitted and spawned; a think runs without a reservation of its own.
Launch(u) ==
  /\ Idle(u)
  /\ IF Reserves(u) THEN Verdict(u) = "ok" /\ Reserve(u) ELSE UNCHANGED gvars
  /\ proc' = [proc EXCEPT ![u] = "runs"]
  /\ table' = table \cup {u}
  /\ owned' = IF kind[u] = "step" THEN owned \cup {u} ELSE owned
  /\ UNCHANGED <<mode, life, pipe, queue, flags, deferred, outcome, wrote, folds>>

\* Not run: the budget refuses it, or the spawn fails and the reservation is
\* released at once.
Refuse(u) ==
  /\ Idle(u)
  /\ IF Reserves(u) THEN Verdict(u) # "wait" /\ AskOnly ELSE UNCHANGED gvars
  /\ outcome' = [outcome EXCEPT ![u] = "refused"]
  /\ UNCHANGED <<mode, life, os, queue, table, flags, deferred, owned, wrote, folds>>

\* Put off by the budget, or a call of a running worker asks.
Ask(u) ==
  /\ \/ Idle(u) /\ Reserves(u) /\ Verdict(u) = "wait"
     \/ mode \in {"up", "draining"} /\ u \in table
  /\ AskOnly
  /\ UNCHANGED wvars

---------------------------------------------------------------------------
\* The worker and the threads that watch it.

Write(u, f, n) ==
  /\ mode # "down" /\ proc[u] = "runs" /\ wrote[u] = "none"
  /\ f = "cancelled" => u \in cancelled
  /\ f = "failed" => n = 0
  /\ pipe' = [pipe EXCEPT ![u] = <<<<u, f, n>>>>]
  /\ wrote' = [wrote EXCEPT ![u] = f]
  /\ UNCHANGED <<mode, life, proc, queue, table, flags, deferred, ends>>
  /\ UNCHANGED gvars

\* It exits, crashes, or is signalled by its ladder.
Die(u) ==
  /\ mode # "down" /\ proc[u] = "runs"
  /\ proc' = [proc EXCEPT ![u] = "dead"]
  /\ UNCHANGED <<mode, life, pipe, queue, table, flags, deferred, ends, wrote>>
  /\ UNCHANGED gvars

\* The reader thread hands the frame to the reactor.
Read(u) ==
  /\ mode # "down" /\ pipe[u] # <<>>
  /\ queue' = queue \o pipe[u]
  /\ pipe' = [pipe EXCEPT ![u] = <<>>]
  /\ UNCHANGED <<mode, life, proc, table, flags, deferred, ends, wrote>>
  /\ UNCHANGED gvars

---------------------------------------------------------------------------
\* The reactor takes an event.

Serving == mode \in {"up", "draining", "forced"}

Event(u, what) ==
  /\ Serving
  /\ queue # <<>> /\ Head(queue)[1] = u /\ Head(queue)[2] \in what

\* The unit ends: a turn is folded into its conversation, a think answers its
\* requester, a step ends unless its run is over.
Fold(u, o) ==
  /\ outcome' = IF kind[u] = "step" /\ u \notin owned THEN outcome
                ELSE [outcome EXCEPT ![u] = o]
  /\ folds' = [folds EXCEPT ![u] = @ + 1]
  /\ owned' = owned \ {u}

OnTurnDone_Unmarked(u) ==
  /\ Event(u, {"done", "cancelled"}) /\ u \in table
  /\ ~(u \in parked /\ Head(queue)[2] = "cancelled")
  /\ IF Reserves(u) THEN Settle(u, Head(queue)[3]) ELSE Charge(Head(queue)[3])
  /\ Fold(u, IF Head(queue)[2] = "done" THEN "done" ELSE "failed")
  /\ queue' = Tail(queue)
  /\ UNCHANGED <<mode, life, os, table, flags, deferred, wrote>>

\* on_turn_done: settled with what the turn used, or charged.
OnTurnDone(u) ==
  /\ Event(u, {"done", "cancelled"}) /\ u \in table
  /\ ~(u \in parked /\ Head(queue)[2] = "cancelled")
  /\ settled' = settled \cup {u}
  /\ IF Reserves(u) THEN Settle(u, Head(queue)[3]) ELSE Charge(Head(queue)[3])
  /\ Fold(u, IF Head(queue)[2] = "done" THEN "done" ELSE "failed")
  /\ queue' = Tail(queue)
  /\ UNCHANGED <<mode, life, os, table, cancelled, parked, deferred, wrote>>

\* on_turn_failed, for the frame that says so.
OnTurnFailed(u) ==
  /\ Event(u, {"failed"}) /\ u \in table
  /\ settled' = settled \cup {u}
  /\ cancelled' = cancelled \cup {u}
  /\ Release(u)
  /\ Fold(u, "failed")
  /\ queue' = Tail(queue)
  /\ UNCHANGED <<mode, life, os, table, parked, deferred, wrote>>

\* park_child: what a stopped child owed is left for the next life.  A step
\* that is no longer this worker's is left alone.
Park(u) == IF kind[u] = "step" /\ u \notin owned THEN UNCHANGED <<outcome, folds>>
           ELSE /\ outcome' = [outcome EXCEPT ![u] = "parked"]
                /\ folds' = [folds EXCEPT ![u] = @ + 1]

\* Its turn ended `cancelled', and said what it had used.
ParkCancelled(u) ==
  /\ Event(u, {"cancelled"}) /\ u \in table \cap parked
  /\ settled' = settled \cup {u}
  /\ CASE kind[u] = "think" -> Charge(Head(queue)[3])
       [] kind[u] = "step" /\ u \notin owned -> UNCHANGED gvars
       [] OTHER -> Settle(u, Head(queue)[3])
  /\ Park(u)
  /\ queue' = Tail(queue)
  /\ UNCHANGED <<mode, life, os, table, cancelled, parked, deferred, owned, wrote>>

\* It died without a word.
ParkSilent(u) ==
  /\ IF kind[u] = "step" /\ u \notin owned THEN UNCHANGED gvars ELSE Release(u)
  /\ Park(u)
  /\ UNCHANGED owned

Reap_NoJoin(u) ==
  /\ Serving /\ proc[u] = "dead" /\ u \in table
  /\ proc' = [proc EXCEPT ![u] = "gone"]
  /\ queue' = Append(queue, <<u, "reaped", 0>>)
  /\ deferred' = deferred \cup {u}
  /\ UNCHANGED <<mode, life, pipe, table, flags, ends, wrote>>
  /\ UNCHANGED gvars

\* A death is reaped before the queue is looked at, so it may overtake the
\* frame.  on_reaped, first time: the reader is joined, and the death goes to
\* the back of the queue, behind whatever the child ever wrote.
Reap(u) ==
  /\ Serving /\ proc[u] = "dead" /\ u \in table
  /\ proc' = [proc EXCEPT ![u] = "gone"]
  /\ queue' = Append(queue \o pipe[u], <<u, "reaped", 0>>)
  /\ pipe' = [pipe EXCEPT ![u] = <<>>]
  /\ deferred' = deferred \cup {u}
  /\ UNCHANGED <<mode, life, table, flags, ends, wrote>>
  /\ UNCHANGED gvars

\* The same for the death on_unhealthy_child posted.
DeferReap(u) ==
  /\ Event(u, {"reaped"}) /\ u \in table \ deferred
  /\ queue' = Append(Tail(queue) \o pipe[u], Head(queue))
  /\ pipe' = [pipe EXCEPT ![u] = <<>>]
  /\ deferred' = deferred \cup {u}
  /\ UNCHANGED <<mode, life, proc, table, flags, ends, wrote>>
  /\ UNCHANGED gvars

\* Children::on_reaped, abandon: the record leaves the table.
Forget(u) ==
  /\ table' = table \ {u}
  /\ settled' = settled \ {u} /\ cancelled' = cancelled \ {u} /\ parked' = parked \ {u}

\* A child that died owing its result.
Orphaned(u) == IF kind[u] = "step" THEN u \in owned ELSE u \notin settled

OnReaped_IgnoresParked(u) ==
  /\ Event(u, {"reaped"}) /\ u \in table \cap deferred
  /\ queue' = Tail(queue)
  /\ deferred' = deferred \ {u}
  /\ Forget(u)
  /\ IF Orphaned(u) THEN Release(u) /\ Fold(u, "failed") ELSE UNCHANGED <<gvars, ends>>
  /\ UNCHANGED <<mode, life, os, wrote>>

OnReaped_KeepsReservation(u) ==
  /\ Event(u, {"reaped"}) /\ u \in table \cap deferred
  /\ queue' = Tail(queue)
  /\ deferred' = deferred \ {u}
  /\ Forget(u)
  /\ CASE u \in parked /\ u \notin settled -> ParkSilent(u)
       [] u \notin parked /\ Orphaned(u) -> Fold(u, "failed") /\ UNCHANGED gvars
       [] OTHER -> UNCHANGED <<gvars, ends>>
  /\ UNCHANGED <<mode, life, os, wrote>>

\* on_reaped, second time.
OnReaped(u) ==
  /\ Event(u, {"reaped"}) /\ u \in table \cap deferred
  /\ queue' = Tail(queue)
  /\ deferred' = deferred \ {u}
  /\ Forget(u)
  /\ CASE u \in parked /\ u \notin settled -> ParkSilent(u)
       [] u \notin parked /\ Orphaned(u) -> Release(u) /\ Fold(u, "failed")
       [] OTHER -> UNCHANGED <<gvars, ends>>
  /\ UNCHANGED <<mode, life, os, wrote>>

\* A run is over, by its deadline, a failed step or a cancel: its steps are
\* cancelled, their workers told to stop.
EndRun(u) ==
  /\ Serving /\ u \in owned \cap table
  /\ owned' = owned \ {u}
  /\ outcome' = [outcome EXCEPT ![u] = "cancelled"]
  /\ cancelled' = cancelled \cup {u}
  /\ UNCHANGED <<mode, life, os, queue, table, settled, parked, deferred>>
  /\ UNCHANGED <<wrote, folds>>
  /\ UNCHANGED gvars

Unhealthy_Again(u) ==
  /\ Serving /\ u \in table
  /\ cancelled' = cancelled \cup {u}
  /\ proc' = [proc EXCEPT ![u] = "gone"]
  /\ queue' = Append(queue, <<u, "reaped", 0>>)
  /\ UNCHANGED <<mode, life, pipe, table, settled, parked, deferred, ends, wrote>>
  /\ UNCHANGED gvars

\* on_unhealthy_child: stuck or past its deadline; cancelled, and unless it was
\* reaped, killed.  The kill reaps it, so its death is posted here.
Unhealthy(u) ==
  /\ Serving /\ u \in table /\ proc[u] \in {"runs", "dead"}
  /\ cancelled' = cancelled \cup {u}
  /\ proc' = [proc EXCEPT ![u] = "gone"]
  /\ queue' = Append(queue, <<u, "reaped", 0>>)
  /\ UNCHANGED <<mode, life, pipe, table, settled, parked, deferred, ends, wrote>>
  /\ UNCHANGED gvars

\* ... or only cancelled, when it has just started.
WarnYoung(u) ==
  /\ Serving /\ u \in table
  /\ cancelled' = cancelled \cup {u}
  /\ UNCHANGED <<mode, life, os, queue, table, settled, parked, deferred, ends>>
  /\ UNCHANGED wrote
  /\ UNCHANGED gvars

---------------------------------------------------------------------------
\* The end of a life.

BeginDrain ==
  /\ mode = "up"
  /\ mode' = "draining"
  /\ UNCHANGED <<life, os, queue, table, flags, deferred, ends, wrote>>
  /\ UNCHANGED gvars

\* The drain's timeout, a second signal or an exit asked for: what runs is
\* cancelled, and parked unless it was cancelled before.
ForceDrain ==
  /\ mode = "draining"
  /\ mode' = "forced"
  /\ parked' = parked \cup (table \ cancelled)
  /\ cancelled' = cancelled \cup table
  /\ UNCHANGED <<life, os, queue, table, settled, deferred, ends, wrote>>
  /\ UNCHANGED gvars

\* Past the grace, the children that are left are killed and forgotten.
Abandon ==
  /\ mode = "forced" /\ table # {}
  /\ mode' = "abandoning"
  /\ UNCHANGED <<life, os, queue, table, flags, deferred, ends, wrote>>
  /\ UNCHANGED gvars

AbandonChild(u) ==
  /\ mode = "abandoning" /\ u \in table
  /\ Forget(u)
  /\ proc' = [proc EXCEPT ![u] = "gone"]
  /\ IF u \in parked \ settled THEN ParkSilent(u) ELSE UNCHANGED <<gvars, ends>>
  /\ UNCHANGED <<mode, life, pipe, queue, deferred, wrote>>

\* What goes with the process.
Gone ==
  /\ proc' = [u \in Units |-> "none"] /\ pipe' = [u \in Units |-> <<>>] /\ queue' = <<>>
  /\ table' = {} /\ settled' = {} /\ cancelled' = {} /\ parked' = {}
  /\ deferred' = {} /\ owned' = {}
  /\ wrote' = [u \in Units |-> "none"] /\ folds' = [u \in Units |-> 0]

\* The drain is over: the last checkpoint, and the process exits.
Exit ==
  /\ mode \in {"draining", "forced", "abandoning"} /\ table = {}
  /\ mode' = "down"
  /\ Record
  /\ Gone
  /\ UNCHANGED <<life, outcome>>

Crash ==
  /\ mode # "down" /\ life < MaxLives
  /\ mode' = "down"
  /\ Gone
  /\ UNCHANGED <<life, outcome>>
  /\ UNCHANGED gvars

\* The next life starts what was parked or was cut off.
Restart ==
  /\ mode = "down" /\ life < MaxLives
  /\ mode' = "up" /\ life' = life + 1
  /\ outcome' = [u \in Units |-> IF outcome[u] = "parked" THEN "none" ELSE outcome[u]]
  /\ Adopt
  /\ UNCHANGED <<os, queue, table, flags, deferred, owned, wrote, folds>>

\* The tick's checkpoint, and the clock.  Bounds: what the last life records
\* nobody reads; of a unit under way a checkpoint would record only that it
\* asked, so it is taken when nothing is reserved.
Tick == /\ mode # "down"
        /\ life < MaxLives \/ MaxLives = 1
        /\ (reserved = {} /\ Record) \/ NextWindow
        /\ UNCHANGED wvars

React(u) ==
  \/ OnTurnDone(u) \/ OnTurnFailed(u) \/ ParkCancelled(u)
  \/ Reap(u) \/ DeferReap(u) \/ OnReaped(u)

Next ==
  /\ UNCHANGED kind
  /\ \/ \E u \in Units :
          \/ Launch(u) \/ Refuse(u) \/ Ask(u) \/ EndRun(u)
          \/ \E f \in Frames, n \in Used : Write(u, f, n)
          \/ Die(u) \/ Read(u) \/ React(u)
          \/ Unhealthy(u) \/ WarnYoung(u) \/ AbandonChild(u)
     \/ BeginDrain \/ ForceDrain \/ Abandon \/ Exit \/ Crash \/ Restart \/ Tick

Spec == Init /\ [][Next]_vars

---------------------------------------------------------------------------
\* A result a worker wrote before it died is the unit's result: no order of
\* reader, reaper, kill and reactor turns it into a failure.
ResultKept == \A u \in Units : wrote[u] = "done" => outcome[u] # "failed"

\* Every event in the queue finds its child in the table: no frame comes after
\* the reap of the worker that wrote it, and no worker is reaped twice.
EventsFindTheirChild == Serving => \A i \in 1..Len(queue) : queue[i][1] \in table

\* A unit's end is folded in once in a life: the frame, the reap, the drain's
\* parking and the abandon never both do it.
FoldedOnce == \A u \in Units : folds[u] <= 1

\* What a drain stopped is left for the next life and not failed in this one,
\* unless the worker itself reported the failure.
ParkedNotFailed ==
  [][\A u \in parked : outcome'[u] = "failed" => outcome[u] = "failed" \/ wrote[u] = "failed"]_vars

\* The reservation of a conversation turn does not outlive its worker,
\* however the worker ends.
TurnReservationReturned ==
  Serving => \A u \in reserved : kind[u] = "root" => u \in table

\* As long as a window counts only what was reserved in it, spent and reserved
\* tokens stay within its cap, through settlements, releases and parkings
\* (`degrade' admits above the cap on purpose).
WindowNotOversold ==
  (Tactic # "degrade" /\ ~foreign) => win.tokens + win.reserved <= WindowTokens

\* Whatever is in the child table can still leave it: it runs, is dead and not
\* yet reaped, or its reap is in the queue.  A child the reactor killed itself
\* is no exception.
DeathIsReported ==
  Serving => \A u \in table :
    proc[u] \in {"runs", "dead"} \/ \E i \in 1..Len(queue) : queue[i] = <<u, "reaped", 0>>

\* Every death of a child is seen, and seen once: by the reaper, or by the
\* reactor that killed it, whichever comes first.
DeathSeenOnce == EventsFindTheirChild /\ DeathIsReported

\* docs/harness.md: the dispatch reservation is settled with the reported
\* usage, "or released untouched if the child dies without reporting".
ReservationReturned == Serving => \A u \in reserved : u \in table

\* rfcs/0026: "lifetime_tokens is the hard ceiling".
LifetimeCeiling == Lifetime > 0 => spent <= Lifetime
=============================================================================
