------------------------------- MODULE Timers -------------------------------
(***************************************************************************)
(* The durable timer wheel (runtime/timers.rs) and the step it wakes: how  *)
(* a step of a workflow run is parked on a timer, woken, attempted,        *)
(* retried and finished (runtime/steps.rs, engine/run.rs), and what a      *)
(* restart makes of the run record and the timer rows it finds             *)
(* (runtime/mod.rs, repair_orphaned_timer_waits).                          *)
(*                                                                         *)
(* The loop (reactor.rs, run_loop) is one thread: events, then due timers, *)
(* then scheduling, then a checkpoint.  A fired timer's row stays in the   *)
(* store until the next round's `fire'.  The model follows one step of one *)
(* run; the run's other steps appear as the end they may put to the run.   *)
(* All of the step's timers have one owner kind: "step" for a sleep,       *)
(* "step_budget" for every other wait.                                     *)
(***************************************************************************)
EXTENDS Naturals, FiniteSets

CONSTANTS
  Kinds,       \* the kinds of step: "effect" (may wait for a rate), "turn"
               \*   (for a budget), "sleep"
  OnReplay,    \* the step's on_replay: "retry", "skip" or "fail"
  MaxRetry,    \* the step's retry.max (a sleep has none)
  Policies,    \* the values store.on_error may have: "halt", "degrade"
  StoreFails,  \* calls to the store may fail
  MaxTimers,   \* bound on the timers ever armed
  MaxCrashes   \* bound on the lives that end

ASSUME TimersAssumption ==
  /\ Kinds \subseteq {"effect", "turn", "sleep"}
  /\ OnReplay \in {"retry", "skip", "fail"}
  /\ Policies \subseteq {"halt", "degrade"}
  /\ StoreFails \in BOOLEAN
  /\ {MaxRetry, MaxTimers, MaxCrashes} \subseteq Nat

VARIABLES
  kind,      \* the kind of the step
  onError,   \* store.on_error
  run,       \* the run's record: the step's status, wait and attempts
  dirty,     \* RunState.dirty
  saved,     \* the run record in the store
  rows,      \* timer rows in the store
  wheel,     \* Timers.map
  settling,  \* Timers.settling: fired, row still in the store
  firing,    \* what `fire' returned and on_timer has not handled yet
  due,       \* timers whose deadline has passed
  armed,     \* timers armed so far
  pc,        \* where the loop is: "events", "timers" or "work"
  calls,     \* attempts of the step on executor threads or turn workers
  exit,      \* a halting store error has asked the process to end
  draining,  \* since the end of that round: no step starts
  crashes,   \* lives ended so far
  cut        \* ghost: a life ended while the step was running

vars == <<kind, onError, run, dirty, saved, rows, wheel, settling, firing, due, armed, pc,
          calls, exit, draining, crashes, cut>>
timers == <<rows, wheel, settling, firing, armed>>

Statuses == {"pending", "running", "suspended", "done", "failed", "skipped",
             "cancelled"}
Terminal(status) == status \in {"done", "failed", "skipped", "cancelled"}

\* timer: the timer the step's wait names (0: it has no wait); outcome: of
\* the run, cancelled by request or over for any other reason.
Run == [status : Statuses, timer : 0 .. MaxTimers, attempt : Nat,
        outcome : {"live", "over", "cancelled"}]

Over(r) == r.outcome # "live"
Retries == IF kind = "sleep" THEN 0 ELSE MaxRetry

Init ==
  /\ kind \in Kinds /\ onError \in Policies
  /\ run = [status |-> "pending", timer |-> 0, attempt |-> 0, outcome |-> "live"]
  /\ saved = run /\ dirty = FALSE
  /\ rows = {} /\ wheel = {} /\ settling = {} /\ firing = {} /\ due = {}
  /\ armed = 0 /\ pc = "events" /\ calls = 0 /\ exit = FALSE /\ draining = FALSE
  /\ crashes = 0 /\ cut = FALSE

-----------------------------------------------------------------------------
(* Writes.                                                                 *)

\* checkpoint: the run becomes r and is stored.  When the store fails, what
\* an earlier checkpoint of the same handler stored (`before') may be all
\* there is; degraded, the record counts as written, otherwise it stays
\* dirty and the process is to end.
CheckpointAfter(before, r) ==
  /\ run' = r
  /\ \/ saved' = r /\ dirty' = FALSE /\ UNCHANGED exit
     \/ /\ StoreFails /\ saved' \in {saved, before}
        /\ dirty' = (onError = "halt")
        /\ exit' = (exit \/ onError = "halt")

Checkpoint(r) == CheckpointAfter(saved, r)

NextTimer == armed + 1

\* Timers::arm; degraded, the row may be missing from the store.
Arm ==
  /\ armed < MaxTimers /\ armed' = NextTimer
  /\ wheel' = wheel \union {NextTimer}
  /\ \/ rows' = rows \union {NextTimer}
     \/ StoreFails /\ onError = "degrade" /\ rows' = rows
  /\ UNCHANGED <<settling, firing>>

\* Timers::arm refused: the row may have been stored all the same.
ArmRefused ==
  /\ StoreFails /\ onError = "halt"
  /\ armed < MaxTimers /\ armed' = NextTimer
  /\ rows' \in {rows, rows \union {NextTimer}}
  /\ UNCHANGED <<wheel, settling, firing>>

\* Timers::arm refused, and the next one granted.
ArmAfterRefusal ==
  /\ StoreFails /\ onError = "halt"
  /\ armed + 2 <= MaxTimers /\ armed' = armed + 2
  /\ wheel' = wheel \union {armed'}
  /\ rows' \in {rows \union {armed'}, rows \union {NextTimer, armed'}}
  /\ UNCHANGED <<settling, firing>>

\* The rows left after deleting those of `gone'; a failed delete is ignored.
RowsWithout(gone) ==
  IF StoreFails THEN {rows \ g : g \in SUBSET gone} ELSE {rows \ gone}

-----------------------------------------------------------------------------
(* The step.                                                               *)

\* RunState::suspend_step, begin_step and end_step.
Suspended(r, t) == [r EXCEPT !.status = "suspended", !.timer = t]
Begun(r) == [r EXCEPT !.status = "running", !.timer = 0, !.attempt = @ + 1]
Ended(r, status) == [r EXCEPT !.status = status, !.timer = 0]

\* RunState::finish: the run is over, and every step that is not.
Finished(r, outcome) ==
  [r EXCEPT !.outcome = outcome, !.status = IF Terminal(@) THEN @ ELSE "cancelled"]

\* A failure with no retry left: on_error continues (done with an error),
\* goes elsewhere, or ends the run.
LastFailures(r) ==
  {Ended(r, "done"), Ended(r, "failed"), Finished(Ended(r, "failed"), "over")}

\* execute_step finds the rate, or the budget, used up: the step is parked.
\* A rate wait comes before begin_step and costs no attempt.
Park ==
  LET r == IF kind = "turn" THEN Begun(run) ELSE run
  IN  /\ pc = "work" /\ run.status = "pending" /\ ~Over(run) /\ ~draining
      /\ kind \in {"effect", "turn"}
      /\ Arm
      /\ CheckpointAfter(r, Suspended(r, NextTimer))
      /\ UNCHANGED <<due, pc, calls, crashes, cut, kind, draining>>

\* The store refuses the timer of a rate wait: the effect goes out all the
\* same.  It refuses that of a budget wait: the attempt has failed, and is
\* retried at once, after a backoff of its own, or was the last.
ParkRefused ==
  /\ pc = "work" /\ run.status = "pending" /\ ~Over(run) /\ ~draining
  /\ \/ /\ kind = "effect" /\ ArmRefused
        /\ Checkpoint(Begun(run)) /\ calls' = calls + 1
     \/ /\ kind = "turn" /\ UNCHANGED calls
        /\ \/ /\ run.attempt < Retries /\ ArmRefused
              /\ CheckpointAfter(Begun(run), [Begun(run) EXCEPT !.status = "pending"])
           \/ /\ run.attempt < Retries /\ ArmAfterRefusal
              /\ CheckpointAfter(Begun(run), Suspended(Begun(run), armed'))
           \/ /\ run.attempt >= Retries /\ ArmRefused
              /\ \E r \in LastFailures(Begun(run)) : CheckpointAfter(Begun(run), r)
  /\ UNCHANGED <<due, pc, crashes, cut, kind, draining>>

\* execute_step of a sleep: begun, armed, suspended.
Sleep ==
  /\ pc = "work" /\ run.status = "pending" /\ ~Over(run) /\ ~draining
  /\ kind = "sleep"
  /\ \/ Arm /\ CheckpointAfter(Begun(run), Suspended(Begun(run), NextTimer))
     \/ ArmRefused /\ \E r \in LastFailures(Begun(run)) : CheckpointAfter(Begun(run), r)
  /\ UNCHANGED <<due, pc, calls, crashes, cut, kind, draining>>

\* execute_step: durably running, then the effect leaves the process.
Start ==
  /\ pc = "work" /\ run.status = "pending" /\ ~Over(run) /\ ~draining
  /\ kind \in {"effect", "turn"}
  /\ Checkpoint(Begun(run))
  /\ calls' = calls + 1
  /\ UNCHANGED timers /\ UNCHANGED <<due, pc, crashes, cut, kind, draining>>

\* finish_step, the attempt succeeded.
Succeeded == Checkpoint(Ended(run, "done")) /\ UNCHANGED timers

\* finish_step, the attempt failed: a retry is left, at once or after a
\* backoff, or it was the last.
Failed ==
  \/ /\ run.attempt <= Retries
     /\ \/ Arm /\ Checkpoint(Suspended(run, NextTimer))
        \/ ArmRefused /\ Checkpoint([run EXCEPT !.status = "pending"])
        \/ UNCHANGED timers /\ Checkpoint([run EXCEPT !.status = "pending"])
  \/ /\ run.attempt > Retries
     /\ UNCHANGED timers
     /\ \E r \in LastFailures(run) : Checkpoint(r)

\* on_step_done: an attempt's result arrives; a finished run takes none.
StepDone ==
  /\ pc = "events" /\ calls > 0
  /\ calls' = calls - 1
  /\ IF Over(run) THEN UNCHANGED <<run, dirty, saved, exit>> /\ UNCHANGED timers
     ELSE Succeeded \/ Failed
  /\ UNCHANGED <<due, pc, crashes, cut, kind, draining>>

-----------------------------------------------------------------------------
(* The wheel.                                                              *)

\* Time: the deadline of an armed timer passes.
Deadline(t) ==
  /\ t \in 1 .. armed /\ t \notin due
  /\ due' = due \union {t}
  /\ UNCHANGED <<run, dirty, saved, pc, calls, exit, crashes, cut, kind, draining>>
  /\ UNCHANGED timers

\* Mutant: the rows of the timers that fire now are deleted at once.
Fire_DeletesFirst ==
  /\ pc = "events" /\ pc' = "timers"
  /\ rows' \in RowsWithout(wheel \intersect due)
  /\ settling' = wheel \intersect due
  /\ firing' = wheel \intersect due
  /\ wheel' = wheel \ due
  /\ UNCHANGED <<run, dirty, saved, due, armed, calls, exit, crashes, cut, kind, draining>>

\* Mutant: a fired timer stays in the wheel.
Fire_Rearmed ==
  /\ pc = "events" /\ pc' = "timers"
  /\ rows' \in RowsWithout(settling)
  /\ settling' = wheel \intersect due
  /\ firing' = wheel \intersect due
  /\ UNCHANGED <<run, dirty, saved, wheel, due, armed, calls, exit, crashes, cut, kind, draining>>

\* Timers::fire: the rows of the last round's timers go (settle), the due
\* timers leave the wheel.
Fire ==
  /\ pc = "events" /\ pc' = "timers"
  /\ rows' \in RowsWithout(settling)
  /\ settling' = wheel \intersect due
  /\ firing' = wheel \intersect due
  /\ wheel' = wheel \ due
  /\ UNCHANGED <<run, dirty, saved, due, armed, calls, exit, crashes, cut, kind, draining>>

\* on_step_timer: a sleep is done; any other wait is over, whatever the step
\* is doing now.
OnTimer(t) ==
  /\ pc = "timers" /\ t \in firing
  /\ firing' = firing \ {t}
  /\ IF kind = "sleep"
     THEN IF Over(run) THEN UNCHANGED <<run, dirty, saved, exit>>
          ELSE Checkpoint(Ended(run, "done"))
     ELSE /\ run' = [run EXCEPT !.status = "pending", !.timer = 0]
          /\ dirty' = TRUE
          /\ UNCHANGED <<saved, exit>>
  /\ UNCHANGED <<rows, wheel, settling, due, armed, pc, calls, crashes, cut, kind, draining>>

Schedule ==
  /\ pc = "timers" /\ firing = {}
  /\ pc' = "work"
  /\ UNCHANGED <<run, dirty, saved, due, calls, exit, crashes, cut, kind, draining>>
  /\ UNCHANGED timers

\* The round's checkpoint; then lifecycle_step begins the drain a failed one asked
\* for.
EndRound ==
  /\ pc = "work" /\ pc' = "events"
  /\ IF dirty THEN Checkpoint(run) ELSE UNCHANGED <<run, dirty, saved, exit>>
  /\ draining' = (draining \/ exit')
  /\ UNCHANGED timers /\ UNCHANGED <<due, calls, crashes, cut, kind>>

-----------------------------------------------------------------------------
(* The run.                                                                *)

\* Mutant: a cancelled run leaves its timers armed.
CancelRun_Armed ==
  /\ pc \in {"events", "work"} /\ ~Over(run)
  /\ Checkpoint(Finished(run, "cancelled"))
  /\ UNCHANGED timers /\ UNCHANGED <<due, pc, calls, crashes, cut, kind, draining>>

\* cancel_run: the run's timers are disarmed, armed and settling ones, then
\* the run is finished, unless it already is.
CancelRun ==
  /\ pc \in {"events", "work"}
  /\ rows' \in RowsWithout(wheel \union settling)
  /\ wheel' = {} /\ settling' = {}
  /\ IF Over(run) THEN UNCHANGED <<run, dirty, saved, exit>>
     ELSE Checkpoint(Finished(run, "cancelled"))
  /\ UNCHANGED <<firing, due, armed, pc, calls, crashes, cut, kind, draining>>

\* Another step ends the run: a finish, a failure, a limit, the deadline.
RunEnds ==
  /\ pc \in {"events", "work"} /\ ~Over(run)
  /\ Checkpoint(Finished(run, "over"))
  /\ UNCHANGED timers /\ UNCHANGED <<due, pc, calls, crashes, cut, kind, draining>>

-----------------------------------------------------------------------------
(* Lives.                                                                  *)

\* The run as restored: a step left running is replayed, skipped or failed.
Replayed(r) ==
  IF Over(r) \/ r.status # "running" THEN r
  ELSE CASE OnReplay = "retry" -> [r EXCEPT !.status = "pending"]
         [] OnReplay = "skip" -> Ended(r, "skipped")
         [] OnReplay = "fail" -> Ended(r, "failed")

\* Died between a timer's row and the checkpoint that names it.
LeftArming ==
  {[record |-> IF pc = "work" /\ kind # "effect" THEN Begun(run) ELSE saved,
    rows |-> rows \union {NextTimer}]}

\* Died between the deletes of a cancelled run's rows and its record.
LeftCancelling == {[record |-> saved, rows |-> rows \ (wheel \union settling)]}

\* The record and the rows a life that ends leaves in the store.
LeftBehind ==
  {[record |-> saved, rows |-> rows]} \union
  (IF /\ ~Over(run) /\ armed < MaxTimers
      /\ \/ pc = "work" /\ run.status = "pending" /\ ~draining
         \/ pc = "events" /\ calls > 0 /\ run.attempt <= Retries
   THEN LeftArming ELSE {}) \union
  (IF pc # "timers" /\ ~Over(run) THEN LeftCancelling ELSE {})

Orphaned(r, stored) ==
  ~Over(r) /\ r.status = "suspended" /\ r.timer \notin stored

\* Mutant: a wait whose timer is gone stays as it is.
Repair_Nothing(r, record, stored, t) ==
  /\ run' = r /\ dirty' = ~Over(r) /\ saved' = record /\ exit' = FALSE
  /\ rows' = stored /\ wheel' = stored /\ armed' = t

\* repair_orphaned_timer_waits: a suspended step whose row did not come back
\* gets a new timer.  A store that refuses it fails the step, which retries
\* or ends (a retry whose own timer is taken is like the first case).
Repair(r, record, stored, t) ==
  \/ /\ ~Orphaned(r, stored)
     /\ run' = r /\ dirty' = ~Over(r) /\ saved' = record /\ exit' = FALSE
     /\ rows' = stored /\ wheel' = stored /\ armed' = t
  \/ /\ Orphaned(r, stored) /\ t < MaxTimers /\ armed' = t + 1
     /\ run' = Suspended(r, t + 1) /\ dirty' = TRUE /\ saved' = record /\ exit' = FALSE
     /\ wheel' = stored \union {t + 1}
     /\ \/ rows' = stored \union {t + 1}
        \/ StoreFails /\ onError = "degrade" /\ rows' = stored
  \/ /\ Orphaned(r, stored) /\ t < MaxTimers /\ armed' = t + 1
     /\ StoreFails /\ onError = "halt"
     /\ run' \in IF r.attempt <= Retries THEN {[r EXCEPT !.status = "pending"]}
                 ELSE LastFailures(r)
     /\ wheel' = stored /\ rows' \in {stored, stored \union {t + 1}}
     /\ \/ saved' = run' /\ dirty' = FALSE /\ exit' = FALSE
        \/ saved' = record /\ dirty' = TRUE /\ exit' = TRUE

\* The process ends, between two handlers or inside one, and the next one
\* restores the run and the timers.
Crash ==
  /\ crashes < MaxCrashes /\ crashes' = crashes + 1
  /\ \E left \in LeftBehind :
       /\ Repair(Replayed(left.record), left.record, left.rows,
                 IF NextTimer \in left.rows THEN NextTimer ELSE armed)
       /\ cut' = (cut \/ (left.record.status = "running" /\ ~Over(left.record)))
  /\ settling' = {} /\ firing' = {} /\ calls' = 0 /\ draining' = FALSE
  /\ pc' = "events"
  /\ UNCHANGED <<due, kind>>

-----------------------------------------------------------------------------
Loop == Fire \/ (\E t \in firing : OnTimer(t)) \/ Schedule \/ EndRound

Next ==
  /\ UNCHANGED onError
  /\ \/ Loop
     \/ Park \/ ParkRefused \/ Sleep \/ Start \/ StepDone
     \/ \E t \in 1 .. armed : Deadline(t)
     \/ CancelRun \/ RunEnds
     \/ Crash

Spec == Init /\ [][Next]_vars

\* The loop turns and time passes.
FairSpec ==
  /\ Spec
  /\ WF_vars(Loop /\ UNCHANGED onError)
  /\ \A t \in 1 .. MaxTimers : WF_vars(Deadline(t) /\ UNCHANGED onError)

-----------------------------------------------------------------------------
\* Type correctness; a suspended step names its timer.
TypeOK ==
  /\ kind \in Kinds /\ onError \in Policies
  /\ run \in Run /\ saved \in Run /\ {dirty, exit, draining, cut} \subseteq BOOLEAN
  /\ {rows, wheel, settling, firing, due} \subseteq SUBSET (1 .. armed)
  /\ armed \in 0 .. MaxTimers /\ crashes \in 0 .. MaxCrashes
  /\ pc \in {"events", "timers", "work"} /\ calls \in Nat
  /\ run.status = "suspended" => run.timer # 0

\* Nothing waits on a timer that will not fire: in a live run, a suspended
\* step's timer is in the wheel or being handled, through failed writes,
\* lost deletes and deaths at any point.
NoOrphanWait ==
  run.status = "suspended" /\ ~Over(run) => run.timer \in wheel \union firing

\* A row is settled only once its consequence is durable: unless the process
\* is giving up on a store that failed, or goes on without it, the record in
\* the store no longer waits on a timer whose row `fire' deletes.
SettledIsDurable ==
  [][pc = "events" /\ pc' = "timers" /\ ~exit /\ onError = "halt" =>
        \A t \in rows \ rows' : ~(saved.status = "suspended" /\ saved.timer = t)]_vars

\* A suspended step is woken, or its run ends, through restarts and a store
\* that fails.
WaitEnds ==
  (run.status = "suspended" /\ ~Over(run)) ~> (run.status # "suspended" \/ Over(run))

\* In the run's first life a step that has ended does not begin again, the
\* step of a cancelled run included.
TerminalIsFinal ==
  [][Terminal(run.status) /\ run.outcome # "over" /\ crashes' = 0 =>
        Terminal(run'.status)]_vars

\* In the run's first life a step has one attempt in flight at a time,
\* whatever waits, retries and refused timers lead to it.
OneCallAtATime == crashes = 0 => calls <= 1

\* An effect that must not repeat unattended does not: once a life ended
\* while the step was running, `skip' and `fail' see to it that no attempt
\* is made again.
NeverRepeatsUnattended ==
  [][OnReplay # "retry" /\ cut => calls' <= calls]_vars
=============================================================================
