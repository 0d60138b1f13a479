---------------------------- MODULE TimersProofs ----------------------------
(***************************************************************************)
(* Proofs about the timer wheel and the step it wakes, for every kind of   *)
(* step, any number of retries and timers, and any number of lives.        *)
(***************************************************************************)
EXTENDS Timers, TLAPS

-----------------------------------------------------------------------------
(* The inductive invariant.                                                *)

Timer == 1 .. armed

\* A record that waits names its timer, and is of a live run.
WaitOK(r) == r.status = "suspended" => r.timer # 0 /\ ~Over(r)

\* The types, one by one.
Typed ==
  /\ kind \in Kinds /\ onError \in Policies
  /\ run \in Run /\ saved \in Run
  /\ dirty \in BOOLEAN /\ exit \in BOOLEAN /\ draining \in BOOLEAN /\ cut \in BOOLEAN
  /\ rows \subseteq Timer /\ wheel \subseteq Timer /\ settling \subseteq Timer
  /\ firing \subseteq Timer /\ due \subseteq Timer
  /\ armed \in 0 .. MaxTimers /\ crashes \in 0 .. MaxCrashes
  /\ pc \in {"events", "timers", "work"} /\ calls \in Nat

\* What was fired has left the wheel and is handled before the loop goes on.
HandledInRound == wheel \intersect firing = {} /\ (pc # "timers" => firing = {})

\* In the first life the wheel holds the one timer the step waits for, a
\* cancelled run has none, and an attempt in flight is the one that runs.
FirstLife ==
  crashes = 0 =>
    /\ ~Over(run) /\ run.status = "suspended" => wheel \union firing \subseteq {run.timer}
    /\ ~Over(run) /\ run.status # "suspended" => wheel \union firing = {}
    /\ run.outcome = "cancelled" => wheel \union firing = {}
    /\ calls <= 1
    /\ calls # 0 /\ ~Over(run) => run.status = "running"

\* With `halt', a clean run is the run in the store, and a round that fired
\* something ends clean.
Saved ==
  onError = "halt" /\ ~exit =>
    /\ ~dirty => saved = run
    /\ pc = "events" /\ settling # {} => ~dirty

\* Nothing waits on a timer that fired and was handled.
WokenOnce == run.status = "suspended" /\ run.timer \in settling => run.timer \in firing

TInv ==
  /\ Typed /\ WaitOK(run) /\ WaitOK(saved)
  /\ HandledInRound /\ NoOrphanWait /\ FirstLife /\ Saved /\ WokenOnce

-----------------------------------------------------------------------------
(* The run record.                                                         *)

\* The bounds are numbers.
LEMMA Bounds == MaxRetry \in Nat /\ MaxTimers \in Nat /\ MaxCrashes \in Nat
BY TimersAssumption

\* Suspending a step on a timer.
LEMMA Records ==
  ASSUME NEW r \in Run, NEW t \in 1 .. MaxTimers
  PROVE  /\ Suspended(r, t) \in Run /\ Suspended(r, t).status = "suspended"
         /\ Suspended(r, t).timer = t /\ Suspended(r, t).outcome = r.outcome
<1>1. t \in 0 .. MaxTimers
  BY Bounds
<1>2. Suspended(r, t) = [r EXCEPT !.status = "suspended", !.timer = t]
  BY DEF Suspended
<1> QED BY <1>1, <1>2 DEF Run, Statuses

\* Beginning an attempt, and putting one off.
LEMMA Beginning ==
  ASSUME NEW r \in Run
  PROVE  /\ Begun(r) \in Run /\ Begun(r).status = "running" /\ Begun(r).outcome = r.outcome
         /\ [r EXCEPT !.status = "pending"] \in Run
         /\ [r EXCEPT !.status = "pending"].status = "pending"
         /\ [r EXCEPT !.status = "pending"].outcome = r.outcome
<1>1. r.attempt + 1 \in Nat /\ 0 \in 0 .. MaxTimers
  BY Bounds DEF Run
<1>2. Begun(r) = [r EXCEPT !.status = "running", !.timer = 0, !.attempt = r.attempt + 1]
  BY DEF Begun
<1>3. /\ Begun(r) \in Run /\ Begun(r).status = "running" /\ Begun(r).outcome = r.outcome
  BY <1>1, <1>2 DEF Run, Statuses
<1>4. /\ [r EXCEPT !.status = "pending"] \in Run
      /\ [r EXCEPT !.status = "pending"].status = "pending"
      /\ [r EXCEPT !.status = "pending"].outcome = r.outcome
  BY DEF Run, Statuses
<1> QED BY <1>3, <1>4

\* Ending a step, ...
LEMMA Ending ==
  ASSUME NEW r \in Run, NEW s \in {"done", "failed", "skipped"}
  PROVE  /\ Ended(r, s) \in Run /\ Ended(r, s).status = s /\ Ended(r, s).outcome = r.outcome
<1>1. 0 \in 0 .. MaxTimers /\ s \in Statuses
  BY Bounds DEF Statuses
<1> QED BY <1>1 DEF Run, Ended

\* ... and a run.
LEMMA Finishing ==
  ASSUME NEW r \in Run, NEW o \in {"over", "cancelled"}
  PROVE  /\ Finished(r, o) \in Run /\ Terminal(Finished(r, o).status)
         /\ Finished(r, o).outcome = o
BY DEF Run, Finished, Statuses, Terminal

\* The last failure ends the step.
LEMMA LastOnes ==
  ASSUME NEW r \in Run, NEW x \in LastFailures(r)
  PROVE  x \in Run /\ Terminal(x.status)
<1>1. Ended(r, "failed") \in Run
  BY Ending
<1>2. \A y : y.status \in {"done", "failed"} => Terminal(y.status)
  BY DEF Terminal
<1>3. \/ x = Ended(r, "done") \/ x = Ended(r, "failed")
      \/ x = Finished(Ended(r, "failed"), "over")
  BY DEF LastFailures
<1> QED BY <1>1, <1>2, <1>3, Ending, Finishing

\* A step that has ended does not wait, and neither does one that runs.
LEMMA NoWait ==
  ASSUME NEW r, Terminal(r.status) \/ r.status \in {"running", "pending"}
  PROVE  r.status # "suspended" /\ WaitOK(r)
BY DEF Terminal, WaitOK

\* A checkpoint: the store has the new record, the one an earlier checkpoint
\* of the handler left, or the old one; with `halt', unless the process is to
\* exit, the new one.
LEMMA Checkpointed ==
  ASSUME NEW b \in Run, NEW r \in Run, CheckpointAfter(b, r), exit \in BOOLEAN
  PROVE  /\ run' = r /\ saved' \in {r, saved, b}
         /\ dirty' \in BOOLEAN /\ exit' \in BOOLEAN
         /\ onError = "halt" /\ ~exit' => ~exit /\ ~dirty' /\ saved' = r
<1>1. run' = r
  BY DEF CheckpointAfter
<1>2. CASE saved' = r /\ dirty' = FALSE /\ UNCHANGED exit
  BY <1>1, <1>2
<1>3. CASE /\ StoreFails /\ saved' \in {saved, b} /\ dirty' = (onError = "halt")
           /\ exit' = (exit \/ onError = "halt")
  <2>1. dirty' \in BOOLEAN /\ exit' \in BOOLEAN
    BY <1>3, Zenon
  <2> QED BY <1>1, <1>3, <2>1
<1> QED BY <1>2, <1>3 DEF CheckpointAfter

-----------------------------------------------------------------------------
(* Arming.                                                                 *)

\* A timer is armed: it is new, and in the wheel.
LEMMA Armed ==
  ASSUME Typed, Arm
  PROVE  /\ armed' = NextTimer /\ armed' \in 1 .. MaxTimers /\ armed' > armed
         /\ wheel' = wheel \union {armed'} /\ rows' \subseteq Timer'
         /\ UNCHANGED <<settling, firing>>
<1>1. armed \in Nat /\ armed' = armed + 1 /\ armed < MaxTimers
  BY Bounds DEF Arm, NextTimer, Typed
<1>2. 1 .. armed \subseteq 1 .. armed' /\ armed' \in 1 .. armed'
  BY <1>1
<1>3. rows' \subseteq rows \union {armed'}
  BY DEF Arm
<1> QED BY <1>1, <1>2, <1>3, Bounds DEF Arm, NextTimer, Typed, Timer

\* A timer is refused: only a row may be left of it.
LEMMA Refused ==
  ASSUME Typed, ArmRefused
  PROVE  /\ armed' \in 1 .. MaxTimers /\ armed' > armed
         /\ wheel' = wheel /\ rows' \subseteq Timer'
         /\ UNCHANGED <<settling, firing>>
<1>1. armed \in Nat /\ armed' = armed + 1 /\ armed < MaxTimers
  BY Bounds DEF ArmRefused, NextTimer, Typed
<1>2. 1 .. armed \subseteq 1 .. armed' /\ armed' \in 1 .. armed'
  BY <1>1
<1>3. rows' \subseteq rows \union {armed'}
  BY DEF ArmRefused
<1> QED BY <1>1, <1>2, <1>3, Bounds DEF ArmRefused, Typed, Timer

\* Refused once and then armed.
LEMMA ArmedAfter ==
  ASSUME Typed, ArmAfterRefusal
  PROVE  /\ armed' \in 1 .. MaxTimers /\ armed' > armed
         /\ wheel' = wheel \union {armed'} /\ rows' \subseteq Timer'
         /\ UNCHANGED <<settling, firing>>
<1>1. armed \in Nat /\ armed' = armed + 2 /\ armed + 2 <= MaxTimers
  BY Bounds DEF ArmAfterRefusal, Typed
<1>2. /\ 1 .. armed \subseteq 1 .. armed' /\ armed' \in 1 .. armed'
      /\ NextTimer \in 1 .. armed'
  BY <1>1 DEF NextTimer
<1>3. rows' \subseteq rows \union {NextTimer, armed'}
  BY DEF ArmAfterRefusal
<1> QED BY <1>1, <1>2, <1>3, Bounds DEF ArmAfterRefusal, Typed, Timer

-----------------------------------------------------------------------------
(* One lemma per action.                                                   *)

\* A handler outside the timers' phase that stores a new record: the step
\* then waits for a timer it has just armed, or for none.
LEMMA HandlerKeeps ==
  ASSUME TInv, UNCHANGED <<onError, kind, pc, firing, due, draining, crashes, cut>>,
         pc # "timers",
         NEW b \in Run, NEW r \in Run, CheckpointAfter(b, r), WaitOK(b),
         armed' \in 0 .. MaxTimers, armed' >= armed, rows' \subseteq Timer',
         settling' \subseteq settling, calls' \in Nat,
         \/ r.status # "suspended" /\ wheel' \subseteq wheel
         \/ /\ r.status = "suspended" /\ ~Over(r) /\ armed' > armed /\ r.timer = armed'
            /\ wheel' = wheel \union {armed'},
         FirstLife'
  PROVE  TInv'
<1>0. Typed /\ armed \in Nat /\ armed' \in Nat
  BY Bounds DEF TInv, Typed
<1>1. /\ run' = r /\ saved' \in {r, saved, b}
      /\ dirty' \in BOOLEAN /\ exit' \in BOOLEAN
      /\ onError = "halt" /\ ~exit' => ~exit /\ ~dirty' /\ saved' = r
  BY <1>0, Checkpointed DEF Typed
<1>2. Timer \subseteq Timer' /\ (armed' > armed => armed' \in Timer' /\ armed' \notin Timer)
  BY <1>0 DEF Timer
<1>3. wheel' \subseteq Timer'
  BY <1>0, <1>2 DEF Typed
<1>4. Typed'
  BY <1>0, <1>1, <1>2, <1>3 DEF Typed
<1>5. WaitOK(r) /\ WaitOK(saved) /\ WaitOK(b)
  BY <1>0 DEF WaitOK, TInv
<1>6. WaitOK(run)' /\ WaitOK(saved)'
  BY <1>1, <1>5 DEF WaitOK, Over
<1>7. HandledInRound' /\ firing = {}
  BY DEF TInv, HandledInRound
<1>8. NoOrphanWait'
  BY <1>1 DEF NoOrphanWait
<1>9. Saved'
  BY <1>1 DEF Saved
<1>10. WokenOnce'
  BY <1>0, <1>1, <1>2 DEF WokenOnce, Typed
<1> QED BY <1>4, <1>6, <1>7, <1>8, <1>9, <1>10 DEF TInv

\* A pending step of a live run: nothing is armed and nothing in flight.
LEMMA PendingStep ==
  ASSUME TInv, run.status = "pending", ~Over(run)
  PROVE  /\ run \in Run /\ WaitOK(run)
         /\ crashes = 0 => wheel \union firing = {} /\ calls = 0
BY DEF TInv, Typed, WaitOK, FirstLife

\* What the loop makes of a pending step: it waits for a new timer, runs, or
\* is put off or over.
LEMMA PendingKeeps ==
  ASSUME TInv, run.status = "pending", ~Over(run), pc = "work",
         UNCHANGED <<onError, kind, pc, firing, settling, due, draining, crashes, cut>>,
         NEW b \in Run, NEW r \in Run, CheckpointAfter(b, r), WaitOK(b),
         armed' \in 0 .. MaxTimers, armed' >= armed, rows' \subseteq Timer',
         \/ r.status # "suspended" /\ wheel' = wheel
         \/ /\ r.status = "suspended" /\ ~Over(r) /\ armed' > armed /\ r.timer = armed'
            /\ wheel' = wheel \union {armed'},
         calls' = calls \/ (calls' = calls + 1 /\ r.status = "running")
  PROVE  TInv'
<1>1. crashes = 0 => wheel \union firing = {} /\ calls = 0
  BY PendingStep
<1>2. calls \in Nat /\ calls' \in Nat
  BY DEF TInv, Typed
<1>3. run' = r
  BY DEF CheckpointAfter
<1>4. FirstLife'
  BY <1>1, <1>2, <1>3 DEF FirstLife, Over
<1> QED BY <1>2, <1>4, HandlerKeeps

\* The step is parked on a rate or a budget, ...
LEMMA ParkKeeps == ASSUME TInv, Park, UNCHANGED onError PROVE TInv'
<1>0. Typed
  BY DEF TInv
<1>1. /\ pc = "work" /\ run.status = "pending" /\ ~Over(run) /\ Arm
      /\ UNCHANGED <<due, pc, calls, crashes, cut, kind, draining>>
  BY DEF Park
<1>2. PICK b : /\ b = IF kind = "turn" THEN Begun(run) ELSE run
               /\ CheckpointAfter(b, Suspended(b, NextTimer))
  BY DEF Park
<1>3. run \in Run /\ WaitOK(run)
  BY <1>1, PendingStep
<1>4. b \in Run /\ WaitOK(b) /\ ~Over(b)
  <2>1. CASE kind = "turn"
    <3>1. b = Begun(run) /\ b \in Run /\ b.status = "running" /\ b.outcome = run.outcome
      BY <1>2, <1>3, <2>1, Beginning
    <3> QED BY <1>1, <3>1, NoWait DEF Over
  <2>2. CASE kind # "turn"
    BY <1>1, <1>2, <1>3, <2>2
  <2> QED BY <2>1, <2>2
<1>5. /\ armed' = NextTimer /\ armed' \in 1 .. MaxTimers /\ armed' > armed
      /\ wheel' = wheel \union {armed'} /\ rows' \subseteq Timer'
      /\ UNCHANGED <<settling, firing>>
  BY <1>0, <1>1, Armed
<1>6. PICK r \in Run : /\ r = Suspended(b, NextTimer) /\ r.status = "suspended"
                       /\ r.timer = armed' /\ r.outcome = b.outcome
  BY <1>4, <1>5, Records
<1>7. CheckpointAfter(b, r) /\ ~Over(r)
  BY <1>2, <1>4, <1>6 DEF Over
<1>8. armed' \in 0 .. MaxTimers /\ armed' >= armed
  BY <1>0, <1>5, Bounds DEF Typed
<1> QED BY <1>1, <1>4, <1>5, <1>6, <1>7, <1>8, PendingKeeps

\* ... or its timer is refused, ...
LEMMA ParkRefusedKeeps == ASSUME TInv, ParkRefused, UNCHANGED onError PROVE TInv'
<1>0. Typed
  BY DEF TInv
<1>1. /\ pc = "work" /\ run.status = "pending" /\ ~Over(run)
      /\ UNCHANGED <<due, pc, crashes, cut, kind, draining>>
  BY DEF ParkRefused
<1>2. run \in Run /\ saved \in Run /\ WaitOK(saved)
  BY <1>0 DEF Typed, TInv
<1>3. PICK g \in Run : /\ g = Begun(run) /\ g.status = "running" /\ g.outcome = run.outcome
                       /\ WaitOK(g)
  BY <1>2, Beginning, NoWait
<1>4. ArmRefused => /\ armed' \in 1 .. MaxTimers /\ armed' > armed
                    /\ wheel' = wheel /\ rows' \subseteq Timer'
                    /\ UNCHANGED <<settling, firing>>
  BY <1>0, Refused
<1>5. armed \in Nat /\ (armed' \in 1 .. MaxTimers => armed' \in 0 .. MaxTimers)
  BY <1>0, Bounds DEF Typed
<1>6. CASE kind = "effect" /\ ArmRefused /\ Checkpoint(Begun(run)) /\ calls' = calls + 1
  BY <1>1, <1>2, <1>3, <1>4, <1>5, <1>6, PendingKeeps DEF Checkpoint
<1>7. CASE /\ UNCHANGED calls /\ ArmRefused
           /\ CheckpointAfter(Begun(run), [Begun(run) EXCEPT !.status = "pending"])
  <2>1. PICK r \in Run : r = [g EXCEPT !.status = "pending"] /\ r.status = "pending"
    BY <1>3, Beginning
  <2>2. CheckpointAfter(g, r) /\ r.status # "suspended"
    BY <1>3, <1>7, <2>1
  <2> QED BY <1>1, <1>3, <1>4, <1>5, <1>7, <2>2, PendingKeeps
<1>8. CASE /\ UNCHANGED calls /\ ArmAfterRefusal
           /\ CheckpointAfter(Begun(run), Suspended(Begun(run), armed'))
  <2>1. /\ armed' \in 1 .. MaxTimers /\ armed' > armed
        /\ wheel' = wheel \union {armed'} /\ rows' \subseteq Timer'
        /\ UNCHANGED <<settling, firing>>
    BY <1>0, <1>8, ArmedAfter
  <2>2. PICK r \in Run : /\ r = Suspended(g, armed') /\ r.status = "suspended"
                         /\ r.timer = armed' /\ r.outcome = g.outcome
    BY <1>3, <2>1, Records
  <2>3. ~Over(r)
    BY <1>1, <1>3, <2>2 DEF Over
  <2> QED BY <1>1, <1>3, <1>5, <1>8, <2>1, <2>2, <2>3, PendingKeeps
<1>9. CASE /\ UNCHANGED calls /\ ArmRefused
           /\ \E r \in LastFailures(Begun(run)) : CheckpointAfter(Begun(run), r)
  <2>1. PICK r \in LastFailures(g) : CheckpointAfter(g, r)
    BY <1>3, <1>9
  <2>2. r \in Run /\ r.status # "suspended"
    BY <1>3, <2>1, LastOnes, NoWait
  <2> QED BY <1>1, <1>3, <1>4, <1>5, <1>9, <2>1, <2>2, PendingKeeps
<1> QED BY <1>6, <1>7, <1>8, <1>9 DEF ParkRefused

\* ... or it sleeps, ...
LEMMA SleepKeeps == ASSUME TInv, Sleep, UNCHANGED onError PROVE TInv'
<1>0. Typed
  BY DEF TInv
<1>1. /\ pc = "work" /\ run.status = "pending" /\ ~Over(run)
      /\ UNCHANGED <<due, pc, calls, crashes, cut, kind, draining>>
  BY DEF Sleep
<1>2. run \in Run
  BY <1>0 DEF Typed
<1>3. PICK g \in Run : /\ g = Begun(run) /\ g.status = "running" /\ g.outcome = run.outcome
                       /\ WaitOK(g)
  BY <1>2, Beginning, NoWait
<1>5. armed \in Nat /\ (armed' \in 1 .. MaxTimers => armed' \in 0 .. MaxTimers)
  BY <1>0, Bounds DEF Typed
<1>6. CASE Arm /\ CheckpointAfter(Begun(run), Suspended(Begun(run), NextTimer))
  <2>1. /\ armed' \in 1 .. MaxTimers /\ armed' > armed /\ armed' = NextTimer
        /\ wheel' = wheel \union {armed'} /\ rows' \subseteq Timer'
        /\ UNCHANGED <<settling, firing>>
    BY <1>0, <1>6, Armed
  <2>2. PICK r \in Run : /\ r = Suspended(g, armed') /\ r.status = "suspended"
                         /\ r.timer = armed' /\ r.outcome = g.outcome
    BY <1>3, <2>1, Records
  <2>3. ~Over(r)
    BY <1>1, <1>3, <2>2 DEF Over
  <2> QED BY <1>1, <1>3, <1>5, <1>6, <2>1, <2>2, <2>3, PendingKeeps
<1>7. CASE ArmRefused /\ \E r \in LastFailures(Begun(run)) : CheckpointAfter(Begun(run), r)
  <2>1. PICK r \in LastFailures(g) : CheckpointAfter(g, r)
    BY <1>3, <1>7
  <2>2. r \in Run /\ r.status # "suspended"
    BY <1>3, <2>1, LastOnes, NoWait
  <2>3. /\ armed' \in 1 .. MaxTimers /\ armed' > armed
        /\ wheel' = wheel /\ rows' \subseteq Timer'
        /\ UNCHANGED <<settling, firing>>
    BY <1>0, <1>7, Refused
  <2> QED BY <1>1, <1>3, <1>5, <2>1, <2>2, <2>3, PendingKeeps
<1> QED BY <1>6, <1>7 DEF Sleep

\* ... or it runs.
LEMMA StartKeeps == ASSUME TInv, Start, UNCHANGED onError PROVE TInv'
<1>0. Typed /\ WaitOK(saved)
  BY DEF TInv
<1>1. /\ pc = "work" /\ run.status = "pending" /\ ~Over(run) /\ calls' = calls + 1
      /\ CheckpointAfter(saved, Begun(run))
      /\ UNCHANGED <<due, pc, crashes, cut, kind, draining, rows, wheel, settling, firing, armed>>
  BY DEF Start, Checkpoint, timers
<1>2. run \in Run /\ saved \in Run /\ armed \in 0 .. MaxTimers /\ rows \subseteq Timer
  BY <1>0 DEF Typed
<1>3. Begun(run) \in Run /\ Begun(run).status = "running"
  BY <1>2, Beginning
<1>4. armed' \in 0 .. MaxTimers /\ armed' >= armed /\ rows' \subseteq Timer'
  BY <1>1, <1>2, Bounds DEF Timer
<1> QED BY <1>0, <1>1, <1>2, <1>3, <1>4, PendingKeeps

\* An attempt's result arrives.
LEMMA StepDoneKeeps == ASSUME TInv, StepDone, UNCHANGED onError PROVE TInv'
<1>0. Typed /\ WaitOK(saved) /\ FirstLife
  BY DEF TInv
<1>1. /\ pc = "events" /\ calls > 0 /\ calls' = calls - 1
      /\ UNCHANGED <<due, pc, crashes, cut, kind, draining>>
  BY DEF StepDone
<1>2. /\ run \in Run /\ saved \in Run /\ armed \in 0 .. MaxTimers /\ rows \subseteq Timer
      /\ armed \in Nat /\ calls \in Nat /\ calls' \in Nat
  BY <1>0, <1>1, Bounds DEF Typed
<1>3. CASE Over(run)
  <2>1. UNCHANGED <<run, dirty, saved, exit, rows, wheel, settling, firing, armed>>
    BY <1>3 DEF StepDone, timers
  <2>2. Typed'
    BY <1>0, <1>1, <1>2, <2>1 DEF Typed, Timer
  <2>3. FirstLife'
    BY <1>0, <1>1, <1>2, <1>3, <2>1 DEF FirstLife, Over
  <2>4. NoOrphanWait' /\ Saved' /\ WokenOnce' /\ HandledInRound'
    BY <1>1, <2>1 DEF TInv, NoOrphanWait, Saved, WokenOnce, HandledInRound, Over
  <2>5. WaitOK(run)' /\ WaitOK(saved)'
    BY <2>1 DEF TInv, WaitOK, Over
  <2> QED BY <2>2, <2>3, <2>4, <2>5 DEF TInv
<1>4. CASE ~Over(run)
  <2>1. crashes = 0 => calls = 1 /\ wheel \union firing = {}
    BY <1>0, <1>1, <1>2, <1>4 DEF FirstLife
  <2>2. ASSUME NEW r \in Run, CheckpointAfter(saved, r), r.status # "suspended",
               wheel' = wheel, settling' = settling, firing' = firing,
               armed' \in 0 .. MaxTimers, armed' >= armed, rows' \subseteq Timer'
        PROVE  TInv'
    <3>1. run' = r
      BY <2>2 DEF CheckpointAfter
    <3>2. FirstLife'
      BY <1>1, <1>2, <2>1, <2>2, <3>1 DEF FirstLife, Over
    <3> QED BY <1>0, <1>1, <1>2, <2>2, <3>2, HandlerKeeps
  <2>3. CASE UNCHANGED timers
    <3>1. /\ UNCHANGED <<wheel, settling, firing>> /\ armed' \in 0 .. MaxTimers
          /\ armed' >= armed /\ rows' \subseteq Timer'
      BY <1>2, <2>3 DEF timers, Timer
    <3>2. CASE Checkpoint(Ended(run, "done"))
      BY <1>2, <2>2, <3>1, <3>2, Ending DEF Checkpoint
    <3>3. CASE Checkpoint([run EXCEPT !.status = "pending"])
      BY <1>2, <2>2, <3>1, <3>3, Beginning DEF Checkpoint
    <3>4. ASSUME NEW r \in LastFailures(run), Checkpoint(r) PROVE TInv'
      BY <1>2, <2>2, <3>1, <3>4, LastOnes, NoWait DEF Checkpoint
    <3>5. ~Arm /\ ~ArmRefused
      BY <1>2, <2>3 DEF timers, Arm, ArmRefused, NextTimer
    <3> QED BY <1>4, <3>2, <3>3, <3>4, <3>5 DEF StepDone, Succeeded, Failed
  <2>4. CASE Arm /\ Checkpoint(Suspended(run, NextTimer))
    <3>1. /\ armed' \in 1 .. MaxTimers /\ armed' > armed /\ armed' = NextTimer
          /\ wheel' = wheel \union {armed'} /\ rows' \subseteq Timer'
          /\ UNCHANGED <<settling, firing>>
      BY <1>0, <2>4, Armed
    <3>2. PICK r \in Run : /\ r = Suspended(run, armed') /\ r.status = "suspended"
                           /\ r.timer = armed' /\ r.outcome = run.outcome
      BY <1>2, <3>1, Records
    <3>3. CheckpointAfter(saved, r) /\ run' = r /\ ~Over(r)
      BY <1>4, <2>4, <3>1, <3>2 DEF Checkpoint, CheckpointAfter, Over
    <3>4. FirstLife'
      BY <1>1, <1>2, <2>1, <3>1, <3>2, <3>3 DEF FirstLife, Over
    <3>5. armed' \in 0 .. MaxTimers /\ armed' >= armed
      BY <1>2, <3>1, Bounds
    <3> QED BY <1>0, <1>1, <1>2, <3>1, <3>2, <3>3, <3>4, <3>5, HandlerKeeps
  <2>5. CASE ArmRefused /\ Checkpoint([run EXCEPT !.status = "pending"])
    <3>1. /\ armed' \in 1 .. MaxTimers /\ armed' > armed /\ wheel' = wheel
          /\ rows' \subseteq Timer' /\ UNCHANGED <<settling, firing>>
      BY <1>0, <2>5, Refused
    <3>2. armed' \in 0 .. MaxTimers /\ armed' >= armed
      BY <1>2, <3>1, Bounds
    <3>3. PICK r \in Run : r = [run EXCEPT !.status = "pending"] /\ r.status = "pending"
      BY <1>2, Beginning
    <3>4. CheckpointAfter(saved, r) /\ r.status # "suspended"
      BY <2>5, <3>3 DEF Checkpoint
    <3> QED BY <2>2, <3>1, <3>2, <3>4
  <2> QED BY <1>4, <2>3, <2>4, <2>5 DEF StepDone, Succeeded, Failed
<1> QED BY <1>3, <1>4

\* A deadline passes, or the loop goes on to its work.
LEMMA PassingKeeps ==
  ASSUME TInv, UNCHANGED <<onError, kind, run, dirty, saved, calls, exit, draining, crashes, cut>>,
         UNCHANGED timers, due' \subseteq Timer, pc' = pc \/ (firing = {} /\ pc' = "work")
  PROVE  TInv'
<1> USE DEF timers
<1>1. Typed'
  BY DEF TInv, Typed, Timer
<1>2. FirstLife' /\ NoOrphanWait' /\ WokenOnce'
  BY DEF TInv, FirstLife, NoOrphanWait, WokenOnce, Over
<1>3. HandledInRound' /\ Saved'
  BY DEF TInv, HandledInRound, Saved
<1>4. WaitOK(run)' /\ WaitOK(saved)'
  BY DEF TInv, WaitOK, Over
<1> QED BY <1>1, <1>2, <1>3, <1>4 DEF TInv

\* The due timers leave the wheel.
LEMMA FireKeeps == ASSUME TInv, Fire, UNCHANGED onError PROVE TInv'
<1>1. /\ pc = "events" /\ pc' = "timers" /\ rows' \subseteq rows
      /\ settling' = wheel \intersect due /\ firing' = wheel \intersect due
      /\ wheel' = wheel \ due /\ wheel' \union firing' = wheel /\ firing = {}
      /\ UNCHANGED <<run, dirty, saved, due, armed, calls, exit, crashes, cut, kind, draining>>
  BY DEF Fire, RowsWithout, TInv, HandledInRound
<1>2. Typed'
  BY <1>1 DEF TInv, Typed, Timer
<1>3. FirstLife' /\ NoOrphanWait' /\ WokenOnce'
  BY <1>1 DEF TInv, FirstLife, NoOrphanWait, WokenOnce, Over
<1>4. HandledInRound' /\ Saved'
  BY <1>1 DEF TInv, HandledInRound, Saved
<1>5. WaitOK(run)' /\ WaitOK(saved)'
  BY <1>1 DEF TInv, WaitOK, Over
<1> QED BY <1>2, <1>3, <1>4, <1>5 DEF TInv

\* A timer that fired is handled.
LEMMA OnTimerKeeps ==
  ASSUME TInv, NEW t \in firing, OnTimer(t), UNCHANGED onError
  PROVE  TInv'
<1>0. Typed /\ FirstLife /\ WaitOK(run) /\ WaitOK(saved) /\ HandledInRound
  BY DEF TInv
<1>1. /\ pc = "timers" /\ firing' = firing \ {t} /\ t \notin wheel
      /\ UNCHANGED <<rows, wheel, settling, due, armed, pc, calls, crashes, cut, kind, draining>>
  BY <1>0 DEF OnTimer, HandledInRound
<1>2. /\ run \in Run /\ saved \in Run /\ calls \in Nat
  BY <1>0 DEF Typed
<1>3. /\ crashes = 0 /\ ~Over(run) => wheel \union firing' = {} /\ calls = 0
      /\ crashes = 0 => run.outcome # "cancelled" /\ calls <= 1
  BY <1>0, <1>1, <1>2 DEF FirstLife
<1>4. HandledInRound'
  BY <1>0, <1>1 DEF HandledInRound
<1>5. CASE UNCHANGED <<run, dirty, saved, exit>> /\ Over(run)
  <2>1. run.status # "suspended"
    BY <1>0, <1>5 DEF WaitOK
  <2>2. FirstLife' /\ NoOrphanWait' /\ WokenOnce'
    BY <1>1, <1>3, <1>5, <2>1 DEF FirstLife, NoOrphanWait, WokenOnce, Over
  <2>3. Typed' /\ Saved' /\ WaitOK(run)' /\ WaitOK(saved)'
    BY <1>0, <1>1, <1>5 DEF TInv, Typed, Timer, Saved, WaitOK, Over
  <2> QED BY <1>4, <2>2, <2>3 DEF TInv
<1>6. ASSUME NEW r \in Run, run' = r, r.status # "suspended", r.outcome = run.outcome,
             saved' \in {r, saved}, dirty' \in BOOLEAN, exit' \in BOOLEAN,
             onError = "halt" /\ ~exit' /\ ~dirty' => saved' = r
      PROVE  TInv'
  <2>1. Typed'
    BY <1>0, <1>1, <1>6 DEF Typed, Timer
  <2>2. FirstLife'
    BY <1>0, <1>1, <1>3, <1>6 DEF FirstLife, Over
  <2>3. NoOrphanWait' /\ WokenOnce' /\ WaitOK(run)' /\ WaitOK(saved)' /\ Saved'
    BY <1>0, <1>1, <1>6 DEF NoOrphanWait, WokenOnce, WaitOK, Saved, Over
  <2> QED BY <1>4, <2>1, <2>2, <2>3 DEF TInv
<1>7. CASE kind = "sleep" /\ ~Over(run)
  <2>1. CheckpointAfter(saved, Ended(run, "done"))
    BY <1>7 DEF OnTimer, Checkpoint
  <2>2. PICK r \in Run : r = Ended(run, "done") /\ r.status = "done" /\ r.outcome = run.outcome
    BY <1>2, Ending
  <2>3. /\ run' = r /\ saved' \in {r, saved} /\ dirty' \in BOOLEAN /\ exit' \in BOOLEAN
        /\ onError = "halt" /\ ~exit' => saved' = r
    BY <1>0, <1>2, <2>1, <2>2, Checkpointed DEF Typed
  <2> QED BY <1>6, <2>2, <2>3
<1>8. CASE kind # "sleep"
  <2>1. /\ run' = [run EXCEPT !.status = "pending", !.timer = 0] /\ dirty' = TRUE
        /\ UNCHANGED <<saved, exit>>
    BY <1>8 DEF OnTimer
  <2>2. /\ run' \in Run /\ run'.status = "pending" /\ run'.outcome = run.outcome
    <3>1. 0 \in 0 .. MaxTimers
      BY Bounds
    <3> QED BY <1>2, <2>1, <3>1 DEF Run, Statuses
  <2> QED BY <1>0, <1>6, <2>1, <2>2 DEF Typed
<1> QED BY <1>5, <1>7, <1>8 DEF OnTimer

\* The round's checkpoint.
LEMMA EndRoundKeeps == ASSUME TInv, EndRound, UNCHANGED onError PROVE TInv'
<1>0. Typed /\ FirstLife /\ WaitOK(run) /\ WaitOK(saved) /\ HandledInRound /\ Saved
  BY DEF TInv
<1>1. /\ pc = "work" /\ pc' = "events"
      /\ UNCHANGED <<due, calls, crashes, cut, kind, rows, wheel, settling, firing, armed>>
  BY DEF EndRound, timers
<1>2. /\ run' = run /\ saved' \in {run, saved} /\ dirty' \in BOOLEAN /\ exit' \in BOOLEAN
      /\ onError = "halt" /\ ~exit' => saved' = run /\ ~dirty'
  <2>1. CASE dirty
    <3>1. run \in Run /\ saved \in Run /\ CheckpointAfter(saved, run) /\ exit \in BOOLEAN
      BY <1>0, <2>1 DEF EndRound, Checkpoint, Typed
    <3> QED BY <3>1, Checkpointed
  <2>2. CASE ~dirty
    BY <1>0, <2>2 DEF EndRound, Saved, Typed
  <2> QED BY <2>1, <2>2
<1>3. draining' \in BOOLEAN
  BY Zenon DEF EndRound
<1>4. Typed' /\ HandledInRound' /\ FirstLife'
  BY <1>0, <1>1, <1>2, <1>3 DEF Typed, Timer, HandledInRound, FirstLife, Over
<1>5. NoOrphanWait' /\ WokenOnce' /\ WaitOK(run)' /\ WaitOK(saved)'
  BY <1>0, <1>1, <1>2 DEF TInv, NoOrphanWait, WokenOnce, WaitOK, Over
<1>6. Saved'
  BY <1>1, <1>2 DEF Saved
<1> QED BY <1>4, <1>5, <1>6 DEF TInv

\* The run is cancelled, or ends.
LEMMA RunOverKeeps == ASSUME TInv, CancelRun \/ RunEnds, UNCHANGED onError PROVE TInv'
<1>0. Typed /\ FirstLife /\ WaitOK(run) /\ WaitOK(saved) /\ HandledInRound /\ Saved
  BY DEF TInv
<1>1. /\ run \in Run /\ saved \in Run /\ calls \in Nat /\ armed \in 0 .. MaxTimers
      /\ armed \in Nat
  BY <1>0, Bounds DEF Typed
<1>2. /\ pc # "timers" /\ firing = {} /\ rows' \subseteq rows
      /\ wheel' \subseteq wheel /\ settling' \subseteq settling
      /\ UNCHANGED <<firing, due, armed, pc, calls, crashes, cut, kind, draining>>
  BY <1>0 DEF CancelRun, RunEnds, RowsWithout, timers, HandledInRound
<1>3. armed' \in 0 .. MaxTimers /\ armed' >= armed /\ rows' \subseteq Timer'
  BY <1>0, <1>1, <1>2 DEF Typed, Timer
<1>4. CASE Over(run)
  <2>1. wheel' = {} /\ settling' = {} /\ UNCHANGED <<run, dirty, saved, exit>>
    BY <1>4 DEF CancelRun, RunEnds
  <2>2. Typed' /\ HandledInRound' /\ FirstLife'
    BY <1>0, <1>2, <1>3, <1>4, <2>1 DEF Typed, Timer, HandledInRound, FirstLife, Over
  <2>3. NoOrphanWait' /\ WokenOnce' /\ WaitOK(run)' /\ WaitOK(saved)' /\ Saved'
    BY <1>0, <1>2, <1>4, <2>1 DEF NoOrphanWait, WokenOnce, WaitOK, Saved, Over
  <2> QED BY <2>2, <2>3 DEF TInv
<1>5. CASE ~Over(run)
  <2>1. PICK o \in {"over", "cancelled"} :
          Checkpoint(Finished(run, o)) /\ (o = "cancelled" => wheel' = {})
    BY <1>5 DEF CancelRun, RunEnds
  <2>2. PICK r \in Run : r = Finished(run, o) /\ Terminal(r.status) /\ r.outcome = o
    BY <1>1, Finishing
  <2>3. CheckpointAfter(saved, r) /\ run' = r /\ r.status # "suspended"
    <3>1. CheckpointAfter(saved, r)
      BY <2>1, <2>2 DEF Checkpoint
    <3>2. r.status # "suspended"
      BY <2>2 DEF Terminal
    <3> QED BY <3>1, <3>2 DEF CheckpointAfter
  <2>4. FirstLife'
    <3>1. Over(run)' /\ run'.outcome = o /\ (crashes' = 0 => calls' <= 1)
      BY <1>0, <1>2, <2>2, <2>3 DEF FirstLife, Over
    <3>2. o = "cancelled" => wheel' \union firing' = {}
      BY <1>2, <2>1
    <3> QED BY <3>1, <3>2 DEF FirstLife
  <2> QED BY <1>0, <1>1, <1>2, <1>3, <2>3, <2>4, HandlerKeeps
<1> QED BY <1>4, <1>5

-----------------------------------------------------------------------------
(* Lives.                                                                  *)

\* What a life leaves behind: a record, and rows of timers that were armed,
\* the one that was being armed included.
LEMMA LeavesBehind ==
  ASSUME TInv, NEW left \in LeftBehind
  PROVE  /\ left.record \in Run /\ WaitOK(left.record)
         /\ left.rows \subseteq Timer \union {NextTimer}
         /\ NextTimer \in left.rows => armed < MaxTimers
<1>0. Typed /\ WaitOK(saved) /\ run \in Run /\ saved \in Run /\ rows \subseteq Timer
  BY DEF TInv, Typed
<1>1. NextTimer \notin Timer
  BY Bounds DEF NextTimer, Timer, TInv, Typed
<1>2. \/ left = [record |-> saved, rows |-> rows]
      \/ armed < MaxTimers /\ left \in LeftArming
      \/ left \in LeftCancelling
  BY DEF LeftBehind
<1>3. CASE left = [record |-> saved, rows |-> rows]
  BY <1>0, <1>1, <1>3
<1>4. CASE armed < MaxTimers /\ left \in LeftArming
  <2>1. Begun(run) \in Run /\ WaitOK(Begun(run))
    BY <1>0, Beginning, NoWait
  <2>2. left.record \in {Begun(run), saved} /\ left.rows = rows \union {NextTimer}
    BY <1>4 DEF LeftArming
  <2> QED BY <1>0, <1>4, <2>1, <2>2
<1>5. CASE left \in LeftCancelling
  <2>1. left.record = saved /\ left.rows = rows \ (wheel \union settling)
    BY <1>5 DEF LeftCancelling
  <2> QED BY <1>0, <1>1, <2>1
<1> QED BY <1>2, <1>3, <1>4, <1>5

\* The record as it is restored.
LEMMA Replaying ==
  ASSUME NEW x \in Run, WaitOK(x)
  PROVE  /\ Replayed(x) \in Run /\ WaitOK(Replayed(x))
         /\ Over(Replayed(x)) => Replayed(x) = x
<1>1. CASE Over(x) \/ x.status # "running"
  BY <1>1 DEF Replayed
<1>2. CASE ~Over(x) /\ x.status = "running"
  <2>1. \/ Replayed(x) = [x EXCEPT !.status = "pending"]
        \/ Replayed(x) = Ended(x, "skipped")
        \/ Replayed(x) = Ended(x, "failed")
    BY <1>2, TimersAssumption DEF Replayed
  <2>2. CASE Replayed(x) = [x EXCEPT !.status = "pending"]
    BY <1>2, <2>2, Beginning, NoWait DEF Over
  <2>3. CASE Replayed(x) = Ended(x, "skipped") \/ Replayed(x) = Ended(x, "failed")
    <3>1. PICK s \in {"skipped", "failed"} : Replayed(x) = Ended(x, s)
      BY <2>3
    <3>2. /\ Replayed(x) \in Run /\ Replayed(x).status = s
          /\ Replayed(x).outcome = x.outcome
      BY <3>1, Ending
    <3> QED BY <1>2, <3>2 DEF Over, WaitOK
  <2> QED BY <2>1, <2>2, <2>3
<1> QED BY <1>1, <1>2

\* The process ends, whatever it was doing, and the next one restores: a wait
\* whose row did not come back gets a timer of its own.
LEMMA CrashKeeps == ASSUME TInv, Crash, UNCHANGED onError PROVE TInv'
<1>0. Typed /\ armed \in Nat /\ armed \in 0 .. MaxTimers /\ due \subseteq Timer
  BY Bounds DEF TInv, Typed
<1>1. /\ crashes' = crashes + 1 /\ crashes < MaxCrashes /\ settling' = {} /\ firing' = {}
      /\ calls' = 0 /\ pc' = "events" /\ UNCHANGED <<due, kind>>
  BY DEF Crash
<1>2. PICK left \in LeftBehind :
        /\ Repair(Replayed(left.record), left.record, left.rows,
                  IF NextTimer \in left.rows THEN NextTimer ELSE armed)
        /\ cut' = (cut \/ (left.record.status = "running" /\ ~Over(left.record)))
  BY DEF Crash
<1>3. PICK x, S, t, r : /\ x = left.record /\ S = left.rows /\ r = Replayed(left.record)
                        /\ t = IF NextTimer \in left.rows THEN NextTimer ELSE armed
  OBVIOUS
<1>4. /\ x \in Run /\ WaitOK(x) /\ S \subseteq Timer \union {NextTimer}
      /\ r \in Run /\ WaitOK(r) /\ (Over(r) => r = x)
  BY <1>2, <1>3, LeavesBehind, Replaying
<1>5. t \in Nat /\ t >= armed /\ t <= MaxTimers /\ S \subseteq 1 .. t /\ due \subseteq 1 .. t
  <2>1. CASE NextTimer \in S
    <3>1. t = armed + 1 /\ armed < MaxTimers
      BY <1>2, <1>3, <2>1, LeavesBehind DEF NextTimer
    <3>2. S \subseteq 1 .. (armed + 1) /\ due \subseteq 1 .. (armed + 1)
      BY <1>0, <1>4 DEF Timer, NextTimer
    <3> QED BY <1>0, <3>1, <3>2, Bounds
  <2>2. CASE NextTimer \notin S
    BY <1>0, <1>3, <1>4, <2>2, Bounds DEF Timer
  <2> QED BY <2>1, <2>2
<1>6. Repair(r, x, S, t)
  BY <1>2, <1>3
<1>7. cut' \in BOOLEAN /\ draining' \in BOOLEAN
  <2>1. cut' \in BOOLEAN
    BY <1>2, Zenon
  <2>2. draining' = FALSE
    BY DEF Crash
  <2> QED BY <2>1, <2>2
<1>8. /\ run' \in Run /\ saved' \in Run /\ dirty' \in BOOLEAN /\ exit' \in BOOLEAN
      /\ armed' \in t .. MaxTimers /\ rows' \subseteq 1 .. armed' /\ wheel' \subseteq 1 .. armed'
      /\ WaitOK(run') /\ WaitOK(saved')
      /\ run'.status = "suspended" /\ ~Over(run') => run'.timer \in wheel'
      /\ ~exit' /\ ~dirty' => saved' = run'
  <2>1. CASE /\ ~Orphaned(r, S)
             /\ run' = r /\ dirty' = ~Over(r) /\ saved' = x /\ exit' = FALSE
             /\ rows' = S /\ wheel' = S /\ armed' = t
    <3>1. dirty' \in BOOLEAN /\ exit' \in BOOLEAN
      BY <2>1, Zenon
    <3>2. run'.status = "suspended" /\ ~Over(run') => run'.timer \in wheel'
      BY <2>1 DEF Orphaned
    <3>3. ~dirty' => saved' = run'
      BY <1>4, <2>1
    <3> QED BY <1>4, <1>5, <2>1, <3>1, <3>2, <3>3, Bounds
  <2>2. CASE /\ Orphaned(r, S) /\ t < MaxTimers /\ armed' = t + 1
             /\ run' = Suspended(r, t + 1) /\ dirty' = TRUE /\ saved' = x /\ exit' = FALSE
             /\ wheel' = S \union {t + 1}
             /\ \/ rows' = S \union {t + 1}
                \/ StoreFails /\ onError = "degrade" /\ rows' = S
    <3>1. t + 1 \in 1 .. MaxTimers /\ S \union {t + 1} \subseteq 1 .. (t + 1)
      BY <1>5, <2>2, Bounds
    <3>2. /\ run' \in Run /\ run'.status = "suspended" /\ run'.timer = t + 1
          /\ run'.outcome = r.outcome
      BY <1>4, <2>2, <3>1, Records
    <3>3. WaitOK(run') /\ run'.timer \in wheel'
      BY <2>2, <3>1, <3>2 DEF WaitOK, Orphaned, Over
    <3>4. armed' \in t .. MaxTimers /\ rows' \subseteq 1 .. armed' /\ wheel' \subseteq 1 .. armed'
      <4>1. t + 1 \in t .. MaxTimers /\ S \subseteq 1 .. (t + 1)
        BY <1>5, <2>2, <3>1, Bounds
      <4>2. rows' \subseteq S \union {t + 1}
        BY <2>2
      <4> QED BY <2>2, <3>1, <4>1, <4>2
    <3> QED BY <1>4, <2>2, <3>2, <3>3, <3>4
  <2>3. CASE /\ Orphaned(r, S) /\ t < MaxTimers /\ armed' = t + 1
             /\ run' \in IF r.attempt <= Retries THEN {[r EXCEPT !.status = "pending"]}
                         ELSE LastFailures(r)
             /\ wheel' = S /\ rows' \in {S, S \union {t + 1}}
             /\ \/ saved' = run' /\ dirty' = FALSE /\ exit' = FALSE
                \/ saved' = x /\ dirty' = TRUE /\ exit' = TRUE
    <3>1. run' = [r EXCEPT !.status = "pending"] \/ run' \in LastFailures(r)
      BY <2>3
    <3>2. run' \in Run /\ run'.status # "suspended" /\ WaitOK(run')
      BY <1>4, <3>1, Beginning, LastOnes, NoWait
    <3>3. t + 1 \in t .. MaxTimers /\ S \union {t + 1} \subseteq 1 .. (t + 1)
      BY <1>5, <2>3, Bounds
    <3>4. armed' \in t .. MaxTimers /\ rows' \subseteq 1 .. armed' /\ wheel' \subseteq 1 .. armed'
      BY <2>3, <3>3
    <3> QED BY <1>4, <2>3, <3>2, <3>4
  <2> QED BY <1>6, <2>1, <2>2, <2>3 DEF Repair
<1>9. Typed'
  <2>1. crashes' \in 0 .. MaxCrashes /\ crashes' # 0
    BY <1>0, <1>1, Bounds DEF Typed
  <2>2. armed' \in 0 .. MaxTimers /\ due' \subseteq 1 .. armed'
    BY <1>1, <1>5, <1>8, Bounds
  <2> QED BY <1>0, <1>1, <1>7, <1>8, <2>1, <2>2 DEF Typed, Timer
<1>10. crashes' # 0
  BY <1>0, <1>1, Bounds DEF Typed
<1>11. FirstLife' /\ HandledInRound' /\ WokenOnce'
  BY <1>1, <1>10 DEF FirstLife, HandledInRound, WokenOnce
<1>12. NoOrphanWait' /\ Saved' /\ WaitOK(run)' /\ WaitOK(saved)'
  BY <1>1, <1>8 DEF NoOrphanWait, Saved, WaitOK, Over
<1> QED BY <1>9, <1>11, <1>12 DEF TInv

-----------------------------------------------------------------------------
(* The theorems.                                                           *)

\* The invariant holds at the start, ...
LEMMA InitInv == ASSUME Init PROVE TInv
<1>1. run \in Run /\ run.status = "pending" /\ run.outcome = "live" /\ saved = run
  BY Bounds DEF Init, Run, Statuses
<1>2. dirty \in BOOLEAN /\ exit \in BOOLEAN /\ draining \in BOOLEAN /\ cut \in BOOLEAN
  BY Zenon DEF Init
<1>3. Typed
  BY <1>1, <1>2, Bounds DEF Init, Typed, Timer
<1>4. FirstLife /\ HandledInRound /\ NoOrphanWait /\ Saved /\ WokenOnce
  BY <1>1 DEF Init, FirstLife, HandledInRound, NoOrphanWait, Saved, WokenOnce, Over
<1>5. WaitOK(run) /\ WaitOK(saved)
  BY <1>1 DEF WaitOK
<1> QED BY <1>3, <1>4, <1>5 DEF TInv

\* ... and every step keeps it.
LEMMA StepInv == ASSUME TInv, Next PROVE TInv'
<1>1. UNCHANGED onError
  BY DEF Next
<1>2. CASE Loop
  <2>1. CASE Schedule
    BY <1>1, <2>1, PassingKeeps DEF Schedule, TInv, Typed
  <2> QED BY <1>1, <1>2, <2>1, FireKeeps, OnTimerKeeps, EndRoundKeeps DEF Loop
<1>3. CASE Park \/ ParkRefused \/ Sleep \/ Start \/ StepDone
  BY <1>1, <1>3, ParkKeeps, ParkRefusedKeeps, SleepKeeps, StartKeeps, StepDoneKeeps
<1>4. ASSUME NEW t \in 1 .. armed, Deadline(t) PROVE TInv'
  <2>1. due' \subseteq Timer
    BY <1>4 DEF Deadline, TInv, Typed, Timer
  <2> QED BY <1>1, <1>4, <2>1, PassingKeeps DEF Deadline
<1>5. CASE CancelRun \/ RunEnds \/ Crash
  BY <1>1, <1>5, RunOverKeeps, CrashKeeps
<1> QED BY <1>2, <1>3, <1>4, <1>5 DEF Next

\* The invariant of the wheel.
THEOREM TimersInvariance == Spec => []TInv
<1>1. Init => TInv
  BY InitInv
<1>2. TInv /\ [Next]_vars => TInv'
  <2>1. ASSUME TInv, UNCHANGED vars PROVE TInv'
    <3>1. Typed' /\ WaitOK(run)' /\ WaitOK(saved)'
      BY <2>1 DEF vars, TInv, Typed, Timer, WaitOK, Over
    <3>2. FirstLife' /\ HandledInRound' /\ NoOrphanWait' /\ Saved' /\ WokenOnce'
      BY <2>1 DEF vars, TInv, FirstLife, HandledInRound, NoOrphanWait, Saved, WokenOnce, Over
    <3> QED BY <3>1, <3>2 DEF TInv
  <2> QED BY <2>1, StepInv
<1> QED BY <1>1, <1>2, PTL DEF Spec

\* Every variable keeps its type, and a suspended step names its timer
\* (StepState, TimerRecord).
THEOREM TimersTypeCorrect == Spec => []TypeOK
<1>1. TInv => TypeOK
  <2> SUFFICES ASSUME TInv PROVE TypeOK
    OBVIOUS
  <2>1. {dirty, exit, draining, cut} \subseteq BOOLEAN
    BY Zenon DEF TInv, Typed
  <2> QED BY <2>1 DEF TInv, Typed, TypeOK, Timer, WaitOK
<1> QED BY <1>1, TimersInvariance, PTL

\* Timers::arm, fire and repair_orphaned_timer_waits: in a live run nothing
\* waits on a timer that will not fire.
THEOREM NoWaitIsOrphaned == Spec => []NoOrphanWait
<1>1. TInv => NoOrphanWait
  BY DEF TInv
<1> QED BY <1>1, TimersInvariance, PTL

\* execute_step and finish_step: in the first life one attempt is in flight
\* at a time.
THEOREM OneAttempt == Spec => []OneCallAtATime
<1>1. TInv => OneCallAtATime
  BY DEF TInv, FirstLife, OneCallAtATime
<1> QED BY <1>1, TimersInvariance, PTL

\* Timers::settle deletes a row only when the record in the store no longer
\* waits on it.
THEOREM SettlesAfterSave == Spec => SettledIsDurable
<1>1. TInv /\ [Next]_vars =>
        [pc = "events" /\ pc' = "timers" /\ ~exit /\ onError = "halt" =>
           \A t \in rows \ rows' : ~(saved.status = "suspended" /\ saved.timer = t)]_vars
  <2> SUFFICES ASSUME TInv, Next, pc = "events", pc' = "timers", ~exit, onError = "halt",
                      NEW t \in rows \ rows'
               PROVE  ~(saved.status = "suspended" /\ saved.timer = t)
    OBVIOUS
  <2>1. Fire
    <3>1. \A u \in firing : ~OnTimer(u)
      BY DEF OnTimer
    <3>2. ~Schedule /\ ~EndRound /\ ~Park /\ ~ParkRefused /\ ~Sleep /\ ~Start /\ ~StepDone
      BY DEF Schedule, EndRound, Park, ParkRefused, Sleep, Start, StepDone
    <3>3. (\A u \in 1 .. armed : ~Deadline(u)) /\ ~CancelRun /\ ~RunEnds /\ ~Crash
      BY DEF Deadline, CancelRun, RunEnds, Crash
    <3> QED BY <3>1, <3>2, <3>3 DEF Next, Loop
  <2>2. t \in settling
    BY <2>1 DEF Fire, RowsWithout
  <2>3. saved = run /\ firing = {}
    BY <2>2 DEF TInv, Saved, HandledInRound
  <2> QED BY <2>2, <2>3 DEF TInv, WokenOnce
<1> QED BY <1>1, TimersInvariance, PTL DEF Spec, SettledIsDurable

\* finish_step and cancel_run: in the first life a step that has ended does
\* not begin again.
THEOREM EndedStaysEnded == Spec => TerminalIsFinal
<1>1. TInv /\ [Next]_vars =>
        [Terminal(run.status) /\ run.outcome # "over" /\ crashes' = 0 =>
           Terminal(run'.status)]_vars
  <2> SUFFICES ASSUME TInv, Next, Terminal(run.status), run.outcome # "over", crashes' = 0
               PROVE  Terminal(run'.status)
    OBVIOUS
  <2>0. Typed /\ run \in Run /\ crashes \in Nat /\ calls \in Nat
    BY Bounds DEF TInv, Typed
  <2>1. ~Crash
    BY <2>0 DEF Crash
  <2>2. run.status \notin {"pending", "running", "suspended"}
    BY DEF Terminal
  <2>3. ~Park /\ ~ParkRefused /\ ~Sleep /\ ~Start
    BY <2>2 DEF Park, ParkRefused, Sleep, Start
  <2>4. run' = run => Terminal(run'.status)
    OBVIOUS
  <2>5. crashes = 0
    <3>1. UNCHANGED crashes
      BY <2>1 DEF Next, Loop, Fire, OnTimer, Schedule, EndRound, Park, ParkRefused, Sleep,
                  Start, StepDone, Deadline, CancelRun, RunEnds
    <3> QED BY <3>1
  <2>6. firing = {}
    BY <2>0, <2>2, <2>5 DEF TInv, FirstLife, Over, Run
  <2>7. CASE StepDone
    <3>1. Over(run)
      BY <2>0, <2>2, <2>5, <2>7 DEF TInv, FirstLife, StepDone
    <3> QED BY <2>4, <2>7, <3>1 DEF StepDone
  <2>8. CASE CancelRun \/ RunEnds
    <3>1. \/ run' = run
          \/ \E o \in {"over", "cancelled"} : run' = Finished(run, o)
      BY <2>8 DEF CancelRun, RunEnds, Checkpoint, CheckpointAfter
    <3> QED BY <2>0, <2>4, <3>1, Finishing
  <2>9. Fire \/ Schedule \/ EndRound => run' = run
    BY DEF Fire, Schedule, EndRound, Checkpoint, CheckpointAfter
  <2>10. \A t \in 1 .. armed : Deadline(t) => run' = run
    BY DEF Deadline
  <2> QED BY <2>1, <2>3, <2>4, <2>6, <2>7, <2>8, <2>9, <2>10 DEF Next, Loop
<1> QED BY <1>1, TimersInvariance, PTL DEF Spec, TerminalIsFinal
=============================================================================
