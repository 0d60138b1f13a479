------------------------------ MODULE Breaker ------------------------------
(***************************************************************************)
(* The circuit breaker of remote-effect steps (runtime/breaker.rs) and the *)
(* two places that consult it (runtime/steps.rs): the gate before an       *)
(* attempt is dispatched and the recorder when an attempt finishes.        *)
(*                                                                         *)
(* One breaker is shared by every run and every fan-out iteration of a     *)
(* step, so several attempts are in flight at once and their outcomes      *)
(* arrive in any order.  The breaker's state lives in the manifest: a      *)
(* change reaches the store only with the next flush, and a process that   *)
(* dies before it starts again from the state of the last one.             *)
(*                                                                         *)
(* The code keeps the times at which the circuit opened and the probe was  *)
(* claimed and only compares their distance from now with the cooldown;    *)
(* the model keeps the distances, capped at the cooldown.                  *)
(***************************************************************************)
EXTENDS Naturals

CONSTANTS
  Attempts,   \* callers of the guarded step: runs and iterations of fan-outs
  Failures,   \* Config.failures: consecutive failures that open the circuit
  Cooldown,   \* Config.cooldown_ms, in ticks
  MaxFails    \* the failure counts saturate here (a u32 in the code)

ASSUME BreakerAssumption ==
  /\ Failures \in Nat \ {0} /\ Cooldown \in Nat
  /\ MaxFails \in Nat /\ MaxFails >= Failures

VARIABLES
  br,      \* the breaker's entry in the manifest
  saved,   \* the entry the last flush stored
  flight,  \* attempt -> "idle", "call" or "probe"
  streak,  \* ghost: failures recorded since the last recorded success
  quiet,   \* ghost: time since the circuit opened or last let a call through
  lost     \* ghost: a crash lost what was recorded since the last flush, and
           \*   no success was recorded after it

vars == <<br, saved, flight, streak, quiet, lost>>

Ages == 0 .. Cooldown

Breaker == [open : BOOLEAN, fails : 0 .. MaxFails, opened : Ages,
            probing : BOOLEAN, probe : Ages]

Closed == [open |-> FALSE, fails |-> 0, opened |-> 0, probing |-> FALSE, probe |-> 0]

Older(age) == IF age < Cooldown THEN age + 1 ELSE age
More(n) == IF n < MaxFails THEN n + 1 ELSE n

Init ==
  /\ br = Closed /\ saved = Closed
  /\ flight = [a \in Attempts |-> "idle"]
  /\ streak = 0 /\ quiet = 0 /\ lost = FALSE

-----------------------------------------------------------------------------
(* The gate.                                                               *)

\* Mutant: a probe holds the slot until its outcome is recorded.
Gate_NoStale ==
  IF ~br.open THEN "proceed"
  ELSE IF br.opened < Cooldown \/ br.probing THEN "fast_fail"
  ELSE "probe"

\* Mutant: the claim of a probe is not looked at.
Gate_Unclaimed ==
  IF ~br.open THEN "proceed"
  ELSE IF br.opened < Cooldown THEN "fast_fail"
  ELSE "probe"

\* gate: an open circuit fails fast until the cooldown is over, and then
\* until a claimed probe is a cooldown old.
Gate ==
  IF ~br.open THEN "proceed"
  ELSE IF br.opened < Cooldown \/ (br.probing /\ br.probe < Cooldown) THEN "fast_fail"
  ELSE "probe"

\* A closed circuit dispatches the effect.
Proceed(a) ==
  /\ flight[a] = "idle" /\ Gate = "proceed"
  /\ flight' = [flight EXCEPT ![a] = "call"]
  /\ UNCHANGED <<br, saved, streak, quiet, lost>>

\* This attempt is the probe; the claim goes into the manifest.
Probe(a) ==
  /\ flight[a] = "idle" /\ Gate = "probe"
  /\ flight' = [flight EXCEPT ![a] = "probe"]
  /\ br' = [br EXCEPT !.probing = TRUE, !.probe = 0]
  /\ quiet' = 0
  /\ UNCHANGED <<saved, streak, lost>>

\* The step fails without dialling, and the recorder skips it.
FastFail(a) ==
  /\ flight[a] = "idle" /\ Gate = "fast_fail"
  /\ UNCHANGED vars

-----------------------------------------------------------------------------
(* The recorder.                                                           *)

\* Mutant: a failure beyond the limit opens the circuit, not the one at it.
Failed_Late ==
  CASE br.open /\ br.probing ->
         [br EXCEPT !.opened = 0, !.probing = FALSE, !.probe = 0]
    [] ~br.open /\ More(br.fails) > Failures ->
         [Closed EXCEPT !.open = TRUE, !.fails = More(br.fails)]
    [] OTHER -> [br EXCEPT !.fails = More(@)]

\* record(ok = false): a failure under a claimed probe opens the circuit
\* again, the one that reaches the limit opens it, any other is counted.
Failed ==
  CASE br.open /\ br.probing ->
         [br EXCEPT !.opened = 0, !.probing = FALSE, !.probe = 0]
    [] ~br.open /\ More(br.fails) >= Failures ->
         [Closed EXCEPT !.open = TRUE, !.fails = More(br.fails)]
    [] OTHER -> [br EXCEPT !.fails = More(@)]

\* record(ok = true), whoever succeeded.
Succeed(a) ==
  /\ br' = Closed
  /\ flight' = [flight EXCEPT ![a] = "idle"]
  /\ streak' = 0 /\ lost' = FALSE
  /\ UNCHANGED <<saved, quiet>>

Fail(a) ==
  /\ br' = Failed
  /\ flight' = [flight EXCEPT ![a] = "idle"]
  /\ streak' = More(streak)
  /\ quiet' = IF br.open THEN quiet ELSE 0
  /\ UNCHANGED <<saved, lost>>

\* The attempt's run ended meanwhile, or the step was cancelled: finish_step
\* returns, or finishes it with a status the recorder does not count.
Abandon(a) ==
  /\ flight' = [flight EXCEPT ![a] = "idle"]
  /\ UNCHANGED <<br, saved, streak, quiet, lost>>

-----------------------------------------------------------------------------
Tick ==
  /\ br' = [br EXCEPT !.opened = IF br.open THEN Older(@) ELSE @,
                      !.probe = IF br.probing THEN Older(@) ELSE @]
  /\ saved' = [saved EXCEPT !.opened = IF saved.open THEN Older(@) ELSE @,
                            !.probe = IF saved.probing THEN Older(@) ELSE @]
  /\ quiet' = Older(quiet)
  /\ UNCHANGED <<flight, streak, lost>>

\* Durable::flush of the manifest, at some later turn of the loop.
Flush ==
  /\ saved' = br
  /\ UNCHANGED <<br, flight, streak, quiet, lost>>

\* The process dies; its next life restores the stored manifest.
Crash ==
  /\ br' = saved
  /\ lost' = (lost \/ br # saved)
  /\ flight' = [a \in Attempts |-> "idle"]
  /\ UNCHANGED <<saved, streak, quiet>>

Try(a) == Proceed(a) \/ Probe(a) \/ FastFail(a)
End(a) == flight[a] # "idle" /\ (Succeed(a) \/ Fail(a) \/ Abandon(a))

\* A step that never came to the gate is recorded like any other: its output
\* was in the cache, its spec did not render, or its server was refused.
Undialled(a) == flight[a] = "idle" /\ (Succeed(a) \/ Fail(a))

Next == (\E a \in Attempts : Try(a) \/ End(a) \/ Undialled(a)) \/ Tick \/ Flush \/ Crash

Spec == Init /\ [][Next]_vars

\* Time passes, a call ends (every remote call has a timeout) and the step
\* goes on being tried: not for ever only at moments when the gate is shut.
FairSpec ==
  /\ Spec /\ WF_vars(Tick)
  /\ \A a \in Attempts : SF_vars(Try(a)) /\ WF_vars(End(a))

-----------------------------------------------------------------------------
\* Type correctness: the ages and the counts stay within their caps.
TypeOK ==
  /\ br \in Breaker /\ saved \in Breaker
  /\ flight \in [Attempts -> {"idle", "call", "probe"}]
  /\ streak \in 0 .. MaxFails /\ quiet \in Ages /\ lost \in BOOLEAN

\* The circuit is open exactly when `failures' outcomes in a row were
\* failures, in whatever order the attempts in flight end and across a crash
\* of the process; only a crash that loses an unflushed change of the breaker
\* breaks this, and the next success restores it.
TripsOnConsecutiveFailures == lost \/ (br.open <=> streak >= Failures)

\* A dependency that is down is left alone: from the moment the circuit
\* opens until it closes, at most one call per cooldown goes out, whatever
\* the outcomes that arrive late, the probes that fail, those that are lost
\* and the crashes that lose no unflushed change of the breaker.
OneCallPerCooldown ==
  [][\A a \in Attempts :
        ~lost /\ br.open /\ flight[a] = "idle" /\ flight'[a] # "idle" => quiet >= Cooldown]_vars

\* A lost probe does not wedge the circuit: while the step is tried, an open
\* circuit sooner or later lets a probe through or closes.
NotWedged ==
  br.open ~> (~br.open \/ \E a \in Attempts : flight[a] = "probe")
=============================================================================
