--------------------------- MODULE BreakerProofs ---------------------------
(***************************************************************************)
(* Proofs about the circuit breaker, for any number of callers and any     *)
(* limit and cooldown.                                                     *)
(***************************************************************************)
EXTENDS Breaker, TLAPS

\* Ages and counts stay within their caps as they grow.
LEMMA Capped ==
  /\ \A age \in Ages : Older(age) \in Ages
  /\ \A n \in 0 .. MaxFails : More(n) \in 0 .. MaxFails
BY BreakerAssumption DEF Ages, Older, More

\* What a recorded failure leaves is a breaker.
LEMMA FailedType == ASSUME br \in Breaker PROVE Failed \in Breaker
<1>1. /\ br.open \in BOOLEAN /\ br.fails \in 0 .. MaxFails /\ br.opened \in Ages
      /\ br.probing \in BOOLEAN /\ br.probe \in Ages /\ 0 \in Ages
      /\ More(br.fails) \in 0 .. MaxFails
  BY Capped, BreakerAssumption DEF Breaker, Ages
<1>2. [br EXCEPT !.opened = 0, !.probing = FALSE, !.probe = 0] \in Breaker
  BY <1>1 DEF Breaker
<1>3. [Closed EXCEPT !.open = TRUE, !.fails = More(br.fails)] \in Breaker
  BY <1>1 DEF Breaker, Closed
<1>4. [br EXCEPT !.fails = More(@)] \in Breaker
  BY <1>1 DEF Breaker
<1> QED BY <1>2, <1>3, <1>4 DEF Failed

\* A breaker that grows older is a breaker, as open and as probed as before.
LEMMA OlderType ==
  ASSUME NEW b \in Breaker
  PROVE  [b EXCEPT !.opened = IF b.open THEN Older(@) ELSE @,
                   !.probe = IF b.probing THEN Older(@) ELSE @] \in Breaker
BY Capped DEF Breaker

\* Every step keeps the types.
LEMMA TypeStep == ASSUME TypeOK, [Next]_vars PROVE TypeOK'
<1> USE DEF TypeOK
<1>0. Closed \in Breaker /\ 0 \in Ages /\ 0 \in 0 .. MaxFails
  BY BreakerAssumption DEF Closed, Breaker, Ages
<1>1. ASSUME NEW a \in Attempts, Try(a) PROVE TypeOK'
  <2>1. CASE Proceed(a)
    BY <2>1 DEF Proceed
  <2>2. CASE Probe(a)
    <3>1. br' \in Breaker
      BY <1>0, <2>2 DEF Probe, Breaker
    <3> QED BY <1>0, <2>2, <3>1 DEF Probe
  <2>3. CASE FastFail(a)
    BY <2>3 DEF FastFail, vars
  <2> QED BY <1>1, <2>1, <2>2, <2>3 DEF Try
<1>2. ASSUME NEW a \in Attempts, End(a) \/ Undialled(a) PROVE TypeOK'
  <2>1. CASE Succeed(a)
    BY <1>0, <2>1 DEF Succeed
  <2>2. CASE Fail(a)
    BY <1>0, <2>2, FailedType, Capped DEF Fail
  <2>3. CASE Abandon(a)
    BY <2>3 DEF Abandon
  <2> QED BY <1>2, <2>1, <2>2, <2>3 DEF End, Undialled
<1>3. CASE Tick
  BY <1>3, OlderType, Capped DEF Tick
<1>4. CASE Flush \/ Crash
  BY <1>4 DEF Flush, Crash
<1>5. CASE UNCHANGED vars
  BY <1>5 DEF vars
<1> QED BY <1>1, <1>2, <1>3, <1>4, <1>5 DEF Next

\* The initial state is well typed.
LEMMA TypeInit == ASSUME Init PROVE TypeOK
<1>1. lost \in BOOLEAN
  BY Zenon DEF Init
<1> QED BY <1>1, BreakerAssumption DEF Init, TypeOK, Closed, Breaker, Ages

\* Type correctness (runtime/breaker.rs): the counts and ages saturate at their
\* bounds and an attempt is always in one of its states, for any number of
\* callers, any failure limit and any cooldown.
THEOREM BreakerTypeCorrect == Spec => []TypeOK
BY TypeInit, TypeStep, PTL DEF Spec

-----------------------------------------------------------------------------
(* The count in a closed circuit is the streak, below the limit; in an      *)
(* open one the streak is at the limit or beyond.                           *)

Counted ==
  /\ ~br.open => streak = br.fails /\ br.fails < Failures /\ ~br.probing
  /\ br.open => streak >= Failures

CountInv == TypeOK /\ (~lost => Counted)

\* The initial state is counted.
LEMMA CountInit == ASSUME Init PROVE CountInv
<1>1. Counted
  BY BreakerAssumption DEF Init, Closed, Counted
<1> QED BY <1>1, TypeInit DEF CountInv

\* Only a success makes good what a crash lost, and only a crash loses.
LEMMA LostStep ==
  ASSUME TypeOK, Next, ~lost', ~(\E a \in Attempts : Succeed(a))
  PROVE  ~lost /\ (Crash => br' = br)
<1>1. ASSUME Crash PROVE ~lost /\ br' = br
  BY <1>1 DEF Crash
<1> QED BY <1>1 DEF Next, Try, End, Undialled, Proceed, Probe, FastFail, Fail, Abandon, Tick, Flush, vars

\* Every step keeps the count, a crash by losing nothing or by being noticed.
LEMMA CountStep == ASSUME CountInv, [Next]_vars PROVE CountInv'
<1>1. TypeOK /\ TypeOK' /\ br \in Breaker /\ streak \in Nat /\ br.fails \in Nat
      /\ br.open \in BOOLEAN /\ Failures \in Nat /\ MaxFails \in Nat /\ Failures <= MaxFails
      /\ streak <= MaxFails /\ br.fails <= MaxFails
  BY TypeStep, BreakerAssumption DEF CountInv, TypeOK, Breaker
<1> SUFFICES ASSUME Next, ~lost' PROVE Counted'
  BY <1>1 DEF vars, CountInv, Counted
<1>0. CASE \E a \in Attempts : Succeed(a)
  BY <1>0, <1>1, BreakerAssumption DEF Succeed, Closed, Counted
<1> SUFFICES ASSUME ~(\E a \in Attempts : Succeed(a)) PROVE Counted'
  BY <1>0
<1>7. Counted /\ (Crash => br' = br)
  BY <1>1, LostStep DEF CountInv
<1>2. ASSUME NEW a \in Attempts, Try(a) PROVE Counted'
  <2>1. CASE Proceed(a) \/ FastFail(a)
    BY <1>1, <1>7, <2>1 DEF Proceed, FastFail, vars, Counted
  <2>2. CASE Probe(a)
    <3>1. br.open /\ br'.open /\ streak' = streak
      BY <1>1, <1>7, <2>2 DEF Probe, Gate, Breaker
    <3> QED BY <1>1, <1>7, <3>1 DEF Counted
  <2> QED BY <1>2, <2>1, <2>2 DEF Try
<1>3. ASSUME NEW a \in Attempts, End(a) \/ Undialled(a) PROVE Counted'
  <2>2. CASE Abandon(a)
    BY <1>1, <1>7, <2>2 DEF Abandon, Counted
  <2>3. CASE Fail(a)
    <3>1. br' = Failed /\ streak' = More(streak)
      BY <2>3 DEF Fail
    <3>2. CASE br.open
      <4>1. br'.open
        BY <1>1, <1>7, <3>1, <3>2 DEF Failed, Breaker
      <4>2. streak' >= Failures
        BY <1>1, <1>7, <3>1, <3>2 DEF Counted, More
      <4> QED BY <1>1, <1>7, <4>1, <4>2 DEF Counted
    <3>3. CASE ~br.open /\ More(br.fails) >= Failures
      <4>1. br'.open
        BY <1>1, <1>7, <3>1, <3>3 DEF Failed, Closed, Breaker
      <4>2. streak' >= Failures
        BY <1>1, <1>7, <3>1, <3>3 DEF Counted
      <4> QED BY <1>1, <1>7, <4>1, <4>2 DEF Counted
    <3>4. CASE ~br.open /\ ~(More(br.fails) >= Failures)
      <4>1. br' = [br EXCEPT !.fails = More(@)]
        BY <3>1, <3>4 DEF Failed
      <4>2. ~br'.open /\ ~br'.probing /\ br'.fails = More(br.fails)
        BY <1>1, <1>7, <3>4, <4>1 DEF Breaker, Counted
      <4>3. streak' = br'.fails /\ br'.fails < Failures
        BY <1>1, <1>7, <3>1, <3>4, <4>2 DEF Counted, More
      <4> QED BY <1>1, <1>7, <4>2, <4>3 DEF Counted
    <3> QED BY <3>2, <3>3, <3>4
  <2> QED BY <1>3, <2>2, <2>3 DEF End, Undialled
<1>4. CASE Tick
  <2>1. /\ (br'.open <=> br.open) /\ br'.fails = br.fails
        /\ (br'.probing <=> br.probing) /\ streak' = streak
    BY <1>1, <1>7, <1>4 DEF Tick, Breaker
  <2> QED BY <1>1, <1>7, <2>1 DEF Counted
<1>5. CASE Flush
  BY <1>1, <1>7, <1>5 DEF Flush, Counted
<1>6. CASE Crash
  BY <1>7, <1>6 DEF Crash, Counted
<1> QED BY <1>2, <1>3, <1>4, <1>5, <1>6 DEF Next

\* Consecutive means consecutive (runtime/breaker.rs, record): the circuit is
\* open exactly when the last `failures' outcomes, or more, were failures,
\* however many attempts are in flight and however their outcomes interleave.
THEOREM TripsRight == Spec => []TripsOnConsecutiveFailures
<1>1. Init => CountInv
  BY CountInit
<1>2. CountInv /\ [Next]_vars => CountInv'
  BY CountStep
<1>3. CountInv => TripsOnConsecutiveFailures
  <2> SUFFICES ASSUME CountInv PROVE TripsOnConsecutiveFailures
    OBVIOUS
  <2>1. br.fails \in Nat /\ Failures \in Nat /\ br.open \in BOOLEAN
    BY BreakerAssumption DEF CountInv, TypeOK, Breaker
  <2> QED BY <2>1 DEF CountInv, Counted, TripsOnConsecutiveFailures
<1> QED BY <1>1, <1>2, <1>3, PTL DEF Spec

-----------------------------------------------------------------------------
(* An open circuit has been quiet since its probe was claimed, or at least  *)
(* since it opened for the last time.                                       *)

Left ==
  /\ br.open /\ br.probing => quiet >= br.probe
  /\ br.open /\ ~br.probing => quiet >= br.opened

QuietInv == CountInv /\ (~lost => Left)

\* Every step keeps the circuit quiet.
LEMMA QuietStep == ASSUME QuietInv, [Next]_vars PROVE QuietInv'
<1>1. /\ CountInv /\ CountInv' /\ br \in Breaker /\ br' \in Breaker
      /\ quiet \in Ages /\ quiet' \in Ages
      /\ br.opened \in Ages /\ br.probe \in Ages
      /\ br'.opened \in Ages /\ br'.probe \in Ages /\ Ages \subseteq Nat
  BY CountStep DEF QuietInv, CountInv, TypeOK, Breaker, Ages
<1> SUFFICES ASSUME Next, ~lost' PROVE Left'
  BY <1>1 DEF vars, QuietInv, Left
<1>0. CASE \E a \in Attempts : Succeed(a)
  BY <1>0, <1>1 DEF Succeed, Closed, Left
<1> SUFFICES ASSUME ~(\E a \in Attempts : Succeed(a)) PROVE Left'
  BY <1>0
<1>7. Left /\ Counted /\ (Crash => br' = br)
  BY <1>1, LostStep DEF QuietInv, CountInv
<1>2. ASSUME NEW a \in Attempts, Try(a) PROVE Left'
  <2>1. CASE Proceed(a) \/ FastFail(a)
    BY <1>1, <1>7, <2>1 DEF Proceed, FastFail, vars, Left
  <2>2. CASE Probe(a)
    <3>1. br'.probing /\ br'.probe = 0 /\ quiet' = 0
      BY <1>1, <1>7, <2>2 DEF Probe, Breaker
    <3> QED BY <1>1, <1>7, <3>1 DEF Left
  <2> QED BY <1>2, <2>1, <2>2 DEF Try
<1>3. ASSUME NEW a \in Attempts, End(a) \/ Undialled(a) PROVE Left'
  <2>2. CASE Abandon(a)
    BY <1>1, <1>7, <2>2 DEF Abandon, Left
  <2>3. CASE Fail(a)
    <3>1. CASE br.open /\ br.probing
      <4>1. br'.opened = 0 /\ ~br'.probing
        BY <1>1, <1>7, <2>3, <3>1 DEF Fail, Failed, Breaker
      <4> QED BY <1>1, <1>7, <4>1 DEF Left
    <3>2. CASE br.open /\ ~br.probing
      <4>1. br' = [br EXCEPT !.fails = More(@)] /\ quiet' = quiet
        BY <2>3, <3>2 DEF Fail, Failed
      <4>2. br'.opened = br.opened /\ ~br'.probing
        BY <1>1, <1>7, <3>2, <4>1 DEF Breaker
      <4> QED BY <1>1, <1>7, <3>2, <4>1, <4>2 DEF Left
    <3>3. CASE ~br.open
      <4>1. quiet' = 0 /\ br' = Failed
        BY <2>3, <3>3 DEF Fail
      <4>2. br'.opened = 0 \/ ~br'.open
        BY <1>1, <1>7, <3>3, <4>1 DEF Failed, Closed, Breaker
      <4>3. ~br'.probing
        BY <1>1, <1>7, <3>3, <4>1 DEF Failed, Closed, Breaker, Counted
      <4> QED BY <1>1, <1>7, <4>1, <4>2, <4>3 DEF Left
    <3> QED BY <3>1, <3>2, <3>3
  <2> QED BY <1>3, <2>2, <2>3 DEF End, Undialled
<1>4. CASE Tick
  <2>1. /\ (br'.open <=> br.open) /\ (br'.probing <=> br.probing)
        /\ (br.open => br'.opened = Older(br.opened))
        /\ (br.probing => br'.probe = Older(br.probe))
        /\ quiet' = Older(quiet)
    BY <1>1, <1>7, <1>4 DEF Tick, Breaker
  <2>2. \A x, y \in Ages : x >= y => Older(x) >= Older(y)
    BY BreakerAssumption DEF Ages, Older
  <2> QED BY <1>1, <1>7, <2>1, <2>2 DEF Left
<1>5. CASE Flush
  BY <1>1, <1>7, <1>5 DEF Flush, Left
<1>6. CASE Crash
  BY <1>7, <1>6 DEF Crash, Left
<1> QED BY <1>2, <1>3, <1>4, <1>5, <1>6 DEF Next

\* A dependency that is down is left alone (runtime/breaker.rs, gate): while
\* the circuit is open at most one call per cooldown goes out, for any
\* number of callers, whatever outcomes arrive late and whatever probes are lost.
THEOREM LeftAlone == Spec => OneCallPerCooldown
<1>1. Init => QuietInv
  <2>1. ASSUME Init PROVE Left
    BY <2>1 DEF Init, Closed, Left
  <2> QED BY <2>1, CountInit DEF QuietInv
<1>2. QuietInv /\ [Next]_vars => QuietInv'
  BY QuietStep
<1>3. QuietInv /\ [Next]_vars =>
        [\A a \in Attempts :
            ~lost /\ br.open /\ flight[a] = "idle" /\ flight'[a] # "idle" => quiet >= Cooldown]_vars
  <2> SUFFICES ASSUME QuietInv, Next, NEW a \in Attempts,
                      ~lost, br.open, flight[a] = "idle", flight'[a] # "idle"
               PROVE  quiet >= Cooldown
    OBVIOUS
  <2>1. /\ TypeOK /\ br \in Breaker /\ quiet \in Nat /\ Cooldown \in Nat
        /\ br.opened \in Nat /\ br.probe \in Nat
    BY BreakerAssumption DEF QuietInv, CountInv, TypeOK, Breaker, Ages
  <2>2. \E b \in Attempts : Probe(b)
    BY <2>1 DEF Next, Try, End, Undialled, Proceed, FastFail, Succeed, Fail, Abandon, Tick, Flush,
                Crash, Gate, vars, TypeOK
  <2>3. Gate = "probe"
    BY <2>2 DEF Probe
  <2>4. ~(br.opened < Cooldown) /\ ~(br.probing /\ br.probe < Cooldown)
    BY <2>3 DEF Gate
  <2> QED BY <2>1, <2>4 DEF QuietInv, Left
<1> QED BY <1>1, <1>2, <1>3, PTL DEF Spec, OneCallPerCooldown
=============================================================================
