--------------------------- MODULE WorkersProofs ----------------------------
(***************************************************************************)
(* Proofs about turn workers and the budget governor, for every set of     *)
(* units, every estimate, window and tactic, and any number of lives.      *)
(***************************************************************************)
EXTENDS Workers, SequenceLemmas, TLAPS

---------------------------------------------------------------------------
(* The inductive invariant.                                                *)

Messages == Units \X (Frames \cup {"reaped"}) \X Nat
Obituary(u) == <<u, "reaped", 0>>
Flags == settled \cup cancelled \cup parked

\* A unit with no process has left no trace in this life.
Unstarted(u) ==
  /\ pipe[u] = <<>> /\ wrote[u] = "none" /\ folds[u] = 0
  /\ u \notin table \cup Flags \cup deferred \cup owned
  /\ mode # "down" => u \notin reserved

\* What holds of a unit in every mode.
Accounted(u) ==
  /\ proc[u] = "none" => Unstarted(u)
  /\ proc[u] \in {"runs", "dead"} => u \in table
  /\ u \in Flags => u \in table
  /\ u \in settled => /\ wrote[u] # "none"
                      /\ kind[u] = "root" => u \notin reserved
                      /\ kind[u] = "step" /\ u \notin parked => u \notin owned
  /\ u \in table /\ folds[u] # 0 => u \in settled
  /\ folds[u] <= 1
  /\ outcome[u] = "failed" => /\ wrote[u] # "done"
                              /\ proc[u] = "runs" => wrote[u] # "none"

\* An event of the queue belongs to a child of the table; a frame is the one
\* its worker wrote, not acted on yet, and nothing of it is left in the pipe.
EventOK(x) ==
  /\ x[1] \in table
  /\ x[2] = "reaped" => proc[x[1]] = "gone" /\ x[3] = 0
  /\ x[2] # "reaped" => /\ wrote[x[1]] = x[2] /\ x[1] \notin settled
                        /\ pipe[x[1]] = <<>>

\* One frame and one death of a unit at most, and the death of a child whose
\* reader was joined comes after everything the child wrote.
Orderly(q, joined) ==
  \A i, j \in 1..Len(q) :
    q[i][1] = q[j][1] =>
      /\ (q[i][2] = "reaped" <=> q[j][2] = "reaped") => i = j
      /\ q[i][2] = "reaped" /\ q[i][1] \in joined => j <= i

\* What holds of a unit while the reactor takes events.
Watched(u) ==
  /\ u \in table => proc[u] \in {"runs", "dead"} \/ Obituary(u) \in Range(queue)
  /\ pipe[u] # <<>> => /\ u \in table /\ u \notin settled \cup deferred
                       /\ wrote[u] = pipe[u][1][2]
  /\ u \in table /\ wrote[u] # "none" =>
       \/ u \in settled \/ pipe[u] # <<>>
       \/ \E x \in Range(queue) : x[1] = u /\ x[2] # "reaped"
  /\ u \in deferred => u \in table /\ proc[u] = "gone"
  /\ u \in reserved /\ kind[u] = "root" => u \in table

AllAccounted == \A u \in Units : Accounted(u)
DownMeansGone == mode = "down" => queue = <<>> /\ \A u \in Units : proc[u] = "none"
QueueServed == Serving => /\ \A x \in Range(queue) : EventOK(x)
                          /\ Orderly(queue, deferred)
                          /\ \A u \in Units : Watched(u)

WInv == TypeOK /\ AllAccounted /\ DownMeansGone /\ QueueServed
---------------------------------------------------------------------------
(* The event queue.                                                        *)

\* What a queue holds, by position.
LEMMA InRange ==
  ASSUME NEW S, NEW q \in Seq(S), NEW x
  PROVE  x \in Range(q) <=> \E i \in 1..Len(q) : q[i] = x
BY RangeEquality

\* Taking the head keeps the order.
LEMMA TailOrderly ==
  ASSUME NEW S, NEW q \in Seq(S), q # <<>>, NEW J, Orderly(q, J)
  PROVE  Orderly(Tail(q), J)
<1>1. /\ Len(Tail(q)) = Len(q) - 1 /\ Len(q) \in Nat
      /\ \A i \in 1..Len(Tail(q)) : Tail(q)[i] = q[i + 1]
  BY HeadTailProperties, LenProperties
<1> SUFFICES ASSUME NEW i \in 1..Len(Tail(q)), NEW j \in 1..Len(Tail(q)),
                    Tail(q)[i][1] = Tail(q)[j][1]
             PROVE  /\ (Tail(q)[i][2] = "reaped" <=> Tail(q)[j][2] = "reaped") => i = j
                    /\ Tail(q)[i][2] = "reaped" /\ Tail(q)[i][1] \in J => j <= i
  BY DEF Orderly
<1>2. i + 1 \in 1..Len(q) /\ j + 1 \in 1..Len(q)
  BY <1>1
<1>3. Tail(q)[i] = q[i + 1] /\ Tail(q)[j] = q[j + 1]
  BY <1>1
<1>4. /\ (q[i + 1][2] = "reaped" <=> q[j + 1][2] = "reaped") => i + 1 = j + 1
      /\ q[i + 1][2] = "reaped" /\ q[i + 1][1] \in J => j + 1 <= i + 1
  BY <1>2, <1>3 DEF Orderly
<1> QED BY <1>1, <1>3, <1>4

\* Behind a death at the head is at most the frame the child wrote, and
\* nothing when its reader was joined; behind a frame is at most the death.
LEMMA HeadOrderly ==
  ASSUME NEW S, NEW q \in Seq(S), q # <<>>, NEW J, Orderly(q, J),
         NEW x \in Range(Tail(q)), x[1] = Head(q)[1]
  PROVE  /\ Head(q)[2] = "reaped" => x[2] # "reaped" /\ x[1] \notin J
         /\ Head(q)[2] # "reaped" => x[2] = "reaped"
<1>1. /\ Tail(q) \in Seq(S) /\ Len(Tail(q)) = Len(q) - 1 /\ Len(q) \in Nat
      /\ \A i \in 1..Len(Tail(q)) : Tail(q)[i] = q[i + 1]
  BY HeadTailProperties, LenProperties
<1>2. PICK i \in 1..Len(Tail(q)) : Tail(q)[i] = x
  BY <1>1, InRange
<1>3. i + 1 \in 1..Len(q) /\ 1 \in 1..Len(q) /\ q[i + 1] = x /\ q[1] = Head(q)
  BY <1>1, <1>2
<1>4. /\ (q[1][2] = "reaped" <=> q[i + 1][2] = "reaped") => 1 = i + 1
      /\ q[1][2] = "reaped" /\ q[1][1] \in J => i + 1 <= 1
  BY <1>3 DEF Orderly
<1>5. i + 1 # 1 /\ ~(i + 1 <= 1)
  BY <1>1, <1>2
<1> QED BY <1>3, <1>4, <1>5

\* A frame joins a queue that has none of its unit, before the reader is joined.
LEMMA AppendFrame ==
  ASSUME NEW S, NEW q \in Seq(S), NEW x \in S, NEW J, Orderly(q, J),
         x[2] # "reaped", x[1] \notin J,
         \A y \in Range(q) : y[1] = x[1] => y[2] = "reaped"
  PROVE  Orderly(Append(q, x), J)
<1>1. /\ Len(Append(q, x)) = Len(q) + 1 /\ Len(q) \in Nat
      /\ \A i \in 1..Len(q) : Append(q, x)[i] = q[i]
      /\ Append(q, x)[Len(q) + 1] = x
  BY AppendProperties, LenProperties
<1>2. \A i \in 1..Len(q) : q[i] \in Range(q)
  BY InRange
<1> DEFINE p == Append(q, x)
<1> HIDE DEF p
<1> SUFFICES ASSUME NEW i \in 1..Len(p), NEW j \in 1..Len(p), p[i][1] = p[j][1]
             PROVE  /\ (p[i][2] = "reaped" <=> p[j][2] = "reaped") => i = j
                    /\ p[i][2] = "reaped" /\ p[i][1] \in J => j <= i
  BY DEF Orderly, p
<1>3. (i \in 1..Len(q) \/ i = Len(q) + 1) /\ (j \in 1..Len(q) \/ j = Len(q) + 1)
  BY <1>1 DEF p
<1>4. CASE i \in 1..Len(q) /\ j \in 1..Len(q)
  BY <1>1, <1>4 DEF Orderly, p
<1>5. CASE i = Len(q) + 1 /\ j \in 1..Len(q)
  BY <1>1, <1>2, <1>5 DEF p
<1>6. CASE i \in 1..Len(q) /\ j = Len(q) + 1
  BY <1>1, <1>2, <1>6 DEF p
<1>7. CASE i = Len(q) + 1 /\ j = Len(q) + 1
  BY <1>1, <1>7 DEF p
<1> QED BY <1>3, <1>4, <1>5, <1>6, <1>7

\* A death joins a queue that has none of its unit; from then on its reader
\* may be joined.
LEMMA AppendDeath ==
  ASSUME NEW S, NEW q \in Seq(S), NEW x \in S, NEW J, Orderly(q, J),
         x[2] = "reaped", \A y \in Range(q) : y[1] = x[1] => y[2] # "reaped"
  PROVE  Orderly(Append(q, x), J \cup {x[1]})
<1>1. /\ Len(Append(q, x)) = Len(q) + 1 /\ Len(q) \in Nat
      /\ \A i \in 1..Len(q) : Append(q, x)[i] = q[i]
      /\ Append(q, x)[Len(q) + 1] = x
  BY AppendProperties, LenProperties
<1>2. \A i \in 1..Len(q) : q[i] \in Range(q)
  BY InRange
<1> DEFINE p == Append(q, x)
<1> HIDE DEF p
<1> SUFFICES ASSUME NEW i \in 1..Len(p), NEW j \in 1..Len(p), p[i][1] = p[j][1]
             PROVE  /\ (p[i][2] = "reaped" <=> p[j][2] = "reaped") => i = j
                    /\ p[i][2] = "reaped" /\ p[i][1] \in J \cup {x[1]} => j <= i
  BY DEF Orderly, p
<1>3. (i \in 1..Len(q) \/ i = Len(q) + 1) /\ (j \in 1..Len(q) \/ j = Len(q) + 1)
  BY <1>1 DEF p
<1>4. CASE i \in 1..Len(q) /\ j \in 1..Len(q)
  BY <1>1, <1>2, <1>4 DEF Orderly, p
<1>5. CASE i = Len(q) + 1 /\ j \in 1..Len(q)
  BY <1>1, <1>2, <1>5 DEF p
<1>6. CASE i \in 1..Len(q) /\ j = Len(q) + 1
  <2>1. p[i] = q[i] /\ p[j] = x /\ q[i] \in Range(q)
    BY <1>1, <1>2, <1>6 DEF p
  <2> QED BY <2>1
<1>7. CASE i = Len(q) + 1 /\ j = Len(q) + 1
  BY <1>1, <1>7 DEF p
<1> QED BY <1>3, <1>4, <1>5, <1>6, <1>7

\* Fewer joined readers ask for less.
LEMMA FewerJoined ==
  ASSUME NEW q, NEW J, NEW K, Orderly(q, J), K \subseteq J
  PROVE  Orderly(q, K)
BY DEF Orderly
---------------------------------------------------------------------------
(* The governor: types, and what happens to reservations.                  *)

\* The subtraction that stops at zero.
LEMMA MonusType ==
  ASSUME NEW a \in Nat, NEW b \in Nat
  PROVE  Monus(a, b) \in Nat /\ Monus(a, b) <= a
BY DEF Monus

\* A window that is rolled is the one the clock is in.
LEMMA RolledType ==
  ASSUME GTypeOK, NEW w \in WindowState
  PROVE  RolledOf(w) \in WindowState /\ RolledOf(w).index = now
BY BudgetAssumption DEF GTypeOK, RolledOf, Fresh, WindowState

\* Reserving a unit.
LEMMA ReserveType ==
  ASSUME GTypeOK, NEW u \in Units, Reserve(u)
  PROVE  GTypeOK' /\ reserved' = reserved \cup {u}
<1>1. Rolled \in WindowState /\ Est[u] \in Nat
  BY RolledType, BudgetAssumption DEF Rolled, GTypeOK
<1>2. win' \in WindowState
  <2> DEFINE w == Rolled
  <2>1. w \in WindowState /\ w.reserved + Est[u] \in Nat /\ w.requests + 1 \in Nat
    BY <1>1 DEF WindowState
  <2>2. win' = [w EXCEPT !.reserved = w.reserved + Est[u], !.requests = w.requests + 1]
    BY DEF Reserve
  <2> HIDE DEF w
  <2> QED BY <2>1, <2>2 DEF WindowState
<1>3. foreign' \in BOOLEAN
  BY DEF Reserve
<1>4. madeIn' \in [Units -> 0..MaxIndex]
  BY DEF Reserve, GTypeOK
<1> QED BY <1>2, <1>3, <1>4 DEF Reserve, GTypeOK

\* An admission that reserves nothing.
LEMMA AskType ==
  ASSUME GTypeOK, AskOnly
  PROVE  GTypeOK' /\ reserved' = reserved
<1>1. win' \in WindowState
  BY RolledType DEF Rolled, AskOnly, GTypeOK
<1>2. foreign' \in BOOLEAN
  BY DEF AskOnly
<1> QED BY <1>1, <1>2 DEF AskOnly, GTypeOK

\* A settlement ends the reservation.
LEMMA SettleType ==
  ASSUME GTypeOK, NEW u \in Units, NEW n \in Nat, Settle(u, n)
  PROVE  GTypeOK' /\ reserved' = reserved \ {u}
<1>1. CASE u \in reserved
  <2>0. win.reserved \in Nat /\ win.tokens \in Nat /\ Est[u] \in Nat
    BY BudgetAssumption DEF GTypeOK, WindowState
  <2>6. win.tokens + n \in Nat
    BY <2>0
  <2>1. Monus(win.reserved, Est[u]) \in Nat /\ win.tokens + n \in Nat
    BY <2>0, <2>6, MonusType
  <2>5. win' = [win EXCEPT !.reserved = Monus(win.reserved, Est[u]),
                           !.tokens = win.tokens + n]
    BY <1>1 DEF Settle
  <2>2. win' \in WindowState
    <3>1. win \in WindowState
      BY DEF GTypeOK
    <3> DEFINE m == Monus(win.reserved, Est[u])
               t == win.tokens + n
    <3>2. m \in Nat /\ t \in Nat /\ win' = [win EXCEPT !.reserved = m, !.tokens = t]
      BY <2>1, <2>5
    <3> HIDE DEF m, t
    <3> QED BY <3>1, <3>2 DEF WindowState
  <2>3. foreign' \in BOOLEAN
    BY <1>1 DEF Settle
  <2>4. madeIn' \in [Units -> 0..MaxIndex]
    BY <1>1, BudgetAssumption DEF Settle, GTypeOK
  <2> QED BY <1>1, <2>2, <2>3, <2>4 DEF Settle, GTypeOK
<1>2. CASE u \notin reserved
  BY <1>2 DEF Settle, gvars, GTypeOK
<1> QED BY <1>1, <1>2

\* The same for a release.
LEMMA ReleaseType ==
  ASSUME GTypeOK, NEW u \in Units, Release(u)
  PROVE  GTypeOK' /\ reserved' = reserved \ {u}
<1>1. CASE u \in reserved
  <2>1. Monus(win.reserved, Est[u]) \in Nat /\ Monus(win.requests, 1) \in Nat
    BY MonusType, BudgetAssumption DEF GTypeOK, WindowState
  <2>2. win' \in WindowState
    BY <1>1, <2>1 DEF Release, GTypeOK, WindowState
  <2>3. foreign' \in BOOLEAN
    BY <1>1 DEF Release
  <2>4. madeIn' \in [Units -> 0..MaxIndex]
    BY <1>1, BudgetAssumption DEF Release, GTypeOK
  <2> QED BY <1>1, <2>2, <2>3, <2>4 DEF Release, GTypeOK
<1>2. CASE u \notin reserved
  BY <1>2 DEF Release, gvars, GTypeOK
<1> QED BY <1>1, <1>2

\* A charge reserves nothing.
LEMMA ChargeType ==
  ASSUME GTypeOK, NEW n \in Nat, Charge(n)
  PROVE  GTypeOK' /\ reserved' = reserved
<1>1. Rolled \in WindowState
  BY RolledType DEF Rolled, GTypeOK
<1>2. win' \in WindowState
  BY <1>1 DEF Charge, WindowState
<1>3. foreign' \in BOOLEAN
  BY DEF Charge
<1> QED BY <1>2, <1>3 DEF Charge, GTypeOK

\* Neither do time and the checkpoint.
LEMMA TimeType ==
  ASSUME GTypeOK, Record \/ NextWindow
  PROVE  GTypeOK' /\ reserved' = reserved
<1>1. [win EXCEPT !.reserved = 0] \in WindowState
  BY DEF GTypeOK, WindowState
<1>2. CASE Record
  BY <1>1, <1>2 DEF Record, Recorded, GTypeOK
<1>3. CASE NextWindow
  BY <1>3, BudgetAssumption DEF NextWindow, GTypeOK
<1> QED BY <1>2, <1>3

\* A new process adopts the counters without the reservations.
LEMMA AdoptType ==
  ASSUME GTypeOK, Adopt
  PROVE  GTypeOK' /\ reserved' = {}
<1>1. win' \in WindowState
  BY RolledType DEF Adopt, GTypeOK
<1>2. foreign' \in BOOLEAN
  BY DEF Adopt
<1>3. madeIn' \in [Units -> 0..MaxIndex]
  BY BudgetAssumption DEF Adopt, GTypeOK
<1> QED BY <1>1, <1>2, <1>3 DEF Adopt, GTypeOK
---------------------------------------------------------------------------
(* Types.                                                                  *)

\* What the reader hands over: nothing, or the one frame of its worker.
LEMMA PipeType ==
  ASSUME TypeOK, NEW u \in Units, NEW q \in Seq(Messages)
  PROVE  /\ q \o pipe[u] \in Seq(Messages)
         /\ pipe[u] = <<>> => q \o pipe[u] = q
         /\ pipe[u] # <<>> => /\ pipe[u][1] \in Messages /\ pipe[u][1][1] = u
                              /\ pipe[u][1][2] \in Frames
                              /\ q \o pipe[u] = Append(q, pipe[u][1])
<1>1. CASE pipe[u] = <<>>
  BY <1>1, ConcatEmptySeq
<1>2. CASE pipe[u] # <<>>
  <2>1. PICK f \in Frames, n \in Used : pipe[u] = <<<<u, f, n>>>>
    BY <1>2 DEF TypeOK
  <2>2. /\ <<u, f, n>> \in Messages /\ pipe[u][1] = <<u, f, n>>
    BY <2>1, WorkersAssumption DEF Messages
  <2>3. q \o <<<<u, f, n>>>> = Append(q, <<u, f, n>>)
    BY <2>2, AppendIsConcat
  <2>4. Append(q, <<u, f, n>>) \in Seq(Messages)
    BY <2>2, AppendProperties
  <2> QED BY <1>2, <2>1, <2>2, <2>3, <2>4
<1> QED BY <1>1, <1>2

\* The event at the head of the queue.
LEMMA HeadType ==
  ASSUME TypeOK, queue # <<>>
  PROVE  /\ queue \in Seq(Messages) /\ Head(queue) \in Messages
         /\ Tail(queue) \in Seq(Messages) /\ Head(queue)[3] \in Nat
         /\ Head(queue)[1] \in Units
         /\ Range(queue) = {Head(queue)} \cup Range(Tail(queue))
<1>1. queue \in Seq(Messages)
  BY DEF TypeOK, Messages
<1>2. /\ Head(queue) \in Messages /\ Tail(queue) \in Seq(Messages)
      /\ Range(queue) = {Head(queue)} \cup Range(Tail(queue))
  BY <1>1, TailRange
<1> QED BY <1>1, <1>2 DEF Messages

\* The worker half of the type invariant.
WTypeOK ==
  /\ mode \in {"up", "draining", "forced", "abandoning", "down"}
  /\ life \in 1..MaxLives
  /\ proc \in [Units -> {"none", "runs", "dead", "gone"}]
  /\ DOMAIN pipe = Units
  /\ \A u \in Units : pipe[u] = <<>> \/ \E f \in Frames, n \in Used : pipe[u] = <<<<u, f, n>>>>
  /\ queue \in Seq(Messages)
  /\ table \subseteq Units /\ settled \subseteq Units /\ cancelled \subseteq Units
  /\ parked \subseteq Units /\ deferred \subseteq Units /\ owned \subseteq Units
  /\ outcome \in [Units -> Outcomes]
  /\ wrote \in [Units -> Frames \cup {"none"}]
  /\ folds \in [Units -> Nat]

\* The two halves.
LEMMA TypeHalves == TypeOK <=> GTypeOK /\ kind \in Kinds /\ WTypeOK
BY DEF TypeOK, WTypeOK, Messages

\* Folding in the end of a unit keeps the types.
LEMMA FoldType ==
  ASSUME WTypeOK, NEW u \in Units, NEW o \in Outcomes, Fold(u, o)
  PROVE  /\ outcome' \in [Units -> Outcomes] /\ folds' \in [Units -> Nat]
         /\ owned' \subseteq Units
BY DEF WTypeOK, Fold

\* Parking keeps the types.
LEMMA ParkType ==
  ASSUME WTypeOK, NEW u \in Units, Park(u)
  PROVE  outcome' \in [Units -> Outcomes] /\ folds' \in [Units -> Nat]
BY DEF WTypeOK, Park, Outcomes

\* Every action keeps the governor's types.
LEMMA StepGovernorType ==
  ASSUME TypeOK, Next
  PROVE  GTypeOK'
<1> USE DEF flags, os, ends
<1>0. GTypeOK
  BY DEF TypeOK
<1>1. CASE UNCHANGED gvars
  BY <1>0, <1>1 DEF GTypeOK, gvars
<1>2. ASSUME NEW u \in Units, Launch(u) \/ Refuse(u) \/ Ask(u)
      PROVE  GTypeOK'
  <2>1. Reserve(u) \/ AskOnly \/ UNCHANGED gvars
    BY <1>2 DEF Launch, Refuse, Ask
  <2> QED BY <1>0, <1>1, <2>1, ReserveType, AskType
<1>3. ASSUME NEW u \in Units,
             OnTurnDone(u) \/ OnTurnFailed(u) \/ ParkCancelled(u)
      PROVE  GTypeOK'
  <2>1. Head(queue)[3] \in Nat
    BY <1>3, HeadType DEF OnTurnDone, OnTurnFailed, ParkCancelled, Event
  <2>2. \/ Settle(u, Head(queue)[3]) \/ Charge(Head(queue)[3])
        \/ Release(u) \/ UNCHANGED gvars
    BY <1>3 DEF OnTurnDone, OnTurnFailed, ParkCancelled
  <2> QED BY <1>0, <1>1, <2>1, <2>2, SettleType, ChargeType, ReleaseType
<1>4. ASSUME NEW u \in Units, OnReaped(u) \/ AbandonChild(u)
      PROVE  GTypeOK'
  <2>1. Release(u) \/ UNCHANGED gvars
    BY <1>4 DEF OnReaped, AbandonChild, ParkSilent
  <2> QED BY <1>0, <1>1, <2>1, ReleaseType
<1>5. CASE Exit \/ Tick
  <2>1. Record \/ NextWindow
    BY <1>5 DEF Exit, Tick
  <2> QED BY <1>0, <2>1, TimeType
<1>6. CASE Restart
  BY <1>0, <1>6, AdoptType DEF Restart
<1>7. ASSUME NEW u \in Units,
             EndRun(u) \/ (\E f \in Frames, n \in Used : Write(u, f, n)) \/ Die(u) \/ Read(u)
               \/ Reap(u) \/ DeferReap(u) \/ Unhealthy(u) \/ WarnYoung(u)
      PROVE  UNCHANGED gvars
  BY <1>7 DEF EndRun, Write, Die, Read, Reap, DeferReap, Unhealthy, WarnYoung
<1>8. BeginDrain \/ ForceDrain \/ Abandon \/ Crash => UNCHANGED gvars
  BY DEF BeginDrain, ForceDrain, Abandon, Crash
<1> QED BY <1>1, <1>2, <1>3, <1>4, <1>5, <1>6, <1>7, <1>8 DEF Next, React

\* Every action keeps the workers' types.
LEMMA StepWorkerType ==
  ASSUME TypeOK, Next
  PROVE  WTypeOK'
<1> USE DEF flags, os, ends
<1>0. WTypeOK /\ queue \in Seq(Messages)
  BY TypeHalves DEF WTypeOK
<1>1. ASSUME NEW u \in Units, Launch(u) \/ Refuse(u) \/ EndRun(u) \/ Die(u)
      PROVE  WTypeOK'
  <2>1. CASE Launch(u)
    BY <1>0, <2>1 DEF Launch, WTypeOK
  <2>2. CASE Refuse(u)
    BY <1>0, <2>2 DEF Refuse, WTypeOK, Outcomes
  <2>3. CASE EndRun(u)
    BY <1>0, <2>3 DEF EndRun, WTypeOK, Outcomes
  <2>4. CASE Die(u)
    BY <1>0, <2>4 DEF Die, WTypeOK
  <2> QED BY <1>1, <2>1, <2>2, <2>3, <2>4
<1>2. CASE UNCHANGED wvars
  BY <1>0, <1>2 DEF WTypeOK, wvars
<1>3. ASSUME NEW u \in Units, NEW f \in Frames, NEW n \in Used, Write(u, f, n)
      PROVE  WTypeOK'
  <2>1. DOMAIN pipe' = Units /\ wrote' \in [Units -> Frames \cup {"none"}]
    BY <1>0, <1>3 DEF Write, WTypeOK
  <2>2. \A v \in Units : pipe'[v] = IF v = u THEN <<<<u, f, n>>>> ELSE pipe[v]
    BY <1>0, <1>3 DEF Write, WTypeOK
  <2>3. \A v \in Units :
          pipe'[v] = <<>> \/ \E g \in Frames, k \in Used : pipe'[v] = <<<<v, g, k>>>>
    BY <1>0, <2>2 DEF WTypeOK
  <2> QED BY <1>0, <1>3, <2>1, <2>3 DEF Write, WTypeOK
<1>4. ASSUME NEW u \in Units, Read(u) \/ Reap(u) \/ DeferReap(u)
      PROVE  WTypeOK'
  <2>1. /\ DOMAIN pipe' = Units
        /\ \A v \in Units : pipe'[v] = IF v = u THEN <<>> ELSE pipe[v]
    BY <1>0, <1>4 DEF Read, Reap, DeferReap, WTypeOK
  <2>2. \A v \in Units :
          pipe'[v] = <<>> \/ \E g \in Frames, k \in Used : pipe'[v] = <<<<v, g, k>>>>
    BY <1>0, <2>1 DEF WTypeOK
  <2>3. queue' \in Seq(Messages)
    <3>1. Obituary(u) \in Messages
      BY DEF Obituary, Messages
    <3>2. CASE Read(u)
      BY <1>0, <3>2, PipeType DEF Read
    <3>3. CASE Reap(u)
      BY <1>0, <3>1, <3>3, PipeType, AppendProperties DEF Reap, Obituary
    <3>4. CASE DeferReap(u)
      <4>1. Head(queue) \in Messages /\ Tail(queue) \in Seq(Messages)
        BY <3>4, HeadType DEF DeferReap, Event
      <4> QED BY <3>4, <4>1, PipeType, AppendProperties DEF DeferReap
    <3> QED BY <1>4, <3>2, <3>3, <3>4
  <2>4. /\ proc' \in [Units -> {"none", "runs", "dead", "gone"}] /\ deferred' \subseteq Units
        /\ UNCHANGED <<mode, life, table, settled, cancelled, parked, owned, outcome, wrote,
                       folds>>
    BY <1>0, <1>4 DEF Read, Reap, DeferReap, WTypeOK
  <2> QED BY <1>0, <2>1, <2>2, <2>3, <2>4 DEF WTypeOK
<1>5. ASSUME NEW u \in Units,
             OnTurnDone(u) \/ OnTurnFailed(u) \/ ParkCancelled(u)
      PROVE  WTypeOK'
  <2>1. queue' \in Seq(Messages)
    BY <1>5, HeadType DEF OnTurnDone, OnTurnFailed, ParkCancelled, Event
  <2>2. /\ outcome' \in [Units -> Outcomes] /\ folds' \in [Units -> Nat]
        /\ owned' \subseteq Units
    <3>1. {"done", "failed"} \subseteq Outcomes
      BY DEF Outcomes
    <3>2. CASE OnTurnDone(u)
      <4>1. PICK o \in {"done", "failed"} : Fold(u, o)
        BY <3>2 DEF OnTurnDone
      <4> QED BY <1>0, <3>1, <4>1, FoldType
    <3>3. CASE OnTurnFailed(u)
      BY <1>0, <3>1, <3>3, FoldType DEF OnTurnFailed
    <3>4. CASE ParkCancelled(u)
      BY <1>0, <3>4, ParkType DEF ParkCancelled, WTypeOK
    <3> QED BY <1>5, <3>2, <3>3, <3>4
  <2>3. /\ settled' = settled \cup {u} /\ cancelled' \subseteq cancelled \cup {u}
        /\ UNCHANGED <<mode, life, proc, pipe, table, parked, deferred, wrote>>
    BY <1>5 DEF OnTurnDone, OnTurnFailed, ParkCancelled
  <2> QED BY <1>0, <2>1, <2>2, <2>3 DEF WTypeOK
<1>6. ASSUME NEW u \in Units, OnReaped(u) \/ AbandonChild(u)
      PROVE  WTypeOK'
  <2>1. queue' \in Seq(Messages)
    BY <1>0, <1>6, HeadType DEF OnReaped, AbandonChild, Event
  <2>2. /\ outcome' \in [Units -> Outcomes] /\ folds' \in [Units -> Nat]
        /\ owned' \subseteq Units
    <3>1. "failed" \in Outcomes
      BY DEF Outcomes
    <3>2. ParkSilent(u) \/ Fold(u, "failed") \/ UNCHANGED <<owned, outcome, folds>>
      BY <1>6 DEF OnReaped, AbandonChild
    <3>3. CASE ParkSilent(u)
      BY <1>0, <3>3, ParkType DEF ParkSilent, WTypeOK
    <3>4. CASE Fold(u, "failed")
      BY <1>0, <3>1, <3>4, FoldType
    <3>5. CASE UNCHANGED <<owned, outcome, folds>>
      BY <1>0, <3>5 DEF WTypeOK
    <3> QED BY <3>2, <3>3, <3>4, <3>5
  <2>3. /\ table' \subseteq table /\ settled' \subseteq settled
        /\ cancelled' \subseteq cancelled /\ parked' \subseteq parked
        /\ deferred' \subseteq deferred
        /\ proc' \in [Units -> {"none", "runs", "dead", "gone"}]
        /\ UNCHANGED <<mode, life, pipe, wrote>>
    BY <1>0, <1>6 DEF OnReaped, AbandonChild, Forget, WTypeOK
  <2> QED BY <1>0, <2>1, <2>2, <2>3 DEF WTypeOK
<1>7. ASSUME NEW u \in Units, Unhealthy(u) \/ WarnYoung(u)
      PROVE  WTypeOK'
  <2>1. Obituary(u) \in Messages
    BY DEF Obituary, Messages
  <2>2. queue' \in Seq(Messages)
    <3>1. queue' = queue \/ queue' = Append(queue, Obituary(u))
      BY <1>7 DEF Unhealthy, WarnYoung, Obituary
    <3> QED BY <1>0, <2>1, <3>1, AppendProperties
  <2>3. proc' \in [Units -> {"none", "runs", "dead", "gone"}] /\ cancelled' \subseteq Units
        /\ UNCHANGED <<mode, life, pipe, table, settled, parked, deferred, owned, outcome,
                       wrote, folds>>
    BY <1>0, <1>7 DEF Unhealthy, WarnYoung, WTypeOK
  <2> QED BY <1>0, <2>2, <2>3 DEF WTypeOK
<1>8. CASE BeginDrain \/ ForceDrain \/ Abandon
  <2>1. CASE BeginDrain \/ Abandon
    BY <1>0, <2>1 DEF BeginDrain, Abandon, WTypeOK
  <2>2. CASE ForceDrain
    BY <1>0, <2>2 DEF ForceDrain, WTypeOK
  <2> QED BY <1>8, <2>1, <2>2
<1>9. CASE Exit \/ Crash
  <2>1. Gone /\ mode' = "down" /\ UNCHANGED <<life, outcome>>
    BY <1>9 DEF Exit, Crash
  <2>2. queue' \in Seq(Messages)
    BY <2>1, EmptySeq DEF Gone
  <2> QED BY <1>0, <2>1, <2>2 DEF Gone, WTypeOK
<1>10. CASE Restart
  <2>1. life' \in 1..MaxLives
    BY <1>0, <1>10, WorkersAssumption DEF Restart, WTypeOK
  <2>2. outcome' \in [Units -> Outcomes]
    BY <1>0, <1>10 DEF Restart, WTypeOK, Outcomes
  <2> QED BY <1>0, <1>10, <2>1, <2>2 DEF Restart, WTypeOK
<1>11. \A u \in Units : Ask(u) => UNCHANGED wvars
  BY DEF Ask
<1>12. Tick => UNCHANGED wvars
  BY DEF Tick
<1> QED BY <1>1, <1>2, <1>3, <1>4, <1>5, <1>6, <1>7, <1>8, <1>9, <1>10, <1>11, <1>12
        DEF Next, React

\* Every action keeps the types.
LEMMA StepType ==
  ASSUME TypeOK, Next
  PROVE  TypeOK' /\ kind' = kind
<1>1. kind' = kind /\ kind \in Kinds
  BY DEF Next, TypeOK
<1>2. TypeOK' <=> GTypeOK' /\ kind' \in Kinds /\ WTypeOK'
  BY TypeHalves DEF TypeOK, WTypeOK, Messages
<1> QED BY <1>1, <1>2, StepGovernorType, StepWorkerType
---------------------------------------------------------------------------
(* A step concerns one unit; the others are as they were.                  *)

SameAt(v) ==
  /\ proc'[v] = proc[v] /\ pipe'[v] = pipe[v] /\ wrote'[v] = wrote[v]
  /\ folds'[v] = folds[v] /\ outcome'[v] = outcome[v] /\ kind'[v] = kind[v]
  /\ v \in table' <=> v \in table
  /\ v \in settled' <=> v \in settled
  /\ v \in cancelled' <=> v \in cancelled
  /\ v \in parked' <=> v \in parked
  /\ v \in deferred' <=> v \in deferred
  /\ v \in owned' <=> v \in owned
  /\ v \in reserved' => v \in reserved

\* A unit the step does not concern stays accounted for ...
LEMMA SameAccounted ==
  ASSUME NEW v, Accounted(v), SameAt(v), mode = "down" => mode' = "down"
  PROVE  Accounted(v)'
BY DEF Accounted, Unstarted, Flags, SameAt

\* ... and watched, when its events stay in the queue ...
LEMMA SameWatched ==
  ASSUME NEW v, Watched(v), SameAt(v),
         \A x \in Range(queue) : x[1] = v => x \in Range(queue')
  PROVE  Watched(v)'
BY DEF Watched, SameAt, Obituary

\* ... and its events are what they were.
LEMMA SameEvent ==
  ASSUME NEW x, EventOK(x), SameAt(x[1])
  PROVE  EventOK(x)'
BY DEF EventOK, SameAt

\* What an action has to show.
Kept == AllAccounted' /\ QueueServed'

\* Steps that leave the queue alone and touch one unit.
LEMMA OneUnit ==
  ASSUME AllAccounted, QueueServed, NEW u \in Units,
         \A v \in Units \ {u} : SameAt(v), mode = "down" => mode' = "down",
         Serving' => Serving, queue' = queue, queue \in Seq(Messages),
         deferred' = deferred, Accounted(u)',
         Serving => Watched(u)' /\ \A x \in Range(queue) : x[1] = u => EventOK(x)'
  PROVE  Kept
<1>1. AllAccounted'
  BY SameAccounted DEF AllAccounted
<1>2. ASSUME Serving' PROVE QueueServed'
  <2>1. Serving
    BY <1>2
  <2>2. \A x \in Range(queue) : x[1] \in Units
    BY RangeType DEF Messages
  <2>3. \A x \in Range(queue') : EventOK(x)'
    BY <2>1, <2>2, SameEvent DEF QueueServed
  <2>4. Orderly(queue', deferred')
    BY <2>1 DEF QueueServed
  <2>5. \A v \in Units : Watched(v)'
    BY <2>1, SameWatched DEF QueueServed
  <2> QED BY <2>3, <2>4, <2>5 DEF QueueServed
<1> QED BY <1>1, <1>2 DEF Kept, QueueServed

---------------------------------------------------------------------------
(* One lemma per action.                                                   *)

\* A unit is admitted and spawned.
LEMMA LaunchKeeps ==
  ASSUME WInv, kind' = kind, NEW u \in Units, Launch(u)
  PROVE  Kept
<1> USE DEF flags, os, ends
<1>0. WTypeOK /\ AllAccounted /\ QueueServed /\ GTypeOK
  BY TypeHalves DEF WInv
<1>1. reserved' \subseteq reserved \cup {u}
  BY <1>0, ReserveType DEF Launch, gvars
<1>2. \A v \in Units \ {u} : SameAt(v)
  BY <1>0, <1>1 DEF Launch, SameAt, WTypeOK
<1>3. /\ proc[u] = "none" /\ outcome[u] = "none" /\ mode = "up" /\ Serving
      /\ Unstarted(u)
  BY <1>0 DEF Launch, Idle, AllAccounted, Accounted, Serving
<1>4. /\ proc'[u] = "runs" /\ u \in table' /\ mode' = mode /\ Serving'
      /\ UNCHANGED <<pipe, wrote, folds, outcome, settled, cancelled, parked, deferred, queue>>
  BY <1>0, <1>3 DEF Launch, WTypeOK, Serving
<1>5. Accounted(u)'
  BY <1>3, <1>4 DEF Accounted, Unstarted, Flags
<1>6. Watched(u)'
  BY <1>3, <1>4 DEF Watched, Unstarted
<1>7. \A x \in Range(queue) : x[1] # u
  BY <1>0, <1>3 DEF QueueServed, EventOK, Unstarted
<1> QED BY <1>0, <1>2, <1>3, <1>4, <1>5, <1>6, <1>7, OneUnit DEF WTypeOK

\* A unit is not run, ...
LEMMA RefuseKeeps ==
  ASSUME WInv, kind' = kind, NEW u \in Units, Refuse(u)
  PROVE  Kept
<1> USE DEF flags, os, ends
<1>0. WTypeOK /\ AllAccounted /\ QueueServed /\ GTypeOK
  BY TypeHalves DEF WInv
<1>1. reserved' = reserved
  BY <1>0, AskType DEF Refuse, gvars
<1>2. \A v \in Units \ {u} : SameAt(v)
  BY <1>0, <1>1 DEF Refuse, SameAt, WTypeOK
<1>3. /\ outcome'[u] = "refused" /\ Serving /\ Serving'
      /\ UNCHANGED <<proc, pipe, wrote, folds, settled, cancelled, parked, deferred, queue,
                     mode, table, owned, reserved>>
  BY <1>0, <1>1 DEF Refuse, Idle, WTypeOK, Serving
<1>4. Accounted(u)'
  BY <1>0, <1>3 DEF AllAccounted, Accounted, Unstarted, Flags
<1>5. Watched(u)' /\ \A x \in Range(queue) : x[1] = u => EventOK(x)'
  BY <1>0, <1>3 DEF QueueServed, Watched, EventOK
<1> QED BY <1>0, <1>2, <1>3, <1>4, <1>5, OneUnit DEF WTypeOK

\* ... or asks, or time passes: only the counters change.
LEMMA CountersKeep ==
  ASSUME WInv, kind' = kind, UNCHANGED wvars, reserved' = reserved
  PROVE  Kept
<1>0. AllAccounted /\ QueueServed
  BY DEF WInv
<1>1. AllAccounted'
  BY <1>0 DEF wvars, AllAccounted, Accounted, Unstarted, Flags
<1>2. Serving' = Serving
  BY DEF wvars, Serving
<1>3. Serving => (\A x \in Range(queue) : EventOK(x)') /\ \A v \in Units : Watched(v)'
  BY <1>0 DEF wvars, QueueServed, EventOK, Watched
<1> QED BY <1>0, <1>1, <1>2, <1>3 DEF wvars, Kept, QueueServed

\* The worker writes its frame.
LEMMA WriteKeeps ==
  ASSUME WInv, kind' = kind, NEW u \in Units, NEW f \in Frames, NEW n \in Used,
         Write(u, f, n)
  PROVE  Kept
<1> USE DEF flags, os, ends
<1>0. WTypeOK /\ AllAccounted /\ QueueServed /\ GTypeOK
  BY TypeHalves DEF WInv
<1>1. /\ \A v \in Units \ {u} : SameAt(v)
  BY <1>0 DEF Write, SameAt, WTypeOK, gvars
<1>2. /\ proc[u] = "runs" /\ wrote[u] = "none" /\ mode # "down"
      /\ pipe'[u] = <<<<u, f, n>>>> /\ wrote'[u] = f /\ f # "none" /\ f \in Frames
      /\ UNCHANGED <<proc, folds, outcome, settled, cancelled, parked, deferred, queue,
                     mode, table, owned, reserved>>
  BY <1>0 DEF Write, WTypeOK, gvars, Frames
<1>3. Accounted(u)
  BY <1>0 DEF AllAccounted
<1>4. u \in table /\ u \notin settled /\ outcome[u] # "failed"
  BY <1>2, <1>3 DEF Accounted
<1>5. Accounted(u)'
  BY <1>2, <1>3, <1>4 DEF Accounted, Flags
<1>6. ASSUME Serving PROVE Watched(u)' /\ \A x \in Range(queue) : x[1] # u
  <2>1. Watched(u) /\ \A x \in Range(queue) : EventOK(x)
    BY <1>0, <1>6 DEF QueueServed
  <2>2. Watched(u)'
    BY <1>2, <1>4, <2>1 DEF Watched
  <2>3. \A x \in Range(queue) : x[2] # "reaped" => x[2] # "none"
    <3>1. Range(queue) \subseteq Messages
      BY <1>0, RangeType DEF WTypeOK
    <3> QED BY <3>1 DEF Messages, Frames
  <2>4. \A x \in Range(queue) : x[1] # u
    BY <1>2, <2>1, <2>3 DEF EventOK
  <2> QED BY <2>2, <2>4
<1> QED BY <1>0, <1>1, <1>2, <1>5, <1>6, OneUnit DEF WTypeOK, Serving

\* The worker dies.
LEMMA DieKeeps ==
  ASSUME WInv, kind' = kind, NEW u \in Units, Die(u)
  PROVE  Kept
<1> USE DEF flags, os, ends
<1>0. WTypeOK /\ AllAccounted /\ QueueServed /\ GTypeOK
  BY TypeHalves DEF WInv
<1>1. /\ \A v \in Units \ {u} : SameAt(v)
  BY <1>0 DEF Die, SameAt, WTypeOK, gvars
<1>2. /\ proc[u] = "runs" /\ proc'[u] = "dead" /\ mode # "down"
      /\ UNCHANGED <<pipe, wrote, folds, outcome, settled, cancelled, parked, deferred, queue,
                     mode, table, owned, reserved>>
  BY <1>0 DEF Die, WTypeOK, gvars
<1>3. Accounted(u)'
  BY <1>0, <1>2 DEF AllAccounted, Accounted, Flags
<1>4. ASSUME Serving PROVE Watched(u)' /\ \A x \in Range(queue) : x[1] = u => EventOK(x)'
  BY <1>0, <1>2, <1>4 DEF QueueServed, Watched, EventOK
<1> QED BY <1>0, <1>1, <1>2, <1>3, <1>4, OneUnit DEF WTypeOK, Serving

\* Steps that take events of one unit from the queue, or put some there.
LEMMA OneUnitEvents ==
  ASSUME AllAccounted, QueueServed, NEW u \in Units,
         \A v \in Units \ {u} : SameAt(v), mode' = mode,
         queue \in Seq(Messages), queue' \in Seq(Messages), Accounted(u)',
         Serving => /\ Orderly(queue', deferred') /\ Watched(u)'
                    /\ \A x \in Range(queue) : x[1] # u => x \in Range(queue')
                    /\ \A x \in Range(queue') : x[1] # u => x \in Range(queue)
                    /\ \A x \in Range(queue') : x[1] = u => EventOK(x)'
  PROVE  Kept
<1>1. AllAccounted'
  BY SameAccounted DEF AllAccounted
<1>2. ASSUME Serving' PROVE QueueServed'
  <2>1. Serving
    BY <1>2 DEF Serving
  <2>2. \A x \in Range(queue') : x[1] \in Units
    BY RangeType DEF Messages
  <2>3. \A x \in Range(queue') : EventOK(x)'
    BY <2>1, <2>2, SameEvent DEF QueueServed
  <2>4. \A v \in Units : Watched(v)'
    <3> SUFFICES ASSUME NEW v \in Units \ {u} PROVE Watched(v)'
      BY <2>1
    <3>1. Watched(v) /\ SameAt(v)
      BY <2>1 DEF QueueServed
    <3>2. \A x \in Range(queue) : x[1] = v => x \in Range(queue')
      BY <2>1
    <3> QED BY <3>1, <3>2, SameWatched
  <2> QED BY <2>1, <2>3, <2>4 DEF QueueServed
<1> QED BY <1>1, <1>2 DEF Kept, QueueServed

\* A frame in a pipe: the reactor has seen nothing of it yet.
LEMMA PipeFrame ==
  ASSUME WInv, NEW u \in Units, Serving, pipe[u] # <<>>
  PROVE  /\ u \in table /\ u \notin settled \cup deferred
         /\ wrote[u] = pipe[u][1][2] /\ wrote[u] # "none" /\ wrote[u] # "reaped"
         /\ pipe[u][1] \in Messages /\ pipe[u][1][1] = u /\ pipe[u][1][2] # "reaped"
         /\ \A x \in Range(queue) : x[1] = u => x[2] = "reaped"
<1>0. TypeOK /\ QueueServed /\ queue \in Seq(Messages)
  BY DEF WInv, TypeOK, Messages
<1>1. Watched(u) /\ \A x \in Range(queue) : EventOK(x)
  BY <1>0 DEF QueueServed
<1>2. pipe[u][1] \in Messages /\ pipe[u][1][1] = u /\ pipe[u][1][2] \in Frames
  BY <1>0, PipeType
<1>3. \A f \in Frames : f # "none" /\ f # "reaped"
  BY DEF Frames
<1> QED BY <1>1, <1>2, <1>3 DEF Watched, EventOK

\* The reader hands the frame over.
LEMMA ReadKeeps ==
  ASSUME WInv, kind' = kind, NEW u \in Units, Read(u)
  PROVE  Kept
<1> USE DEF flags, os, ends
<1>0. TypeOK /\ WTypeOK /\ AllAccounted /\ QueueServed
  BY TypeHalves DEF WInv
<1>1. \A v \in Units \ {u} : SameAt(v)
  BY <1>0 DEF Read, SameAt, WTypeOK, gvars
<1>2. /\ pipe[u] # <<>> /\ pipe'[u] = <<>> /\ queue' = queue \o pipe[u]
      /\ UNCHANGED <<proc, wrote, folds, outcome, settled, cancelled, parked, deferred,
                     mode, table, owned, reserved>>
  BY <1>0 DEF Read, WTypeOK, gvars
<1>3. PICK m : m = pipe[u][1]
  OBVIOUS
<1>4. /\ queue \in Seq(Messages) /\ queue' \in Seq(Messages) /\ m \in Messages
      /\ queue' = Append(queue, m) /\ m[1] = u
  BY <1>0, <1>2, <1>3, PipeType DEF WTypeOK
<1>5. Accounted(u)'
  BY <1>0, <1>2 DEF AllAccounted, Accounted, Unstarted, Flags
<1>6. Range(queue') = Range(queue) \cup {m}
  BY <1>4, AppendRange
<1>7. ASSUME Serving
      PROVE  /\ Orderly(queue', deferred') /\ Watched(u)'
             /\ \A y \in Range(queue') : y[1] = u => EventOK(y)'
  <2>1. /\ u \in table /\ u \notin settled \cup deferred
        /\ wrote[u] = m[2] /\ m[2] # "reaped"
        /\ \A y \in Range(queue) : y[1] = u => y[2] = "reaped"
    BY <1>2, <1>3, <1>7, PipeFrame
  <2>2. Orderly(queue, deferred) /\ Watched(u) /\ \A y \in Range(queue) : EventOK(y)
    BY <1>0, <1>7 DEF QueueServed
  <2>3. Orderly(queue', deferred')
    BY <1>2, <1>4, <2>1, <2>2, AppendFrame
  <2>4. EventOK(m)' /\ \A y \in Range(queue) : y[1] = u => EventOK(y)'
    BY <1>2, <1>4, <2>1, <2>2 DEF EventOK
  <2>5. Watched(u)'
    BY <1>2, <1>4, <1>6, <2>1, <2>2 DEF Watched
  <2> QED BY <1>6, <2>3, <2>4, <2>5
<1> QED BY <1>0, <1>1, <1>2, <1>4, <1>5, <1>6, <1>7, OneUnitEvents

\* A frame at the head is acted on: its worker is settled, at most one fold.
LEMMA FrameTaken ==
  ASSUME WInv, kind' = kind, NEW u \in Units, Serving,
         queue # <<>>, Head(queue)[1] = u, Head(queue)[2] # "reaped",
         queue' = Tail(queue), settled' = settled \cup {u},
         UNCHANGED <<mode, proc, pipe, table, deferred, wrote>>,
         \A v \in Units \ {u} : SameAt(v), cancelled' \subseteq cancelled \cup {u},
         parked' = parked, kind[u] = "root" => u \notin reserved',
         u \notin reserved => u \notin reserved',
         kind[u] = "step" /\ u \notin parked => u \notin owned',
         u \notin owned => u \notin owned',
         folds'[u] = folds[u] \/ folds'[u] = folds[u] + 1,
         outcome'[u] = "failed" => outcome[u] = "failed" \/ Head(queue)[2] # "done"
  PROVE  Kept
<1>0. TypeOK /\ WTypeOK /\ AllAccounted /\ QueueServed /\ queue \in Seq(Messages)
  BY TypeHalves DEF WInv, WTypeOK
<1>1. /\ Tail(queue) \in Seq(Messages) /\ Head(queue) \in Messages
      /\ Range(queue) = {Head(queue)} \cup Range(Tail(queue))
  BY <1>0, HeadType
<1>2. /\ Orderly(queue, deferred) /\ Watched(u) /\ EventOK(Head(queue))
      /\ \A x \in Range(queue) : EventOK(x)
  BY <1>0, <1>1 DEF QueueServed
<1>3. PICK m : m = Head(queue)
  OBVIOUS
<1>4. u \in table /\ u \notin settled /\ wrote[u] = m[2] /\ pipe[u] = <<>>
  BY <1>2, <1>3 DEF EventOK
<1>5. m[2] # "none"
  <2>1. m[2] \in Frames \cup {"reaped"}
    BY <1>1, <1>3 DEF Messages
  <2> QED BY <2>1 DEF Frames
<1>6. Accounted(u) /\ folds[u] \in Nat
  BY <1>0 DEF AllAccounted, WTypeOK
<1>7. folds[u] = 0 /\ proc[u] # "none"
  BY <1>4, <1>6 DEF Accounted, Unstarted
<1>8. Accounted(u)'
  <2>1. folds'[u] <= 1 /\ (u \in Flags => u \in table)'
    BY <1>4, <1>7 DEF Flags
  <2>2. (proc[u] = "none" => Unstarted(u))' /\ (proc[u] \in {"runs", "dead"} => u \in table)'
    BY <1>4, <1>7
  <2>3. wrote'[u] # "none" /\ u \in settled'
    BY <1>4, <1>5
  <2>4. (outcome[u] = "failed" => wrote[u] # "done")'
    BY <1>3, <1>4, <1>6 DEF Accounted
  <2>5. /\ (kind[u] = "root" => u \notin reserved)'
        /\ (kind[u] = "step" /\ u \notin parked => u \notin owned)'
    OBVIOUS
  <2> QED BY <2>1, <2>2, <2>3, <2>4, <2>5 DEF Accounted
<1>9. Orderly(queue', deferred')
  BY <1>0, <1>2, TailOrderly
<1>10. \A x \in Range(queue') : x[1] = u => EventOK(x)'
  <2> SUFFICES ASSUME NEW x \in Range(Tail(queue)), x[1] = u PROVE EventOK(x)'
    OBVIOUS
  <2>1. x[2] = "reaped"
    BY <1>0, <1>2, HeadOrderly
  <2> QED BY <1>1, <1>2, <2>1 DEF EventOK
<1>11. Watched(u)'
  <2>1. Obituary(u) \in Range(queue) => Obituary(u) \in Range(queue')
    BY <1>1 DEF Obituary
  <2> QED BY <1>2, <1>4, <2>1 DEF Watched
<1> QED BY <1>0, <1>1, <1>8, <1>9, <1>10, <1>11, OneUnitEvents

\* A frame at the head.
LEMMA FrameAtHead ==
  ASSUME TypeOK, NEW u \in Units, NEW W, Event(u, W), W \subseteq Frames
  PROVE  /\ Serving /\ queue # <<>> /\ Head(queue)[1] = u /\ Head(queue)[2] # "reaped"
         /\ Head(queue)[2] \in W /\ Head(queue)[3] \in Nat
BY HeadType DEF Event, Frames

\* A turn's result is folded in, ...
LEMMA OnTurnDoneKeeps ==
  ASSUME WInv, kind' = kind, NEW u \in Units, OnTurnDone(u)
  PROVE  Kept
<1> USE DEF flags, os, ends
<1>0. TypeOK /\ WTypeOK /\ GTypeOK
  BY TypeHalves DEF WInv
<1>1. /\ Serving /\ queue # <<>> /\ Head(queue)[1] = u /\ Head(queue)[2] # "reaped"
      /\ Head(queue)[3] \in Nat
  BY <1>0, FrameAtHead DEF OnTurnDone, Frames
<1>2. reserved' \subseteq reserved /\ (kind[u] = "root" => u \notin reserved')
  BY <1>0, <1>1, SettleType, ChargeType DEF OnTurnDone, Reserves
<1>3. /\ \A v \in Units \ {u} : outcome'[v] = outcome[v] /\ folds'[v] = folds[v]
      /\ folds'[u] = folds[u] + 1 /\ owned' = owned \ {u}
      /\ outcome'[u] = "failed" => outcome[u] = "failed" \/ Head(queue)[2] # "done"
  BY <1>0 DEF OnTurnDone, Fold, WTypeOK
<1>4. /\ queue' = Tail(queue) /\ settled' = settled \cup {u} /\ parked' = parked
      /\ UNCHANGED <<mode, proc, pipe, table, deferred, wrote, cancelled>>
  BY DEF OnTurnDone
<1>5. \A v \in Units \ {u} : SameAt(v)
  BY <1>2, <1>3, <1>4 DEF SameAt
<1> QED BY <1>1, <1>2, <1>3, <1>4, <1>5, FrameTaken

\* ... or its failure, ...
LEMMA OnTurnFailedKeeps ==
  ASSUME WInv, kind' = kind, NEW u \in Units, OnTurnFailed(u)
  PROVE  Kept
<1> USE DEF flags, os, ends
<1>0. TypeOK /\ WTypeOK /\ GTypeOK
  BY TypeHalves DEF WInv
<1>1. /\ Serving /\ queue # <<>> /\ Head(queue)[1] = u /\ Head(queue)[2] # "reaped"
      /\ Head(queue)[2] = "failed"
  BY <1>0, FrameAtHead DEF OnTurnFailed, Frames
<1>2. reserved' = reserved \ {u}
  BY <1>0, ReleaseType DEF OnTurnFailed
<1>3. /\ \A v \in Units \ {u} : outcome'[v] = outcome[v] /\ folds'[v] = folds[v]
      /\ folds'[u] = folds[u] + 1 /\ owned' = owned \ {u}
  BY <1>0 DEF OnTurnFailed, Fold, WTypeOK
<1>4. /\ queue' = Tail(queue) /\ settled' = settled \cup {u} /\ parked' = parked
      /\ cancelled' = cancelled \cup {u}
      /\ UNCHANGED <<mode, proc, pipe, table, deferred, wrote>>
  BY DEF OnTurnFailed
<1>5. \A v \in Units \ {u} : SameAt(v)
  BY <1>2, <1>3, <1>4 DEF SameAt
<1> QED BY <1>1, <1>2, <1>3, <1>4, <1>5, FrameTaken

\* ... or it is left for the next life.
LEMMA ParkCancelledKeeps ==
  ASSUME WInv, kind' = kind, NEW u \in Units, ParkCancelled(u)
  PROVE  Kept
<1> USE DEF flags, os, ends
<1>0. TypeOK /\ WTypeOK /\ GTypeOK
  BY TypeHalves DEF WInv
<1>1. /\ Serving /\ queue # <<>> /\ Head(queue)[1] = u /\ Head(queue)[2] # "reaped"
      /\ Head(queue)[3] \in Nat /\ u \in parked
  BY <1>0, FrameAtHead DEF ParkCancelled, Frames
<1>2. reserved' \subseteq reserved /\ (kind[u] = "root" => u \notin reserved')
  <2>1. \/ kind[u] # "root" /\ (Charge(Head(queue)[3]) \/ UNCHANGED gvars)
        \/ Settle(u, Head(queue)[3])
    BY DEF ParkCancelled
  <2> QED BY <1>0, <1>1, <2>1, SettleType, ChargeType DEF gvars
<1>3. /\ \A v \in Units \ {u} : outcome'[v] = outcome[v] /\ folds'[v] = folds[v]
      /\ folds'[u] = folds[u] \/ folds'[u] = folds[u] + 1
      /\ outcome'[u] = outcome[u] \/ outcome'[u] = "parked"
  BY <1>0 DEF ParkCancelled, Park, WTypeOK
<1>4. /\ queue' = Tail(queue) /\ settled' = settled \cup {u} /\ parked' = parked
      /\ UNCHANGED <<mode, proc, pipe, table, deferred, wrote, cancelled, owned>>
  BY DEF ParkCancelled
<1>5. \A v \in Units \ {u} : SameAt(v)
  BY <1>2, <1>3, <1>4 DEF SameAt
<1> QED BY <1>1, <1>2, <1>3, <1>4, <1>5, FrameTaken

\* A reader is joined: what the child wrote goes to the queue, its death behind it.
LEMMA DeathQueued ==
  ASSUME WInv, kind' = kind, NEW u \in table, Serving, u \notin deferred,
         NEW q \in Seq(Messages), Orderly(q, deferred),
         \A x \in Range(q) : x \in Range(queue) /\ (x[1] = u => x[2] # "reaped"),
         \A x \in Range(queue) : x \in Range(q) \/ x = Obituary(u),
         queue' = Append(q \o pipe[u], Obituary(u)),
         pipe' = [pipe EXCEPT ![u] = <<>>], deferred' = deferred \cup {u},
         proc'[u] = "gone", \A v \in Units \ {u} : proc'[v] = proc[v],
         UNCHANGED <<mode, table, settled, cancelled, parked, owned, outcome, folds, wrote,
                     reserved>>
  PROVE  Kept
<1>0. TypeOK /\ WTypeOK /\ AllAccounted /\ QueueServed /\ queue \in Seq(Messages) /\ u \in Units
  BY TypeHalves DEF WInv, WTypeOK
<1>1. \A v \in Units \ {u} : SameAt(v)
  BY <1>0 DEF SameAt, WTypeOK
<1>2. PICK r : r = q \o pipe[u]
  OBVIOUS
<1>3. PICK m : m = pipe[u][1]
  OBVIOUS
<1>4. /\ r \in Seq(Messages) /\ (pipe[u] = <<>> => r = q)
      /\ pipe[u] # <<>> => m \in Messages /\ r = Append(q, m)
  BY <1>0, <1>2, <1>3, PipeType
<1>5. /\ Orderly(queue, deferred) /\ Watched(u) /\ \A x \in Range(queue) : EventOK(x)
  BY <1>0 DEF QueueServed
<1>6. pipe[u] # <<>> => /\ u \notin settled /\ wrote[u] = m[2] /\ m[1] = u /\ m[2] # "reaped"
                        /\ \A x \in Range(queue) : x[1] = u => x[2] = "reaped"
  BY <1>0, <1>3, PipeFrame
<1>7. Range(r) = IF pipe[u] = <<>> THEN Range(q) ELSE Range(q) \cup {m}
  <2>1. CASE pipe[u] = <<>>
    BY <1>4, <2>1
  <2>2. CASE pipe[u] # <<>>
    <3>1. m \in Messages /\ r = Append(q, m)
      BY <1>4, <2>2
    <3>2. Range(Append(q, m)) = Range(q) \cup {m}
      BY <3>1, AppendRange
    <3> QED BY <2>2, <3>1, <3>2
  <2> QED BY <2>1, <2>2
<1>8. Orderly(r, deferred)
  <2>1. CASE pipe[u] = <<>>
    BY <1>4, <2>1
  <2>2. CASE pipe[u] # <<>>
    <3>1. m \in Messages /\ r = Append(q, m) /\ m[1] = u /\ m[2] # "reaped"
      BY <1>4, <1>6, <2>2
    <3>2. \A y \in Range(q) : y[1] = m[1] => y[2] = "reaped"
      BY <1>6, <2>2, <3>1
    <3>3. m[1] \notin deferred
      BY <3>1
    <3> QED BY <3>1, <3>2, <3>3, AppendFrame
  <2> QED BY <2>1, <2>2
<1>9. Obituary(u) \in Messages /\ Obituary(u)[1] = u /\ Obituary(u)[2] = "reaped"
      /\ Obituary(u)[3] = 0
  BY <1>0 DEF Obituary, Messages
<1>10. \A x \in Range(r) : x[1] = u => x[2] # "reaped"
  BY <1>6, <1>7
<1>11. Orderly(queue', deferred')
  BY <1>2, <1>4, <1>8, <1>9, <1>10, AppendDeath
<1>12. queue' \in Seq(Messages) /\ Range(queue') = Range(r) \cup {Obituary(u)}
  <2>1. queue' = Append(r, Obituary(u)) /\ r \in Seq(Messages) /\ Obituary(u) \in Messages
    BY <1>2, <1>4, <1>9
  <2>2. /\ Append(r, Obituary(u)) \in Seq(Messages)
        /\ Range(Append(r, Obituary(u))) = Range(r) \cup {Obituary(u)}
    BY <2>1, AppendRange
  <2> QED BY <2>1, <2>2
<1>13. pipe'[u] = <<>>
  BY <1>0 DEF WTypeOK
<1>14. Accounted(u)'
  BY <1>0, <1>13 DEF AllAccounted, Accounted, Unstarted, Flags
<1>15. \A x \in Range(queue') : x[1] = u => EventOK(x)'
  <2> SUFFICES ASSUME NEW x \in Range(queue'), x[1] = u PROVE EventOK(x)'
    OBVIOUS
  <2>1. CASE x = Obituary(u)
    BY <1>9, <2>1 DEF EventOK
  <2>2. CASE x \in Range(q)
    BY <1>5, <1>13, <2>2 DEF EventOK
  <2>3. CASE pipe[u] # <<>> /\ x = m
    BY <1>6, <1>13, <2>3 DEF EventOK
  <2> QED BY <1>7, <1>12, <2>1, <2>2, <2>3
<1>16. Watched(u)'
  <2>1. u \in table /\ Obituary(u) \in Range(queue') /\ pipe'[u] = <<>>
    BY <1>12, <1>13
  <2>2. wrote[u] # "none" => \/ u \in settled
                             \/ \E x \in Range(queue') : x[1] = u /\ x[2] # "reaped"
    <3>1. CASE pipe[u] # <<>>
      BY <1>6, <1>7, <1>12, <3>1
    <3>2. CASE pipe[u] = <<>>
      BY <1>5, <1>7, <1>9, <1>12, <3>2 DEF Watched
    <3> QED BY <3>1, <3>2
  <2> QED BY <2>1, <2>2 DEF Watched
<1> QED BY <1>0, <1>1, <1>7, <1>9, <1>11, <1>12, <1>14, <1>15, <1>16, <1>6, OneUnitEvents

\* The reaper sees a death, ...
LEMMA ReapKeeps ==
  ASSUME WInv, kind' = kind, NEW u \in Units, Reap(u)
  PROVE  Kept
<1> USE DEF flags, os, ends
<1>0. WTypeOK /\ QueueServed /\ queue \in Seq(Messages)
  BY TypeHalves DEF WInv, WTypeOK
<1>1. /\ Serving /\ proc[u] = "dead" /\ u \in table
      /\ queue' = Append(queue \o pipe[u], Obituary(u))
      /\ pipe' = [pipe EXCEPT ![u] = <<>>] /\ deferred' = deferred \cup {u}
      /\ UNCHANGED <<mode, table, settled, cancelled, parked, owned, outcome, folds, wrote,
                     reserved>>
  BY DEF Reap, Obituary, gvars
<1>2. proc'[u] = "gone" /\ \A v \in Units \ {u} : proc'[v] = proc[v]
  BY <1>0 DEF Reap, WTypeOK
<1>3. u \notin deferred /\ Orderly(queue, deferred) /\ \A x \in Range(queue) : EventOK(x)
  BY <1>0, <1>1 DEF QueueServed, Watched
<1>4. \A x \in Range(queue) : x[1] = u => x[2] # "reaped"
  BY <1>1, <1>3 DEF EventOK
<1> QED BY <1>0, <1>1, <1>2, <1>3, <1>4, DeathQueued

\* A death at the head of the queue.
LEMMA DeathAtHead ==
  ASSUME WInv, NEW u \in Units, Event(u, {"reaped"})
  PROVE  /\ Serving /\ queue # <<>> /\ Head(queue) = Obituary(u) /\ u \in table
         /\ proc[u] = "gone"
         /\ Tail(queue) \in Seq(Messages) /\ Orderly(Tail(queue), deferred)
         /\ Range(queue) = {Obituary(u)} \cup Range(Tail(queue))
         /\ \A x \in Range(Tail(queue)) : x[1] = u => x[2] # "reaped" /\ u \notin deferred
<1>0. TypeOK /\ QueueServed /\ queue \in Seq(Messages)
  BY DEF WInv, TypeOK, Messages
<1>1. Serving /\ queue # <<>> /\ Head(queue)[1] = u /\ Head(queue)[2] = "reaped"
  BY DEF Event
<1>2. /\ Tail(queue) \in Seq(Messages) /\ Head(queue) \in Messages
      /\ Range(queue) = {Head(queue)} \cup Range(Tail(queue))
  BY <1>0, <1>1, HeadType
<1>3. /\ Orderly(queue, deferred) /\ EventOK(Head(queue))
  BY <1>0, <1>1, <1>2 DEF QueueServed
<1>4. Head(queue) = <<Head(queue)[1], Head(queue)[2], Head(queue)[3]>>
  BY <1>2 DEF Messages
<1>5. Head(queue) = Obituary(u) /\ u \in table /\ proc[u] = "gone"
  BY <1>1, <1>3, <1>4 DEF EventOK, Obituary
<1>6. Orderly(Tail(queue), deferred)
  BY <1>0, <1>1, <1>3, TailOrderly
<1>7. ASSUME NEW x \in Range(Tail(queue)), x[1] = u
      PROVE  x[2] # "reaped" /\ u \notin deferred
  BY <1>0, <1>1, <1>3, <1>7, HeadOrderly
<1> QED BY <1>1, <1>2, <1>5, <1>6, <1>7

\* ... the death a kill posted goes behind what the child wrote, ...
LEMMA DeferReapKeeps ==
  ASSUME WInv, kind' = kind, NEW u \in Units, DeferReap(u)
  PROVE  Kept
<1> USE DEF flags, os, ends
<1>1. /\ Event(u, {"reaped"}) /\ u \in table /\ u \notin deferred
      /\ queue' = Append(Tail(queue) \o pipe[u], Head(queue))
      /\ pipe' = [pipe EXCEPT ![u] = <<>>] /\ deferred' = deferred \cup {u}
      /\ UNCHANGED <<mode, proc, table, settled, cancelled, parked, owned, outcome, folds,
                     wrote, reserved>>
  BY DEF DeferReap, gvars
<1>2. /\ Serving /\ Head(queue) = Obituary(u) /\ proc[u] = "gone"
      /\ Tail(queue) \in Seq(Messages) /\ Orderly(Tail(queue), deferred)
      /\ Range(queue) = {Obituary(u)} \cup Range(Tail(queue))
      /\ \A x \in Range(Tail(queue)) : x[1] = u => x[2] # "reaped"
  BY <1>1, DeathAtHead
<1>3. PICK q : q = Tail(queue)
  OBVIOUS
<1>4. /\ q \in Seq(Messages) /\ Orderly(q, deferred)
      /\ \A x \in Range(q) : x \in Range(queue) /\ (x[1] = u => x[2] # "reaped")
      /\ \A x \in Range(queue) : x \in Range(q) \/ x = Obituary(u)
      /\ queue' = Append(q \o pipe[u], Obituary(u))
  BY <1>1, <1>2, <1>3
<1> QED BY <1>1, <1>2, <1>4, DeathQueued

\* ... and the child leaves the table: what it owed is failed or parked, and a
\* worker whose result was on its way is never one of those.
LEMMA OnReapedKeeps ==
  ASSUME WInv, kind' = kind, NEW u \in Units, OnReaped(u)
  PROVE  Kept
<1> USE DEF flags, os, ends
<1>0. TypeOK /\ WTypeOK /\ GTypeOK /\ AllAccounted /\ QueueServed /\ queue \in Seq(Messages)
  BY TypeHalves DEF WInv, WTypeOK
<1>1. /\ Event(u, {"reaped"}) /\ u \in table /\ u \in deferred /\ queue' = Tail(queue)
      /\ deferred' = deferred \ {u} /\ table' = table \ {u} /\ settled' = settled \ {u}
      /\ cancelled' = cancelled \ {u} /\ parked' = parked \ {u}
      /\ UNCHANGED <<mode, proc, pipe, wrote>>
  BY DEF OnReaped, Forget
<1>2. /\ Serving /\ proc[u] = "gone"
      /\ Tail(queue) \in Seq(Messages) /\ Orderly(Tail(queue), deferred)
      /\ Range(queue) = {Obituary(u)} \cup Range(Tail(queue))
      /\ \A x \in Range(Tail(queue)) : x[1] # u
  BY <1>1, DeathAtHead
<1>3. Accounted(u) /\ Watched(u) /\ folds[u] \in Nat
  BY <1>0, <1>2 DEF AllAccounted, QueueServed, WTypeOK
<1>4. pipe[u] = <<>>
  BY <1>1, <1>3 DEF Watched
<1>5. u \notin settled => wrote[u] = "none" /\ folds[u] = 0
  <2>1. ~ \E x \in Range(queue) : x[1] = u /\ x[2] # "reaped"
    BY <1>2 DEF Obituary
  <2> QED BY <1>1, <1>3, <1>4, <2>1 DEF Watched, Accounted
<1>6. /\ \A v \in Units \ {u} : outcome'[v] = outcome[v] /\ folds'[v] = folds[v]
      /\ \A v \in Units \ {u} : v \in owned' <=> v \in owned
      /\ \/ folds'[u] = folds[u] /\ outcome'[u] = outcome[u]
         \/ u \notin settled /\ folds'[u] = folds[u] + 1
      /\ reserved' \subseteq reserved /\ (kind[u] = "root" => u \notin reserved')
  <2>1. CASE u \in parked /\ u \notin settled
    <3>1. ParkSilent(u)
      BY <2>1 DEF OnReaped
    <3>2. (Release(u) \/ UNCHANGED gvars) /\ (kind[u] = "root" => Release(u))
      BY <3>1 DEF ParkSilent
    <3>3. reserved' \subseteq reserved /\ (kind[u] = "root" => u \notin reserved')
      BY <1>0, <3>2, ReleaseType DEF gvars
    <3> QED BY <1>0, <2>1, <3>1, <3>3 DEF ParkSilent, Park, WTypeOK
  <2>2. CASE u \notin parked /\ Orphaned(u)
    <3>1. Release(u) /\ Fold(u, "failed")
      BY <2>2 DEF OnReaped
    <3>2. u \notin settled
      BY <1>3, <2>2 DEF Orphaned, Accounted
    <3>3. reserved' = reserved \ {u}
      BY <1>0, <3>1, ReleaseType
    <3> QED BY <1>0, <3>1, <3>2, <3>3 DEF Fold, WTypeOK
  <2>3. CASE ~(u \in parked /\ u \notin settled) /\ ~(u \notin parked /\ Orphaned(u))
    <3>1. UNCHANGED <<gvars, ends>>
      BY <2>3 DEF OnReaped
    <3>2. kind[u] = "root" => u \in settled
      BY <2>3 DEF Orphaned
    <3> QED BY <1>3, <3>1, <3>2 DEF gvars, Accounted
  <2> QED BY <2>1, <2>2, <2>3
<1>7. Accounted(u)'
  <2>1. folds'[u] <= 1
    BY <1>3, <1>5, <1>6 DEF Accounted
  <2>2. (outcome[u] = "failed" => wrote[u] # "done")'
    BY <1>1, <1>3, <1>5, <1>6 DEF Accounted
  <2>3. u \notin Flags' /\ u \notin table' /\ proc'[u] = "gone" /\ u \notin settled'
    BY <1>1, <1>2, <1>3 DEF Flags
  <2> QED BY <2>1, <2>2, <2>3 DEF Accounted
<1>8. Watched(u)'
  BY <1>1, <1>4, <1>6 DEF Watched
<1>9. Orderly(queue', deferred')
  BY <1>1, <1>2, FewerJoined
<1>10. \A v \in Units \ {u} : SameAt(v)
  BY <1>1, <1>6 DEF SameAt
<1>11. Obituary(u)[1] = u
  BY DEF Obituary
<1> QED BY <1>0, <1>1, <1>2, <1>7, <1>8, <1>9, <1>10, <1>11, OneUnitEvents

\* A run ends under a worker, or a worker is told to stop.
LEMMA CancelKeeps ==
  ASSUME WInv, kind' = kind, NEW u \in Units, EndRun(u) \/ WarnYoung(u)
  PROVE  Kept
<1> USE DEF flags, os, ends
<1>0. WTypeOK /\ AllAccounted /\ QueueServed /\ queue \in Seq(Messages)
  BY TypeHalves DEF WInv, WTypeOK
<1>1. /\ Serving /\ u \in table /\ cancelled' = cancelled \cup {u}
      /\ owned' \subseteq owned /\ \A v \in Units \ {u} : v \in owned' <=> v \in owned
      /\ \A v \in Units \ {u} : outcome'[v] = outcome[v]
      /\ outcome'[u] \in {outcome[u], "cancelled"}
      /\ UNCHANGED <<mode, proc, pipe, queue, table, settled, parked, deferred, wrote, folds,
                     reserved>>
  BY <1>0 DEF EndRun, WarnYoung, WTypeOK, gvars
<1>2. \A v \in Units \ {u} : SameAt(v)
  BY <1>1 DEF SameAt
<1>3. Accounted(u)'
  BY <1>0, <1>1 DEF AllAccounted, Accounted, Unstarted, Flags
<1>4. Watched(u)' /\ \A x \in Range(queue) : x[1] = u => EventOK(x)'
  BY <1>0, <1>1 DEF QueueServed, Watched, EventOK
<1> QED BY <1>0, <1>1, <1>2, <1>3, <1>4, OneUnit DEF Serving

\* A stuck worker is killed and its death posted at once.
LEMMA UnhealthyKeeps ==
  ASSUME WInv, kind' = kind, NEW u \in Units, Unhealthy(u)
  PROVE  Kept
<1> USE DEF flags, os, ends
<1>0. WTypeOK /\ AllAccounted /\ QueueServed /\ queue \in Seq(Messages)
  BY TypeHalves DEF WInv, WTypeOK
<1>1. /\ Serving /\ u \in table /\ proc[u] \in {"runs", "dead"} /\ proc'[u] = "gone"
      /\ \A v \in Units \ {u} : proc'[v] = proc[v]
      /\ cancelled' = cancelled \cup {u} /\ queue' = Append(queue, Obituary(u))
      /\ UNCHANGED <<mode, pipe, table, settled, parked, deferred, owned, outcome, folds, wrote,
                     reserved>>
  BY <1>0 DEF Unhealthy, Obituary, WTypeOK, gvars
<1>2. \A v \in Units \ {u} : SameAt(v)
  BY <1>1 DEF SameAt
<1>3. /\ Obituary(u) \in Messages /\ Obituary(u)[1] = u /\ Obituary(u)[2] = "reaped"
      /\ Obituary(u)[3] = 0
  BY DEF Obituary, Messages
<1>4. queue' \in Seq(Messages) /\ Range(queue') = Range(queue) \cup {Obituary(u)}
  BY <1>0, <1>1, <1>3, AppendRange
<1>5. /\ Watched(u) /\ Orderly(queue, deferred) /\ \A x \in Range(queue) : EventOK(x)
      /\ Accounted(u)
  BY <1>0, <1>1 DEF QueueServed, AllAccounted
<1>6. \A x \in Range(queue) : x[1] = u => x[2] # "reaped"
  BY <1>1, <1>5 DEF EventOK
<1>7. Orderly(queue', deferred \cup {u})
  BY <1>0, <1>1, <1>3, <1>5, <1>6, AppendDeath
<1>8. Orderly(queue', deferred')
  BY <1>1, <1>7, FewerJoined
<1>9. Accounted(u)'
  BY <1>1, <1>5 DEF Accounted, Flags
<1>10. Watched(u)'
  BY <1>1, <1>4, <1>5 DEF Watched
<1>11. \A x \in Range(queue') : x[1] = u => EventOK(x)'
  BY <1>1, <1>3, <1>4, <1>5 DEF EventOK
<1> QED BY <1>0, <1>1, <1>2, <1>3, <1>4, <1>8, <1>9, <1>10, <1>11, OneUnitEvents

\* Past the grace a child is forgotten, parked if the drain stopped it.
LEMMA AbandonChildKeeps ==
  ASSUME WInv, kind' = kind, NEW u \in Units, AbandonChild(u)
  PROVE  Kept
<1> USE DEF flags, os, ends
<1>0. WTypeOK /\ GTypeOK /\ AllAccounted /\ QueueServed /\ queue \in Seq(Messages)
  BY TypeHalves DEF WInv, WTypeOK
<1>1. /\ ~Serving /\ u \in table /\ table' = table \ {u} /\ settled' = settled \ {u}
      /\ cancelled' = cancelled \ {u} /\ parked' = parked \ {u}
      /\ proc'[u] = "gone" /\ \A v \in Units \ {u} : proc'[v] = proc[v]
      /\ UNCHANGED <<mode, pipe, queue, deferred, wrote>>
  BY <1>0 DEF AbandonChild, Forget, Serving, WTypeOK
<1>2. reserved' \subseteq reserved
  <2>1. Release(u) \/ UNCHANGED gvars
    BY DEF AbandonChild, ParkSilent
  <2> QED BY <1>0, <2>1, ReleaseType DEF gvars
<1>3. /\ \A v \in Units \ {u} : outcome'[v] = outcome[v] /\ folds'[v] = folds[v]
      /\ owned' = owned
      /\ \/ folds'[u] = folds[u] /\ outcome'[u] = outcome[u]
         \/ u \notin settled /\ folds'[u] = folds[u] + 1 /\ outcome'[u] = "parked"
  BY <1>0 DEF AbandonChild, ParkSilent, Park, WTypeOK
<1>4. Accounted(u) /\ folds[u] \in Nat
  BY <1>0 DEF AllAccounted, WTypeOK
<1>5. Accounted(u)'
  BY <1>1, <1>3, <1>4 DEF Accounted, Flags
<1>6. \A v \in Units \ {u} : SameAt(v)
  BY <1>1, <1>2, <1>3 DEF SameAt
<1> QED BY <1>0, <1>1, <1>5, <1>6, OneUnitEvents

\* The drain begins, is forced, or gives up.
LEMMA DrainKeeps ==
  ASSUME WInv, kind' = kind, BeginDrain \/ ForceDrain \/ Abandon
  PROVE  Kept
<1> USE DEF flags, os, ends
<1>0. WTypeOK /\ AllAccounted /\ QueueServed
  BY TypeHalves DEF WInv
<1>1. /\ parked \subseteq parked' /\ parked' \subseteq parked \cup table
      /\ cancelled' \subseteq cancelled \cup table /\ mode # "down" /\ Serving
      /\ UNCHANGED <<proc, pipe, queue, table, settled, deferred, owned, outcome, folds, wrote,
                     reserved>>
  BY DEF BeginDrain, ForceDrain, Abandon, gvars, Serving
<1>2. ASSUME NEW v \in Units PROVE Accounted(v)'
  <2>1. Accounted(v)
    BY <1>0 DEF AllAccounted
  <2>2. (v \in Flags => v \in table)'
    BY <1>1, <2>1 DEF Accounted, Flags
  <2>3. (proc[v] = "none" => Unstarted(v))'
    BY <1>1, <2>1 DEF Accounted, Unstarted, Flags
  <2> QED BY <1>1, <2>1, <2>2, <2>3 DEF Accounted
<1>3. (\A x \in Range(queue) : EventOK(x)') /\ \A v \in Units : Watched(v)'
  BY <1>0, <1>1 DEF QueueServed, EventOK, Watched
<1> QED BY <1>0, <1>1, <1>2, <1>3 DEF Kept, AllAccounted, QueueServed

\* A life ends.
LEMMA EndKeeps ==
  ASSUME WInv, kind' = kind, Exit \/ Crash
  PROVE  Kept /\ DownMeansGone'
<1>1. Gone /\ mode' = "down"
  BY DEF Exit, Crash
<1>2. ASSUME NEW v \in Units PROVE Accounted(v)'
  BY <1>1 DEF Gone, Accounted, Unstarted, Flags
<1>3. ~Serving' /\ DownMeansGone'
  BY <1>1 DEF Gone, Serving, DownMeansGone
<1> QED BY <1>2, <1>3 DEF Kept, AllAccounted, QueueServed

\* The next one begins, with nothing in its tables.
LEMMA RestartKeeps ==
  ASSUME WInv, kind' = kind, Restart
  PROVE  Kept
<1> USE DEF flags, os, ends
<1>0. WTypeOK /\ GTypeOK /\ AllAccounted /\ DownMeansGone
  BY TypeHalves DEF WInv
<1>1. /\ mode = "down" /\ mode' = "up" /\ queue = <<>> /\ queue' = <<>>
      /\ UNCHANGED <<proc, pipe, table, settled, cancelled, parked, deferred, owned, wrote, folds>>
  BY <1>0 DEF Restart, DownMeansGone
<1>2. reserved' = {}
  BY <1>0, AdoptType DEF Restart
<1>3. ASSUME NEW v \in Units PROVE Accounted(v)' /\ Watched(v)'
  <2>1. proc[v] = "none" /\ Unstarted(v)
    BY <1>0, <1>1 DEF DownMeansGone, AllAccounted, Accounted
  <2> QED BY <1>1, <1>2, <2>1 DEF Accounted, Watched, Unstarted, Flags
<1>4. Range(queue') = {} /\ Orderly(queue', deferred')
  BY <1>1, EmptyRange DEF Orderly
<1> QED BY <1>3, <1>4 DEF Kept, AllAccounted, QueueServed

---------------------------------------------------------------------------
(* The invariant.                                                          *)

\* It holds at the start.
LEMMA InitInv == ASSUME Init PROVE WInv
<1> USE DEF Init, WInit, GInit
<1>1. TypeOK
  <2>1. GTypeOK
    <3>1. win \in WindowState /\ 0 \in Nat /\ 0 \in 0..MaxIndex
      BY BudgetAssumption DEF WindowState, Fresh
    <3>2. stored \in [win : WindowState, spent : Nat]
      BY <3>1
    <3>3. foreign \in BOOLEAN
      BY Zenon
    <3>4. madeIn \in [Units -> 0..MaxIndex]
      BY <3>1
    <3> QED BY <3>1, <3>2, <3>3, <3>4 DEF GTypeOK
  <2>2. WTypeOK
    <3>1. queue \in Seq(Messages)
      BY EmptySeq
    <3> QED BY <3>1, WorkersAssumption DEF WTypeOK, Outcomes
  <2> QED BY <2>1, <2>2, TypeHalves
<1>2. AllAccounted
  <2> SUFFICES ASSUME NEW u \in Units PROVE Accounted(u)
    BY DEF AllAccounted
  <2>1. proc[u] = "none" /\ outcome[u] = "none" /\ wrote[u] = "none" /\ folds[u] = 0
    OBVIOUS
  <2>2. Unstarted(u)
    BY <2>1 DEF Unstarted, Flags
  <2> QED BY <2>1, <2>2 DEF Accounted, Unstarted
<1>3. QueueServed
  <2>1. Range(queue) = {} /\ Orderly(queue, deferred)
    BY EmptyRange DEF Orderly
  <2>2. \A u \in Units : Watched(u)
    BY DEF Watched
  <2> QED BY <2>1, <2>2 DEF QueueServed
<1> QED BY <1>1, <1>2, <1>3 DEF WInv, DownMeansGone

\* Only the end of a life leaves the process down.
LEMMA DownOnlyByEnd ==
  ASSUME Next, mode' = "down"
  PROVE  Exit \/ Crash
<1> USE DEF Serving, wvars
<1>1. ASSUME NEW u \in Units,
             Launch(u) \/ Refuse(u) \/ Ask(u) \/ EndRun(u)
               \/ (\E f \in Frames, n \in Used : Write(u, f, n)) \/ Die(u) \/ Read(u)
      PROVE  mode' = mode /\ mode # "down"
  BY <1>1 DEF Launch, Refuse, Ask, EndRun, Write, Die, Read, Idle
<1>2. ASSUME NEW u \in Units,
             React(u) \/ Unhealthy(u) \/ WarnYoung(u) \/ AbandonChild(u)
      PROVE  mode' = mode /\ mode # "down"
  BY <1>2 DEF React, OnTurnDone, OnTurnFailed, ParkCancelled, Reap, DeferReap, OnReaped,
              Unhealthy, WarnYoung, AbandonChild, Event
<1>3. ~(BeginDrain \/ ForceDrain \/ Abandon \/ Restart \/ Tick)
  BY DEF BeginDrain, ForceDrain, Abandon, Restart, Tick
<1> QED BY <1>1, <1>2, <1>3 DEF Next

\* Every step keeps it.
LEMMA StepInv == ASSUME WInv, Next PROVE WInv'
<1>0. TypeOK /\ GTypeOK
  BY TypeHalves DEF WInv
<1>1. TypeOK' /\ kind' = kind
  BY <1>0, StepType
<1>2. Kept
  <2>1. ASSUME NEW u \in Units, Launch(u) \/ Refuse(u) \/ EndRun(u) \/ Die(u) \/ Read(u)
        PROVE  Kept
    BY <1>1, <2>1, LaunchKeeps, RefuseKeeps, CancelKeeps, DieKeeps, ReadKeeps
  <2>2. ASSUME NEW u \in Units, NEW f \in Frames, NEW n \in Used, Write(u, f, n)
        PROVE  Kept
    BY <1>1, <2>2, WriteKeeps
  <2>3. ASSUME NEW u \in Units, React(u)
        PROVE  Kept
    BY <1>1, <2>3, OnTurnDoneKeeps, OnTurnFailedKeeps, ParkCancelledKeeps, ReapKeeps,
       DeferReapKeeps, OnReapedKeeps DEF React
  <2>4. ASSUME NEW u \in Units, Unhealthy(u) \/ WarnYoung(u) \/ AbandonChild(u)
        PROVE  Kept
    BY <1>1, <2>4, UnhealthyKeeps, CancelKeeps, AbandonChildKeeps
  <2>5. ASSUME NEW u \in Units, Ask(u)
        PROVE  Kept
    BY <1>0, <1>1, <2>5, AskType, CountersKeep DEF Ask
  <2>6. CASE Tick
    BY <1>0, <1>1, <2>6, TimeType, CountersKeep DEF Tick
  <2>7. CASE BeginDrain \/ ForceDrain \/ Abandon
    BY <1>1, <2>7, DrainKeeps
  <2>8. CASE Exit \/ Crash
    BY <1>1, <2>8, EndKeeps
  <2>9. CASE Restart
    BY <1>1, <2>9, RestartKeeps
  <2> QED BY <2>1, <2>2, <2>3, <2>4, <2>5, <2>6, <2>7, <2>8, <2>9 DEF Next
<1>3. DownMeansGone'
  <2>1. mode' = "down" => DownMeansGone'
    <3>1. mode' = "down" => Exit \/ Crash
      BY DownOnlyByEnd
    <3> QED BY <1>1, <3>1, EndKeeps
  <2> QED BY <2>1 DEF DownMeansGone
<1> QED BY <1>1, <1>2, <1>3 DEF WInv, Kept

\* A stutter changes nothing.
LEMMA StutterInv == ASSUME WInv, UNCHANGED vars PROVE WInv'
<1> USE DEF vars, wvars, gvars
<1>1. TypeOK'
  <2>1. GTypeOK'
    BY DEF WInv, TypeOK, GTypeOK
  <2> QED BY <2>1 DEF WInv, TypeOK
<1>2. AllAccounted' /\ DownMeansGone'
  BY DEF WInv, AllAccounted, DownMeansGone, Accounted, Unstarted, Flags
<1>3. QueueServed'
  BY DEF WInv, QueueServed, EventOK, Watched, Serving
<1> QED BY <1>1, <1>2, <1>3 DEF WInv

\* In every reachable state.
THEOREM WorkersInvariance == Spec => []WInv
<1>1. Init => WInv
  BY InitInv
<1>2. WInv /\ [Next]_vars => WInv'
  BY StepInv, StutterInv
<1> QED BY <1>1, <1>2, PTL DEF Spec

---------------------------------------------------------------------------
(* The theorems.                                                           *)

\* Every variable keeps its type; Governor::release never takes the
\* reserved count below zero.
THEOREM WorkersTypeCorrect == Spec => []TypeOK
<1>1. WInv => TypeOK
  BY DEF WInv
<1> QED BY <1>1, WorkersInvariance, PTL

\* on_child_frame and on_reaped: a result a worker wrote is never turned into
\* a failure, whatever the order of reader, reaper, kill and reactor.
THEOREM ResultsKept == Spec => []ResultKept
<1>1. WInv => ResultKept
  BY DEF WInv, AllAccounted, Accounted, ResultKept
<1> QED BY <1>1, WorkersInvariance, PTL

\* Children::on_reaped and kill: every event finds its child in the table, and
\* every child of the table runs, is to be reaped, or has its death in the
\* queue.
THEOREM DeathsSeenOnce == Spec => []DeathSeenOnce
<1>1. WInv => EventsFindTheirChild
  <2> SUFFICES ASSUME WInv, Serving, NEW i \in 1..Len(queue) PROVE queue[i][1] \in table
    BY DEF EventsFindTheirChild
  <2>1. queue \in Seq(Messages) /\ \A x \in Range(queue) : EventOK(x)
    BY DEF WInv, TypeOK, Messages, QueueServed
  <2>2. queue[i] \in Range(queue)
    BY <2>1, InRange
  <2> QED BY <2>1, <2>2 DEF EventOK
<1>2. WInv => DeathIsReported
  <2> SUFFICES ASSUME WInv, Serving, NEW u \in table, ~(proc[u] \in {"runs", "dead"})
               PROVE  \E i \in 1..Len(queue) : queue[i] = <<u, "reaped", 0>>
    BY DEF DeathIsReported
  <2>1. queue \in Seq(Messages) /\ u \in Units
    BY TypeHalves DEF WInv, WTypeOK
  <2>2. Obituary(u) \in Range(queue)
    BY <2>1 DEF WInv, QueueServed, Watched
  <2> QED BY <2>1, <2>2, InRange DEF Obituary
<1>3. WInv => DeathSeenOnce
  BY <1>1, <1>2 DEF DeathSeenOnce
<1> QED BY <1>3, WorkersInvariance, PTL

\* on_turn_done, on_reaped, the parking and the abandon: the end of a unit is
\* folded in once in a life.
THEOREM FoldsOnce == Spec => []FoldedOnce
<1>1. WInv => FoldedOnce
  BY DEF WInv, AllAccounted, Accounted, FoldedOnce
<1> QED BY <1>1, WorkersInvariance, PTL

\* Governor::settle and release: the reservation of a conversation turn does not
\* outlive its worker.
THEOREM TurnReservationsReturned == Spec => []TurnReservationReturned
<1>1. WInv => TurnReservationReturned
  <2> SUFFICES ASSUME WInv, Serving, NEW u \in reserved, kind[u] = "root" PROVE u \in table
    BY DEF TurnReservationReturned
  <2>1. u \in Units
    BY DEF WInv, TypeOK, GTypeOK
  <2> QED BY <2>1 DEF WInv, QueueServed, Watched
<1> QED BY <1>1, WorkersInvariance, PTL

\* One step: a worker the drain parked is failed by its own word only.
ByItsWord ==
  \A u \in parked : outcome'[u] = "failed" => outcome[u] = "failed" \/ wrote[u] = "failed"

\* What each action does to the outcome of a parked worker.
LEMMA StepByItsWord == ASSUME WInv, Next PROVE ByItsWord
<1> USE DEF flags, os, ends
<1>0. TypeOK /\ WTypeOK /\ QueueServed /\ parked \subseteq Units
  <2>1. TypeOK /\ QueueServed
    BY DEF WInv
  <2>2. WTypeOK
    BY <2>1, TypeHalves
  <2> QED BY <2>1, <2>2 DEF WTypeOK
<1>1. outcome' = outcome => ByItsWord
  BY DEF ByItsWord
<1>2. ASSUME NEW u \in Units, OnTurnDone(u) PROVE ByItsWord
  <2>1. Event(u, {"done", "cancelled"}) /\ ~(u \in parked /\ Head(queue)[2] = "cancelled")
    BY <1>2 DEF OnTurnDone
  <2>2. u \in parked => outcome'[u] = outcome[u] \/ outcome'[u] = "done"
    BY <1>0, <1>2, <2>1 DEF OnTurnDone, Fold, Event, WTypeOK
  <2>3. \A v \in Units \ {u} : outcome'[v] = outcome[v]
    BY <1>0, <1>2 DEF OnTurnDone, Fold, WTypeOK
  <2> QED BY <1>0, <2>2, <2>3 DEF ByItsWord
<1>3. ASSUME NEW u \in Units, OnTurnFailed(u) PROVE ByItsWord
  <2>1. /\ Serving /\ queue # <<>> /\ Head(queue)[1] = u /\ Head(queue)[2] = "failed"
    BY <1>3 DEF OnTurnFailed, Event
  <2>2. Head(queue) \in Range(queue)
    BY <1>0, <2>1, HeadType
  <2>3. wrote[u] = "failed"
    BY <1>0, <2>1, <2>2 DEF QueueServed, EventOK
  <2>4. \A v \in Units \ {u} : outcome'[v] = outcome[v]
    BY <1>0, <1>3 DEF OnTurnFailed, Fold, WTypeOK
  <2> QED BY <1>0, <2>3, <2>4 DEF ByItsWord
<1>4. ASSUME NEW u \in Units, ParkCancelled(u) \/ AbandonChild(u) PROVE ByItsWord
  <2>1. Park(u) \/ outcome' = outcome
    BY <1>4 DEF ParkCancelled, AbandonChild, ParkSilent
  <2> QED BY <1>0, <2>1 DEF Park, WTypeOK, ByItsWord
<1>5. ASSUME NEW u \in Units, OnReaped(u) PROVE ByItsWord
  <2>1. \/ Park(u) \/ outcome' = outcome
        \/ u \notin parked /\ Fold(u, "failed")
    BY <1>5 DEF OnReaped, ParkSilent
  <2> QED BY <1>0, <2>1 DEF Park, Fold, WTypeOK, ByItsWord
<1>6. ASSUME NEW u \in Units, Refuse(u) \/ EndRun(u) PROVE ByItsWord
  BY <1>0, <1>6 DEF Refuse, EndRun, WTypeOK, ByItsWord
<1>7. CASE Restart
  BY <1>0, <1>7 DEF Restart, WTypeOK, ByItsWord
<1>8. ASSUME NEW u \in Units,
             Launch(u) \/ Ask(u) \/ (\E f \in Frames, n \in Used : Write(u, f, n)) \/ Die(u)
               \/ Read(u) \/ Reap(u) \/ DeferReap(u) \/ Unhealthy(u) \/ WarnYoung(u)
      PROVE  outcome' = outcome
  BY <1>8 DEF Launch, Ask, Write, Die, Read, Reap, DeferReap, Unhealthy, WarnYoung, wvars
<1>9. BeginDrain \/ ForceDrain \/ Abandon \/ Exit \/ Crash \/ Tick => outcome' = outcome
  BY DEF BeginDrain, ForceDrain, Abandon, Exit, Crash, Tick, wvars
<1> QED BY <1>1, <1>2, <1>3, <1>4, <1>5, <1>6, <1>7, <1>8, <1>9 DEF Next, React

\* park_child: a worker the drain parked is failed only by its own word.
THEOREM ParkedNeverFailed == Spec => ParkedNotFailed
<1>1. WInv /\ [Next]_vars =>
        [\A u \in parked : outcome'[u] = "failed" =>
            outcome[u] = "failed" \/ wrote[u] = "failed"]_vars
  BY StepByItsWord DEF ByItsWord
<1> QED BY <1>1, WorkersInvariance, PTL DEF Spec, ParkedNotFailed

---------------------------------------------------------------------------
(* n is the sum of the estimates of the units in S: there is a list e of   *)
(* the units, each once, and p holds the sums of its prefixes.             *)

Listing(k, e, S) ==
  /\ e \in [1..k -> S]
  /\ \A i, j \in 1..k : e[i] = e[j] => i = j
  /\ \A u \in S : \E i \in 1..k : e[i] = u

PrefixSums(k, e, p) ==
  /\ p \in [0..k -> Nat] /\ p[0] = 0
  /\ \A i \in 1..k : p[i] = p[i - 1] + Est[e[i]]
  /\ \A i, j \in 0..k : i <= j => p[i] <= p[j]

Backed(n, S) == \E k \in Nat : \E e, p : /\ Listing(k, e, S) /\ PrefixSums(k, e, p)
                                         /\ p[k] = n

\* Nothing is backed by no one.
LEMMA BackedEmpty == Backed(0, {})
<1> DEFINE e == [i \in 1..0 |-> 0]
           p == [i \in 0..0 |-> 0]
<1>1. Listing(0, e, {})
  BY DEF Listing
<1>2. PrefixSums(0, e, p) /\ p[0] = 0
  BY DEF PrefixSums
<1> HIDE DEF e, p
<1> QED BY <1>1, <1>2 DEF Backed

\* One more unit, its estimate more.
LEMMA BackedAdd ==
  ASSUME NEW S \in SUBSET Units, NEW n, Backed(n, S), NEW u \in Units, u \notin S
  PROVE  Backed(n + Est[u], S \cup {u})
<1>9. PICK k \in Nat : \E e, p : Listing(k, e, S) /\ PrefixSums(k, e, p) /\ p[k] = n
  BY DEF Backed
<1>1. PICK e, p : Listing(k, e, S) /\ PrefixSums(k, e, p) /\ p[k] = n
  BY <1>9
<1>0. Est[u] \in Nat
  BY BudgetAssumption
<1>2. /\ e \in [1..k -> S] /\ \A i, j \in 1..k : e[i] = e[j] => i = j
      /\ \A v \in S : \E i \in 1..k : e[i] = v
  BY <1>1 DEF Listing
<1>3. /\ p \in [0..k -> Nat] /\ p[0] = 0
      /\ \A i \in 1..k : p[i] = p[i - 1] + Est[e[i]]
      /\ \A i, j \in 0..k : i <= j => p[i] <= p[j]
  BY <1>1 DEF PrefixSums
<1> DEFINE m == k + 1
           f == [i \in 1..m |-> IF i = m THEN u ELSE e[i]]
           q == [i \in 0..m |-> IF i = m THEN p[k] + Est[u] ELSE p[i]]
<1>4. /\ m \in Nat /\ \A i \in 1..m : i = m \/ i \in 1..k
      /\ \A i \in 0..m : i = m \/ i \in 0..k
      /\ m \in 1..m /\ 1..k \subseteq 1..m /\ m \notin 1..k /\ 0..k \subseteq 0..m
      /\ m - 1 = k /\ m \notin 0..k /\ k \in 0..k /\ m \in 0..m /\ 0 \in 0..k
  OBVIOUS
<1>5. f[m] = u /\ \A i \in 1..k : f[i] = e[i] /\ f[i] \in S
  BY <1>2, <1>4
<1>6. q[m] = p[k] + Est[u] /\ \A i \in 0..k : q[i] = p[i] /\ q[i] \in Nat
  BY <1>3, <1>4
<1>11. f \in [1..m -> S \cup {u}]
  BY <1>2, <1>4
<1>12. q \in [0..m -> Nat]
  <2>1. p[k] + Est[u] \in Nat
    BY <1>0, <1>3, <1>4
  <2> QED BY <1>3, <1>4, <2>1
<1> HIDE DEF f, q, m
<1>7. Listing(m, f, S \cup {u})
  <2>1. \A i, j \in 1..m : f[i] = f[j] => i = j
    BY <1>2, <1>4, <1>5
  <2>2. \A v \in S \cup {u} : \E i \in 1..m : f[i] = v
    BY <1>2, <1>4, <1>5
  <2> QED BY <1>11, <2>1, <2>2 DEF Listing
<1>8. PrefixSums(m, f, q)
  <2>1. \A i \in 1..m : q[i] = q[i - 1] + Est[f[i]]
    <3> SUFFICES ASSUME NEW i \in 1..m PROVE q[i] = q[i - 1] + Est[f[i]]
      OBVIOUS
    <3>1. CASE i = m
      BY <1>4, <1>5, <1>6, <3>1
    <3>2. CASE i \in 1..k
      <4>1. i \in 0..k /\ i - 1 \in 0..k
        BY <3>2
      <4> QED BY <1>3, <1>5, <1>6, <3>2, <4>1
    <3> QED BY <1>4, <3>1, <3>2
  <2>2. \A i, j \in 0..m : i <= j => q[i] <= q[j]
    <3> SUFFICES ASSUME NEW i \in 0..m, NEW j \in 0..m, i <= j PROVE q[i] <= q[j]
      OBVIOUS
    <3>1. CASE j \in 0..k
      <4>1. i \in 0..k
        BY <1>4, <3>1 DEF m
      <4> QED BY <1>3, <1>6, <3>1, <4>1
    <3>2. CASE i \in 0..k /\ j = m
      <4>1. p[i] <= p[k] /\ p[i] \in Nat /\ p[k] \in Nat
        BY <1>3, <1>4, <3>2
      <4> QED BY <1>0, <1>6, <3>2, <4>1
    <3>3. CASE i = m /\ j = m
      BY <1>12, <1>4, <3>3
    <3> QED BY <1>4, <3>1, <3>2, <3>3
  <2> QED BY <1>3, <1>4, <1>6, <1>12, <2>1, <2>2 DEF PrefixSums
<1> QED BY <1>1, <1>4, <1>6, <1>7, <1>8 DEF Backed

\* One unit less, its estimate less: it was in the sum.
LEMMA BackedRemove ==
  ASSUME NEW S \in SUBSET Units, NEW n, Backed(n, S), NEW u \in S
  PROVE  n \in Nat /\ Est[u] <= n /\ Backed(n - Est[u], S \ {u})
<1>17. PICK k \in Nat : \E e, p : Listing(k, e, S) /\ PrefixSums(k, e, p) /\ p[k] = n
  BY DEF Backed
<1>1. PICK e, p : Listing(k, e, S) /\ PrefixSums(k, e, p) /\ p[k] = n
  BY <1>17
<1>0. Est[u] \in Nat
  BY BudgetAssumption
<1>2. /\ e \in [1..k -> S] /\ \A i, j \in 1..k : e[i] = e[j] => i = j
      /\ \A v \in S : \E i \in 1..k : e[i] = v
  BY <1>1 DEF Listing
<1>3. /\ p \in [0..k -> Nat] /\ p[0] = 0
      /\ \A i \in 1..k : p[i] = p[i - 1] + Est[e[i]]
      /\ \A i, j \in 0..k : i <= j => p[i] <= p[j]
  BY <1>1 DEF PrefixSums
<1>4. PICK a \in 1..k : e[a] = u
  BY <1>2
<1>5. p[a] = p[a - 1] + Est[u] /\ a - 1 \in 0..k /\ a \in 0..k /\ k \in 0..k
  BY <1>3, <1>4
<1>6. p[a - 1] \in Nat /\ p[a] \in Nat /\ p[k] \in Nat /\ p[a] <= p[k]
  BY <1>3, <1>5
<1>7. n \in Nat /\ Est[u] <= n
  BY <1>0, <1>1, <1>5, <1>6
<1> DEFINE m == k - 1
           f == [i \in 1..m |-> IF i < a THEN e[i] ELSE e[i + 1]]
           q == [i \in 0..m |-> IF i < a THEN p[i] ELSE p[i + 1] - Est[u]]
<1>8. /\ m \in Nat /\ m + 1 = k
      /\ \A i \in 1..m : i \in 1..k /\ i + 1 \in 1..k
      /\ \A i \in 0..m : i \in 0..k /\ i + 1 \in 0..k
  BY <1>4
<1>9. /\ \A i \in 1..m : i < a => f[i] = e[i]
      /\ \A i \in 1..m : ~(i < a) => f[i] = e[i + 1]
  OBVIOUS
<1>10. /\ \A i \in 0..m : i < a => q[i] = p[i]
       /\ \A i \in 0..m : ~(i < a) => q[i] = p[i + 1] - Est[u]
  OBVIOUS
<1>11. f \in [1..m -> S \ {u}]
  <2> SUFFICES ASSUME NEW i \in 1..m PROVE f[i] \in S \ {u}
    OBVIOUS
  <2> HIDE DEF f, m, q
  <2>1. CASE i < a
    <3>1. f[i] = e[i] /\ i \in 1..k /\ i # a
      BY <1>4, <1>8, <1>9, <2>1
    <3> QED BY <1>2, <1>4, <3>1
  <2>2. CASE ~(i < a)
    <3>1. f[i] = e[i + 1] /\ i + 1 \in 1..k /\ i + 1 # a
      BY <1>4, <1>8, <1>9, <2>2
    <3> QED BY <1>2, <1>4, <3>1
  <2> QED BY <2>1, <2>2
<1>12. \A i \in 0..m : ~(i < a) => /\ p[i + 1] \in Nat /\ p[a] <= p[i + 1]
                                   /\ p[i + 1] - Est[u] \in Nat
                                   /\ p[a - 1] <= p[i + 1] - Est[u]
  <2> SUFFICES ASSUME NEW i \in 0..m, ~(i < a)
               PROVE  /\ p[i + 1] \in Nat /\ p[a] <= p[i + 1]
                      /\ p[i + 1] - Est[u] \in Nat
                      /\ p[a - 1] <= p[i + 1] - Est[u]
    OBVIOUS
  <2>1. i + 1 \in 0..k /\ a <= i + 1
    BY <1>4, <1>8
  <2>2. p[i + 1] \in Nat /\ p[a] <= p[i + 1]
    BY <1>3, <1>5, <2>1
  <2> QED BY <1>0, <1>5, <1>6, <2>2
<1>13. q \in [0..m -> Nat]
  BY <1>3, <1>8, <1>12
<1> HIDE DEF f, m, q
<1>14. Listing(m, f, S \ {u})
  <2>1. \A i, j \in 1..m : f[i] = f[j] => i = j
    <3> SUFFICES ASSUME NEW i \in 1..m, NEW j \in 1..m, f[i] = f[j] PROVE i = j
      OBVIOUS
    <3>0. /\ i \in 1..k /\ j \in 1..k /\ i + 1 \in 1..k /\ j + 1 \in 1..k
      BY <1>8
    <3>1. CASE i < a /\ j < a
      BY <1>2, <1>9, <3>0, <3>1
    <3>2. CASE i < a /\ ~(j < a)
      <4>1. e[i] = e[j + 1] /\ i # j + 1
        BY <1>4, <1>9, <3>0, <3>2
      <4> QED BY <1>2, <3>0, <4>1
    <3>3. CASE ~(i < a) /\ j < a
      <4>1. e[i + 1] = e[j] /\ i + 1 # j
        BY <1>4, <1>9, <3>0, <3>3
      <4> QED BY <1>2, <3>0, <4>1
    <3>4. CASE ~(i < a) /\ ~(j < a)
      <4>1. e[i + 1] = e[j + 1]
        BY <1>9, <3>4
      <4>2. i + 1 = j + 1
        BY <1>2, <3>0, <4>1
      <4> QED BY <3>0, <4>2
    <3> QED BY <3>1, <3>2, <3>3, <3>4
  <2>2. ASSUME NEW v \in S \ {u} PROVE \E i \in 1..m : f[i] = v
    <3>1. PICK b \in 1..k : e[b] = v
      BY <1>2
    <3>2. b # a
      BY <1>4, <3>1
    <3>3. CASE b < a
      <4>1. b \in 1..m
        BY <1>4, <1>8, <3>1, <3>3
      <4> QED BY <1>9, <3>1, <3>3, <4>1
    <3>4. CASE ~(b < a)
      <4>1. b - 1 \in 1..m /\ ~(b - 1 < a) /\ (b - 1) + 1 = b
        BY <1>4, <1>8, <3>1, <3>2, <3>4
      <4> QED BY <1>9, <3>1, <4>1
    <3> QED BY <3>3, <3>4
  <2> QED BY <1>11, <2>1, <2>2 DEF Listing
<1>15. PrefixSums(m, f, q)
  <2>0. q[0] = 0
    <3>1. 0 \in 0..m /\ 0 < a
      BY <1>4, <1>8
    <3> QED BY <1>3, <1>10, <3>1
  <2>1. ASSUME NEW i \in 1..m PROVE q[i] = q[i - 1] + Est[f[i]]
    <3>0. i \in 0..m /\ i - 1 \in 0..m /\ i \in 1..k /\ i + 1 \in 1..k /\ (i + 1) - 1 = i
      BY <1>8
    <3>1. CASE i < a
      <4>1. i - 1 < a
        BY <1>4, <3>0, <3>1
      <4> QED BY <1>3, <1>9, <1>10, <3>0, <3>1, <4>1
    <3>2. CASE i = a
      <4>1. /\ i - 1 < a /\ q[i - 1] = p[i - 1] /\ q[i] = p[i + 1] - Est[u]
            /\ f[i] = e[i + 1]
        BY <1>4, <1>9, <1>10, <3>0, <3>2
      <4>2. p[i + 1] = p[i] + Est[e[i + 1]] /\ p[i] = p[i - 1] + Est[u]
        BY <1>3, <1>5, <3>0, <3>2
      <4>3. Est[e[i + 1]] \in Nat /\ p[i - 1] \in Nat
        BY <1>2, <1>6, <3>0, <3>2, BudgetAssumption
      <4>4. p[i + 1] - Est[u] = p[i - 1] + Est[e[i + 1]]
        BY <1>0, <4>2, <4>3
      <4> QED BY <4>1, <4>4
    <3>3. CASE a < i
      <4>1. /\ ~(i - 1 < a) /\ ~(i < a)
        BY <1>4, <3>0, <3>3
      <4>2. /\ q[i - 1] = p[(i - 1) + 1] - Est[u] /\ q[i] = p[i + 1] - Est[u]
            /\ f[i] = e[i + 1] /\ (i - 1) + 1 = i
        BY <1>9, <1>10, <3>0, <4>1
      <4>3. p[i + 1] = p[i] + Est[e[i + 1]] /\ Est[e[i + 1]] \in Nat /\ p[i] \in Nat
        <5>1. p[i + 1] = p[(i + 1) - 1] + Est[e[i + 1]]
          BY <1>3, <3>0
        <5>2. e[i + 1] \in Units /\ p[i] \in Nat
          BY <1>2, <1>3, <1>8, <3>0
        <5> QED BY <3>0, <5>1, <5>2, BudgetAssumption
      <4>4. p[i + 1] - Est[u] = (p[i] - Est[u]) + Est[e[i + 1]]
        BY <1>0, <4>3
      <4> QED BY <4>2, <4>4
    <3> QED BY <1>4, <3>0, <3>1, <3>2, <3>3
  <2>2. ASSUME NEW i \in 0..m, NEW j \in 0..m, i <= j PROVE q[i] <= q[j]
    <3>0. i \in 0..k /\ j \in 0..k /\ i + 1 \in 0..k /\ j + 1 \in 0..k
      BY <1>8
    <3>1. CASE i < a /\ j < a
      BY <1>3, <1>10, <2>2, <3>0, <3>1
    <3>2. CASE i < a /\ ~(j < a)
      <4>1. p[i] <= p[a - 1]
        <5>1. i <= a - 1
          BY <1>4, <3>0, <3>2
        <5> QED BY <1>3, <1>5, <3>0, <5>1
      <4>2. p[i] \in Nat /\ p[a - 1] <= p[j + 1] - Est[u] /\ p[j + 1] - Est[u] \in Nat
        BY <1>3, <1>12, <3>0, <3>2
      <4>3. q[i] = p[i] /\ q[j] = p[j + 1] - Est[u]
        BY <1>10, <3>2
      <4> QED BY <1>6, <4>1, <4>2, <4>3
    <3>3. CASE ~(i < a)
      <4>1. ~(j < a) /\ i + 1 <= j + 1
        BY <1>4, <2>2, <3>0, <3>3
      <4>2. p[i + 1] <= p[j + 1] /\ p[i + 1] \in Nat /\ p[j + 1] \in Nat
        BY <1>3, <3>0, <4>1
      <4>3. q[i] = p[i + 1] - Est[u] /\ q[j] = p[j + 1] - Est[u]
        BY <1>10, <3>3, <4>1
      <4> QED BY <1>0, <4>2, <4>3
    <3> QED BY <3>1, <3>2, <3>3
  <2> QED BY <1>13, <2>0, <2>1, <2>2 DEF PrefixSums
<1>16. q[m] = n - Est[u]
  <2>2. CASE m < a
    <3>1. m = a - 1 /\ k = a /\ m \in 0..m
      BY <1>4, <1>8, <2>2
    <3> QED BY <1>0, <1>1, <1>5, <1>6, <1>10, <2>2, <3>1
  <2>3. CASE ~(m < a)
    BY <1>1, <1>8, <1>10, <2>3
  <2> QED BY <2>2, <2>3
<1> QED BY <1>7, <1>8, <1>14, <1>15, <1>16 DEF Backed

---------------------------------------------------------------------------
(* The invariant: no reservation is from a window to come, and as long as  *)
(* the window counts nothing else, it counts what its holders reserved.    *)

Holders == {u \in reserved : madeIn[u] = win.index}

GInv ==
  /\ win.index <= now
  /\ \A u \in reserved : madeIn[u] <= win.index
  /\ ~foreign => Backed(win.reserved, Holders)
  /\ WindowNotOversold

\* A window looked at again is the one it was, or a new one with nothing in it.
LEMMA RolledInv ==
  ASSUME GTypeOK, GInv, foreign' = (foreign /\ win.index = now)
  PROVE  /\ Rolled \in WindowState /\ Rolled.index = now
         /\ \A u \in reserved : madeIn[u] <= now
         /\ ~foreign' => /\ Backed(Rolled.reserved, {u \in reserved : madeIn[u] = now})
                         /\ Tactic # "degrade" => Rolled.tokens + Rolled.reserved <= WindowTokens
<1>0. /\ win \in WindowState /\ win.index \in Nat /\ now \in Nat /\ win.index <= now
      /\ \A u \in reserved : madeIn[u] \in Nat /\ madeIn[u] <= win.index
  BY BudgetAssumption DEF GTypeOK, WindowState, GInv
<1>1. Rolled \in WindowState /\ Rolled.index = now
  BY <1>0, RolledType DEF Rolled
<1>2. \A u \in reserved : madeIn[u] <= now
  BY <1>0
<1>3. CASE win.index = now
  <2>1. Rolled = win
    BY <1>3 DEF Rolled, RolledOf
  <2>2. Holders = {u \in reserved : madeIn[u] = now}
    BY <1>3 DEF Holders
  <2>3. ~foreign' => ~foreign
    BY <1>3
  <2> QED BY <1>1, <1>2, <2>1, <2>2, <2>3 DEF GInv, WindowNotOversold
<1>4. CASE win.index # now
  <2>1. Rolled.reserved = 0 /\ Rolled.tokens = 0
    BY <1>4 DEF Rolled, RolledOf, Fresh
  <2>2. {u \in reserved : madeIn[u] = now} = {}
    BY <1>0, <1>4
  <2> QED BY <1>1, <1>2, <2>1, <2>2, BackedEmpty, BudgetAssumption
<1> QED BY <1>3, <1>4

\* A unit reserves within the cap.
LEMMA ReserveInv ==
  ASSUME GTypeOK, GInv, NEW u \in Units, u \notin reserved, Reserve(u),
         Tactic # "degrade" => ~WindowOver(Rolled, u)
  PROVE  GInv'
<1>1. foreign' = (foreign /\ win.index = now)
  BY DEF Reserve
<1>2. PICK w : w = Rolled
  OBVIOUS
<1>3. /\ w \in WindowState /\ w.index = now
      /\ \A v \in reserved : madeIn[v] <= now
      /\ ~foreign' => /\ Backed(w.reserved, {v \in reserved : madeIn[v] = now})
                      /\ Tactic # "degrade" => w.tokens + w.reserved <= WindowTokens
  BY <1>1, <1>2, RolledInv
<1>4. w.reserved \in Nat /\ w.tokens \in Nat /\ Est[u] \in Nat /\ now \in Nat
  BY <1>3, BudgetAssumption DEF WindowState, GTypeOK
<1>5. /\ win'.index = now /\ win'.tokens = w.tokens /\ win'.reserved = w.reserved + Est[u]
      /\ now' = now
  BY <1>2, <1>3 DEF Reserve, WindowState
<1>6. /\ reserved' = reserved \cup {u} /\ madeIn'[u] = now
      /\ \A v \in reserved : madeIn'[v] = madeIn[v]
  BY DEF Reserve, GTypeOK
<1>7. Holders' = {v \in reserved : madeIn[v] = now} \cup {u}
  BY <1>5, <1>6 DEF Holders
<1>8. ~foreign' => Backed(win'.reserved, Holders')
  <2>1. {v \in reserved : madeIn[v] = now} \in SUBSET Units
    BY DEF GTypeOK
  <2> QED BY <1>3, <1>5, <1>7, <2>1, BackedAdd
<1>9. WindowNotOversold'
  <2> SUFFICES ASSUME Tactic # "degrade", ~foreign'
               PROVE  w.tokens + (w.reserved + Est[u]) <= WindowTokens
    BY <1>5 DEF WindowNotOversold
  <2>1. w.tokens + w.reserved <= WindowTokens
    BY <1>3
  <2>2. ~(Est[u] > Monus(WindowTokens, w.tokens + w.reserved))
    BY <1>2 DEF WindowOver
  <2> QED BY <1>4, <2>1, <2>2, BudgetAssumption DEF Monus
<1>10. (win.index <= now)' /\ (\A v \in reserved : madeIn[v] <= win.index)'
  BY <1>3, <1>4, <1>5, <1>6
<1> QED BY <1>8, <1>9, <1>10 DEF GInv

\* An admission that reserves nothing, ...
LEMMA AskInv ==
  ASSUME GTypeOK, GInv, AskOnly
  PROVE  GInv'
<1>1. foreign' = (foreign /\ win.index = now) /\ UNCHANGED <<now, reserved, madeIn>>
  BY DEF AskOnly
<1>2. win' = Rolled /\ now \in Nat
  BY BudgetAssumption DEF AskOnly, GTypeOK
<1>3. /\ win'.index = now /\ \A u \in reserved : madeIn[u] <= now
      /\ ~foreign' => /\ Backed(win'.reserved, {u \in reserved : madeIn[u] = now})
                      /\ Tactic # "degrade" => win'.tokens + win'.reserved <= WindowTokens
  BY <1>1, <1>2, RolledInv
<1>4. Holders' = {u \in reserved : madeIn[u] = now}
  BY <1>1, <1>3 DEF Holders
<1> QED BY <1>1, <1>2, <1>3, <1>4 DEF GInv, WindowNotOversold

\* ... a charge, ...
LEMMA ChargeInv ==
  ASSUME GTypeOK, GInv, NEW n \in Nat, Charge(n)
  PROVE  GInv'
<1>1. /\ now \in Nat /\ win.index \in Nat /\ win.index <= now
      /\ \A u \in reserved : madeIn[u] \in Nat /\ madeIn[u] <= win.index
  BY BudgetAssumption DEF GTypeOK, WindowState, GInv
<1>2. Rolled \in WindowState /\ Rolled.index = now
  BY RolledType DEF Rolled, GTypeOK
<1>3. win'.index = now /\ foreign' = TRUE /\ UNCHANGED <<now, reserved, madeIn>>
  BY <1>2 DEF Charge, WindowState
<1> QED BY <1>1, <1>3 DEF GInv, WindowNotOversold

\* ... and a settlement or a release of what was reserved here: the window
\* gives back as much as it took, and what was used instead is no more.
LEMMA ReturnInv ==
  ASSUME GTypeOK, GInv, NEW u \in Units, NEW n \in Nat, Settle(u, n) \/ Release(u)
  PROVE  GInv'
<1>1. CASE u \notin reserved
  BY <1>1 DEF Settle, Release, gvars, GInv, Holders, WindowNotOversold
<1>2. CASE u \in reserved
  <2>0. /\ win \in WindowState /\ win.reserved \in Nat /\ win.tokens \in Nat /\ Est[u] \in Nat
        /\ now \in Nat
    BY BudgetAssumption DEF GTypeOK, WindowState
  <2>1. PICK t \in Nat :
          /\ win'.index = win.index /\ win'.reserved = Monus(win.reserved, Est[u])
          /\ win'.tokens = win.tokens + t /\ (~foreign' => t <= Est[u])
    <3>1. CASE Settle(u, n)
      <4>1. ~foreign' => ~(n > Est[u])
        BY <1>2, <3>1 DEF Settle
      <4>2. /\ win'.index = win.index /\ win'.reserved = Monus(win.reserved, Est[u])
            /\ win'.tokens = win.tokens + n
        BY <1>2, <2>0, <3>1 DEF Settle, WindowState
      <4>3. ~foreign' => n <= Est[u]
        BY <2>0, <4>1
      <4> QED BY <4>2, <4>3
    <3>2. CASE Release(u)
      <4>1. 0 \in Nat /\ 0 <= Est[u] /\ win.tokens = win.tokens + 0
        BY <2>0
      <4>2. /\ win'.index = win.index /\ win'.reserved = Monus(win.reserved, Est[u])
            /\ win'.tokens = win.tokens
        BY <1>2, <2>0, <3>2 DEF Release, WindowState
      <4> QED BY <4>1, <4>2
    <3> QED BY <3>1, <3>2
  <2>2. /\ reserved' = reserved \ {u} /\ now' = now
        /\ \A v \in reserved \ {u} : madeIn'[v] = madeIn[v]
        /\ ~foreign' => ~foreign /\ madeIn[u] = win.index
    BY <1>2 DEF Settle, Release, GTypeOK
  <2>3. Holders' = Holders \ {u}
    BY <2>1, <2>2 DEF Holders
  <2>4. ASSUME ~foreign'
        PROVE  Backed(win'.reserved, Holders') /\ WindowNotOversold'
    <3>1. u \in Holders /\ Holders \in SUBSET Units /\ Backed(win.reserved, Holders)
      BY <1>2, <2>2, <2>4 DEF Holders, GTypeOK, GInv
    <3>2. Est[u] <= win.reserved /\ Backed(win.reserved - Est[u], Holders \ {u})
      BY <3>1, BackedRemove
    <3>3. Monus(win.reserved, Est[u]) = win.reserved - Est[u]
      BY <2>0, <3>2 DEF Monus
    <3>4. Tactic # "degrade" => win.tokens + win.reserved <= WindowTokens
      BY <2>2, <2>4 DEF GInv, WindowNotOversold
    <3>5. WindowNotOversold'
      BY <2>0, <2>1, <2>4, <3>2, <3>3, <3>4, BudgetAssumption DEF WindowNotOversold
    <3> QED BY <2>1, <2>3, <3>2, <3>3, <3>5
  <2>5. (win.index <= now)' /\ (\A v \in reserved : madeIn[v] <= win.index)'
    BY <2>1, <2>2 DEF GInv
  <2>6. foreign' => WindowNotOversold'
    BY DEF WindowNotOversold
  <2> QED BY <2>4, <2>5, <2>6 DEF GInv
<1> QED BY <1>1, <1>2

\* Neither the clock nor a checkpoint touches the window, ...
LEMMA TimeInv ==
  ASSUME GTypeOK, GInv, Record \/ NextWindow
  PROVE  GInv'
<1>1. /\ UNCHANGED <<win, reserved, madeIn, foreign>> /\ now' \in Nat /\ now <= now'
      /\ now \in Nat /\ win.index \in Nat
  BY BudgetAssumption DEF Record, NextWindow, GTypeOK, WindowState
<1>2. Holders' = Holders
  BY <1>1 DEF Holders
<1> QED BY <1>1, <1>2 DEF GInv, WindowNotOversold

\* ... and what another life counted is not this one's.
LEMMA AdoptInv ==
  ASSUME GTypeOK, Adopt
  PROVE  GInv'
<1>1. RolledOf(stored.win).index = now /\ now \in Nat
  BY RolledType, BudgetAssumption DEF GTypeOK
<1>2. win'.index = now /\ foreign' = TRUE /\ reserved' = {} /\ now' = now
  BY <1>1 DEF Adopt
<1> QED BY <1>1, <1>2 DEF GInv, WindowNotOversold

\* Every step.
LEMMA StepGInv ==
  ASSUME WInv, GInv, Next
  PROVE  GInv'
<1>0. TypeOK /\ GTypeOK
  BY TypeHalves DEF WInv
<1>1. CASE UNCHANGED gvars
  BY <1>1 DEF gvars, GInv, Holders, WindowNotOversold
<1>2. ASSUME NEW u \in Units, Launch(u) PROVE GInv'
  <2>1. CASE Reserves(u)
    <3>1. Verdict(u) = "ok" /\ Reserve(u)
      BY <1>2, <2>1 DEF Launch
    <3>2. Tactic # "degrade" => ~WindowOver(Rolled, u)
      BY <3>1, BudgetAssumption DEF Verdict
    <3>3. u \notin reserved
      BY <1>2 DEF WInv, AllAccounted, Accounted, Unstarted, Launch, Idle
    <3> QED BY <1>0, <3>1, <3>2, <3>3, ReserveInv
  <2>2. CASE ~Reserves(u)
    BY <1>1, <1>2, <2>2 DEF Launch
  <2> QED BY <2>1, <2>2
<1>3. ASSUME NEW u \in Units, Refuse(u) \/ Ask(u) PROVE GInv'
  BY <1>0, <1>1, <1>3, AskInv DEF Refuse, Ask
<1>4. ASSUME NEW u \in Units, OnTurnDone(u) \/ ParkCancelled(u) PROVE GInv'
  <2>1. Head(queue)[3] \in Nat
    BY <1>0, <1>4, HeadType DEF OnTurnDone, ParkCancelled, Event
  <2>2. Settle(u, Head(queue)[3]) \/ Charge(Head(queue)[3]) \/ UNCHANGED gvars
    BY <1>4 DEF OnTurnDone, ParkCancelled
  <2> QED BY <1>0, <1>1, <2>1, <2>2, ReturnInv, ChargeInv
<1>5. ASSUME NEW u \in Units, OnTurnFailed(u) \/ OnReaped(u) \/ AbandonChild(u) PROVE GInv'
  <2>1. Release(u) \/ UNCHANGED gvars
    BY <1>5 DEF OnTurnFailed, OnReaped, AbandonChild, ParkSilent
  <2> QED BY <1>0, <1>1, <2>1, ReturnInv
<1>6. CASE Exit \/ Tick
  <2>1. Record \/ NextWindow
    BY <1>6 DEF Exit, Tick
  <2> QED BY <1>0, <2>1, TimeInv
<1>7. CASE Restart
  BY <1>0, <1>7, AdoptInv DEF Restart
<1>8. ASSUME NEW u \in Units,
             EndRun(u) \/ (\E f \in Frames, n \in Used : Write(u, f, n)) \/ Die(u) \/ Read(u)
               \/ Reap(u) \/ DeferReap(u) \/ Unhealthy(u) \/ WarnYoung(u)
      PROVE  UNCHANGED gvars
  BY <1>8 DEF EndRun, Write, Die, Read, Reap, DeferReap, Unhealthy, WarnYoung
<1>9. BeginDrain \/ ForceDrain \/ Abandon \/ Crash => UNCHANGED gvars
  BY DEF BeginDrain, ForceDrain, Abandon, Crash
<1> QED BY <1>1, <1>2, <1>3, <1>4, <1>5, <1>6, <1>7, <1>8, <1>9 DEF Next, React

\* The admission of the budget governor: as long as a window counts only what
\* was reserved in it, spent and reserved tokens stay within its cap.
THEOREM CapHolds == Spec => []WindowNotOversold
<1>1. Init => GInv
  <2> SUFFICES ASSUME Init PROVE GInv
    OBVIOUS
  <2>1. now = 0 /\ win = Fresh(0) /\ reserved = {}
    BY DEF Init, GInit
  <2>2. win.index = 0 /\ win.tokens = 0 /\ win.reserved = 0 /\ Holders = {}
    BY <2>1 DEF Fresh, Holders
  <2> QED BY <2>1, <2>2, BackedEmpty, BudgetAssumption DEF GInv, WindowNotOversold
<1>2. WInv /\ GInv /\ [Next]_vars => GInv'
  <2>1. WInv /\ GInv /\ UNCHANGED vars => GInv'
    BY DEF vars, gvars, GInv, Holders, WindowNotOversold
  <2> QED BY <2>1, StepGInv
<1>3. GInv => WindowNotOversold
  BY DEF GInv
<1> QED BY <1>1, <1>2, <1>3, WorkersInvariance, PTL DEF Spec
=============================================================================
